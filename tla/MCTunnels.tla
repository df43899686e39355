------------------------------ MODULE MCTunnels ------------------------------
(***************************************************************************)
(* Tunnels for TLC: one user adds a forward, adds it again and removes it, *)
(* another lets the system pick a port.                                    *)
(***************************************************************************)
EXTENDS Tunnels

CONSTANTS alice, bob, add, again, kill, other, c1, c2, p1, p2

Forward(op, p, u) == [op |-> op, port |-> p, serial |-> "phone", owner |-> u]

Requests == [r \in {add, again, kill, other} |->
                CASE r = kill  -> Forward("kill", p1, alice)
                  [] r = other -> Forward("add", Ephemeral, bob)
                  [] OTHER     -> Forward("add", p1, alice)]

Owners == [c \in {c1, c2} |-> alice]
=============================================================================
