--------------------------- MODULE MCTenantDaemon ---------------------------
(***************************************************************************)
(* TenantDaemon for TLC.  Either alice reconnects (two connections of one  *)
(* user, one client), or alice and bob each connect once.                  *)
(***************************************************************************)
EXTENDS TenantDaemon

CONSTANTS alice, bob, a1, a2, b1, k1

AliceReconnects == [c \in {a1, a2} |-> alice]
AliceAndBob == [c \in {a1, b1} |-> IF c = a1 THEN alice ELSE bob]
AliceClient == [k \in {k1} |-> alice]
AliceSerials == [u \in {alice} |-> {"phone"}]
OwnSerials == [u \in {alice, bob} |-> IF u = alice THEN {"phone"} ELSE {"tablet"}]
=============================================================================
