--------------------------- MODULE MCPolicyReload ---------------------------
(* Values of the constants of PolicyReload for TLC. *)
EXTENDS PolicyReload

CONSTANTS n1, n2, a1, d1, p1, p2

MCCommands ==
    { [op |-> "pair", name |-> n2, addr |-> a1],
      [op |-> "unpair", name |-> n1],
      [op |-> "node", name |-> n1, on |-> FALSE],
      [op |-> "device", serial |-> d1, on |-> FALSE] }

\* One remote backend and no local server: unpairing it leaves a document
\* that does not load.
MCEdits ==
    { Torn,
      [local    |-> FALSE,
       backends |-> [n \in Names |-> IF n = n1 THEN [addr |-> a1, enabled |-> TRUE]
                                               ELSE NoBackend],
       disabled |-> {}] }
=============================================================================
