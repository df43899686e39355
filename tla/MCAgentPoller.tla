--------------------------- MODULE MCAgentPoller ---------------------------
(* Values of the constants of AgentPoller for TLC. *)
EXTENDS AgentPoller

CONSTANTS n1, n2, a1, a2, d1

MCCommands ==
    { [op |-> "pair", name |-> n2, addr |-> a1],
      [op |-> "unpair", name |-> n1],
      [op |-> "node", name |-> n1, on |-> FALSE],
      [op |-> "device", serial |-> d1, on |-> FALSE] }

\* One remote backend, with and without the local server, at either address.
Remote(local, a) ==
    [local    |-> local,
     backends |-> [n \in Names |-> IF n = n1 THEN [addr |-> a, enabled |-> TRUE]
                                             ELSE NoBackend],
     disabled |-> {}]

MCEdits == {Torn, Remote(TRUE, a1), Remote(FALSE, a1), Remote(TRUE, a2)}
=============================================================================
