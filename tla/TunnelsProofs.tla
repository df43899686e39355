----------------------------- MODULE TunnelsProofs -----------------------------
(***************************************************************************)
(* Proofs about Tunnels for any number of requests, users, ports and       *)
(* connections.                                                            *)
(***************************************************************************)
EXTENDS Tunnels, TLAPS

(***************************************************************************)
(* Type correctness.                                                       *)
(***************************************************************************)

LEMMA PresentType ==
    ASSUME TypeOK, NEW r \in Req, Present(r) # NoReq
    PROVE  /\ Present(r) \in Req /\ Request[r].port \in Port
           /\ listeners[Request[r].port] = Present(r)
  BY DEF TypeOK, Present

LEMMA TypeInit == Init => TypeOK
  <1> SUFFICES ASSUME Init PROVE TypeOK
    OBVIOUS
  <1>1. backlog \in [Req -> Seq(Conn)] /\ accepted \in [Req -> Seq(Conn)]
    BY DEF Init
  <1>2. removed \in 0..MaxRemove
    BY BoundAssumption DEF Init
  <1> QED BY <1>1, <1>2 DEF Init, TypeOK

LEMMA TypeManager ==
    ASSUME TypeOK, NEW r \in Req, Begin(r) \/ RequestStep(r)
    PROVE  TypeOK'
  <1> USE DEF TypeOK, taskVars, connVars
  <1>1. CASE Begin(r)
    BY <1>1 DEF Begin
  <1>2. CASE Mismatch(r)
    BY <1>2 DEF Mismatch
  <1>3. CASE AddFirst(r)
    BY <1>3 DEF AddFirst
  <1>4. CASE TakeDown(r)
    BY <1>4, PresentType DEF TakeDown
  <1>5. CASE TakenDown(r)
    BY <1>5 DEF TakenDown
  <1>6. CASE Bind(r)
    BY <1>6 DEF Bind
  <1>7. CASE BindFailed(r)
    BY <1>7 DEF BindFailed
  <1> QED BY <1>1, <1>2, <1>3, <1>4, <1>5, <1>6, <1>7 DEF RequestStep

LEMMA TypeRemove ==
    ASSUME TypeOK, NEW u \in Owner, RemoveOwner(u)
    PROVE  TypeOK'
  <1>1. removed' \in 0..MaxRemove
    BY BoundAssumption DEF RemoveOwner, TypeOK
  <1>2. listeners' \in [Port -> Req \cup {NoReq}]
    BY DEF RemoveOwner, TypeOK
  <1>3. state' \in [Req -> {"none", "run", "stopping", "draining", "closing", "failed", "closed"}]
    BY DEF RemoveOwner, TypeOK
  <1>4. late' \in SUBSET Conn
    <2>1. ASSUME NEW p \in Port, listeners[p] # NoReq
          PROVE  ToSet(backlog[listeners[p]]) \subseteq Conn
      BY <2>1 DEF TypeOK, ToSet
    <2> QED BY <2>1 DEF RemoveOwner, TypeOK
  <1> QED BY <1>1, <1>2, <1>3, <1>4 DEF RemoveOwner, TypeOK

LEMMA TypeListener ==
    ASSUME TypeOK, NEW r \in Req, ListenerStep(r) \/ Notice(r) \/ AcceptFails(r)
    PROVE  TypeOK'
  <1> USE DEF TypeOK, managerVars, taskVars, connVars
  <1>1. CASE Accept(r)
    <2>1. /\ Head(backlog[r]) \in Conn /\ Tail(backlog[r]) \in Seq(Conn)
          /\ Append(accepted[r], Head(backlog[r])) \in Seq(Conn)
      BY <1>1 DEF Accept
    <2> QED BY <1>1, <2>1 DEF Accept
  <1>2. CASE Stop(r)
    BY <1>2 DEF Stop
  <1>3. CASE Drained(r)
    BY <1>3 DEF Drained
  <1>4. CASE Close(r)
    BY <1>4 DEF Close
  <1>5. CASE Notice(r)
    BY <1>5 DEF Notice
  <1>6. CASE AcceptFails(r)
    BY <1>6 DEF AcceptFails
  <1> QED BY <1>1, <1>2, <1>3, <1>4, <1>5, <1>6 DEF ListenerStep

LEMMA TypeConn ==
    ASSUME TypeOK, NEW c \in Conn,
           ConnStep(c) \/ \E r \in Req : Connect(r, c)
    PROVE  TypeOK'
  <1> USE DEF TypeOK, managerVars, taskVars
  <1>1. CASE Opened(c)
    BY <1>1 DEF Opened
  <1>2. ASSUME NEW r \in Req, NEW i \in DOMAIN accepted[r], accepted[r][i] = c, OpenNext(r, i)
        PROVE  TypeOK'
    BY <1>2 DEF OpenNext
  <1>3. ASSUME NEW r \in Req, Connect(r, c) PROVE TypeOK'
    BY <1>3 DEF Connect
  <1> QED BY <1>1, <1>2, <1>3 DEF ConnStep

LEMMA TypeNext == TypeOK /\ [Next]_vars => TypeOK'
  <1>1. TypeOK /\ UNCHANGED vars => TypeOK'
    BY DEF TypeOK, vars, managerVars, taskVars, connVars
  <1> QED BY <1>1, TypeManager, TypeRemove, TypeListener, TypeConn DEF Next

\* Type correctness of the manager, its listeners and their connections.
THEOREM TypeCorrect == Spec => []TypeOK
  BY TypeInit, TypeNext, PTL DEF Spec

(***************************************************************************)
(* The invariants.                                                         *)
(***************************************************************************)

\* A listener in the map is bound to the port it is found under; one that
\* has not been told to stop is in the map; a request has no listener
\* before it has bound one.
MapInv ==
    /\ \A p \in Port : listeners[p] # NoReq =>
          portOf[listeners[p]] = p /\ state[listeners[p]] # "none"
    /\ \A r \in Req : state[r] = "run" => portOf[r] \in Port /\ listeners[portOf[r]] = r
    /\ \A r \in Req : pc[r] # "ok" => state[r] = "none"

\* A connection waits in one place of one queue, or was accepted once.
QueueInv ==
    /\ \A r \in Req : \A i \in DOMAIN backlog[r] : conn[backlog[r][i]] = "backlog"
    /\ \A r, s \in Req : \A i \in DOMAIN backlog[r] : \A j \in DOMAIN backlog[s] :
          backlog[r][i] = backlog[s][j] => r = s /\ i = j
    /\ \A r \in Req : \A i \in DOMAIN accepted[r] :
          conn[accepted[r][i]] \in {"waiting", "opening", "open", "dropped"}
    /\ \A r, s \in Req : \A i \in DOMAIN accepted[r] : \A j \in DOMAIN accepted[s] :
          accepted[r][i] = accepted[s][j] => r = s /\ i = j

\* Behind a connection that is not done with, all are still waiting.
OrderInv ==
    \A r \in Req : \A i, j \in DOMAIN accepted[r] :
        i < j /\ Pending(accepted[r][i]) => conn[accepted[r][j]] = "waiting"

\* What is left in the queue of a listener that is going to stop, and that
\* the driver has not marked, came late.
Leaving(r) == state[r] \in {"stopping", "draining"} \/ (state[r] = "run" /\ Doomed(r))

LateInv ==
    /\ \A r \in Req : ~Bound(r) => backlog[r] = <<>>
    /\ \A r \in Req : r \notin ready /\ Leaving(r) => ToSet(backlog[r]) \subseteq late
    /\ \A r \in Req : state[r] = "closing" => ToSet(backlog[r]) \subseteq late
    /\ QueuedNotReset

(***************************************************************************)
(* The map of listeners.                                                   *)
(***************************************************************************)

\* Steps of the manager that change no listener.
LEMMA MapFrame ==
    ASSUME TypeOK, MapInv, UNCHANGED <<listeners, state, portOf>>, NEW r \in Req,
           NEW l, pc' = [pc EXCEPT ![r] = l], pc[r] # "ok"
    PROVE  MapInv'
  BY DEF MapInv, TypeOK

LEMMA MapTakeDown ==
    ASSUME TypeOK, MapInv, NEW r \in Req, TakeDown(r)
    PROVE  MapInv'
  <1> DEFINE q == Request[r].port
             l == Present(r)
  <1>1. l \in Req /\ q \in Port /\ listeners[q] = l /\ l # NoReq
    BY PresentType DEF TakeDown
  <1>2. /\ listeners' = [listeners EXCEPT ![q] = NoReq]
        /\ state' = [state EXCEPT ![l] = IF @ = "run" THEN "stopping" ELSE @]
        /\ portOf' = portOf /\ pc[r] = "lock" /\ pc' = [pc EXCEPT ![r] = "await"]
    BY DEF TakeDown
  <1> HIDE DEF q, l
  <1>3. \A p \in Port : listeners'[p] # NoReq =>
           portOf'[listeners'[p]] = p /\ state'[listeners'[p]] # "none"
    BY <1>1, <1>2 DEF MapInv, TypeOK
  <1>4. \A s \in Req : state'[s] = "run" => portOf'[s] \in Port /\ listeners'[portOf'[s]] = s
    BY <1>1, <1>2 DEF MapInv, TypeOK
  <1>5. \A s \in Req : pc'[s] # "ok" => state'[s] = "none"
    BY <1>1, <1>2 DEF MapInv, TypeOK
  <1> QED BY <1>3, <1>4, <1>5 DEF MapInv

LEMMA MapBind ==
    ASSUME TypeOK, MapInv, NEW r \in Req, Bind(r)
    PROVE  MapInv'
  <1>1. PICK p \in Port :
          /\ \A l \in Req : Bound(l) => portOf[l] # p
          /\ portOf' = [portOf EXCEPT ![r] = p]
          /\ listeners' = [listeners EXCEPT ![p] = r]
    BY DEF Bind
  <1>2. /\ state' = [state EXCEPT ![r] = "run"] /\ pc[r] = "bind" /\ pc' = [pc EXCEPT ![r] = "ok"]
        /\ state[r] = "none"
    BY DEF Bind, MapInv
  <1>3. \A q \in Port : listeners'[q] # NoReq =>
           portOf'[listeners'[q]] = q /\ state'[listeners'[q]] # "none"
    BY <1>1, <1>2 DEF MapInv, TypeOK
  <1>4. \A s \in Req : state'[s] = "run" => portOf'[s] \in Port /\ listeners'[portOf'[s]] = s
    BY <1>1, <1>2 DEF MapInv, TypeOK, Bound
  <1>5. \A s \in Req : pc'[s] # "ok" => state'[s] = "none"
    BY <1>1, <1>2 DEF MapInv, TypeOK
  <1> QED BY <1>3, <1>4, <1>5 DEF MapInv

LEMMA MapRemove ==
    ASSUME TypeOK, MapInv, NEW u \in Owner, RemoveOwner(u)
    PROVE  MapInv'
  <1> DEFINE gone == {p \in Port : listeners[p] # NoReq /\ Request[listeners[p]].owner = u}
             tasks == {listeners[p] : p \in gone}
  <1>1. /\ listeners' = [p \in Port |-> IF p \in gone THEN NoReq ELSE listeners[p]]
        /\ state' = [r \in Req |-> IF r \in tasks /\ state[r] = "run" THEN "stopping" ELSE state[r]]
        /\ portOf' = portOf /\ pc' = pc
    BY DEF RemoveOwner
  <1>2. \A p \in gone : listeners[p] \in tasks
    OBVIOUS
  <1> HIDE DEF gone, tasks
  <1>3. \A p \in Port : listeners'[p] # NoReq =>
           portOf'[listeners'[p]] = p /\ state'[listeners'[p]] # "none"
    BY <1>1 DEF MapInv, TypeOK
  <1>4. \A s \in Req : state'[s] = "run" => portOf'[s] \in Port /\ listeners'[portOf'[s]] = s
    BY <1>1, <1>2 DEF MapInv, TypeOK
  <1>5. \A s \in Req : pc'[s] # "ok" => state'[s] = "none"
    BY <1>1 DEF MapInv, TypeOK
  <1> QED BY <1>3, <1>4, <1>5 DEF MapInv

\* The task of a listener never starts to run again.
LEMMA MapTask ==
    ASSUME TypeOK, MapInv, UNCHANGED managerVars, portOf' = portOf, NEW r \in Req,
           NEW l \in {"draining", "closing", "failed", "closed"}, state[r] # "none",
           state' = [state EXCEPT ![r] = l]
    PROVE  MapInv'
  BY DEF MapInv, TypeOK, managerVars

LEMMA MapNext == TypeOK /\ MapInv /\ [Next]_vars => MapInv'
  <1> SUFFICES ASSUME TypeOK, MapInv, [Next]_vars PROVE MapInv'
    OBVIOUS
  <1>1. ASSUME NEW r \in Req, Begin(r) \/ RequestStep(r) PROVE MapInv'
    <2>1. CASE Begin(r) \/ Mismatch(r) \/ AddFirst(r) \/ TakenDown(r) \/ BindFailed(r)
      <3>1. /\ UNCHANGED <<listeners, state, portOf>> /\ pc[r] # "ok"
            /\ \E l : pc' = [pc EXCEPT ![r] = l]
        BY <2>1 DEF Begin, Mismatch, AddFirst, TakenDown, BindFailed, taskVars
      <3> QED BY <3>1, MapFrame
    <2> QED BY <1>1, <2>1, MapTakeDown, MapBind DEF RequestStep
  <1>2. ASSUME NEW r \in Req, ListenerStep(r) \/ Notice(r) \/ AcceptFails(r) PROVE MapInv'
    <2>1. CASE Accept(r) \/ Notice(r)
      BY <2>1 DEF Accept, Notice, MapInv, managerVars, taskVars
    <2>2. CASE Stop(r) \/ Drained(r) \/ Close(r) \/ AcceptFails(r)
      <3>1. /\ UNCHANGED managerVars /\ portOf' = portOf /\ state[r] # "none"
            /\ \E l \in {"draining", "closing", "failed", "closed"} : state' = [state EXCEPT ![r] = l]
        BY <2>2 DEF Stop, Drained, Close, AcceptFails
      <3> QED BY <3>1, MapTask
    <2> QED BY <1>2, <2>1, <2>2 DEF ListenerStep
  <1>3. ASSUME NEW c \in Conn, ConnStep(c) \/ \E r \in Req : Connect(r, c) PROVE MapInv'
    <2>1. UNCHANGED <<managerVars, taskVars>>
      BY <1>3 DEF ConnStep, Opened, OpenNext, Connect
    <2> QED BY <2>1 DEF MapInv, managerVars, taskVars
  <1>4. CASE UNCHANGED vars
    BY <1>4 DEF MapInv, vars, managerVars, taskVars
  <1> QED BY <1>1, <1>2, <1>3, <1>4, MapRemove DEF Next

\* For every number of users, requests and ports: a listener that was not told
\* to stop can be found under its port, however requests for that port and
\* disconnects overlap (TunnelManager in src/tunnel.rs).
THEOREM NoOrphanListenerAlways == Spec => []NoOrphanListener
  <1>1. Init => MapInv
    BY DEF Init, MapInv
  <1>2. MapInv => NoOrphanListener
    BY DEF MapInv, NoOrphanListener
  <1> QED BY <1>1, <1>2, TypeCorrect, MapNext, PTL DEF Spec

(***************************************************************************)
(* The queues.                                                             *)
(***************************************************************************)

\* What the two ends of a queue do to its elements.
LEMMA AppendFacts ==
    ASSUME NEW s \in Seq(Conn), NEW c \in Conn
    PROVE  \A i \in DOMAIN Append(s, c) :
              \/ i \in DOMAIN s /\ Append(s, c)[i] = s[i]
              \/ i = Len(s) + 1 /\ Append(s, c)[i] = c
  OBVIOUS

LEMMA TailFacts ==
    ASSUME NEW s \in Seq(Conn), s # <<>>
    PROVE  /\ 1 \in DOMAIN s /\ Head(s) = s[1]
           /\ \A i \in DOMAIN Tail(s) : i \in Nat /\ i + 1 \in DOMAIN s /\ i + 1 # 1
                                        /\ Tail(s)[i] = s[i + 1]
  OBVIOUS

LEMMA DomainFacts ==
    ASSUME TypeOK, NEW r \in Req
    PROVE  /\ \A i \in DOMAIN backlog[r] : i \in Nat /\ backlog[r][i] \in Conn
           /\ \A i \in DOMAIN accepted[r] : i \in Nat /\ i >= 1 /\ i <= Len(accepted[r])
                                            /\ accepted[r][i] \in Conn
           /\ DOMAIN accepted[r] = 1..Len(accepted[r])
           /\ Len(accepted[r]) \in Nat
  BY DEF TypeOK

\* A connection that comes is in no queue yet.
LEMMA QueueConnect ==
    ASSUME TypeOK, QueueInv, NEW r \in Req, NEW c \in Conn, Connect(r, c)
    PROVE  QueueInv'
  <1>1. /\ conn[c] = "none" /\ conn' = [conn EXCEPT ![c] = "backlog"]
        /\ backlog' = [backlog EXCEPT ![r] = Append(backlog[r], c)] /\ accepted' = accepted
    BY DEF Connect
  <1>2. \A s \in Req : \A i \in DOMAIN backlog[s] : backlog[s][i] # c /\ backlog[s][i] \in Conn
    BY <1>1, DomainFacts DEF QueueInv
  <1>3. \A s \in Req : \A i \in DOMAIN accepted[s] : accepted[s][i] # c /\ accepted[s][i] \in Conn
    BY <1>1, DomainFacts DEF QueueInv
  <1>4. \A s \in Req : \A i \in DOMAIN backlog'[s] :
          \/ i \in DOMAIN backlog[s] /\ backlog'[s][i] = backlog[s][i]
          \/ s = r /\ i = Len(backlog[r]) + 1 /\ backlog'[s][i] = c
    BY <1>1, AppendFacts DEF TypeOK
  <1>5. \A s \in Req : \A i \in DOMAIN backlog'[s] : conn'[backlog'[s][i]] = "backlog"
    BY <1>1, <1>2, <1>4 DEF QueueInv, TypeOK
  <1>6. \A s, t \in Req : \A i \in DOMAIN backlog'[s] : \A j \in DOMAIN backlog'[t] :
          backlog'[s][i] = backlog'[t][j] => s = t /\ i = j
    BY <1>2, <1>4 DEF QueueInv
  <1>7. \A s \in Req : \A i \in DOMAIN accepted[s] :
          conn'[accepted[s][i]] \in {"waiting", "opening", "open", "dropped"}
    BY <1>1, <1>3 DEF QueueInv, TypeOK
  <1> QED BY <1>1, <1>5, <1>6, <1>7 DEF QueueInv

\* What Accept does to the two queues of its listener.
LEMMA AcceptFacts ==
    ASSUME TypeOK, QueueInv, NEW r \in Req, Accept(r)
    PROVE  \E c \in Conn :
             /\ c = backlog[r][1] /\ conn[c] = "backlog"
             /\ \A s \in Req : \A i \in DOMAIN accepted[s] : accepted[s][i] # c
             /\ \E l \in {"waiting", "dropped"} :
                   /\ conn' = [conn EXCEPT ![c] = l]
                   /\ \A s \in Req : \A i \in DOMAIN accepted'[s] :
                        \/ i \in DOMAIN accepted[s] /\ accepted'[s][i] = accepted[s][i]
                        \/ /\ s = r /\ i = Len(accepted[r]) + 1 /\ accepted'[s][i] = c
                           /\ l = "waiting"
             /\ \A s \in Req : \A i \in DOMAIN backlog'[s] :
                   IF s = r THEN /\ i + 1 \in DOMAIN backlog[r] /\ i \in Nat
                                 /\ backlog'[s][i] = backlog[r][i + 1] /\ backlog'[s][i] # c
                            ELSE i \in DOMAIN backlog[s] /\ backlog'[s][i] = backlog[s][i]
  <1> DEFINE c == Head(backlog[r])
  <1>1. backlog[r] \in Seq(Conn) /\ backlog[r] # <<>> /\ accepted[r] \in Seq(Conn)
    BY DEF Accept, TypeOK
  <1>2. c \in Conn /\ c = backlog[r][1] /\ 1 \in DOMAIN backlog[r]
    BY <1>1, TailFacts
  <1>3. conn[c] = "backlog"
    BY <1>2 DEF QueueInv
  <1>4. \A s \in Req : \A i \in DOMAIN accepted[s] : accepted[s][i] # c
    BY <1>3 DEF QueueInv
  <1>5. backlog' = [backlog EXCEPT ![r] = Tail(backlog[r])]
    BY DEF Accept
  <1>6. \/ /\ conn' = [conn EXCEPT ![c] = "waiting"]
           /\ accepted' = [accepted EXCEPT ![r] = Append(accepted[r], c)]
        \/ conn' = [conn EXCEPT ![c] = "dropped"] /\ accepted' = accepted
    <2>1. CASE OwnerOf[c] = Request[r].owner
      BY <2>1 DEF Accept
    <2>2. CASE OwnerOf[c] # Request[r].owner
      <3>1. conn' = [conn EXCEPT ![c] = "dropped"] /\ accepted' = [accepted EXCEPT ![r] = accepted[r]]
        BY <2>2 DEF Accept
      <3> QED BY <3>1 DEF TypeOK
    <2> QED BY <2>1, <2>2
  <1> HIDE DEF c
  <1>7. \E l \in {"waiting", "dropped"} :
           /\ conn' = [conn EXCEPT ![c] = l]
           /\ \A s \in Req : \A i \in DOMAIN accepted'[s] :
                 \/ i \in DOMAIN accepted[s] /\ accepted'[s][i] = accepted[s][i]
                 \/ s = r /\ i = Len(accepted[r]) + 1 /\ accepted'[s][i] = c /\ l = "waiting"
    <2>1. CASE accepted' = [accepted EXCEPT ![r] = Append(accepted[r], c)]
               /\ conn' = [conn EXCEPT ![c] = "waiting"]
      <3>1. \A s \in Req : \A i \in DOMAIN accepted'[s] :
                 \/ i \in DOMAIN accepted[s] /\ accepted'[s][i] = accepted[s][i]
                 \/ s = r /\ i = Len(accepted[r]) + 1 /\ accepted'[s][i] = c
        BY <1>1, <1>2, <2>1, AppendFacts DEF TypeOK
      <3> QED BY <2>1, <3>1
    <2>2. CASE conn' = [conn EXCEPT ![c] = "dropped"] /\ accepted' = accepted
      BY <2>2
    <2> QED BY <1>6, <2>1, <2>2
  <1>8. \A s \in Req : \A i \in DOMAIN backlog'[s] :
           IF s = r THEN /\ i + 1 \in DOMAIN backlog[r] /\ i \in Nat
                         /\ backlog'[s][i] = backlog[r][i + 1] /\ backlog'[s][i] # c
                    ELSE i \in DOMAIN backlog[s] /\ backlog'[s][i] = backlog[s][i]
    <2>1. ASSUME NEW i \in DOMAIN backlog'[r]
          PROVE  /\ i + 1 \in DOMAIN backlog[r] /\ i \in Nat
                 /\ backlog'[r][i] = backlog[r][i + 1] /\ backlog'[r][i] # c
      <3>1. backlog'[r] = Tail(backlog[r])
        BY <1>5 DEF TypeOK
      <3>2. i + 1 \in DOMAIN backlog[r] /\ i \in Nat /\ i + 1 # 1 /\ backlog'[r][i] = backlog[r][i + 1]
        BY <1>1, <3>1, TailFacts
      <3>3. backlog[r][i + 1] # c
        BY <1>2, <3>2 DEF QueueInv
      <3> QED BY <3>2, <3>3
    <2>2. \A s \in Req : s # r => backlog'[s] = backlog[s]
      BY <1>5 DEF TypeOK
    <2> QED BY <2>1, <2>2
  <1> QED BY <1>2, <1>3, <1>4, <1>7, <1>8

LEMMA QueueAccept ==
    ASSUME TypeOK, QueueInv, NEW r \in Req, Accept(r)
    PROVE  QueueInv'
  <1>1. PICK c \in Conn, l \in {"waiting", "dropped"} :
             /\ c = backlog[r][1] /\ conn[c] = "backlog"
             /\ \A s \in Req : \A i \in DOMAIN accepted[s] : accepted[s][i] # c
             /\ conn' = [conn EXCEPT ![c] = l]
             /\ \A s \in Req : \A i \in DOMAIN accepted'[s] :
                   \/ i \in DOMAIN accepted[s] /\ accepted'[s][i] = accepted[s][i]
                   \/ s = r /\ i = Len(accepted[r]) + 1 /\ accepted'[s][i] = c
             /\ \A s \in Req : \A i \in DOMAIN backlog'[s] :
                   IF s = r THEN /\ i + 1 \in DOMAIN backlog[r] /\ i \in Nat
                                 /\ backlog'[s][i] = backlog[r][i + 1] /\ backlog'[s][i] # c
                            ELSE i \in DOMAIN backlog[s] /\ backlog'[s][i] = backlog[s][i]
    BY AcceptFacts
  <1>2. ASSUME NEW s \in Req, NEW i \in DOMAIN backlog'[s]
        PROVE  conn'[backlog'[s][i]] = "backlog"
    <2>1. CASE s = r
      BY <1>1, <2>1, DomainFacts DEF QueueInv, TypeOK
    <2>2. CASE s # r
      <3>1. 1 \in DOMAIN backlog[r]
        BY TailFacts DEF Accept, TypeOK
      <3>2. backlog'[s][i] # c
        BY <1>1, <2>2, <3>1 DEF QueueInv
      <3> QED BY <1>1, <2>2, <3>2, DomainFacts DEF QueueInv, TypeOK
    <2> QED BY <2>1, <2>2
  <1>3. ASSUME NEW s \in Req, NEW t \in Req,
               NEW i \in DOMAIN backlog'[s], NEW j \in DOMAIN backlog'[t],
               backlog'[s][i] = backlog'[t][j]
        PROVE  s = t /\ i = j
    <2>1. CASE s = r /\ t = r
      BY <1>1, <1>3, <2>1 DEF QueueInv
    <2>2. CASE s # r \/ t # r
      BY <1>1, <1>3, <2>2 DEF QueueInv
    <2> QED BY <2>1, <2>2
  <1>4. ASSUME NEW s \in Req, NEW i \in DOMAIN accepted'[s]
        PROVE  conn'[accepted'[s][i]] \in {"waiting", "opening", "open", "dropped"}
    BY <1>1, DomainFacts DEF QueueInv, TypeOK
  <1>5. ASSUME NEW s \in Req, NEW t \in Req,
               NEW i \in DOMAIN accepted'[s], NEW j \in DOMAIN accepted'[t],
               accepted'[s][i] = accepted'[t][j]
        PROVE  s = t /\ i = j
    BY <1>1, <1>5 DEF QueueInv
  <1> QED BY <1>2, <1>3, <1>4, <1>5 DEF QueueInv

LEMMA QueueClose ==
    ASSUME TypeOK, QueueInv, NEW r \in Req, Close(r)
    PROVE  /\ QueueInv'
           /\ \A s \in Req : \A i \in DOMAIN accepted[s] : conn'[accepted[s][i]] = conn[accepted[s][i]]
  <1>1. /\ backlog' = [backlog EXCEPT ![r] = <<>>] /\ accepted' = accepted
        /\ \A c \in Conn : c \notin ToSet(backlog[r]) => conn'[c] = conn[c]
    BY DEF Close
  <1>2. \A c \in ToSet(backlog[r]) : conn[c] = "backlog"
    BY DEF QueueInv, ToSet
  <1>3. \A s \in Req : \A i \in DOMAIN accepted[s] : conn'[accepted[s][i]] = conn[accepted[s][i]]
    <2> SUFFICES ASSUME NEW s \in Req, NEW i \in DOMAIN accepted[s]
                 PROVE  conn'[accepted[s][i]] = conn[accepted[s][i]]
      OBVIOUS
    <2>1. accepted[s][i] \in Conn /\ conn[accepted[s][i]] # "backlog"
      BY DomainFacts DEF QueueInv
    <2> QED BY <1>1, <1>2, <2>1
  <1>4. \A s \in Req : \A i \in DOMAIN backlog'[s] :
           s # r /\ i \in DOMAIN backlog[s] /\ backlog'[s][i] = backlog[s][i]
    BY <1>1 DEF TypeOK
  <1>5. ASSUME NEW s \in Req, NEW i \in DOMAIN backlog'[s]
        PROVE  conn'[backlog'[s][i]] = "backlog"
    <2>1. s # r /\ i \in DOMAIN backlog[s] /\ backlog'[s][i] = backlog[s][i] /\ backlog[s][i] \in Conn
      BY <1>4, <1>5, DomainFacts
    <2>2. backlog[s][i] \notin ToSet(backlog[r])
      BY <2>1 DEF QueueInv, ToSet
    <2> QED BY <1>1, <2>1, <2>2 DEF QueueInv
  <1>6. \A s, t \in Req : \A i \in DOMAIN backlog'[s] : \A j \in DOMAIN backlog'[t] :
          backlog'[s][i] = backlog'[t][j] => s = t /\ i = j
    BY <1>4 DEF QueueInv
  <1> QED BY <1>1, <1>3, <1>5, <1>6 DEF QueueInv

\* Opening changes the state of one accepted connection.
LEMMA QueueOpen ==
    ASSUME TypeOK, QueueInv, NEW c \in Conn, NEW l \in {"opening", "open", "dropped"},
           conn[c] # "backlog", conn' = [conn EXCEPT ![c] = l],
           UNCHANGED <<backlog, accepted>>
    PROVE  QueueInv'
  <1>1. \A s \in Req : \A i \in DOMAIN backlog[s] : conn'[backlog[s][i]] = "backlog"
    BY DomainFacts DEF QueueInv, TypeOK
  <1>2. \A s \in Req : \A i \in DOMAIN accepted[s] :
          conn'[accepted[s][i]] \in {"waiting", "opening", "open", "dropped"}
    BY DomainFacts DEF QueueInv, TypeOK
  <1> QED BY <1>1, <1>2 DEF QueueInv

\* The steps that leave the connections alone.
LEMMA ConnsKept ==
    ASSUME [Next]_vars,
           \A r \in Req : ~Accept(r) /\ ~Close(r) /\ \A c \in Conn : ~Connect(r, c),
           \A c \in Conn : ~ConnStep(c)
    PROVE  UNCHANGED <<backlog, accepted, conn>>
  BY DEF Next, RequestStep, ListenerStep, Begin, Mismatch, AddFirst, TakeDown, TakenDown, Bind,
         BindFailed, RemoveOwner, Notice, Stop, Drained, AcceptFails, connVars, vars

LEMMA QueueNext == TypeOK /\ QueueInv /\ [Next]_vars => QueueInv'
  <1> SUFFICES ASSUME TypeOK, QueueInv, [Next]_vars PROVE QueueInv'
    OBVIOUS
  <1>1. ASSUME NEW c \in Conn, ConnStep(c) PROVE QueueInv'
    <2>1. CASE Opened(c)
      BY <2>1, QueueOpen DEF Opened
    <2>2. ASSUME NEW r \in Req, NEW i \in DOMAIN accepted[r], accepted[r][i] = c, OpenNext(r, i)
          PROVE  QueueInv'
      BY <2>2, QueueOpen DEF OpenNext
    <2> QED BY <1>1, <2>1, <2>2 DEF ConnStep
  <1>2. CASE UNCHANGED <<backlog, accepted, conn>>
    BY <1>2 DEF QueueInv
  <1> QED BY <1>1, <1>2, QueueConnect, QueueAccept, QueueClose, ConnsKept

(***************************************************************************)
(* The order of the connections.                                           *)
(***************************************************************************)

LEMMA OrderAccept ==
    ASSUME TypeOK, QueueInv, OrderInv, NEW r \in Req, Accept(r)
    PROVE  OrderInv'
  <1>1. PICK c \in Conn, l \in {"waiting", "dropped"} :
             /\ \A s \in Req : \A i \in DOMAIN accepted[s] : accepted[s][i] # c
             /\ conn' = [conn EXCEPT ![c] = l]
             /\ \A s \in Req : \A i \in DOMAIN accepted'[s] :
                   \/ i \in DOMAIN accepted[s] /\ accepted'[s][i] = accepted[s][i]
                   \/ s = r /\ i = Len(accepted[r]) + 1 /\ accepted'[s][i] = c /\ l = "waiting"
    BY AcceptFacts
  <1> SUFFICES ASSUME NEW s \in Req, NEW i \in DOMAIN accepted'[s], NEW j \in DOMAIN accepted'[s],
                      i < j, conn'[accepted'[s][i]] \in {"waiting", "opening"}
               PROVE  conn'[accepted'[s][j]] = "waiting"
    BY DEF OrderInv, Pending
  <1>2. CASE accepted'[s][j] = c /\ l = "waiting"
    BY <1>1, <1>2 DEF TypeOK
  <1>3. CASE j \in DOMAIN accepted[s] /\ accepted'[s][j] = accepted[s][j]
    <2>1. i \in DOMAIN accepted[s] /\ accepted'[s][i] = accepted[s][i]
      BY <1>1, <1>3, DomainFacts
    <2>2. /\ conn'[accepted[s][i]] = conn[accepted[s][i]]
          /\ conn'[accepted[s][j]] = conn[accepted[s][j]]
      BY <1>1, <1>3, <2>1, DomainFacts DEF TypeOK
    <2> QED BY <1>3, <2>1, <2>2 DEF OrderInv, Pending
  <1> QED BY <1>1, <1>2, <1>3

\* Whoever opens has all before it done with: the one before is, so that one
\* was not waiting, so none before that was pending.
LEMMA OrderOpenNext ==
    ASSUME TypeOK, QueueInv, OrderInv, NEW r \in Req, NEW k \in DOMAIN accepted[r], OpenNext(r, k)
    PROVE  OrderInv'
  <1> DEFINE c == accepted[r][k]
  <1>1. c \in Conn /\ conn[c] = "waiting" /\ conn' = [conn EXCEPT ![c] = "opening"] /\ accepted' = accepted
    BY DomainFacts DEF OpenNext
  <1>2. \A i \in DOMAIN accepted[r] : i < k => ~Pending(accepted[r][i])
    <2> SUFFICES ASSUME NEW i \in DOMAIN accepted[r], i < k, Pending(accepted[r][i]) PROVE FALSE
      OBVIOUS
    <2>1. k - 1 \in DOMAIN accepted[r] /\ k > 1 /\ (i = k - 1 \/ i < k - 1)
      <3>1. DOMAIN accepted[r] = 1..Len(accepted[r]) /\ Len(accepted[r]) \in Nat
        BY DomainFacts
      <3>2. i \in 1..Len(accepted[r]) /\ k \in 1..Len(accepted[r])
        BY <3>1
      <3>3. k - 1 \in 1..Len(accepted[r]) /\ k > 1 /\ (i = k - 1 \/ i < k - 1)
        BY <3>1, <3>2
      <3> QED BY <3>1, <3>3
    <2>2. ~Pending(accepted[r][k - 1])
      BY <2>1 DEF OpenNext
    <2>3. i < k - 1
      BY <2>1, <2>2
    <2>4. conn[accepted[r][k - 1]] = "waiting"
      BY <2>1, <2>3 DEF OrderInv
    <2> QED BY <2>2, <2>4 DEF Pending
  <1> SUFFICES ASSUME NEW s \in Req, NEW i \in DOMAIN accepted[s], NEW j \in DOMAIN accepted[s],
                      i < j, conn'[accepted[s][i]] \in {"waiting", "opening"}
               PROVE  conn'[accepted[s][j]] = "waiting"
    BY <1>1 DEF OrderInv, Pending
  <1>3. Pending(accepted[s][i])
    BY <1>1, DomainFacts DEF TypeOK, Pending
  <1>4. conn[accepted[s][j]] = "waiting"
    BY <1>3 DEF OrderInv
  <1>5. accepted[s][j] # c
    BY <1>2, <1>3 DEF QueueInv
  <1> QED BY <1>1, <1>4, <1>5, DomainFacts DEF TypeOK

LEMMA OrderOpened ==
    ASSUME TypeOK, QueueInv, OrderInv, NEW c \in Conn, Opened(c)
    PROVE  OrderInv'
  <1>1. PICK l \in {"open", "dropped"} : conn' = [conn EXCEPT ![c] = l]
    BY DEF Opened
  <1>2. conn[c] = "opening" /\ accepted' = accepted
    BY DEF Opened
  <1> SUFFICES ASSUME NEW s \in Req, NEW i \in DOMAIN accepted[s], NEW j \in DOMAIN accepted[s],
                      i < j, conn'[accepted[s][i]] \in {"waiting", "opening"}
               PROVE  conn'[accepted[s][j]] = "waiting"
    BY <1>2 DEF OrderInv, Pending
  <1>3. Pending(accepted[s][i])
    BY <1>1, <1>2, DomainFacts DEF TypeOK, Pending
  <1>4. conn[accepted[s][j]] = "waiting"
    BY <1>3 DEF OrderInv
  <1> QED BY <1>1, <1>2, <1>4, DomainFacts DEF TypeOK

LEMMA OrderNext == TypeOK /\ QueueInv /\ OrderInv /\ [Next]_vars => OrderInv'
  <1> SUFFICES ASSUME TypeOK, QueueInv, OrderInv, [Next]_vars PROVE OrderInv'
    OBVIOUS
  <1>1. ASSUME NEW r \in Req, NEW c \in Conn, Connect(r, c) PROVE OrderInv'
    <2>1. conn[c] = "none" /\ conn' = [conn EXCEPT ![c] = "backlog"] /\ accepted' = accepted
      BY <1>1 DEF Connect
    <2>2. ASSUME NEW s \in Req, NEW i \in DOMAIN accepted[s]
          PROVE  conn'[accepted[s][i]] = conn[accepted[s][i]]
      <3>1. accepted[s][i] # c
        BY <2>1 DEF QueueInv
      <3> QED BY <2>1, <3>1, DomainFacts DEF TypeOK
    <2> QED BY <2>1, <2>2 DEF OrderInv, Pending
  <1>2. ASSUME NEW r \in Req, Close(r) PROVE OrderInv'
    <2>1. \A s \in Req : \A i \in DOMAIN accepted[s] : conn'[accepted[s][i]] = conn[accepted[s][i]]
      BY <1>2, QueueClose
    <2>2. accepted' = accepted
      BY <1>2 DEF Close
    <2> QED BY <2>1, <2>2 DEF OrderInv, Pending
  <1>3. ASSUME NEW c \in Conn, ConnStep(c) PROVE OrderInv'
    BY <1>3, OrderOpened, OrderOpenNext DEF ConnStep
  <1>4. CASE UNCHANGED <<backlog, accepted, conn>>
    BY <1>4 DEF OrderInv, Pending
  <1> QED BY <1>1, <1>2, <1>3, <1>4, OrderAccept, ConnsKept

\* For any number of connections to a forward: none is opened towards the
\* device while one accepted before it is still being opened, although its task
\* waits for its predecessor only (the chain of `done` channels in src/tunnel.rs).
THEOREM OrderPreservedAlways == Spec => []OrderPreserved
  <1>1. Init => QueueInv /\ OrderInv
    BY DEF Init, QueueInv, OrderInv
  <1>2. OrderInv => OrderPreserved
    BY DEF OrderInv, OrderPreserved, Pending
  <1> QED BY <1>1, <1>2, TypeCorrect, QueueNext, OrderNext, PTL DEF Spec

(***************************************************************************)
(* Connections that are reset came late.                                   *)
(***************************************************************************)

LEMMA ToSetFacts ==
    ASSUME NEW s \in Seq(Conn)
    PROVE  /\ s = <<>> => ToSet(s) = {}
           /\ s # <<>> => ToSet(Tail(s)) \subseteq ToSet(s)
           /\ \A c \in Conn : ToSet(Append(s, c)) = ToSet(s) \cup {c}
  <1>1. s = <<>> => ToSet(s) = {}
    BY DEF ToSet
  <1>2. s # <<>> => ToSet(Tail(s)) \subseteq ToSet(s)
    BY TailFacts DEF ToSet
  <1>3. ASSUME NEW c \in Conn PROVE ToSet(Append(s, c)) = ToSet(s) \cup {c}
    <2>1. ToSet(Append(s, c)) \subseteq ToSet(s) \cup {c}
      BY AppendFacts DEF ToSet
    <2>2. \A i \in DOMAIN s : i \in DOMAIN Append(s, c) /\ Append(s, c)[i] = s[i]
      OBVIOUS
    <2>3. Len(s) + 1 \in DOMAIN Append(s, c) /\ Append(s, c)[Len(s) + 1] = c
      OBVIOUS
    <2>4. ToSet(s) \cup {c} \subseteq ToSet(Append(s, c))
      BY <2>2, <2>3 DEF ToSet
    <2> QED BY <2>1, <2>4
  <1> QED BY <1>1, <1>2, <1>3

\* Only Begin makes a listener that runs doomed, or Bind: at the first the driver
\* has marked it, at the second it has no connections.
LEMMA LateBegin ==
    ASSUME TypeOK, LateInv, NEW r \in Req, Begin(r)
    PROVE  LateInv'
  <1>1. /\ ready' = ready \cup {l \in Req : backlog[l] # <<>>}
        /\ UNCHANGED <<state, portOf, backlog, conn, late>>
    BY DEF Begin, taskVars
  <1>2. ASSUME NEW l \in Req, l \notin ready' PROVE ToSet(backlog[l]) = {}
    BY <1>1, <1>2, ToSetFacts DEF TypeOK
  <1> QED BY <1>1, <1>2 DEF LateInv, Bound, QueuedNotReset

\* A request that has begun, and the others that have not, doom what they did.
LEMMA LateManager ==
    ASSUME TypeOK, LateInv, NEW r \in Req, pc[r] # "idle",
           NEW l, l # "lock", pc' = [pc EXCEPT ![r] = l],
           UNCHANGED <<state, portOf, connVars>>
    PROVE  LateInv'
  <1>1. \A s \in Req : Doomed(s)' => Doomed(s)
    BY DEF Doomed, TypeOK
  <1> QED BY <1>1 DEF LateInv, Leaving, Bound, QueuedNotReset, connVars

LEMMA LateTakeDown ==
    ASSUME TypeOK, MapInv, LateInv, NEW r \in Req, TakeDown(r)
    PROVE  LateInv'
  <1> DEFINE l == Present(r)
  <1>1. l \in Req /\ Request[r].port = portOf[l] /\ Same(r, l) /\ pc[r] = "lock"
    BY PresentType DEF TakeDown, MapInv
  <1>2. Doomed(l)
    BY <1>1 DEF Doomed
  <1>3. /\ state' = [state EXCEPT ![l] = IF state[l] = "run" THEN "stopping" ELSE state[l]]
        /\ portOf' = portOf /\ pc' = [pc EXCEPT ![r] = "await"]
        /\ UNCHANGED <<backlog, ready, conn, late>>
    BY DEF TakeDown, connVars
  <1> HIDE DEF l
  <1>4. \A s \in Req : Doomed(s)' => Doomed(s)
    BY <1>3 DEF Doomed, TypeOK
  <1>5. \A s \in Req : (Bound(s)' <=> Bound(s)) /\ (Leaving(s)' => Leaving(s))
    BY <1>1, <1>2, <1>3, <1>4 DEF Bound, Leaving, TypeOK
  <1>6. \A s \in Req : state'[s] = "closing" => state[s] = "closing"
    BY <1>1, <1>3 DEF TypeOK
  <1> QED BY <1>3, <1>5, <1>6 DEF LateInv, QueuedNotReset

LEMMA LateBind ==
    ASSUME TypeOK, MapInv, LateInv, NEW r \in Req, Bind(r)
    PROVE  LateInv'
  <1>1. /\ state[r] = "none" /\ state' = [state EXCEPT ![r] = "run"]
        /\ pc[r] = "bind" /\ pc' = [pc EXCEPT ![r] = "ok"]
        /\ UNCHANGED <<backlog, ready, conn, late>>
        /\ \E p : portOf' = [portOf EXCEPT ![r] = p]
    BY DEF Bind, MapInv, connVars
  <1>2. backlog[r] = <<>> /\ ToSet(backlog[r]) = {}
    BY <1>1, ToSetFacts DEF LateInv, Bound, TypeOK
  <1>3. \A s \in Req \ {r} : (Bound(s)' <=> Bound(s)) /\ (Leaving(s)' => Leaving(s))
    BY <1>1 DEF Bound, Leaving, Doomed, TypeOK
  <1>4. \A s \in Req : state'[s] = "closing" => state[s] = "closing"
    BY <1>1 DEF TypeOK
  <1> QED BY <1>1, <1>2, <1>3, <1>4 DEF LateInv, QueuedNotReset

\* A user whose agent goes away: what the driver had not reported counts as late.
LEMMA LateRemove ==
    ASSUME TypeOK, LateInv, NEW u \in Owner, RemoveOwner(u)
    PROVE  LateInv'
  <1> DEFINE tasks == {listeners[p] : p \in {p \in Port :
                          listeners[p] # NoReq /\ Request[listeners[p]].owner = u}}
  <1>1. /\ state' = [r \in Req |-> IF r \in tasks /\ state[r] = "run" THEN "stopping" ELSE state[r]]
        /\ late' = late \cup UNION {ToSet(backlog[r]) : r \in tasks \ ready}
        /\ UNCHANGED <<pc, portOf, backlog, ready, conn>>
    BY DEF RemoveOwner
  <1> HIDE DEF tasks
  <1>2. late \subseteq late' /\ \A r \in tasks \ ready : ToSet(backlog[r]) \subseteq late'
    BY <1>1
  <1>3. \A s \in Req : (Bound(s)' <=> Bound(s)) /\ (Leaving(s)' => Leaving(s) \/ s \in tasks)
    BY <1>1 DEF Bound, Leaving, Doomed, TypeOK
  <1>4. \A s \in Req : state'[s] = "closing" => state[s] = "closing"
    BY <1>1 DEF TypeOK
  <1>5. ASSUME NEW s \in Req, s \notin ready', Leaving(s)' PROVE ToSet(backlog'[s]) \subseteq late'
    BY <1>1, <1>2, <1>3, <1>5 DEF LateInv
  <1>6. ASSUME NEW s \in Req, state'[s] = "closing" PROVE ToSet(backlog'[s]) \subseteq late'
    BY <1>1, <1>2, <1>4, <1>6 DEF LateInv
  <1> QED BY <1>1, <1>2, <1>3, <1>5, <1>6 DEF LateInv, QueuedNotReset

LEMMA LateConnect ==
    ASSUME TypeOK, LateInv, NEW r \in Req, NEW c \in Conn, Connect(r, c)
    PROVE  LateInv'
  <1>1. /\ Bound(r) /\ UNCHANGED <<pc, state, portOf, ready>>
        /\ conn' = [conn EXCEPT ![c] = "backlog"]
        /\ backlog' = [backlog EXCEPT ![r] = Append(backlog[r], c)]
    BY DEF Connect, managerVars, taskVars
  <1>2. late \subseteq late' /\ ((state[r] = "run" /\ ~Doomed(r)) \/ c \in late')
    BY DEF Connect
  <1>3. \A s \in Req : /\ Bound(s)' <=> Bound(s)
                       /\ Leaving(s)' <=> Leaving(s)
    BY <1>1 DEF Bound, Leaving, Doomed
  <1>4. ToSet(backlog'[r]) = ToSet(backlog[r]) \cup {c} /\ \A s \in Req \ {r} : backlog'[s] = backlog[s]
    BY <1>1, ToSetFacts DEF TypeOK
  <1>5. ASSUME NEW s \in Req, s \notin ready', Leaving(s)' PROVE ToSet(backlog'[s]) \subseteq late'
    <2>1. ToSet(backlog[s]) \subseteq late
      BY <1>1, <1>3, <1>5 DEF LateInv
    <2>2. s = r => c \in late'
      BY <1>2, <1>3, <1>5 DEF Leaving
    <2> QED BY <1>2, <1>4, <2>1, <2>2
  <1>6. ASSUME NEW s \in Req, state'[s] = "closing" PROVE ToSet(backlog'[s]) \subseteq late'
    <2>1. ToSet(backlog[s]) \subseteq late
      BY <1>1, <1>6 DEF LateInv
    <2>2. s = r => c \in late'
      BY <1>1, <1>2, <1>6
    <2> QED BY <1>2, <1>4, <2>1, <2>2
  <1>7. \A s \in Req : ~Bound(s)' => backlog'[s] = <<>>
    BY <1>1, <1>3, <1>4 DEF LateInv
  <1>8. QueuedNotReset'
    BY <1>1, <1>2 DEF LateInv, QueuedNotReset, TypeOK
  <1> QED BY <1>5, <1>6, <1>7, <1>8 DEF LateInv

LEMMA LateAccept ==
    ASSUME TypeOK, LateInv, NEW r \in Req, Accept(r)
    PROVE  LateInv'
  <1>1. /\ state[r] \in {"run", "draining"} /\ backlog[r] # <<>>
        /\ UNCHANGED <<pc, state, portOf, late>> /\ r \in ready
        /\ backlog' = [backlog EXCEPT ![r] = Tail(backlog[r])]
        /\ ready' = IF Tail(backlog[r]) = <<>> THEN ready \ {r} ELSE ready
    BY DEF Accept, managerVars, taskVars
  <1>2. \A s \in Req : (Bound(s)' <=> Bound(s)) /\ (Leaving(s)' <=> Leaving(s))
    BY <1>1 DEF Bound, Leaving, Doomed
  <1>3. backlog'[r] = Tail(backlog[r]) /\ \A s \in Req \ {r} : backlog'[s] = backlog[s]
    BY <1>1 DEF TypeOK
  <1>4. ASSUME NEW s \in Req, s \notin ready', Leaving(s)' PROVE ToSet(backlog'[s]) \subseteq late'
    <2>1. CASE s = r
      <3>1. backlog'[r] = <<>>
        BY <1>1, <1>3, <1>4, <2>1
      <3> QED BY <2>1, <3>1, ToSetFacts, TypeListener DEF ListenerStep, TypeOK
    <2>2. CASE s # r
      BY <1>1, <1>2, <1>3, <1>4, <2>2 DEF LateInv
    <2> QED BY <2>1, <2>2
  <1>5. ASSUME NEW s \in Req, state'[s] = "closing" PROVE ToSet(backlog'[s]) \subseteq late'
    BY <1>1, <1>3, <1>5 DEF LateInv
  <1>6. \A s \in Req : ~Bound(s)' => backlog'[s] = <<>>
    BY <1>1, <1>2, <1>3 DEF LateInv, Bound
  <1>7. QueuedNotReset'
    <2>1. Head(backlog[r]) \in Conn
      BY <1>1 DEF TypeOK
    <2>2. \E l \in {"waiting", "dropped"} : conn' = [conn EXCEPT ![Head(backlog[r])] = l]
      BY DEF Accept
    <2> QED BY <1>1, <2>1, <2>2 DEF LateInv, QueuedNotReset, TypeOK
  <1> QED BY <1>4, <1>5, <1>6, <1>7 DEF LateInv

\* The loop ends with an empty queue or without the mark.
LEMMA LateTask ==
    ASSUME TypeOK, LateInv, NEW r \in Req, Stop(r) \/ Drained(r) \/ AcceptFails(r)
    PROVE  LateInv'
  <1>1. UNCHANGED <<pc, portOf, backlog, ready, conn, late>>
    BY DEF Stop, Drained, AcceptFails, managerVars, connVars
  <1>2. Bound(r) /\ Bound(r)' /\ \A s \in Req \ {r} : state'[s] = state[s]
    BY DEF Stop, Drained, AcceptFails, Bound, TypeOK
  <1>3. Leaving(r)' => Leaving(r)
    BY <1>1 DEF Stop, Drained, AcceptFails, Leaving, TypeOK
  <1>4. state'[r] = "closing" => ToSet(backlog[r]) \subseteq late
    <2>1. CASE Drained(r)
      BY <2>1, ToSetFacts DEF Drained, LateInv, Leaving, TypeOK
    <2>2. CASE Stop(r) \/ AcceptFails(r)
      BY <2>2 DEF Stop, AcceptFails, TypeOK
    <2> QED BY <2>1, <2>2
  <1>5. \A s \in Req \ {r} : (Bound(s)' <=> Bound(s)) /\ (Leaving(s)' <=> Leaving(s))
    BY <1>1, <1>2 DEF Bound, Leaving, Doomed
  <1> QED BY <1>1, <1>2, <1>3, <1>4, <1>5 DEF LateInv, QueuedNotReset

\* The close resets what came late.
LEMMA LateClose ==
    ASSUME TypeOK, LateInv, NEW r \in Req, Close(r)
    PROVE  LateInv'
  <1>1. /\ UNCHANGED <<pc, portOf, late>>
        /\ state' = [state EXCEPT ![r] = "closed"]
        /\ backlog' = [backlog EXCEPT ![r] = <<>>] /\ ready' = ready \ {r}
    BY DEF Close, managerVars
  <1>2. backlog'[r] = <<>> /\ ~Leaving(r)' /\ state'[r] = "closed"
    BY <1>1 DEF Leaving, TypeOK
  <1>3. \A s \in Req \ {r} :
           /\ (Bound(s)' <=> Bound(s)) /\ (Leaving(s)' <=> Leaving(s))
           /\ backlog'[s] = backlog[s] /\ (s \in ready' <=> s \in ready) /\ state'[s] = state[s]
    BY <1>1 DEF Bound, Leaving, Doomed, TypeOK
  <1>4. \A c \in Conn : conn'[c] = "reset" =>
           conn[c] = "reset" \/ (state[r] = "closing" /\ c \in ToSet(backlog[r]))
    BY DEF Close
  <1>5. QueuedNotReset'
    BY <1>1, <1>4 DEF LateInv, QueuedNotReset
  <1> QED BY <1>1, <1>2, <1>3, <1>5 DEF LateInv

LEMMA LateNext == TypeOK /\ MapInv /\ LateInv /\ [Next]_vars => LateInv'
  <1> SUFFICES ASSUME TypeOK, MapInv, LateInv, [Next]_vars PROVE LateInv'
    OBVIOUS
  <1>1. ASSUME NEW r \in Req, RequestStep(r) PROVE LateInv'
    <2>1. CASE Mismatch(r) \/ AddFirst(r) \/ TakenDown(r) \/ BindFailed(r)
      <3>1. /\ UNCHANGED <<state, portOf, connVars>> /\ pc[r] # "idle"
            /\ \E l \in {"refused", "bind", "ok"} : pc' = [pc EXCEPT ![r] = l]
        BY <2>1 DEF Mismatch, AddFirst, TakenDown, BindFailed, taskVars
      <3> QED BY <3>1, LateManager
    <2> QED BY <1>1, <2>1, LateTakeDown, LateBind DEF RequestStep
  <1>2. ASSUME NEW r \in Req, Notice(r) PROVE LateInv'
    <2>1. /\ ready' = ready \cup {r} /\ UNCHANGED <<pc, state, portOf, backlog, conn, late>>
      BY <1>2 DEF Notice, managerVars, taskVars
    <2>2. \A s \in Req : (Bound(s)' <=> Bound(s)) /\ (Leaving(s)' <=> Leaving(s))
      BY <2>1 DEF Bound, Leaving, Doomed
    <2> QED BY <2>1, <2>2 DEF LateInv, QueuedNotReset
  <1>3. ASSUME NEW c \in Conn, ConnStep(c) PROVE LateInv'
    <2>1. /\ UNCHANGED <<pc, state, portOf, backlog, ready, late>>
          /\ \A d \in Conn : conn'[d] = "reset" => conn[d] = "reset"
      BY <1>3 DEF ConnStep, Opened, OpenNext, managerVars, taskVars, TypeOK
    <2>2. \A s \in Req : (Bound(s)' <=> Bound(s)) /\ (Leaving(s)' <=> Leaving(s))
      BY <2>1 DEF Bound, Leaving, Doomed
    <2> QED BY <2>1, <2>2 DEF LateInv, QueuedNotReset
  <1>4. CASE UNCHANGED vars
    BY <1>4 DEF LateInv, Leaving, Doomed, Bound, QueuedNotReset, vars, managerVars, taskVars, connVars
  <1> QED BY <1>1, <1>2, <1>3, <1>4, LateBegin, LateRemove, LateConnect, LateAccept, LateTask,
             LateClose DEF Next, ListenerStep

\* For any number of forwards, requests and connections: a connection made
\* before the request to remove or replace its forward was read is never reset,
\* though the last poll of the listener asks the kernel only when the driver
\* has marked it (the draining loop of src/tunnel.rs).
THEOREM QueuedNotResetAlways == Spec => []QueuedNotReset
  <1>1. Init => MapInv /\ LateInv
    BY ToSetFacts DEF Init, MapInv, LateInv, Leaving, QueuedNotReset
  <1>2. LateInv => QueuedNotReset
    BY DEF LateInv
  <1> QED BY <1>1, <1>2, TypeCorrect, MapNext, LateNext, PTL DEF Spec

================================================================================
