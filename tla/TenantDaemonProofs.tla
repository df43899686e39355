-------------------------- MODULE TenantDaemonProofs --------------------------
(***************************************************************************)
(* Proofs about TenantDaemon for every set of users, connections, clients  *)
(* and serials and every capacity of the notification channel.             *)
(***************************************************************************)
EXTENDS TenantDaemon, TLAPS

(***************************************************************************)
(* Type correctness.                                                       *)
(***************************************************************************)

\* The lists that the poller and the agents report are lists of serials.
LEMMA SerialSubsets ==
    /\ LocalSerial \subseteq Serial
    /\ \A u \in Uid : OwnSerial[u] \subseteq Serial
  BY DEF Serial

\* The three kinds of message are messages.
LEMMA MessageType ==
    /\ Register \in Message /\ Unexpected \in Message
    /\ \A S \in SUBSET Serial : Snapshot(S) \in Message
    /\ \A m \in Message : m.type = "snapshot" => m.devices \in SUBSET Serial
  BY DEF Message, Register, Unexpected, Snapshot

\* The variables start with their types.
LEMMA TypeInit == Init => TypeOK
  BY SerialSubsets, ConnAssumption, BoundAssumption
     DEF Init, TypeOK, ConnTypeOK, RegistryTypeOK, ClientTypeOK, TaskState, ClientState, Body,
         NoBody, Service

\* Every step of an agent and of handle_agent preserves the types.
LEMMA TypeConn ==
    ASSUME TypeOK, NEW c \in Conn, AgentStep(c) \/ ConnStep(c)
    PROVE  TypeOK'
  <1> USE ConnAssumption, BoundAssumption, SerialAssumption, SerialSubsets, MessageType
          DEF TypeOK, ConnTypeOK, RegistryTypeOK, ClientTypeOK, TaskState, ClientState,
              vars, serverVars, clientVars, notifyVars, connVars, regVars, histVars, otherVars, daemonVars, pollVars
  <1>1. CASE AgentConnect(c)
    BY <1>1 DEF AgentConnect
  <1>2. CASE AgentRegister(c)
    BY <1>2 DEF AgentRegister
  <1>3. CASE AgentPublish(c)
    BY <1>3 DEF AgentPublish
  <1>4. CASE AgentStop(c)
    BY <1>4 DEF AgentStop
  <1>5. CASE Accept(c)
    BY <1>5 DEF Accept
  <1>6. CASE ReadFirst(c)
    BY <1>6 DEF ReadFirst
  <1>7. CASE InsertAgent(c)
    BY <1>7 DEF InsertAgent
  <1>8. CASE ReadSnapshot(c)
    BY <1>8 DEF ReadSnapshot
  <1>9. CASE NotifySnapshot(c)
    BY <1>9 DEF NotifySnapshot, Notify
  <1>10. CASE ReadEof(c)
    BY <1>10 DEF ReadEof
  <1>11. CASE BeginCleanup(c)
    BY <1>11 DEF BeginCleanup
  <1>12. CASE RemoveAgent(c)
    BY <1>12 DEF RemoveAgent
  <1>13. CASE NotifyRemoval(c)
    BY <1>13 DEF NotifyRemoval, Notify
  <1>14. CASE RemoveOwner(c)
    BY <1>14 DEF RemoveOwner
  <1> QED BY <1>1, <1>2, <1>3, <1>4, <1>5, <1>6, <1>7, <1>8, <1>9, <1>10, <1>11, <1>12, <1>13, <1>14 DEF AgentStep, ConnStep

\* Every step of a client and of handle_adb_client preserves the types.
LEMMA TypeClient ==
    ASSUME TypeOK, NEW k \in Client, ClientStep(k) \/ EnvStep(k)
    PROVE  TypeOK'
  <1> USE ConnAssumption, ClientAssumption, BoundAssumption
          DEF TypeOK, ConnTypeOK, RegistryTypeOK, ClientTypeOK, TaskState, ClientState, Body,
              Service, vars, serverVars, clientVars, notifyVars, connVars, regVars, histVars, otherVars, daemonVars, pollVars
  <1>1. CASE SnapShared(k)
    BY <1>1 DEF SnapShared
  <1>2. CASE SnapPrivate(k)
    <2>1. PrivateOf(UidOfClient[k]) \in SUBSET Serial
      BY DEF PrivateOf
    <2>2. seen' \in [Client -> Body]
      BY <1>2, <2>1 DEF SnapPrivate
    <2> QED BY <1>2, <2>2 DEF SnapPrivate
  <1>3. CASE AnswerDevices(k)
    BY <1>3 DEF AnswerDevices
  <1>4. CASE AnswerOther(k)
    BY <1>4 DEF AnswerOther
  <1>5. CASE Subscribe(k)
    BY <1>5 DEF Subscribe
  <1>6. CASE TrackWrite(k)
    BY <1>6 DEF TrackWrite
  <1>7. CASE TrackRecv(k)
    <2>1. /\ client' \in [Client -> ClientState]
          /\ lagged' \in SUBSET Client
      BY <1>7 DEF TrackRecv
    <2>2. CASE UNCHANGED pending
      BY <1>7, <2>1, <2>2 DEF TrackRecv
    <2>3. CASE pending[k] > 0 /\ pending' = [pending EXCEPT ![k] = @ - 1]
      <3>1. pending[k] - 1 \in 0..NotifyCap
        BY <2>3
      <3>2. pending' \in [Client -> 0..NotifyCap]
        BY <2>3, <3>1
      <3> QED BY <1>7, <2>1, <3>2 DEF TrackRecv
    <2> QED BY <1>7, <2>2, <2>3 DEF TrackRecv
  <1>8. CASE OpenPrivate(k)
    BY <1>8 DEF OpenPrivate
  <1>9. CASE ClientRequest(k)
    BY <1>9 DEF ClientRequest
  <1>10. CASE ClientRejected(k)
    BY <1>10 DEF ClientRejected
  <1>11. CASE TrackGone(k)
    BY <1>11 DEF TrackGone
  <1>12. CASE RouteElsewhere(k)
    BY <1>12 DEF RouteElsewhere
  <1>13. CASE AddTunnel(k)
    BY <1>13 DEF AddTunnel
  <1>14. CASE SessionEnd(k)
    BY <1>14 DEF SessionEnd
  <1> QED BY <1>1, <1>2, <1>3, <1>4, <1>5, <1>6, <1>7, <1>8, <1>9, <1>10, <1>11, <1>12, <1>13, <1>14 DEF ClientStep, EnvStep

\* So does every step of the system, the poller's included.
LEMMA TypeNext == TypeOK /\ [Next]_vars => TypeOK'
  <1> SUFFICES ASSUME TypeOK, [Next]_vars PROVE TypeOK'
    OBVIOUS
  <1>1. ASSUME NEW c \in Conn, AgentStep(c) \/ ConnStep(c) PROVE TypeOK'
    BY <1>1, TypeConn
  <1>2. ASSUME NEW k \in Client, ClientStep(k) \/ EnvStep(k) PROVE TypeOK'
    BY <1>2, TypeClient
  <1>3. CASE PollShared
    BY <1>3, SerialSubsets, BoundAssumption
       DEF PollShared, TypeOK, ConnTypeOK, RegistryTypeOK, ClientTypeOK,
           vars, serverVars, clientVars, notifyVars, connVars, regVars, histVars, otherVars, daemonVars, pollVars
  <1>4. CASE NotifyShared
    BY <1>4, BoundAssumption
       DEF NotifyShared, Notify, TypeOK, ConnTypeOK, RegistryTypeOK, ClientTypeOK,
           vars, serverVars, clientVars, notifyVars, connVars, regVars, histVars, otherVars, daemonVars, pollVars
  <1>5. CASE UNCHANGED vars
    BY <1>5 DEF TypeOK, ConnTypeOK, RegistryTypeOK, ClientTypeOK,
                vars, serverVars, clientVars, notifyVars, connVars, regVars, histVars, otherVars, daemonVars, pollVars
  <1> QED BY <1>1, <1>2, <1>3, <1>4, <1>5 DEF Next

\* Type correctness of the daemon, its registry and its client handlers.
THEOREM TypeCorrect == Spec => []TypeOK
  BY TypeInit, TypeNext, PTL DEF Spec

(***************************************************************************)
(* The table of agents and the lists they published.                       *)
(*                                                                         *)
(* RegisteredIsServed is inductive together with the two facts below: a    *)
(* task that is removing holds the write lock of agents and its user has   *)
(* no entry there, and a connection has published nothing before it is     *)
(* inserted.                                                               *)
(***************************************************************************)

Removing == {"remove_agent", "remove_notify", "remove_owner"}

CleanupHoldsLock ==
    \A c \in Conn : task[c] \in Removing => writer = c /\ agents[UidOfConn[c]] = NoConn

NothingPublishedYet ==
    \A c \in Conn : task[c] \in {"none", "first", "insert"} => c \notin published

TableInv == RegisteredIsServed /\ CleanupHoldsLock /\ NothingPublishedYet /\ PublishedListKept

\* The agents table and the lists start empty.
LEMMA TableInit == Init => TableInv
  BY ConnAssumption
     DEF Init, TableInv, RegisteredIsServed, CleanupHoldsLock, NothingPublishedYet,
         PublishedListKept, Removing

\* Steps that leave the table, the lists and the tasks alone.
LEMMA TableFrame ==
    ASSUME TableInv, UNCHANGED <<task, agents, writer, listed, published>>
    PROVE  TableInv'
  BY DEF TableInv, RegisteredIsServed, CleanupHoldsLock, NothingPublishedYet, PublishedListKept

\* Every step of handle_agent preserves the invariant of the agents table: the cleanup
\* holds the write lock from the removal of the entry to the removal of the list.
LEMMA TableConn ==
    ASSUME TypeOK, TableInv, NEW c \in Conn, ConnStep(c)
    PROVE  TableInv'
  <1> USE ConnAssumption
          DEF TypeOK, ConnTypeOK, RegistryTypeOK, TaskState, Removing, TableInv,
              RegisteredIsServed, CleanupHoldsLock, NothingPublishedYet, PublishedListKept,
              daemonVars, regVars, histVars, otherVars
  <1>1. CASE Accept(c)
    BY <1>1 DEF Accept
  <1>2. CASE ReadFirst(c)
    BY <1>2 DEF ReadFirst
  <1>3. CASE InsertAgent(c)
    BY <1>3 DEF InsertAgent
  <1>4. CASE ReadSnapshot(c)
    BY <1>4 DEF ReadSnapshot
  <1>5. CASE NotifySnapshot(c)
    BY <1>5 DEF NotifySnapshot
  <1>6. CASE ReadEof(c)
    BY <1>6 DEF ReadEof
  <1>7. CASE BeginCleanup(c)
    <2>1. CASE StillRegistered(c)
      <3>1. /\ agents' = [agents EXCEPT ![UidOfConn[c]] = NoConn]
            /\ writer = NoConn /\ writer' = c
            /\ task' = [task EXCEPT ![c] = "remove_agent"]
            /\ UNCHANGED <<listed, published>>
        BY <1>7, <2>1 DEF BeginCleanup
      <3>2. RegisteredIsServed'
        BY <3>1, <2>1 DEF StillRegistered
      <3>3. CleanupHoldsLock'
        BY <3>1
      <3>4. NothingPublishedYet' /\ PublishedListKept'
        BY <3>1
      <3> QED BY <3>2, <3>3, <3>4
    <2>2. CASE ~StillRegistered(c)
      <3>1. /\ task' = [task EXCEPT ![c] = "closed"]
            /\ UNCHANGED <<agents, writer, listed, published>>
        BY <1>7, <2>2 DEF BeginCleanup
      <3>2. ASSUME NEW u \in Uid, agents[u] = c PROVE FALSE
        <4>1. c # NoConn
          OBVIOUS
        <4>2. UidOfConn[c] = u
          BY <3>2, <4>1
        <4> QED BY <2>2, <3>2, <4>2 DEF StillRegistered
      <3>3. RegisteredIsServed' /\ PublishedListKept'
        BY <3>1, <3>2
      <3>4. CleanupHoldsLock' /\ NothingPublishedYet'
        BY <3>1
      <3> QED BY <3>3, <3>4
    <2> QED BY <2>1, <2>2
  <1>8. CASE RemoveAgent(c)
    BY <1>8 DEF RemoveAgent
  <1>9. CASE NotifyRemoval(c)
    BY <1>9 DEF NotifyRemoval
  <1>10. CASE RemoveOwner(c)
    BY <1>10 DEF RemoveOwner
  <1> QED BY <1>1, <1>2, <1>3, <1>4, <1>5, <1>6, <1>7, <1>8, <1>9, <1>10 DEF ConnStep

\* Nobody else touches the table, so every step of the system preserves it.
LEMMA TableNext == TypeOK /\ TableInv /\ [Next]_vars => TableInv'
  <1> SUFFICES ASSUME TypeOK, TableInv, [Next]_vars PROVE TableInv'
    OBVIOUS
  <1>1. ASSUME NEW c \in Conn, ConnStep(c) PROVE TableInv'
    BY <1>1, TableConn
  <1>2. ASSUME NEW c \in Conn, AgentStep(c) PROVE TableInv'
    BY <1>2, TableFrame
       DEF AgentStep, AgentConnect, AgentRegister, AgentPublish, AgentStop, daemonVars, regVars, histVars
  <1>3. CASE PollShared \/ NotifyShared
    BY <1>3, TableFrame DEF PollShared, NotifyShared, connVars, regVars, histVars
  <1>4. ASSUME NEW k \in Client, ClientStep(k) \/ EnvStep(k) PROVE TableInv'
    BY <1>4, TableFrame
       DEF ClientStep, EnvStep, SnapShared, SnapPrivate, AnswerDevices, AnswerOther, Subscribe, TrackWrite, TrackRecv,
           OpenPrivate, ClientRequest, ClientRejected, TrackGone, RouteElsewhere, AddTunnel, SessionEnd,
           serverVars, connVars, regVars, histVars
  <1>5. CASE UNCHANGED vars
    BY <1>5, TableFrame DEF vars, serverVars, connVars, regVars, histVars
  <1> QED BY <1>1, <1>2, <1>3, <1>4, <1>5 DEF Next

\* The daemon never routes a user to a connection of somebody else or to one whose
\* cleanup is over, whatever the overlap of registrations and disconnects.
THEOREM RegisteredIsServedAlways == Spec => []RegisteredIsServed
  <1>1. TableInv => RegisteredIsServed
    BY DEF TableInv
  <1> QED BY TypeInit, TypeNext, TableInit, TableNext, <1>1, PTL DEF Spec

\* No cleanup of an earlier connection removes the list of the agent registered now.
THEOREM PublishedListKeptAlways == Spec => []PublishedListKept
  <1>1. TableInv => PublishedListKept
    BY DEF TableInv
  <1> QED BY TypeInit, TypeNext, TableInit, TableNext, <1>1, PTL DEF Spec

(***************************************************************************)
(* A user loses its registered agent only when that agent is gone.         *)
(***************************************************************************)

CleanupAfterEof == \A c \in Conn : task[c] = "cleanup" => agent[c] = "down" /\ wire[c] = <<>>

\* handle_agent reaches its cleanup only after end of file, and what follows end of file
\* sends nothing more: every step preserves this.
LEMMA EofNext == TypeOK /\ CleanupAfterEof /\ [Next]_vars => CleanupAfterEof'
  <1> SUFFICES ASSUME TypeOK, CleanupAfterEof, [Next]_vars PROVE CleanupAfterEof'
    OBVIOUS
  <1> USE DEF TypeOK, ConnTypeOK, TaskState, CleanupAfterEof
  <1>1. ASSUME NEW c \in Conn, AgentStep(c) PROVE CleanupAfterEof'
    BY <1>1 DEF AgentStep, AgentConnect, AgentRegister, AgentPublish, AgentStop
  <1>2. ASSUME NEW c \in Conn, ConnStep(c) PROVE CleanupAfterEof'
    BY <1>2
       DEF ConnStep, Accept, ReadFirst, InsertAgent, ReadSnapshot, NotifySnapshot,
           ReadEof, BeginCleanup, RemoveAgent, NotifyRemoval, RemoveOwner
  <1>3. CASE PollShared \/ NotifyShared
    BY <1>3 DEF PollShared, NotifyShared, connVars
  <1>4. ASSUME NEW k \in Client, ClientStep(k) \/ EnvStep(k) PROVE CleanupAfterEof'
    BY <1>4
       DEF ClientStep, EnvStep, SnapShared, SnapPrivate, AnswerDevices, AnswerOther, Subscribe, TrackWrite, TrackRecv,
           OpenPrivate, ClientRequest, ClientRejected, TrackGone, RouteElsewhere, AddTunnel, SessionEnd,
           serverVars, connVars
  <1>5. CASE UNCHANGED vars
    BY <1>5 DEF vars, serverVars, connVars
  <1> QED BY <1>1, <1>2, <1>3, <1>4, <1>5 DEF Next

\* The step of the action property: only BeginCleanup takes an entry out of the table.
UnregisterStep ==
    \A u \in Uid : agents[u] # NoConn /\ agents'[u] = NoConn =>
        agent[agents[u]] = "down" /\ wire[agents[u]] = <<>>

\* The only step that empties a user's entry is the cleanup of the connection in it.
LEMMA UnregisterNext == TypeOK /\ CleanupAfterEof /\ [Next]_vars => [UnregisterStep]_vars
  <1> SUFFICES ASSUME TypeOK, CleanupAfterEof, [Next]_vars PROVE [UnregisterStep]_vars
    OBVIOUS
  <1> USE ConnAssumption DEF TypeOK, ConnTypeOK, RegistryTypeOK, UnregisterStep
  <1>1. ASSUME NEW c \in Conn, BeginCleanup(c) PROVE UnregisterStep
    BY <1>1 DEF BeginCleanup, StillRegistered, CleanupAfterEof
  <1>2. ASSUME NEW c \in Conn, InsertAgent(c) PROVE UnregisterStep
    BY <1>2 DEF InsertAgent
  <1>3. ASSUME UNCHANGED agents PROVE UnregisterStep
    BY <1>3
  <1>4. ASSUME NEW c \in Conn, AgentStep(c) \/ (ConnStep(c) /\ ~BeginCleanup(c) /\ ~InsertAgent(c))
        PROVE  UNCHANGED agents
    BY <1>4
       DEF AgentStep, AgentConnect, AgentRegister, AgentPublish, AgentStop, ConnStep, Accept,
           ReadFirst, ReadSnapshot, NotifySnapshot, ReadEof, RemoveAgent,
           NotifyRemoval, RemoveOwner, daemonVars, regVars, histVars
  <1>5. ASSUME PollShared \/ NotifyShared PROVE UNCHANGED agents
    BY <1>5 DEF PollShared, NotifyShared, regVars, histVars
  <1>6. ASSUME NEW k \in Client, ClientStep(k) \/ EnvStep(k) PROVE UNCHANGED agents
    BY <1>6
       DEF ClientStep, EnvStep, SnapShared, SnapPrivate, AnswerDevices, AnswerOther, Subscribe, TrackWrite, TrackRecv,
           OpenPrivate, ClientRequest, ClientRejected, TrackGone, RouteElsewhere, AddTunnel, SessionEnd,
           serverVars, regVars, histVars
  <1> QED BY <1>1, <1>2, <1>3, <1>4, <1>5, <1>6 DEF Next

\* The end of a replaced connection unregisters nobody; the end of the registered one
\* does, and only once everything it sent has been read.
THEOREM OnlyDeadAgentUnregisteredAlways == Spec => OnlyDeadAgentUnregistered
  <1>1. Init => CleanupAfterEof
    BY DEF Init, CleanupAfterEof
  <1>2. [UnregisterStep]_vars => [\A u \in Uid : agents[u] # NoConn /\ agents'[u] = NoConn =>
            agent[agents[u]] = "down" /\ wire[agents[u]] = <<>>]_vars
    BY DEF UnregisterStep
  <1> QED BY TypeInit, TypeNext, EofNext, UnregisterNext, <1>1, <1>2, PTL
          DEF Spec, OnlyDeadAgentUnregistered

(***************************************************************************)
(* No lost wake-up.                                                        *)
(*                                                                         *)
(* TrackerUpToDate speaks of a tracker that waits.  To be inductive it has *)
(* to say what the tracker carries while it reads: from the moment it has  *)
(* read a list, that list is current, or a notification is unread, or the  *)
(* task that changed the list has yet to send one.                         *)
(***************************************************************************)

SharedCurrent ==
    \A k \in Client : client[k] \in {"track_private", "track_write", "recv"} =>
        seen[k].shared = shared \/ Unread(k) \/ poller = "notify"

PrivateCurrent ==
    \A k \in Client : client[k] \in {"track_write", "recv"} =>
        \/ seen[k].private = PrivateOf(UidOfClient[k])
        \/ Unread(k)
        \/ PrivateNotifier(UidOfClient[k])

ShownIsSeen == \A k \in Client : client[k] = "recv" => shown[k] = seen[k]

TrackInv == SharedCurrent /\ PrivateCurrent /\ ShownIsSeen

\* No client tracks anything at first.
LEMMA TrackInit == Init => TrackInv
  BY DEF Init, TrackInv, SharedCurrent, PrivateCurrent, ShownIsSeen

\* After a notification every subscribed tracker has something to receive.
LEMMA NotifyReaches ==
    ASSUME TypeOK, Notify, NEW k \in Client
    PROVE  /\ Subscribed(k) => Unread(k)'
           /\ Unread(k) => Unread(k)'
  BY BoundAssumption DEF TypeOK, ClientTypeOK, Notify, Unread

\* A notification alone establishes the invariant.
LEMMA TrackNotify ==
    ASSUME TypeOK, TrackInv, Notify, UNCHANGED clientVars
    PROVE  TrackInv'
  <1>1. \A k \in Client : Subscribed(k) => Unread(k)'
    BY NotifyReaches
  <1>2. SharedCurrent'
    BY <1>1 DEF SharedCurrent, Subscribed, clientVars
  <1>3. PrivateCurrent'
    BY <1>1 DEF PrivateCurrent, Subscribed, clientVars
  <1>4. ShownIsSeen'
    BY DEF TrackInv, ShownIsSeen, clientVars
  <1> QED BY <1>2, <1>3, <1>4 DEF TrackInv

\* A step of the daemon that changes a private list does it as a notifier-to-be.
LEMMA TrackFrame ==
    ASSUME TrackInv, UNCHANGED <<clientVars, notifyVars, shared, poller>>,
           \A u \in Uid : PrivateOf(u)' = PrivateOf(u) \/ PrivateNotifier(u)',
           \A u \in Uid : PrivateNotifier(u) => PrivateNotifier(u)'
    PROVE  TrackInv'
  <1>1. SharedCurrent'
    BY DEF TrackInv, SharedCurrent, Unread, clientVars, notifyVars
  <1>2. PrivateCurrent'
    BY ClientAssumption DEF TrackInv, PrivateCurrent, Unread, clientVars, notifyVars
  <1>3. ShownIsSeen'
    BY DEF TrackInv, ShownIsSeen, clientVars
  <1> QED BY <1>1, <1>2, <1>3 DEF TrackInv

\* Every step of handle_agent that changes a private list leaves its task about to
\* notify, and the notification reaches every tracker that has not read the new list.
LEMMA TrackConn ==
    ASSUME TypeOK, TrackInv, NEW c \in Conn, AgentStep(c) \/ ConnStep(c)
    PROVE  TrackInv'
  <1> USE ConnAssumption DEF TypeOK, ConnTypeOK, RegistryTypeOK, TaskState
  <1>1. CASE NotifySnapshot(c) \/ NotifyRemoval(c)
    BY <1>1, TrackNotify DEF NotifySnapshot, NotifyRemoval, otherVars
  <1>2. CASE ReadSnapshot(c)
    <2>1. \A u \in Uid : PrivateNotifier(u) => PrivateNotifier(u)'
      BY <1>2 DEF ReadSnapshot, PrivateNotifier
    <2>2. \A u \in Uid : PrivateOf(u)' = PrivateOf(u) \/ PrivateNotifier(u)'
      BY <1>2 DEF ReadSnapshot, PrivateNotifier, PrivateOf
    <2> QED BY <1>2, <2>1, <2>2, TrackFrame DEF ReadSnapshot, otherVars, pollVars
  <1>3. CASE RemoveAgent(c)
    <2>1. \A u \in Uid : PrivateNotifier(u) => PrivateNotifier(u)'
      BY <1>3 DEF RemoveAgent, PrivateNotifier
    <2>2. \A u \in Uid : PrivateOf(u)' = PrivateOf(u) \/ PrivateNotifier(u)'
      BY <1>3 DEF RemoveAgent, PrivateNotifier, PrivateOf
    <2> QED BY <1>3, <2>1, <2>2, TrackFrame DEF RemoveAgent, otherVars, pollVars
  <1>4. CASE AgentStep(c)
    <2>1. UNCHANGED <<task, listed, private, clientVars, notifyVars, shared, poller>>
      BY <1>4 DEF AgentStep, AgentConnect, AgentRegister, AgentPublish, AgentStop, daemonVars,
                  regVars, histVars, otherVars, pollVars
    <2> QED BY <2>1, TrackFrame DEF PrivateOf, PrivateNotifier
  <1>5. CASE \/ Accept(c) \/ ReadFirst(c) \/ InsertAgent(c) \/ ReadEof(c)
             \/ BeginCleanup(c) \/ RemoveOwner(c)
    <2>1. /\ UNCHANGED <<listed, private, clientVars, notifyVars, shared, poller>>
          /\ task[c] \notin {"notify", "remove_notify"}
          /\ \A d \in Conn \ {c} : task'[d] = task[d]
      BY <1>5 DEF Accept, ReadFirst, InsertAgent, ReadEof, BeginCleanup,
                  RemoveOwner, daemonVars, regVars, histVars, otherVars, pollVars
    <2>2. \A u \in Uid : PrivateNotifier(u) => PrivateNotifier(u)'
      BY <2>1 DEF PrivateNotifier
    <2> QED BY <2>1, <2>2, TrackFrame DEF PrivateOf
  <1> QED BY <1>1, <1>2, <1>3, <1>4, <1>5 DEF ConnStep

\* A client's own step: only its own entries change.
LEMMA TrackClient ==
    ASSUME TypeOK, TrackInv, NEW k \in Client, ClientStep(k) \/ EnvStep(k)
    PROVE  TrackInv'
  <1> USE DEF TypeOK, ClientTypeOK, ClientState
  <1>1. /\ UNCHANGED <<shared, listed, private, poller, task>>
        /\ \A j \in Client \ {k} :
              /\ client'[j] = client[j] /\ seen'[j] = seen[j] /\ shown'[j] = shown[j]
              /\ pending'[j] = pending[j] /\ (j \in lagged' <=> j \in lagged)
    BY DEF ClientStep, EnvStep, SnapShared, SnapPrivate, AnswerDevices, AnswerOther, Subscribe,
           TrackWrite, TrackRecv, OpenPrivate, ClientRequest, ClientRejected, TrackGone,
           RouteElsewhere, AddTunnel, SessionEnd,
           serverVars, regVars, histVars, connVars, pollVars, notifyVars
  <1>2. \A u \in Uid : PrivateOf(u)' = PrivateOf(u) /\ (PrivateNotifier(u)' <=> PrivateNotifier(u))
    BY <1>1 DEF PrivateOf, PrivateNotifier
  <1>3. \A j \in Client \ {k} : Unread(j)' <=> Unread(j)
    BY <1>1 DEF Unread
  <1>4. /\ client'[k] \in {"track_private", "track_write", "recv"} =>
              seen'[k].shared = shared \/ Unread(k)' \/ poller = "notify"
        /\ client'[k] \in {"track_write", "recv"} =>
              \/ seen'[k].private = PrivateOf(UidOfClient[k])
              \/ Unread(k)' \/ PrivateNotifier(UidOfClient[k])
        /\ client'[k] = "recv" => shown'[k] = seen'[k]
    <2> USE ClientAssumption DEF TrackInv, SharedCurrent, PrivateCurrent, ShownIsSeen, Body
    <2>1. CASE SnapShared(k)
      BY <2>1 DEF SnapShared
    <2>2. CASE SnapPrivate(k)
      BY <2>2 DEF SnapPrivate, Unread, notifyVars
    <2>3. CASE TrackWrite(k)
      BY <2>3 DEF TrackWrite, Unread, notifyVars
    <2>4. CASE \/ AnswerDevices(k) \/ AnswerOther(k) \/ Subscribe(k) \/ TrackRecv(k)
               \/ OpenPrivate(k) \/ EnvStep(k)
      <3>1. client'[k] \notin {"track_private", "track_write", "recv"}
        BY <2>4 DEF AnswerDevices, AnswerOther, Subscribe, TrackRecv, OpenPrivate, EnvStep,
                    ClientRequest, ClientRejected, TrackGone, RouteElsewhere, AddTunnel, SessionEnd
      <3> QED BY <3>1
    <2> QED BY <2>1, <2>2, <2>3, <2>4 DEF ClientStep
  <1>5. SharedCurrent'
    BY <1>1, <1>3, <1>4 DEF TrackInv, SharedCurrent
  <1>6. PrivateCurrent'
    BY <1>1, <1>2, <1>3, <1>4, ClientAssumption DEF TrackInv, PrivateCurrent
  <1>7. ShownIsSeen'
    BY <1>1, <1>4 DEF TrackInv, ShownIsSeen
  <1> QED BY <1>5, <1>6, <1>7 DEF TrackInv

\* Every step of the system preserves the invariant of the trackers.
LEMMA TrackNext == TypeOK /\ TrackInv /\ [Next]_vars => TrackInv'
  <1> SUFFICES ASSUME TypeOK, TrackInv, [Next]_vars PROVE TrackInv'
    OBVIOUS
  <1>1. ASSUME NEW c \in Conn, AgentStep(c) \/ ConnStep(c) PROVE TrackInv'
    BY <1>1, TrackConn
  <1>2. ASSUME NEW k \in Client, ClientStep(k) \/ EnvStep(k) PROVE TrackInv'
    BY <1>2, TrackClient
  <1>3. CASE NotifyShared
    BY <1>3, TrackNotify DEF NotifyShared
  <1>4. CASE PollShared
    <2>1. /\ UNCHANGED <<clientVars, notifyVars, listed, private, task>>
          /\ shared' = shared \/ poller' = "notify"
          /\ poller # "notify"
      BY <1>4 DEF PollShared, connVars, regVars, histVars
    <2>2. SharedCurrent'
      BY <2>1 DEF TrackInv, SharedCurrent, Unread, clientVars, notifyVars
    <2>3. PrivateCurrent'
      BY <2>1 DEF TrackInv, PrivateCurrent, PrivateOf, PrivateNotifier, Unread, clientVars, notifyVars
    <2>4. ShownIsSeen'
      BY <2>1 DEF TrackInv, ShownIsSeen, clientVars
    <2> QED BY <2>2, <2>3, <2>4 DEF TrackInv
  <1>5. CASE UNCHANGED vars
    <2>1. UNCHANGED <<task, listed, private, clientVars, notifyVars, shared, poller>>
      BY <1>5 DEF vars, serverVars, connVars, regVars, histVars, pollVars
    <2> QED BY <2>1, TrackFrame DEF PrivateOf, PrivateNotifier
  <1> QED BY <1>1, <1>2, <1>3, <1>4, <1>5 DEF Next

\* A tracker never sleeps on an outdated list: whatever the interleaving of updates,
\* the two-lock snapshot and the channel's overflow, a notification is on its way.
THEOREM TrackerUpToDateAlways == Spec => []TrackerUpToDate
  <1>1. TrackInv => TrackerUpToDate
    BY DEF TrackInv, SharedCurrent, PrivateCurrent, ShownIsSeen, TrackerUpToDate
  <1> QED BY TypeInit, TypeNext, TrackInit, TrackNext, <1>1, PTL DEF Spec

(***************************************************************************)
(* Tenant isolation: every snapshot on the wire and every list in the      *)
(* registry is the user's own, hence so is what the clients are shown.     *)
(***************************************************************************)

\* What an agent of user u may send.
OwnMessage(u) ==
    {m \in Message : m.type = "snapshot" => m.devices \subseteq OwnSerial[u]}

WireIsOwn == \A c \in Conn : wire[c] \in Seq(OwnMessage(UidOfConn[c]))

ListsAreOwn == \A u \in Uid : private[u] \subseteq OwnSerial[u]

IsolationInv == WireIsOwn /\ ListsAreOwn /\ TenantIsolation

\* What an agent sends is a message about devices of its own user.
LEMMA OwnMessages ==
    \A u \in Uid :
        /\ Register \in OwnMessage(u) /\ Unexpected \in OwnMessage(u)
        /\ \A S \in SUBSET OwnSerial[u] : Snapshot(S) \in OwnMessage(u)
        /\ \A m \in OwnMessage(u) : m.type = "snapshot" => m.devices \subseteq OwnSerial[u]
  BY SerialSubsets DEF OwnMessage, Message, Register, Unexpected, Snapshot

\* Nothing has been sent, published or shown at first.
LEMMA IsolationInit == Init => IsolationInv
  BY ConnAssumption, ClientAssumption
     DEF Init, IsolationInv, WireIsOwn, ListsAreOwn, TenantIsolation, NoBody

\* Steps of the agents and of handle_agent leave the clients alone.
LEMMA IsolationConn ==
    ASSUME TypeOK, IsolationInv, NEW c \in Conn, AgentStep(c) \/ ConnStep(c)
    PROVE  IsolationInv'
  <1> USE ConnAssumption DEF TypeOK, ConnTypeOK, RegistryTypeOK
  <1>1. UNCHANGED <<seen, shown, session>>
    BY DEF AgentStep, AgentConnect, AgentRegister, AgentPublish, AgentStop, ConnStep, Accept,
           ReadFirst, InsertAgent, ReadSnapshot, NotifySnapshot, ReadEof,
           BeginCleanup, RemoveAgent, NotifyRemoval, RemoveOwner, daemonVars, otherVars, clientVars
  <1>2. TenantIsolation'
    BY <1>1 DEF IsolationInv, TenantIsolation
  <1>3. WireIsOwn'
    <2> USE DEF IsolationInv, WireIsOwn
    <2>1. CASE AgentRegister(c)
      BY <2>1, OwnMessages DEF AgentRegister
    <2>2. CASE AgentPublish(c)
      BY <2>2, OwnMessages DEF AgentPublish
    <2>3. CASE ReadFirst(c) \/ ReadSnapshot(c)
      <3>1. wire[c] # <<>> /\ wire' = [wire EXCEPT ![c] = Tail(@)]
        BY <2>3 DEF ReadFirst, ReadSnapshot
      <3> QED BY <3>1
    <2>4. CASE UNCHANGED wire
      BY <2>4
    <2> QED BY <2>1, <2>2, <2>3, <2>4
            DEF AgentStep, AgentConnect, AgentStop, ConnStep, Accept, InsertAgent,
                NotifySnapshot, ReadEof, BeginCleanup, RemoveAgent, NotifyRemoval, RemoveOwner
  <1>4. ListsAreOwn'
    <2> USE DEF IsolationInv, ListsAreOwn
    <2>1. CASE ReadSnapshot(c)
      <3>1. Head(wire[c]).devices \subseteq OwnSerial[UidOfConn[c]]
        BY <2>1, OwnMessages DEF ReadSnapshot, WireIsOwn
      <3> QED BY <2>1, <3>1 DEF ReadSnapshot
    <2>2. CASE RemoveAgent(c)
      BY <2>2 DEF RemoveAgent
    <2>3. CASE UNCHANGED private
      BY <2>3
    <2> QED BY <2>1, <2>2, <2>3
            DEF AgentStep, AgentConnect, AgentRegister, AgentPublish, AgentStop, ConnStep, Accept,
                ReadFirst, InsertAgent, NotifySnapshot, ReadEof, BeginCleanup,
                NotifyRemoval, RemoveOwner, daemonVars, regVars, histVars
  <1> QED BY <1>2, <1>3, <1>4 DEF IsolationInv

\* A client is shown what it has read, and it reads its own user's list.
LEMMA IsolationClient ==
    ASSUME TypeOK, RegisteredIsServed, IsolationInv, NEW k \in Client, ClientStep(k) \/ EnvStep(k)
    PROVE  IsolationInv'
  <1>1. UNCHANGED <<wire, private>>
    BY DEF ClientStep, EnvStep, SnapShared, SnapPrivate, AnswerDevices, AnswerOther, Subscribe,
           TrackWrite, TrackRecv, OpenPrivate, ClientRequest, ClientRejected, TrackGone,
           RouteElsewhere, AddTunnel, SessionEnd, serverVars, regVars, histVars, connVars
  <1>2. WireIsOwn' /\ ListsAreOwn'
    BY <1>1 DEF IsolationInv, WireIsOwn, ListsAreOwn
  <1>3. TenantIsolation'
    <2> USE ClientAssumption DEF TypeOK, ClientTypeOK, Body, IsolationInv, TenantIsolation
    <2>1. CASE SnapShared(k)
      BY <2>1 DEF SnapShared
    <2>2. CASE SnapPrivate(k)
      BY <2>2 DEF SnapPrivate, PrivateOf, ListsAreOwn
    <2>3. CASE AnswerDevices(k) \/ TrackWrite(k)
      BY <2>3 DEF AnswerDevices, TrackWrite
    <2>4. CASE OpenPrivate(k)
      BY <2>4 DEF OpenPrivate, RegisteredIsServed, RegistryTypeOK
    <2>5. CASE UNCHANGED <<seen, shown, session>>
      BY <2>5
    <2> QED BY <2>1, <2>2, <2>3, <2>4, <2>5
            DEF ClientStep, EnvStep, AnswerOther, Subscribe, TrackRecv, ClientRequest,
                ClientRejected, TrackGone, RouteElsewhere, AddTunnel, SessionEnd
  <1> QED BY <1>2, <1>3 DEF IsolationInv

\* Every step of the system keeps the lists of the users apart.
LEMMA IsolationNext ==
    TypeOK /\ RegisteredIsServed /\ IsolationInv /\ [Next]_vars => IsolationInv'
  <1> SUFFICES ASSUME TypeOK, RegisteredIsServed, IsolationInv, [Next]_vars PROVE IsolationInv'
    OBVIOUS
  <1>1. ASSUME NEW c \in Conn, AgentStep(c) \/ ConnStep(c) PROVE IsolationInv'
    BY <1>1, IsolationConn
  <1>2. ASSUME NEW k \in Client, ClientStep(k) \/ EnvStep(k) PROVE IsolationInv'
    BY <1>2, IsolationClient
  <1>3. CASE PollShared \/ NotifyShared \/ UNCHANGED vars
    <2>1. UNCHANGED <<wire, private, seen, shown, session>>
      BY <1>3 DEF PollShared, NotifyShared, vars, serverVars, connVars, regVars, histVars, clientVars
    <2> QED BY <2>1 DEF IsolationInv, WireIsOwn, ListsAreOwn, TenantIsolation
  <1> QED BY <1>1, <1>2, <1>3 DEF Next

\* No client is shown, or connected to, a device of another user.
THEOREM TenantIsolationAlways == Spec => []TenantIsolation
  <1>1. IsolationInv => TenantIsolation
    BY DEF IsolationInv
  <1> QED BY TypeInit, TypeNext, RegisteredIsServedAlways, IsolationInit, IsolationNext, <1>1, PTL
          DEF Spec

(***************************************************************************)
(* A disconnect takes the user's devices away.                             *)
(*                                                                         *)
(* A list without a registered agent is about to be removed, or it was     *)
(* published with nobody registered, by a connection that outlived its     *)
(* successor.  A connection that reads while nobody is registered was      *)
(* replaced by one whose cleanup has begun.                                *)
(***************************************************************************)

\* A task that serves its agent, and one that has removed its user's list.
Reading == {"read", "notify", "cleanup"}
Over == {"remove_notify", "remove_owner", "closed"}

\* One connection of u has published with nobody registered, another is in one of these
\* positions.
Outlived(u, over) ==
    \E c, d \in Conn :
        /\ UidOfConn[c] = u /\ UidOfConn[d] = u /\ c # d
        /\ c \in late /\ task[d] \in over

ReaderWasReplaced ==
    \A c \in Conn : task[c] \in Reading /\ agents[UidOfConn[c]] = NoConn =>
        \E d \in Conn : d # c /\ UidOfConn[d] = UidOfConn[c] /\ task[d] \in Over \cup {"remove_agent"}

ListHasCause ==
    \A u \in listed : agents[u] = NoConn =>
        \/ \E c \in Conn : UidOfConn[c] = u /\ task[c] = "remove_agent"
        \/ Outlived(u, Over)

CauseInv == ReaderWasReplaced /\ ListHasCause

LEMMA CauseInit == Init => CauseInv
  BY DEF Init, CauseInv, ReaderWasReplaced, ListHasCause, Reading

\* Steps that leave the table, the lists and the tasks alone.
LEMMA CauseFrame ==
    ASSUME CauseInv, UNCHANGED <<task, agents, listed, late>>
    PROVE  CauseInv'
  BY DEF CauseInv, ReaderWasReplaced, ListHasCause, Outlived

\* What a step of handle_agent does to the tasks, the table and the lists: a
\* cleanup goes on, the list goes when it leaves remove_agent; only InsertAgent
\* starts to read; only the cleanup of the registered connection empties an
\* entry; only a snapshot adds a list.
LEMMA ConnStepFacts ==
    ASSUME TypeOK, NEW c \in Conn, ConnStep(c)
    PROVE  /\ \A d \in Conn : task[d] \in Over => task'[d] \in Over
           /\ \A d \in Conn : task[d] = "remove_agent" =>
                 task'[d] = "remove_agent" \/ (task'[d] \in Over /\ UidOfConn[d] \notin listed')
           /\ \A d \in late : d \in late' \/ UidOfConn[d] \notin listed'
           /\ \A d \in Conn : task'[d] \in Reading /\ task[d] \notin Reading =>
                 agents'[UidOfConn[d]] # NoConn
           /\ \A u \in Uid : agents[u] # NoConn /\ agents'[u] = NoConn =>
                 UidOfConn[c] = u /\ task'[c] = "remove_agent"
           /\ \A u \in Uid : u \in listed' /\ u \notin listed =>
                 /\ u = UidOfConn[c] /\ task[c] = "read" /\ (agents[u] = NoConn => c \in late')
                 /\ agents' = agents /\ \A d \in Conn \ {c} : task'[d] = task[d]
  <1> USE ConnAssumption
          DEF TypeOK, ConnTypeOK, RegistryTypeOK, TaskState, Over, Reading, daemonVars, regVars, histVars
  <1>1. CASE Accept(c)
    BY <1>1 DEF Accept
  <1>2. CASE ReadFirst(c)
    BY <1>2 DEF ReadFirst
  <1>3. CASE InsertAgent(c)
    BY <1>3 DEF InsertAgent
  <1>4. CASE ReadSnapshot(c)
    BY <1>4 DEF ReadSnapshot
  <1>5. CASE NotifySnapshot(c)
    BY <1>5 DEF NotifySnapshot
  <1>6. CASE ReadEof(c)
    BY <1>6 DEF ReadEof
  <1>7. CASE BeginCleanup(c)
    BY <1>7 DEF BeginCleanup, StillRegistered
  <1>8. CASE RemoveAgent(c)
    BY <1>8 DEF RemoveAgent
  <1>9. CASE NotifyRemoval(c)
    BY <1>9 DEF NotifyRemoval
  <1>10. CASE RemoveOwner(c)
    BY <1>10 DEF RemoveOwner
  <1> QED BY <1>1, <1>2, <1>3, <1>4, <1>5, <1>6, <1>7, <1>8, <1>9, <1>10 DEF ConnStep

\* A connection that was replaced by one that ended stays so, and who loses the
\* entry of its user loses it to the cleanup of another connection.
LEMMA ReplacedConn ==
    ASSUME TypeOK, ReaderWasReplaced, NEW c \in Conn, ConnStep(c)
    PROVE  ReaderWasReplaced'
  <1> SUFFICES ASSUME NEW e \in Conn, task'[e] \in Reading, agents'[UidOfConn[e]] = NoConn
               PROVE  \E d \in Conn : /\ d # e /\ UidOfConn[d] = UidOfConn[e]
                                      /\ task'[d] \in Over \cup {"remove_agent"}
    BY DEF ReaderWasReplaced
  <1>1. task[e] \in Reading
    BY ConnStepFacts
  <1>2. CASE agents[UidOfConn[e]] = NoConn
    <2>1. PICK d \in Conn : d # e /\ UidOfConn[d] = UidOfConn[e]
                             /\ task[d] \in Over \cup {"remove_agent"}
      BY <1>1, <1>2 DEF ReaderWasReplaced
    <2>2. task'[d] \in Over \cup {"remove_agent"}
      BY <2>1, ConnStepFacts
    <2> QED BY <2>1, <2>2
  <1>3. CASE agents[UidOfConn[e]] # NoConn
    <2>1. UidOfConn[c] = UidOfConn[e] /\ task'[c] = "remove_agent"
      BY <1>3, ConnStepFacts, ConnAssumption
    <2> QED BY <2>1 DEF Reading
  <1> QED BY <1>2, <1>3

\* A list appears by a snapshot, loses its agent to a cleanup that is about to
\* remove it, and goes when that does.
LEMMA CauseConn ==
    ASSUME TypeOK, CauseInv, NEW c \in Conn, ConnStep(c)
    PROVE  ListHasCause'
  <1> SUFFICES ASSUME NEW u \in Uid, u \in listed', agents'[u] = NoConn
               PROVE  \/ \E e \in Conn : UidOfConn[e] = u /\ task'[e] = "remove_agent"
                      \/ Outlived(u, Over)'
    <2>1. listed' \subseteq Uid
      BY TypeConn DEF TypeOK, RegistryTypeOK
    <2> QED BY <2>1 DEF ListHasCause
  <1>1. CASE u \in listed /\ agents[u] = NoConn
    <2>1. ASSUME NEW e \in Conn, UidOfConn[e] = u, task[e] = "remove_agent"
          PROVE  task'[e] = "remove_agent"
      BY <2>1, ConnStepFacts
    <2>2. Outlived(u, Over) => Outlived(u, Over)'
      BY ConnStepFacts DEF Outlived
    <2> QED BY <1>1, <2>1, <2>2 DEF CauseInv, ListHasCause
  <1>2. CASE u \notin listed
    <2>1. /\ u = UidOfConn[c] /\ task[c] = "read" /\ c \in late'
          /\ agents[u] = NoConn /\ \A d \in Conn \ {c} : task'[d] = task[d]
      BY <1>2, ConnStepFacts
    <2>2. PICK d \in Conn : d # c /\ UidOfConn[d] = u
                             /\ task[d] \in Over \cup {"remove_agent"}
      BY <2>1 DEF CauseInv, ReaderWasReplaced, Reading
    <2>3. task'[d] = task[d]
      BY <2>1, <2>2
    <2> QED BY <2>1, <2>2, <2>3 DEF Outlived
  <1>3. CASE agents[u] # NoConn
    <2>1. UidOfConn[c] = u /\ task'[c] = "remove_agent"
      BY <1>3, ConnStepFacts
    <2> QED BY <2>1
  <1> QED BY <1>1, <1>2, <1>3

LEMMA CauseNext == TypeOK /\ CauseInv /\ [Next]_vars => CauseInv'
  <1> SUFFICES ASSUME TypeOK, CauseInv, [Next]_vars PROVE CauseInv'
    OBVIOUS
  <1>1. ASSUME NEW c \in Conn, ConnStep(c) PROVE CauseInv'
    BY <1>1, ReplacedConn, CauseConn DEF CauseInv
  <1>2. ASSUME NEW c \in Conn, AgentStep(c) PROVE CauseInv'
    BY <1>2, CauseFrame
       DEF AgentStep, AgentConnect, AgentRegister, AgentPublish, AgentStop, daemonVars, regVars, histVars
  <1>3. CASE PollShared \/ NotifyShared \/ UNCHANGED vars
    BY <1>3, CauseFrame DEF PollShared, NotifyShared, vars, serverVars, connVars, regVars, histVars
  <1>4. ASSUME NEW k \in Client, ClientStep(k) \/ EnvStep(k) PROVE CauseInv'
    BY <1>4, CauseFrame
       DEF ClientStep, EnvStep, SnapShared, SnapPrivate, AnswerDevices, AnswerOther, Subscribe, TrackWrite, TrackRecv,
           OpenPrivate, ClientRequest, ClientRejected, TrackGone, RouteElsewhere, AddTunnel, SessionEnd,
           serverVars, connVars, regVars, histVars
  <1> QED BY <1>1, <1>2, <1>3, <1>4 DEF Next

\* A user whose agent is gone has no devices listed, but for those that a
\* connection published which its successor had replaced and outlived (the
\* cleanup of handle_agent, src/daemon.rs): for every number of users and of
\* connections and every overlap of their ends.
THEOREM DisconnectRemovesDevicesAlways == Spec => []DisconnectRemovesDevices
  <1>1. TypeOK /\ TableInv /\ CauseInv => DisconnectRemovesDevices
    <2> SUFFICES ASSUME TypeOK, CleanupHoldsLock, ListHasCause,
                        NEW u \in listed, agents[u] = NoConn, writer = NoConn
                 PROVE  \E c, d \in Conn :
                            /\ UidOfConn[c] = u /\ UidOfConn[d] = u /\ c # d
                            /\ c \in late /\ task[d] = "closed"
      BY DEF TableInv, CauseInv, DisconnectRemovesDevices
    <2>1. \A c \in Conn : task[c] \notin Removing
      BY ConnAssumption DEF CleanupHoldsLock
    <2> QED BY <2>1 DEF ListHasCause, Outlived, Removing, Over
  <1> QED BY TypeInit, TypeNext, TableInit, TableNext, CauseInit, CauseNext, <1>1, PTL DEF Spec
=============================================================================
