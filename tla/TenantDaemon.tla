----------------------------- MODULE TenantDaemon -----------------------------
(***************************************************************************)
(* The shared data plane of the multi-user hub (src/src/daemon.rs) and its *)
(* tenant registry (src/src/tenant.rs): control connections of the users'  *)
(* agents, the per-user device lists they publish, and the ADB clients     *)
(* that read and track those lists.                                        *)
(*                                                                         *)
(* A step is what a task does between two points where another task of the *)
(* runtime may run: an awaited lock, the gap between dropping a registry   *)
(* lock and sending the change notification, and the two separate locks    *)
(* that snapshot_for takes.                                                *)
(*                                                                         *)
(* A device list is the set of its public serials.  The multiplexed        *)
(* streams of a control connection are the subject of PrivateStream.       *)
(***************************************************************************)
EXTENDS Naturals, Sequences, FiniteSets

CONSTANTS
    Uid,            \* operating-system users
    Conn,           \* control connections, each one life of one agent process
    UidOfConn,      \* SO_PEERCRED: the user behind a control connection
    Client,         \* accepted ADB client connections
    UidOfClient,    \* inet_diag: the user behind a client connection
    LocalSerial,    \* serials the server-local ADB backend may list
    OwnSerial,      \* OwnSerial[u]: serials of the backends user u has paired
    NotifyCap,      \* capacity of the change notification channel (64)
    MaxPublish,     \* bound: snapshots one agent process sends
    MaxPoll,        \* bound: polls of the shared backend after start-up
    NoConn

Serial == LocalSerial \cup UNION {OwnSerial[u] : u \in Uid}

ASSUME ConnAssumption == UidOfConn \in [Conn -> Uid] /\ NoConn \notin Conn
ASSUME ClientAssumption == UidOfClient \in [Client -> Uid]
ASSUME SerialAssumption == DOMAIN OwnSerial = Uid
ASSUME BoundAssumption == NotifyCap \in Nat \ {0} /\ MaxPublish \in Nat /\ MaxPoll \in Nat

VARIABLES
    agent,      \* agent[c]: state of the agent process behind c
    wire,       \* wire[c]: messages the agent sent that the daemon has not read
    sent,       \* sent[c]: snapshots sent so far (bounded by MaxPublish)
    task,       \* task[c]: where the daemon's handle_agent(c) is
    agents,     \* DaemonState.agents: the registered connection of each user
    writer,     \* the connection whose task holds the write lock of agents
    shared,     \* TenantRegistry.shared
    listed,     \* the keys of TenantRegistry.private: users with a published list
    private,    \* TenantRegistry.private: the list of each of them
    tunnels,    \* users that own a listener of the TunnelManager
    poller,     \* where the task that polls the shared backend is
    polls,      \* polls so far (bounded by MaxPoll)
    client,     \* client[k]: where handle_adb_client(k) is
    service,    \* service[k]: what k asked for
    seen,       \* seen[k]: the snapshot k's handler is assembling
    shown,      \* shown[k]: the last device list written to k
    pending,    \* pending[k]: unread notifications of k's receiver
    lagged,     \* receivers for which the channel overwrote unread notifications
    session,    \* session[k]: the agent connection k's private stream uses
    published,  \* history: connections whose snapshot has reached the registry
    late        \* history: connections that published while no agent of their user was
                \* registered, since the user's list was last removed

connVars   == <<agent, wire, sent, task>>
clientVars == <<client, service, seen, shown, session>>
notifyVars == <<pending, lagged>>
pollVars   == <<poller, polls>>
histVars   == <<published, late>>
regVars    == <<agents, writer, listed, private, tunnels, histVars>>
otherVars  == <<shared, pollVars, clientVars>>      \* never touched by handle_agent
daemonVars == <<regVars, otherVars, notifyVars>>
serverVars == <<connVars, regVars, shared, pollVars>>
vars == <<serverVars, clientVars, notifyVars>>

Body == [shared : SUBSET Serial, private : SUBSET Serial]

\* A client that has been shown nothing yet.
NoBody == [shared |-> {}, private |-> {}]

Message == [type : {"register", "other"}] \cup [type : {"snapshot"}, devices : SUBSET Serial]

Register    == [type |-> "register"]
Unexpected  == [type |-> "other"]
Snapshot(S) == [type |-> "snapshot", devices |-> S]

\* Mutant: every tenant's list is searched.
PrivateOfAnyone(u) == UNION {private[v] : v \in listed}

\* What snapshot_for returns when nothing changes while it runs.
PrivateOf(u) == IF u \in listed THEN private[u] ELSE {}
View(u) == [shared |-> shared, private |-> PrivateOf(u)]

Init ==
    /\ agent = [c \in Conn |-> "off"]
    /\ wire = [c \in Conn |-> <<>>]
    /\ sent = [c \in Conn |-> 0]
    /\ task = [c \in Conn |-> "none"]
    /\ agents = [u \in Uid |-> NoConn]
    /\ writer = NoConn
    /\ shared \in SUBSET LocalSerial    \* seeded before the sockets are bound
    /\ listed = {}
    /\ private = [u \in Uid |-> {}]
    /\ tunnels = {}
    /\ poller = "sleep"
    /\ polls = 0
    /\ client = [k \in Client |-> "none"]
    /\ service = [k \in Client |-> "none"]
    /\ seen = [k \in Client |-> NoBody]
    /\ shown = [k \in Client |-> NoBody]
    /\ pending = [k \in Client |-> 0]
    /\ lagged = {}
    /\ session = [k \in Client |-> NoConn]
    /\ published = {}
    /\ late = {}

-----------------------------------------------------------------------------
(***************************************************************************)
(* The agent processes, as far as the daemon sees them.                    *)
(***************************************************************************)

AgentConnect(c) ==
    /\ agent[c] = "off"
    /\ agent' = [agent EXCEPT ![c] = "connected"]
    /\ UNCHANGED <<daemonVars, wire, sent, task>>

\* The first message: RegisterAgent, or one of another protocol version.
AgentRegister(c) ==
    /\ agent[c] = "connected"
    /\ agent' = [agent EXCEPT ![c] = "running"]
    /\ \E m \in {Register, Unexpected} : wire' = [wire EXCEPT ![c] = Append(@, m)]
    /\ UNCHANGED <<daemonVars, sent, task>>

\* refresh_and_publish: the devices the user's backends list at this moment.
AgentPublish(c) ==
    /\ agent[c] = "running"
    /\ sent[c] < MaxPublish
    /\ sent' = [sent EXCEPT ![c] = @ + 1]
    /\ \E S \in SUBSET OwnSerial[UidOfConn[c]] :
          wire' = [wire EXCEPT ![c] = Append(@, Snapshot(S))]
    /\ UNCHANGED <<daemonVars, agent, task>>

\* Shutdown or crash: what was sent stays readable, then comes end of file.
AgentStop(c) ==
    /\ agent[c] \in {"connected", "running"}
    /\ agent' = [agent EXCEPT ![c] = "down"]
    /\ UNCHANGED <<daemonVars, wire, sent, task>>

-----------------------------------------------------------------------------
(***************************************************************************)
(* handle_agent: one task of the daemon per control connection.            *)
(***************************************************************************)

\* Mutant: the tracker subscribes after it has read the lists.
SubscribedLate(k) == client[k] \in {"track_write", "recv"}

\* broadcast::Sender::send(()): every subscribed receiver gets one more message,
\* or loses its oldest one when it is NotifyCap behind.
Subscribed(k) == client[k] \in {"track_shared", "track_private", "track_write", "recv"}

\* Mutant: the queue of a receiver has no bound.
NotifyUnbounded ==
    /\ pending' = [k \in Client |-> IF Subscribed(k) THEN pending[k] + 1 ELSE pending[k]]
    /\ UNCHANGED lagged

Notify ==
    /\ pending' = [k \in Client |-> IF Subscribed(k) /\ pending[k] < NotifyCap
                                    THEN pending[k] + 1 ELSE pending[k]]
    /\ lagged' = lagged \cup {k \in Client : Subscribed(k) /\ pending[k] = NotifyCap}

Accept(c) ==
    /\ agent[c] # "off" /\ task[c] = "none"
    /\ task' = [task EXCEPT ![c] = "first"]
    /\ UNCHANGED <<daemonVars, agent, wire, sent>>

\* The first message must be RegisterAgent of the daemon's protocol version.
ReadFirst(c) ==
    /\ task[c] = "first" /\ wire[c] # <<>>
    /\ wire' = [wire EXCEPT ![c] = Tail(@)]
    /\ task' = [task EXCEPT ![c] = IF Head(wire[c]) = Register THEN "insert" ELSE "closed"]
    /\ UNCHANGED <<daemonVars, agent, sent>>

\* The new connection replaces whatever the user had registered before.  The
\* replaced connection is not closed: its task goes on reading.
InsertAgent(c) ==
    /\ task[c] = "insert" /\ writer = NoConn
    /\ agents' = [agents EXCEPT ![UidOfConn[c]] = c]
    /\ task' = [task EXCEPT ![c] = "read"]
    /\ UNCHANGED <<otherVars, agent, wire, sent, writer, listed, private, tunnels, notifyVars, histVars>>

\* DeviceSnapshot and DeviceSnapshotChanged: update_agent_devices for the user of
\* the connection, whichever connection is registered.
ReadSnapshot(c) ==
    LET u == UidOfConn[c]
        S == Head(wire[c]).devices
    IN  /\ task[c] = "read" /\ wire[c] # <<>> /\ Head(wire[c]).type = "snapshot"
        /\ wire' = [wire EXCEPT ![c] = Tail(@)]
        /\ listed' = listed \cup {u}
        /\ private' = [private EXCEPT ![u] = S]
        /\ task' = [task EXCEPT ![c] = IF u \in listed /\ private[u] = S THEN "read" ELSE "notify"]
        /\ published' = published \cup {c}
        /\ late' = IF agents[u] = NoConn THEN late \cup {c} ELSE late
        /\ UNCHANGED <<otherVars, agent, sent, agents, writer, tunnels, notifyVars>>

\* The notification is sent after the registry lock was dropped.
NotifySnapshot(c) ==
    /\ task[c] = "notify"
    /\ Notify
    /\ task' = [task EXCEPT ![c] = "read"]
    /\ UNCHANGED <<otherVars, regVars, agent, wire, sent>>

\* The other messages are about streams and leave all this alone (PrivateStream).
ReadEof(c) ==
    /\ task[c] \in {"first", "read"} /\ wire[c] = <<>> /\ agent[c] = "down"
    /\ task' = [task EXCEPT ![c] = IF @ = "first" THEN "closed" ELSE "cleanup"]
    /\ UNCHANGED <<daemonVars, agent, wire, sent>>

\* Mutant: the instance token is not compared.
SomeoneRegistered(c) == agents[UidOfConn[c]] # NoConn

\* Only the connection that is still registered removes anything.  The instance
\* tokens it compares are random, one per connection: equal only for the same one.
StillRegistered(c) == agents[UidOfConn[c]] = c

\* Mutant: the entry of agents is left behind.
BeginCleanupKeepsEntry(c) ==
    /\ task[c] = "cleanup" /\ writer = NoConn
    /\ writer' = IF StillRegistered(c) THEN c ELSE NoConn
    /\ task' = [task EXCEPT ![c] = IF StillRegistered(c) THEN "remove_agent" ELSE "closed"]
    /\ UNCHANGED <<otherVars, agent, wire, sent, agents, listed, private, tunnels, notifyVars,
                   histVars>>

\* Mutant: the lock of agents is released before the lists are removed.
BeginCleanupUnlocks(c) ==
    /\ task[c] = "cleanup" /\ writer = NoConn
    /\ agents' = [agents EXCEPT ![UidOfConn[c]] = IF @ = c THEN NoConn ELSE @]
    /\ task' = [task EXCEPT ![c] = IF StillRegistered(c) THEN "remove_agent" ELSE "closed"]
    /\ UNCHANGED <<otherVars, agent, wire, sent, writer, listed, private, tunnels, notifyVars,
                   histVars>>

BeginCleanup(c) ==
    /\ task[c] = "cleanup" /\ writer = NoConn
    /\ IF StillRegistered(c)
         THEN /\ agents' = [agents EXCEPT ![UidOfConn[c]] = NoConn]
              /\ writer' = c
              /\ task' = [task EXCEPT ![c] = "remove_agent"]
         ELSE /\ task' = [task EXCEPT ![c] = "closed"]
              /\ UNCHANGED <<agents, writer>>
    /\ UNCHANGED <<otherVars, agent, wire, sent, listed, private, tunnels, notifyVars, histVars>>

\* Mutant: the removal is not a change.
RemoveAgentSilently(c) ==
    /\ task[c] = "remove_agent"
    /\ listed' = listed \ {UidOfConn[c]}
    /\ private' = [private EXCEPT ![UidOfConn[c]] = {}]
    /\ task' = [task EXCEPT ![c] = "remove_owner"]
    /\ late' = {d \in late : UidOfConn[d] # UidOfConn[c]}
    /\ UNCHANGED <<otherVars, agent, wire, sent, agents, writer, tunnels, notifyVars, published>>

\* Mutant: nothing is removed.
RemoveAgentKeepsList(c) ==
    /\ task[c] = "remove_agent"
    /\ task' = [task EXCEPT ![c] = "remove_owner"]
    /\ UNCHANGED <<otherVars, regVars, agent, wire, sent, notifyVars>>

\* TenantRegistry::remove_agent, under the write lock of agents.
RemoveAgent(c) ==
    LET u == UidOfConn[c]
    IN  /\ task[c] = "remove_agent"
        /\ listed' = listed \ {u}
        /\ private' = [private EXCEPT ![u] = {}]
        /\ task' = [task EXCEPT ![c] = IF u \in listed THEN "remove_notify" ELSE "remove_owner"]
        /\ late' = {d \in late : UidOfConn[d] # u}
        /\ UNCHANGED <<otherVars, agent, wire, sent, agents, writer, tunnels, notifyVars, published>>

NotifyRemoval(c) ==
    /\ task[c] = "remove_notify"
    /\ Notify
    /\ task' = [task EXCEPT ![c] = "remove_owner"]
    /\ UNCHANGED <<otherVars, regVars, agent, wire, sent>>

\* TunnelManager::remove_owner, then the write lock is released.
RemoveOwner(c) ==
    /\ task[c] = "remove_owner"
    /\ tunnels' = tunnels \ {UidOfConn[c]}
    /\ writer' = NoConn
    /\ task' = [task EXCEPT ![c] = "closed"]
    /\ UNCHANGED <<otherVars, agent, wire, sent, agents, listed, private, notifyVars, histVars>>

-----------------------------------------------------------------------------
(***************************************************************************)
(* The poller of the shared local backend.  A failed poll lists nothing.   *)
(***************************************************************************)

PollShared ==
    /\ poller = "sleep" /\ polls < MaxPoll
    /\ polls' = polls + 1
    /\ \E S \in SUBSET LocalSerial :
          /\ shared' = S
          /\ poller' = IF S = shared THEN "sleep" ELSE "notify"
    /\ UNCHANGED <<regVars, connVars, clientVars, notifyVars>>

NotifyShared ==
    /\ poller = "notify"
    /\ Notify
    /\ poller' = "sleep"
    /\ UNCHANGED <<regVars, connVars, shared, polls, clientVars>>

-----------------------------------------------------------------------------
(***************************************************************************)
(* handle_adb_client: one task per accepted client.                        *)
(***************************************************************************)

\* "other" stands for the services answered without touching the daemon's state:
\* kill (acknowledged and ignored), version, get-state and the refused globals.
Service == {"devices", "track", "device", "other"}

\* The user is resolved and the service string read.
ClientRequest(k) ==
    /\ client[k] = "none"
    /\ \E s \in Service : service' = [service EXCEPT ![k] = s]
    /\ client' = [client EXCEPT ![k] = "snap_shared"]
    /\ UNCHANGED <<serverVars, seen, shown, session, notifyVars>>

\* The user cannot be resolved, or the client leaves before it asks for anything.
ClientRejected(k) ==
    /\ client[k] = "none"
    /\ client' = [client EXCEPT ![k] = "done"]
    /\ UNCHANGED <<serverVars, service, seen, shown, session, notifyVars>>

\* snapshot_for takes the lock of the shared list and, later, that of the private ones.
SnapShared(k) ==
    /\ client[k] \in {"snap_shared", "track_shared"}
    /\ seen' = [seen EXCEPT ![k] = [shared |-> shared, private |-> {}]]
    /\ client' = [client EXCEPT ![k] = IF @ = "snap_shared" THEN "snap_private"
                                                             ELSE "track_private"]
    /\ UNCHANGED <<serverVars, service, shown, session, notifyVars>>

SnapPrivate(k) ==
    /\ client[k] \in {"snap_private", "track_private"}
    /\ seen' = [seen EXCEPT ![k] = [shared |-> @.shared, private |-> PrivateOf(UidOfClient[k])]]
    /\ client' = [client EXCEPT ![k] = IF @ = "snap_private" THEN "dispatch" ELSE "track_write"]
    /\ UNCHANGED <<serverVars, service, shown, session, notifyVars>>

AnswerDevices(k) ==
    /\ client[k] = "dispatch" /\ service[k] = "devices"
    /\ shown' = [shown EXCEPT ![k] = seen[k]]
    /\ client' = [client EXCEPT ![k] = "done"]
    /\ UNCHANGED <<serverVars, service, seen, session, notifyVars>>

AnswerOther(k) ==
    /\ client[k] = "dispatch" /\ service[k] = "other"
    /\ client' = [client EXCEPT ![k] = "done"]
    /\ UNCHANGED <<serverVars, service, seen, shown, session, notifyVars>>

\* track_devices_multi subscribes first and reads the lists afterwards.
Subscribe(k) ==
    /\ client[k] = "dispatch" /\ service[k] = "track"
    /\ client' = [client EXCEPT ![k] = "track_shared"]
    /\ pending' = [pending EXCEPT ![k] = 0]
    /\ lagged' = lagged \ {k}
    /\ UNCHANGED <<serverVars, service, seen, shown, session>>

TrackWrite(k) ==
    /\ client[k] = "track_write"
    /\ shown' = [shown EXCEPT ![k] = seen[k]]
    /\ client' = [client EXCEPT ![k] = "recv"]
    /\ UNCHANGED <<serverVars, service, seen, session, notifyVars>>

\* A tracker that has gone away is noticed when the next list is written to it.
TrackGone(k) ==
    /\ client[k] = "track_write"
    /\ client' = [client EXCEPT ![k] = "done"]
    /\ UNCHANGED <<serverVars, service, seen, shown, session, notifyVars>>

\* recv() returns Lagged once when messages were overwritten, then the ones that are left.
TrackRecv(k) ==
    /\ client[k] = "recv"
    /\ \/ /\ k \in lagged
          /\ lagged' = lagged \ {k}
          /\ UNCHANGED pending
       \/ /\ k \notin lagged /\ pending[k] > 0
          /\ pending' = [pending EXCEPT ![k] = @ - 1]
          /\ UNCHANGED lagged
    /\ client' = [client EXCEPT ![k] = "track_shared"]
    /\ UNCHANGED <<serverVars, service, seen, shown, session>>

\* A serial is looked up in the snapshot: the shared entries come first.
RoutedPrivate(k, s) == s \in seen[k].private \ seen[k].shared

\* forward_private: the stream goes to the connection registered at this moment.
OpenPrivate(k) ==
    /\ client[k] = "dispatch" /\ service[k] = "device" /\ writer = NoConn
    /\ \E s \in Serial : RoutedPrivate(k, s)
    /\ session' = [session EXCEPT ![k] = agents[UidOfClient[k]]]
    /\ client' = [client EXCEPT ![k] = IF agents[UidOfClient[k]] = NoConn THEN "done" ELSE "session"]
    /\ UNCHANGED <<serverVars, service, seen, shown, notifyVars>>

\* The serial asked for is a shared device's or in no list at all (any client may name
\* one): the request is served by the local backend or refused.
RouteElsewhere(k) ==
    /\ client[k] = "dispatch" /\ service[k] = "device"
    /\ client' = [client EXCEPT ![k] = "done"]
    /\ UNCHANGED <<serverVars, service, seen, shown, session, notifyVars>>

\* A transport session asks for a forward: TunnelManager::add with the user as owner.
AddTunnel(k) ==
    /\ client[k] = "session"
    /\ tunnels' = tunnels \cup {UidOfClient[k]}
    /\ client' = [client EXCEPT ![k] = "done"]
    /\ UNCHANGED <<connVars, agents, writer, listed, private, histVars, shared, pollVars, service,
                   seen, shown, session, notifyVars>>

SessionEnd(k) ==
    /\ client[k] = "session"
    /\ client' = [client EXCEPT ![k] = "done"]
    /\ UNCHANGED <<serverVars, service, seen, shown, session, notifyVars>>

-----------------------------------------------------------------------------
AgentStep(c) == AgentConnect(c) \/ AgentRegister(c) \/ AgentPublish(c) \/ AgentStop(c)

ConnStep(c) ==
    \/ Accept(c) \/ ReadFirst(c) \/ InsertAgent(c) \/ ReadSnapshot(c) \/ NotifySnapshot(c)
    \/ ReadEof(c) \/ BeginCleanup(c) \/ RemoveAgent(c) \/ NotifyRemoval(c)
    \/ RemoveOwner(c)

ClientStep(k) ==
    \/ SnapShared(k) \/ SnapPrivate(k) \/ AnswerDevices(k) \/ AnswerOther(k) \/ Subscribe(k)
    \/ TrackWrite(k) \/ TrackRecv(k) \/ OpenPrivate(k)

EnvStep(k) ==
    \/ ClientRequest(k) \/ ClientRejected(k) \/ TrackGone(k) \/ RouteElsewhere(k)
    \/ AddTunnel(k) \/ SessionEnd(k)

Next ==
    \/ \E c \in Conn : AgentStep(c) \/ ConnStep(c)
    \/ PollShared \/ NotifyShared
    \/ \E k \in Client : ClientStep(k) \/ EnvStep(k)

\* The runtime runs every task that can go on.  Nothing obliges an agent, a client or
\* the backend's device list to do anything.
Fairness ==
    /\ \A c \in Conn : WF_vars(ConnStep(c))
    /\ WF_vars(NotifyShared)
    /\ \A k \in Client : WF_vars(ClientStep(k))

Spec == Init /\ [][Next]_vars
FairSpec == Spec /\ Fairness

-----------------------------------------------------------------------------
(***************************************************************************)
(* Properties.                                                             *)
(***************************************************************************)

TaskState == {"none", "first", "insert", "read", "notify", "cleanup",
              "remove_agent", "remove_notify", "remove_owner", "closed"}

ClientState == {"none", "snap_shared", "snap_private", "dispatch", "track_shared",
                "track_private", "track_write", "recv", "session", "done"}

ConnTypeOK ==
    /\ agent \in [Conn -> {"off", "connected", "running", "down"}]
    /\ wire \in [Conn -> Seq(Message)]
    /\ sent \in [Conn -> 0..MaxPublish]
    /\ task \in [Conn -> TaskState]
    /\ published \in SUBSET Conn
    /\ late \in SUBSET Conn

RegistryTypeOK ==
    /\ agents \in [Uid -> Conn \cup {NoConn}]
    /\ writer \in Conn \cup {NoConn}
    /\ shared \in SUBSET Serial
    /\ listed \in SUBSET Uid
    /\ private \in [Uid -> SUBSET Serial]
    /\ tunnels \in SUBSET Uid
    /\ poller \in {"sleep", "notify"}
    /\ polls \in 0..MaxPoll

ClientTypeOK ==
    /\ client \in [Client -> ClientState]
    /\ service \in [Client -> Service \cup {"none"}]
    /\ seen \in [Client -> Body]
    /\ shown \in [Client -> Body]
    /\ pending \in [Client -> 0..NotifyCap]
    /\ lagged \in SUBSET Client
    /\ session \in [Client -> Conn \cup {NoConn}]

\* Every variable has its type.
TypeOK == ConnTypeOK /\ RegistryTypeOK /\ ClientTypeOK

\* The connection the daemon routes a user's streams to belongs to that user, and its
\* task is still there to take it out: it is reading, or about to clean up after itself.
\* No connection whose cleanup is over is ever left in DaemonState.agents, however
\* registrations and disconnects of the same user overlap.
RegisteredIsServed ==
    \A u \in Uid : agents[u] # NoConn =>
        /\ UidOfConn[agents[u]] = u
        /\ task[agents[u]] \in {"read", "notify", "cleanup"}

\* While an agent is registered, a list it has published stays in the registry: no
\* overlapping cleanup of an earlier connection of the user wipes it.  This rests on the
\* write lock of agents being held until remove_agent has returned.
PublishedListKept ==
    \A u \in Uid : agents[u] \in published => u \in listed

\* A user's device lists and streams come from that user's own agents, for every
\* client, at every point of its handler ("Alice sees shared + Alice").
TenantIsolation ==
    \A k \in Client :
        /\ seen[k].private \subseteq OwnSerial[UidOfClient[k]]
        /\ shown[k].private \subseteq OwnSerial[UidOfClient[k]]
        /\ session[k] # NoConn => UidOfConn[session[k]] = UidOfClient[k]

\* No lost wake-up: a tracker that waits with nothing left to receive has been shown
\* the current lists, unless the task that changed one of them has yet to notify.
Unread(k) == pending[k] > 0 \/ k \in lagged

PrivateNotifier(u) == \E c \in Conn : UidOfConn[c] = u /\ task[c] \in {"notify", "remove_notify"}

TrackerUpToDate ==
    \A k \in Client : client[k] = "recv" /\ ~Unread(k) =>
        /\ shown[k].shared = shared \/ poller = "notify"
        /\ shown[k].private = PrivateOf(UidOfClient[k]) \/ PrivateNotifier(UidOfClient[k])

\* A user is left without a registered agent only after that agent has gone and all
\* it sent has been read; the end of a connection that was replaced unregisters nobody.
OnlyDeadAgentUnregistered ==
    [][\A u \in Uid : agents[u] # NoConn /\ agents'[u] = NoConn =>
          agent[agents[u]] = "down" /\ wire[agents[u]] = <<>>]_vars

\* A tracker that stays is eventually shown the lists as they are once changes stop
\* (the bounds make every behaviour one in which they do).
TrackerConverges ==
    \A k \in Client : client[k] = "recv" ~>
        (client[k] = "done" \/ shown[k] = View(UidOfClient[k]))

\* A disconnect takes the user's devices away (docs/multi-user-design.md:99), but for one
\* case: an earlier connection of the user, which was replaced and never closed, published
\* while nobody was registered, after its successor's clean-up had begun, and no clean-up has
\* removed the list since.  Once the clean-ups are over, a list without a registered agent has
\* no other cause, however often the agent was restarted before.
DisconnectRemovesDevices ==
    \A u \in listed : agents[u] = NoConn /\ writer = NoConn =>
        \E c, d \in Conn :
            /\ UidOfConn[c] = u /\ UidOfConn[d] = u /\ c # d
            /\ c \in late /\ task[d] = "closed"
=============================================================================
