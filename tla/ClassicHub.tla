------------------------------ MODULE ClassicHub ------------------------------
(***************************************************************************)
(* The classic in-process aggregator: the accept loop (src/src/hub.rs),    *)
(* the backend watchers (src/src/backend.rs), the device registry          *)
(* (src/src/registry.rs) and the clients (src/src/session.rs).             *)
(*                                                                         *)
(* The list of a backend is a set of serials.  The registry holds the      *)
(* merge of one list per backend; merging tells any two of those apart, so *)
(* the merge is represented by the lists it was made from.                 *)
(***************************************************************************)
EXTENDS Naturals, Sequences, FiniteSets, SequencesExt

CONSTANTS
    Order,       \* HubConfig.backends: the backends in configuration order
    Serial,      \* serials a backend may list
    Paired,      \* backends with a pair code: they must report a version
    TooOld,      \* paired backends whose proxy is older than MIN_PROXY_VERSION
    CanTrack,    \* backends that support host:track-devices-l
    Node,        \* backends of the config file, which `adb-hub node` can disable
    Client,      \* client connections
    NotifyCap,   \* capacity of the change notification channel (64)
    MaxChange,   \* bound: changes of backend lists
    MaxFlap,     \* bound: times a backend goes down or comes back
    MaxPolicy,   \* bound: times a node is disabled or enabled
    Seeder       \* the poller task itself

Backend == ToSet(Order)
Task == Backend \cup {Seeder}

\* run_hub refuses to start without a backend.
ASSUME OrderAssumption ==
    /\ Order \in Seq(Backend) /\ Order # <<>> /\ IsInjective(Order)
    /\ Seeder \notin Backend
ASSUME SubsetAssumption ==
    /\ Paired \subseteq Backend /\ TooOld \subseteq Paired /\ CanTrack \subseteq Backend
    /\ Node \subseteq Backend
ASSUME BoundAssumption == NotifyCap \in Nat \ {0} /\ MaxChange \in Nat /\ MaxFlap \in Nat /\ MaxPolicy \in Nat

VARIABLES
    \* the backends
    real,       \* real[b]: the devices attached to b
    upBackend,  \* backends that answer
    linked,     \* backends whose track-devices connection is open at the far end
    stream,     \* stream[b]: packets of that connection the watcher has not read
    changes, flaps,
    \* poller and watchers
    pc,         \* pc[t]: where the poller and the watchers are
    mode,       \* mode[b]: "track" or "poll" once probed
    visited,    \* number of backends the poller has checked, then seeded
    watched,    \* the backends that passed the version gate
    raw,        \* the map shared by the watchers: last body of each backend
    copy,       \* copy[t]: the lists t took from raw and is about to publish
    registry,   \* DeviceRegistry.inner
    \* the accept loop
    accepting,  \* "select", "accept", "returned"
    killed,     \* the Notified future of this turn of the loop has been notified
    \* the policy in the config file
    disabled,   \* nodes with enabled = false
    switches,
    \* the clients
    client, pending, lagged,
    shown,      \* shown[k]: the registry as k's handler last read it
    hidden      \* hidden[k]: the nodes it left out of that list

backendVars == <<real, upBackend, linked, stream, changes, flaps>>
pollerVars  == <<pc, mode, visited, watched, raw, copy>>
loopVars    == <<accepting, killed>>
notifyVars  == <<pending, lagged>>
policyVars  == <<disabled, switches>>
clientVars  == <<client, shown, hidden, policyVars>>
vars == <<backendVars, pollerVars, registry, loopVars, clientVars, notifyVars>>

Lists == [Backend -> SUBSET Serial]
NoDevices == [b \in Backend |-> {}]

\* evaluate_proxy_version: b reports a version, and it is not too old.
VersionOk(b) == b \in upBackend \ TooOld

\* filter_compatible_backends for b now: a paired backend must pass, which one that does
\* not answer fails; the others are not asked.
PassesGate(b) == b \in Paired => VersionOk(b)

\* fetch_devices_l for b now: its list, nothing when b does not answer.
Fetched(b) == IF b \in upBackend THEN real[b] ELSE {}

\* poll_backends_once
FirstPoll == [b \in Backend |-> IF PassesGate(b) THEN Fetched(b) ELSE {}]

\* The local adb server, which is not a node of the file, has been waited for; the first
\* poll fills the registry before the listener is bound.
Init ==
    /\ real \in Lists
    /\ upBackend \in SUBSET Backend /\ Backend \ Node \subseteq upBackend
    /\ linked = {} /\ stream = [b \in Backend |-> <<>>]
    /\ changes = 0 /\ flaps = 0
    /\ pc = [t \in Task |-> IF t = Seeder THEN "gate" ELSE "off"]
    /\ mode = [b \in Backend |-> "none"]
    /\ visited = 0 /\ watched = {}
    /\ raw = NoDevices
    /\ copy = [t \in Task |-> NoDevices]
    /\ registry = FirstPoll
    /\ accepting = "select" /\ killed = FALSE
    /\ client = [k \in Client |-> "none"]
    /\ shown = [k \in Client |-> NoDevices]
    /\ pending = [k \in Client |-> 0]
    /\ lagged = {}
    /\ disabled = {} /\ switches = 0    \* disabled backends are not started with
    /\ hidden = [k \in Client |-> {}]

-----------------------------------------------------------------------------
(***************************************************************************)
(* The backends.                                                           *)
(***************************************************************************)

\* A device is plugged in or out; a tracking connection is sent the new list.
BackendChange(b) ==
    /\ changes < MaxChange /\ b \in upBackend
    /\ changes' = changes + 1
    /\ \E S \in SUBSET Serial \ {real[b]} :
          /\ real' = [real EXCEPT ![b] = S]
          /\ stream' = [stream EXCEPT ![b] = IF b \in linked THEN Append(@, S) ELSE @]
    /\ UNCHANGED <<upBackend, linked, flaps, pollerVars, registry, loopVars, clientVars, notifyVars>>

\* A backend stops, which closes its connections, or starts.
BackendFlap(b) ==
    /\ flaps < MaxFlap
    /\ flaps' = flaps + 1
    /\ upBackend' = IF b \in upBackend THEN upBackend \ {b} ELSE upBackend \cup {b}
    /\ linked' = linked \ {b}
    /\ UNCHANGED <<real, stream, changes, pollerVars, registry, loopVars, clientVars, notifyVars>>

-----------------------------------------------------------------------------
(***************************************************************************)
(* run_backend_poller: seed every backend in order, publish, then start a  *)
(* watcher for each compatible backend.                                    *)
(***************************************************************************)

\* The version gate, asked once per backend for the life of the hub.
Gate ==
    /\ pc[Seeder] = "gate"
    /\ LET b == Order[visited + 1] IN
          watched' = IF PassesGate(b) THEN watched \cup {b} ELSE watched
    /\ IF visited + 1 = Len(Order)
         THEN visited' = 0 /\ pc' = [pc EXCEPT ![Seeder] = "seed"]
         ELSE visited' = visited + 1 /\ UNCHANGED pc
    /\ UNCHANGED <<backendVars, mode, raw, copy, registry, loopVars, clientVars, notifyVars>>

\* The seed, under the lock of raw: every backend has an entry before anybody publishes.
Seed ==
    /\ pc[Seeder] = "seed"
    /\ visited' = visited + 1
    /\ LET b == Order[visited + 1] IN
          raw' = [raw EXCEPT ![b] = IF b \in watched THEN Fetched(b) ELSE {}]
    /\ pc' = [pc EXCEPT ![Seeder] = IF visited' = Len(Order) THEN "copy" ELSE @]
    /\ UNCHANGED <<backendVars, mode, watched, copy, registry, loopVars, clientVars, notifyVars>>

\* poller.abort() takes effect where the task yields; the watchers it started are
\* detached, not stopped.
Aborted ==
    /\ accepting = "returned" /\ pc[Seeder] \in {"gate", "seed", "copy", "update"}
    /\ pc' = [pc EXCEPT ![Seeder] = "done"]
    /\ UNCHANGED <<backendVars, mode, visited, watched, raw, copy, registry, loopVars,
                   clientVars, notifyVars>>

\* Where a task goes when publish_shared returns.
AfterPublish(t) ==
    IF t = Seeder THEN [u \in Task |-> IF u = Seeder THEN "done"
                                       ELSE IF u \in watched THEN "probe" ELSE "off"]
    ELSE [pc EXCEPT ![t] = IF mode[t] = "track" THEN "track" ELSE "fetch"]

\* publish_shared: the lists are copied under the lock of raw ...
CopyLists(t) ==
    /\ pc[t] = "copy"
    /\ copy' = [copy EXCEPT ![t] = raw]
    /\ pc' = [pc EXCEPT ![t] = "update"]
    /\ UNCHANGED <<backendVars, mode, visited, watched, raw, registry, loopVars, clientVars, notifyVars>>

\* Mutant: `changed` is computed after the registry has been replaced.
UpdateRegistryComparesLate(t) ==
    /\ pc[t] = "update"
    /\ registry' = copy[t]
    /\ pc' = AfterPublish(t)
    /\ UNCHANGED <<backendVars, mode, visited, watched, raw, copy, loopVars, clientVars, notifyVars>>

\* ... and the registry is replaced by their merge after that lock was dropped.
UpdateRegistry(t) ==
    /\ pc[t] = "update"
    /\ registry' = copy[t]
    /\ pc' = IF registry = copy[t] THEN AfterPublish(t) ELSE [pc EXCEPT ![t] = "notify"]
    /\ UNCHANGED <<backendVars, mode, visited, watched, raw, copy, loopVars, clientVars, notifyVars>>

Subscribed(k) == client[k] \in {"read", "write", "recv"}

\* Mutant: a channel that is not bounded.
NotifyTrackersUnbounded(t) ==
    /\ pc[t] = "notify"
    /\ pending' = [k \in Client |-> IF Subscribed(k) THEN pending[k] + 1 ELSE pending[k]]
    /\ pc' = AfterPublish(t)
    /\ UNCHANGED <<backendVars, mode, visited, watched, raw, copy, registry, loopVars, clientVars, lagged>>

NotifyTrackers(t) ==
    /\ pc[t] = "notify"
    /\ pending' = [k \in Client |-> IF Subscribed(k) /\ pending[k] < NotifyCap
                                    THEN pending[k] + 1 ELSE pending[k]]
    /\ lagged' = lagged \cup {k \in Client : Subscribed(k) /\ pending[k] = NotifyCap}
    /\ pc' = AfterPublish(t)
    /\ UNCHANGED <<backendVars, mode, visited, watched, raw, copy, registry, loopVars, clientVars>>

-----------------------------------------------------------------------------
(***************************************************************************)
(* run_backend_watcher                                                     *)
(***************************************************************************)

\* probe_track_support decides once, and an error means polling.
Probe(b) ==
    /\ pc[b] = "probe"
    /\ IF b \in upBackend \cap CanTrack
         THEN /\ mode' = [mode EXCEPT ![b] = "track"]
              /\ pc' = [pc EXCEPT ![b] = "connect"]
         ELSE /\ mode' = [mode EXCEPT ![b] = "poll"]
              /\ pc' = [pc EXCEPT ![b] = "fetch"]
    /\ UNCHANGED <<backendVars, visited, watched, raw, copy, registry, loopVars, clientVars, notifyVars>>

\* A tracking connection starts with the current list; a failed attempt is repeated.
TrackConnect(b) ==
    /\ pc[b] = "connect" /\ b \in upBackend
    /\ linked' = linked \cup {b}
    /\ stream' = [stream EXCEPT ![b] = <<real[b]>>]
    /\ pc' = [pc EXCEPT ![b] = "track"]
    /\ UNCHANGED <<real, upBackend, changes, flaps, mode, visited, watched, raw, copy, registry, loopVars,
                   clientVars, notifyVars>>

TrackPacket(b) ==
    /\ pc[b] = "track" /\ stream[b] # <<>>
    /\ raw' = [raw EXCEPT ![b] = Head(stream[b])]
    /\ stream' = [stream EXCEPT ![b] = Tail(@)]
    /\ pc' = [pc EXCEPT ![b] = "copy"]
    /\ UNCHANGED <<real, upBackend, linked, changes, flaps, mode, visited, watched, copy, registry, loopVars,
                   clientVars, notifyVars>>

\* The connection ends; the last list of the backend stays.
TrackLost(b) ==
    /\ pc[b] = "track" /\ stream[b] = <<>> /\ b \notin linked
    /\ pc' = [pc EXCEPT ![b] = "connect"]
    /\ UNCHANGED <<backendVars, mode, visited, watched, raw, copy, registry, loopVars, clientVars, notifyVars>>

\* Mutant: a failed poll keeps the last list.
PollKeepsList(b) ==
    /\ pc[b] = "fetch"
    /\ raw' = [raw EXCEPT ![b] = IF b \in upBackend THEN real[b] ELSE @]
    /\ pc' = [pc EXCEPT ![b] = "copy"]
    /\ UNCHANGED <<backendVars, mode, visited, watched, copy, registry, loopVars, clientVars, notifyVars>>

\* Polling: a failed poll empties the list of the backend.
Poll(b) ==
    /\ pc[b] = "fetch"
    /\ raw' = [raw EXCEPT ![b] = Fetched(b)]
    /\ pc' = [pc EXCEPT ![b] = "copy"]
    /\ UNCHANGED <<backendVars, mode, visited, watched, copy, registry, loopVars, clientVars, notifyVars>>

-----------------------------------------------------------------------------
(***************************************************************************)
(* The accept loop and the clients.                                        *)
(***************************************************************************)

Connect(k) ==
    /\ client[k] = "none"
    /\ client' = [client EXCEPT ![k] = "backlog"]
    /\ UNCHANGED <<backendVars, pollerVars, registry, loopVars, shown, hidden, policyVars, notifyVars>>

\* select! takes a pending connection; the Notified future of this turn is dropped.
SelectAccept(k) ==
    /\ accepting = "select" /\ client[k] = "backlog"
    /\ accepting' = "accept" /\ killed' = FALSE
    /\ client' = [client EXCEPT ![k] = "request"]
    /\ UNCHANGED <<backendVars, pollerVars, registry, shown, hidden, policyVars, notifyVars>>

\* The next turn of the loop, with a new Notified future.
NextTurn ==
    /\ accepting = "accept"
    /\ accepting' = "select"
    /\ UNCHANGED <<backendVars, pollerVars, registry, killed, clientVars, notifyVars>>

\* select! sees the notification: the poller is aborted and the hub returns.  The watchers
\* and the sessions go on until main has returned, which ends the behaviour.
SelectKill ==
    /\ accepting = "select" /\ killed
    /\ accepting' = "returned"
    /\ UNCHANGED <<backendVars, pollerVars, registry, killed, clientVars, notifyVars>>

\* The shutdown signal, or a failing accept.
SelectEnd ==
    /\ accepting = "select"
    /\ accepting' = "returned"
    /\ UNCHANGED <<backendVars, pollerVars, registry, killed, clientVars, notifyVars>>

\* host:kill: OKAY, then notify_waiters, which reaches a future that exists now.
Kill(k) ==
    /\ client[k] = "request"
    /\ killed' = (killed \/ accepting = "select")
    /\ client' = [client EXCEPT ![k] = "done"]
    /\ UNCHANGED <<backendVars, pollerVars, registry, accepting, shown, hidden, policyVars, notifyVars>>

\* Any other request: host:devices and the queries of one device, answered from one
\* reading of the registry and the policy that nobody keeps; a request that is forwarded
\* to a backend, refused or malformed; or none at all.
Answer(k) ==
    /\ client[k] = "request"
    /\ client' = [client EXCEPT ![k] = "done"]
    /\ UNCHANGED <<backendVars, pollerVars, registry, loopVars, shown, hidden, policyVars, notifyVars>>

\* track_devices subscribes before it reads the registry.
Subscribe(k) ==
    /\ client[k] = "request"
    /\ client' = [client EXCEPT ![k] = "read"]
    /\ pending' = [pending EXCEPT ![k] = 0]
    /\ lagged' = lagged \ {k}
    /\ UNCHANGED <<backendVars, pollerVars, registry, loopVars, shown, hidden, policyVars>>

\* Mutant: the policy of the hub's start is used.
TrackReadOldPolicy(k) ==
    /\ client[k] = "read"
    /\ shown' = [shown EXCEPT ![k] = registry]
    /\ client' = [client EXCEPT ![k] = "write"]
    /\ UNCHANGED <<backendVars, pollerVars, registry, loopVars, hidden, policyVars, notifyVars>>

TrackRead(k) ==
    /\ client[k] = "read"
    /\ shown' = [shown EXCEPT ![k] = registry]
    /\ hidden' = [hidden EXCEPT ![k] = disabled]
    /\ client' = [client EXCEPT ![k] = "write"]
    /\ UNCHANGED <<backendVars, pollerVars, registry, loopVars, policyVars, notifyVars>>

TrackWrite(k) ==
    /\ client[k] = "write"
    /\ client' = [client EXCEPT ![k] = "recv"]
    /\ UNCHANGED <<backendVars, pollerVars, registry, loopVars, shown, hidden, policyVars, notifyVars>>

\* The client turns out to have gone, and its list with it.
TrackGone(k) ==
    /\ client[k] = "write"
    /\ client' = [client EXCEPT ![k] = "done"]
    /\ shown' = [shown EXCEPT ![k] = NoDevices]
    /\ hidden' = [hidden EXCEPT ![k] = {}]
    /\ pending' = [pending EXCEPT ![k] = 0]
    /\ lagged' = lagged \ {k}
    /\ UNCHANGED <<backendVars, pollerVars, registry, loopVars, policyVars>>

TrackRecv(k) ==
    /\ client[k] = "recv"
    /\ \/ k \in lagged /\ lagged' = lagged \ {k} /\ UNCHANGED pending
       \/ /\ k \notin lagged /\ pending[k] > 0
          /\ pending' = [pending EXCEPT ![k] = @ - 1] /\ UNCHANGED lagged
    /\ client' = [client EXCEPT ![k] = "read"]
    /\ UNCHANGED <<backendVars, pollerVars, registry, loopVars, shown, hidden, policyVars>>

-----------------------------------------------------------------------------
\* `adb-hub node enable|disable` rewrites the config file.  client_snapshot reloads it
\* when its time stamp has changed; nobody is notified.
SwitchNode(b) ==
    /\ b \in Node /\ switches < MaxPolicy
    /\ switches' = switches + 1
    /\ disabled' = IF b \in disabled THEN disabled \ {b} ELSE disabled \cup {b}
    /\ UNCHANGED <<backendVars, pollerVars, registry, loopVars, client, shown, hidden, notifyVars>>

-----------------------------------------------------------------------------
TaskStep(t) == CopyLists(t) \/ UpdateRegistry(t) \/ NotifyTrackers(t)

WatcherStep(b) == Probe(b) \/ TrackConnect(b) \/ TrackPacket(b) \/ TrackLost(b) \/ Poll(b)

RequestStep(k) == Kill(k) \/ Answer(k) \/ Subscribe(k)

TrackerStep(k) == TrackRead(k) \/ TrackWrite(k) \/ TrackGone(k) \/ TrackRecv(k)

Next ==
    \/ \E b \in Backend : BackendChange(b) \/ BackendFlap(b) \/ SwitchNode(b) \/ WatcherStep(b)
    \/ Gate \/ Seed \/ Aborted
    \/ \E t \in Task : TaskStep(t)
    \/ \E k \in Client : Connect(k) \/ SelectAccept(k) \/ RequestStep(k) \/ TrackerStep(k)
    \/ NextTurn \/ SelectKill \/ SelectEnd

\* The runtime runs every task that can go on; a connected client has sent its request
\* and a tracker reads what it is sent.  Backends and new clients owe nothing.
Fairness ==
    /\ WF_vars(Gate \/ Seed) /\ WF_vars(NextTurn) /\ WF_vars(SelectKill)
    /\ \A t \in Task : WF_vars(TaskStep(t))
    /\ \A b \in Backend : WF_vars(WatcherStep(b))
    /\ \A k \in Client : /\ WF_vars(SelectAccept(k))
                         /\ WF_vars(RequestStep(k)) /\ WF_vars(TrackerStep(k))

Spec == Init /\ [][Next]_vars
FairSpec == Spec /\ Fairness

-----------------------------------------------------------------------------
(***************************************************************************)
(* Properties.                                                             *)
(***************************************************************************)

\* Every variable has its type.
TypeOK ==
    /\ real \in Lists /\ raw \in Lists /\ registry \in Lists
    /\ upBackend \in SUBSET Backend /\ linked \in SUBSET Backend /\ watched \in SUBSET Backend
    /\ stream \in [Backend -> Seq(SUBSET Serial)]
    /\ changes \in 0..MaxChange /\ flaps \in 0..MaxFlap /\ visited \in 0..Len(Order)
    /\ pc \in [Task -> {"gate", "seed", "copy", "update", "notify", "done", "off", "probe", "connect",
                        "track", "fetch"}]
    /\ mode \in [Backend -> {"none", "track", "poll"}]
    /\ copy \in [Task -> Lists]
    /\ accepting \in {"select", "accept", "returned"}
    /\ killed \in BOOLEAN
    /\ client \in [Client -> {"none", "backlog", "request", "read", "write", "recv", "done"}]
    /\ shown \in [Client -> Lists]
    /\ pending \in [Client -> 0..NotifyCap] /\ lagged \in SUBSET Client
    /\ disabled \in SUBSET Node /\ switches \in 0..MaxPolicy /\ hidden \in [Client -> SUBSET Node]

\* No lost wake-up: a tracker that waits with nothing to receive has been shown the
\* registry, unless the task that changed it has yet to notify.
TrackerUpToDate ==
    \A k \in Client : client[k] = "recv" /\ pending[k] = 0 /\ k \notin lagged =>
        shown[k] = registry \/ \E t \in Task : pc[t] = "notify"

\* The accept loop has not returned.
Serving == accepting \in {"select", "accept"}

\* The backends whose watchers poll.
Polled == {b \in watched : mode[b] = "poll"}

\* Polling repairs stale publications: when the devices stop changing and some watcher
\* polls, the registry ends up as the merge of the last lists received, also from the
\* watchers that track; for a polled backend that is what it lists, nothing when it is
\* down; and every tracker has been shown it.
PollingConverges ==
    <>[](Serving /\ Polled # {} =>
            /\ registry = raw
            /\ \A b \in Polled : raw[b] = Fetched(b)
            /\ \A b \in Backend \ watched : raw[b] = {}
            /\ \A k \in Client : client[k] = "recv" => shown[k] = registry)

\* When a node is disabled, none of its devices appear (README.md:231).  A tracker is told
\* of it with the next change of the registry, whatever changed and whenever it comes: a
\* notification that is unread when the node is disabled is enough.
DisabledNodeLeftOut ==
    \A b \in Node : \A k \in Client :
        b \in disabled /\ client[k] = "recv" /\ (pending[k] > 0 \/ k \in lagged) ~>
            b \in hidden[k] \/ b \notin disabled \/ client[k] = "done"
=============================================================================
