--------------------------- MODULE ClassicHubProofs ---------------------------
(***************************************************************************)
(* Proofs about ClassicHub for any backends, serials, clients and any      *)
(* capacity of the change notification.                                    *)
(***************************************************************************)
EXTENDS ClassicHub, TLAPS

(***************************************************************************)
(* The poller and its watchers: the seeder has a backend to look at in     *)
(* each of its two rounds, and no watcher runs before it has finished.     *)
(***************************************************************************)
RoundInv ==
    /\ pc[Seeder] \in {"gate", "seed"} => visited < Len(Order)
    /\ pc[Seeder] # "done" => \A b \in Backend : pc[b] = "off"

TypeInv == TypeOK /\ RoundInv

\* What the proofs use of the configured order.
LEMMA OrderFacts ==
    /\ Len(Order) \in Nat \ {0}
    /\ \A i \in 1..Len(Order) : Order[i] \in Backend
    /\ Seeder \in Task /\ Backend \subseteq Task /\ Seeder \notin Backend
  <1>1. Order \in Seq(Backend) /\ Order # <<>>
    BY OrderAssumption
  <1>2. Len(Order) \in Nat /\ Len(Order) # 0 /\ \A i \in 1..Len(Order) : Order[i] \in Backend
    BY <1>1
  <1> QED BY <1>2, OrderAssumption DEF Task

LEMMA ListsFacts ==
    /\ NoDevices \in Lists
    /\ TypeOK => \A b \in Backend : Fetched(b) \in SUBSET Serial
  BY DEF Lists, NoDevices, Fetched, TypeOK

LEMMA TypeInit == Init => TypeInv
  <1> SUFFICES ASSUME Init PROVE TypeInv
    OBVIOUS
  <1>1. registry \in Lists
    BY DEF Init, FirstPoll, Fetched, Lists
  <1>2. stream \in [Backend -> Seq(SUBSET Serial)]
    BY DEF Init
  <1>3. /\ changes \in 0..MaxChange /\ flaps \in 0..MaxFlap /\ visited \in 0..Len(Order)
        /\ switches \in 0..MaxPolicy /\ pending \in [Client -> 0..NotifyCap]
    BY BoundAssumption, OrderFacts DEF Init
  <1>4. /\ raw \in Lists /\ copy \in [Task -> Lists] /\ shown \in [Client -> Lists]
    BY ListsFacts DEF Init
  <1>5. pc \in [Task -> {"gate", "seed", "copy", "update", "notify", "done", "off", "probe", "connect",
                         "track", "fetch"}]
    BY DEF Init
  <1>6. TypeOK
    BY <1>1, <1>2, <1>3, <1>4, <1>5 DEF Init, TypeOK
  <1>7. RoundInv
    BY OrderFacts DEF Init, RoundInv
  <1> QED BY <1>6, <1>7 DEF TypeInv

LEMMA TypeBackend ==
    ASSUME TypeInv, NEW b \in Backend, BackendChange(b) \/ BackendFlap(b) \/ SwitchNode(b)
    PROVE  TypeInv'
  <1> USE BoundAssumption DEF TypeInv, TypeOK, pollerVars, loopVars, clientVars, policyVars, notifyVars,
                              backendVars
  <1>1. CASE BackendChange(b)
    <2>1. PICK S \in SUBSET Serial :
              /\ real' = [real EXCEPT ![b] = S]
              /\ stream' = [stream EXCEPT ![b] = IF b \in linked THEN Append(@, S) ELSE @]
      BY <1>1 DEF BackendChange
    <2>2. real' \in Lists
      BY <2>1 DEF Lists
    <2>3. Append(stream[b], S) \in Seq(SUBSET Serial)
      OBVIOUS
    <2>4. stream' \in [Backend -> Seq(SUBSET Serial)]
      BY <2>1, <2>3
    <2> QED BY <1>1, <2>2, <2>4 DEF BackendChange, RoundInv
  <1>2. CASE BackendFlap(b)
    BY <1>2 DEF BackendFlap, RoundInv
  <1>3. CASE SwitchNode(b)
    BY <1>3, SubsetAssumption DEF SwitchNode, RoundInv
  <1> QED BY <1>1, <1>2, <1>3

LEMMA TypeSeeder ==
    ASSUME TypeInv, Gate \/ Seed \/ Aborted
    PROVE  TypeInv'
  <1> USE OrderFacts DEF TypeInv, pollerVars, loopVars, clientVars, policyVars, notifyVars, backendVars
  <1>1. CASE Gate
    <2> DEFINE b == Order[visited + 1]
    <2>1. b \in Backend
      BY <1>1 DEF Gate, TypeOK, RoundInv
    <2>2. watched' \in SUBSET Backend
      BY <1>1, <2>1 DEF Gate, TypeOK
    <2>3. visited' \in 0..Len(Order) /\ visited' < Len(Order)
      BY <1>1 DEF Gate, TypeOK, RoundInv
    <2>4. /\ pc' \in [Task -> {"gate", "seed", "copy", "update", "notify", "done", "off", "probe",
                               "connect", "track", "fetch"}]
          /\ \A x \in Backend : pc'[x] = pc[x]
      BY <1>1 DEF Gate, TypeOK
    <2>5. TypeOK'
      BY <1>1, <2>2, <2>3, <2>4 DEF Gate, TypeOK
    <2>6. RoundInv'
      BY <1>1, <2>3, <2>4 DEF Gate, RoundInv
    <2> QED BY <2>5, <2>6
  <1>2. CASE Seed
    <2> DEFINE b == Order[visited + 1]
    <2>1. b \in Backend /\ Fetched(b) \in SUBSET Serial
      BY <1>2, ListsFacts DEF Seed, TypeOK, RoundInv
    <2>2. raw' \in Lists
      BY <1>2, <2>1 DEF Seed, TypeOK, Lists
    <2>3. visited' \in 0..Len(Order) /\ (visited' < Len(Order) \/ visited' = Len(Order))
      BY <1>2 DEF Seed, TypeOK, RoundInv
    <2>4. /\ pc' \in [Task -> {"gate", "seed", "copy", "update", "notify", "done", "off", "probe",
                               "connect", "track", "fetch"}]
          /\ \A x \in Backend : pc'[x] = pc[x]
          /\ visited' = Len(Order) => pc'[Seeder] = "copy"
      BY <1>2 DEF Seed, TypeOK
    <2>5. TypeOK'
      BY <1>2, <2>2, <2>3, <2>4 DEF Seed, TypeOK
    <2>6. RoundInv'
      BY <1>2, <2>3, <2>4 DEF Seed, RoundInv
    <2> QED BY <2>5, <2>6
  <1>3. CASE Aborted
    BY <1>3 DEF Aborted, TypeOK, RoundInv
  <1> QED BY <1>1, <1>2, <1>3

LEMMA AfterPublishFacts ==
    ASSUME TypeInv, NEW t \in Task, pc[t] \in {"update", "notify"}
    PROVE  /\ AfterPublish(t) \in [Task -> {"gate", "seed", "copy", "update", "notify", "done", "off",
                                            "probe", "connect", "track", "fetch"}]
           /\ AfterPublish(t)[Seeder] = "done"
           /\ \A u \in Task \ {t} : pc[u] = "notify" => AfterPublish(t)[u] = "notify"
  <1> USE OrderFacts DEF TypeInv
  <1>1. CASE t = Seeder
    <2>1. AfterPublish(t) = [u \in Task |-> IF u = Seeder THEN "done"
                                            ELSE IF u \in watched THEN "probe" ELSE "off"]
      BY <1>1 DEF AfterPublish
    <2>2. \A u \in Task \ {t} : pc[u] = "off"
      BY <1>1 DEF RoundInv, Task
    <2> QED BY <1>1, <2>1, <2>2
  <1>2. CASE t # Seeder
    <2>1. AfterPublish(t) = [pc EXCEPT ![t] = IF mode[t] = "track" THEN "track" ELSE "fetch"]
      BY <1>2 DEF AfterPublish
    <2>2. t \in Backend /\ pc[Seeder] = "done"
      BY <1>2 DEF RoundInv, Task
    <2>3. pc \in [Task -> {"gate", "seed", "copy", "update", "notify", "done", "off", "probe",
                           "connect", "track", "fetch"}]
      BY DEF TypeOK
    <2> QED BY <1>2, <2>1, <2>2, <2>3
  <1> QED BY <1>1, <1>2

\* A running task that moves on keeps RoundInv, unless it goes back to a round.
LEMMA RoundKept ==
    ASSUME TypeInv, NEW t \in Task, pc[t] \notin {"off", "done"}, NEW s, s \notin {"gate", "seed"},
           pc' = [pc EXCEPT ![t] = s], visited' = visited
    PROVE  RoundInv'
  <1> USE OrderFacts DEF TypeInv
  <1>1. pc \in [Task -> {"gate", "seed", "copy", "update", "notify", "done", "off", "probe",
                         "connect", "track", "fetch"}]
    BY DEF TypeOK
  <1>2. CASE t = Seeder
    BY <1>1, <1>2 DEF RoundInv, Task
  <1>3. CASE t # Seeder
    <2>1. t \in Backend
      BY <1>3 DEF Task
    <2> QED BY <1>1, <1>3, <2>1 DEF RoundInv
  <1> QED BY <1>2, <1>3

LEMMA TypeTask ==
    ASSUME TypeInv, NEW t \in Task, TaskStep(t)
    PROVE  TypeInv'
  <1> USE OrderFacts DEF TypeInv, pollerVars, loopVars, clientVars, policyVars, notifyVars, backendVars
  <1>1. CASE CopyLists(t)
    <2>1. TypeOK'
      BY <1>1 DEF CopyLists, TypeOK
    <2> QED BY <1>1, <2>1, RoundKept DEF CopyLists
  <1>2. CASE UpdateRegistry(t)
    <2>1. registry' \in Lists
      BY <1>2 DEF UpdateRegistry, TypeOK
    <2>2. CASE pc' = AfterPublish(t)
      <3>1. TypeOK'
        BY <1>2, <2>1, <2>2, AfterPublishFacts DEF UpdateRegistry, TypeOK
      <3>2. RoundInv'
        BY <1>2, <2>2, AfterPublishFacts DEF UpdateRegistry, RoundInv
      <3> QED BY <3>1, <3>2
    <2>3. CASE pc' = [pc EXCEPT ![t] = "notify"]
      <3>1. TypeOK'
        <4>1. pc' \in [Task -> {"gate", "seed", "copy", "update", "notify", "done", "off",
                                "probe", "connect", "track", "fetch"}]
          BY <2>3 DEF TypeOK
        <4> QED BY <1>2, <2>1, <4>1 DEF UpdateRegistry, TypeOK
      <3> QED BY <1>2, <2>3, <3>1, RoundKept DEF UpdateRegistry
    <2> QED BY <1>2, <2>2, <2>3 DEF UpdateRegistry
  <1>3. CASE NotifyTrackers(t)
    <2>1. pending' \in [Client -> 0..NotifyCap] /\ lagged' \in SUBSET Client
      <3>1. \A k \in Client : pending[k] \in 0..NotifyCap
        BY DEF TypeOK
      <3>2. \A k \in Client : (IF Subscribed(k) /\ pending[k] < NotifyCap
                               THEN pending[k] + 1 ELSE pending[k]) \in 0..NotifyCap
        BY <3>1, BoundAssumption
      <3> QED BY <1>3, <3>2 DEF NotifyTrackers, TypeOK
    <2>2. TypeOK'
      BY <1>3, <2>1, AfterPublishFacts DEF NotifyTrackers, TypeOK
    <2>3. RoundInv'
      BY <1>3, AfterPublishFacts DEF NotifyTrackers, RoundInv
    <2> QED BY <2>2, <2>3
  <1> QED BY <1>1, <1>2, <1>3 DEF TaskStep

LEMMA TypeWatcher ==
    ASSUME TypeInv, NEW b \in Backend, WatcherStep(b)
    PROVE  TypeInv'
  <1> USE OrderFacts DEF TypeInv, pollerVars, loopVars, clientVars, policyVars, notifyVars, backendVars
  <1>1. CASE Probe(b)
    <2>1. TypeOK'
      BY <1>1 DEF Probe, TypeOK
    <2> QED BY <1>1, <2>1, RoundKept DEF Probe
  <1>2. CASE TrackConnect(b)
    <2>1. <<real[b]>> \in Seq(SUBSET Serial)
      BY DEF TypeOK, Lists
    <2>2. TypeOK'
      BY <1>2, <2>1 DEF TrackConnect, TypeOK
    <2> QED BY <1>2, <2>2, RoundKept DEF TrackConnect
  <1>3. CASE TrackPacket(b)
    <2>1. Head(stream[b]) \in SUBSET Serial /\ Tail(stream[b]) \in Seq(SUBSET Serial)
      BY <1>3 DEF TrackPacket, TypeOK
    <2>2. raw' \in Lists /\ stream' \in [Backend -> Seq(SUBSET Serial)]
      BY <1>3, <2>1 DEF TrackPacket, TypeOK, Lists
    <2>3. TypeOK'
      BY <1>3, <2>2 DEF TrackPacket, TypeOK
    <2> QED BY <1>3, <2>3, RoundKept DEF TrackPacket
  <1>4. CASE TrackLost(b)
    <2>1. TypeOK'
      BY <1>4 DEF TrackLost, TypeOK
    <2> QED BY <1>4, <2>1, RoundKept DEF TrackLost
  <1>5. CASE Poll(b)
    <2>1. raw' \in Lists
      BY <1>5, ListsFacts DEF Poll, TypeOK, Lists
    <2>2. TypeOK'
      BY <1>5, <2>1 DEF Poll, TypeOK
    <2> QED BY <1>5, <2>2, RoundKept DEF Poll
  <1> QED BY <1>1, <1>2, <1>3, <1>4, <1>5 DEF WatcherStep

LEMMA TypeClient ==
    ASSUME TypeInv,
           \/ NextTurn \/ SelectKill \/ SelectEnd
           \/ \E k \in Client : Connect(k) \/ SelectAccept(k) \/ RequestStep(k) \/ TrackerStep(k)
    PROVE  TypeInv'
  <1> USE DEF TypeInv, TypeOK, RoundInv, pollerVars, loopVars, clientVars, policyVars, notifyVars,
              backendVars
  <1>1. CASE NextTurn \/ SelectKill \/ SelectEnd
    BY <1>1 DEF NextTurn, SelectKill, SelectEnd
  <1>2. ASSUME NEW k \in Client, Connect(k) \/ SelectAccept(k) PROVE TypeInv'
    BY <1>2 DEF Connect, SelectAccept
  <1>3. ASSUME NEW k \in Client, RequestStep(k) PROVE TypeInv'
    <2>1. CASE Kill(k)
      <3>1. killed' \in BOOLEAN
        BY <2>1 DEF Kill
      <3> QED BY <2>1, <3>1 DEF Kill
    <2>2. CASE Answer(k)
      BY <2>2 DEF Answer
    <2>3. CASE Subscribe(k)
      BY <2>3, BoundAssumption DEF Subscribe
    <2> QED BY <1>3, <2>1, <2>2, <2>3 DEF RequestStep
  <1>4. ASSUME NEW k \in Client, TrackRead(k) \/ TrackWrite(k) PROVE TypeInv'
    <2>1. CASE TrackRead(k)
      <3>1. hidden' \in [Client -> SUBSET Node] /\ shown' \in [Client -> Lists]
        BY <2>1 DEF TrackRead
      <3> QED BY <2>1, <3>1 DEF TrackRead
    <2>2. CASE TrackWrite(k)
      BY <2>2 DEF TrackWrite
    <2> QED BY <1>4, <2>1, <2>2
  <1>5. ASSUME NEW k \in Client, TrackGone(k) PROVE TypeInv'
    <2>1. /\ client' = [client EXCEPT ![k] = "done"]
          /\ shown' = [shown EXCEPT ![k] = NoDevices] /\ hidden' = [hidden EXCEPT ![k] = {}]
          /\ pending' = [pending EXCEPT ![k] = 0] /\ lagged' = lagged \ {k}
      BY <1>5 DEF TrackGone
    <2>2. shown' \in [Client -> Lists]
      BY <2>1, ListsFacts
    <2>3. pending' \in [Client -> 0..NotifyCap]
      BY <2>1, BoundAssumption
    <2> QED BY <1>5, <2>1, <2>2, <2>3 DEF TrackGone
  <1>6. ASSUME NEW k \in Client, TrackRecv(k) PROVE TypeInv'
    <2>1. pending' \in [Client -> 0..NotifyCap] /\ lagged' \in SUBSET Client
      <3>1. pending[k] > 0 => pending[k] - 1 \in 0..NotifyCap
        BY BoundAssumption
      <3>2. CASE lagged' = lagged \ {k} /\ UNCHANGED pending
        BY <3>2
      <3>3. CASE pending[k] > 0 /\ pending' = [pending EXCEPT ![k] = @ - 1] /\ UNCHANGED lagged
        BY <3>1, <3>3
      <3> QED BY <1>6, <3>2, <3>3 DEF TrackRecv
    <2> QED BY <1>6, <2>1 DEF TrackRecv
  <1> QED BY <1>1, <1>2, <1>3, <1>4, <1>5, <1>6 DEF TrackerStep

LEMMA TypeNext == TypeInv /\ [Next]_vars => TypeInv'
  <1>1. TypeInv /\ UNCHANGED vars => TypeInv'
    BY DEF TypeInv, TypeOK, RoundInv, vars, pollerVars, loopVars, clientVars, policyVars, notifyVars,
           backendVars
  <1> QED BY <1>1, TypeBackend, TypeSeeder, TypeTask, TypeWatcher, TypeClient DEF Next

\* Type correctness of the poller, the watchers, the registry and the clients; the seeder
\* never indexes past the configured backends.
THEOREM TypeCorrect == Spec => [](TypeOK /\ RoundInv)
  BY TypeInit, TypeNext, PTL DEF Spec, TypeInv

(***************************************************************************)
(* No tracker misses a change.                                             *)
(***************************************************************************)

\* A tracker between its reading of the registry and its next one has the
\* registry, or a notification that is unread or still to be sent.
TrackInv ==
    \A k \in Client : client[k] \in {"write", "recv"} =>
        \/ shown[k] = registry \/ pending[k] > 0 \/ k \in lagged
        \/ \E t \in Task : pc[t] = "notify"

LEMMA TrackInit == Init => TrackInv
  BY DEF Init, TrackInv

\* Steps that leave the registry, the clients and the notifications alone, and no
\* notification undone.
LEMMA TrackQuiet ==
    ASSUME TrackInv, UNCHANGED <<registry, client, shown, pending, lagged>>,
           \A t \in Task : pc[t] = "notify" => pc'[t] = "notify"
    PROVE  TrackInv'
  BY DEF TrackInv

LEMMA TrackTask ==
    ASSUME TypeInv, TrackInv, NEW t \in Task, TaskStep(t)
    PROVE  TrackInv'
  <1> USE DEF pollerVars, loopVars, clientVars, policyVars, notifyVars, backendVars
  <1>1. CASE CopyLists(t)
    BY <1>1, TrackQuiet DEF CopyLists, TypeInv, TypeOK
  <1>2. CASE UpdateRegistry(t)
    <2>1. CASE registry = copy[t]
      BY <1>2, <2>1, AfterPublishFacts, TrackQuiet DEF UpdateRegistry
    <2>2. CASE registry # copy[t]
      <3>1. pc'[t] = "notify"
        BY <1>2, <2>2 DEF UpdateRegistry, TypeInv, TypeOK
      <3> QED BY <3>1 DEF TrackInv
    <2> QED BY <2>1, <2>2
  <1>3. CASE NotifyTrackers(t)
    <2> SUFFICES ASSUME NEW k \in Client, client'[k] \in {"write", "recv"}
                 PROVE  pending'[k] > 0 \/ k \in lagged'
      BY DEF TrackInv
    <2>1. Subscribed(k) /\ pending[k] \in 0..NotifyCap
      BY <1>3 DEF NotifyTrackers, Subscribed, TypeInv, TypeOK
    <2>2. CASE pending[k] < NotifyCap
      BY <1>3, <2>1, <2>2, BoundAssumption DEF NotifyTrackers
    <2>3. CASE pending[k] = NotifyCap
      BY <1>3, <2>1, <2>3 DEF NotifyTrackers
    <2> QED BY <2>1, <2>2, <2>3, BoundAssumption
  <1> QED BY <1>1, <1>2, <1>3 DEF TaskStep

LEMMA TrackPoller ==
    ASSUME TypeInv, TrackInv,
           \/ Gate \/ Seed \/ Aborted
           \/ \E b \in Backend : BackendChange(b) \/ BackendFlap(b) \/ SwitchNode(b) \/ WatcherStep(b)
    PROVE  TrackInv'
  <1> USE OrderFacts DEF pollerVars, loopVars, clientVars, policyVars, notifyVars, backendVars,
                         TypeInv
  <1>0. pc \in [Task -> {"gate", "seed", "copy", "update", "notify", "done", "off", "probe",
                         "connect", "track", "fetch"}]
    BY DEF TypeOK
  <1>1. CASE Gate
    BY <1>0, <1>1, TrackQuiet DEF Gate
  <1>2. CASE Seed
    BY <1>0, <1>2, TrackQuiet DEF Seed
  <1>3. CASE Aborted
    BY <1>0, <1>3, TrackQuiet DEF Aborted
  <1>4. ASSUME NEW b \in Backend, BackendChange(b) \/ BackendFlap(b) \/ SwitchNode(b)
        PROVE  TrackInv'
    BY <1>4, TrackQuiet DEF BackendChange, BackendFlap, SwitchNode
  <1>5. ASSUME NEW b \in Backend, WatcherStep(b) PROVE TrackInv'
    BY <1>0, <1>5, TrackQuiet DEF WatcherStep, Probe, TrackConnect, TrackPacket, TrackLost, Poll
  <1> QED BY <1>1, <1>2, <1>3, <1>4, <1>5

LEMMA TrackClient ==
    ASSUME TypeInv, TrackInv,
           \/ NextTurn \/ SelectKill \/ SelectEnd
           \/ \E k \in Client : Connect(k) \/ SelectAccept(k) \/ RequestStep(k) \/ TrackerStep(k)
    PROVE  TrackInv'
  <1> USE DEF TrackInv, TypeInv, TypeOK, pollerVars, loopVars, clientVars, policyVars, notifyVars,
              backendVars
  <1>1. CASE NextTurn \/ SelectKill \/ SelectEnd
    BY <1>1 DEF NextTurn, SelectKill, SelectEnd
  <1>2. ASSUME NEW k \in Client, Connect(k) \/ SelectAccept(k) PROVE TrackInv'
    BY <1>2 DEF Connect, SelectAccept
  <1>3. ASSUME NEW k \in Client, RequestStep(k) PROVE TrackInv'
    BY <1>3 DEF RequestStep, Kill, Answer, Subscribe
  <1>4. ASSUME NEW k \in Client, TrackRead(k) \/ TrackWrite(k) PROVE TrackInv'
    BY <1>4 DEF TrackRead, TrackWrite
  <1>5. ASSUME NEW k \in Client, TrackGone(k) PROVE TrackInv'
    BY <1>5 DEF TrackGone
  <1>6. ASSUME NEW k \in Client, TrackRecv(k) PROVE TrackInv'
    BY <1>6 DEF TrackRecv
  <1> QED BY <1>1, <1>2, <1>3, <1>4, <1>5, <1>6 DEF TrackerStep

LEMMA TrackNext == TypeInv /\ TrackInv /\ [Next]_vars => TrackInv'
  <1>1. TypeInv /\ TrackInv /\ UNCHANGED vars => TrackInv'
    BY DEF TrackInv, vars, pollerVars, loopVars, clientVars, policyVars, notifyVars, backendVars
  <1> QED BY <1>1, TrackTask, TrackPoller, TrackClient DEF Next

\* No lost wake-up: a host:track-devices client that waits on the broadcast channel with
\* nothing to receive has been shown the registry as it is, unless the publication that
\* changed it has still to notify.  It needs the order of src/src/session.rs (subscribe,
\* then read) and that of publish_shared (replace, then notify), and that a full channel
\* marks the receiver lagged.
THEOREM TrackerUpToDateAlways == Spec => []TrackerUpToDate
  <1>1. TypeInv /\ TrackInv => TrackerUpToDate
    BY DEF TypeInv, TypeOK, TrackInv, TrackerUpToDate
  <1> QED BY <1>1, TypeInit, TypeNext, TrackInit, TrackNext, PTL DEF Spec
=============================================================================
