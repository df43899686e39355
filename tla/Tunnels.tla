------------------------------- MODULE Tunnels -------------------------------
(***************************************************************************)
(* The local listeners for scrcpy (src/src/tunnel.rs): the requests that   *)
(* add and remove a forward, the task of each listener, and the            *)
(* connections it accepts, which are opened towards the device one after   *)
(* the other in the order they came.                                       *)
(*                                                                         *)
(* A listener is named after the request that added it.  The lock of the   *)
(* TunnelManager is held while a request waits for an old listener's task. *)
(***************************************************************************)
EXTENDS Naturals, Sequences, SequencesExt

CONSTANTS
    Port,
    Request,    \* requests of transport sessions, each [op, port, serial, owner]
    Req,        \* their names
    Owner,      \* users (None in a hub of one user)
    Conn,       \* connections to the listeners, in the order they may come
    OwnerOf,    \* OwnerOf[c]: the user behind connection c
    Ephemeral,  \* port 0: the system picks one
    NoReq,
    MaxRemove,  \* bound: times a user's agent goes away
    MayFail     \* whether accept may fail

ASSUME RequestAssumption ==
    /\ NoReq \notin Req /\ Ephemeral \notin Port
    /\ Request \in [Req -> [op : {"add", "kill"}, port : Port \cup {Ephemeral}, serial : STRING,
                            owner : Owner]]
ASSUME ConnAssumption == OwnerOf \in [Conn -> Owner]
ASSUME BoundAssumption == MaxRemove \in Nat /\ MayFail \in BOOLEAN

VARIABLES
    pc,         \* pc[r]: where transport is with request r
    lock,       \* the request that holds TunnelManager.listeners
    old,        \* old[r]: the listener whose task r waits for
    listeners,  \* TunnelManager.listeners: port -> listener
    state,      \* state[r]: the task of the listener r added
    portOf,     \* portOf[r]: the port it is bound to
    backlog,    \* backlog[r]: connections the kernel has completed, not yet accepted
    ready,      \* listeners the runtime's I/O driver has marked as having connections
    accepted,   \* accepted[r]: connections handed to a task, in that order
    conn,       \* conn[c]: state of a connection
    late,       \* history: connections that came too late to be promised anything
    removed     \* times remove_owner ran

managerVars == <<pc, lock, old, listeners, removed>>
taskVars    == <<state, portOf>>
connVars    == <<backlog, ready, accepted, conn, late>>
vars == <<managerVars, taskVars, connVars>>

Init ==
    /\ pc = [r \in Req |-> "idle"]
    /\ lock = NoReq
    /\ old = [r \in Req |-> NoReq]
    /\ listeners = [p \in Port |-> NoReq]
    /\ state = [r \in Req |-> "none"]
    /\ portOf = [r \in Req |-> Ephemeral]
    /\ backlog = [r \in Req |-> <<>>]
    /\ ready = {}
    /\ accepted = [r \in Req |-> <<>>]
    /\ conn = [c \in Conn |-> "none"]
    /\ late = {}
    /\ removed = 0

\* The socket of the listener is open.
Bound(r) == state[r] \in {"run", "stopping", "draining", "closing", "failed"}

\* The listener a request finds under its port; none under port 0.
Present(r) == IF Request[r].port \in Port THEN listeners[Request[r].port] ELSE NoReq

\* The listener belongs to the user and the device of the request.
Same(r, l) == Request[l].owner = Request[r].owner /\ Request[l].serial = Request[r].serial

-----------------------------------------------------------------------------
(***************************************************************************)
(* transport, add and remove                                               *)
(***************************************************************************)

\* The request has been read.  The driver hands out events in the order they happened, so
\* by now it has marked every listener that had a connection before.
Begin(r) ==
    /\ pc[r] = "idle"
    /\ pc' = [pc EXCEPT ![r] = "lock"]
    /\ ready' = ready \cup {l \in Req : backlog[l] # <<>>}
    /\ UNCHANGED <<lock, old, listeners, removed, taskVars, backlog, accepted, conn, late>>

\* A port of another user or device is refused, or the request to remove it is passed on
\* to the device's own server.
Mismatch(r) ==
    /\ pc[r] = "lock" /\ lock = NoReq
    /\ \/ Present(r) # NoReq /\ ~Same(r, Present(r))
       \/ Present(r) = NoReq /\ Request[r].op = "kill"
    /\ pc' = [pc EXCEPT ![r] = "refused"]
    /\ UNCHANGED <<lock, old, listeners, removed, taskVars, connVars>>

AddFirst(r) ==
    /\ pc[r] = "lock" /\ lock = NoReq /\ Request[r].op = "add" /\ Present(r) = NoReq
    /\ lock' = r
    /\ pc' = [pc EXCEPT ![r] = "bind"]
    /\ UNCHANGED <<old, listeners, removed, taskVars, connVars>>

\* Listener::stop, begun: the entry is taken out of the map and its task told to stop; a
\* task that has ended already stays so.
TakeDown(r) ==
    /\ pc[r] = "lock" /\ lock = NoReq /\ Present(r) # NoReq /\ Same(r, Present(r))
    /\ lock' = r
    /\ old' = [old EXCEPT ![r] = Present(r)]
    /\ listeners' = [listeners EXCEPT ![Request[r].port] = NoReq]
    /\ state' = [state EXCEPT ![Present(r)] = IF @ = "run" THEN "stopping" ELSE @]
    /\ pc' = [pc EXCEPT ![r] = "await"]
    /\ UNCHANGED <<removed, portOf, connVars>>

\* The task has ended; the lock has been held all the while.
TakenDown(r) ==
    /\ pc[r] = "await" /\ state[old[r]] = "closed"
    /\ IF Request[r].op = "add"
         THEN pc' = [pc EXCEPT ![r] = "bind"] /\ UNCHANGED lock
         ELSE pc' = [pc EXCEPT ![r] = "ok"] /\ lock' = NoReq
    /\ UNCHANGED <<old, listeners, removed, taskVars, connVars>>

\* Mutant: the listener is entered under the port that was asked for.
BindUnderRequestedPort(r) ==
    /\ pc[r] = "bind"
    /\ \E p \in Port :
          /\ Request[r].port \in {p, Ephemeral}
          /\ \A l \in Req : Bound(l) => portOf[l] # p
          /\ portOf' = [portOf EXCEPT ![r] = p]
    /\ listeners' = (Request[r].port :> r) @@ listeners
    /\ state' = [state EXCEPT ![r] = "run"]
    /\ pc' = [pc EXCEPT ![r] = "ok"]
    /\ lock' = NoReq
    /\ UNCHANGED <<old, removed, connVars>>

\* Bind, spawn the task, enter the listener under the port it is bound to.
Bind(r) ==
    /\ pc[r] = "bind"
    /\ \E p \in Port :
          /\ Request[r].port \in {p, Ephemeral}
          /\ \A l \in Req : Bound(l) => portOf[l] # p
          /\ portOf' = [portOf EXCEPT ![r] = p]
          /\ listeners' = [listeners EXCEPT ![p] = r]
    /\ state' = [state EXCEPT ![r] = "run"]
    /\ pc' = [pc EXCEPT ![r] = "ok"]
    /\ lock' = NoReq
    /\ UNCHANGED <<old, removed, connVars>>

\* The port is taken, by a listener whose task has not ended or by another process.
BindFailed(r) ==
    /\ pc[r] = "bind"
    /\ pc' = [pc EXCEPT ![r] = "refused"]
    /\ lock' = NoReq
    /\ UNCHANGED <<old, listeners, removed, taskVars, connVars>>

\* Mutant: without the Drop of Listener the tasks go on.
RemoveOwnerDetaches(u) ==
    /\ lock = NoReq /\ removed < MaxRemove
    /\ removed' = removed + 1
    /\ listeners' = [p \in Port |-> IF listeners[p] # NoReq /\ Request[listeners[p]].owner = u
                                   THEN NoReq ELSE listeners[p]]
    /\ UNCHANGED <<pc, lock, old, taskVars, connVars>>

\* remove_owner drops the user's listeners: they are told to stop, nobody waits.
RemoveOwner(u) ==
    /\ lock = NoReq /\ removed < MaxRemove
    /\ removed' = removed + 1
    /\ LET gone == {p \in Port : listeners[p] # NoReq /\ Request[listeners[p]].owner = u}
           tasks == {listeners[p] : p \in gone}
       IN  /\ listeners' = [p \in Port |-> IF p \in gone THEN NoReq ELSE listeners[p]]
           /\ state' = [r \in Req |-> IF r \in tasks /\ state[r] = "run" THEN "stopping" ELSE state[r]]
           /\ late' = late \cup UNION {ToSet(backlog[r]) : r \in tasks \ ready}
    /\ UNCHANGED <<pc, lock, old, portOf, backlog, ready, accepted, conn>>

-----------------------------------------------------------------------------
(***************************************************************************)
(* The task of a listener                                                  *)
(***************************************************************************)

\* A request to replace or remove the listener has been read.
Doomed(r) == \E q \in Req : pc[q] = "lock" /\ Request[q].port = portOf[r] /\ Same(q, r)

\* A connection is completed by the kernel as long as the socket is open.
Connect(r, c) ==
    /\ Bound(r) /\ conn[c] = "none"
    /\ conn' = [conn EXCEPT ![c] = "backlog"]
    /\ backlog' = [backlog EXCEPT ![r] = Append(@, c)]
    /\ late' = IF state[r] = "run" /\ ~Doomed(r) THEN late ELSE late \cup {c}
    /\ UNCHANGED <<managerVars, taskVars, ready, accepted>>

\* The driver marks the listener; without the mark poll_accept does not ask the kernel.
Notice(r) ==
    /\ backlog[r] # <<>>
    /\ ready' = ready \cup {r}
    /\ UNCHANGED <<managerVars, taskVars, backlog, accepted, conn, late>>

\* The oldest connection is accepted; one of another user is dropped, the others get a
\* task of their own.  The loop goes on until the kernel has no more, which clears the mark.
Accept(r) ==
    LET c == Head(backlog[r])
        ours == OwnerOf[c] = Request[r].owner
    IN  /\ state[r] \in {"run", "draining"} /\ backlog[r] # <<>> /\ r \in ready
        /\ ready' = IF Tail(backlog[r]) = <<>> THEN ready \ {r} ELSE ready
        /\ backlog' = [backlog EXCEPT ![r] = Tail(@)]
        /\ accepted' = [accepted EXCEPT ![r] = IF ours THEN Append(@, c) ELSE @]
        /\ conn' = [conn EXCEPT ![c] = IF ours THEN "waiting" ELSE "dropped"]
        /\ UNCHANGED <<managerVars, taskVars, late>>

\* The biased select sees the stop signal before anything else.
Stop(r) ==
    /\ state[r] = "stopping"
    /\ state' = [state EXCEPT ![r] = "draining"]
    /\ UNCHANGED <<managerVars, portOf, connVars>>

\* Mutant: the loop ends at the stop signal, as if there were no draining.
DrainedAtOnce(r) ==
    /\ state[r] = "draining"
    /\ state' = [state EXCEPT ![r] = "closing"]
    /\ UNCHANGED <<managerVars, portOf, connVars>>

\* Mutant: the loop waits for one more connection.
DrainedAfterOneMore(r) ==
    /\ state[r] = "draining" /\ backlog[r] = <<>> /\ accepted[r] # <<>>
    /\ state' = [state EXCEPT ![r] = "closing"]
    /\ UNCHANGED <<managerVars, portOf, connVars>>

\* poll_accept finds nothing, or no mark: the loop ends.
Drained(r) ==
    /\ state[r] = "draining" /\ (backlog[r] = <<>> \/ r \notin ready)
    /\ state' = [state EXCEPT ![r] = "closing"]
    /\ UNCHANGED <<managerVars, portOf, connVars>>

\* accept returns an error: the loop ends, and the entry stays in the map.
AcceptFails(r) ==
    /\ MayFail /\ state[r] \in {"run", "draining"}
    /\ state' = [state EXCEPT ![r] = "failed"]
    /\ UNCHANGED <<managerVars, portOf, connVars>>

\* The socket is closed; what has come in meanwhile is reset by the kernel.
Close(r) ==
    /\ state[r] \in {"closing", "failed"}
    /\ state' = [state EXCEPT ![r] = "closed"]
    /\ conn' = [c \in Conn |-> IF c \in ToSet(backlog[r])
                               THEN IF state[r] = "failed" THEN "dropped" ELSE "reset"
                               ELSE conn[c]]
    /\ backlog' = [backlog EXCEPT ![r] = <<>>]
    /\ ready' = ready \ {r}
    /\ UNCHANGED <<managerVars, portOf, accepted, late>>

-----------------------------------------------------------------------------
(***************************************************************************)
(* The task of an accepted connection                                      *)
(***************************************************************************)

Pending(c) == conn[c] \in {"waiting", "opening"}

\* Mutant: the task does not wait for the one before it.
OpenNextAtOnce(r, i) ==
    /\ conn[accepted[r][i]] = "waiting"
    /\ conn' = [conn EXCEPT ![accepted[r][i]] = "opening"]
    /\ UNCHANGED <<managerVars, taskVars, backlog, ready, accepted, late>>

\* The task of the connection before has sent `done`, or there is none.
OpenNext(r, i) ==
    /\ conn[accepted[r][i]] = "waiting"
    /\ i > 1 => ~Pending(accepted[r][i - 1])
    /\ conn' = [conn EXCEPT ![accepted[r][i]] = "opening"]
    /\ UNCHANGED <<managerVars, taskVars, backlog, ready, accepted, late>>

\* The device answers OKAY twice; or an error, or ten seconds go by.
Opened(c) ==
    /\ conn[c] = "opening"
    /\ \E result \in {"open", "dropped"} : conn' = [conn EXCEPT ![c] = result]
    /\ UNCHANGED <<managerVars, taskVars, backlog, ready, accepted, late>>

-----------------------------------------------------------------------------
RequestStep(r) ==
    Mismatch(r) \/ AddFirst(r) \/ TakeDown(r) \/ TakenDown(r) \/ Bind(r) \/ BindFailed(r)

ListenerStep(r) == Accept(r) \/ Stop(r) \/ Drained(r) \/ Close(r)

ConnStep(c) ==
    \/ Opened(c)
    \/ \E r \in Req : \E i \in DOMAIN accepted[r] : accepted[r][i] = c /\ OpenNext(r, i)

Next ==
    \/ \E r \in Req : Begin(r) \/ RequestStep(r) \/ ListenerStep(r) \/ Notice(r)
                     \/ AcceptFails(r)
    \/ \E r \in Req, c \in Conn : Connect(r, c)
    \/ \E u \in Owner : RemoveOwner(u)
    \/ \E c \in Conn : ConnStep(c)

\* The runtime goes on while some task can.  Nothing more is needed: no task goes round
\* for ever, so each gets its turn.
Internal ==
    \/ \E r \in Req : RequestStep(r) \/ ListenerStep(r) \/ Notice(r)
    \/ \E c \in Conn : ConnStep(c)

Fairness == WF_vars(Internal)

Spec == Init /\ [][Next]_vars
FairSpec == Spec /\ Fairness

-----------------------------------------------------------------------------
(***************************************************************************)
(* Properties.                                                             *)
(***************************************************************************)

\* Every variable has its type.
TypeOK ==
    /\ pc \in [Req -> {"idle", "lock", "await", "bind", "ok", "refused"}]
    /\ lock \in Req \cup {NoReq}
    /\ old \in [Req -> Req \cup {NoReq}]
    /\ listeners \in [Port -> Req \cup {NoReq}]
    /\ state \in [Req -> {"none", "run", "stopping", "draining", "closing", "failed", "closed"}]
    /\ portOf \in [Req -> Port \cup {Ephemeral}]
    /\ backlog \in [Req -> Seq(Conn)] /\ accepted \in [Req -> Seq(Conn)]
    /\ conn \in [Conn -> {"none", "backlog", "waiting", "opening", "open", "dropped", "reset"}]
    /\ late \in SUBSET Conn /\ ready \in SUBSET Req
    /\ removed \in 0..MaxRemove

\* No forward is orphaned: a listener that has not been told to stop is in the map under
\* the very port it is bound to, so that killforward and remove_owner can find it,
\* however additions, replacements and removals of the same port overlap.
NoOrphanListener ==
    \A r \in Req : state[r] = "run" => listeners[portOf[r]] = r

\* scrcpy tells its sockets apart by their order: a connection is opened towards the
\* device only when no connection accepted before it is still being opened, although
\* each task waits only for the one before.
OrderPreserved ==
    \A r \in Req : \A i, j \in DOMAIN accepted[r] :
        i < j /\ conn[accepted[r][j]] \in {"opening", "open"} => ~Pending(accepted[r][i])

\* A connection that was made before the request to remove or replace its forward was
\* read is accepted, though the listener's last poll asks the kernel only when the driver
\* has marked it.  Only one that came later, or one the driver had not reported when the
\* owner's agent went away, may be reset.
QueuedNotReset == \A c \in Conn : conn[c] = "reset" => c \in late

\* Every request is answered, however many overlap and fail: whoever holds the manager's lock waits for a task that ends
\* without it.
EveryRequestAnswered == <>[](\A r \in Req : pc[r] \in {"idle", "ok", "refused"})
=============================================================================
