--------------------------- MODULE ServiceStartup ---------------------------
(***************************************************************************)
(* The unified service (src/service.rs): every user runs the same command; *)
(* the process that finds the listen port free becomes the shared daemon   *)
(* and runs its user's agent beside it, the others run their agent only.   *)
(*                                                                         *)
(* A process has a main task, a daemon task and an agent task that run     *)
(* concurrently; processes share the listen port, the name (or the path)   *)
(* of the control socket and the local adb server on its side port         *)
(* (src/local.rs).  What an agent and the daemon say to each other is      *)
(* TenantDaemon's business: here an agent is registered or not.            *)
(***************************************************************************)
EXTENDS Naturals

CONSTANTS
    Procs,      \* service processes, one per user
    Local,      \* those whose config includes the local adb server
    Free,       \* a port or a name that nobody owns; no hub
    Stock,      \* owner of the port: an adb server started by a client
    NoFile,     \* the socket file does not exist
    MaxStarts   \* bound on the starts

ASSUME ServiceAssumption ==
    /\ Local \subseteq Procs
    /\ Free \notin Procs /\ Stock \notin Procs /\ Free # Stock
    /\ MaxStarts \in Nat

VARIABLES
    byPath,     \* the control socket was given as a path
    port,       \* owner of the listen port
    named,      \* owner of the abstract name of the control socket
    path,       \* the socket file: its owner, and whether it still listens
    side,       \* the adb server on the side port runs
    owned,      \* owned[p]: started_by_us
    main,       \* main[p]: position of run_shared_service
    daemon,     \* daemon[p]: position of run_daemon_with_shutdown
    agent,      \* agent[p]: position of run_agent_with_shutdown
    hub,        \* hub[p]: the process whose control socket it connected to
    busy,       \* busy[p]: its agent is connected and not at its select
    starts,     \* number of starts
    overlap,    \* history: a start while another process starts or stops
    disturbed   \* history: a stop, a crash, a failure, a slow start or a
                \* stock adb server on the port
                \* (both since the last time that nobody ran)

vars == <<byPath, port, named, path, side, owned, main, daemon, agent, hub,
          busy, starts, overlap, disturbed>>

SocketFile == [owner : Procs, live : BOOLEAN]

ASSUME NoFileAssumption == NoFile \notin SocketFile

Starting == {"prepare", "launch", "control", "port"}
Dropping == {"losing", "failing"}
Finished == {"none", "lost", "ended"}

Init ==
    /\ byPath \in BOOLEAN
    /\ port = Free
    /\ named = Free
    /\ path = NoFile
    /\ side = FALSE
    /\ owned = [p \in Procs |-> FALSE]
    /\ main = [p \in Procs |-> "off"]
    /\ daemon = [p \in Procs |-> "none"]
    /\ agent = [p \in Procs |-> "none"]
    /\ hub = [p \in Procs |-> Free]
    /\ busy = [p \in Procs |-> FALSE]
    /\ starts = 0
    /\ overlap = FALSE
    /\ disturbed = FALSE

\* p is on its way to becoming the daemon, or away from it.
Unsettled(p) == main[p] = "probing" \/ daemon[p] \in Starting \cup Dropping

Disturbed == disturbed' = TRUE /\ UNCHANGED overlap

Daemon(p, l) == daemon' = [daemon EXCEPT ![p] = l]

----------------------------------------------------------------------------
(* The main task, up to the select. *)

\* The port is bound to see whether somebody owns it...
Start(p) ==
    /\ main[p] = "off"
    /\ starts < MaxStarts
    /\ starts' = starts + 1
    /\ LET fresh == \A q \in Procs : main[q] = "off"
       IN  /\ overlap' = (~fresh /\ (overlap \/ \E q \in Procs : Unsettled(q)))
           /\ disturbed' = IF fresh THEN port = Stock ELSE disturbed
    /\ IF port = Free
       THEN /\ port' = p
            /\ main' = [main EXCEPT ![p] = "probing"]
            /\ UNCHANGED agent
       ELSE /\ main' = [main EXCEPT ![p] = "joined"]
            /\ agent' = [agent EXCEPT ![p] = "connecting"]
            /\ UNCHANGED port
    /\ UNCHANGED <<byPath, named, path, side, owned, daemon, hub, busy>>

\* ...and given back before the daemon and the agent are spawned.
Release(p) ==
    /\ main[p] = "probing"
    /\ port' = Free
    /\ main' = [main EXCEPT ![p] = "both"]
    /\ Daemon(p, "prepare")
    /\ agent' = [agent EXCEPT ![p] = "connecting"]
    /\ UNCHANGED <<byPath, named, path, side, owned, hub, busy, starts, overlap, disturbed>>

----------------------------------------------------------------------------
(* The daemon task. *)

\* Mutant: the side port is not tried first.
PrepareAdopts(p) ==
    /\ daemon[p] = "prepare"
    /\ port' = IF p \in Local /\ port = Stock THEN Free ELSE port
    /\ Daemon(p, "control")
    /\ UNCHANGED <<byPath, named, path, side, owned, main, agent, hub, busy,
                   starts, overlap, disturbed>>

\* LocalAdb::prepare: `adb kill-server` stops a stock server on the port (a
\* hub ignores host:kill); a server on the side port is adopted.
Prepare(p) ==
    /\ daemon[p] = "prepare"
    /\ IF p \in Local
       THEN /\ port' = IF port = Stock THEN Free ELSE port
            /\ Daemon(p, IF side THEN "control" ELSE "launch")
       ELSE Daemon(p, "control") /\ UNCHANGED port
    /\ UNCHANGED <<byPath, named, path, side, owned, main, agent, hub, busy,
                   starts, overlap, disturbed>>

\* `adb start-server` succeeds also when another process was faster.
Launch(p) ==
    /\ daemon[p] = "launch"
    /\ side' = TRUE
    /\ owned' = [owned EXCEPT ![p] = TRUE]
    /\ Daemon(p, "control")
    /\ UNCHANGED <<byPath, port, named, path, main, agent, hub, busy, starts, overlap, disturbed>>

\* There is no adb, or it does not start; a server that comes up after the
\* time limit is nobody's.
PrepareFails(p) ==
    /\ daemon[p] \in {"prepare", "launch"}
    /\ p \in Local
    /\ \/ UNCHANGED side
       \/ daemon[p] = "launch" /\ side' = TRUE
    /\ Daemon(p, "ended")
    /\ Disturbed
    /\ UNCHANGED <<byPath, port, named, path, owned, main, agent, hub, busy, starts>>

\* Mutant: a socket file that exists is taken for one's own.
BindControlKeepsFile(p) ==
    /\ daemon[p] = "control"
    /\ IF ~byPath /\ named = Free
       THEN named' = p /\ UNCHANGED path
       ELSE /\ path' = IF path = NoFile THEN [owner |-> p, live |-> TRUE] ELSE path
            /\ UNCHANGED named
    /\ Daemon(p, "port")
    /\ UNCHANGED <<byPath, port, side, owned, main, agent, hub, busy, starts,
                   overlap, disturbed>>

\* Mutant: a socket file that exists is not removed first.
BindControlNoRemove(p) ==
    /\ daemon[p] = "control"
    /\ \/ /\ ~byPath /\ named = Free
          /\ named' = p
          /\ Daemon(p, "port")
          /\ UNCHANGED path
       \/ /\ byPath \/ named # Free
          /\ path' = IF path = NoFile THEN [owner |-> p, live |-> TRUE] ELSE path
          /\ Daemon(p, IF path = NoFile THEN "port" ELSE "failing")
          /\ UNCHANGED named
    /\ UNCHANGED <<byPath, port, side, owned, main, agent, hub, busy, starts,
                   overlap, disturbed>>

\* bind_control: the abstract name; the socket file when a path was given or
\* the name is taken.  An older socket file is removed first, which fails
\* when it belongs to another user and the directory is sticky.
BindControl(p) ==
    /\ daemon[p] = "control"
    /\ \/ /\ ~byPath /\ named = Free
          /\ named' = p
          /\ Daemon(p, "port")
          /\ UNCHANGED <<path, overlap, disturbed>>
       \/ /\ byPath \/ named # Free
          /\ path' = [owner |-> p, live |-> TRUE]
          /\ Daemon(p, "port")
          /\ UNCHANGED <<named, overlap, disturbed>>
       \/ /\ byPath \/ named # Free
          /\ path # NoFile /\ path.owner # p
          /\ Daemon(p, "failing")
          /\ Disturbed
          /\ UNCHANGED <<named, path>>
    /\ UNCHANGED <<byPath, port, side, owned, main, agent, hub, busy, starts>>

\* What p listens on is closed; the socket file stays.
CloseListeners(p) ==
    /\ named' = IF named = p THEN Free ELSE named
    /\ path' = IF path # NoFile /\ path.owner = p THEN [path EXCEPT !.live = FALSE]
                                                 ELSE path

\* Connections that p's daemon has not accepted are reset.
ResetWaiting(p) ==
    agent' = [q \in Procs |-> IF hub[q] = p /\ agent[q] = "waiting"
                              THEN "cut" ELSE agent[q]]

\* The port is bound last.  Who finds it taken gives up its control socket.
BindPort(p) ==
    /\ daemon[p] = "port"
    /\ IF port = Free
       THEN /\ port' = p
            /\ Daemon(p, "serving")
            /\ UNCHANGED <<named, path, agent>>
       ELSE /\ CloseListeners(p)
            /\ ResetWaiting(p)
            /\ Daemon(p, "losing")
            /\ UNCHANGED port
    /\ UNCHANGED <<byPath, side, owned, main, hub, busy, starts, overlap, disturbed>>

\* The accept loop takes in an agent, which registers.
Accept(p) ==
    /\ daemon[p] = "serving"
    /\ \E q \in Procs :
         /\ hub[q] = p /\ agent[q] = "waiting"
         /\ agent' = [agent EXCEPT ![q] = "registered"]
    /\ UNCHANGED <<byPath, port, named, path, side, owned, main, daemon, hub, busy,
                   starts, overlap, disturbed>>

\* The loop ends: it was told to stop...
ServeEnds(p) ==
    /\ daemon[p] = "serving"
    /\ main[p] = "leaving"
    /\ port' = Free
    /\ CloseListeners(p)
    /\ ResetWaiting(p)
    /\ Daemon(p, "failing")
    /\ UNCHANGED <<byPath, side, owned, main, hub, busy, starts, overlap, disturbed>>

\* ...or accept has failed, for want of file descriptors say.
AcceptFails(p) ==
    /\ daemon[p] = "serving"
    /\ port' = Free
    /\ CloseListeners(p)
    /\ ResetWaiting(p)
    /\ Daemon(p, "failing")
    /\ Disturbed
    /\ UNCHANGED <<byPath, side, owned, main, hub, busy, starts>>

\* Drop for LocalAdb comes last: it stops the server that p has started.
DropSide(p) ==
    /\ daemon[p] \in Dropping
    /\ side' = (side /\ ~owned[p])
    /\ owned' = [owned EXCEPT ![p] = FALSE]
    /\ Daemon(p, IF daemon[p] = "losing" THEN "lost" ELSE "ended")
    /\ UNCHANGED <<byPath, port, named, path, main, agent, hub, busy, starts, overlap, disturbed>>

----------------------------------------------------------------------------
(* The agent task. *)

\* Whose control socket a connect reaches.
Reached ==
    IF ~byPath /\ named # Free THEN named
    ELSE IF path # NoFile /\ path.live THEN path.owner
    ELSE Free

\* connect_control_with_retry.  The first snapshot is made and written
\* before the loop is entered.
Connect(p) ==
    /\ agent[p] = "connecting"
    /\ Reached # Free
    /\ hub' = [hub EXCEPT ![p] = Reached]
    /\ agent' = [agent EXCEPT ![p] = "waiting"]
    /\ busy' = [busy EXCEPT ![p] = TRUE]
    /\ UNCHANGED <<byPath, port, named, path, side, owned, main, daemon,
                   starts, overlap, disturbed>>

\* The retries are used up.  This takes five seconds: a daemon that is still
\* starting then is a slow one.
GiveUp(p) ==
    /\ agent[p] = "connecting"
    /\ Reached = Free
    /\ agent' = [agent EXCEPT ![p] = "ended"]
    /\ disturbed' = (disturbed \/ \E q \in Procs : main[q] = "probing" \/ daemon[q] \in Starting)
    /\ UNCHANGED <<byPath, port, named, path, side, owned, main, daemon, hub, busy, starts, overlap>>

\* The loop has read a message, which is handled inside the arm of the
\* select.  (What is still unread when the connection ends is part of this.)
Handle(p) ==
    /\ agent[p] = "registered" /\ ~busy[p]
    /\ busy' = [busy EXCEPT ![p] = TRUE]
    /\ UNCHANGED <<byPath, port, named, path, side, owned, main, daemon, agent, hub,
                   starts, overlap, disturbed>>

\* The agent is back at the select.  Nothing limits what it awaits before:
\* a backend that accepts and does not answer, a stream that does not read.
Handled(p) ==
    /\ busy[p]
    /\ busy' = [busy EXCEPT ![p] = FALSE]
    /\ UNCHANGED <<byPath, port, named, path, side, owned, main, daemon, agent, hub,
                   starts, overlap, disturbed>>

\* Mutant: an agent that was told to stop waits for the connection's end.
AgentEndsAtEOF(p) ==
    /\ ~busy[p]
    /\ agent[p] = "cut"
    /\ agent' = [agent EXCEPT ![p] = "ended"]
    /\ hub' = [hub EXCEPT ![p] = Free]
    /\ UNCHANGED <<byPath, port, named, path, side, owned, main, daemon, busy,
                   starts, overlap, disturbed>>

\* The loop ends: the connection is gone, or main said stop.  Neither is
\* seen before the agent is connected, nor away from the select.
AgentEnds(p) ==
    /\ ~busy[p]
    /\ \/ agent[p] = "cut"
       \/ main[p] = "leaving" /\ agent[p] \in {"waiting", "registered"}
    /\ agent' = [agent EXCEPT ![p] = "ended"]
    /\ hub' = [hub EXCEPT ![p] = Free]
    /\ UNCHANGED <<byPath, port, named, path, side, owned, main, daemon, busy,
                   starts, overlap, disturbed>>

----------------------------------------------------------------------------
(* The main task: select over shutdown, agent and daemon. *)

\* Ctrl-C.  It is caught once the shutdown future has been polled: at the
\* select, or at the one of an agent that runs alone.
Shutdown(p) ==
    /\ \/ main[p] \in {"both", "alone"}
       \/ main[p] = "joined" /\ agent[p] \in {"waiting", "registered"} /\ ~busy[p]
    /\ main' = [main EXCEPT ![p] = "leaving"]
    /\ Disturbed
    /\ UNCHANGED <<byPath, port, named, path, side, owned, daemon, agent, hub, busy, starts>>

\* The agent has ended or the daemon has failed: the other one is stopped.
OneEnds(p) ==
    /\ main[p] = "both"
    /\ agent[p] = "ended" \/ daemon[p] = "ended"
    /\ main' = [main EXCEPT ![p] = "leaving"]
    /\ UNCHANGED <<byPath, port, named, path, side, owned, daemon, agent, hub, busy,
                   starts, overlap, disturbed>>

\* "another hub took the listen port; continuing with this user's agent"
ContinueAlone(p) ==
    /\ main[p] = "both"
    /\ daemon[p] = "lost"
    /\ main' = [main EXCEPT ![p] = "alone"]
    /\ UNCHANGED <<byPath, port, named, path, side, owned, daemon, agent, hub, busy,
                   starts, overlap, disturbed>>

\* Everything of p is closed; its agent's connections and those to it end.
Gone(p) ==
    /\ main' = [main EXCEPT ![p] = "off"]
    /\ Daemon(p, "none")
    /\ agent' = [q \in Procs |->
                   IF q = p THEN "none"
                   ELSE IF hub[q] = p THEN "cut" ELSE agent[q]]
    /\ hub' = [q \in Procs |-> IF q = p \/ hub[q] = p THEN Free ELSE hub[q]]
    /\ busy' = [busy EXCEPT ![p] = FALSE]

\* run_shared_service returns when the tasks it waits for have ended.
Exit(p) ==
    /\ main[p] \in {"joined", "alone", "leaving"}
    /\ agent[p] = "ended" /\ daemon[p] \in Finished
    /\ Gone(p)
    /\ UNCHANGED <<byPath, port, named, path, side, owned, starts, overlap, disturbed>>

\* SIGKILL, and SIGTERM, which nobody catches: nothing is dropped.
Crash(p) ==
    /\ main[p] # "off"
    /\ Gone(p)
    /\ port' = IF port = p THEN Free ELSE port
    /\ CloseListeners(p)
    /\ owned' = [owned EXCEPT ![p] = FALSE]
    /\ Disturbed
    /\ UNCHANGED <<byPath, side, starts>>

\* A client starts its own adb server when nobody answers on the port.
StockStarts ==
    /\ port = Free
    /\ port' = Stock
    /\ Disturbed
    /\ UNCHANGED <<byPath, named, path, side, owned, main, daemon, agent, hub, busy, starts>>

----------------------------------------------------------------------------
\* What a process does by itself.
Run(p) ==
    \/ Release(p)
    \/ Prepare(p) \/ Launch(p) \/ BindControl(p) \/ BindPort(p)
    \/ Accept(p) \/ ServeEnds(p) \/ DropSide(p)
    \/ OneEnds(p) \/ ContinueAlone(p) \/ Exit(p)

RunAgent(p) == Connect(p) \/ GiveUp(p) \/ AgentEnds(p)

\* What is done to it.
Disturb(p) == Shutdown(p) \/ Crash(p) \/ PrepareFails(p) \/ AcceptFails(p)

\* Its agent leaves the select and comes back to it.
Serve(p) == Handle(p) \/ Handled(p)

Next ==
    \/ \E p \in Procs : Start(p) \/ Run(p) \/ RunAgent(p) \/ Serve(p) \/ Disturb(p)
    \/ StockStarts

Spec == Init /\ [][Next]_vars

\* Some task goes on as long as one can.  This is enough: no task goes round
\* for ever, so every one gets its turn.  Only an agent's loop does, and its
\* select chooses at random among what is ready: a stop is not passed over
\* for ever.  That a message is ever handled is not assumed.
FairSpec ==
    /\ Spec
    /\ WF_vars(\E p \in Procs : Run(p) \/ RunAgent(p))
    /\ SF_vars(\E p \in Procs : AgentEnds(p))

----------------------------------------------------------------------------
(* Properties. *)

\* Every variable has its type.
TypeOK ==
    /\ byPath \in BOOLEAN
    /\ port \in Procs \cup {Free, Stock}
    /\ named \in Procs \cup {Free}
    /\ path \in SocketFile \cup {NoFile}
    /\ side \in BOOLEAN
    /\ owned \in [Procs -> BOOLEAN]
    /\ main \in [Procs -> {"off", "probing", "both", "joined", "alone", "leaving"}]
    /\ daemon \in [Procs -> Starting \cup Dropping \cup Finished \cup {"serving"}]
    /\ agent \in [Procs -> {"none", "connecting", "waiting", "registered",
                            "cut", "ended"}]
    /\ hub \in [Procs -> Procs \cup {Free}]
    /\ busy \in [Procs -> BOOLEAN]
    /\ starts \in 0..MaxStarts
    /\ overlap \in BOOLEAN
    /\ disturbed \in BOOLEAN

\* The daemon offers the devices of the local adb server as long as it
\* serves (README.md:94): the server is not stopped under it, whoever else
\* starts, stops or crashes; after a crash the server that was left behind
\* is adopted.  Only processes that start while another one starts or
\* stops can stop each other's server.
SharedServerUp ==
    ~overlap
      => \A p \in Local : daemon[p] = "serving" => side

\* A process that finds the port taken can join the hub that has it: as long
\* as a daemon serves, the control socket leads to it, although a crash
\* leaves a socket file behind and a name that is taken moves the socket.
ControlReachable ==
    ~overlap
      => \A p \in Procs : daemon[p] = "serving" => Reached = p

Registered(p) == agent[p] = "registered" /\ port = hub[p]

\* If every agent comes back to its select again and again, no process stays
\* half alive and no stop is in vain: in the end each process has exited, or
\* its agent is registered with the hub that owns the port.  main waits for
\* tasks that do not see the stop while they are starting.  (An agent that
\* does not come back sees neither the stop nor the end of its connection,
\* and main waits for it: the premise is all that is asked of others.)
EverythingSettles ==
    (\A p \in Procs : []<>~busy[p])
      => <>[](\A p \in Procs :
                main[p] = "off" \/ (Registered(p) /\ main[p] # "leaving"))

\* Nobody is turned away: a process that was started is there until its user
\* stops it, the hub's owner does, or something fails; a socket file and an
\* adb server that a crash left behind are no reason.  Only users who start
\* while another process starts or stops are exempt.
NobodyTurnedAway ==
    [][\A p \in Procs : (main[p] # "off" /\ main'[p] = "off")
                          => (overlap' \/ disturbed')]_vars

\* "Simultaneous startup races are handled with atomic socket binding and
\* control-socket connect retries" (docs/multi-user-design.md:224): users
\* who start at the same time and are not disturbed end up with a hub.
RaceLeavesHub ==
    (\A p \in Procs : []<>~busy[p])
      => <>[](disturbed \/ starts = 0 \/ \E p \in Procs : daemon[p] = "serving")
=============================================================================
