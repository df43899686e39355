------------------------- MODULE ServiceStartupProofs -------------------------
(***************************************************************************)
(* Proofs about ServiceStartup for any number of users, starts, crashes    *)
(* and interleavings of their processes.                                   *)
(***************************************************************************)
EXTENDS ServiceStartup, TLAPS

(***************************************************************************)
(* Type correctness.                                                       *)
(***************************************************************************)

LEMMA TypeInit == Init => TypeOK
  <1> SUFFICES ASSUME Init PROVE TypeOK
    OBVIOUS
  <1>1. /\ owned \in [Procs -> BOOLEAN]
        /\ main \in [Procs -> {"off", "probing", "both", "joined", "alone", "leaving"}]
        /\ daemon \in [Procs -> Starting \cup Dropping \cup Finished \cup {"serving"}]
        /\ agent \in [Procs -> {"none", "connecting", "waiting", "registered",
                                "cut", "ended"}]
        /\ hub \in [Procs -> Procs \cup {Free}]
    BY DEF Init, Finished
  <1>2. starts \in 0..MaxStarts
    BY ServiceAssumption DEF Init
  <1>3. side \in BOOLEAN /\ overlap \in BOOLEAN /\ disturbed \in BOOLEAN /\ byPath \in BOOLEAN
      /\ busy \in [Procs -> BOOLEAN]
    BY DEF Init
  <1>4. port \in Procs \cup {Free, Stock} /\ named \in Procs \cup {Free} /\ path \in SocketFile \cup {NoFile}
    BY DEF Init
  <1> QED BY <1>1, <1>2, <1>3, <1>4 DEF TypeOK

\* Closing what a process listens on keeps the types.
LEMMA CloseType ==
    ASSUME TypeOK, NEW p \in Procs, CloseListeners(p)
    PROVE  named' \in Procs \cup {Free} /\ path' \in SocketFile \cup {NoFile}
  BY DEF TypeOK, CloseListeners, SocketFile

\* So does resetting the connections a daemon has not accepted.
LEMMA ResetType ==
    ASSUME TypeOK, NEW p \in Procs, ResetWaiting(p)
    PROVE  agent' \in [Procs -> {"none", "connecting", "waiting", "registered",
                                 "cut", "ended"}]
  BY DEF TypeOK, ResetWaiting

\* And the end of a process.
LEMMA GoneType ==
    ASSUME TypeOK, NEW p \in Procs, Gone(p)
    PROVE  /\ main' \in [Procs -> {"off", "probing", "both", "joined", "alone", "leaving"}]
           /\ daemon' \in [Procs -> Starting \cup Dropping \cup Finished \cup {"serving"}]
           /\ agent' \in [Procs -> {"none", "connecting", "waiting", "registered",
                                    "cut", "ended"}]
           /\ hub' \in [Procs -> Procs \cup {Free}]
           /\ busy' \in [Procs -> BOOLEAN]
  BY DEF TypeOK, Gone, Daemon, Finished

LEMMA ReachedType ==
    ASSUME TypeOK PROVE Reached \in Procs \cup {Free}
  BY DEF TypeOK, Reached, SocketFile

LEMMA TypeStart ==
    ASSUME TypeOK, NEW p \in Procs, Start(p)
    PROVE  TypeOK'
  <1>1. overlap' \in BOOLEAN /\ disturbed' \in BOOLEAN
    BY DEF Start, TypeOK
  <1>2. starts' \in 0..MaxStarts
    BY ServiceAssumption DEF Start, TypeOK
  <1> QED BY <1>1, <1>2 DEF Start, TypeOK

LEMMA TypeRun ==
    ASSUME TypeOK, NEW p \in Procs, Run(p)
    PROVE  TypeOK'
  <1> USE DEF TypeOK, Starting, Dropping, Finished, Daemon, Disturbed
  <1>1. CASE Release(p)
    BY <1>1 DEF Release
  <1>2. CASE Prepare(p)
    BY <1>2 DEF Prepare
  <1>3. CASE Launch(p)
    BY <1>3 DEF Launch
  <1>4. CASE BindControl(p)
    <2>1. [owner |-> p, live |-> TRUE] \in SocketFile
      BY DEF SocketFile
    <2>2. /\ named' \in Procs \cup {Free}
          /\ path' \in SocketFile \cup {NoFile}
          /\ overlap' \in BOOLEAN /\ disturbed' \in BOOLEAN
      BY <1>4, <2>1 DEF BindControl
    <2>3. daemon' \in [Procs -> Starting \cup Dropping \cup Finished \cup {"serving"}]
      BY <1>4 DEF BindControl
    <2> QED BY <1>4, <2>2, <2>3 DEF BindControl
  <1>5. CASE BindPort(p)
    BY <1>5, CloseType, ResetType DEF BindPort
  <1>6. CASE Accept(p)
    BY <1>6 DEF Accept
  <1>7. CASE ServeEnds(p)
    BY <1>7, CloseType, ResetType DEF ServeEnds
  <1>8. CASE DropSide(p)
    <2>1. side' \in BOOLEAN
      BY <1>8 DEF DropSide
    <2> QED BY <1>8, <2>1 DEF DropSide
  <1>9. CASE OneEnds(p)
    BY <1>9 DEF OneEnds
  <1>10. CASE ContinueAlone(p)
    BY <1>10 DEF ContinueAlone
  <1>11. CASE Exit(p)
    BY <1>11, GoneType DEF Exit
  <1> QED BY <1>1, <1>2, <1>3, <1>4, <1>5, <1>6, <1>7, <1>8, <1>9, <1>10, <1>11 DEF Run

LEMMA TypeRest ==
    ASSUME TypeOK, NEW p \in Procs, RunAgent(p) \/ Serve(p) \/ Disturb(p)
    PROVE  TypeOK'
  <1> USE DEF TypeOK, Starting, Dropping, Finished, Daemon, Disturbed
  <1>1. CASE Connect(p)
    BY <1>1, ReachedType DEF Connect
  <1>2. CASE GiveUp(p)
    <2>1. disturbed' \in BOOLEAN
      BY <1>2 DEF GiveUp
    <2> QED BY <1>2, <2>1 DEF GiveUp
  <1>3. CASE AgentEnds(p)
    BY <1>3 DEF AgentEnds
  <1>4. CASE Shutdown(p)
    BY <1>4 DEF Shutdown
  <1>5. CASE Crash(p)
    BY <1>5, GoneType, CloseType DEF Crash
  <1>6. CASE PrepareFails(p)
    BY <1>6 DEF PrepareFails
  <1>7. CASE AcceptFails(p)
    BY <1>7, CloseType, ResetType DEF AcceptFails
  <1>8. CASE Serve(p)
    BY <1>8 DEF Serve, Handle, Handled
  <1> QED BY <1>1, <1>2, <1>3, <1>4, <1>5, <1>6, <1>7, <1>8 DEF RunAgent, Disturb

LEMMA TypeNext == TypeOK /\ [Next]_vars => TypeOK'
  <1>1. TypeOK /\ UNCHANGED vars => TypeOK'
    BY DEF TypeOK, vars
  <1>2. TypeOK /\ StockStarts => TypeOK'
    BY DEF TypeOK, StockStarts, Disturbed
  <1> QED BY <1>1, <1>2, TypeStart, TypeRun, TypeRest DEF Next

\* Type correctness of the processes, the sockets and the port they share.
THEOREM TypeCorrect == Spec => []TypeOK
  BY TypeInit, TypeNext, PTL DEF Spec

(***************************************************************************)
(* The invariant.                                                          *)
(***************************************************************************)

\* On its way to becoming the daemon, being it, or on its way out.
Active(p) == main[p] = "probing" \/ daemon[p] \in Starting \cup Dropping \cup {"serving"}

\* Whatever happens: the port has the owner that thinks it has it, and what
\* leads to a control socket leads to a task that listens on it.
SocketInv ==
    /\ \A p \in Procs : main[p] = "probing" \/ daemon[p] = "serving" => port = p
    /\ \A p \in Procs : port = p => main[p] = "probing" \/ daemon[p] = "serving"
    /\ \A p \in Procs : main[p] \in {"off", "probing", "joined"} => daemon[p] = "none"
    /\ named # Free => daemon[named] \in {"port", "serving"}
    /\ path # NoFile /\ path.live => daemon[path.owner] \in {"port", "serving"}

\* Without overlapping starts one process at a time is daemon or about to be
\* or about to stop being it; it has the adb server and the control socket.
QuietInv ==
    /\ \A p, q \in Procs : Active(p) /\ Active(q) => p = q
    /\ \A p \in Local : daemon[p] \in {"control", "port", "serving"} => side
    /\ \A p \in Procs : daemon[p] \in {"port", "serving"} => Reached = p

\* Without disturbances either, nobody is on its way out, and somebody is
\* daemon or about to be.
CalmInv ==
    /\ port # Stock
    /\ \A p \in Procs : /\ main[p] \in {"off", "probing", "both", "joined"}
                        /\ agent[p] \notin {"ended", "cut"}
                        /\ daemon[p] \in Starting \cup {"none", "serving"}
    /\ \E p \in Procs : main[p] = "probing" \/ daemon[p] \in Starting \cup {"serving"}

\* A process that has not got as far as its agent has none.
AgentInv ==
    \A p \in Procs : main[p] \in {"off", "probing"} => agent[p] = "none" /\ hub[p] = Free

Running == \E p \in Procs : main[p] # "off"

HubInv ==
    /\ SocketInv
    /\ AgentInv
    /\ ~overlap => QuietInv
    /\ ~overlap /\ ~disturbed /\ Running => CalmInv

LEMMA HubInit == Init => HubInv
  BY ServiceAssumption
     DEF Init, HubInv, SocketInv, AgentInv, QuietInv, Running, Active, Starting, Dropping

(***************************************************************************)
(* The sockets.                                                            *)
(***************************************************************************)

\* After a process has closed its listeners nothing leads to it, and what
\* led elsewhere still does.
LEMMA CloseFacts ==
    ASSUME TypeOK, NEW p \in Procs, CloseListeners(p)
    PROVE  /\ named' # p
           /\ named' # Free => named' = named
           /\ named # p => named' = named
           /\ path' # NoFile /\ path'.live => path' = path /\ path.owner # p
           /\ path # NoFile /\ path.owner # p => path' = path
  <1>1. /\ named' # p
        /\ named' # Free => named' = named
        /\ named # p => named' = named
    BY ServiceAssumption DEF CloseListeners
  <1>2. CASE path # NoFile /\ path.owner = p
    <2>1. path' = [path EXCEPT !.live = FALSE] /\ path \in SocketFile
      BY <1>2 DEF CloseListeners, TypeOK
    <2>2. path'.live = FALSE
      BY <2>1 DEF SocketFile
    <2> QED BY <1>1, <1>2, <2>2
  <1>3. CASE ~(path # NoFile /\ path.owner = p)
    BY <1>1, <1>3 DEF CloseListeners
  <1> QED BY <1>2, <1>3

LEMMA SocketStart ==
    ASSUME TypeOK, SocketInv, NEW p \in Procs, Start(p)
    PROVE  SocketInv'
  <1>1. UNCHANGED <<named, path, daemon>>
    BY DEF Start
  <1>2. CASE port = Free
    BY <1>1, <1>2, ServiceAssumption DEF Start, SocketInv, TypeOK
  <1>3. CASE port # Free
    BY <1>1, <1>3, ServiceAssumption DEF Start, SocketInv, TypeOK
  <1> QED BY <1>2, <1>3

\* A task that goes on without closing or binding anything.
LEMMA SocketMoves ==
    ASSUME TypeOK, SocketInv, NEW p \in Procs,
           NEW l, NEW m,
           daemon' = [daemon EXCEPT ![p] = l], main' = [main EXCEPT ![p] = m],
           UNCHANGED <<named, path>>,
           port' = port \/ (port = Stock /\ port' = Free),
           daemon[p] \notin {"port", "serving"} \/ l = daemon[p],
           l # "serving" \/ l = daemon[p],
           main[p] # "probing", m # "probing",
           m \in {"off", "joined"} => l = "none"
    PROVE  SocketInv'
  BY ServiceAssumption DEF SocketInv, TypeOK, SocketFile

\* A task that closes everything it has.
LEMMA SocketCloses ==
    ASSUME TypeOK, SocketInv, NEW p \in Procs,
           NEW l, NEW m,
           daemon' = [daemon EXCEPT ![p] = l], main' = [main EXCEPT ![p] = m],
           CloseListeners(p),
           port' = port \/ port' = Free, port' # p,
           port' = Free /\ port # Free => port = p,
           l # "serving",
           m # "probing",
           m \in {"off", "joined"} => l = "none"
    PROVE  SocketInv'
  <1>1. \A q \in Procs : main'[q] = "probing" \/ daemon'[q] = "serving" => port' = q
    BY ServiceAssumption DEF SocketInv, TypeOK
  <1>2. \A q \in Procs : port' = q => main'[q] = "probing" \/ daemon'[q] = "serving"
    BY ServiceAssumption DEF SocketInv, TypeOK
  <1>3. \A q \in Procs : main'[q] \in {"off", "probing", "joined"} => daemon'[q] = "none"
    BY DEF SocketInv, TypeOK
  <1>4. named' # Free => daemon'[named'] \in {"port", "serving"}
    BY CloseFacts DEF SocketInv, TypeOK
  <1>5. path' # NoFile /\ path'.live => daemon'[path'.owner] \in {"port", "serving"}
    BY CloseFacts DEF SocketInv, TypeOK, SocketFile
  <1> QED BY <1>1, <1>2, <1>3, <1>4, <1>5 DEF SocketInv

LEMMA SocketRun ==
    ASSUME TypeOK, SocketInv, NEW p \in Procs, Run(p)
    PROVE  SocketInv'
  <1> USE ServiceAssumption DEF Starting, Dropping, Finished, Daemon
  <1>0. main = [main EXCEPT ![p] = main[p]] /\ daemon = [daemon EXCEPT ![p] = daemon[p]]
    BY DEF TypeOK
  <1>1. CASE Release(p)
    BY <1>1 DEF Release, SocketInv, TypeOK, SocketFile
  <1>2. CASE Prepare(p) \/ Launch(p) \/ DropSide(p)
    <2>1. /\ UNCHANGED <<named, path, main>>
          /\ port' = port \/ (port = Stock /\ port' = Free)
          /\ daemon[p] \in {"prepare", "launch", "losing", "failing"}
          /\ \E l \in {"control", "launch", "lost", "ended"} : daemon' = [daemon EXCEPT ![p] = l]
      BY <1>2 DEF Prepare, Launch, DropSide
    <2>2. main[p] \notin {"off", "probing", "joined"}
      BY <2>1 DEF SocketInv
    <2> QED BY <1>0, <2>1, <2>2, SocketMoves
  <1>4. CASE BindControl(p)
    <2>1. /\ UNCHANGED <<port, main>>
          /\ daemon[p] = "control"
          /\ \/ /\ named = Free /\ named' = p /\ path' = path
                /\ daemon' = [daemon EXCEPT ![p] = "port"]
             \/ /\ named' = named /\ path' = [owner |-> p, live |-> TRUE]
                /\ daemon' = [daemon EXCEPT ![p] = "port"]
             \/ /\ named' = named /\ path' = path
                /\ daemon' = [daemon EXCEPT ![p] = "failing"]
      BY <1>4 DEF BindControl
    <2> QED BY <2>1 DEF SocketInv, TypeOK, SocketFile
  <1>5. CASE BindPort(p)
    <2>1. main[p] \notin {"off", "probing", "joined"} /\ daemon[p] = "port"
      BY <1>5 DEF BindPort, SocketInv
    <2>2. CASE port = Free
      <3>1. port' = p /\ daemon' = [daemon EXCEPT ![p] = "serving"]
            /\ UNCHANGED <<named, path, main>>
        BY <1>5, <2>2 DEF BindPort
      <3> QED BY <2>1, <2>2, <3>1 DEF SocketInv, TypeOK, SocketFile
    <2>3. CASE port # Free
      <3>1. port # p
        BY <2>1 DEF SocketInv
      <3>2. /\ CloseListeners(p) /\ port' = port /\ main' = main
            /\ daemon' = [daemon EXCEPT ![p] = "losing"]
        BY <1>5, <2>3 DEF BindPort
      <3> QED BY <1>0, <2>1, <3>1, <3>2, SocketCloses
    <2> QED BY <2>2, <2>3
  <1>6. CASE Accept(p)
    BY <1>6 DEF Accept, SocketInv
  <1>7. CASE ServeEnds(p)
    <2>1. /\ CloseListeners(p) /\ port' = Free /\ main' = main
          /\ daemon[p] = "serving" /\ daemon' = [daemon EXCEPT ![p] = "failing"]
      BY <1>7 DEF ServeEnds
    <2>2. main[p] \notin {"off", "probing", "joined"} /\ port = p
      BY <2>1 DEF SocketInv
    <2> QED BY <1>0, <2>1, <2>2, SocketCloses
  <1>8. CASE OneEnds(p) \/ ContinueAlone(p)
    <2>1. /\ UNCHANGED <<named, path, daemon, port>>
          /\ main[p] = "both"
          /\ \E m \in {"leaving", "alone"} : main' = [main EXCEPT ![p] = m]
      BY <1>8 DEF OneEnds, ContinueAlone
    <2> QED BY <1>0, <2>1, SocketMoves
  <1>9. CASE Exit(p)
    <2>1. /\ UNCHANGED <<named, path, port>>
          /\ main[p] # "probing" /\ daemon[p] \notin {"port", "serving"}
          /\ main' = [main EXCEPT ![p] = "off"]
          /\ daemon' = [daemon EXCEPT ![p] = "none"]
      BY <1>9 DEF Exit, Gone
    <2> QED BY <2>1, SocketMoves
  <1> QED BY <1>1, <1>2, <1>4, <1>5, <1>6, <1>7, <1>8, <1>9 DEF Run

LEMMA SocketRest ==
    ASSUME TypeOK, SocketInv, NEW p \in Procs, RunAgent(p) \/ Serve(p) \/ Disturb(p)
    PROVE  SocketInv'
  <1> USE ServiceAssumption DEF Starting, Dropping, Finished, Daemon
  <1>0. main = [main EXCEPT ![p] = main[p]] /\ daemon = [daemon EXCEPT ![p] = daemon[p]]
    BY DEF TypeOK
  <1>1. CASE RunAgent(p) \/ Serve(p)
    <2>1. UNCHANGED <<port, named, path, main, daemon>>
      BY <1>1 DEF RunAgent, Connect, GiveUp, AgentEnds, Serve, Handle, Handled
    <2> QED BY <2>1 DEF SocketInv
  <1>2. CASE Shutdown(p)
    <2>1. /\ UNCHANGED <<named, path, daemon, port>>
          /\ main[p] # "probing" /\ main' = [main EXCEPT ![p] = "leaving"]
      BY <1>2 DEF Shutdown
    <2> QED BY <1>0, <2>1, SocketMoves
  <1>3. CASE Crash(p)
    <2>1. /\ CloseListeners(p) /\ port' = IF port = p THEN Free ELSE port
          /\ main' = [main EXCEPT ![p] = "off"]
          /\ daemon' = [daemon EXCEPT ![p] = "none"]
      BY <1>3 DEF Crash, Gone
    <2> QED BY <2>1, SocketCloses
  <1>4. CASE PrepareFails(p)
    <2>1. /\ UNCHANGED <<named, path, main, port>>
          /\ daemon[p] \in {"prepare", "launch"}
          /\ daemon' = [daemon EXCEPT ![p] = "ended"]
      BY <1>4 DEF PrepareFails
    <2>2. main[p] \notin {"off", "probing", "joined"}
      BY <2>1 DEF SocketInv
    <2> QED BY <1>0, <2>1, <2>2, SocketMoves
  <1>5. CASE AcceptFails(p)
    <2>1. /\ CloseListeners(p) /\ port' = Free /\ main' = main
          /\ daemon[p] = "serving" /\ daemon' = [daemon EXCEPT ![p] = "failing"]
      BY <1>5 DEF AcceptFails
    <2>2. main[p] \notin {"off", "probing", "joined"} /\ port = p
      BY <2>1 DEF SocketInv
    <2> QED BY <1>0, <2>1, <2>2, SocketCloses
  <1> QED BY <1>1, <1>2, <1>3, <1>4, <1>5 DEF Disturb

LEMMA SocketNext == TypeOK /\ SocketInv /\ [Next]_vars => SocketInv'
  <1>1. TypeOK /\ SocketInv /\ UNCHANGED vars => SocketInv'
    BY DEF SocketInv, vars
  <1>2. TypeOK /\ SocketInv /\ StockStarts => SocketInv'
    BY ServiceAssumption DEF SocketInv, StockStarts
  <1> QED BY <1>1, <1>2, SocketStart, SocketRun, SocketRest DEF Next

(***************************************************************************)
(* The agents of processes that are not there yet.                         *)
(***************************************************************************)

LEMMA AgentNext == TypeOK /\ AgentInv /\ [Next]_vars => AgentInv'
  <1> SUFFICES ASSUME TypeOK, AgentInv, [Next]_vars PROVE AgentInv'
    OBVIOUS
  <1> USE ServiceAssumption DEF TypeOK, AgentInv
  <1>1. CASE UNCHANGED vars \/ StockStarts
    BY <1>1 DEF vars, StockStarts
  <1>2. ASSUME NEW p \in Procs, Start(p) PROVE AgentInv'
    BY <1>2 DEF Start
  <1>3. ASSUME NEW p \in Procs, Gone(p) PROVE AgentInv'
    BY <1>3 DEF Gone
  <1>4. ASSUME NEW p \in Procs, ResetWaiting(p), UNCHANGED <<main, hub>> PROVE AgentInv'
    BY <1>4 DEF ResetWaiting
  <1>5. ASSUME NEW p \in Procs, Run(p) PROVE AgentInv'
    <2>1. CASE Release(p)
      BY <2>1 DEF Release
    <2>2. CASE Prepare(p) \/ Launch(p) \/ BindControl(p) \/ DropSide(p)
      <3>1. UNCHANGED <<main, agent, hub>>
        BY <2>2 DEF Prepare, Launch, BindControl, DropSide
      <3> QED BY <3>1
    <2>3. CASE BindPort(p)
      BY <2>3, <1>4 DEF BindPort
    <2>4. CASE Accept(p)
      BY <2>4 DEF Accept
    <2>5. CASE ServeEnds(p)
      BY <2>5, <1>4 DEF ServeEnds
    <2>6. CASE OneEnds(p) \/ ContinueAlone(p)
      BY <2>6 DEF OneEnds, ContinueAlone
    <2>7. CASE Exit(p)
      BY <2>7, <1>3 DEF Exit
    <2> QED BY <1>5, <2>1, <2>2, <2>3, <2>4, <2>5, <2>6, <2>7 DEF Run
  <1>6. ASSUME NEW p \in Procs, RunAgent(p) PROVE AgentInv'
    <2>1. CASE Connect(p)
      BY <2>1 DEF Connect
    <2>2. CASE GiveUp(p)
      BY <2>2 DEF GiveUp
    <2>3. CASE AgentEnds(p)
      BY <2>3 DEF AgentEnds
    <2> QED BY <1>6, <2>1, <2>2, <2>3 DEF RunAgent
  <1>7. ASSUME NEW p \in Procs, Disturb(p) PROVE AgentInv'
    <2>1. CASE Shutdown(p)
      BY <2>1 DEF Shutdown
    <2>2. CASE Crash(p)
      BY <2>2, <1>3 DEF Crash
    <2>3. CASE PrepareFails(p)
      BY <2>3 DEF PrepareFails
    <2>4. CASE AcceptFails(p)
      BY <2>4, <1>4 DEF AcceptFails
    <2> QED BY <1>7, <2>1, <2>2, <2>3, <2>4 DEF Disturb
  <1>8. ASSUME NEW p \in Procs, Serve(p) PROVE AgentInv'
    BY <1>8 DEF Serve, Handle, Handled
  <1> QED BY <1>1, <1>2, <1>5, <1>6, <1>7, <1>8 DEF Next

(***************************************************************************)
(* Without overlapping starts: one daemon, with its server and its socket. *)
(***************************************************************************)

\* The histories change with a start only, or grow.
LEMMA HistoryFacts ==
    ASSUME TypeOK, [Next]_vars, \A p \in Procs : ~Start(p)
    PROVE  /\ overlap' = overlap
           /\ disturbed => disturbed'
           /\ \A p \in Procs : main[p] = "off" => main'[p] = "off"
  <1> USE DEF TypeOK, Disturbed
  <1>1. CASE UNCHANGED vars \/ StockStarts
    BY <1>1 DEF vars, StockStarts
  <1>2. ASSUME NEW p \in Procs, Run(p)
        PROVE  /\ overlap' = overlap /\ (disturbed => disturbed')
               /\ \A q \in Procs : main[q] = "off" => main'[q] = "off"
    <2>1. overlap' = overlap /\ (disturbed => disturbed')
      BY <1>2 DEF Run, Release, Prepare, Launch, BindControl, BindPort, Accept, ServeEnds,
                  DropSide, OneEnds, ContinueAlone, Exit
    <2>2. main' = main \/ (main[p] # "off" /\ \E m : main' = [main EXCEPT ![p] = m])
      BY <1>2 DEF Run, Release, Prepare, Launch, BindControl, BindPort, Accept, ServeEnds,
                  DropSide, OneEnds, ContinueAlone, Exit, Gone
    <2> QED BY <2>1, <2>2
  <1>3. ASSUME NEW p \in Procs, RunAgent(p) \/ Serve(p) \/ Disturb(p)
        PROVE  /\ overlap' = overlap /\ (disturbed => disturbed')
               /\ \A q \in Procs : main[q] = "off" => main'[q] = "off"
    <2>1. overlap' = overlap /\ (disturbed => disturbed')
      BY <1>3 DEF RunAgent, Disturb, Connect, GiveUp, AgentEnds, Serve, Handle, Handled,
                  Shutdown, Crash, PrepareFails, AcceptFails
    <2>2. main' = main \/ (main[p] # "off" /\ \E m : main' = [main EXCEPT ![p] = m])
      BY <1>3 DEF RunAgent, Disturb, Connect, GiveUp, AgentEnds, Serve, Handle, Handled,
                  Shutdown, Crash, PrepareFails, AcceptFails, Gone
    <2> QED BY <2>1, <2>2
  <1> QED BY <1>1, <1>2, <1>3 DEF Next

\* A start that overlaps with nothing finds the invariant in force: it holds
\* by assumption, or because nobody runs.  And when it gets the port nobody
\* is the daemon.
LEMMA StartFacts ==
    ASSUME TypeOK, HubInv, NEW p \in Procs, Start(p), ~overlap'
    PROVE  /\ QuietInv
           /\ \A q \in Procs : ~Unsettled(q)
           /\ port = Free => \A q \in Procs : ~Active(q)
  <1>1. CASE \A q \in Procs : main[q] = "off"
    <2>1. \A q \in Procs : daemon[q] = "none"
      BY <1>1 DEF HubInv, SocketInv
    <2>2. \A q \in Procs : ~Active(q) /\ ~Unsettled(q)
      BY <1>1, <2>1 DEF Active, Unsettled, Starting, Dropping
    <2>3. QuietInv
      BY <2>1, <2>2, ServiceAssumption DEF QuietInv
    <2> QED BY <2>2, <2>3
  <1>2. CASE ~\A q \in Procs : main[q] = "off"
    <2>1. ~overlap /\ \A q \in Procs : ~Unsettled(q)
      BY <1>2 DEF Start
    <2>2. ASSUME port = Free, NEW q \in Procs PROVE ~Active(q)
      <3>1. daemon[q] # "serving"
        BY <2>2, ServiceAssumption DEF HubInv, SocketInv
      <3> QED BY <2>1, <3>1 DEF Active, Unsettled
    <2> QED BY <2>1, <2>2 DEF HubInv
  <1> QED BY <1>1, <1>2

LEMMA QuietStart ==
    ASSUME TypeOK, HubInv, NEW p \in Procs, Start(p), ~overlap'
    PROVE  QuietInv'
  <1>1. QuietInv /\ UNCHANGED <<byPath, named, path, side, daemon>>
    BY StartFacts DEF Start
  <1>2. Reached' = Reached
    BY <1>1 DEF Reached
  <1>3. \A q, r \in Procs : Active(q)' /\ Active(r)' => q = r
    <2>1. CASE port = Free
      <3>1. \A q \in Procs : Active(q)' => q = p
        BY <2>1, StartFacts DEF Start, Active, TypeOK
      <3> QED BY <3>1
    <2>2. CASE port # Free
      <3>1. \A q \in Procs : Active(q)' => Active(q)
        BY <2>2 DEF Start, Active, TypeOK
      <3> QED BY <1>1, <3>1 DEF QuietInv
    <2> QED BY <2>1, <2>2
  <1> QED BY <1>1, <1>2, <1>3 DEF QuietInv

\* A process that is not the daemon and does not become it.
LEMMA QuietFrame ==
    ASSUME QuietInv, UNCHANGED <<byPath, named, path>>, side' = side,
           \A q \in Procs : Active(q)' => Active(q),
           \A q \in Procs : daemon'[q] \in {"port", "serving"} => daemon[q] \in {"port", "serving"},
           \A q \in Procs : daemon'[q] = "control" => daemon[q] = "control"
    PROVE  QuietInv'
  <1>1. Reached' = Reached
    BY DEF Reached
  <1> QED BY <1>1, ServiceAssumption DEF QuietInv

\* A daemon or a starting one that gives everything up: nobody else is one.
LEMMA QuietCloses ==
    ASSUME TypeOK, SocketInv, QuietInv, NEW p \in Procs, NEW l, NEW m,
           daemon' = [daemon EXCEPT ![p] = l], main' = [main EXCEPT ![p] = m],
           UNCHANGED <<byPath, side>>, CloseListeners(p), Active(p) \/ l \notin Dropping,
           l \notin Starting \cup {"serving"}, m # "probing"
    PROVE  QuietInv'
  <1> USE ServiceAssumption DEF Starting, Dropping
  <1>1. \A q \in Procs : Active(q)' => Active(q)
    BY DEF Active, TypeOK
  <1>2. ASSUME NEW q \in Procs, daemon'[q] \in {"port", "serving"} PROVE Reached' = q
    <2>1. q # p /\ daemon[q] \in {"port", "serving"} /\ Active(q)
      BY <1>2 DEF TypeOK, Active
    <2>2. Reached = q
      BY <2>1 DEF QuietInv
    <2>3. named # p
      BY <2>1 DEF SocketInv, QuietInv, Active, TypeOK
    <2>4. named' = named
      BY <2>3, CloseFacts
    <2>5. path # NoFile /\ path.live => path.owner # p
      <3> SUFFICES ASSUME path # NoFile, path.live, path.owner = p PROVE FALSE
        OBVIOUS
      <3>1. Active(p)
        BY DEF SocketInv, Active
      <3> QED BY <3>1, <2>1 DEF QuietInv
    <2>6. CASE ~byPath /\ named # Free
      BY <2>2, <2>4, <2>6 DEF Reached
    <2>7. CASE ~(~byPath /\ named # Free)
      <3>1. path # NoFile /\ path.live /\ path.owner = q
        BY <2>2, <2>7 DEF Reached
      <3>2. path' = path
        BY <2>1, <3>1, CloseFacts
      <3> QED BY <2>4, <2>7, <3>1, <3>2 DEF Reached
    <2> QED BY <2>6, <2>7
  <1>3. \A q \in Local : daemon'[q] \in {"control", "port", "serving"} => side'
    BY DEF QuietInv, TypeOK
  <1> QED BY <1>1, <1>2, <1>3 DEF QuietInv

LEMMA QuietRun ==
    ASSUME TypeOK, SocketInv, QuietInv, NEW p \in Procs, Run(p)
    PROVE  QuietInv'
  <1> USE ServiceAssumption DEF Starting, Dropping, Daemon
  <1>0. main = [main EXCEPT ![p] = main[p]] /\ daemon = [daemon EXCEPT ![p] = daemon[p]]
    BY DEF TypeOK
  <1>1. CASE Release(p)
    <2>1. UNCHANGED <<byPath, named, path, side>>
      BY <1>1 DEF Release
    <2>2. \A q \in Procs : Active(q)' => Active(q)
      BY <1>1 DEF Release, Active, TypeOK
    <2> QED BY <1>1, <2>1, <2>2, QuietFrame DEF Release, TypeOK
  <1>2. CASE Prepare(p)
    <2>1. UNCHANGED <<byPath, named, path, side, main>> /\ daemon[p] = "prepare"
          /\ \E l \in {"control", "launch"} :
                daemon' = [daemon EXCEPT ![p] = l] /\ (l = "control" /\ p \in Local => side)
      BY <1>2 DEF Prepare
    <2>2. \A q \in Procs : Active(q)' => Active(q)
      BY <2>1 DEF Active, TypeOK
    <2>3. \A q \in Local : daemon'[q] \in {"control", "port", "serving"} => side'
      BY <2>1 DEF QuietInv, TypeOK
    <2>4. Reached' = Reached
      BY <2>1 DEF Reached
    <2>5. \A q \in Procs : daemon'[q] \in {"port", "serving"} => Reached' = q
      BY <2>1, <2>4 DEF QuietInv, TypeOK
    <2> QED BY <2>2, <2>3, <2>5 DEF QuietInv
  <1>3. CASE Launch(p)
    <2>1. UNCHANGED <<byPath, named, path, main>> /\ daemon[p] = "launch" /\ side' = TRUE
          /\ daemon' = [daemon EXCEPT ![p] = "control"]
      BY <1>3 DEF Launch
    <2>2. \A q \in Procs : Active(q)' => Active(q)
      BY <2>1 DEF Active, TypeOK
    <2>3. Reached' = Reached
      BY <2>1 DEF Reached
    <2>4. \A q \in Procs : daemon'[q] \in {"port", "serving"} => Reached' = q
      BY <2>1, <2>3 DEF QuietInv, TypeOK
    <2> QED BY <2>1, <2>2, <2>4 DEF QuietInv
  <1>4. CASE BindControl(p)
    <2>1. /\ UNCHANGED <<byPath, side, main>>
          /\ daemon[p] = "control"
          /\ \E l \in {"port", "failing"} : daemon' = [daemon EXCEPT ![p] = l]
      BY <1>4 DEF BindControl
    <2>2. \A q \in Procs : Active(q)' => Active(q)
      BY <2>1 DEF Active, TypeOK
    <2>3. \A q \in Local : daemon'[q] \in {"control", "port", "serving"} => side'
      BY <2>1 DEF QuietInv, TypeOK
    <2>4. \A q \in Procs : daemon[q] \notin {"port", "serving"}
      BY <2>1 DEF QuietInv, Active
    <2>5. named = Free
      BY <2>4 DEF SocketInv, TypeOK
    <2>6. ASSUME NEW q \in Procs, daemon'[q] \in {"port", "serving"} PROVE Reached' = q
      <3>1. q = p /\ daemon'[p] = "port"
        BY <2>1, <2>4, <2>6 DEF TypeOK
      <3>2. \/ ~byPath /\ named' = p
            \/ byPath /\ path' = [owner |-> p, live |-> TRUE]
        BY <1>4, <2>5, <3>1 DEF BindControl, TypeOK
      <3>3. [owner |-> p, live |-> TRUE] # NoFile
        <4>1. [owner |-> p, live |-> TRUE] \in SocketFile
          BY DEF SocketFile
        <4> QED BY <4>1, NoFileAssumption
      <3> QED BY <2>1, <3>1, <3>2, <3>3 DEF Reached
    <2> QED BY <2>2, <2>3, <2>6 DEF QuietInv
  <1>5. CASE BindPort(p)
    <2>1. UNCHANGED <<byPath, side, main>> /\ daemon[p] = "port" /\ Active(p)
      BY <1>5 DEF BindPort, Active
    <2>2. main[p] # "probing"
      BY <2>1 DEF SocketInv
    <2>3. CASE port = Free
      <3>1. UNCHANGED <<named, path>> /\ daemon' = [daemon EXCEPT ![p] = "serving"]
        BY <1>5, <2>3 DEF BindPort
      <3>2. \A q \in Procs : Active(q)' => Active(q)
        BY <2>1, <3>1 DEF Active, TypeOK
      <3> QED BY <2>1, <3>1, <3>2, QuietFrame DEF TypeOK
    <2>4. CASE port # Free
      <3>1. CloseListeners(p) /\ daemon' = [daemon EXCEPT ![p] = "losing"]
        BY <1>5, <2>4 DEF BindPort
      <3> QED BY <1>0, <2>1, <2>2, <3>1, QuietCloses
    <2> QED BY <2>3, <2>4
  <1>6. CASE Accept(p)
    <2>1. UNCHANGED <<byPath, named, path, side, main, daemon>>
      BY <1>6 DEF Accept
    <2> QED BY <2>1, QuietFrame DEF Active
  <1>7. CASE ServeEnds(p)
    <2>1. /\ CloseListeners(p) /\ UNCHANGED <<byPath, side, main>> /\ Active(p) /\ main[p] # "probing"
          /\ daemon' = [daemon EXCEPT ![p] = "failing"]
      BY <1>7 DEF ServeEnds, Active
    <2> QED BY <1>0, <2>1, QuietCloses
  <1>8. CASE DropSide(p)
    <2>1. UNCHANGED <<byPath, named, path, main>> /\ Active(p) /\ daemon[p] \in Dropping
          /\ \E l \in {"lost", "ended"} : daemon' = [daemon EXCEPT ![p] = l]
      BY <1>8 DEF DropSide, Active
    <2>2. \A q \in Procs : daemon'[q] \notin Starting \cup {"serving"}
      BY <2>1 DEF QuietInv, Active, TypeOK
    <2>3. \A q \in Procs : Active(q)' => Active(q)
      BY <2>1 DEF Active, TypeOK
    <2> QED BY <2>2, <2>3 DEF QuietInv
  <1>9. CASE OneEnds(p) \/ ContinueAlone(p)
    <2>1. UNCHANGED <<byPath, named, path, side, daemon>>
      BY <1>9 DEF OneEnds, ContinueAlone
    <2>2. \A q \in Procs : Active(q)' => Active(q)
      BY <1>9, <2>1 DEF OneEnds, ContinueAlone, Active, TypeOK
    <2> QED BY <2>1, <2>2, QuietFrame
  <1>10. CASE Exit(p)
    <2>1. UNCHANGED <<byPath, named, path, side>> /\ main' = [main EXCEPT ![p] = "off"]
          /\ daemon' = [daemon EXCEPT ![p] = "none"]
      BY <1>10 DEF Exit, Gone
    <2>2. \A q \in Procs : Active(q)' => Active(q)
      BY <2>1 DEF Active, TypeOK
    <2> QED BY <2>1, <2>2, QuietFrame DEF TypeOK
  <1> QED BY <1>1, <1>2, <1>3, <1>4, <1>5, <1>6, <1>7, <1>8, <1>9, <1>10 DEF Run

LEMMA QuietRest ==
    ASSUME TypeOK, SocketInv, QuietInv, NEW p \in Procs, RunAgent(p) \/ Serve(p) \/ Disturb(p)
    PROVE  QuietInv'
  <1> USE ServiceAssumption DEF Starting, Dropping, Daemon
  <1>0. main = [main EXCEPT ![p] = main[p]] /\ daemon = [daemon EXCEPT ![p] = daemon[p]]
    BY DEF TypeOK
  <1>1. CASE RunAgent(p) \/ Serve(p)
    <2>1. UNCHANGED <<byPath, named, path, side, main, daemon>>
      BY <1>1 DEF RunAgent, Connect, GiveUp, AgentEnds, Serve, Handle, Handled
    <2> QED BY <2>1, QuietFrame DEF Active
  <1>2. CASE Shutdown(p)
    <2>1. UNCHANGED <<byPath, named, path, side, daemon>>
      BY <1>2 DEF Shutdown
    <2>2. \A q \in Procs : Active(q)' => Active(q)
      BY <1>2, <2>1 DEF Shutdown, Active, TypeOK
    <2> QED BY <2>1, <2>2, QuietFrame
  <1>3. CASE Crash(p)
    <2>1. /\ CloseListeners(p) /\ UNCHANGED <<byPath, side>> /\ main' = [main EXCEPT ![p] = "off"]
          /\ daemon' = [daemon EXCEPT ![p] = "none"]
      BY <1>3 DEF Crash, Gone
    <2> QED BY <2>1, QuietCloses
  <1>4. CASE PrepareFails(p)
    <2>1. /\ UNCHANGED <<byPath, named, path, main>> /\ daemon[p] \in {"prepare", "launch"}
          /\ daemon' = [daemon EXCEPT ![p] = "ended"]
      BY <1>4 DEF PrepareFails
    <2>2. \A q \in Procs : Active(q)' => Active(q)
      BY <2>1 DEF Active, TypeOK
    <2>3. \A q \in Procs : daemon'[q] \notin {"control", "port", "serving"}
      BY <2>1 DEF QuietInv, Active, TypeOK
    <2> QED BY <2>2, <2>3 DEF QuietInv
  <1>5. CASE AcceptFails(p)
    <2>1. /\ CloseListeners(p) /\ UNCHANGED <<byPath, side, main>> /\ daemon[p] = "serving"
          /\ daemon' = [daemon EXCEPT ![p] = "failing"]
      BY <1>5 DEF AcceptFails
    <2>2. main[p] # "probing" /\ Active(p)
      BY <2>1 DEF SocketInv, Active
    <2> QED BY <1>0, <2>1, <2>2, QuietCloses
  <1> QED BY <1>1, <1>2, <1>3, <1>4, <1>5 DEF Disturb

LEMMA QuietNext == TypeOK /\ HubInv /\ [Next]_vars /\ ~overlap' => QuietInv'
  <1> SUFFICES ASSUME TypeOK, HubInv, [Next]_vars, ~overlap' PROVE QuietInv'
    OBVIOUS
  <1>1. CASE \E p \in Procs : Start(p)
    BY <1>1, QuietStart
  <1>2. CASE \A p \in Procs : ~Start(p)
    <2>1. SocketInv /\ QuietInv
      BY <1>2, HistoryFacts DEF HubInv
    <2>2. CASE UNCHANGED vars \/ StockStarts
      <3>1. UNCHANGED <<byPath, named, path, side, main, daemon>>
        BY <2>2 DEF vars, StockStarts
      <3> QED BY <2>1, <3>1, QuietFrame DEF Active
    <2> QED BY <1>2, <2>1, <2>2, QuietRun, QuietRest DEF Next
  <1> QED BY <1>1, <1>2

(***************************************************************************)
(* Without disturbances: nobody is on its way out.                         *)
(***************************************************************************)

LEMMA CalmStart ==
    ASSUME TypeOK, HubInv, NEW p \in Procs, Start(p), ~overlap', ~disturbed'
    PROVE  CalmInv'
  <1> USE ServiceAssumption DEF Starting
  <1>1. CASE \A q \in Procs : main[q] = "off"
    <2>1. port # Stock
      BY <1>1 DEF Start
    <2>2. \A q \in Procs : daemon[q] = "none" /\ agent[q] = "none"
      BY <1>1 DEF HubInv, SocketInv, AgentInv
    <2>3. port = Free
      BY <1>1, <2>1, <2>2 DEF HubInv, SocketInv, TypeOK
    <2>4. port' = p /\ main' = [main EXCEPT ![p] = "probing"] /\ UNCHANGED <<agent, daemon>>
      BY <2>3 DEF Start
    <2> QED BY <1>1, <2>2, <2>4 DEF CalmInv, TypeOK
  <1>2. CASE ~\A q \in Procs : main[q] = "off"
    <2>1. CalmInv
      BY <1>2 DEF Start, HubInv, Running
    <2>2. PICK q \in Procs : daemon[q] = "serving"
      BY <2>1, StartFacts DEF CalmInv, Unsettled
    <2>3. port = q
      BY <2>2 DEF HubInv, SocketInv
    <2>4. /\ main' = [main EXCEPT ![p] = "joined"]
          /\ agent' = [agent EXCEPT ![p] = "connecting"]
          /\ UNCHANGED <<port, daemon>>
      BY <2>3 DEF Start
    <2> QED BY <2>1, <2>2, <2>3, <2>4 DEF CalmInv, TypeOK
  <1> QED BY <1>1, <1>2

LEMMA CalmRun ==
    ASSUME TypeOK, SocketInv, QuietInv, CalmInv, NEW p \in Procs, Run(p), ~disturbed'
    PROVE  CalmInv'
  <1> USE ServiceAssumption DEF Starting, Dropping, Finished, Daemon
  <1>0. /\ main[p] # "leaving" /\ agent[p] # "ended"
        /\ daemon[p] \notin Dropping \cup {"lost", "ended"}
    BY DEF CalmInv
  <1>1. CASE Release(p)
    BY <1>1 DEF Release, CalmInv, TypeOK
  <1>2. CASE Prepare(p)
    BY <1>2 DEF Prepare, CalmInv, TypeOK
  <1>3. CASE Launch(p)
    BY <1>3 DEF Launch, CalmInv, TypeOK
  <1>4. CASE BindControl(p)
    <2>1. UNCHANGED <<port, main, agent>> /\ daemon' = [daemon EXCEPT ![p] = "port"]
      BY <1>4 DEF BindControl, Disturbed
    <2> QED BY <2>1 DEF CalmInv, TypeOK
  <1>5. CASE BindPort(p)
    <2>1. daemon[p] = "port" /\ Active(p)
      BY <1>5 DEF BindPort, Active
    <2>2. port = Free
      <3> SUFFICES ASSUME port # Free PROVE FALSE
        OBVIOUS
      <3>1. port \in Procs
        BY DEF CalmInv, TypeOK
      <3>2. Active(port)
        BY <3>1 DEF SocketInv, Active
      <3>3. port = p
        BY <2>1, <3>1, <3>2 DEF QuietInv
      <3> QED BY <2>1, <3>3 DEF SocketInv
    <2>3. UNCHANGED <<main, agent>> /\ port' = p /\ daemon' = [daemon EXCEPT ![p] = "serving"]
      BY <1>5, <2>2 DEF BindPort
    <2> QED BY <2>3 DEF CalmInv, TypeOK
  <1>6. CASE Accept(p)
    BY <1>6 DEF Accept, CalmInv, TypeOK
  <1>7. CASE ServeEnds(p) \/ DropSide(p) \/ OneEnds(p) \/ ContinueAlone(p) \/ Exit(p)
    BY <1>0, <1>7 DEF ServeEnds, DropSide, OneEnds, ContinueAlone, Exit
  <1> QED BY <1>1, <1>2, <1>3, <1>4, <1>5, <1>6, <1>7 DEF Run

LEMMA CalmRest ==
    ASSUME TypeOK, SocketInv, QuietInv, CalmInv, NEW p \in Procs, RunAgent(p) \/ Serve(p) \/ Disturb(p),
           ~disturbed'
    PROVE  CalmInv'
  <1>1. CASE Connect(p)
    BY <1>1 DEF Connect, CalmInv, TypeOK
  <1>2. CASE GiveUp(p)
    <2>1. \A q \in Procs : main[q] # "probing" /\ daemon[q] \notin Starting
      BY <1>2 DEF GiveUp
    <2>2. PICK q \in Procs : daemon[q] = "serving"
      BY <2>1 DEF CalmInv
    <2>3. Reached = q
      BY <2>2 DEF QuietInv
    <2> QED BY <1>2, <2>3, ServiceAssumption DEF GiveUp
  <1>3. CASE AgentEnds(p)
    BY <1>3 DEF AgentEnds, CalmInv
  <1>4. ~Disturb(p)
    BY DEF Disturb, Disturbed, Shutdown, Crash, PrepareFails, AcceptFails
  <1>5. CASE Serve(p)
    BY <1>5 DEF Serve, Handle, Handled, CalmInv
  <1> QED BY <1>1, <1>2, <1>3, <1>4, <1>5 DEF RunAgent

LEMMA CalmNext ==
    TypeOK /\ HubInv /\ [Next]_vars /\ ~overlap' /\ ~disturbed' /\ Running' => CalmInv'
  <1> SUFFICES ASSUME TypeOK, HubInv, [Next]_vars, ~overlap', ~disturbed', Running'
               PROVE  CalmInv'
    OBVIOUS
  <1>1. CASE \E p \in Procs : Start(p)
    BY <1>1, CalmStart
  <1>2. CASE \A p \in Procs : ~Start(p)
    <2>1. SocketInv /\ QuietInv /\ CalmInv
      BY <1>2, HistoryFacts DEF HubInv, Running
    <2>2. CASE UNCHANGED vars
      BY <2>1, <2>2 DEF vars, CalmInv
    <2>3. ~StockStarts
      BY DEF StockStarts, Disturbed
    <2> QED BY <1>2, <2>1, <2>2, <2>3, CalmRun, CalmRest DEF Next
  <1> QED BY <1>1, <1>2

LEMMA HubNext == TypeOK /\ HubInv /\ [Next]_vars => HubInv'
  BY SocketNext, AgentNext, QuietNext, CalmNext DEF HubInv

\* The adb server of the daemon that serves is up, for any number of users,
\* unless they started while another process was starting or stopping: no
\* process stops a server that another one uses (LocalAdb in src/local.rs).
THEOREM SharedServerUpAlways == Spec => []SharedServerUp
  <1>1. HubInv => SharedServerUp
    BY DEF HubInv, QuietInv, SharedServerUp
  <1> QED BY <1>1, TypeCorrect, HubInit, HubNext, PTL DEF Spec

\* The control socket leads to the daemon that serves, in spite of the socket
\* files that crashes leave and of names that are taken (bind_control in
\* src/daemon.rs), under the same condition.
THEOREM ControlReachableAlways == Spec => []ControlReachable
  <1>1. HubInv => ControlReachable
    BY DEF HubInv, QuietInv, ControlReachable
  <1> QED BY <1>1, TypeCorrect, HubInit, HubNext, PTL DEF Spec

\* Who leaves was stopped or disturbed: without an overlap and a disturbance no
\* process of any number exits (run_shared_service in src/service.rs).
THEOREM NobodyTurnedAwayAlways == Spec => NobodyTurnedAway
  <1> DEFINE Kept == \A p \in Procs : (main[p] # "off" /\ main'[p] = "off")
                                        => (overlap' \/ disturbed')
  <1>1. TypeOK /\ HubInv /\ [Next]_vars => [Kept]_vars
    <2> SUFFICES ASSUME TypeOK, HubInv, Next, NEW p \in Procs, main[p] # "off", main'[p] = "off",
                        ~overlap', ~disturbed'
                 PROVE  FALSE
      BY DEF Kept
    <2>1. ASSUME NEW q \in Procs, Start(q) PROVE FALSE
      BY <2>1 DEF Start, TypeOK
    <2>2. ~overlap /\ ~disturbed /\ Running
      BY <2>1, HistoryFacts DEF Running
    <2>3. SocketInv /\ QuietInv /\ CalmInv
      BY <2>2 DEF HubInv
    <2>4. ASSUME NEW q \in Procs, Run(q) PROVE FALSE
      <3>1. ~Exit(q)
        BY <2>3 DEF CalmInv, Exit
      <3> QED BY <2>4, <3>1 DEF Run, Release, Prepare, Launch, BindControl, BindPort, Accept,
                 ServeEnds, DropSide, OneEnds, ContinueAlone, TypeOK
    <2>5. ASSUME NEW q \in Procs, RunAgent(q) PROVE FALSE
      BY <2>5 DEF RunAgent, Connect, GiveUp, AgentEnds
    <2>6. ASSUME NEW q \in Procs, Disturb(q) PROVE FALSE
      BY <2>6 DEF Disturb, Disturbed, Shutdown, Crash, PrepareFails, AcceptFails
    <2>7. ASSUME NEW q \in Procs, Serve(q) PROVE FALSE
      BY <2>7 DEF Serve, Handle, Handled
    <2> QED BY <2>1, <2>4, <2>5, <2>6, <2>7 DEF Next, StockStarts
  <1> QED BY <1>1, TypeCorrect, HubInit, HubNext, PTL DEF Spec, NobodyTurnedAway, Kept

===============================================================================
