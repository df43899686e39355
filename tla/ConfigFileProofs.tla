--------------------------- MODULE ConfigFileProofs ---------------------------
(***************************************************************************)
(* Proofs about ConfigFile and PolicyReload for every set of names,        *)
(* addresses, devices, processes, commands and edits: the types, the       *)
(* refinement of AtomicConfig, the mode of the file and the policy cache;  *)
(* and about AgentPoller, which reads that file: its types, and that no    *)
(* route leads to a proxy that is too old.                                 *)
(***************************************************************************)
EXTENDS PolicyReload, AgentPoller, TLAPS

(***************************************************************************)
(* The operators on documents.                                             *)
(***************************************************************************)

\* local_only is a config.
LEMMA DefaultIsConfig == DefaultConfig \in Config
  BY DEF DefaultConfig, Config

\* A name that is paired has a backend, with an address and a flag.
LEMMA PairedBackend ==
    ASSUME NEW cfg \in Config, NEW n \in Paired(cfg)
    PROVE  n \in Names /\ cfg.backends[n] \in Backend
  BY DocumentAssumption DEF Paired, Config

\* Replacing one entry of the backends of a config leaves a config.
LEMMA WithBackend ==
    ASSUME NEW cfg \in Config, NEW n \in Names, NEW b \in Backend \cup {NoBackend}
    PROVE  [cfg EXCEPT !.backends[n] = b] \in Config
  BY DEF Config

\* `pair` makes a config of a config.
LEMMA UpsertType ==
    ASSUME NEW cfg \in Config, NEW n \in Names, NEW a \in Addrs
    PROVE  UpsertBackend(cfg, n, a) \subseteq Config
  <1> DEFINE at == {m \in Paired(cfg) : cfg.backends[m].addr = a}
  <1>1. ASSUME n \in Paired(cfg)
        PROVE  [cfg EXCEPT !.backends[n].addr = a] \in Config
    <2>1. [cfg.backends[n] EXCEPT !.addr = a] \in Backend
      BY <1>1, PairedBackend DEF Backend
    <2>2. [cfg EXCEPT !.backends[n] = [cfg.backends[n] EXCEPT !.addr = a]] \in Config
      BY <2>1, WithBackend
    <2> QED BY <2>2
  <1>2. ASSUME NEW m \in at
        PROVE  [cfg EXCEPT !.backends[n] = cfg.backends[m],
                           !.backends[m] = NoBackend] \in Config
    <2>1. cfg.backends[m] \in Backend /\ m \in Names
      BY PairedBackend
    <2>2. [cfg EXCEPT !.backends[n] = cfg.backends[m]] \in Config
      BY <2>1, WithBackend
    <2>3. [[cfg EXCEPT !.backends[n] = cfg.backends[m]] EXCEPT !.backends[m] = NoBackend] \in Config
      BY <2>1, <2>2, WithBackend
    <2> QED BY <2>3
  <1>3. [cfg EXCEPT !.backends[n] = [addr |-> a, enabled |-> TRUE]] \in Config
    BY WithBackend DEF Backend
  <1> QED BY <1>1, <1>2, <1>3 DEF UpsertBackend

\* So do the other commands.
LEMMA UnpairType ==
    ASSUME NEW cfg \in Config, NEW n \in Names
    PROVE  RunUnpair(cfg, n) \subseteq Config
  BY WithBackend DEF RunUnpair

LEMMA NodeType ==
    ASSUME NEW cfg \in Config, NEW n \in Names, NEW on \in BOOLEAN
    PROVE  SetBackendEnabled(cfg, n, on) \subseteq Config
  <1> SUFFICES ASSUME n \in Paired(cfg)
               PROVE  [cfg EXCEPT !.backends[n].enabled = on] \in Config
    BY DEF SetBackendEnabled
  <1>1. [cfg.backends[n] EXCEPT !.enabled = on] \in Backend
    BY PairedBackend DEF Backend
  <1>2. [cfg EXCEPT !.backends[n] = [cfg.backends[n] EXCEPT !.enabled = on]] \in Config
    BY <1>1, WithBackend
  <1> QED BY <1>2

LEMMA DeviceType ==
    ASSUME NEW cfg \in Config, NEW d \in Devices, NEW on \in BOOLEAN
    PROVE  SetDeviceEnabled(cfg, d, on) \subseteq Config
  BY DEF SetDeviceEnabled, Config

\* Whatever the file holds, a command writes nothing but configs.
LEMMA ResultsType ==
    ASSUME NEW c \in Command, NEW d \in Document
    PROVE  Results(c, d) \subseteq Config
  <1> SUFFICES ASSUME Readable(d) PROVE Effects(c, LoadOrEmpty(d)) \subseteq Config
    BY DEF Results
  <1>1. LoadOrEmpty(d) \in Config
    BY DefaultIsConfig DEF Readable, Loads, LoadOrEmpty
  <1>2. CASE c \in [op : {"pair"}, name : Names, addr : Addrs]
    BY <1>1, <1>2, UpsertType DEF Effects
  <1>3. CASE c \in [op : {"unpair"}, name : Names]
    BY <1>1, <1>3, UnpairType DEF Effects
  <1>4. CASE c \in [op : {"node"}, name : Names, on : BOOLEAN]
    BY <1>1, <1>4, NodeType DEF Effects
  <1>5. CASE c \in [op : {"device"}, serial : Devices, on : BOOLEAN]
    BY <1>1, <1>5, DeviceType DEF Effects
  <1> QED BY <1>2, <1>3, <1>4, <1>5 DEF Command

(***************************************************************************)
(* Type correctness of the commands and of the policy cache.               *)
(***************************************************************************)

\* What a name of the file system stands for is a document.
LEMMA DocType ==
    ASSUME NEW f \in File \cup {NoFile}
    PROVE  Doc(f) \in Document
  BY NoFileAssumption DEF Doc, Document, File

\* Writing into a file leaves a file.
LEMMA PutType ==
    ASSUME NEW f \in File, NEW d \in Config \cup {Torn}, clock' \in Nat
    PROVE  Put(f, d) \in File
  BY DEF Put, File

\* An open file has the name that fd says.
OpenFiles ==
    \A p \in Procs :
        /\ fd[p] = "temp" => temp # NoFile
        /\ fd[p] = "config" => config # NoFile

TypeInv == TypeOK /\ OpenFiles

LEMMA TypeInit == Init => TypeInv
  <1> SUFFICES ASSUME Init PROVE TypeInv
    OBVIOUS
  <1>1. config \in File \cup {NoFile}
    <2>1. ASSUME NEW d \in Edits
          PROVE  [doc |-> d, blank |-> FALSE, mtime |-> 0, mode |-> "owner"] \in File
      BY ConfigFileAssumption DEF File
    <2> QED BY <2>1 DEF Init
  <1>2. job \in [Procs -> Commands]
    <2>1. (CHOOSE c \in Commands : TRUE) \in Commands
      BY ConfigFileAssumption
    <2> QED BY <2>1 DEF Init
  <1>3. runs \in 0..MaxRuns /\ edits \in 0..MaxEdits /\ clock \in Nat
    BY ConfigFileAssumption DEF Init
  <1>4. mem \in [Procs -> Config]
    BY DefaultIsConfig DEF Init
  <1> QED BY <1>1, <1>2, <1>3, <1>4 DEF Init, TypeInv, TypeOK, OpenFiles

\* A time stamp keeps the clock a number and the history a truth value.
LEMMA StampedType ==
    ASSUME TypeOK, NEW tick \in 0..1, Stamped(tick)
    PROVE  clock' \in Nat /\ collided' \in BOOLEAN
  BY DEF Stamped, TypeOK

\* Every step of a command preserves the types.
LEMMA TypeStep ==
    ASSUME TypeInv, NEW p \in Procs, Step(p)
    PROVE  TypeInv'
  <1> USE DEF TypeInv, TypeOK, OpenFiles, fileVars, procVars, boundVars, Goto, Saving
  <1>1. CASE Load(p)
    <2>1. PICK c \in Commands :
            /\ job' = [job EXCEPT ![p] = c]
            /\ \/ /\ \E d \in Results(c, Doc(config)) : mem' = [mem EXCEPT ![p] = d]
                  /\ Goto(p, "loaded")
               \/ Goto(p, "failed") /\ UNCHANGED mem
      BY <1>1 DEF Load
    <2>2. Results(c, Doc(config)) \subseteq Config
      BY ResultsType, DocType, ConfigFileAssumption
    <2>3. mem' \in [Procs -> Config]
      BY <2>1, <2>2
    <2>4. pc' \in [Procs -> Saving \cup {"idle", "renamed", "ok", "failed"}]
      BY <2>1
    <2>5. runs' \in 0..MaxRuns /\ clash' \in BOOLEAN
      BY <1>1, ConfigFileAssumption DEF Load, Busy
    <2> QED BY <1>1, <2>1, <2>3, <2>4, <2>5 DEF Load
  <1>2. CASE Open(p)
    <2>1. clock' \in Nat /\ collided' \in BOOLEAN
      BY <1>2, StampedType DEF Open
    <2>2. temp' \in File
      BY <1>2, <2>1, DefaultIsConfig DEF Open, File
    <2> QED BY <1>2, <2>1, <2>2, NoFileAssumption DEF Open
  <1>3. CASE Write(p)
    <2>1. clock' \in Nat /\ collided' \in BOOLEAN
      BY <1>3, StampedType DEF Write
    <2>2. ASSUME NEW f \in File, NEW d \in Overwritten(f, mem[p])
          PROVE  Put(f, d) \in File
      BY <2>1, <2>2, PutType DEF Overwritten
    <2>3. CASE fd[p] = "temp"
      BY <1>3, <2>1, <2>2, <2>3, NoFileAssumption DEF Write
    <2>4. CASE fd[p] = "config"
      BY <1>3, <2>1, <2>2, <2>4, NoFileAssumption DEF Write
    <2>5. CASE fd[p] = "lost"
      BY <1>3, <2>1, <2>5 DEF Write
    <2> QED BY <1>3, <2>3, <2>4, <2>5 DEF Write
  <1>4. CASE WriteFails(p)
    <2>1. temp' \in File
      BY <1>4, PutType DEF WriteFails
    <2> QED BY <1>4, <2>1, NoFileAssumption DEF WriteFails
  <1>5. CASE Restrict(p)
    <2>1. temp' \in File \cup {NoFile} /\ (temp # NoFile => temp' # NoFile)
      BY <1>5, NoFileAssumption DEF Restrict, File
    <2> QED BY <1>5, <2>1 DEF Restrict
  <1>6. CASE Rename(p)
    <2>1. fd' \in [Procs -> {"none", "temp", "config", "lost"}]
      BY <1>6 DEF Rename, Renamed
    <2>2. ASSUME temp # NoFile, NEW q \in Procs
          PROVE  fd'[q] # "temp" /\ config' # NoFile
      BY <1>6, <2>2 DEF Rename, Renamed
    <2>3. OpenFiles'
      BY <1>6, <2>2 DEF Rename
    <2> QED BY <1>6, <2>1, <2>3 DEF Rename
  <1>7. CASE Report(p)
    BY <1>7 DEF Report
  <1>8. CASE Interrupt(p)
    BY <1>8 DEF Interrupt
  <1> QED BY <1>1, <1>2, <1>3, <1>4, <1>5, <1>6, <1>7, <1>8 DEF Step

\* So does an edit.
LEMMA TypeEdit == TypeInv /\ Edit => TypeInv'
  <1> SUFFICES ASSUME TypeInv, Edit PROVE TypeInv'
    OBVIOUS
  <1>1. clock' \in Nat /\ collided' \in BOOLEAN
    BY StampedType DEF Edit, TypeInv
  <1>2. config' \in File
    BY <1>1, ConfigFileAssumption DEF Edit, TypeInv, TypeOK, File
  <1>3. edits' \in 0..MaxEdits /\ clash' \in BOOLEAN
    BY ConfigFileAssumption DEF Edit, TypeInv, TypeOK, Busy
  <1> QED BY <1>1, <1>2, <1>3, NoFileAssumption DEF Edit, TypeInv, TypeOK, OpenFiles, procVars

LEMMA TypeNext == TypeInv /\ [Next]_vars => TypeInv'
  <1>1. TypeInv /\ UNCHANGED vars => TypeInv'
    BY DEF TypeInv, TypeOK, OpenFiles, vars
  <1> QED BY <1>1, TypeStep, TypeEdit DEF Next

\* Type correctness of the commands.
LEMMA TypeInvariant == Spec => []TypeInv
  BY TypeInit, TypeNext, PTL DEF Spec

(***************************************************************************)
(* Commands that do not overlap.                                           *)
(*                                                                         *)
(* Until two of them have overlapped, one command runs at most, and what   *)
(* it has in hand is a result of the document that is still in the file:   *)
(* first in memory, then in the temporary file, which is its own.          *)
(***************************************************************************)

OneAtATime == \A p, q \in Procs : Running(p) /\ Running(q) => p = q

InHand(p) ==
    /\ pc[p] \in Saving => mem[p] \in Results(job[p], Doc(config))
    /\ pc[p] = "opened" => fd[p] = "temp" /\ temp.blank
    /\ pc[p] \in {"written", "restricted"} => temp # NoFile /\ temp.doc = mem[p]
    /\ pc[p] = "restricted" => temp.mode = "owner"

SaveInv == ~clash => OneAtATime /\ \A p \in Procs : InHand(p)

LEMMA SaveInit == Init => SaveInv
  BY DEF Init, SaveInv, OneAtATime, InHand, Running, Saving

LEMMA SaveStep ==
    ASSUME TypeInv, SaveInv, NEW p \in Procs, Step(p)
    PROVE  SaveInv'
  <1> SUFFICES ASSUME ~clash' PROVE OneAtATime' /\ \A q \in Procs : InHand(q)'
    BY DEF SaveInv
  <1>1. ~clash
    BY DEF Step, Load, Open, Write, WriteFails, Restrict, Rename, Report, Interrupt, boundVars
  <1>2. OneAtATime /\ \A q \in Procs : InHand(q)
    BY <1>1 DEF SaveInv
  <1> USE DEF TypeInv, TypeOK, OneAtATime, InHand, Running, Saving, Goto, fileVars, boundVars
  <1>3. CASE Load(p)
    <2>1. \A q \in Procs : ~Running(q)
      BY <1>3 DEF Load, Busy
    <2>2. \A q \in Procs : q # p => pc'[q] = pc[q]
      BY <1>3 DEF Load
    <2>3. pc'[p] = "failed" \/ (pc'[p] = "loaded" /\ mem'[p] \in Results(job'[p], Doc(config)))
      BY <1>3 DEF Load
    <2>4. config' = config
      BY <1>3 DEF Load
    <2> QED BY <2>1, <2>2, <2>3, <2>4 DEF Doc
  <1>4. ASSUME ~Load(p) PROVE /\ Running(p)
                              /\ \A q \in Procs \ {p} : ~Running(q) /\ pc'[q] = pc[q]
    BY <1>2, <1>4 DEF Step, Open, Write, WriteFails, Restrict, Rename, Report, Interrupt
  <1>5. CASE Open(p)
    <2>1. temp'.blank /\ fd'[p] = "temp" /\ pc'[p] = "opened" /\ mem' = mem /\ job' = job /\ config' = config
      BY <1>5 DEF Open
    <2>2. ~Load(p)
      BY <1>5 DEF Open, Load
    <2> QED BY <1>2, <1>4, <1>5, <2>1, <2>2 DEF Open, Doc
  <1>6. CASE Write(p)
    <2>1. ~Load(p)
      BY <1>6 DEF Write, Load
    <2>2. fd[p] = "temp" /\ temp \in File /\ temp.blank
      BY <1>2, <1>6 DEF Write, OpenFiles
    <2>3. temp' = Put(temp, mem[p]) /\ config' = config /\ mem' = mem /\ job' = job /\ pc'[p] = "written"
      BY <1>6, <2>2 DEF Write, Overwritten
    <2>4. temp'.doc = mem[p] /\ temp' \in File
      BY <2>2, <2>3, <1>6, PutType, StampedType DEF Put, File, Write
    <2> QED BY <1>2, <1>4, <1>6, <2>1, <2>3, <2>4, NoFileAssumption DEF Write, Doc
  <1>7. CASE WriteFails(p)
    <2>1. ~Load(p) /\ pc'[p] = "failed"
      BY <1>7 DEF WriteFails, Load
    <2> QED BY <1>4, <2>1
  <1>8. CASE Restrict(p)
    <2>1. ~Load(p)
      BY <1>8 DEF Restrict, Load
    <2>2. temp \in File /\ temp.doc = mem[p]
      BY <1>2, <1>8 DEF Restrict
    <2>3. temp' = [temp EXCEPT !.mode = "owner"] /\ pc'[p] = "restricted" /\ mem' = mem /\ job' = job /\ config' = config
      BY <1>8, <2>2, NoFileAssumption DEF Restrict
    <2>4. temp' \in File /\ temp'.doc = mem[p] /\ temp'.mode = "owner"
      BY <2>2, <2>3 DEF File
    <2> QED BY <1>2, <1>4, <1>8, <2>1, <2>3, <2>4, NoFileAssumption DEF Restrict, Doc
  <1>9. CASE Rename(p) \/ Report(p) \/ Interrupt(p)
    <2>1. ~Load(p) /\ pc'[p] \in {"failed", "renamed", "ok", "idle"}
      BY <1>9 DEF Rename, Report, Interrupt, Load
    <2> QED BY <1>4, <2>1
  <1> QED BY <1>3, <1>5, <1>6, <1>7, <1>8, <1>9 DEF Step

LEMMA SaveEdit == TypeInv /\ SaveInv /\ Edit => SaveInv'
  <1> SUFFICES ASSUME TypeInv, SaveInv, Edit, ~clash'
               PROVE  OneAtATime' /\ \A q \in Procs : InHand(q)'
    BY DEF SaveInv
  <1>1. \A q \in Procs : ~Running(q) /\ pc'[q] = pc[q]
    BY DEF Edit, Busy, procVars
  <1> QED BY <1>1 DEF OneAtATime, InHand, Running, Saving

LEMMA SaveNext == TypeInv /\ SaveInv /\ [Next]_vars => SaveInv'
  <1>1. SaveInv /\ UNCHANGED vars => SaveInv'
    BY DEF SaveInv, OneAtATime, InHand, Running, Saving, Doc, vars
  <1> QED BY <1>1, SaveStep, SaveEdit DEF Next

LEMMA SaveInvariant == Spec => []SaveInv
  BY TypeInvariant, SaveInit, SaveNext, PTL DEF Spec

(***************************************************************************)
(* ConfigFile implements AtomicConfig.                                     *)
(***************************************************************************)

\* The operators on documents mean the same in both.
LEMMA SameResults == \A c, d : Abstract!Results(c, d) = Results(c, d)
  BY DEF Abstract!Results, Abstract!Readable, Abstract!Effects, Abstract!LoadOrEmpty,
         Abstract!Loads, Abstract!Paired, Abstract!Config, Abstract!Backend,
         Abstract!DefaultConfig, Abstract!UpsertBackend, Abstract!RunUnpair,
         Abstract!SetBackendEnabled, Abstract!SetDeviceEnabled,
         Results, Readable, Effects, LoadOrEmpty, Loads, Paired, Config, Backend,
         DefaultConfig, UpsertBackend, RunUnpair, SetBackendEnabled, SetDeviceEnabled

LEMMA SameDocument == Abstract!Document = Document
  BY DEF Abstract!Document, Abstract!Config, Abstract!Backend, Document, Config, Backend

\* What the refinement makes of the positions of a command.
LEMMA OutcomeOf ==
    /\ Outcome("idle") = "none"
    /\ \A l \in Saving : Outcome(l) = "running"
    /\ Outcome("renamed") = "committed"
    /\ Outcome("ok") = "ok" /\ Outcome("failed") = "failed"
  BY DEF Outcome, Saving

Outcomes == [p \in Procs |-> Outcome(pc[p])]

\* A step of one process changes the outcome of that process alone.
LEMMA OutcomeStep ==
    ASSUME TypeOK, NEW p \in Procs, NEW l, Goto(p, l)
    PROVE  Outcomes' = [Outcomes EXCEPT ![p] = Outcome(l)]
  BY DEF Outcomes, Goto, TypeOK

\* The initial states map to initial states.
LEMMA AbstractInit == Init => Abstract!Init
  <1> SUFFICES ASSUME Init PROVE Abstract!Init
    OBVIOUS
  <1>1. TypeOK
    BY TypeInit DEF TypeInv
  <1>2. Doc(config) \in Document
    BY <1>1, DocType DEF TypeOK
  <1>3. Outcomes = [p \in Procs |-> "none"]
    BY OutcomeOf DEF Init, Outcomes
  <1> QED BY <1>1, <1>2, <1>3, SameDocument DEF Init, Abstract!Init, TypeOK, Outcomes

\* Every step of a command maps to a step of that command or to a stutter, and to
\* Overlap from the first overlap on.
LEMMA AbstractStep ==
    ASSUME TypeInv, SaveInv, NEW p \in Procs, Step(p)
    PROVE  [Abstract!Next]_Abstract!vars
  <1> USE DEF Abstract!Next, Abstract!vars
  <1>1. CASE clash'
    BY <1>1 DEF Abstract!Overlap
  <1> SUFFICES ASSUME ~clash' PROVE [Abstract!Next]_Abstract!vars
    BY <1>1
  <1>2. clash' = clash /\ ~clash
    BY DEF Step, Load, Open, Write, WriteFails, Restrict, Rename, Report, Interrupt, boundVars, TypeInv, TypeOK
  <1>3. InHand(p)
    BY <1>2 DEF SaveInv
  <1>4. TypeOK
    BY DEF TypeInv
  <1>5. Outcomes[p] = Outcome(pc[p])
    BY DEF Outcomes
  <1>6. ASSUME NEW l, Goto(p, l), Outcome(l) = Outcome(pc[p]), config' = config, job' = job
        PROVE  UNCHANGED Abstract!vars
    <2>1. Outcomes' = Outcomes
      BY <1>4, <1>6, OutcomeStep DEF Outcomes
    <2> QED BY <1>2, <1>6, <2>1 DEF Outcomes, Doc
  <1>7. ASSUME NEW l, Goto(p, l), config' = config, job' = job,
               \/ Outcome(pc[p]) = "running" /\ Outcome(l) = "failed"
               \/ Outcome(pc[p]) = "committed" /\ Outcome(l) = "ok"
        PROVE  Abstract!Return(p)
    <2>1. Outcomes' = [Outcomes EXCEPT ![p] = Outcome(l)]
      BY <1>4, <1>7, OutcomeStep
    <2> QED BY <1>2, <1>5, <1>7, <2>1 DEF Abstract!Return, Outcomes, Doc
  <1>8. CASE Load(p)
    <2>1. Outcomes[p] \in {"none", "ok", "failed"}
      BY <1>4, <1>5, <1>8, OutcomeOf DEF Load, Running, TypeOK
    <2>2. PICK l \in {"loaded", "failed"} : Goto(p, l)
      BY <1>8 DEF Load
    <2>3. Outcomes' = [Outcomes EXCEPT ![p] = Outcome(l)]
      BY <1>4, <2>2, OutcomeStep
    <2>4. Outcome(l) \in {"running", "failed"}
      BY OutcomeOf DEF Saving
    <2>5. \E c \in Commands : job' = [job EXCEPT ![p] = c]
      BY <1>8 DEF Load
    <2>6. Abstract!Begin(p)
      BY <1>2, <1>8, <2>1, <2>3, <2>4, <2>5 DEF Abstract!Begin, Load, fileVars, Outcomes, Doc
    <2> QED BY <2>6
  <1>9. CASE Open(p)
    BY <1>6, <1>9, OutcomeOf DEF Open, Saving
  <1>10. CASE Write(p)
    BY <1>3, <1>6, <1>10, OutcomeOf DEF Write, Saving, InHand
  <1>11. CASE WriteFails(p)
    BY <1>7, <1>11, OutcomeOf DEF WriteFails, Saving
  <1>12. CASE Restrict(p)
    BY <1>3, <1>6, <1>12, OutcomeOf DEF Restrict, Saving, InHand
  <1>13. CASE Rename(p)
    <2>1. /\ temp # NoFile /\ temp.doc = mem[p]
          /\ mem[p] \in Results(job[p], Doc(config))
      BY <1>3, <1>13 DEF Rename, InHand, Saving
    <2>2. /\ Goto(p, "renamed") /\ config' = temp /\ job' = job
      BY <1>13, <2>1 DEF Rename
    <2>3. Doc(config)' \in Abstract!Results(job[p], Doc(config))
      BY <2>1, <2>2, SameResults DEF Doc
    <2>4. Outcomes[p] = "running" /\ Outcomes' = [Outcomes EXCEPT ![p] = "committed"]
      BY <1>4, <1>5, <1>13, <2>2, OutcomeStep, OutcomeOf DEF Rename, Saving
    <2>5. Abstract!Commit(p)
      BY <1>2, <2>2, <2>3, <2>4 DEF Abstract!Commit, Outcomes
    <2> QED BY <2>5
  <1>14. CASE Report(p)
    BY <1>7, <1>14, OutcomeOf DEF Report, fileVars
  <1>15. CASE Interrupt(p)
    <2>1. Outcomes[p] \in {"running", "committed"}
      BY <1>5, <1>15, OutcomeOf DEF Interrupt, Running
    <2>2. Outcomes' = [Outcomes EXCEPT ![p] = "none"]
      BY <1>4, <1>15, OutcomeStep, OutcomeOf DEF Interrupt
    <2>3. Abstract!Interrupt(p)
      BY <1>2, <1>15, <2>1, <2>2 DEF Abstract!Interrupt, Interrupt, fileVars, Outcomes, Doc
    <2> QED BY <2>3
  <1> QED BY <1>8, <1>9, <1>10, <1>11, <1>12, <1>13, <1>14, <1>15 DEF Step

\* An edit maps to an edit.
LEMMA AbstractEdit == TypeInv /\ Edit => [Abstract!Next]_Abstract!vars
  <1> SUFFICES ASSUME TypeInv, Edit PROVE Abstract!Next
    OBVIOUS
  <1>1. CASE clash'
    BY <1>1 DEF Abstract!Next, Abstract!Overlap
  <1>2. CASE ~clash'
    <2>1. clash' = clash
      BY <1>2 DEF Edit, TypeInv, TypeOK
    <2>2. Doc(config)' \in Edits
      <3>1. PICK d \in Edits :
              config' = [doc |-> d, blank |-> FALSE, mtime |-> clock',
                         mode |-> IF config = NoFile THEN "any" ELSE config.mode]
        BY DEF Edit
      <3>2. config' \in File
        <4>1. clock' \in Nat
          BY StampedType DEF Edit, TypeInv
        <4> QED BY <3>1, <4>1, ConfigFileAssumption DEF TypeInv, TypeOK, File
      <3> QED BY <3>1, <3>2, NoFileAssumption DEF Doc
    <2>3. Outcomes' = Outcomes /\ job' = job
      BY DEF Edit, procVars, Outcomes
    <2> QED BY <2>1, <2>2, <2>3 DEF Abstract!Next, Abstract!Edit, Outcomes
  <1> QED BY <1>1, <1>2 DEF TypeInv, TypeOK

LEMMA AbstractNext == TypeInv /\ SaveInv /\ [Next]_vars => [Abstract!Next]_Abstract!vars
  <1>1. UNCHANGED vars => UNCHANGED Abstract!vars
    BY DEF vars, Abstract!vars, Doc
  <1> QED BY <1>1, AbstractStep, AbstractEdit DEF Next

\* save_file changes the document in one step: the commands implement
\* AtomicConfig, for any number of processes and whatever is interrupted.
THEOREM SaveIsAtomic == Spec => AtomicSave
  BY TypeInvariant, SaveInvariant, AbstractInit, AbstractNext, PTL DEF Spec, AtomicSave, Abstract!Spec

(***************************************************************************)
(* The mode of the file.                                                   *)
(***************************************************************************)

LEMMA OwnerOnlyStep ==
    ASSUME TypeInv, SaveInv, [Next]_vars, config # NoFile, config.mode = "owner", ~clash'
    PROVE  config' # NoFile /\ config'.mode = "owner"
  <1> USE DEF TypeInv, TypeOK
  <1>1. config \in File
    OBVIOUS
  <1>2. ASSUME NEW p \in Procs, Load(p) \/ Open(p) \/ WriteFails(p) \/ Restrict(p) \/ Report(p) \/ Interrupt(p)
        PROVE  config' = config
    BY <1>2 DEF Load, Open, WriteFails, Restrict, Report, Interrupt, fileVars
  <1>3. ASSUME NEW p \in Procs, Write(p)
        PROVE  config' # NoFile /\ config'.mode = "owner"
    <2>1. CASE fd[p] = "config"
      <3>1. PICK d \in Overwritten(config, mem[p]) : config' = Put(config, d)
        BY <1>3, <2>1 DEF Write
      <3>2. clock' \in Nat
        BY <1>3, StampedType DEF Write
      <3>3. d \in Config \cup {Torn}
        BY DEF Overwritten
      <3> QED BY <1>1, <3>1, <3>2, <3>3, PutType, NoFileAssumption DEF Put, File
    <2>2. CASE fd[p] # "config"
      BY <1>3, <2>2 DEF Write
    <2> QED BY <2>1, <2>2
  <1>4. ASSUME NEW p \in Procs, Rename(p)
        PROVE  config' # NoFile /\ config'.mode = "owner"
    <2>1. InHand(p)
      BY <1>4 DEF SaveInv, Rename, boundVars
    <2> QED BY <1>4, <2>1 DEF Rename, InHand
  <1>5. CASE Edit
    <2>1. PICK d \in Edits :
            config' = [doc |-> d, blank |-> FALSE, mtime |-> clock',
                       mode |-> IF config = NoFile THEN "any" ELSE config.mode]
      BY <1>5 DEF Edit
    <2>2. clock' \in Nat
      BY <1>5, StampedType DEF Edit
    <2>3. config' \in File /\ config'.mode = "owner"
      BY <1>1, <2>1, <2>2, ConfigFileAssumption DEF File
    <2> QED BY <2>3, NoFileAssumption
  <1> QED BY <1>2, <1>3, <1>4, <1>5 DEF Next, Step, vars

\* A config file that only its owner may read stays so: save_file restricts
\* the temporary file before it gets the config's name.
THEOREM OwnerOnlyKeptAlways == Spec => OwnerOnlyKept
  <1>1. TypeInv /\ SaveInv /\ [Next]_vars =>
          [(config # NoFile /\ config.mode = "owner" /\ ~clash')
             => (config' # NoFile /\ config'.mode = "owner")]_vars
    BY OwnerOnlyStep
  <1> QED BY <1>1, TypeInvariant, SaveInvariant, PTL DEF Spec, OwnerOnlyKept

(***************************************************************************)
(* The policy cache of the hub.                                            *)
(*                                                                         *)
(* As long as no time stamp was used twice, the stamp of a temporary file  *)
(* that loads is that of no other content: neither of the file in place    *)
(* nor of what refresh has seen of it.  A file in place whose stamp is     *)
(* cached can therefore only be the one the policy was read from.          *)
(***************************************************************************)

\* The hub only reads: with it the commands do what they do without it.
LEMMA ReloadKeepsCommands == [ReloadNext]_allVars => [Next]_vars
  BY DEF ReloadNext, ReadStamp, Reload, allVars, vars

LEMMA ReloadRefines == ReloadSpec => Spec
  <1>1. ReloadInit => Init
    BY DEF ReloadInit
  <1> QED BY <1>1, ReloadKeepsCommands, PTL DEF ReloadSpec, Spec

\* The flags of a config are a policy.
LEMMA PolicyType ==
    ASSUME NEW cfg \in Config
    PROVE  PolicyOf(cfg) \in Policy
  BY DEF PolicyOf, Policy, Paired, Enabled, Config

LEMMA MtimeType ==
    ASSUME NEW f \in File \cup {NoFile}
    PROVE  Mtime(f) \in Nat \cup {NoStamp}
  BY NoFileAssumption DEF Mtime, File

CacheTypeOK ==
    /\ path \in BOOLEAN
    /\ cache \in [mtime : Nat \cup {NoStamp}, policy : Policy]
    /\ reading \in BOOLEAN
    /\ stamp \in Nat \cup {NoStamp}

\* A document that loads is a config.
LEMMA LoadsDoc ==
    ASSUME NEW f \in File \cup {NoFile}, Loads(Doc(f))
    PROVE  f \in File /\ f.doc \in Config /\ Doc(f) = f.doc
  BY DocumentAssumption DEF Loads, Doc

LEMMA CacheTypeInit == ReloadInit => CacheTypeOK
  <1> SUFFICES ASSUME ReloadInit PROVE CacheTypeOK
    OBVIOUS
  <1>1. config \in File \cup {NoFile}
    BY TypeInit DEF ReloadInit, TypeInv, TypeOK
  <1>2. cache.policy \in Policy
    BY <1>1, LoadsDoc, PolicyType, DefaultIsConfig DEF ReloadInit
  <1> QED BY <1>2 DEF ReloadInit, CacheTypeOK

LEMMA CacheTypeNext == TypeInv /\ CacheTypeOK /\ [ReloadNext]_allVars => CacheTypeOK'
  <1> SUFFICES ASSUME TypeInv, CacheTypeOK, [ReloadNext]_allVars PROVE CacheTypeOK'
    OBVIOUS
  <1> USE DEF TypeInv, TypeOK, CacheTypeOK
  <1>1. CASE ReadStamp
    BY <1>1, MtimeType DEF ReadStamp
  <1>2. CASE Reload
    <2>1. (IF Loads(Doc(config)) THEN PolicyOf(config.doc) ELSE cache.policy) \in Policy
      BY LoadsDoc, PolicyType
    <2> QED BY <1>2, <2>1 DEF Reload
  <1>3. CASE UNCHANGED reloadVars
    BY <1>3 DEF reloadVars
  <1> QED BY <1>1, <1>2, <1>3 DEF ReloadNext, allVars, reloadVars

LEMMA CacheTypeInvariant == ReloadSpec => [](TypeInv /\ CacheTypeOK)
  BY ReloadRefines, TypeInvariant, CacheTypeInit, CacheTypeNext, PTL DEF ReloadSpec

\* Type correctness of the commands and of the hub's policy cache.
THEOREM ReloadTypeCorrect == ReloadSpec => []ReloadTypeOK
  <1>1. TypeInv /\ CacheTypeOK => ReloadTypeOK
    BY DEF TypeInv, CacheTypeOK, ReloadTypeOK
  <1> QED BY <1>1, CacheTypeInvariant, PTL

Past(t) == t \in Nat => t <= clock

StampInv ==
    ~collided =>
      /\ Past(Mtime(config)) /\ Past(Mtime(temp)) /\ Past(cache.mtime) /\ Past(stamp)
      /\ (temp # NoFile /\ Loads(Doc(temp)))
           => temp.mtime \notin {Mtime(config), cache.mtime, stamp}
      /\ (config # NoFile /\ Loads(Doc(config)) /\ cache.mtime = config.mtime)
           => cache.policy = PolicyOf(config.doc)

LEMMA StampInit == ReloadInit => StampInv
  <1> SUFFICES ASSUME ReloadInit PROVE StampInv
    OBVIOUS
  <1>1. TypeOK
    BY TypeInit DEF ReloadInit, TypeInv
  <1>2. cache.mtime = NoStamp /\ stamp = NoStamp /\ temp = NoFile /\ clock = 0
    BY DEF ReloadInit, Init
  <1>3. Mtime(config) \in {0, NoStamp}
    BY NoFileAssumption DEF ReloadInit, Init, Mtime, File
  <1> QED BY <1>1, <1>2, <1>3, NoStampAssumption, NoFileAssumption DEF StampInv, Past, Mtime, TypeOK, File

LEMMA StampRead == TypeInv /\ CacheTypeOK /\ StampInv /\ ReadStamp => StampInv'
  <1> SUFFICES ASSUME TypeInv, CacheTypeOK, StampInv, ReadStamp, ~collided' PROVE StampInv'
    BY DEF StampInv
  <1>1. UNCHANGED <<config, temp, clock, collided, cache>> /\ stamp' = Mtime(config)
    BY DEF ReadStamp, vars
  <1> QED BY <1>1 DEF StampInv, Past, Mtime, Doc

LEMMA StampReload == TypeInv /\ CacheTypeOK /\ StampInv /\ Reload => StampInv'
  <1> SUFFICES ASSUME TypeInv, CacheTypeOK, StampInv, Reload, ~collided' PROVE StampInv'
    BY DEF StampInv
  <1>1. UNCHANGED <<config, temp, clock, collided>>
    BY DEF Reload, vars
  <1>2. cache'.mtime = stamp /\ stamp' = NoStamp
    BY DEF Reload
  <1>3. Loads(Doc(config)) => cache'.policy = PolicyOf(config.doc)
    BY DEF Reload
  <1>4. temp # NoFile => temp.mtime # NoStamp
    BY NoStampAssumption DEF TypeInv, TypeOK, File
  <1> QED BY <1>1, <1>2, <1>3, <1>4, NoStampAssumption DEF StampInv, Past, Mtime, Doc

\* Without a collision a change of content gets a stamp above all others.
LEMMA FreshStamp ==
    ASSUME TypeInv, StampInv, NEW tick \in 0..1, Stamped(tick), ~collided'
    PROVE  ~collided /\ clock \in Nat /\ clock' = clock + 1
  <1>1. collided' = (collided \/ tick = 0)
    BY DEF Stamped
  <1>2. ~collided /\ tick # 0
    BY <1>1, Zenon
  <1>3. tick = 1
    BY <1>2
  <1> QED BY <1>2, <1>3 DEF Stamped, TypeInv, TypeOK

\* A file that is new or rewritten differs in its stamp from all that refresh
\* has seen.
LEMMA FreshTemp ==
    ASSUME TypeInv, CacheTypeOK, StampInv, ~collided, clock' = clock + 1,
           temp' \in File, temp'.mtime = clock', config' = config, UNCHANGED reloadVars
    PROVE  StampInv'
  <1> USE DEF TypeInv, TypeOK, CacheTypeOK, reloadVars
  <1>1. Mtime(temp)' = clock + 1 /\ Mtime(config)' = Mtime(config)
    BY NoFileAssumption DEF Mtime
  <1>2. Mtime(config) \in Nat \cup {NoStamp}
    BY MtimeType
  <1>3. temp'.mtime \notin {Mtime(config), cache.mtime, stamp}
    BY <1>2, NoStampAssumption DEF StampInv, Past
  <1> QED BY <1>1, <1>2, <1>3 DEF StampInv, Past, Doc

LEMMA FreshConfig ==
    ASSUME TypeInv, CacheTypeOK, StampInv, ~collided, clock' = clock + 1,
           config' \in File, config'.mtime = clock', temp' = temp, UNCHANGED reloadVars
    PROVE  StampInv'
  <1> USE DEF TypeInv, TypeOK, CacheTypeOK, reloadVars
  <1>1. Mtime(config)' = clock + 1 /\ Mtime(temp)' = Mtime(temp)
    BY NoFileAssumption DEF Mtime
  <1>2. Mtime(temp) \in Nat \cup {NoStamp}
    BY MtimeType
  <1>3. cache.mtime # clock + 1
    BY NoStampAssumption DEF StampInv, Past
  <1>4. ASSUME temp # NoFile PROVE temp.mtime = Mtime(temp) /\ temp.mtime \in Nat /\ temp.mtime <= clock
    BY <1>4 DEF Mtime, File, StampInv, Past
  <1>5. Past(Mtime(config))' /\ Past(Mtime(temp))' /\ Past(cache.mtime)' /\ Past(stamp)'
    BY <1>1, <1>2 DEF StampInv, Past
  <1>6. config'.mtime # cache'.mtime
    BY <1>3
  <1>7. (temp' # NoFile /\ Loads(Doc(temp)')) => temp'.mtime \notin {Mtime(config)', cache'.mtime, stamp'}
    BY <1>1, <1>4 DEF StampInv, Doc
  <1> QED BY <1>5, <1>6, <1>7 DEF StampInv, Doc

LEMMA StampSteps ==
    ASSUME TypeInv, TypeInv', CacheTypeOK, StampInv, NEW p \in Procs, Step(p), UNCHANGED reloadVars
    PROVE  StampInv'
  <1> SUFFICES ASSUME ~collided' PROVE StampInv'
    BY DEF StampInv
  <1> USE DEF TypeInv, TypeOK, fileVars
  <1>1. CASE Load(p) \/ Report(p) \/ Interrupt(p)
    BY <1>1 DEF Load, Report, Interrupt, StampInv, Past, Mtime, Doc, reloadVars
  <1>2. CASE Open(p)
    <2>1. ~collided /\ clock' = clock + 1
      BY <1>2, FreshStamp DEF Open
    <2>2. temp' \in File /\ temp'.mtime = clock'
      BY <1>2, <2>1, DefaultIsConfig DEF Open, File
    <2> QED BY <1>2, <2>1, <2>2, FreshTemp DEF Open
  <1>3. CASE Write(p)
    <2>1. ~collided /\ clock' = clock + 1 /\ clock' \in Nat
      BY <1>3, FreshStamp DEF Write
    <2>2. ASSUME NEW f \in File, NEW d \in Overwritten(f, mem[p])
          PROVE  Put(f, d) \in File /\ Put(f, d).mtime = clock'
      BY <2>1, PutType DEF Overwritten, Put, File
    <2>3. CASE fd[p] = "temp"
      <3>1. temp \in File
        BY <2>3 DEF OpenFiles
      <3>2. temp' \in File /\ temp'.mtime = clock' /\ config' = config
        BY <1>3, <2>2, <2>3, <3>1 DEF Write
      <3> QED BY <2>1, <3>2, FreshTemp
    <2>4. CASE fd[p] = "config"
      <3>1. config \in File
        BY <2>4 DEF OpenFiles
      <3>2. config' \in File /\ config'.mtime = clock' /\ temp' = temp
        BY <1>3, <2>2, <2>4, <3>1 DEF Write
      <3> QED BY <2>1, <3>2, FreshConfig
    <2>5. CASE fd[p] = "lost"
      <3>1. config' = config /\ temp' = temp
        BY <1>3, <2>5 DEF Write
      <3> QED BY <2>1, <3>1 DEF StampInv, Past, Mtime, Doc, reloadVars
    <2> QED BY <1>3, <2>3, <2>4, <2>5 DEF Write
  <1>4. CASE WriteFails(p)
    <2>1. temp \in File
      BY <1>4 DEF WriteFails, OpenFiles
    <2>2. temp' = Put(temp, Torn) /\ UNCHANGED <<config, clock, collided>>
      BY <1>4 DEF WriteFails
    <2>3. temp' \in File /\ temp'.doc = Torn /\ temp'.mtime = clock
      BY <2>1, <2>2, PutType DEF Put, File
    <2>4. ~Loads(Doc(temp)') /\ Mtime(temp)' = clock
      BY <2>3, NoFileAssumption, DocumentAssumption DEF Doc, Loads, Mtime
    <2> QED BY <2>2, <2>4 DEF StampInv, Past, Mtime, Doc, reloadVars
  <1>5. CASE Restrict(p)
    <2>1. UNCHANGED <<config, clock, collided>>
      BY <1>5 DEF Restrict
    <2>2. CASE temp = NoFile
      BY <1>5, <2>1, <2>2 DEF Restrict, StampInv, Past, Mtime, Doc, reloadVars
    <2>3. CASE temp # NoFile
      <3>1. temp' \in File /\ temp'.doc = temp.doc /\ temp'.mtime = temp.mtime
        BY <1>5, <2>3 DEF Restrict, File
      <3>2. Doc(temp)' = Doc(temp) /\ Mtime(temp)' = Mtime(temp)
        BY <2>3, <3>1, NoFileAssumption DEF Doc, Mtime
      <3> QED BY <2>1, <2>3, <3>1, <3>2 DEF StampInv, Past, Mtime, Doc, reloadVars
    <2> QED BY <2>2, <2>3
  <1>6. CASE Rename(p)
    <2>1. UNCHANGED <<clock, collided>>
      BY <1>6 DEF Rename
    <2>2. CASE temp = NoFile
      BY <1>6, <2>1, <2>2 DEF Rename, StampInv, Past, Mtime, Doc, reloadVars
    <2>3. CASE temp # NoFile
      <3>1. config' = temp /\ temp' = NoFile
        BY <1>6, <2>3 DEF Rename
      <3>2. Mtime(temp)' = NoStamp
        BY <3>1 DEF Mtime
      <3> QED BY <2>1, <2>3, <3>1, <3>2, NoStampAssumption DEF StampInv, Past, Mtime, Doc, reloadVars
    <2> QED BY <2>2, <2>3
  <1> QED BY <1>1, <1>2, <1>3, <1>4, <1>5, <1>6 DEF Step

LEMMA StampEdit ==
    ASSUME TypeInv, CacheTypeOK, StampInv, Edit, UNCHANGED reloadVars
    PROVE  StampInv'
  <1> SUFFICES ASSUME ~collided' PROVE StampInv'
    BY DEF StampInv
  <1>1. ~collided /\ clock' = clock + 1 /\ clock' \in Nat
    BY FreshStamp DEF Edit
  <1>2. config' \in File /\ config'.mtime = clock' /\ temp' = temp
    BY <1>1, ConfigFileAssumption DEF Edit, TypeInv, TypeOK, File
  <1> QED BY <1>1, <1>2, FreshConfig

LEMMA StampNext == TypeInv /\ TypeInv' /\ CacheTypeOK /\ StampInv /\ [ReloadNext]_allVars => StampInv'
  <1> SUFFICES ASSUME TypeInv, TypeInv', CacheTypeOK, StampInv, [ReloadNext]_allVars PROVE StampInv'
    OBVIOUS
  <1>1. CASE UNCHANGED allVars
    BY <1>1 DEF allVars, StampInv, Past, Mtime, Doc
  <1>2. CASE Next /\ UNCHANGED reloadVars
    BY <1>2, StampSteps, StampEdit DEF Next
  <1> QED BY <1>1, <1>2, StampRead, StampReload DEF ReloadNext

\* A policy that refresh takes for current is the one in the file, whatever
\* commands and edits did between the two reads of a refresh, as long as no time stamp
\* was used twice.
THEOREM CachedIsCurrentAlways == ReloadSpec => []CachedIsCurrent
  <1>1. StampInv => CachedIsCurrent
    BY DEF StampInv, CachedIsCurrent
  <1>2. ReloadSpec => []StampInv
    BY CacheTypeInvariant, StampInit, StampNext, PTL DEF ReloadSpec
  <1> QED BY <1>1, <1>2, PTL

\* The commands stay atomic, and the file private, beside a hub that reads.
THEOREM ReloadSavesAtomically == ReloadSpec => AtomicSave /\ OwnerOnlyKept
  BY ReloadRefines, SaveIsAtomic, OwnerOnlyKeptAlways, PTL

(***************************************************************************)
(* Type correctness of the agent that reads the document (AgentPoller).    *)
(***************************************************************************)

\* What the agent takes for its config is one.
LEMMA SourceType ==
    ASSUME inline \in Loaded \cup {NoConfig}
    PROVE  Source \in Loaded
  <1>1. Loads(document) => document \in Config
    BY DEF Loads
  <1> QED BY <1>1, DefaultIsConfig DEF Source, FromFile, BuiltIn, Loaded

\* The enabled backends have names and addresses.
LEMMA RouteType ==
    ASSUME NEW cfg \in Config
    PROVE  EnabledBackends(cfg) \subseteq Route
  <1> SUFFICES ASSUME NEW n \in Enabled(cfg)
               PROVE  [name |-> n, addr |-> cfg.backends[n].addr] \in Route
    BY DEF EnabledBackends
  <1>1. n \in Names /\ cfg.backends[n] \in Backend
    BY PairedBackend DEF Enabled
  <1> QED BY <1>1 DEF Backend, Route

\* So is the policy the agent reads.
LEMMA CurrentPolicyType ==
    ASSUME hub \in Loaded
    PROVE  CurrentPolicy.disabled \in SUBSET Devices
  <1> DEFINE cfg == IF hub.path /\ Loads(document) THEN document ELSE hub.cfg
  <1>1. cfg \in Config
    BY DEF Loaded, Loads
  <1>2. CurrentPolicy = PolicyOf(cfg)
    BY DEF CurrentPolicy
  <1> HIDE DEF cfg
  <1> QED BY <1>1, <1>2 DEF PolicyOf, Config

LEMMA AgentTypeInit == AgentInit => AgentTypeOK
  <1> SUFFICES ASSUME AgentInit PROVE AgentTypeOK
    OBVIOUS
  <1>1. BuiltIn \in Loaded
    BY DefaultIsConfig DEF BuiltIn, Loaded
  <1>2. Loads(document) => FromFile(document) \in Loaded
    BY DEF Loads, FromFile, Loaded
  <1>3. document \in Document
    BY AgentAssumption DEF AgentInit, Document
  <1>4. inline \in Loaded \cup {NoConfig}
    BY <1>1, <1>2 DEF AgentInit
  <1>5. changes \in 0 .. MaxChanges /\ flaps \in 0 .. MaxFlaps
    BY AgentAssumption DEF AgentInit
  <1> QED BY <1>1, <1>3, <1>4, <1>5 DEF AgentInit, AgentTypeOK

LEMMA AgentTypeNext == AgentTypeOK /\ [AgentNext]_agentVars => AgentTypeOK'
  <1> SUFFICES ASSUME AgentTypeOK, [AgentNext]_agentVars PROVE AgentTypeOK'
    OBVIOUS
  <1> USE DEF AgentTypeOK
  <1>1. CASE RunCommand
    <2>1. PICK c \in Commands : document' \in Results(c, document)
      BY <1>1 DEF RunCommand
    <2>2. document' \in Document
      BY <2>1, ResultsType, AgentAssumption DEF Document
    <2>3. changes' \in 0 .. MaxChanges
      BY <1>1, AgentAssumption DEF RunCommand
    <2> QED BY <1>1, <2>2, <2>3 DEF RunCommand
  <1>2. CASE EditDocument
    <2>1. document' \in Document
      BY <1>2, AgentAssumption DEF EditDocument, Document
    <2>2. changes' \in 0 .. MaxChanges
      BY <1>2, AgentAssumption DEF EditDocument
    <2> QED BY <1>2, <2>1, <2>2 DEF EditDocument
  <1>3. CASE Flap
    <2>1. flaps' \in 0 .. MaxFlaps
      BY <1>3, AgentAssumption DEF Flap
    <2>2. up' \subseteq Addrs
      BY <1>3 DEF Flap
    <2> QED BY <1>3, <2>1, <2>2 DEF Flap
  <1>4. CASE LoadConfig
    BY <1>4, SourceType DEF LoadConfig
  <1>5. CASE LoadFails
    BY <1>5 DEF LoadFails
  <1>6. CASE Gate
    <2>1. Fingerprint(hub.cfg) \subseteq Route
      BY RouteType DEF Fingerprint, Loaded
    <2>2. {r.name : r \in {r \in EnabledBackends(hub.cfg) : Passes(r)}} \subseteq Names
      BY <2>1 DEF Fingerprint, Route
    <2>3. compat' \in [fp : SUBSET Route, names : SUBSET Names]
      BY <1>6, <2>1, <2>2 DEF Gate
    <2> QED BY <1>6, <2>3 DEF Gate
  <1>7. CASE SwapRoutes
    <2>1. routes' \subseteq Route
      BY <1>7, RouteType DEF SwapRoutes, Loaded
    <2>2. [hub.cfg EXCEPT !.disabled = CurrentPolicy.disabled] \in Config
      BY CurrentPolicyType DEF Loaded, Config
    <2>3. hub' \in Loaded
      BY <1>7, <2>2 DEF SwapRoutes, Loaded
    <2> QED BY <1>7, <2>1, <2>3 DEF SwapRoutes
  <1>8. CASE SendSnapshot
    <2>1. published' \in [routes : SUBSET Route, disabled : SUBSET Devices]
      BY <1>8 DEF SendSnapshot, Loaded, Config
    <2> QED BY <1>8, <2>1 DEF SendSnapshot
  <1>9. CASE UNCHANGED agentVars
    BY <1>9 DEF agentVars
  <1> QED BY <1>1, <1>2, <1>3, <1>4, <1>5, <1>6, <1>7, <1>8, <1>9 DEF AgentNext, Round

\* Whatever the file holds, the agent works with configs, routes to addresses and policies
\* about devices (refresh_and_publish with its three sources of the config).
THEOREM AgentTypeCorrect == AgentSpec => []AgentTypeOK
  BY AgentTypeInit, AgentTypeNext, PTL DEF AgentSpec

(***************************************************************************)
(* The cache of the version gate holds the names that passed, and not the  *)
(* addresses that were asked.  It is safe to use because it is used only   *)
(* when the fingerprint is that of the round's backends, where a name has  *)
(* one address, which is the one that was asked.                           *)
(***************************************************************************)

\* A fingerprint has one address for a name.
OneAddress(fp) == \A r, s \in fp : r.name = s.name => r = s

\* Every name in the cache passed the gate with its address in the fingerprint.
VerdictsKept ==
    \A n \in compat.names : \E r \in compat.fp : r.name = n /\ r.addr \notin Old

\* Between the gate and the route table the cache is that of the round.
CacheIsOfRound == pos = "gated" => compat.fp = Fingerprint(hub.cfg)

GateInv == OneAddress(compat.fp) /\ VerdictsKept /\ CacheIsOfRound /\ OldProxySkipped

\* The backends of a config have one address each.
LEMMA FingerprintOneAddress == \A cfg : OneAddress(Fingerprint(cfg))
  BY DEF OneAddress, Fingerprint, EnabledBackends

LEMMA GateInit == AgentInit => GateInv
  BY DEF AgentInit, GateInv, OneAddress, VerdictsKept, CacheIsOfRound, OldProxySkipped

\* The verdicts are taken together with the fingerprint they are for.
LEMMA GateStep == GateInv /\ Gate => GateInv'
  <1> SUFFICES ASSUME GateInv, Gate PROVE GateInv'
    OBVIOUS
  <1>1. CASE compat.fp = Fingerprint(hub.cfg)
    BY <1>1 DEF Gate, GateInv, OneAddress, VerdictsKept, CacheIsOfRound, OldProxySkipped
  <1>2. CASE compat.fp # Fingerprint(hub.cfg)
    <2>1. /\ compat'.fp = Fingerprint(hub.cfg)
          /\ compat'.names = {r.name : r \in {r \in EnabledBackends(hub.cfg) : Passes(r)}}
      BY <1>2 DEF Gate
    <2>2. VerdictsKept'
      BY <2>1 DEF VerdictsKept, Fingerprint, Passes
    <2>3. OneAddress(compat'.fp)
      BY <2>1, FingerprintOneAddress
    <2> QED BY <1>2, <2>1, <2>2, <2>3 DEF Gate, GateInv, CacheIsOfRound, OldProxySkipped, OneAddress
  <1> QED BY <1>1, <1>2

\* The route table takes a backend only with the verdict on its own address.
LEMMA SwapStep == GateInv /\ SwapRoutes => GateInv'
  <1> SUFFICES ASSUME GateInv, SwapRoutes PROVE GateInv'
    OBVIOUS
  <1>1. ASSUME NEW r \in routes' PROVE r.addr \notin Old
    <2>1. r \in compat.fp /\ r.name \in compat.names
      BY <1>1 DEF SwapRoutes, Listed, GateInv, CacheIsOfRound, Fingerprint
    <2>2. PICK s \in compat.fp : s.name = r.name /\ s.addr \notin Old
      BY <2>1 DEF GateInv, VerdictsKept
    <2>3. s = r
      BY <2>1, <2>2 DEF GateInv, OneAddress
    <2> QED BY <2>2, <2>3
  <1>2. compat' = compat /\ published' = published /\ pos' = "routed"
    BY DEF SwapRoutes
  <1> QED BY <1>1, <1>2 DEF GateInv, OneAddress, VerdictsKept, CacheIsOfRound, OldProxySkipped

\* The snapshot carries the route table.
LEMMA SendStep == GateInv /\ SendSnapshot => GateInv'
  <1> SUFFICES ASSUME GateInv, SendSnapshot PROVE GateInv'
    OBVIOUS
  <1>1. published'.routes = routes /\ routes' = routes /\ compat' = compat /\ pos' = "idle"
    BY DEF SendSnapshot
  <1> QED BY <1>1 DEF GateInv, OneAddress, VerdictsKept, CacheIsOfRound, OldProxySkipped

LEMMA GateNext == GateInv /\ [AgentNext]_agentVars => GateInv'
  <1> SUFFICES ASSUME GateInv, [AgentNext]_agentVars PROVE GateInv'
    OBVIOUS
  <1>1. CASE RunCommand \/ EditDocument \/ Flap \/ LoadConfig \/ LoadFails \/ UNCHANGED agentVars
    <2>1. UNCHANGED <<compat, routes, published>> /\ ((pos' = pos /\ hub' = hub) \/ pos' # "gated")
      BY <1>1 DEF RunCommand, EditDocument, Flap, LoadConfig, LoadFails, agentVars
    <2> QED BY <2>1 DEF GateInv, OneAddress, VerdictsKept, CacheIsOfRound, OldProxySkipped
  <1> QED BY <1>1, GateStep, SwapStep, SendStep DEF AgentNext, Round

\* No route, in the agent's table or in what it has published, leads to a proxy below the
\* required version, however the config changes between and within rounds.
THEOREM OldProxySkippedAlways == AgentSpec => []OldProxySkipped
  <1>1. GateInv => OldProxySkipped
    BY DEF GateInv
  <1> QED BY <1>1, GateInit, GateNext, PTL DEF AgentSpec
===============================================================================
