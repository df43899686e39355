----------------------------- MODULE ConfigFile -----------------------------
(***************************************************************************)
(* The config commands over a file system: load the file, change the       *)
(* document, write a temporary file, restrict its mode, rename it          *)
(* (HubConfig::save_file in src/config.rs, the commands in                 *)
(* src/bin/adb-hub.rs).                                                    *)
(*                                                                         *)
(* Each command is a process of its own, a step is one system call, and a  *)
(* process may be interrupted between any two.  All processes use one name *)
(* for the temporary file.  An open file follows its content and not its   *)
(* name: fd[p] says where the file that p has open is found now.           *)
(***************************************************************************)
EXTENDS HubConfig, Naturals

CONSTANTS
    Procs,      \* processes that run commands
    NoFile,     \* there is no file of that name
    MaxRuns,    \* bound on the commands that are started
    MaxEdits    \* bound on the edits

ASSUME ConfigFileAssumption ==
    /\ Commands # {} /\ Commands \subseteq Command
    /\ Edits \subseteq Config \cup {Torn}
    /\ MaxRuns \in Nat /\ MaxEdits \in Nat

VARIABLES
    config,     \* config.toml: a file or NoFile
    temp,       \* config.toml.tmp
    pc,         \* pc[p]: position of p in its command
    job,        \* job[p]: its command
    mem,        \* mem[p]: the document it is going to write
    fd,         \* fd[p]: where its open file is: none, temp, config, lost
    clock,      \* the time stamp the file system gives now
    collided,   \* history: some content was written under the stamp of another
    clash,      \* history: a command or an edit began while a command ran
    runs,       \* number of commands started
    edits       \* number of edits

fileVars == <<config, temp, clock, collided>>
procVars == <<pc, job, mem, fd, runs>>
boundVars == <<clash, runs, edits>>
vars == <<config, temp, pc, job, mem, fd, clock, collided, clash, runs, edits>>

\* blank: truncated, nothing written yet.
File == [doc : Config \cup {Torn}, blank : BOOLEAN, mtime : Nat,
         mode : {"any", "owner"}]

ASSUME NoFileAssumption == NoFile \notin File

Doc(f) == IF f = NoFile THEN Absent ELSE f.doc

Saving == {"loaded", "opened", "written", "restricted"}

Running(p) == pc[p] \in Saving \cup {"renamed"}

Busy == \E p \in Procs : Running(p)

----------------------------------------------------------------------------
Init ==
    /\ config \in {NoFile} \cup
                  {[doc |-> d, blank |-> FALSE, mtime |-> 0, mode |-> "owner"]
                     : d \in Edits}
    /\ temp = NoFile
    /\ pc = [p \in Procs |-> "idle"]
    /\ job = [p \in Procs |-> CHOOSE c \in Commands : TRUE]
    /\ mem = [p \in Procs |-> DefaultConfig]
    /\ fd = [p \in Procs |-> "none"]
    /\ clock = 0
    /\ collided = FALSE
    /\ clash = FALSE
    /\ runs = 0
    /\ edits = 0

Goto(p, l) == pc' = [pc EXCEPT ![p] = l]

\* A change of content gets the time stamp of the clock, whose granularity
\* may make it the stamp of an earlier one.  Bound: this happens once.
Stamped(tick) ==
    /\ tick = 0 => ~collided
    /\ clock' = clock + tick
    /\ collided' = (collided \/ tick = 0)

\* A command loads the document and changes it in memory.  `pair` may be
\* refused by the proxy before it loads; a document that does not load and
\* a name that is not found are errors too.
Load(p) ==
    /\ ~Running(p)
    /\ runs < MaxRuns
    /\ clash' = (clash \/ Busy)
    /\ runs' = runs + 1
    /\ \E c \in Commands :
         /\ job' = [job EXCEPT ![p] = c]
         /\ \/ /\ \E d \in Results(c, Doc(config)) :
                    mem' = [mem EXCEPT ![p] = d]
               /\ Goto(p, "loaded")
            \/ /\ c.op = "pair" \/ Results(c, Doc(config)) = {}
               /\ Goto(p, "failed")
               /\ UNCHANGED mem
    /\ UNCHANGED <<fd, edits>> /\ UNCHANGED fileVars

\* Mutant: the config file itself is opened.
OpenInPlace(p) ==
    /\ pc[p] = "loaded"
    /\ \E tick \in 0..1 : Stamped(tick)
    /\ temp' = [doc |-> DefaultConfig, blank |-> TRUE, mtime |-> clock', mode |-> "any"]
    /\ config' = [doc |-> DefaultConfig, blank |-> TRUE, mtime |-> clock', mode |-> "any"]
    /\ fd' = [fd EXCEPT ![p] = "config"]
    /\ Goto(p, "opened")
    /\ UNCHANGED <<job, mem>> /\ UNCHANGED boundVars

\* fs::write creates or truncates the temporary file...
Open(p) ==
    /\ pc[p] = "loaded"
    /\ \E tick \in 0..1 : Stamped(tick)
    /\ temp' = [doc |-> DefaultConfig, blank |-> TRUE, mtime |-> clock',
                mode |-> IF temp = NoFile THEN "any" ELSE temp.mode]
    /\ fd' = [fd EXCEPT ![p] = "temp"]
    /\ Goto(p, "opened")
    /\ UNCHANGED <<config, job, mem>> /\ UNCHANGED boundVars

\* Text written from the start over a file that another process has filled
\* meanwhile leaves the rest of a longer text in place.
Overwritten(f, d) == IF f.blank \/ f.doc = d THEN {d} ELSE {d, Torn}

Put(f, d) == [f EXCEPT !.doc = d, !.blank = FALSE, !.mtime = clock']

\* ...and writes the text into the file it has opened, whatever its name is
\* by now.
Write(p) ==
    /\ pc[p] = "opened"
    /\ \E tick \in 0..1 : Stamped(tick)
    /\ \/ /\ fd[p] = "temp"
          /\ \E d \in Overwritten(temp, mem[p]) : temp' = Put(temp, d)
          /\ UNCHANGED config
       \/ /\ fd[p] = "config"
          /\ \E d \in Overwritten(config, mem[p]) : config' = Put(config, d)
          /\ UNCHANGED temp
       \/ fd[p] = "lost" /\ UNCHANGED <<config, temp>>
    /\ fd' = [fd EXCEPT ![p] = "none"]
    /\ Goto(p, "written")
    /\ UNCHANGED <<job, mem>> /\ UNCHANGED boundVars

\* The disk is full: part of the text is there and the command fails.
WriteFails(p) ==
    /\ pc[p] = "opened"
    /\ fd[p] = "temp"
    /\ clock' = clock
    /\ temp' = Put(temp, Torn)
    /\ fd' = [fd EXCEPT ![p] = "none"]
    /\ Goto(p, "failed")
    /\ UNCHANGED <<config, collided, job, mem>> /\ UNCHANGED boundVars

\* Mutant: the mode is left as it is.
RestrictNothing(p) ==
    /\ pc[p] = "written"
    /\ Goto(p, IF temp = NoFile THEN "failed" ELSE "restricted")
    /\ UNCHANGED <<config, temp, clock, collided, job, mem, fd>>
    /\ UNCHANGED boundVars

\* Mode 0600 is set by name, so the command fails when the name is gone.
Restrict(p) ==
    /\ pc[p] = "written"
    /\ IF temp = NoFile
       THEN Goto(p, "failed") /\ UNCHANGED temp
       ELSE Goto(p, "restricted") /\ temp' = [temp EXCEPT !.mode = "owner"]
    /\ UNCHANGED <<config, clock, collided, job, mem, fd>>
    /\ UNCHANGED boundVars

\* Where open files are found after config.toml.tmp has become config.toml.
Renamed(where) ==
    CASE where = "temp"   -> "config"
      [] where = "config" -> "lost"
      [] OTHER            -> where

Rename(p) ==
    /\ pc[p] = "restricted"
    /\ IF temp = NoFile
       THEN Goto(p, "failed") /\ UNCHANGED <<config, temp, fd>>
       ELSE /\ config' = temp
            /\ temp' = NoFile
            /\ fd' = [q \in Procs |-> Renamed(fd[q])]
            /\ Goto(p, "renamed")
    /\ UNCHANGED <<clock, collided, job, mem>> /\ UNCHANGED boundVars

\* The command prints its result and exits.
Report(p) ==
    /\ pc[p] = "renamed"
    /\ Goto(p, "ok")
    /\ UNCHANGED <<job, mem, fd>> /\ UNCHANGED boundVars /\ UNCHANGED fileVars

\* The command is interrupted.
Interrupt(p) ==
    /\ Running(p)
    /\ Goto(p, "idle")
    /\ fd' = [fd EXCEPT ![p] = "none"]
    /\ UNCHANGED <<job, mem>> /\ UNCHANGED boundVars /\ UNCHANGED fileVars

\* The user saves the file with an editor.
Edit ==
    /\ edits < MaxEdits
    /\ edits' = edits + 1
    /\ clash' = (clash \/ Busy)
    /\ \E tick \in 0..1 : Stamped(tick)
    /\ \E d \in Edits :
         config' = [doc |-> d, blank |-> FALSE, mtime |-> clock',
                    mode |-> IF config = NoFile THEN "any" ELSE config.mode]
    /\ UNCHANGED temp /\ UNCHANGED procVars

Step(p) ==
    \/ Load(p) \/ Open(p) \/ Write(p) \/ WriteFails(p)
    \/ Restrict(p) \/ Rename(p) \/ Report(p) \/ Interrupt(p)

Next == (\E p \in Procs : Step(p)) \/ Edit

Spec == Init /\ [][Next]_vars

----------------------------------------------------------------------------
(* Properties. *)

\* Every variable has its type.
TypeOK ==
    /\ config \in File \cup {NoFile}
    /\ temp \in File \cup {NoFile}
    /\ pc \in [Procs -> Saving \cup {"idle", "renamed", "ok", "failed"}]
    /\ job \in [Procs -> Commands]
    /\ mem \in [Procs -> Config]
    /\ fd \in [Procs -> {"none", "temp", "config", "lost"}]
    /\ clock \in Nat
    /\ collided \in BOOLEAN
    /\ clash \in BOOLEAN
    /\ runs \in 0..MaxRuns
    /\ edits \in 0..MaxEdits

Outcome(l) ==
    CASE l = "idle"    -> "none"
      [] l \in Saving  -> "running"
      [] l = "renamed" -> "committed"
      [] OTHER         -> l

Abstract == INSTANCE AtomicConfig WITH
    document <- Doc(config),
    outcome  <- [p \in Procs |-> Outcome(pc[p])]

\* save_file writes the document in one step (comment at src/config.rs:228):
\* every behaviour of the commands, interrupted ones included, is one of
\* AtomicConfig.  A success has changed the document once, a failure never,
\* as long as no two of them run at the same time.
AtomicSave == Abstract!Spec

\* A config file that is restricted to its owner stays so, whatever is
\* interrupted and whatever an interrupted command has left behind:
\* save_file sets the mode before the rename makes the file visible.  (Of
\* two overlapping commands one can rename what the other has just created.)
OwnerOnlyKept ==
    [][(config # NoFile /\ config.mode = "owner" /\ ~clash')
         => (config' # NoFile /\ config'.mode = "owner")]_vars
=============================================================================
