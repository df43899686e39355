---------------------------- MODULE AtomicConfig ----------------------------
(***************************************************************************)
(* What a user may expect of the config commands: a command that succeeds  *)
(* has changed the document once and in one step, to what the command      *)
(* makes of the document as it was at that moment; a command that fails    *)
(* has changed nothing; one that is interrupted has done one or the other. *)
(* All this holds until two commands, or a command and an edit, overlap:   *)
(* nothing is promised from then on.                                       *)
(***************************************************************************)
EXTENDS HubConfig

CONSTANT Procs

VARIABLES
    document,   \* the config document
    job,        \* job[p]: the command p runs or ran last
    outcome,    \* outcome[p]: none, running, committed, ok or failed
    clash       \* two of them have overlapped

vars == <<document, job, outcome, clash>>

Init ==
    /\ document \in Document
    /\ job \in [Procs -> Commands]
    /\ outcome = [p \in Procs |-> "none"]
    /\ clash = FALSE

Begin(p) ==
    /\ outcome[p] \in {"none", "ok", "failed"}
    /\ \E c \in Commands : job' = [job EXCEPT ![p] = c]
    /\ \E o \in {"running", "failed"} : outcome' = [outcome EXCEPT ![p] = o]
    /\ UNCHANGED <<document, clash>>

Commit(p) ==
    /\ outcome[p] = "running"
    /\ document' \in Results(job[p], document)
    /\ outcome' = [outcome EXCEPT ![p] = "committed"]
    /\ UNCHANGED <<job, clash>>

Return(p) ==
    /\ \/ outcome[p] = "committed" /\ outcome' = [outcome EXCEPT ![p] = "ok"]
       \/ outcome[p] = "running" /\ outcome' = [outcome EXCEPT ![p] = "failed"]
    /\ UNCHANGED <<document, job, clash>>

Interrupt(p) ==
    /\ outcome[p] \in {"running", "committed"}
    /\ outcome' = [outcome EXCEPT ![p] = "none"]
    /\ UNCHANGED <<document, job, clash>>

\* The user writes the document with an editor.
Edit ==
    /\ document' \in Edits
    /\ UNCHANGED <<job, outcome, clash>>

\* After an overlap anything may happen to the document and the outcomes.
Overlap == clash' = TRUE

Next ==
    \/ \E p \in Procs : Begin(p) \/ Commit(p) \/ Return(p) \/ Interrupt(p)
    \/ Edit
    \/ Overlap

Spec == Init /\ [][Next]_vars
=============================================================================
