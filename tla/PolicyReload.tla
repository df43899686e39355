---------------------------- MODULE PolicyReload ----------------------------
(***************************************************************************)
(* The hub's enable policy, reloaded from the config file when its time    *)
(* stamp has changed (ReloadableHubPolicy in src/config.rs), together with *)
(* the commands that write the file (ConfigFile).                          *)
(*                                                                         *)
(* refresh reads the time stamp and then the file: two system calls, with  *)
(* any step of a command in between.  Its own mutex keeps two refreshes    *)
(* apart.  from_config does the same reads in the same order and falls     *)
(* back to the policy of the config the hub has loaded, so it is a refresh *)
(* that starts without a time stamp.                                       *)
(*                                                                         *)
(* Only a hub that has loaded the file knows its path.  One that found no  *)
(* file or a broken one, or was given its backends on the command line,    *)
(* keeps the policy it started with for as long as it runs.                *)
(***************************************************************************)
EXTENDS ConfigFile

CONSTANT NoStamp    \* metadata() failed: there is no file

ASSUME NoStampAssumption == NoStamp \notin Nat

VARIABLES
    path,       \* the hub was started from the file and has its path
    cache,      \* the cached policy and the time stamp it was read under
    reading,    \* refresh is between reading the stamp and the file
    stamp       \* the stamp it has read

reloadVars == <<path, cache, reading, stamp>>
allVars == <<config, temp, pc, job, mem, fd, clock, collided, clash, runs,
             edits, path, cache, reading, stamp>>

Mtime(f) == IF f = NoFile THEN NoStamp ELSE f.mtime

\* build_config has loaded the file, or has left the path out and disabled
\* nothing.
ReloadInit ==
    /\ Init
    /\ path \in BOOLEAN
    /\ path => Loads(Doc(config))
    /\ cache = [mtime  |-> NoStamp,
                policy |-> PolicyOf(IF path THEN config.doc ELSE DefaultConfig)]
    /\ reading = FALSE
    /\ stamp = NoStamp

\* Mutant: the stamp is remembered before the file is read.
ReadStampCachesIt ==
    /\ path /\ ~reading
    /\ Mtime(config) # cache.mtime
    /\ stamp' = Mtime(config)
    /\ cache' = [cache EXCEPT !.mtime = Mtime(config)]
    /\ reading' = TRUE
    /\ UNCHANGED path /\ UNCHANGED vars

\* Mutant: a file that has been read once is not looked at again.
ReadStampOnce ==
    /\ path /\ ~reading
    /\ cache.mtime = NoStamp
    /\ Mtime(config) # cache.mtime
    /\ stamp' = Mtime(config)
    /\ reading' = TRUE
    /\ UNCHANGED <<path, cache>> /\ UNCHANGED vars

\* refresh returns the static policy when it has no path; otherwise it reads
\* the time stamp and goes on only if it differs.
ReadStamp ==
    /\ path /\ ~reading
    /\ Mtime(config) # cache.mtime
    /\ stamp' = Mtime(config)
    /\ reading' = TRUE
    /\ UNCHANGED <<path, cache>> /\ UNCHANGED vars

\* It reads the file.  A file that does not load leaves the policy and is
\* remembered as read.
Reload ==
    /\ reading
    /\ cache' = [mtime  |-> stamp,
                 policy |-> IF Loads(Doc(config)) THEN PolicyOf(config.doc)
                                                  ELSE cache.policy]
    /\ reading' = FALSE
    /\ stamp' = NoStamp
    /\ UNCHANGED path /\ UNCHANGED vars

ReloadNext ==
    \/ Next /\ UNCHANGED reloadVars
    \/ ReadStamp
    \/ Reload

ReloadSpec == ReloadInit /\ [][ReloadNext]_allVars

\* Clients ask again and again, and every answer refreshes the policy.
ReloadFairSpec == ReloadSpec /\ WF_allVars(ReadStamp) /\ WF_allVars(Reload)

----------------------------------------------------------------------------
(* Properties. *)

\* Every variable has its type, those of the commands included.
ReloadTypeOK ==
    /\ TypeOK
    /\ path \in BOOLEAN
    /\ cache \in [mtime : Nat \cup {NoStamp}, policy : Policy]
    /\ reading \in BOOLEAN
    /\ stamp \in Nat \cup {NoStamp}

\* A policy that is taken for current is current: when the cached stamp is
\* the file's, the cached policy is the file's, although commands replace
\* and overwrite the file between the two reads of a refresh, and although a
\* file that did not load is remembered as read.  Only two changes under one
\* time stamp break this.
CachedIsCurrent ==
    (~collided /\ config # NoFile /\ Loads(Doc(config)) /\ cache.mtime = config.mtime)
      => cache.policy = PolicyOf(config.doc)

\* In a hub started from the file, changes of it take effect without a
\* restart: once it loads, the policy ends up as the file says.
PolicyFollowsFile ==
    path => <>[](collided \/ ~Loads(Doc(config)) \/ cache.policy = PolicyOf(config.doc))
=============================================================================
