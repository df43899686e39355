------------------------------ MODULE HubConfig ------------------------------
(***************************************************************************)
(* The hub's config document and what the commands `adb-hub pair`,         *)
(* `unpair`, `node` and `device` make of it (src/config.rs,                *)
(* src/policy.rs, src/bin/adb-hub.rs).  Pure operators, used by the        *)
(* abstract AtomicConfig and by the detailed ConfigFile.                   *)
(*                                                                         *)
(* Ports, intervals and pair codes are left out: a pair code is written    *)
(* and read together with the address it belongs to.  The order of the     *)
(* backends is left out too, so an operation that takes the first of       *)
(* several matches has a set of outcomes; an operation that fails has the  *)
(* empty set.                                                              *)
(***************************************************************************)
CONSTANTS
    Names,      \* names of backends
    Addrs,      \* addresses of adb-proxies
    Devices,    \* serials that have a policy
    NoBackend,  \* a name that is not paired
    Absent,     \* there is no file
    Torn,       \* text that does not parse
    Commands,   \* the commands users run
    Edits       \* documents a user may write with an editor

Backend == [addr : Addrs, enabled : BOOLEAN]

\* HubConfig: include_local, the backends by name, the disabled devices
Config == [local    : BOOLEAN,
           backends : [Names -> Backend \cup {NoBackend}],
           disabled : SUBSET Devices]

ASSUME DocumentAssumption ==
    /\ NoBackend \notin Backend
    /\ Absent # Torn
    /\ {Absent, Torn} \cap Config = {}

\* local_only, which is also what an empty document parses to: every field
\* of TomlFile has a default.
DefaultConfig == [local    |-> TRUE,
                  backends |-> [n \in Names |-> NoBackend],
                  disabled |-> {}]

Document == Config \cup {Absent, Torn}

Paired(cfg) == {n \in Names : cfg.backends[n] # NoBackend}

Enabled(cfg) == {n \in Paired(cfg) : cfg.backends[n].enabled}

\* from_toml_file refuses a document without any source of devices.
Loads(d) == d \in Config /\ (d.local \/ Paired(d) # {})

\* load_or_empty can go on: the file loads or there is none.
Readable(d) == d = Absent \/ Loads(d)

LoadOrEmpty(d) == IF d = Absent THEN DefaultConfig ELSE d

----------------------------------------------------------------------------
(* What a command does to the document it has loaded. *)

\* The command `pair` under the name of a backend that exists moves it; under the address
\* of one that exists renames it; otherwise adds it.  The enable flag of an
\* existing backend is kept.
UpsertBackend(cfg, n, a) ==
    LET at == {m \in Paired(cfg) : cfg.backends[m].addr = a}
    IN  IF n \in Paired(cfg)
        THEN {[cfg EXCEPT !.backends[n].addr = a]}
        ELSE IF at # {}
        THEN {[cfg EXCEPT !.backends[n] = cfg.backends[m],
                          !.backends[m] = NoBackend] : m \in at}
        ELSE {[cfg EXCEPT !.backends[n] = [addr |-> a, enabled |-> TRUE]]}

\* Mutant: the entry is emptied and not removed.
RunUnpairEmpties(cfg, n) ==
    IF n \in Paired(cfg)
    THEN {[cfg EXCEPT !.backends[n] = [addr |-> NoBackend, enabled |-> FALSE]]} ELSE {}

RunUnpair(cfg, n) ==
    IF n \in Paired(cfg) THEN {[cfg EXCEPT !.backends[n] = NoBackend]} ELSE {}

SetBackendEnabled(cfg, n, on) ==
    IF n \in Paired(cfg) THEN {[cfg EXCEPT !.backends[n].enabled = on]} ELSE {}

SetDeviceEnabled(cfg, d, on) ==
    {[cfg EXCEPT !.disabled = IF on THEN @ \ {d} ELSE @ \cup {d}]}

Command ==
    [op : {"pair"}, name : Names, addr : Addrs] \cup
    [op : {"unpair"}, name : Names] \cup
    [op : {"node"}, name : Names, on : BOOLEAN] \cup
    [op : {"device"}, serial : Devices, on : BOOLEAN]

\* The documents a command may write, given the one it has loaded.
Effects(c, cfg) ==
    CASE c.op = "pair"   -> UpsertBackend(cfg, c.name, c.addr)
      [] c.op = "unpair" -> RunUnpair(cfg, c.name)
      [] c.op = "node"   -> SetBackendEnabled(cfg, c.name, c.on)
      [] c.op = "device" -> SetDeviceEnabled(cfg, c.serial, c.on)

\* The documents it may write, given the one in the file: none when that does
\* not load.
Results(c, d) == IF Readable(d) THEN Effects(c, LoadOrEmpty(d)) ELSE {}

\* load_hub_policy_file: the flags a reader takes from a document.  A
\* backend that is not listed counts as enabled.
PolicyOf(cfg) == [off |-> Paired(cfg) \ Enabled(cfg), disabled |-> cfg.disabled]

Policy == [off : SUBSET Names, disabled : SUBSET Devices]
=============================================================================
