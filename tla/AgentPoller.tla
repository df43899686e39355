---------------------------- MODULE AgentPoller ----------------------------
(***************************************************************************)
(* The polling side of a user's agent: refresh_and_publish in src/agent.rs *)
(* with the version gate of src/backend.rs and its cache.                  *)
(*                                                                         *)
(* One round loads the config file, asks the proxies for their versions    *)
(* when the set of backends has changed, fetches the device lists, reads   *)
(* the policy, replaces the route table and sends the snapshot; the config *)
(* file and the backends change in between.  Commands change the document  *)
(* in one step, as AtomicConfig says; an edit may leave a document that    *)
(* does not load.  A backend stands for the devices it lists.              *)
(***************************************************************************)
EXTENDS HubConfig, Naturals

CONSTANTS
    Old,        \* addresses of proxies below the required version
    NoConfig,   \* inline_backends is None: the agent was started alone
    MaxChanges, \* bound on changes of the document
    MaxFlaps    \* bound on backends going up and down

ASSUME AgentAssumption ==
    /\ Old \subseteq Addrs
    /\ Commands \subseteq Command
    /\ Edits \subseteq Config \cup {Torn}
    /\ MaxChanges \in Nat /\ MaxFlaps \in Nat

VARIABLES
    document,   \* the config file
    up,         \* addresses that answer
    inline,     \* inline_backends: the config the service was started with
    pos,        \* position of refresh_and_publish
    first,      \* it is the round before the poller was spawned
    hub,        \* hub_cfg of the round
    compat,     \* compat_cache: a fingerprint and the names that passed
    routes,     \* the route table
    published,  \* the last snapshot: its routes and the policy it was under
    changes, flaps

agentVars == <<document, up, inline, pos, first, hub, compat, routes, published,
               changes, flaps>>

\* A config in memory; path: it has a config_path to read the policy from.
Loaded == [cfg : Config, path : BOOLEAN]

Route == [name : Names, addr : Addrs]

ASSUME NoConfigAssumption == NoConfig \notin Loaded

\* enabled_backends: the enabled backends with their addresses.
EnabledBackends(cfg) ==
    {[name |-> n, addr |-> cfg.backends[n].addr] : n \in Enabled(cfg)}

\* Mutant: the addresses are not part of the fingerprint.
FingerprintByName(cfg) ==
    {[name |-> n, addr |-> CHOOSE a \in Addrs : TRUE] : n \in Enabled(cfg)}

\* backends_fingerprint: name, address and pair code of each.
Fingerprint(cfg) == EnabledBackends(cfg)

FromFile(d) == [cfg |-> d, path |-> TRUE]

BuiltIn == [cfg |-> DefaultConfig, path |-> FALSE]

\* build_config: the service starts with the default when its file is
\* missing or does not load.
AgentInit ==
    /\ document \in Edits \cup {Absent}
    /\ up \in SUBSET Addrs
    /\ inline \in {NoConfig, IF Loads(document) THEN FromFile(document)
                                                ELSE BuiltIn}
    /\ pos = "idle"
    /\ first = TRUE
    /\ hub = BuiltIn
    /\ compat = [fp |-> {}, names |-> {}]
    /\ routes = {}
    /\ published = [routes |-> {}, disabled |-> {}]
    /\ changes = 0
    /\ flaps = 0

----------------------------------------------------------------------------
(* The environment. *)

RunCommand ==
    /\ changes < MaxChanges
    /\ \E c \in Commands : document' \in Results(c, document)
    /\ changes' = changes + 1
    /\ UNCHANGED <<up, inline, pos, first, hub, compat, routes, published, flaps>>

EditDocument ==
    /\ changes < MaxChanges
    /\ document' \in Edits
    /\ changes' = changes + 1
    /\ UNCHANGED <<up, inline, pos, first, hub, compat, routes, published, flaps>>

Flap ==
    /\ flaps < MaxFlaps
    /\ \E a \in Addrs : up' = IF a \in up THEN up \ {a} ELSE up \cup {a}
    /\ flaps' = flaps + 1
    /\ UNCHANGED <<document, inline, pos, first, hub, compat, routes,
                   published, changes>>

----------------------------------------------------------------------------
(* One round of refresh_and_publish. *)

\* Mutant: the file is not looked at again.
SourceInline ==
    IF inline # NoConfig THEN inline
    ELSE IF Loads(document) THEN FromFile(document)
    ELSE BuiltIn

\* Where the config of the round comes from: the file when it loads, else
\* the config of the start, else (the agent alone) the default without a
\* file.
Source ==
    IF Loads(document) THEN FromFile(document)
    ELSE IF inline # NoConfig THEN inline
    ELSE BuiltIn

Unusable == inline = NoConfig /\ document # Absent /\ ~Loads(document)

LoadConfig ==
    /\ pos = "idle"
    /\ ~Unusable
    /\ hub' = Source
    /\ pos' = "loaded"
    /\ UNCHANGED <<document, up, inline, first, compat, routes, published,
                   changes, flaps>>

\* A round that fails is only reported when it is the first; a later one
\* ends the poller while the agent goes on.
LoadFails ==
    /\ pos = "idle"
    /\ Unusable
    /\ pos' = IF first THEN "idle" ELSE "stopped"
    /\ first' = FALSE
    /\ UNCHANGED <<document, up, inline, hub, compat, routes, published,
                   changes, flaps>>

Passes(r) == r.addr \in up /\ r.addr \notin Old

\* filter_compatible_backends is asked again only when the fingerprint has
\* changed; a proxy that does not answer counts as too old.
Gate ==
    /\ pos = "loaded"
    /\ compat' = IF compat.fp = Fingerprint(hub.cfg) THEN compat
                 ELSE [fp    |-> Fingerprint(hub.cfg),
                       names |-> {r.name : r \in {r \in EnabledBackends(hub.cfg) : Passes(r)}}]
    /\ pos' = "gated"
    /\ UNCHANGED <<document, up, inline, first, hub, routes, published,
                   changes, flaps>>

\* The policy is read from the file once more, or is that of the config in
\* memory.
CurrentPolicy ==
    PolicyOf(IF hub.path /\ Loads(document) THEN document ELSE hub.cfg)

Listed(r) == r.name \in compat.names /\ r.addr \in up

\* The lists are fetched, merged and filtered; the route table is replaced.
SwapRoutes ==
    /\ pos = "gated"
    /\ routes' = {r \in EnabledBackends(hub.cfg) :
                    Listed(r) /\ r.name \notin CurrentPolicy.off}
    /\ hub' = [hub EXCEPT !.cfg.disabled = CurrentPolicy.disabled]
    /\ pos' = "routed"
    /\ UNCHANGED <<document, up, inline, first, compat, published, changes, flaps>>

\* The snapshot is sent once the writer is free.
SendSnapshot ==
    /\ pos = "routed"
    /\ published' = [routes |-> routes, disabled |-> hub.cfg.disabled]
    /\ pos' = "idle"
    /\ first' = FALSE
    /\ UNCHANGED <<document, up, inline, hub, compat, routes, changes, flaps>>

Round == LoadConfig \/ LoadFails \/ Gate \/ SwapRoutes \/ SendSnapshot

AgentNext == RunCommand \/ EditDocument \/ Flap \/ Round

AgentSpec == AgentInit /\ [][AgentNext]_agentVars

\* The poller sleeps and goes on; every query of a backend has a time limit.
FairAgent == AgentSpec /\ WF_agentVars(Round)

----------------------------------------------------------------------------
(* Properties. *)

\* Every variable has its type.
AgentTypeOK ==
    /\ document \in Document
    /\ up \subseteq Addrs
    /\ inline \in Loaded \cup {NoConfig}
    /\ pos \in {"idle", "loaded", "gated", "routed", "stopped"}
    /\ first \in BOOLEAN
    /\ hub \in Loaded
    /\ compat \in [fp : SUBSET Route, names : SUBSET Names]
    /\ routes \subseteq Route
    /\ published \in [routes : SUBSET Route, disabled : SUBSET Devices]
    /\ changes \in 0..MaxChanges
    /\ flaps \in 0..MaxFlaps

\* Proxies below the required version are skipped (README.md:286): however
\* the config is changed between two rounds, no route leads to one, because
\* the verdicts of the gate are used only for the backends it was asked about.
OldProxySkipped == \A r \in routes \cup published.routes : r.addr \notin Old

\* What a round started now would send.
Wanted ==
    {r \in EnabledBackends(document) : r.name \in compat.names /\ r.addr \in up}

\* The agent follows the file (docs/multi-user-design.md:216): when neither
\* the file nor the backends change any more, the snapshot is what the file
\* says, less the backends that failed the gate.  Two exceptions are the
\* code's: a poller that was ended by a file that did not load, and a file
\* that still does not load.
AgentFollowsConfig ==
    <>[](\/ pos = "stopped"
         \/ ~Loads(document)
         \/ /\ published = [routes |-> Wanted, disabled |-> document.disabled]
            /\ compat.fp = Fingerprint(document))
=============================================================================
