-------------------------- MODULE ProxyConnection --------------------------
(***************************************************************************)
(* adb-proxy: connections of hubs, the pair code, and the enable policy    *)
(* of the host's devices (proxy_connection in src/lib.rs, accept_auth in   *)
(* src/auth.rs, ReloadableProxyPolicy in src/proxy_config.rs, src/policy.rs,*)
(* the device command in src/main.rs).                                     *)
(*                                                                         *)
(* Connections run concurrently, devices come and go, and the device       *)
(* command replaces the policy file at any time, also while the proxy      *)
(* starts.  Two saves never share a time stamp here (PolicyReload shows    *)
(* what happens then), and a save is one step (ConfigFile).  A list of     *)
(* devices is the set of their serials.                                    *)
(***************************************************************************)
EXTENDS Naturals, Sequences

CONSTANTS
    Conns,      \* connections
    Devices,    \* serials
    NoFile,     \* the time stamp of a file that does not exist
    Nobody,     \* nobody holds the lock of the policy cache
    MaxSaves,   \* bound on changes of the policy file
    MaxPlugs    \* bound on devices plugged and unplugged

ASSUME ProxyAssumption ==
    /\ NoFile \notin Nat
    /\ Nobody \notin Conns
    /\ MaxSaves \in Nat /\ MaxPlugs \in Nat

VARIABLES
    file,       \* the policy file: whether it parses, its disabled devices,
                \* its time stamp
    attached,   \* devices the host's adb server lists
    cache,      \* PolicyCache
    start,      \* position of the start: load, stamp, serving
    bornStale,  \* history: the file changed while the proxy started
    holder,     \* the connection that has the cache locked
    stamp,      \* the time stamp it has read
    pc,         \* pc[c]: position of proxy_connection
    service,    \* service[c]: the request
    packets,    \* packets[c]: lists the adb server has sent to a tracker
    body,       \* body[c]: the list that is going to be filtered
    shown,      \* shown[c]: the list that was sent last
    some,       \* history: devices enabled at some time since the request
                \* (for a tracker: since the packet was read)
    all,        \* history: devices enabled all that time
    saves, plugs

hostVars == <<file, attached, saves, plugs>>
policyVars == <<cache, start, bornStale, holder, stamp>>
connVars == <<pc, service, packets, body, shown>>
vars == <<file, attached, cache, start, bornStale, holder, stamp, pc, service,
          packets, body, shown, some, all, saves, plugs>>

\* The requests proxy_connection tells apart; any: every other one, such as
\* host:transport-any and host-serial:<serial>:...
Service ==
    [op : {"version", "devices", "track", "any"}] \cup
    [op : {"transport"}, serial : Devices]

\* load_file, unwrap_or_default: a file that does not parse disables nothing.
Disabled(f) == IF f.parses THEN f.off ELSE {}

Enabled(f) == Devices \ Disabled(f)

Init ==
    /\ file = [parses |-> TRUE, off |-> {}, mtime |-> NoFile]
    /\ attached \in SUBSET Devices
    /\ cache = [mtime |-> NoFile, disabled |-> {}]
    /\ start = "load"
    /\ bornStale = FALSE
    /\ holder = Nobody
    /\ stamp = NoFile
    /\ pc = [c \in Conns |-> "auth"]
    /\ service = [c \in Conns |-> [op |-> "any"]]
    /\ packets = [c \in Conns |-> <<>>]
    /\ body = [c \in Conns |-> {}]
    /\ shown = [c \in Conns |-> {}]
    /\ some = [c \in Conns |-> Devices]
    /\ all = [c \in Conns |-> Devices]
    /\ saves = 0
    /\ plugs = 0

----------------------------------------------------------------------------
(* The host. *)

Served(c) == pc[c] \in {"check", "connect", "filter", "track"}

\* The file is replaced under a new time stamp.
Replace(parses, off) ==
    /\ saves < MaxSaves
    /\ saves' = saves + 1
    /\ file' = [parses |-> parses, off |-> off, mtime |-> saves']
    /\ some' = [c \in Conns |-> IF Served(c) THEN some[c] \cup Enabled(file') ELSE some[c]]
    /\ all' = [c \in Conns |-> IF Served(c) THEN all[c] \cap Enabled(file') ELSE all[c]]
    /\ UNCHANGED <<attached, plugs>> /\ UNCHANGED policyVars /\ UNCHANGED connVars

\* adb-proxy device enable/disable; it fails when the file does not parse.
RunDevice ==
    /\ file.parses
    /\ \E d \in Devices : Replace(TRUE, file.off \cup {d}) \/ Replace(TRUE, file.off \ {d})

\* The user edits the file and makes a mistake.
Edit == Replace(FALSE, file.off)

Tracking(c) == service[c].op = "track" /\ pc[c] \in {"track", "filter"}

\* A device is plugged or unplugged; the adb server tells its trackers.
Plug ==
    /\ plugs < MaxPlugs
    /\ plugs' = plugs + 1
    /\ \E d \in Devices :
         attached' = IF d \in attached THEN attached \ {d} ELSE attached \cup {d}
    /\ packets' = [c \in Conns |-> IF Tracking(c) THEN Append(packets[c], attached')
                                                  ELSE packets[c]]
    /\ UNCHANGED <<file, saves, pc, service, body, shown, some, all>>
    /\ UNCHANGED policyVars

----------------------------------------------------------------------------
(* The start: ReloadableProxyPolicy::new. *)

\* It loads the table...
LoadAtStart ==
    /\ start = "load"
    /\ cache' = [cache EXCEPT !.disabled = Disabled(file)]
    /\ start' = "stamp"
    /\ UNCHANGED <<bornStale, holder, stamp, some, all>>
    /\ UNCHANGED hostVars /\ UNCHANGED connVars

\* ...and then reads the time stamp.
StampAtStart ==
    /\ start = "stamp"
    /\ cache' = [cache EXCEPT !.mtime = file.mtime]
    /\ bornStale' = (cache.disabled # Disabled(file))
    /\ start' = "serving"
    /\ UNCHANGED <<holder, stamp, some, all>>
    /\ UNCHANGED hostVars /\ UNCHANGED connVars

----------------------------------------------------------------------------
(* A connection. *)

Goto(c, l) == pc' = [pc EXCEPT ![c] = l]

\* accept_auth: a wrong code, no code and no packet at all are refused.
Authenticate(c) ==
    /\ start = "serving"
    /\ pc[c] = "auth"
    /\ Goto(c, "service") \/ Goto(c, "refused")
    /\ UNCHANGED <<service, packets, body, shown, some, all>>
    /\ UNCHANGED hostVars /\ UNCHANGED policyVars

\* The first service decides: the version is answered here, a transport by
\* serial is checked, everything else goes to the adb server.
ReadService(c) ==
    /\ pc[c] = "service"
    /\ \E s \in Service :
         /\ service' = [service EXCEPT ![c] = s]
         /\ Goto(c, CASE s.op = "version"   -> "done"
                      [] s.op = "transport" -> "check"
                      [] OTHER              -> "connect")
    /\ some' = [some EXCEPT ![c] = Enabled(file)]
    /\ all' = [all EXCEPT ![c] = Enabled(file)]
    /\ UNCHANGED <<packets, body, shown>>
    /\ UNCHANGED hostVars /\ UNCHANGED policyVars

\* Mutant: an empty list is not sent.
UseNonEmpty(c, disabled) ==
    IF pc[c] = "check"
    THEN /\ Goto(c, IF service[c].serial \in disabled THEN "refused" ELSE "connect")
         /\ UNCHANGED shown
    ELSE /\ shown' = IF body[c] \ disabled = {} THEN shown
                     ELSE [shown EXCEPT ![c] = body[c] \ disabled]
         /\ Goto(c, IF service[c].op = "track" THEN "track" ELSE "done")

\* What a connection does with the table that refresh has returned: it lets a
\* transport pass or refuses it, or sends a list without the disabled
\* devices.
Use(c, disabled) ==
    IF pc[c] = "check"
    THEN /\ Goto(c, IF service[c].serial \in disabled THEN "refused" ELSE "connect")
         /\ UNCHANGED shown
    ELSE /\ shown' = [shown EXCEPT ![c] = body[c] \ disabled]
         /\ Goto(c, IF service[c].op = "track" THEN "track" ELSE "done")

\* Mutant: only a transport looks at the time stamp.
RefreshOnCheck(c) ==
    /\ pc[c] \in {"check", "filter"}
    /\ holder = Nobody
    /\ IF pc[c] = "filter" \/ file.mtime = cache.mtime
       THEN Use(c, cache.disabled) /\ UNCHANGED <<holder, stamp>>
       ELSE /\ holder' = c
            /\ stamp' = file.mtime
            /\ UNCHANGED <<pc, shown>>
    /\ UNCHANGED <<cache, start, bornStale, service, packets, body, some, all>>
    /\ UNCHANGED hostVars

\* refresh: with the cache locked it reads the time stamp...
Refresh(c) ==
    /\ pc[c] \in {"check", "filter"}
    /\ holder = Nobody
    /\ IF file.mtime = cache.mtime
       THEN Use(c, cache.disabled) /\ UNCHANGED <<holder, stamp>>
       ELSE /\ holder' = c
            /\ stamp' = file.mtime
            /\ UNCHANGED <<pc, shown>>
    /\ UNCHANGED <<cache, start, bornStale, service, packets, body, some, all>>
    /\ UNCHANGED hostVars

\* ...and loads the file when that has changed.
Reload(c) ==
    /\ holder = c
    /\ cache' = [mtime |-> stamp, disabled |-> Disabled(file)]
    /\ Use(c, Disabled(file))
    /\ holder' = Nobody
    /\ stamp' = NoFile
    /\ UNCHANGED <<start, bornStale, service, packets, body, some, all>>
    /\ UNCHANGED hostVars

\* Upstream is connected and gets the request.  A list is answered at once;
\* a tracker gets its first list; the rest is forwarded both ways.
Ask(c) ==
    /\ pc[c] = "connect"
    /\ CASE service[c].op = "devices" ->
              /\ body' = [body EXCEPT ![c] = attached]
              /\ Goto(c, "filter")
              /\ UNCHANGED packets
         [] service[c].op = "track" ->
              /\ packets' = [packets EXCEPT ![c] = <<attached>>]
              /\ Goto(c, "track")
              /\ UNCHANGED body
         [] OTHER -> Goto(c, "forward") /\ UNCHANGED <<body, packets>>
    /\ UNCHANGED <<service, shown, some, all>>
    /\ UNCHANGED hostVars /\ UNCHANGED policyVars

\* A tracker reads the next packet.
ReadPacket(c) ==
    /\ pc[c] = "track"
    /\ packets[c] # <<>>
    /\ body' = [body EXCEPT ![c] = Head(packets[c])]
    /\ packets' = [packets EXCEPT ![c] = Tail(@)]
    /\ Goto(c, "filter")
    /\ some' = [some EXCEPT ![c] = Enabled(file)]
    /\ all' = [all EXCEPT ![c] = Enabled(file)]
    /\ UNCHANGED <<service, shown>>
    /\ UNCHANGED hostVars /\ UNCHANGED policyVars

\* The adb server cannot be reached, answers FAIL or closes; or the client
\* closes.  It is not noticed while the policy is read.
Ends(c) ==
    /\ pc[c] \in {"service", "connect", "track", "forward"}
    /\ Goto(c, "done")
    /\ packets' = [packets EXCEPT ![c] = <<>>]
    /\ UNCHANGED <<service, body, shown, some, all>>
    /\ UNCHANGED hostVars /\ UNCHANGED policyVars

Serve(c) ==
    \/ Authenticate(c) \/ ReadService(c) \/ Refresh(c) \/ Reload(c)
    \/ Ask(c) \/ ReadPacket(c)

Next ==
    \/ RunDevice \/ Edit \/ Plug
    \/ LoadAtStart \/ StampAtStart
    \/ \E c \in Conns : Serve(c) \/ Ends(c)

Spec == Init /\ [][Next]_vars

\* The proxy starts, and its tasks run when they can.
FairSpec ==
    /\ Spec
    /\ WF_vars(LoadAtStart \/ StampAtStart)
    /\ \A c \in Conns : WF_vars(Refresh(c) \/ Reload(c) \/ ReadPacket(c))

----------------------------------------------------------------------------
(* Properties. *)

\* Every variable has its type.
TypeOK ==
    /\ file \in [parses : BOOLEAN, off : SUBSET Devices, mtime : Nat \cup {NoFile}]
    /\ attached \subseteq Devices
    /\ cache \in [mtime : Nat \cup {NoFile}, disabled : SUBSET Devices]
    /\ start \in {"load", "stamp", "serving"}
    /\ bornStale \in BOOLEAN
    /\ holder \in Conns \cup {Nobody}
    /\ stamp \in Nat \cup {NoFile}
    /\ pc \in [Conns -> {"auth", "service", "check", "connect", "filter",
                         "track", "forward", "refused", "done"}]
    /\ service \in [Conns -> Service]
    /\ packets \in [Conns -> Seq(SUBSET Devices)]
    /\ body \in [Conns -> SUBSET Devices]
    /\ shown \in [Conns -> SUBSET Devices]
    /\ some \in [Conns -> SUBSET Devices]
    /\ all \in [Conns -> SUBSET Devices]
    /\ saves \in 0..MaxSaves
    /\ plugs \in 0..MaxPlugs

\* A disabled device cannot be transported and is omitted from lists
\* (README.md:191), no other is, and no restart is needed, whatever the cache
\* held and whoever reloads it.  A transport by serial passes only if the
\* device was enabled at some moment since the request, and is refused only
\* if it was disabled at some moment; a list that is sent is the adb
\* server's, filtered by a policy in force at some moment since the request
\* or since the packet was read.  A file that was replaced while the proxy
\* started is the exception.
AnswersFollowPolicy ==
    ~bornStale => \A c \in Conns :
        /\ service[c].op = "transport" =>
             /\ pc[c] = "forward" => service[c].serial \in some[c]
             /\ pc[c] = "refused" => service[c].serial \notin all[c]
        /\ pc[c] \in {"track", "done"} =>
             /\ shown[c] \subseteq body[c] \cap some[c]
             /\ body[c] \cap all[c] \subseteq shown[c]

\* A tracker ends up with the devices that are there and enabled, unless the
\* policy has changed since its last packet: nothing tells it of that.
TrackerFollowsHost ==
    <>[](\A c \in Conns :
           (pc[c] = "track" /\ some[c] = all[c] /\ ~bornStale)
             => shown[c] = attached \cap Enabled(file))
=============================================================================
