---------------------------- MODULE DeviceRouting ----------------------------
(***************************************************************************)
(* How the device lists of the backends become one list with public        *)
(* serials (src/src/registry.rs), what the policy leaves of it             *)
(* (src/src/config.rs, src/src/policy.rs), and which device a host service *)
(* is sent to (src/src/session.rs).                                        *)
(*                                                                         *)
(* A serial is the sequence of the parts between its colons: rewriting a   *)
(* serial puts the name of its backend in front, and a serial may itself   *)
(* have colons (a device attached over TCP has host:port).  The name of a  *)
(* backend is one part: default_backend_name replaces the colons.  Of a    *)
(* device line the serial and the state are kept.                          *)
(***************************************************************************)
EXTENDS Naturals, Sequences, FiniteSets, SequencesExt

CONSTANTS
    Order,      \* the names of the backends, in configuration order
    Body,       \* lists a backend may report: sequences of [serial, state]
    Local,      \* the name of the local backend
    Numeral(_), \* an index as text
    MaxDevices, \* bound: devices of all the backends together
    MaxPolicy   \* bound: public serials that are disabled at a time

Backend == ToSet(Order)

\* What parse_device_line makes of a line: a serial has at least one part.
Device == [serial : Seq(STRING) \ {<<>>}, state : STRING]

ASSUME OrderAssumption == Order \in Seq(STRING) /\ IsInjective(Order)
ASSUME BodyAssumption == \A body \in Body : body \in Seq(Device)
ASSUME BoundAssumption == MaxDevices \in Nat /\ MaxPolicy \in Nat

\* Two numbers are not written alike.
ASSUME NumeralAssumption ==
    \A m, n \in 0 .. MaxDevices : Numeral(m) = Numeral(n) => m = n

VARIABLES
    lists,      \* lists[b]: the list of b the registry was given last
    devices,    \* DeviceSnapshot.devices, the registry
    disabled,   \* device policy: public serials with enabled = false
    nodesOff    \* node policy: backends with enabled = false

vars == <<lists, devices, disabled, nodesOff>>

-----------------------------------------------------------------------------
(***************************************************************************)
(* merge_device_lists                                                      *)
(***************************************************************************)

\* The lines of one list, with the backend they are from.
ParsedOf(ls, b) ==
    [j \in DOMAIN ls[b] |-> [backend |-> b, serial |-> ls[b][j].serial, state |-> ls[b][j].state]]

\* The parsed lines of all the lists, in the order of the backends.
Parsed(ls) == FlattenSeq([i \in DOMAIN Order |-> ParsedOf(ls, Order[i])])

\* Mutant: the first device with a serial keeps it.
ConflictLaterOnly(parsed, i) ==
    \E j \in 1 .. i - 1 : parsed[j].serial = parsed[i].serial

\* serial_counts: the serial occurs more than once.
Conflict(parsed, i) ==
    \E j \in DOMAIN parsed \ {i} : parsed[j].serial = parsed[i].serial

Prefixed(d) == <<d.backend>> \o d.serial

\* Mutant: used_public is not consulted.
PublicNoFallback(parsed, used, i) ==
    IF Conflict(parsed, i) THEN Prefixed(parsed[i]) ELSE parsed[i].serial

\* The public serial of the i-th device, given the ones handed out before it.
Public(parsed, used, i) ==
    LET p == IF Conflict(parsed, i) THEN Prefixed(parsed[i]) ELSE parsed[i].serial
    IN  IF p \in used THEN Prefixed(parsed[i]) \o <<Numeral(i - 1)>> ELSE p

\* The public serials handed out to the first n devices.
Names(parsed) ==
    LET names[n \in 0 .. Len(parsed)] ==
            IF n = 0 THEN <<>>
            ELSE Append(names[n - 1], Public(parsed, ToSet(names[n - 1]), n))
    IN  names

Merge(ls) ==
    LET parsed == Parsed(ls)
        publics == Names(parsed)[Len(parsed)]
    IN  [i \in DOMAIN parsed |->
            [public |-> publics[i], upstream |-> parsed[i].serial,
             state |-> parsed[i].state, backend |-> parsed[i].backend]]

-----------------------------------------------------------------------------
(***************************************************************************)
(* The policy and the choice of a device.                                  *)
(***************************************************************************)

\* The elements of a sequence that are in a set, in their order (filter of an iterator).
Select(s, S) ==
    LET kept[n \in 0 .. Len(s)] ==
            IF n = 0 THEN <<>>
            ELSE IF s[n] \in S THEN Append(kept[n - 1], s[n]) ELSE kept[n - 1]
    IN  kept[Len(s)]

\* HubPolicySnapshot::filter_snapshot
FilterSnapshot(devs) ==
    Select(devs, {d \in ToSet(devs) : d.backend \notin nodesOff /\ d.public \notin disabled})

Online(d) == d.state = "device"

\* DeviceSnapshot::find: the first entry with that public serial.
Matches(devs, p) == Select(devs, {d \in ToSet(devs) : d.public = p})

\* The outcome of a lookup: a device, or why there is none.
Found(d) == [is |-> "device", entry |-> d]
Failed(why) == [is |-> why]

LookupDevice(devs, p) ==
    LET hits == Matches(devs, p)
    IN  IF hits = <<>> THEN Failed("not_found") ELSE Found(Head(hits))

LookupOnline(devs, p) ==
    LET hit == LookupDevice(devs, p)
    IN  IF hit.is = "device" /\ ~Online(hit.entry) THEN Failed("offline") ELSE hit

\* Mutant: the configured order is walked as it is.
WalkOrderAsConfigured(devs) == Order

\* The order in which pick_preferred tries the backends: the local one first.  Every device
\* is of a configured backend, so the last loop, over other backends, adds none.
WalkOrder(devs) ==
    LET others == Select(Order, Backend \ {Local})
    IN  IF Local \in Backend \cup {devs[i].backend : i \in DOMAIN devs}
        THEN <<Local>> \o others ELSE others

OnlineOn(devs, b) == Select(devs, {d \in ToSet(devs) : d.backend = b /\ Online(d)})

\* pick_preferred: the first backend with a device that is online must have just one.
PickPreferred(devs) ==
    LET walk == WalkOrder(devs)
        candidates == Select(walk, {b \in ToSet(walk) : OnlineOn(devs, b) # <<>>})
    IN  IF candidates = <<>> THEN Failed("none")
        ELSE LET online == OnlineOn(devs, Head(candidates))
             IN  IF Len(online) = 1 THEN Found(Head(online)) ELSE Failed("many")

\* What follows "host-serial:" is split at its FIRST colon into a serial and a request: a
\* serial with a colon, one that merge_device_lists has prefixed included, is cut short.
HostSerial(devs, rest) ==
    IF Len(rest) = 1 THEN Failed("invalid") ELSE LookupDevice(devs, <<Head(rest)>>)

\* rewrite_upstream_service and route_service: transport and tport name a device that
\* must be online, host-serial any device; transport-any, host-usb, host-local and the
\* queries about "the" device take the preferred one; features takes the preferred one
\* if there is one.  Everything else goes to the default backend as it is.
Route(devs, service) ==
    CASE service.kind = "transport"   -> LookupOnline(devs, service.serial)
      [] service.kind = "host-serial" -> HostSerial(devs, service.rest)
      [] service.kind = "any"         -> PickPreferred(devs)
      [] service.kind = "features"    -> LET pick == PickPreferred(devs)
                                         IN  IF pick.is = "device" THEN pick ELSE Failed("default")
      [] OTHER                        -> Failed("default")

-----------------------------------------------------------------------------
Init ==
    /\ lists = [b \in Backend |-> <<>>]
    /\ devices = <<>>
    /\ disabled = {} /\ nodesOff = {}

\* update_from_backend_lists.  The registry is given the lists of all the backends, as
\* copied by publish_shared under a lock it no longer holds: several of them may have
\* changed since the last time, and an older copy may come after a newer one.
Update ==
    /\ lists' \in [Backend -> Body]
    /\ devices' = Merge(lists')
    /\ Len(devices') <= MaxDevices
    /\ UNCHANGED <<disabled, nodesOff>>

\* `adb-hub device disable|enable`, by public serial.
SetDevice ==
    /\ \/ \E i \in DOMAIN devices : disabled' = disabled \cup {devices[i].public}
       \/ \E p \in disabled : disabled' = disabled \ {p}
    /\ Cardinality(disabled') <= MaxPolicy
    /\ UNCHANGED <<lists, devices, nodesOff>>

\* `adb-hub node disable|enable`: the local backend is not a node of the config file.
SetNode(b) ==
    /\ MaxPolicy > 0 /\ b # Local
    /\ nodesOff' = IF b \in nodesOff THEN nodesOff \ {b} ELSE nodesOff \cup {b}
    /\ UNCHANGED <<lists, devices, disabled>>

Next == Update \/ SetDevice \/ \E b \in Backend : SetNode(b)

Spec == Init /\ [][Next]_vars

-----------------------------------------------------------------------------
(***************************************************************************)
(* Properties.                                                             *)
(***************************************************************************)

\* What a client is shown.
Snapshot == FilterSnapshot(devices)

\* No serial in the lists ends like the fallback of merge_device_lists, in an index of the
\* merged list.  The fallback is not looked up in used_public, so that such a serial may be
\* handed out twice.
Unindexed ==
    \A b \in Backend : \A j \in DOMAIN lists[b] : \A i \in DOMAIN devices :
        Last(lists[b][j].serial) # Numeral(i - 1)

\* A client gets through to d, at d's backend and with d's own serial.
Reaches(service, d) ==
    /\ Route(Snapshot, service) = Found(d)
    /\ \E j \in DOMAIN lists[d.backend] : lists[d.backend][j].serial = d.upstream

Transport(p) == [kind |-> "transport", serial |-> p]

\* `host-serial:<serial>:get-state`, say.
HostSerialQuery(p) == [kind |-> "host-serial", rest |-> p \o <<"get-state">>]

\* A public serial names one device, whatever prefixed serials other devices happen to
\* have already; and the device behind an entry of a client's list is reached by the serial
\* the client was shown: by transport and tport if it is online, and by host-serial if the
\* serial has no colon (merge_device_lists, filter_snapshot and rewrite_upstream_service
\* agree).  A host-serial query with a rewritten serial, or with one that has a colon of
\* its own, is not covered: it looks up the part before the first colon.
ListedIsReachable ==
    Unindexed =>
        /\ \A i, j \in DOMAIN devices : devices[i].public = devices[j].public => i = j
        /\ \A i \in DOMAIN Snapshot :
              LET d == Snapshot[i]
              IN  /\ Online(d) => Reaches(Transport(d.public), d)
                  /\ Len(d.public) = 1 => Reaches(HostSerialQuery(d.public), d)

\* pick_preferred against its comment: local devices first, then the backends in order;
\* within the first backend with devices online exactly one is required.
Preferred(b, c) ==
    b # c /\ (b = Local \/ (c # Local /\ \E i, j \in DOMAIN Order : i < j /\ Order[i] = b /\ Order[j] = c))

PickIsPreferred ==
    LET online == {i \in DOMAIN Snapshot : Online(Snapshot[i])}
        best == {i \in online : \A j \in online : ~Preferred(Snapshot[j].backend, Snapshot[i].backend)}
        pick == PickPreferred(Snapshot)
    IN  /\ pick.is = "none" <=> online = {}
        /\ pick.is = "many" <=> \E i, j \in best : i # j
        /\ pick.is = "device" => \E i \in best : pick.entry = Snapshot[i]

\* No backend lists a serial that looks like a rewritten one.
Plain(ls) == \A b \in Backend : \A j \in DOMAIN ls[b] : Len(ls[b][j].serial) = 1

OneListChanges == \E r \in Backend : \A b \in Backend \ {r} : lists'[b] = lists[b]

\* A public serial never passes from one device to another when one backend's list
\* changes: a client that holds a serial gets the device it was shown or an error.  (When
\* the lists of two backends change in one update a bare serial can pass from the one to
\* the other; and the index that keeps a rewritten serial apart from one that looks like
\* it depends on the place in the list, and can move.)
NameNeverRetargeted ==
    [][Plain(lists) /\ Plain(lists') /\ OneListChanges =>
          \A i \in DOMAIN devices : \A j \in DOMAIN devices' :
              devices[i].public = devices'[j].public =>
                  /\ devices[i].backend = devices'[j].backend
                  /\ devices[i].upstream = devices'[j].upstream]_vars
=============================================================================
