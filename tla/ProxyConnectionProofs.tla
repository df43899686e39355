------------------------- MODULE ProxyConnectionProofs -------------------------
(***************************************************************************)
(* Proofs about ProxyConnection for any number of connections, devices and *)
(* changes of the policy file.                                             *)
(***************************************************************************)
EXTENDS ProxyConnection, TLAPS

(***************************************************************************)
(* Type correctness.                                                       *)
(***************************************************************************)

LEMMA DisabledType ==
    ASSUME TypeOK
    PROVE  Disabled(file) \in SUBSET Devices /\ Enabled(file) \in SUBSET Devices
  BY DEF TypeOK, Disabled, Enabled

LEMMA TypeInit == Init => TypeOK
  <1> SUFFICES ASSUME Init PROVE TypeOK
    OBVIOUS
  <1>1. service \in [Conns -> Service]
    BY DEF Init, Service
  <1>2. packets \in [Conns -> Seq(SUBSET Devices)]
    BY DEF Init
  <1>3. file \in [parses : BOOLEAN, off : SUBSET Devices, mtime : Nat \cup {NoFile}]
    BY DEF Init
  <1>4. saves \in 0..MaxSaves /\ plugs \in 0..MaxPlugs
    BY ProxyAssumption DEF Init
  <1> QED BY <1>1, <1>2, <1>3, <1>4 DEF Init, TypeOK

\* What a connection does with a table keeps the types.
LEMMA UseType ==
    ASSUME TypeOK, NEW c \in Conns, NEW D \in SUBSET Devices, Use(c, D)
    PROVE  /\ pc' \in [Conns -> {"auth", "service", "check", "connect", "filter",
                                 "track", "forward", "refused", "done"}]
           /\ shown' \in [Conns -> SUBSET Devices]
  <1>1. CASE pc[c] = "check"
    BY <1>1 DEF TypeOK, Use, Goto
  <1>2. CASE pc[c] # "check"
    <2>1. shown' = [shown EXCEPT ![c] = body[c] \ D]
      BY <1>2 DEF Use
    <2>2. pc' = [pc EXCEPT ![c] = "track"] \/ pc' = [pc EXCEPT ![c] = "done"]
      BY <1>2 DEF Use, Goto
    <2>3. body[c] \ D \in SUBSET Devices
      BY DEF TypeOK
    <2> QED BY <2>1, <2>2, <2>3 DEF TypeOK
  <1> QED BY <1>1, <1>2

LEMMA TypeHost ==
    ASSUME TypeOK, RunDevice \/ Edit \/ Plug
    PROVE  TypeOK'
  <1> USE ProxyAssumption DEF TypeOK, policyVars, connVars
  <1>1. ASSUME NEW b \in BOOLEAN, NEW off \in SUBSET Devices, Replace(b, off)
        PROVE  TypeOK'
    <2>1. file' \in [parses : BOOLEAN, off : SUBSET Devices, mtime : Nat \cup {NoFile}]
      BY <1>1 DEF Replace
    <2>2. Enabled(file') \in SUBSET Devices
      BY DEF Enabled
    <2>3. /\ some' \in [Conns -> SUBSET Devices]
          /\ all' \in [Conns -> SUBSET Devices]
      BY <1>1, <2>2 DEF Replace
    <2> QED BY <1>1, <2>1, <2>3 DEF Replace
  <1>2. CASE RunDevice
    BY <1>1, <1>2 DEF RunDevice
  <1>3. CASE Edit
    BY <1>1, <1>3 DEF Edit
  <1>4. CASE Plug
    <2>1. attached' \in SUBSET Devices
      BY <1>4 DEF Plug
    <2>2. packets' \in [Conns -> Seq(SUBSET Devices)]
      BY <1>4, <2>1 DEF Plug
    <2>3. plugs' \in 0..MaxPlugs
      BY <1>4 DEF Plug
    <2> QED BY <1>4, <2>1, <2>2, <2>3 DEF Plug
  <1> QED BY <1>2, <1>3, <1>4

LEMMA TypeStart ==
    ASSUME TypeOK, LoadAtStart \/ StampAtStart
    PROVE  TypeOK'
  <1>1. CASE LoadAtStart
    BY <1>1, DisabledType DEF TypeOK, LoadAtStart, hostVars, connVars
  <1>2. CASE StampAtStart
    <2>1. bornStale' \in BOOLEAN
      BY <1>2 DEF StampAtStart
    <2>2. cache' \in [mtime : Nat \cup {NoFile}, disabled : SUBSET Devices]
      BY <1>2 DEF StampAtStart, TypeOK
    <2> QED BY <1>2, <2>1, <2>2 DEF TypeOK, StampAtStart, hostVars, connVars
  <1> QED BY <1>1, <1>2

\* The three ways of the request that goes upstream.
LEMMA AskSteps ==
    ASSUME NEW c \in Conns, Ask(c)
    PROVE  \/ /\ body' = [body EXCEPT ![c] = attached]
              /\ pc' = [pc EXCEPT ![c] = "filter"]
              /\ packets' = packets
           \/ /\ packets' = [packets EXCEPT ![c] = <<attached>>]
              /\ pc' = [pc EXCEPT ![c] = "track"]
              /\ body' = body
           \/ /\ pc' = [pc EXCEPT ![c] = "forward"]
              /\ body' = body /\ packets' = packets
  <1>1. CASE service[c].op = "devices"
    BY <1>1 DEF Ask, Goto
  <1>2. CASE service[c].op # "devices" /\ service[c].op = "track"
    BY <1>2 DEF Ask, Goto
  <1>3. CASE service[c].op # "devices" /\ service[c].op # "track"
    BY <1>3 DEF Ask, Goto
  <1> QED BY <1>1, <1>2, <1>3

LEMMA TypeConn ==
    ASSUME TypeOK, NEW c \in Conns, Serve(c) \/ Ends(c)
    PROVE  TypeOK'
  <1> USE DisabledType DEF TypeOK, hostVars, policyVars
  <1>1. CASE Authenticate(c)
    BY <1>1 DEF Authenticate, Goto
  <1>2. CASE ReadService(c)
    BY <1>2 DEF ReadService, Goto
  <1>3. CASE Refresh(c)
    <2>1. CASE file.mtime = cache.mtime
      BY <1>3, <2>1, UseType DEF Refresh
    <2>2. CASE file.mtime # cache.mtime
      BY <1>3, <2>2 DEF Refresh
    <2> QED BY <2>1, <2>2
  <1>4. CASE Reload(c)
    BY <1>4, UseType DEF Reload
  <1>5. CASE Ask(c)
    <2>1. <<attached>> \in Seq(SUBSET Devices)
      OBVIOUS
    <2>2. /\ body' \in [Conns -> SUBSET Devices]
          /\ pc' \in [Conns -> {"auth", "service", "check", "connect", "filter",
                                "track", "forward", "refused", "done"}]
      <3>1. /\ body' = body \/ body' = [body EXCEPT ![c] = attached]
            /\ \E l \in {"filter", "track", "forward"} : pc' = [pc EXCEPT ![c] = l]
        BY <1>5, AskSteps
      <3> QED BY <3>1
    <2>3. packets' \in [Conns -> Seq(SUBSET Devices)]
      <3>1. CASE packets' = packets
        BY <3>1
      <3>2. CASE packets' = [packets EXCEPT ![c] = <<attached>>]
        BY <3>2, <2>1
      <3> QED BY <1>5, <3>1, <3>2, AskSteps
    <2> QED BY <1>5, <2>2, <2>3 DEF Ask
  <1>6. CASE ReadPacket(c)
    <2>1. Head(packets[c]) \in SUBSET Devices /\ Tail(packets[c]) \in Seq(SUBSET Devices)
      BY <1>6 DEF ReadPacket
    <2> QED BY <1>6, <2>1 DEF ReadPacket, Goto
  <1>7. CASE Ends(c)
    BY <1>7 DEF Ends, Goto
  <1> QED BY <1>1, <1>2, <1>3, <1>4, <1>5, <1>6, <1>7 DEF Serve

LEMMA TypeNext == TypeOK /\ [Next]_vars => TypeOK'
  <1>1. TypeOK /\ UNCHANGED vars => TypeOK'
    BY DEF TypeOK, vars
  <1> QED BY <1>1, TypeHost, TypeStart, TypeConn DEF Next

\* Type correctness of the proxy, its cache and its connections.
THEOREM TypeCorrect == Spec => []TypeOK
  BY TypeInit, TypeNext, PTL DEF Spec

(***************************************************************************)
(* The cache and the answers.                                              *)
(***************************************************************************)

\* A cache that has the time stamp of the file has its table, unless the
\* file changed while the proxy started; no stamp was taken from the future,
\* so a save always takes a new one; whoever holds the lock is about to use
\* the table; nothing is served before the start is over.
CacheInv ==
    /\ file.mtime \in Nat => file.mtime <= saves
    /\ cache.mtime \in Nat => cache.mtime <= saves
    /\ stamp \in Nat => stamp <= saves
    /\ holder # Nobody => pc[holder] \in {"check", "filter"}
    /\ start # "serving" => \A c \in Conns : pc[c] = "auth"
    /\ start = "serving" /\ ~bornStale /\ cache.mtime = file.mtime
         => cache.disabled = Disabled(file)

\* The histories of a request that is being served contain the policy in
\* force; what has been decided stays within them; a connection that has
\* read no list has sent none.
ConnInv(c) ==
    /\ Served(c) => /\ Enabled(file) \subseteq some[c]
                    /\ all[c] \subseteq Enabled(file)
    /\ pc[c] \in {"auth", "service"} => service[c].op = "any"
    /\ pc[c] \in {"auth", "service", "check", "connect", "forward"}
         => body[c] = {} /\ shown[c] = {}
    /\ ~bornStale =>
         /\ service[c].op = "transport" =>
              /\ pc[c] \in {"connect", "forward"} => service[c].serial \in some[c]
              /\ pc[c] = "refused" => service[c].serial \notin all[c]
         /\ pc[c] \in {"track", "done"} =>
              /\ shown[c] \subseteq body[c] \cap some[c]
              /\ body[c] \cap all[c] \subseteq shown[c]

PolicyInv ==
    /\ CacheInv
    /\ \A c \in Conns : ConnInv(c)

LEMMA PolicyInit == Init => PolicyInv
  BY ProxyAssumption DEF Init, PolicyInv, CacheInv, ConnInv, Served

\* A save: its time stamp is new, and the histories take its policy in.
LEMMA PolicySave ==
    ASSUME TypeOK, PolicyInv, NEW b \in BOOLEAN, NEW off \in SUBSET Devices,
           Replace(b, off)
    PROVE  PolicyInv'
  <1>1. CacheInv'
    <2>1. cache.mtime # file'.mtime
      BY ProxyAssumption DEF Replace, PolicyInv, CacheInv, TypeOK
    <2> QED BY <2>1, ProxyAssumption
        DEF Replace, PolicyInv, CacheInv, TypeOK, policyVars, connVars
  <1>2. ASSUME NEW c \in Conns PROVE ConnInv(c)'
    <2>1. /\ some[c] \subseteq some'[c]
          /\ all'[c] \subseteq all[c]
          /\ Served(c) => /\ Enabled(file') \subseteq some'[c]
                          /\ all'[c] \subseteq Enabled(file')
          /\ ~Served(c) => some'[c] = some[c] /\ all'[c] = all[c]
      BY DEF Replace, TypeOK
    <2>2. ConnInv(c) /\ UNCHANGED <<pc, service, body, shown, bornStale>>
      BY DEF PolicyInv, Replace, policyVars, connVars
    <2> QED BY <2>1, <2>2 DEF ConnInv, Served
  <1> QED BY <1>1, <1>2 DEF PolicyInv

LEMMA PolicyHost ==
    ASSUME TypeOK, PolicyInv, RunDevice \/ Edit \/ Plug
    PROVE  PolicyInv'
  <1>1. CASE RunDevice
    <2>1. PICK d \in Devices : Replace(TRUE, file.off \cup {d}) \/ Replace(TRUE, file.off \ {d})
      BY <1>1 DEF RunDevice
    <2>2. file.off \cup {d} \in SUBSET Devices /\ file.off \ {d} \in SUBSET Devices
      BY DEF TypeOK
    <2> QED BY <2>1, <2>2, PolicySave
  <1>2. CASE Edit
    <2>1. file.off \in SUBSET Devices
      BY DEF TypeOK
    <2> QED BY <1>2, <2>1, PolicySave DEF Edit
  <1>3. CASE Plug
    BY <1>3 DEF Plug, PolicyInv, CacheInv, ConnInv, Served, policyVars
  <1> QED BY <1>1, <1>2, <1>3

\* The start: bornStale records whether the table and the stamp agree.
LEMMA PolicyStart ==
    ASSUME TypeOK, PolicyInv, LoadAtStart \/ StampAtStart
    PROVE  PolicyInv'
  <1>1. CASE LoadAtStart
    BY <1>1 DEF LoadAtStart, TypeOK, PolicyInv, CacheInv, ConnInv, Served,
                hostVars, connVars
  <1>2. CASE StampAtStart
    <2>1. \A c \in Conns : pc[c] = "auth"
      BY <1>2 DEF StampAtStart, PolicyInv, CacheInv
    <2>2. cache'.mtime = file.mtime /\ cache'.disabled = cache.disabled
      BY <1>2 DEF StampAtStart, TypeOK
    <2>3. ~bornStale' => cache.disabled = Disabled(file)
      BY <1>2 DEF StampAtStart
    <2>4. CacheInv'
      BY <1>2, <2>1, <2>2, <2>3 DEF StampAtStart, PolicyInv, CacheInv, hostVars, connVars
    <2>5. ASSUME NEW c \in Conns PROVE ConnInv(c)'
      BY <1>2, <2>1 DEF StampAtStart, PolicyInv, ConnInv, Served, hostVars, connVars
    <2> QED BY <2>4, <2>5 DEF PolicyInv
  <1> QED BY <1>1, <1>2

\* A table that is the file's is a policy in force: what is done with it
\* stays within the histories.
LEMMA UseCurrent ==
    ASSUME TypeOK, NEW c \in Conns, ConnInv(c),
           pc[c] \in {"check", "filter"},
           NEW D \in SUBSET Devices, ~bornStale => D = Disabled(file), Use(c, D),
           UNCHANGED <<file, bornStale, service, body, some, all>>
    PROVE  ConnInv(c)'
  <1>1. Enabled(file) \subseteq some[c] /\ all[c] \subseteq Enabled(file)
    BY DEF ConnInv, Served
  <1>2. CASE pc[c] = "check"
    <2>1. /\ service[c].serial \in D => pc'[c] = "refused"
          /\ service[c].serial \notin D => pc'[c] = "connect"
          /\ shown' = shown
      BY <1>2 DEF Use, Goto, TypeOK
    <2>2. service[c].op = "transport" => service[c].serial \in Devices
      BY DEF TypeOK, Service
    <2>3. ~bornStale /\ service[c].op = "transport" =>
             /\ service[c].serial \notin D => service[c].serial \in some[c]
             /\ service[c].serial \in D => service[c].serial \notin all[c]
      BY <1>1, <2>2 DEF Enabled
    <2>4. body[c] = {} /\ shown[c] = {}
      BY <1>2 DEF ConnInv
    <2> QED BY <1>1, <2>1, <2>3, <2>4 DEF ConnInv, Served
  <1>3. CASE pc[c] = "filter"
    <2>1. shown'[c] = body[c] \ D /\ pc'[c] \in {"track", "done"}
      BY <1>3 DEF Use, Goto, TypeOK
    <2>2. body[c] \subseteq Devices
      BY DEF TypeOK
    <2>3. ~bornStale => /\ shown'[c] \subseteq body[c] \cap some[c]
                        /\ body[c] \cap all[c] \subseteq shown'[c]
      BY <1>1, <2>1, <2>2 DEF Enabled
    <2> QED BY <1>1, <2>1, <2>3 DEF ConnInv, Served
  <1> QED BY <1>2, <1>3

\* ...and the other connections are not concerned.
LEMMA UseOthers ==
    ASSUME TypeOK, NEW c \in Conns, NEW D \in SUBSET Devices, Use(c, D),
           NEW e \in Conns, e # c
    PROVE  pc'[e] = pc[e] /\ shown'[e] = shown[e]
  <1>1. CASE pc[c] = "check"
    BY <1>1 DEF Use, Goto, TypeOK
  <1>2. CASE pc[c] # "check"
    <2>1. pc' = [pc EXCEPT ![c] = "track"] \/ pc' = [pc EXCEPT ![c] = "done"]
      BY <1>2 DEF Use, Goto
    <2> QED BY <1>2, <2>1 DEF Use, TypeOK
  <1> QED BY <1>1, <1>2

\* A connection that another one's step leaves as it was.
LEMMA Untouched ==
    ASSUME NEW e \in Conns, ConnInv(e),
           pc'[e] = pc[e], service'[e] = service[e], body'[e] = body[e],
           shown'[e] = shown[e], some'[e] = some[e], all'[e] = all[e],
           file' = file, bornStale' = bornStale
    PROVE  ConnInv(e)'
  BY DEF ConnInv, Served

LEMMA PolicyRefresh ==
    ASSUME TypeOK, PolicyInv, NEW c \in Conns, Refresh(c)
    PROVE  PolicyInv'
  <1>1. CASE file.mtime # cache.mtime
    <2>1. CacheInv'
      BY <1>1 DEF Refresh, PolicyInv, CacheInv, hostVars
    <2>2. ASSUME NEW e \in Conns PROVE ConnInv(e)'
      BY <1>1 DEF Refresh, PolicyInv, ConnInv, Served, hostVars
    <2> QED BY <2>1, <2>2 DEF PolicyInv
  <1>2. CASE file.mtime = cache.mtime
    <2>1. Use(c, cache.disabled) /\ holder' = holder /\ stamp' = stamp /\ holder = Nobody
      BY <1>2 DEF Refresh
    <2>2. start = "serving"
      BY DEF Refresh, PolicyInv, CacheInv
    <2>3. ~bornStale => cache.disabled = Disabled(file)
      BY <1>2, <2>2 DEF PolicyInv, CacheInv
    <2>4. cache.disabled \in SUBSET Devices
      BY DEF TypeOK
    <2>5. CacheInv'
      BY <2>1, <2>2 DEF Refresh, PolicyInv, CacheInv, hostVars
    <2>6. ASSUME NEW e \in Conns PROVE ConnInv(e)'
      <3>1. CASE e = c
        BY <3>1, <2>1, <2>3, <2>4, UseCurrent DEF Refresh, PolicyInv, hostVars
      <3>2. CASE e # c
        <4>1. pc'[e] = pc[e] /\ shown'[e] = shown[e]
          BY <3>2, <2>1, <2>4, UseOthers
        <4> QED BY <4>1, Untouched DEF Refresh, PolicyInv, hostVars
      <3> QED BY <3>1, <3>2
    <2> QED BY <2>5, <2>6 DEF PolicyInv
  <1> QED BY <1>1, <1>2

LEMMA PolicyReload ==
    ASSUME TypeOK, PolicyInv, NEW c \in Conns, Reload(c)
    PROVE  PolicyInv'
  <1>1. pc[c] \in {"check", "filter"}
    BY ProxyAssumption DEF Reload, PolicyInv, CacheInv
  <1>2. start = "serving"
    BY <1>1 DEF PolicyInv, CacheInv
  <1>3. Disabled(file) \in SUBSET Devices
    BY DisabledType
  <1>4. CacheInv'
    BY <1>2, ProxyAssumption DEF Reload, PolicyInv, CacheInv, hostVars
  <1>5. ASSUME NEW e \in Conns PROVE ConnInv(e)'
    <2>1. CASE e = c
      BY <2>1, <1>1, <1>3, UseCurrent DEF Reload, PolicyInv, hostVars
    <2>2. CASE e # c
      <3>1. pc'[e] = pc[e] /\ shown'[e] = shown[e]
        BY <2>2, <1>3, UseOthers DEF Reload
      <3> QED BY <3>1, Untouched DEF Reload, PolicyInv, hostVars
    <2> QED BY <2>1, <2>2
  <1> QED BY <1>4, <1>5 DEF PolicyInv

\* The steps that do not touch the cache: whoever holds its lock stays.
LEMMA CacheKept ==
    ASSUME TypeOK, CacheInv, NEW c \in Conns,
           pc[c] \notin {"check", "filter"}, start = "serving",
           NEW l, pc' = [pc EXCEPT ![c] = l],
           UNCHANGED hostVars, UNCHANGED policyVars
    PROVE  CacheInv'
  <1>1. holder # Nobody => holder # c /\ pc'[holder] = pc[holder]
    BY DEF CacheInv, TypeOK
  <1> QED BY <1>1 DEF CacheInv, hostVars, policyVars

LEMMA PolicyAuthenticate ==
    ASSUME TypeOK, PolicyInv, NEW c \in Conns, Authenticate(c)
    PROVE  PolicyInv'
  <1>1. CacheInv'
    BY CacheKept DEF Authenticate, Goto, PolicyInv
  <1>2. ASSUME NEW e \in Conns PROVE ConnInv(e)'
    <2>1. CASE e = c
      BY <2>1 DEF Authenticate, Goto, TypeOK, PolicyInv, ConnInv, Served, hostVars, policyVars
    <2>2. CASE e # c
      BY <2>2, Untouched DEF Authenticate, Goto, TypeOK, PolicyInv, hostVars, policyVars
    <2> QED BY <2>1, <2>2
  <1> QED BY <1>1, <1>2 DEF PolicyInv

LEMMA PolicyReadService ==
    ASSUME TypeOK, PolicyInv, NEW c \in Conns, ReadService(c)
    PROVE  PolicyInv'
  <1>1. PICK s \in Service, l \in {"done", "check", "connect"} :
            /\ service' = [service EXCEPT ![c] = s]
            /\ pc' = [pc EXCEPT ![c] = l]
            /\ l = "connect" => s.op # "transport"
    BY DEF ReadService, Goto
  <1>2. start = "serving"
    BY DEF ReadService, PolicyInv, CacheInv
  <1>3. CacheInv'
    BY <1>1, <1>2, CacheKept DEF ReadService, PolicyInv
  <1>4. ASSUME NEW e \in Conns PROVE ConnInv(e)'
    <2>1. CASE e = c
      <3>1. pc'[c] = l /\ service'[c] = s /\ some'[c] = Enabled(file) /\ all'[c] = Enabled(file)
        BY <1>1 DEF ReadService, TypeOK
      <3>2. body'[c] = {} /\ shown'[c] = {}
        BY DEF ReadService, PolicyInv, ConnInv
      <3> QED BY <1>1, <2>1, <3>1, <3>2 DEF ReadService, ConnInv, Served, hostVars
    <2>2. CASE e # c
      BY <1>1, <2>2, Untouched DEF ReadService, TypeOK, PolicyInv, hostVars, policyVars
    <2> QED BY <2>1, <2>2
  <1> QED BY <1>3, <1>4 DEF PolicyInv

LEMMA PolicyAsk ==
    ASSUME TypeOK, PolicyInv, NEW c \in Conns, Ask(c)
    PROVE  PolicyInv'
  <1>1. PICK l \in {"filter", "track", "forward"} : pc' = [pc EXCEPT ![c] = l]
    BY AskSteps
  <1>2. body' = body \/ (body' = [body EXCEPT ![c] = attached] /\ pc'[c] = "filter")
    BY AskSteps DEF TypeOK
  <1>3. start = "serving"
    BY DEF Ask, PolicyInv, CacheInv
  <1>4. CacheInv'
    BY <1>1, <1>3, CacheKept DEF Ask, PolicyInv
  <1>5. ASSUME NEW e \in Conns PROVE ConnInv(e)'
    <2>1. CASE e = c
      <3>1. pc'[c] = l /\ (body'[c] = {} \/ l = "filter")
        BY <1>1, <1>2 DEF Ask, PolicyInv, ConnInv, TypeOK
      <3> QED BY <2>1, <3>1 DEF Ask, PolicyInv, ConnInv, Served, hostVars, policyVars
    <2>2. CASE e # c
      <3>1. pc'[e] = pc[e] /\ body'[e] = body[e]
        BY <1>1, <1>2, <2>2 DEF TypeOK
      <3> QED BY <3>1, Untouched DEF Ask, PolicyInv, hostVars, policyVars
    <2> QED BY <2>1, <2>2
  <1> QED BY <1>4, <1>5 DEF PolicyInv

LEMMA PolicyReadPacket ==
    ASSUME TypeOK, PolicyInv, NEW c \in Conns, ReadPacket(c)
    PROVE  PolicyInv'
  <1>1. start = "serving"
    BY DEF ReadPacket, PolicyInv, CacheInv
  <1>2. CacheInv'
    BY <1>1, CacheKept DEF ReadPacket, Goto, PolicyInv
  <1>3. ASSUME NEW e \in Conns PROVE ConnInv(e)'
    <2>1. CASE e = c
      <3>1. pc'[c] = "filter" /\ some'[c] = Enabled(file) /\ all'[c] = Enabled(file)
        BY DEF ReadPacket, Goto, TypeOK
      <3> QED BY <2>1, <3>1 DEF ReadPacket, ConnInv, Served, hostVars
    <2>2. CASE e # c
      <3>1. /\ pc'[e] = pc[e] /\ body'[e] = body[e]
            /\ some'[e] = some[e] /\ all'[e] = all[e]
        BY <2>2 DEF ReadPacket, Goto, TypeOK
      <3> QED BY <3>1, Untouched DEF ReadPacket, PolicyInv, hostVars, policyVars
    <2> QED BY <2>1, <2>2
  <1> QED BY <1>2, <1>3 DEF PolicyInv

LEMMA PolicyEnds ==
    ASSUME TypeOK, PolicyInv, NEW c \in Conns, Ends(c)
    PROVE  PolicyInv'
  <1>1. start = "serving"
    BY DEF Ends, PolicyInv, CacheInv
  <1>2. CacheInv'
    BY <1>1, CacheKept DEF Ends, Goto, PolicyInv
  <1>3. ASSUME NEW e \in Conns PROVE ConnInv(e)'
    <2>1. CASE e = c
      <3>1. pc'[c] = "done"
        BY DEF Ends, Goto, TypeOK
      <3>2. pc[c] # "track" => body[c] = {} /\ shown[c] = {}
        BY DEF Ends, PolicyInv, ConnInv
      <3> QED BY <2>1, <3>1, <3>2 DEF Ends, PolicyInv, ConnInv, Served, hostVars, policyVars
    <2>2. CASE e # c
      BY <2>2, Untouched DEF Ends, Goto, TypeOK, PolicyInv, hostVars, policyVars
    <2> QED BY <2>1, <2>2
  <1> QED BY <1>2, <1>3 DEF PolicyInv

LEMMA PolicyNext == TypeOK /\ PolicyInv /\ [Next]_vars => PolicyInv'
  <1> SUFFICES ASSUME TypeOK, PolicyInv, [Next]_vars PROVE PolicyInv'
    OBVIOUS
  <1>1. CASE UNCHANGED vars
    BY <1>1 DEF PolicyInv, CacheInv, ConnInv, Served, vars
  <1>2. CASE RunDevice \/ Edit \/ Plug
    BY <1>2, PolicyHost
  <1>3. CASE LoadAtStart \/ StampAtStart
    BY <1>3, PolicyStart
  <1>4. ASSUME NEW c \in Conns, Serve(c) \/ Ends(c) PROVE PolicyInv'
    BY <1>4, PolicyAuthenticate, PolicyReadService, PolicyRefresh, PolicyReload,
       PolicyAsk, PolicyReadPacket, PolicyEnds DEF Serve
  <1> QED BY <1>1, <1>2, <1>3, <1>4 DEF Next

\* For any number of connections, devices and saves: a transport by serial
\* passes only if its device was enabled at some moment since the request and
\* is refused only if it was disabled at some moment, and a list that was
\* sent is the adb server's, filtered by a policy in force meanwhile,
\* whichever connection reloaded the cache and whenever the file changed;
\* only a file replaced during the start is excepted (refresh in
\* src/proxy_config.rs, proxy_connection in src/lib.rs).
THEOREM AnswersFollowPolicyAlways == Spec => []AnswersFollowPolicy
  <1>1. PolicyInv => AnswersFollowPolicy
    BY DEF PolicyInv, ConnInv, AnswersFollowPolicy
  <1> QED BY <1>1, TypeCorrect, PolicyInit, PolicyNext, PTL DEF Spec
=============================================================================
