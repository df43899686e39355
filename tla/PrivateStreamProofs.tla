-------------------------- MODULE PrivateStreamProofs --------------------------
(***************************************************************************)
(* Proofs about PrivateStream for any number of streams and chunks and any *)
(* capacity of the channels and the socket.                                *)
(***************************************************************************)
EXTENDS PrivateStream, TLAPS

(***************************************************************************)
(* The steps, by the process that takes them.                              *)
(***************************************************************************)
Forwards(s) == ForwardStep(s) \/ Delivered(s) \/ ClientGone(s)
Tasks(s) == ToUpStep(s) \/ ToUpWritten(s) \/ ToUpFailed(s) \/ FromUpStep(s) \/ BridgeEnd(s) \/ EndStep(s)
Reads == ReadResult \/ ReadData \/ PushData \/ ReadClose \/ ReaderEof

LEMMA NextSteps ==
    Next <=> \/ \E s \in Stream : Forwards(s) \/ Tasks(s)
             \/ Reads \/ ReadTorn \/ LoopStep \/ ConnectStep \/ AgentCrash
  BY DEF Next, PeerStep, ReaderStep, Forwards, Tasks, Reads

(***************************************************************************)
(* Queues.                                                                 *)
(***************************************************************************)
Elems(q) == {q[i] : i \in 1..Len(q)}

\* Nothing of stream s with a type in T follows a message of type t of s.
Final(q, t, s, T) ==
    \A i, j \in 1..Len(q) : i < j /\ q[i].type = t /\ q[i].id = s /\ q[j].id = s => q[j].type \notin T

OpenOnce(q, s)  == Final(q, "open", s, {"open"})
CloseLast(q, s) == Final(q, "close", s, {"open", "result", "data", "close", "cut"})

IsData(m, s) == m.type = "data" /\ m.id = s

\* The data of s in q are the chunks after lo up to hi, in order.
InFlight(q, s, lo, hi) ==
    /\ lo <= hi
    /\ \A i \in 1..Len(q) : IsData(q[i], s) => lo < q[i].n /\ q[i].n <= hi
    /\ \A x \in Nat : lo < x /\ x <= hi => \E i \in 1..Len(q) : IsData(q[i], s) /\ q[i].n = x
    /\ \A i, j \in 1..Len(q) : i < j /\ IsData(q[i], s) /\ IsData(q[j], s) => q[i].n < q[j].n

(***************************************************************************)
(* The invariants.                                                         *)
(***************************************************************************)
DownMessage == [type : {"open", "close"}, id : Stream]
               \cup [type : {"data"}, id : Stream, n : 0..MaxDown]
UpMessage == [type : {"result"}, id : Stream, ok : BOOLEAN]
             \cup [type : {"data"}, id : Stream, n : 0..MaxUp]
             \cup [type : {"close", "cut"}, id : Stream]

LoopOpens(s) == loop.pc \in {"connect", "accept", "refuse"} /\ loop.id = s
LoopHolds(s) == loop.pc = "send" /\ loop.id = s
ReaderHolds(s) == reader.pc = "send" /\ reader.id = s

\* Before forward_private has written its request, nobody else knows the stream.
NotBegun(s) ==
    fwd[s] \in {"none", "opening"} =>
        /\ bridge[s] = "none" /\ outcome[s] = "none" /\ ~LoopOpens(s)
        /\ clGot[s] = 0 /\ chan[s] = <<>> /\ ~ReaderHolds(s)
        /\ fwd[s] = "opening" => s \in streamTx
        /\ \A m \in Elems(toAgent) : m.id # s
        /\ \A m \in Elems(toDaemon) : m.id # s

\* Before the agent has granted it, nothing has moved on a stream.
NotOpened(s) ==
    bridge[s] = "none" =>
        /\ upRead[s] = 0 /\ upGot[s] = 0 /\ clRead[s] = 0 /\ achan[s] = <<>> /\ s \notin streams
        /\ outcome[s] # "ok" /\ fwd[s] \in {"none", "opening", "waiting", "abort", "failed", "done"}
        /\ \A m \in Elems(toAgent) : m.id = s => m.type = "open"
        /\ \A m \in Elems(toDaemon) : m.id = s => m.type = "result" /\ m.ok = FALSE

\* A request is handled once.
OpenedOnce(s) ==
    /\ OpenOnce(toAgent, s)
    /\ Open(s) \in Elems(toAgent) => bridge[s] = "none" /\ ~LoopOpens(s)
    /\ LoopOpens(s) => bridge[s] = "none"

\* StreamClose is the last message of a stream in its direction.
ClosedLast(s) ==
    /\ CloseLast(toAgent, s) /\ (Close(s) \in Elems(toAgent) => fwd[s] = "done")
    /\ CloseLast(toDaemon, s) /\ (Close(s) \in Elems(toDaemon) => bridge[s] = "done")

\* The maps and what holds their locks.
MapsInv(s) ==
    /\ s \in waiters => outcome[s] = "none" /\ fwd[s] \in {"opening", "waiting"}
    /\ fwd[s] \in {"none", "close"} => s \notin streamTx
    /\ fwd[s] = "done" /\ end[s] # "error" => s \notin streamTx
    /\ ReaderHolds(s) => s \in streamTx
    /\ LoopHolds(s) => s \in streams
    /\ bridge[s] \in {"close", "done"} => s \notin streams
    /\ end[s] # "" => fwd[s] \in {"abort", "failed", "remove", "close", "done"}
    /\ aend[s] # "" => bridge[s] \in {"remove", "close", "done"}

StreamInv(s) == NotBegun(s) /\ NotOpened(s) /\ OpenedOnce(s) /\ ClosedLast(s) /\ MapsInv(s)

CtrlInv == \A s \in Stream : StreamInv(s)

\* From the backend to a client that stays.
UpBase(s) == clGot[s] + Len(chan[s])

UpInv(s) ==
    cl[s] = "open" =>
        /\ \A i \in 1..Len(chan[s]) : chan[s][i] = clGot[s] + i
        /\ s \in streamTx /\ fwd[s] # "done" =>
              IF ReaderHolds(s) THEN reader.n = UpBase(s) + 1 /\ InFlight(toDaemon, s, UpBase(s) + 1, upRead[s])
                                ELSE InFlight(toDaemon, s, UpBase(s), upRead[s])
        /\ s \notin streamTx /\ fwd[s] \in {"waiting", "bridge", "deliver", "write"} =>
              UpBase(s) = upRead[s] /\ bridge[s] = "done"
        /\ end[s] = "stream_closed" => clGot[s] = upRead[s] /\ bridge[s] = "done"

\* From the client to a backend that stays.
DownBase(s) == upGot[s] + Len(achan[s])
DownSent(s) == IF fwd[s] = "write" THEN clRead[s] - 1 ELSE clRead[s]

DownInv(s) ==
    up[s] = "open" =>
        /\ \A i \in 1..Len(achan[s]) : achan[s][i] = upGot[s] + i
        /\ s \in streams /\ agentUp =>
              IF LoopHolds(s) THEN loop.n = DownBase(s) + 1 /\ InFlight(toAgent, s, DownBase(s) + 1, DownSent(s))
                              ELSE InFlight(toAgent, s, DownBase(s), DownSent(s))
        /\ s \notin streams /\ bridge[s] = "run" => DownBase(s) = clRead[s] /\ fwd[s] = "done"
        /\ aend[s] = "to_up" => upGot[s] = clRead[s] /\ fwd[s] = "done"

EndInv(s) ==
    /\ fwd[s] = "write" => clRead[s] > 0
    /\ aend[s] = "from_up" => up[s] = "closed" /\ upRead[s] = upSent[s]
    /\ end[s] = "client_eof" => cl[s] = "closed" /\ clRead[s] = clSent[s]

DataInv == \A s \in Stream : UpInv(s) /\ DownInv(s) /\ EndInv(s)

\* What holds as long as no cut frame has been read, and the part of it that always holds.
SafeInv == lost \/ (CtrlInv /\ DataInv)

WaitInv ==
    \A s \in Stream :
        /\ s \in waiters => outcome[s] = "none" /\ fwd[s] \in {"opening", "waiting"}
        /\ fwd[s] = "none" => outcome[s] = "none" /\ s \notin waiters
        /\ fwd[s] = "close" => s \notin streamTx
        /\ fwd[s] = "done" /\ end[s] # "error" => s \notin streamTx

(***************************************************************************)
(* Lemmas about queues.                                                    *)
(***************************************************************************)

LEMMA ElemsAppend ==
    ASSUME NEW M, NEW q \in Seq(M), NEW m \in M
    PROVE  /\ Append(q, m) \in Seq(M) /\ Len(Append(q, m)) = Len(q) + 1
           /\ Elems(Append(q, m)) = Elems(q) \cup {m}
  <1>1. /\ Append(q, m) \in Seq(M) /\ Len(Append(q, m)) = Len(q) + 1 /\ Len(q) \in Nat
        /\ \A i \in 1..Len(q) : Append(q, m)[i] = q[i]
        /\ Append(q, m)[Len(q) + 1] = m
    OBVIOUS
  <1>2. 1..(Len(q) + 1) = 1..Len(q) \cup {Len(q) + 1}
    BY <1>1
  <1> QED BY <1>1, <1>2 DEF Elems

LEMMA ElemsTail ==
    ASSUME NEW M, NEW q \in Seq(M), q # <<>>
    PROVE  /\ Head(q) \in M /\ Tail(q) \in Seq(M) /\ Len(Tail(q)) = Len(q) - 1 /\ Len(q) > 0
           /\ Elems(q) = {Head(q)} \cup Elems(Tail(q))
  <1>1. /\ Head(q) \in M /\ Tail(q) \in Seq(M) /\ Len(Tail(q)) = Len(q) - 1
        /\ Len(q) \in Nat /\ Len(q) > 0 /\ Head(q) = q[1]
        /\ \A i \in 1..Len(Tail(q)) : Tail(q)[i] = q[i + 1]
    OBVIOUS
  <1>2. ASSUME NEW i \in 1..Len(q) PROVE q[i] \in {Head(q)} \cup Elems(Tail(q))
    <2>1. CASE i = 1
      BY <1>1, <2>1
    <2>2. CASE i # 1
      <3>1. i - 1 \in 1..Len(Tail(q)) /\ Tail(q)[i - 1] = q[i]
        BY <1>1, <2>2
      <3> QED BY <3>1 DEF Elems
    <2> QED BY <2>1, <2>2
  <1>3. Elems(q) \subseteq {Head(q)} \cup Elems(Tail(q))
    BY <1>2 DEF Elems
  <1>4. ASSUME NEW i \in 1..Len(Tail(q)) PROVE Tail(q)[i] \in Elems(q)
    <2>1. i + 1 \in 1..Len(q)
      BY <1>1
    <2> QED BY <1>1, <2>1 DEF Elems
  <1>5. Head(q) \in Elems(q)
    BY <1>1 DEF Elems
  <1>6. {Head(q)} \cup Elems(Tail(q)) \subseteq Elems(q)
    BY <1>4, <1>5 DEF Elems
  <1> QED BY <1>1, <1>3, <1>6

LEMMA ElemsEmpty ==
    ASSUME NEW M
    PROVE  <<>> \in Seq(M) /\ Len(<<>>) = 0 /\ Elems(<<>>) = {}
  BY DEF Elems

LEMMA ElemsType ==
    ASSUME NEW M, NEW q \in Seq(M)
    PROVE  Elems(q) \subseteq M
  BY DEF Elems

\* A queue of bounded length stays one.
LEMMA QueueOps ==
    ASSUME NEW M, NEW q \in Seq(M), NEW c \in Nat, Len(q) <= c
    PROVE  /\ q # <<>> => Tail(q) \in Seq(M) /\ Len(Tail(q)) <= c /\ Head(q) \in M
           /\ \A m \in M : Len(q) < c => Append(q, m) \in Seq(M) /\ Len(Append(q, m)) <= c
  <1>1. Len(q) \in Nat
    OBVIOUS
  <1>2. q # <<>> => Tail(q) \in Seq(M) /\ Len(Tail(q)) = Len(q) - 1 /\ Head(q) \in M
    BY ElemsTail
  <1>3. \A m \in M : Append(q, m) \in Seq(M) /\ Len(Append(q, m)) = Len(q) + 1
    BY ElemsAppend
  <1> QED BY <1>1, <1>2, <1>3

LEMMA ConcatType ==
    ASSUME NEW M, NEW a \in Seq(M), NEW b \in Seq(M)
    PROVE  a \o b \in Seq(M) /\ Len(a \o b) = Len(a) + Len(b)
  OBVIOUS

LEMMA FinalAppend ==
    ASSUME NEW M, NEW q \in Seq(M), NEW m \in M, NEW t, NEW s, NEW T,
           Final(q, t, s, T),
           m.id # s \/ m.type \notin T \/ \A x \in Elems(q) : ~(x.type = t /\ x.id = s)
    PROVE  Final(Append(q, m), t, s, T)
  <1>1. /\ Len(Append(q, m)) = Len(q) + 1 /\ Len(q) \in Nat
        /\ \A i \in 1..Len(q) : Append(q, m)[i] = q[i]
        /\ Append(q, m)[Len(q) + 1] = m
    OBVIOUS
  <1> DEFINE r == Append(q, m)
  <1>2. SUFFICES ASSUME NEW i \in 1..Len(r), NEW j \in 1..Len(r), i < j,
                        r[i].type = t, r[i].id = s, r[j].id = s
                 PROVE  r[j].type \notin T
    BY DEF Final
  <1>3. i \in 1..Len(q) /\ r[i] = q[i] /\ q[i] \in Elems(q)
    BY <1>1, <1>2 DEF Elems
  <1>4. CASE j \in 1..Len(q)
    BY <1>1, <1>2, <1>3, <1>4 DEF Final
  <1>5. CASE j = Len(q) + 1
    BY <1>1, <1>2, <1>3, <1>5
  <1> QED BY <1>1, <1>4, <1>5

LEMMA FinalTail ==
    ASSUME NEW M, NEW q \in Seq(M), q # <<>>, NEW t, NEW s, NEW T,
           Final(q, t, s, T)
    PROVE  /\ Final(Tail(q), t, s, T)
           /\ Head(q).type = t /\ Head(q).id = s =>
                 \A x \in Elems(Tail(q)) : x.id = s => x.type \notin T
  <1>1. /\ Len(Tail(q)) = Len(q) - 1
        /\ Len(q) \in Nat /\ Len(q) > 0 /\ Head(q) = q[1]
        /\ \A i \in 1..Len(Tail(q)) : Tail(q)[i] = q[i + 1]
    OBVIOUS
  <1>2. \A i \in 1..Len(Tail(q)) : i + 1 \in 1..Len(q) /\ 1 < i + 1
    BY <1>1
  <1>3. Final(Tail(q), t, s, T)
    BY <1>1, <1>2 DEF Final
  <1>4. Head(q).type = t /\ Head(q).id = s =>
           \A i \in 1..Len(Tail(q)) : Tail(q)[i].id = s => Tail(q)[i].type \notin T
    BY <1>1, <1>2 DEF Final
  <1> QED BY <1>3, <1>4 DEF Elems

LEMMA FinalEmpty ==
    ASSUME NEW t, NEW s, NEW T
    PROVE  Final(<<>>, t, s, T)
  BY DEF Final

LEMMA InFlightNone ==
    ASSUME NEW M, NEW q \in Seq(M), NEW s, NEW lo \in Nat,
           \A m \in Elems(q) : ~IsData(m, s)
    PROVE  /\ InFlight(q, s, lo, lo)
           /\ \A hi \in Nat : InFlight(q, s, lo, hi) => hi = lo
  <1>1. \A i \in 1..Len(q) : ~IsData(q[i], s)
    BY DEF Elems
  <1>2. InFlight(q, s, lo, lo)
    BY <1>1 DEF InFlight
  <1>3. ASSUME NEW hi \in Nat, InFlight(q, s, lo, hi) PROVE hi = lo
    <2>1. lo <= hi /\ ~(lo < hi)
      BY <1>1, <1>3 DEF InFlight
    <2> QED BY <2>1
  <1> QED BY <1>2, <1>3

LEMMA InFlightOther ==
    ASSUME NEW M, NEW q \in Seq(M), NEW m \in M, NEW s, ~IsData(m, s), NEW lo \in Nat, NEW hi \in Nat,
           InFlight(q, s, lo, hi)
    PROVE  InFlight(Append(q, m), s, lo, hi)
  <1>1. /\ Len(Append(q, m)) = Len(q) + 1 /\ Len(q) \in Nat
        /\ \A i \in 1..Len(q) : Append(q, m)[i] = q[i]
        /\ Append(q, m)[Len(q) + 1] = m
    OBVIOUS
  <1> DEFINE r == Append(q, m)
  <1>2. \A i \in 1..Len(q) : i \in 1..Len(r)
    BY <1>1
  <1>3. \A i \in 1..Len(r) : IsData(r[i], s) => i \in 1..Len(q) /\ r[i] = q[i]
    BY <1>1
  <1> HIDE DEF r
  <1>4. ASSUME NEW x \in Nat, lo < x, x <= hi
        PROVE  \E i \in 1..Len(r) : IsData(r[i], s) /\ r[i].n = x
    <2>1. PICK i \in 1..Len(q) : IsData(q[i], s) /\ q[i].n = x
      BY <1>4 DEF InFlight
    <2>2. i \in 1..Len(r) /\ r[i] = q[i]
      BY <1>1, <1>2 DEF r
    <2> QED BY <2>1, <2>2
  <1>5. InFlight(r, s, lo, hi)
    BY <1>3, <1>4 DEF InFlight
  <1> QED BY <1>5 DEF r

LEMMA InFlightAppend ==
    ASSUME NEW M, NEW q \in Seq(M), NEW m \in M, NEW s, NEW lo \in Nat, NEW hi \in Nat,
           IsData(m, s), m.n = hi + 1, InFlight(q, s, lo, hi),
           \A x \in M : x.type = "data" => x.n \in Nat
    PROVE  InFlight(Append(q, m), s, lo, hi + 1)
  <1>1. /\ Len(Append(q, m)) = Len(q) + 1 /\ Len(q) \in Nat
        /\ \A i \in 1..Len(q) : Append(q, m)[i] = q[i] /\ q[i] \in M
        /\ Append(q, m)[Len(q) + 1] = m
    OBVIOUS
  <1> DEFINE r == Append(q, m)
  <1>2. \A i \in 1..Len(r) : \/ i \in 1..Len(q) /\ r[i] = q[i]
                             \/ i = Len(q) + 1 /\ r[i] = m
    BY <1>1
  <1>3. /\ \A i \in 1..Len(q) : i \in 1..Len(r) /\ r[i] = q[i]
        /\ Len(q) + 1 \in 1..Len(r) /\ r[Len(q) + 1] = m
    BY <1>1
  <1> HIDE DEF r
  <1>4. \A i \in 1..Len(q) : IsData(q[i], s) => q[i].n \in Nat /\ lo < q[i].n /\ q[i].n <= hi
    BY <1>1 DEF InFlight, IsData
  <1>5. lo <= hi + 1
    BY DEF InFlight
  <1>6. \A i \in 1..Len(r) : IsData(r[i], s) => lo < r[i].n /\ r[i].n <= hi + 1
    <2> SUFFICES ASSUME NEW i \in 1..Len(r), IsData(r[i], s) PROVE lo < r[i].n /\ r[i].n <= hi + 1
      OBVIOUS
    <2>1. CASE i \in 1..Len(q) /\ r[i] = q[i]
      BY <1>4, <2>1
    <2>2. CASE i = Len(q) + 1 /\ r[i] = m
      BY <1>5, <2>2 DEF InFlight
    <2> QED BY <1>2, <2>1, <2>2
  <1>7. ASSUME NEW x \in Nat, lo < x, x <= hi + 1
        PROVE  \E i \in 1..Len(r) : IsData(r[i], s) /\ r[i].n = x
    <2>1. CASE x <= hi
      <3>1. PICK i \in 1..Len(q) : IsData(q[i], s) /\ q[i].n = x
        BY <1>7, <2>1 DEF InFlight
      <3> QED BY <1>3, <3>1
    <2>2. CASE x = hi + 1
      BY <1>3, <2>2
    <2> QED BY <1>7, <2>1, <2>2
  <1>8. ASSUME NEW i \in 1..Len(r), NEW j \in 1..Len(r), i < j, IsData(r[i], s), IsData(r[j], s)
        PROVE  r[i].n < r[j].n
    <2>1. i \in 1..Len(q) /\ r[i] = q[i]
      BY <1>1, <1>2, <1>8
    <2>2. CASE j \in 1..Len(q) /\ r[j] = q[j]
      BY <1>8, <2>1, <2>2 DEF InFlight
    <2>3. CASE j = Len(q) + 1 /\ r[j] = m
      BY <1>4, <1>8, <2>1, <2>3
    <2> QED BY <1>2, <2>2, <2>3
  <1>9. InFlight(r, s, lo, hi + 1)
    BY <1>5, <1>6, <1>7, <1>8 DEF InFlight
  <1> QED BY <1>9 DEF r

LEMMA InFlightTail ==
    ASSUME NEW M, NEW q \in Seq(M), q # <<>>, NEW s, NEW lo \in Nat, NEW hi \in Nat,
           InFlight(q, s, lo, hi), \A x \in M : x.type = "data" => x.n \in Nat
    PROVE  /\ ~IsData(Head(q), s) => InFlight(Tail(q), s, lo, hi)
           /\ IsData(Head(q), s) => Head(q).n = lo + 1 /\ InFlight(Tail(q), s, lo + 1, hi)
  <1>1. /\ Len(Tail(q)) = Len(q) - 1
        /\ Len(q) \in Nat /\ Len(q) > 0 /\ Head(q) = q[1]
        /\ \A i \in 1..Len(q) : q[i] \in M
        /\ \A i \in 1..Len(Tail(q)) : Tail(q)[i] = q[i + 1]
    OBVIOUS
  <1> DEFINE r == Tail(q)
  <1>2. \A i \in 1..Len(r) : i + 1 \in 1..Len(q) /\ r[i] = q[i + 1]
    BY <1>1
  <1>3. \A i \in 1..Len(q) : i # 1 => i - 1 \in 1..Len(r) /\ r[i - 1] = q[i]
    BY <1>1
  <1>4. \A i \in 1..Len(q) : IsData(q[i], s) => q[i].n \in Nat /\ lo < q[i].n /\ q[i].n <= hi
    BY <1>1 DEF InFlight, IsData
  <1>5. \A i, j \in 1..Len(r) : i < j /\ IsData(r[i], s) /\ IsData(r[j], s) => r[i].n < r[j].n
    BY <1>1, <1>2 DEF InFlight
  <1> HIDE DEF r
  <1>6. CASE ~IsData(Head(q), s)
    <2>1. ASSUME NEW x \in Nat, lo < x, x <= hi
          PROVE  \E i \in 1..Len(r) : IsData(r[i], s) /\ r[i].n = x
      <3>1. PICK i \in 1..Len(q) : IsData(q[i], s) /\ q[i].n = x
        BY <2>1 DEF InFlight
      <3>2. i # 1
        BY <1>1, <1>6, <3>1
      <3> QED BY <1>3, <3>1, <3>2
    <2>2. \A i \in 1..Len(r) : IsData(r[i], s) => lo < r[i].n /\ r[i].n <= hi
      BY <1>2, <1>4
    <2>3. InFlight(r, s, lo, hi)
      BY <1>5, <2>1, <2>2 DEF InFlight
    <2> QED BY <1>6, <2>3 DEF r
  <1>7. CASE IsData(Head(q), s)
    <2>0. 1 \in 1..Len(q) /\ IsData(q[1], s)
      BY <1>1, <1>7
    <2>1. q[1].n \in Nat /\ lo < q[1].n /\ q[1].n <= hi
      BY <1>4, <2>0
    <2>2. PICK k \in 1..Len(q) : IsData(q[k], s) /\ q[k].n = lo + 1
      BY <2>1 DEF InFlight
    <2>3. k = 1
      <3>1. SUFFICES ASSUME k # 1 PROVE FALSE
        OBVIOUS
      <3>2. q[1].n < q[k].n
        BY <1>1, <2>0, <2>2, <3>1 DEF InFlight
      <3> QED BY <2>1, <2>2, <3>2
    <2>4. q[1].n = lo + 1 /\ lo + 1 <= hi
      BY <2>1, <2>2, <2>3
    <2>5. ASSUME NEW x \in Nat, lo + 1 < x, x <= hi
          PROVE  \E i \in 1..Len(r) : IsData(r[i], s) /\ r[i].n = x
      <3>1. PICK i \in 1..Len(q) : IsData(q[i], s) /\ q[i].n = x
        BY <2>5 DEF InFlight
      <3>2. i # 1
        BY <2>4, <2>5, <3>1
      <3> QED BY <1>3, <3>1, <3>2
    <2>6. ASSUME NEW i \in 1..Len(r), IsData(r[i], s) PROVE lo + 1 < r[i].n /\ r[i].n <= hi
      <3>1. i + 1 \in 1..Len(q) /\ r[i] = q[i + 1] /\ 1 < i + 1
        BY <1>1, <1>2 DEF r
      <3>2. q[1].n < q[i + 1].n
        BY <2>0, <2>6, <3>1 DEF InFlight
      <3>3. q[i + 1].n \in Nat /\ q[i + 1].n <= hi
        BY <1>4, <2>6, <3>1
      <3> QED BY <2>4, <3>1, <3>2, <3>3
    <2>7. InFlight(r, s, lo + 1, hi)
      BY <1>5, <2>4, <2>5, <2>6 DEF InFlight
    <2> QED BY <1>1, <1>7, <2>4, <2>7 DEF r
  <1> QED BY <1>6, <1>7

(***************************************************************************)
(* Messages, and the two readers.                                          *)
(***************************************************************************)

LEMMA MessageFacts ==
    /\ \A s : /\ Open(s).type = "open" /\ Open(s).id = s
              /\ Close(s).type = "close" /\ Close(s).id = s
              /\ Cut(s).type = "cut" /\ Cut(s).id = s
    /\ \A s, n : Data(s, n).type = "data" /\ Data(s, n).id = s /\ Data(s, n).n = n
    /\ \A s, ok : Result(s, ok).type = "result" /\ Result(s, ok).id = s /\ Result(s, ok).ok = ok
    /\ \A s \in Stream : /\ Open(s) \in DownMessage /\ Close(s) \in DownMessage
                         /\ Close(s) \in UpMessage /\ Cut(s) \in UpMessage
                         /\ \A n \in 0..MaxDown : Data(s, n) \in DownMessage
                         /\ \A n \in 0..MaxUp : Data(s, n) \in UpMessage
                         /\ Result(s, TRUE) \in UpMessage /\ Result(s, FALSE) \in UpMessage
  BY DEF Open, Close, Cut, Data, Result, DownMessage, UpMessage

LEMMA DownFacts ==
    ASSUME NEW m \in DownMessage
    PROVE  /\ m \in Message /\ m.id \in Stream /\ m.type \in {"open", "close", "data"}
           /\ m.type = "data" => m.n \in 0..MaxDown /\ m.n \in Nat /\ m = Data(m.id, m.n)
           /\ m.type = "open" => m = Open(m.id)
           /\ m.type = "close" => m = Close(m.id)
  <1>1. CASE m \in [type : {"open", "close"}, id : Stream]
    BY <1>1 DEF Message, Open, Close
  <1>2. CASE m \in [type : {"data"}, id : Stream, n : 0..MaxDown]
    BY <1>2, BoundAssumption DEF Message, Data
  <1> QED BY <1>1, <1>2 DEF DownMessage

LEMMA UpFacts ==
    ASSUME NEW m \in UpMessage
    PROVE  /\ m \in Message /\ m.id \in Stream /\ m.type \in {"result", "close", "data", "cut"}
           /\ m.type = "data" => m.n \in 0..MaxUp /\ m.n \in Nat
           /\ m.type = "result" => m.ok \in BOOLEAN
           /\ m.type = "close" => m = Close(m.id)
  <1>1. CASE m \in [type : {"result"}, id : Stream, ok : BOOLEAN]
    BY <1>1 DEF Message
  <1>2. CASE m \in [type : {"data"}, id : Stream, n : 0..MaxUp]
    BY <1>2, BoundAssumption DEF Message
  <1>3. CASE m \in [type : {"close", "cut"}, id : Stream]
    BY <1>3 DEF Message, Close
  <1> QED BY <1>1, <1>2, <1>3 DEF UpMessage

\* The states of agent_read_loop and of the agent's main loop.
Readers == {Idle, [pc |-> "ended"]} \cup [pc : {"send"}, id : Stream, n : Nat]
Loops == {Idle} \cup [pc : {"connect", "accept", "refuse"}, id : Stream]
         \cup [pc : {"send"}, id : Stream, n : Nat]

LEMMA ReaderFacts ==
    /\ Idle.pc = "read" /\ Idle \in Readers /\ Idle \in Loops
    /\ [pc |-> "ended"] \in Readers /\ [pc |-> "ended"].pc = "ended"
    /\ \A s \in Stream, n \in Nat :
          /\ Holding(s, n).pc = "send" /\ Holding(s, n).id = s /\ Holding(s, n).n = n
          /\ Holding(s, n) \in Readers /\ Holding(s, n) \in Loops
    /\ \A s \in Stream, p \in {"connect", "accept", "refuse"} :
          Busy(p, s).pc = p /\ Busy(p, s).id = s /\ Busy(p, s) \in Loops
    /\ \A r \in Readers : /\ r.pc \in {"read", "ended", "send"}
                          /\ r.pc = "send" => r.id \in Stream /\ r.n \in Nat
    /\ \A l \in Loops : /\ l.pc \in {"read", "connect", "accept", "refuse", "send"}
                        /\ l.pc # "read" => l.id \in Stream
                        /\ l.pc = "send" => l.n \in Nat
                        /\ l.pc = "read" => l = Idle
  BY DEF Readers, Loops, Idle, Holding, Busy

LEMMA SeqNarrow ==
    ASSUME NEW A, NEW B, A \subseteq B, NEW q \in Seq(A)
    PROVE  q \in Seq(B)
  OBVIOUS

\* TypeOK with the messages of each direction and the chunks there can be.
TypeInv ==
    /\ fwd \in [Stream -> {"none", "opening", "waiting", "abort", "failed", "bridge",
                           "deliver", "write", "remove", "close", "done"}]
    /\ end \in [Stream -> {"", "gave_up", "refused", "error", "client_eof", "client_gone",
                           "stream_closed"}]
    /\ streamTx \in SUBSET Stream /\ waiters \in SUBSET Stream /\ streams \in SUBSET Stream
    /\ outcome \in [Stream -> {"none", "ok", "fail"}]
    /\ chan \in [Stream -> Seq(0..MaxUp)] /\ achan \in [Stream -> Seq(0..MaxDown)]
    /\ \A s \in Stream : Len(chan[s]) <= Cap /\ Len(achan[s]) <= Cap
    /\ reader \in Readers /\ (reader.pc = "send" => reader.n \in 0..MaxUp)
    /\ loop \in Loops /\ (loop.pc = "send" => loop.n \in 0..MaxDown)
    /\ toAgent \in Seq(DownMessage) /\ Len(toAgent) <= SockCap
    /\ toDaemon \in Seq(UpMessage) /\ Len(toDaemon) <= SockCap
    /\ half \in SUBSET Stream /\ (\A a, b \in half : a = b)
    /\ half # {} => Len(toDaemon) < SockCap
    /\ writing \in SUBSET Stream /\ lost \in BOOLEAN
    /\ agentUp \in BOOLEAN
    /\ bridge \in [Stream -> {"none", "run", "remove", "close", "done"}]
    /\ aend \in [Stream -> {"", "to_up", "from_up", "write_failed"}]
    /\ up \in [Stream -> {"none", "open", "closed"}]
    /\ upSent \in [Stream -> 0..MaxUp] /\ upRead \in [Stream -> 0..MaxUp]
    /\ cl \in [Stream -> {"open", "closed", "broken"}]
    /\ clSent \in [Stream -> 0..MaxDown] /\ clRead \in [Stream -> 0..MaxDown]
    /\ upGot \in [Stream -> 0..MaxDown] /\ clGot \in [Stream -> 0..MaxUp]

LEMMA TypeInvIsType == TypeInv => TypeOK
  <1> SUFFICES ASSUME TypeInv PROVE TypeOK
    OBVIOUS
  <1>1. toAgent \in Seq(Message) /\ toDaemon \in Seq(Message)
    <2>1. DownMessage \subseteq Message /\ UpMessage \subseteq Message
      BY DownFacts, UpFacts
    <2> QED BY <2>1, SeqNarrow DEF TypeInv
  <1>2. \A s \in Stream : chan[s] \in Seq(Nat) /\ achan[s] \in Seq(Nat)
    <2>1. 0..MaxUp \subseteq Nat /\ 0..MaxDown \subseteq Nat
      BY BoundAssumption
    <2> QED BY <2>1, SeqNarrow DEF TypeInv
  <1>3. chan \in [Stream -> Seq(Nat)] /\ achan \in [Stream -> Seq(Nat)]
    BY <1>2 DEF TypeInv
  <1> QED BY <1>1, <1>3 DEF TypeInv, TypeOK, Readers, Loops

(***************************************************************************)
(* Type correctness.                                                       *)
(***************************************************************************)

LEMMA TypeInit == Init => TypeInv
  <1> SUFFICES ASSUME Init PROVE TypeInv
    OBVIOUS
  <1>1. /\ chan \in [Stream -> Seq(0..MaxUp)] /\ achan \in [Stream -> Seq(0..MaxDown)]
        /\ \A s \in Stream : Len(chan[s]) = 0 /\ Len(achan[s]) = 0
    BY ElemsEmpty DEF Init
  <1>2. toAgent \in Seq(DownMessage) /\ toDaemon \in Seq(UpMessage) /\ Len(toAgent) = 0 /\ Len(toDaemon) = 0
    BY ElemsEmpty DEF Init
  <1>3. 0 \in 0..MaxUp /\ 0 \in 0..MaxDown /\ 0 <= Cap /\ 0 <= SockCap
    BY BoundAssumption, CapAssumption
  <1>4. reader \in Readers /\ loop \in Loops /\ reader.pc = "read" /\ loop.pc = "read"
    BY ReaderFacts DEF Init
  <1> QED BY <1>1, <1>2, <1>3, <1>4 DEF Init, TypeInv

\* What a write or a read does to the types of the two directions of the socket.
LEMMA SendType ==
    ASSUME TypeInv
    PROVE  /\ \A m \in DownMessage : SendToAgent(m) =>
                 toAgent' \in Seq(DownMessage) /\ Len(toAgent') <= SockCap
           /\ \A m \in UpMessage : SendToDaemon(m) =>
                 toDaemon' \in Seq(UpMessage) /\ Len(toDaemon') <= SockCap /\ half = {}
  <1>1. /\ toAgent \in Seq(DownMessage) /\ Len(toAgent) <= SockCap
        /\ toDaemon \in Seq(UpMessage) /\ Len(toDaemon) <= SockCap
    BY DEF TypeInv
  <1>2. SockCap \in Nat
    BY CapAssumption
  <1>3. ASSUME NEW m \in DownMessage, SendToAgent(m) PROVE toAgent' \in Seq(DownMessage) /\ Len(toAgent') <= SockCap
    <2>1. toAgent' = Append(toAgent, m) /\ Len(toAgent) < SockCap
      BY <1>3 DEF SendToAgent
    <2> QED BY <1>1, <1>2, <2>1, QueueOps
  <1>4. ASSUME NEW m \in UpMessage, SendToDaemon(m)
        PROVE  toDaemon' \in Seq(UpMessage) /\ Len(toDaemon') <= SockCap /\ half = {}
    <2>1. toDaemon' = Append(toDaemon, m) /\ Len(toDaemon) < SockCap /\ half = {}
      BY <1>4 DEF SendToDaemon
    <2>2. toDaemon' \in Seq(UpMessage) /\ Len(toDaemon') <= SockCap
      BY <1>1, <1>2, <2>1, QueueOps
    <2> QED BY <2>1, <2>2
  <1> QED BY <1>3, <1>4

LEMMA ReadType ==
    ASSUME TypeInv
    PROVE  /\ toAgent # <<>> => /\ Tail(toAgent) \in Seq(DownMessage) /\ Len(Tail(toAgent)) <= SockCap
                                /\ Head(toAgent) \in DownMessage
           /\ toDaemon # <<>> => /\ Tail(toDaemon) \in Seq(UpMessage) /\ Len(Tail(toDaemon)) <= SockCap
                                 /\ Head(toDaemon) \in UpMessage
                                 /\ half # {} => Len(Tail(toDaemon)) < SockCap
  <1>1. toAgent \in Seq(DownMessage) /\ Len(toAgent) <= SockCap
        /\ toDaemon \in Seq(UpMessage) /\ Len(toDaemon) <= SockCap
    BY DEF TypeInv
  <1>2. SockCap \in Nat
    BY CapAssumption
  <1>3. toDaemon # <<>> /\ half # {} => Len(Tail(toDaemon)) < SockCap
    <2>1. toDaemon # <<>> => Len(Tail(toDaemon)) = Len(toDaemon) - 1 /\ Len(toDaemon) \in Nat
      BY <1>1, ElemsTail
    <2>2. half # {} => Len(toDaemon) < SockCap
      BY DEF TypeInv
    <2> QED BY <1>2, <2>1, <2>2
  <1> QED BY <1>1, <1>2, <1>3, QueueOps

\* The bytes a dropped from_up leaves behind take the room its frame had.
LEMMA DropType ==
    ASSUME TypeInv, NEW s \in Stream, DropFromUp(s)
    PROVE  /\ toDaemon' \in Seq(UpMessage) /\ Len(toDaemon') <= SockCap
           /\ half' \in SUBSET Stream /\ (\A a, b \in half' : a = b)
           /\ half' # {} => Len(toDaemon') < SockCap
  <1>0. toDaemon \in Seq(UpMessage) /\ Len(toDaemon) <= SockCap
    BY DEF TypeInv
  <1>1. toDaemon \in Seq(UpMessage) /\ Len(toDaemon) <= SockCap /\ Len(toDaemon) \in Nat /\ SockCap \in Nat
    BY <1>0, CapAssumption
  <1>2. /\ half \in SUBSET Stream /\ (\A a, b \in half : a = b) /\ half' = half \ {s}
        /\ half # {} => Len(toDaemon) < SockCap
    BY DEF TypeInv, DropFromUp
  <1>3. CASE s \in half
    <2>1. half' = {} /\ toDaemon' = Append(toDaemon, Cut(s)) /\ Len(toDaemon) < SockCap
      BY <1>2, <1>3 DEF DropFromUp
    <2>2. toDaemon' \in Seq(UpMessage) /\ Len(toDaemon') <= SockCap
      BY <1>1, <2>1, QueueOps, MessageFacts
    <2> QED BY <2>1, <2>2
  <1>4. CASE s \notin half
    BY <1>1, <1>2, <1>4 DEF DropFromUp
  <1> QED BY <1>3, <1>4

LEMMA ChanType ==
    ASSUME TypeInv, NEW s \in Stream
    PROVE  /\ chan[s] # <<>> => /\ Tail(chan[s]) \in Seq(0..MaxUp) /\ Len(Tail(chan[s])) <= Cap
                                /\ Head(chan[s]) \in 0..MaxUp
           /\ achan[s] # <<>> => /\ Tail(achan[s]) \in Seq(0..MaxDown) /\ Len(Tail(achan[s])) <= Cap
                                 /\ Head(achan[s]) \in 0..MaxDown
           /\ \A n \in 0..MaxUp : Len(chan[s]) < Cap =>
                 Append(chan[s], n) \in Seq(0..MaxUp) /\ Len(Append(chan[s], n)) <= Cap
           /\ \A n \in 0..MaxDown : Len(achan[s]) < Cap =>
                 Append(achan[s], n) \in Seq(0..MaxDown) /\ Len(Append(achan[s], n)) <= Cap
  <1>1. chan[s] \in Seq(0..MaxUp) /\ achan[s] \in Seq(0..MaxDown) /\ Len(chan[s]) <= Cap /\ Len(achan[s]) <= Cap
    BY DEF TypeInv
  <1>2. Cap \in Nat
    BY CapAssumption
  <1> QED BY <1>1, <1>2, QueueOps

LEMMA TypeForward ==
    ASSUME TypeInv, NEW s \in Stream, Forwards(s)
    PROVE  TypeInv'
  <1> USE DEF daemonVars, agentVars, taskVars, upVars, clVars
  <1>1. CASE Begin(s)
    BY <1>1 DEF Begin, TypeInv
  <1>2. CASE WriteOpen(s)
    <2>1. toAgent' \in Seq(DownMessage) /\ Len(toAgent') <= SockCap
      BY <1>2, SendType, MessageFacts DEF WriteOpen
    <2> QED BY <1>2, <2>1 DEF WriteOpen, TypeInv
  <1>3. CASE WriteFailed(s) \/ TimedOut(s)
    BY <1>3 DEF WriteFailed, TimedOut, TypeInv
  <1>4. CASE Abort(s)
    BY <1>4 DEF Abort, TypeInv
  <1>5. CASE OpenRefused(s)
    BY <1>5 DEF OpenRefused, TypeInv
  <1>6. CASE OpenGranted(s)
    BY <1>6 DEF OpenGranted, TypeInv
  <1>7. CASE ReadClient(s)
    <2>0. clRead[s] \in 0..MaxDown /\ clSent[s] \in 0..MaxDown /\ clRead[s] < clSent[s]
      BY <1>7 DEF ReadClient, TypeInv
    <2>1. clRead[s] + 1 \in 0..MaxDown
      BY <2>0, BoundAssumption
    <2> QED BY <1>7, <2>1 DEF ReadClient, TypeInv
  <1>8. CASE WriteData(s)
    <2>1. toAgent' \in Seq(DownMessage) /\ Len(toAgent') <= SockCap
      <3>1. clRead[s] \in 0..MaxDown
        BY DEF TypeInv
      <3> QED BY <1>8, <3>1, SendType, MessageFacts DEF WriteData
    <2> QED BY <1>8, <2>1 DEF WriteData, TypeInv
  <1>9. CASE ReturnError(s)
    BY <1>9 DEF ReturnError, TypeInv
  <1>10. CASE ClientEof(s)
    BY <1>10 DEF ClientEof, TypeInv
  <1>11. CASE Deliver(s)
    BY <1>11, ChanType DEF Deliver, TypeInv
  <1>12. CASE Delivered(s)
    BY <1>12 DEF Delivered, TypeInv
  <1>16. CASE ClientGone(s)
    BY <1>16 DEF ClientGone, TypeInv
  <1>13. CASE ChannelClosed(s)
    BY <1>13 DEF ChannelClosed, TypeInv
  <1>14. CASE RemoveTx(s)
    BY <1>14 DEF RemoveTx, TypeInv
  <1>15. CASE WriteClose(s)
    <2>1. toAgent' \in Seq(DownMessage) /\ Len(toAgent') <= SockCap
      <3>1. CASE SendToAgent(Close(s))
        BY <3>1, SendType, MessageFacts
      <3>2. CASE UNCHANGED toAgent
        BY <3>2 DEF TypeInv
      <3> QED BY <1>15, <3>1, <3>2 DEF WriteClose
    <2> QED BY <1>15, <2>1 DEF WriteClose, TypeInv
  <1> QED BY <1>1, <1>2, <1>3, <1>4, <1>5, <1>6, <1>7, <1>8, <1>9, <1>10, <1>11, <1>12, <1>13, <1>14, <1>15,
             <1>16 DEF Forwards, ForwardStep

LEMMA TypeReader ==
    ASSUME TypeInv, ReaderStep
    PROVE  TypeInv'
  <1> USE DEF daemonVars, agentVars, taskVars, upVars, clVars
  <1> DEFINE m == Head(toDaemon)
  <1>0. toDaemon # <<>> => m.id \in Stream /\ (m.type = "data" => m.n \in 0..MaxUp /\ m.n \in Nat)
    BY ReadType, UpFacts
  <1>1. CASE ReadResult
    <2>1. /\ m.id \in Stream /\ Tail(toDaemon) \in Seq(UpMessage) /\ Len(Tail(toDaemon)) <= SockCap
          /\ half # {} => Len(Tail(toDaemon)) < SockCap
      BY <1>0, <1>1, ReadType DEF ReadResult, Received
    <2> QED BY <1>1, <2>1 DEF ReadResult, TypeInv
  <1>2. CASE ReadData
    <2>1. /\ m.id \in Stream /\ m.n \in 0..MaxUp /\ m.n \in Nat
          /\ Tail(toDaemon) \in Seq(UpMessage) /\ Len(Tail(toDaemon)) <= SockCap
          /\ half # {} => Len(Tail(toDaemon)) < SockCap
      BY <1>0, <1>2, ReadType DEF ReadData, Received
    <2>2. reader' \in Readers /\ (reader'.pc = "send" => reader'.n \in 0..MaxUp)
      BY <1>2, <2>1, ReaderFacts DEF ReadData
    <2> QED BY <1>2, <2>1, <2>2 DEF ReadData, TypeInv
  <1>3. CASE PushData
    <2>1. reader.id \in Stream /\ reader.n \in 0..MaxUp
      BY <1>3, ReaderFacts DEF PushData, TxLocked, TypeInv
    <2>2. reader' \in Readers /\ reader'.pc = "read"
      BY <1>3, ReaderFacts DEF PushData
    <2>3. chan' \in [Stream -> Seq(0..MaxUp)] /\ \A s \in Stream : Len(chan'[s]) <= Cap
      <3>1. CASE UNCHANGED chan
        BY <3>1 DEF TypeInv
      <3>2. CASE /\ Len(chan[reader.id]) < Cap
                 /\ chan' = [chan EXCEPT ![reader.id] = Append(chan[reader.id], reader.n)]
        <4>1. Append(chan[reader.id], reader.n) \in Seq(0..MaxUp) /\ Len(Append(chan[reader.id], reader.n)) <= Cap
          BY <2>1, <3>2, ChanType
        <4> QED BY <2>1, <3>2, <4>1 DEF TypeInv
      <3> QED BY <1>3, <3>1, <3>2 DEF PushData
    <2> QED BY <1>3, <2>2, <2>3 DEF PushData, TypeInv
  <1>4. CASE ReadClose
    <2>1. /\ m.id \in Stream /\ Tail(toDaemon) \in Seq(UpMessage) /\ Len(Tail(toDaemon)) <= SockCap
          /\ half # {} => Len(Tail(toDaemon)) < SockCap
      BY <1>0, <1>4, ReadType DEF ReadClose, Received
    <2> QED BY <1>4, <2>1 DEF ReadClose, TypeInv
  <1>5. CASE ReaderEof
    <2>1. reader' \in Readers /\ reader'.pc = "ended"
      BY <1>5, ReaderFacts DEF ReaderEof
    <2> QED BY <1>5, <2>1 DEF ReaderEof, TypeInv
  <1>6. CASE ReadTorn
    <2>0. /\ lost' = TRUE /\ toDaemon # <<>>
          /\ UNCHANGED <<fwd, end, streamTx, waiters, outcome, chan, toAgent, agentVars, upVars, clVars>>
      BY <1>6 DEF ReadTorn, Received
    <2>1. reader' \in Readers /\ (reader'.pc = "send" => reader'.n \in 0..MaxUp)
      <3>1. reader' = reader \/ reader' = [pc |-> "ended"]
        BY <1>6 DEF ReadTorn
      <3>2. CASE reader' = reader
        BY <3>2 DEF TypeInv
      <3>3. CASE reader' = [pc |-> "ended"]
        BY <3>3, ReaderFacts
      <3> QED BY <3>1, <3>2, <3>3
    <2>2. toDaemon' \in Seq(UpMessage) /\ Len(toDaemon') <= SockCap /\ (half # {} => Len(toDaemon') < SockCap)
      <3>0. /\ toDaemon \in Seq(UpMessage) /\ Len(toDaemon) <= SockCap /\ SockCap \in Nat /\ Len(toDaemon) \in Nat
            /\ half # {} => Len(toDaemon) < SockCap
        <4>1. toDaemon \in Seq(UpMessage) /\ Len(toDaemon) <= SockCap /\ (half # {} => Len(toDaemon) < SockCap)
          BY DEF TypeInv
        <4>2. Len(toDaemon) \in Nat /\ SockCap \in Nat
          BY <4>1, CapAssumption
        <4> QED BY <4>1, <4>2
      <3>1. CASE UNCHANGED toDaemon
        BY <3>0, <3>1
      <3>2. ASSUME Len(toDaemon) > 1,
                   NEW q \in {<<>>} \cup {<<g>> : g \in Garbage}, NEW torn \in {<<>>, <<Head(toDaemon)>>},
                   toDaemon' = q \o torn \o Tail(Tail(toDaemon))
            PROVE  toDaemon' \in Seq(UpMessage) /\ Len(toDaemon') <= Len(toDaemon)
        <4>1. Garbage \subseteq UpMessage
          <5>1. 0 \in 0..MaxUp
            BY BoundAssumption
          <5>2. \A s \in Stream : Data(s, 0) \in UpMessage /\ Close(s) \in UpMessage
            BY <5>1, MessageFacts
          <5>3. \A s \in Stream, ok \in BOOLEAN : Result(s, ok) \in UpMessage
            BY MessageFacts
          <5> QED BY <5>2, <5>3 DEF Garbage
        <4>0. ASSUME NEW g \in UpMessage PROVE <<g>> \in Seq(UpMessage) /\ Len(<<g>>) = 1
          OBVIOUS
        <4>2. q \in Seq(UpMessage) /\ Len(q) <= 1 /\ Len(q) \in Nat
          <5>1. CASE q = <<>>
            BY <5>1, ElemsEmpty
          <5>2. CASE q \in {<<g>> : g \in Garbage}
            <6>1. PICK g \in Garbage : q = <<g>>
              BY <5>2
            <6>2. g \in UpMessage
              BY <4>1
            <6> QED BY <4>0, <6>1, <6>2
          <5> QED BY <5>1, <5>2
        <4>3. torn \in Seq(UpMessage) /\ Len(torn) <= 1 /\ Len(torn) \in Nat
          <5>1. Head(toDaemon) \in UpMessage
            BY <2>0, <3>0, ElemsTail
          <5>2. CASE torn = <<>>
            BY <5>2, ElemsEmpty
          <5>3. CASE torn = <<Head(toDaemon)>>
            BY <4>0, <5>1, <5>3
          <5> QED BY <5>2, <5>3
        <4>4. Tail(toDaemon) \in Seq(UpMessage) /\ Len(Tail(toDaemon)) = Len(toDaemon) - 1
          BY <2>0, <3>0, ElemsTail
        <4>5. Tail(toDaemon) # <<>>
          <5>1. Len(Tail(toDaemon)) > 0
            BY <3>0, <3>2, <4>4
          <5>2. Len(<<>>) = 0
            OBVIOUS
          <5>3. ASSUME Tail(toDaemon) = <<>> PROVE Len(Tail(toDaemon)) = 0
            BY <5>2, <5>3
          <5> QED BY <5>1, <5>3
        <4>6. Tail(Tail(toDaemon)) \in Seq(UpMessage) /\ Len(Tail(Tail(toDaemon))) = Len(toDaemon) - 2
          BY <3>0, <3>2, <4>4, <4>5, ElemsTail
        <4>7. (q \o torn) \in Seq(UpMessage) /\ Len(q \o torn) = Len(q) + Len(torn)
          BY <4>2, <4>3
        <4>8. toDaemon' \in Seq(UpMessage) /\ Len(toDaemon') = Len(q \o torn) + Len(Tail(Tail(toDaemon)))
          <5> DEFINE a == q \o torn
                     b == Tail(Tail(toDaemon))
          <5>1. a \in Seq(UpMessage) /\ b \in Seq(UpMessage) /\ toDaemon' = a \o b
            BY <3>2, <4>6, <4>7
          <5> HIDE DEF a, b
          <5>2. toDaemon' \in Seq(UpMessage) /\ Len(toDaemon') = Len(a) + Len(b)
            BY <5>1, ConcatType
          <5> QED BY <5>2 DEF a, b
        <4>9. \A c, d, l \in Nat : c <= 1 /\ d <= 1 => (c + d) + (l - 2) <= l
          OBVIOUS
        <4>10. Len(toDaemon') = (Len(q) + Len(torn)) + (Len(toDaemon) - 2)
          BY <4>6, <4>7, <4>8, Zenon
        <4>11. (Len(q) + Len(torn)) + (Len(toDaemon) - 2) <= Len(toDaemon)
          BY <3>0, <4>2, <4>3, <4>9, Zenon
        <4> QED BY <4>8, <4>10, <4>11, Zenon
      <3>3. UNCHANGED toDaemon \/ (toDaemon' \in Seq(UpMessage) /\ Len(toDaemon') <= Len(toDaemon))
        BY <1>6, <3>2 DEF ReadTorn
      <3>4. ASSUME toDaemon' \in Seq(UpMessage), Len(toDaemon') <= Len(toDaemon)
            PROVE  Len(toDaemon') <= SockCap /\ (half # {} => Len(toDaemon') < SockCap)
        <4>1. Len(toDaemon') \in Nat
          BY <3>4
        <4> QED BY <3>0, <3>4, <4>1
      <3> QED BY <3>1, <3>3, <3>4
    <2> QED BY <2>0, <2>1, <2>2 DEF TypeInv
  <1> QED BY <1>1, <1>2, <1>3, <1>4, <1>5, <1>6 DEF ReaderStep

LEMMA TypeLoop ==
    ASSUME TypeInv, LoopStep \/ ConnectStep \/ AgentCrash
    PROVE  TypeInv'
  <1> USE DEF daemonVars, agentVars, taskVars, upVars, clVars
  <1> DEFINE m == Head(toAgent)
  <1>0. toAgent # <<>> =>
            /\ m.id \in Stream /\ (m.type = "data" => m.n \in 0..MaxDown /\ m.n \in Nat)
            /\ Tail(toAgent) \in Seq(DownMessage) /\ Len(Tail(toAgent)) <= SockCap
    BY ReadType, DownFacts
  <1>1. CASE HandleOpen
    <2>1. /\ m.id \in Stream /\ Tail(toAgent) \in Seq(DownMessage) /\ Len(Tail(toAgent)) <= SockCap
      BY <1>0, <1>1 DEF HandleOpen, Arrived
    <2>2. loop' \in Loops /\ loop'.pc # "send"
      BY <1>1, <2>1, ReaderFacts DEF HandleOpen
    <2> QED BY <1>1, <2>1, <2>2 DEF HandleOpen, TypeInv
  <1>2. CASE Connected
    <2>1. loop.id \in Stream
      BY <1>2, ReaderFacts DEF Connected, TypeInv
    <2>2. loop' \in Loops /\ loop'.pc # "send"
      BY <1>2, <2>1, ReaderFacts DEF Connected
    <2> QED BY <1>2, <2>1, <2>2 DEF Connected, TypeInv
  <1>3. CASE ConnectFailed
    <2>1. loop.id \in Stream
      BY <1>3, ReaderFacts DEF ConnectFailed, TypeInv
    <2>2. loop' \in Loops /\ loop'.pc # "send"
      BY <1>3, <2>1, ReaderFacts DEF ConnectFailed
    <2> QED BY <1>3, <2>2 DEF ConnectFailed, TypeInv
  <1>4. CASE ServiceWriteFailed
    <2>2. loop' \in Loops /\ loop'.pc # "send"
      BY <1>4, ReaderFacts DEF ServiceWriteFailed
    <2> QED BY <1>4, <2>2 DEF ServiceWriteFailed, TypeInv
  <1>5. CASE Refuse
    <2>1. loop.id \in Stream
      BY <1>5, ReaderFacts DEF Refuse, TypeInv
    <2>2. loop' \in Loops /\ loop'.pc # "send"
      BY <1>5, ReaderFacts DEF Refuse
    <2>3. toDaemon' \in Seq(UpMessage) /\ Len(toDaemon') <= SockCap /\ half = {}
      BY <1>5, <2>1, SendType, MessageFacts DEF Refuse
    <2> QED BY <1>5, <2>2, <2>3 DEF Refuse, TypeInv
  <1>6. CASE Grant
    <2>1. loop.id \in Stream
      BY <1>6, ReaderFacts DEF Grant, TypeInv
    <2>2. loop' \in Loops /\ loop'.pc # "send"
      BY <1>6, ReaderFacts DEF Grant
    <2>3. toDaemon' \in Seq(UpMessage) /\ Len(toDaemon') <= SockCap /\ half = {}
      BY <1>6, <2>1, SendType, MessageFacts DEF Grant
    <2> QED BY <1>6, <2>1, <2>2, <2>3 DEF Grant, TypeInv
  <1>7. CASE HandleData
    <2>1. /\ m.id \in Stream /\ m.n \in 0..MaxDown /\ m.n \in Nat
          /\ Tail(toAgent) \in Seq(DownMessage) /\ Len(Tail(toAgent)) <= SockCap
      BY <1>0, <1>7 DEF HandleData, Arrived
    <2>2. loop' \in Loops /\ (loop'.pc = "send" => loop'.n \in 0..MaxDown)
      BY <1>7, <2>1, ReaderFacts DEF HandleData
    <2> QED BY <1>7, <2>1, <2>2 DEF HandleData, TypeInv
  <1>8. CASE PushUp
    <2>1. loop.id \in Stream /\ loop.n \in 0..MaxDown
      BY <1>8, ReaderFacts DEF PushUp, StreamsLocked, TypeInv
    <2>2. loop' \in Loops /\ loop'.pc = "read"
      BY <1>8, ReaderFacts DEF PushUp
    <2>3. achan' \in [Stream -> Seq(0..MaxDown)] /\ \A s \in Stream : Len(achan'[s]) <= Cap
      <3>1. CASE UNCHANGED achan
        BY <3>1 DEF TypeInv
      <3>2. CASE /\ Len(achan[loop.id]) < Cap
                 /\ achan' = [achan EXCEPT ![loop.id] = Append(achan[loop.id], loop.n)]
        <4>1. Append(achan[loop.id], loop.n) \in Seq(0..MaxDown) /\ Len(Append(achan[loop.id], loop.n)) <= Cap
          BY <2>1, <3>2, ChanType
        <4> QED BY <2>1, <3>2, <4>1 DEF TypeInv
      <3> QED BY <1>8, <3>1, <3>2 DEF PushUp
    <2> QED BY <1>8, <2>2, <2>3 DEF PushUp, TypeInv
  <1>9. CASE HandleClose
    <2>1. Tail(toAgent) \in Seq(DownMessage) /\ Len(Tail(toAgent)) <= SockCap
      BY <1>0, <1>9 DEF HandleClose, Arrived
    <2> QED BY <1>9, <2>1 DEF HandleClose, TypeInv
  <1>10. CASE AgentCrash
    <2>1. toAgent' \in Seq(DownMessage) /\ Len(toAgent') <= SockCap
      BY <1>10, ElemsEmpty, CapAssumption DEF AgentCrash
    <2> QED BY <1>10, <2>1 DEF AgentCrash, TypeInv
  <1>11. CASE ControlClosed
    BY <1>11 DEF ControlClosed, TypeInv
  <1> QED BY <1>1, <1>2, <1>3, <1>4, <1>5, <1>6, <1>7, <1>8, <1>9, <1>10, <1>11 DEF LoopStep, ConnectStep

LEMMA TypeEnds ==
    ASSUME TypeInv, NEW s \in Stream,
           Tasks(s)
    PROVE  TypeInv'
  <1> USE DEF daemonVars, agentVars, taskVars, upVars, clVars
  <1>1. CASE ToUpStep(s)
    <2>1. CASE ToUp(s)
      <3>1. achan[s] # <<>> /\ achan' = [achan EXCEPT ![s] = Tail(achan[s])]
        BY <2>1 DEF ToUp
      <3>2. achan' \in [Stream -> Seq(0..MaxDown)] /\ \A x \in Stream : Len(achan'[x]) <= Cap
        BY <3>1, ChanType DEF TypeInv
      <3>3. upGot' \in [Stream -> 0..MaxDown]
        BY <2>1, <3>1, ChanType DEF ToUp, TypeInv
      <3> QED BY <2>1, <3>2, <3>3 DEF ToUp, TypeInv
    <2>3. CASE ToUpDone(s)
      BY <2>3, DropType DEF ToUpDone, TypeInv
    <2> QED BY <1>1, <2>1, <2>3 DEF ToUpStep
  <1>10. CASE ToUpWritten(s)
    BY <1>10 DEF ToUpWritten, TypeInv
  <1>11. CASE ToUpFailed(s)
    BY <1>11, DropType DEF ToUpFailed, TypeInv
  <1>2. CASE FromUp(s)
    <2>0. upRead[s] \in 0..MaxUp /\ upSent[s] \in 0..MaxUp /\ upRead[s] < upSent[s]
      BY <1>2 DEF FromUp, TypeInv
    <2>1. upRead[s] + 1 \in 0..MaxUp
      BY <2>0, BoundAssumption
    <2>2. toDaemon' \in Seq(UpMessage) /\ Len(toDaemon') <= SockCap
      <3>1. Data(s, upRead[s] + 1) \in UpMessage
        BY <2>1, MessageFacts
      <3>2. /\ toDaemon \in Seq(UpMessage) /\ Len(toDaemon) <= SockCap /\ Len(toDaemon) < SockCap /\ SockCap \in Nat
            /\ toDaemon' = Append(toDaemon, Data(s, upRead[s] + 1))
        BY <1>2, CapAssumption DEF FromUp, TypeInv
      <3> QED BY <3>1, <3>2, QueueOps
    <2> QED BY <1>2, <2>1, <2>2 DEF FromUp, TypeInv
  <1>12. CASE FromUpPart(s)
    BY <1>12 DEF FromUpPart, TypeInv
  <1>3. CASE FromUpDone(s)
    BY <1>3 DEF FromUpDone, TypeInv
  <1>4. CASE BridgeRemove(s)
    BY <1>4 DEF BridgeRemove, TypeInv
  <1>5. CASE BridgeClose(s)
    <2>1. toDaemon' \in Seq(UpMessage) /\ Len(toDaemon') <= SockCap /\ half = {}
      BY <1>5, SendType, MessageFacts DEF BridgeClose
    <2> QED BY <1>5, <2>1 DEF BridgeClose, TypeInv
  <1>6. CASE UpSend(s)
    <2>0. upSent[s] \in 0..MaxUp /\ upSent[s] < MaxUp
      BY <1>6 DEF UpSend, TypeInv
    <2>1. upSent[s] + 1 \in 0..MaxUp
      BY <2>0, BoundAssumption
    <2> QED BY <1>6, <2>1 DEF UpSend, TypeInv
  <1>7. CASE UpClose(s)
    BY <1>7 DEF UpClose, TypeInv
  <1>8. CASE ClientSend(s)
    <2>0. clSent[s] \in 0..MaxDown /\ clSent[s] < MaxDown
      BY <1>8 DEF ClientSend, TypeInv
    <2>1. clSent[s] + 1 \in 0..MaxDown
      BY <2>0, BoundAssumption
    <2> QED BY <1>8, <2>1 DEF ClientSend, TypeInv
  <1>9. CASE ClientLeave(s)
    <2>1. cl' \in [Stream -> {"open", "closed", "broken"}]
      <3>1. PICK how \in {"closed", "broken"} : cl' = [cl EXCEPT ![s] = how]
        BY <1>9 DEF ClientLeave
      <3> QED BY <3>1 DEF TypeInv
    <2> QED BY <1>9, <2>1 DEF ClientLeave, TypeInv
  <1> QED BY <1>1, <1>2, <1>3, <1>4, <1>5, <1>6, <1>7, <1>8, <1>9, <1>10, <1>11, <1>12
          DEF Tasks, FromUpStep, BridgeEnd, EndStep

LEMMA TypeNext == TypeInv /\ [Next]_vars => TypeInv'
  <1>1. ASSUME TypeInv, UNCHANGED vars PROVE TypeInv'
    <2>1. UNCHANGED <<fwd, end, streamTx, waiters, outcome, chan, reader, lost, toAgent, toDaemon, agentUp, loop,
                      streams, achan, bridge, aend, writing, half, up, upSent, upRead, upGot, cl, clSent, clRead, clGot>>
      BY <1>1 DEF vars, daemonVars, agentVars, taskVars, upVars, clVars
    <2> QED BY <1>1, <2>1, Zenon DEF TypeInv
  <1> QED BY <1>1, TypeForward, TypeReader, TypeLoop, TypeEnds, NextSteps DEF ReaderStep, Reads

\* Type correctness of the two processes and of the streams between them; no channel and
\* neither direction of the socket ever holds more than its capacity.
THEOREM TypeCorrect == Spec => []TypeOK
  BY TypeInit, TypeNext, TypeInvIsType, PTL DEF Spec

\* All that most steps need of the types.
LEMMA Domains ==
    ASSUME TypeInv
    PROVE  /\ DOMAIN fwd = Stream /\ DOMAIN end = Stream /\ DOMAIN outcome = Stream /\ DOMAIN chan = Stream
           /\ DOMAIN achan = Stream /\ DOMAIN bridge = Stream /\ DOMAIN aend = Stream
           /\ DOMAIN up = Stream /\ DOMAIN upSent = Stream /\ DOMAIN upRead = Stream /\ DOMAIN upGot = Stream
           /\ DOMAIN cl = Stream /\ DOMAIN clSent = Stream /\ DOMAIN clRead = Stream /\ DOMAIN clGot = Stream
  BY DEF TypeInv

(***************************************************************************)
(* What writing to and reading from the socket does to the invariants'     *)
(* view of it.                                                             *)
(***************************************************************************)

LEMMA AgentSent ==
    ASSUME TypeInv, NEW m \in DownMessage, SendToAgent(m)
    PROVE  /\ Elems(toAgent') = Elems(toAgent) \cup {m} /\ agentUp
           /\ \A x \in Stream : OpenOnce(toAgent, x) /\ (m.id # x \/ m.type # "open" \/ Open(x) \notin Elems(toAgent))
                                   => OpenOnce(toAgent', x)
           /\ \A x \in Stream : CloseLast(toAgent, x) /\ (m.id # x \/ Close(x) \notin Elems(toAgent))
                                   => CloseLast(toAgent', x)
  <1>1. toAgent \in Seq(DownMessage) /\ toAgent' = Append(toAgent, m) /\ agentUp
    BY DEF TypeInv, SendToAgent
  <1>2. \A y \in Elems(toAgent) : /\ y.type = "open" => y = Open(y.id)
                                  /\ y.type = "close" => y = Close(y.id)
    BY <1>1, ElemsType, DownFacts
  <1>3. ASSUME NEW x \in Stream, OpenOnce(toAgent, x), m.id # x \/ m.type # "open" \/ Open(x) \notin Elems(toAgent)
        PROVE  OpenOnce(toAgent', x)
    BY <1>1, <1>2, <1>3, FinalAppend DEF OpenOnce
  <1>4. ASSUME NEW x \in Stream, CloseLast(toAgent, x), m.id # x \/ Close(x) \notin Elems(toAgent)
        PROVE  CloseLast(toAgent', x)
    BY <1>1, <1>2, <1>4, FinalAppend DEF CloseLast
  <1> QED BY <1>1, <1>3, <1>4, ElemsAppend

LEMMA AgentRead ==
    ASSUME TypeInv, toAgent # <<>>, toAgent' = Tail(toAgent)
    PROVE  /\ Head(toAgent) \in DownMessage /\ Head(toAgent).id \in Stream
           /\ Elems(toAgent) = {Head(toAgent)} \cup Elems(toAgent')
           /\ \A x \in Stream : OpenOnce(toAgent, x) =>
                 OpenOnce(toAgent', x) /\ (Head(toAgent) = Open(x) => Open(x) \notin Elems(toAgent'))
           /\ \A x \in Stream : CloseLast(toAgent, x) =>
                 CloseLast(toAgent', x) /\ (Head(toAgent) = Close(x) => \A y \in Elems(toAgent') : y.id # x)
  <1>1. toAgent \in Seq(DownMessage)
    BY DEF TypeInv
  <1>2. /\ Head(toAgent) \in DownMessage /\ Elems(toAgent) = {Head(toAgent)} \cup Elems(toAgent')
        /\ toAgent' \in Seq(DownMessage)
    BY <1>1, ElemsTail
  <1>3. \A y \in Elems(toAgent') : y.type \in {"open", "close", "data"}
    BY <1>2, ElemsType, DownFacts
  <1>4. ASSUME NEW x \in Stream, OpenOnce(toAgent, x)
        PROVE  OpenOnce(toAgent', x) /\ (Head(toAgent) = Open(x) => Open(x) \notin Elems(toAgent'))
    BY <1>1, <1>4, FinalTail, MessageFacts DEF OpenOnce
  <1>5. ASSUME NEW x \in Stream, CloseLast(toAgent, x)
        PROVE  CloseLast(toAgent', x) /\ (Head(toAgent) = Close(x) => \A y \in Elems(toAgent') : y.id # x)
    BY <1>1, <1>3, <1>5, FinalTail, MessageFacts DEF CloseLast
  <1> QED BY <1>2, <1>4, <1>5, DownFacts

LEMMA DaemonSent ==
    ASSUME TypeInv, NEW m \in UpMessage, toDaemon' = Append(toDaemon, m)
    PROVE  /\ Elems(toDaemon') = Elems(toDaemon) \cup {m}
           /\ \A x \in Stream : CloseLast(toDaemon, x) /\ (m.id # x \/ Close(x) \notin Elems(toDaemon))
                                   => CloseLast(toDaemon', x)
  <1>1. toDaemon \in Seq(UpMessage) /\ toDaemon' = Append(toDaemon, m)
    BY DEF TypeInv
  <1>2. \A y \in Elems(toDaemon) : y.type = "close" => y = Close(y.id)
    BY <1>1, ElemsType, UpFacts
  <1>3. ASSUME NEW x \in Stream, CloseLast(toDaemon, x), m.id # x \/ Close(x) \notin Elems(toDaemon)
        PROVE  CloseLast(toDaemon', x)
    BY <1>1, <1>2, <1>3, FinalAppend DEF CloseLast
  <1> QED BY <1>1, <1>3, ElemsAppend

LEMMA DaemonRead ==
    ASSUME TypeInv, toDaemon # <<>>, toDaemon' = Tail(toDaemon)
    PROVE  /\ Head(toDaemon) \in UpMessage /\ Head(toDaemon).id \in Stream
           /\ Elems(toDaemon) = {Head(toDaemon)} \cup Elems(toDaemon')
           /\ \A x \in Stream : CloseLast(toDaemon, x) =>
                 CloseLast(toDaemon', x) /\ (Head(toDaemon) = Close(x) => \A y \in Elems(toDaemon') : y.id # x)
  <1>1. toDaemon \in Seq(UpMessage)
    BY DEF TypeInv
  <1>2. /\ Head(toDaemon) \in UpMessage /\ Elems(toDaemon) = {Head(toDaemon)} \cup Elems(toDaemon')
        /\ toDaemon' \in Seq(UpMessage)
    BY <1>1, ElemsTail
  <1>3. \A y \in Elems(toDaemon') : y.type \in {"result", "close", "data", "cut"}
    BY <1>2, ElemsType, UpFacts
  <1>4. ASSUME NEW x \in Stream, CloseLast(toDaemon, x)
        PROVE  CloseLast(toDaemon', x) /\ (Head(toDaemon) = Close(x) => \A y \in Elems(toDaemon') : y.id # x)
    BY <1>1, <1>3, <1>4, FinalTail, MessageFacts DEF CloseLast
  <1> QED BY <1>2, <1>4, UpFacts

\* What a step of a bridging task that sends nothing leaves of the queue: at most the
\* beginning of a frame of a stream that was running is added.
Kept(x) ==
    /\ \A m \in Elems(toDaemon') : m \in Elems(toDaemon) \/ (m.type = "cut" /\ (m.id = x => bridge[x] = "run"))
    /\ CloseLast(toDaemon, x) /\ (Close(x) \in Elems(toDaemon) => bridge[x] # "run") => CloseLast(toDaemon', x)
    /\ \A lo, hi \in Nat : InFlight(toDaemon, x, lo, hi) => InFlight(toDaemon', x, lo, hi)

LEMMA Dropped ==
    ASSUME TypeInv, NEW s \in Stream, bridge[s] = "run", DropFromUp(s), NEW x \in Stream
    PROVE  Kept(x)
  <1>1. CASE s \in half
    <2>1. toDaemon' = Append(toDaemon, Cut(s)) /\ toDaemon \in Seq(UpMessage)
      BY <1>1 DEF DropFromUp, TypeInv
    <2>2. Cut(s) \in UpMessage /\ Cut(s).type = "cut" /\ Cut(s).id = s /\ ~IsData(Cut(s), x)
      BY MessageFacts DEF IsData
    <2>3. Elems(toDaemon') = Elems(toDaemon) \cup {Cut(s)}
      BY <2>1, <2>2, DaemonSent
    <2>4. CloseLast(toDaemon, x) /\ (Close(x) \in Elems(toDaemon) => bridge[x] # "run") => CloseLast(toDaemon', x)
      BY <2>1, <2>2, DaemonSent
    <2>5. \A lo, hi \in Nat : InFlight(toDaemon, x, lo, hi) => InFlight(toDaemon', x, lo, hi)
      BY <2>1, <2>2, InFlightOther
    <2>6. \A m \in Elems(toDaemon') : m \in Elems(toDaemon) \/ (m.type = "cut" /\ (m.id = x => bridge[x] = "run"))
      BY <2>2, <2>3
    <2> QED BY <2>4, <2>5, <2>6 DEF Kept
  <1>2. CASE s \notin half
    BY <1>2 DEF DropFromUp, Kept
  <1> QED BY <1>1, <1>2

(***************************************************************************)
(* The control invariant.                                                  *)
(***************************************************************************)

LEMMA CtrlInit == Init => CtrlInv
  <1> SUFFICES ASSUME Init, NEW s \in Stream
               PROVE  NotBegun(s) /\ NotOpened(s) /\ OpenedOnce(s) /\ ClosedLast(s) /\ MapsInv(s)
    BY DEF CtrlInv, StreamInv
  <1>1. Elems(toAgent) = {} /\ Elems(toDaemon) = {} /\ OpenOnce(toAgent, s)
        /\ CloseLast(toAgent, s) /\ CloseLast(toDaemon, s)
    BY ElemsEmpty, FinalEmpty DEF Init, OpenOnce, CloseLast
  <1>2. reader.pc = "read" /\ loop.pc = "read"
    BY ReaderFacts DEF Init
  <1> QED BY <1>1, <1>2 DEF Init, NotBegun, NotOpened, OpenedOnce, ClosedLast, MapsInv, LoopOpens, LoopHolds,
                            ReaderHolds

\* forward_private writes a message and goes on.
LEMMA CtrlSend ==
    ASSUME TypeInv, CtrlInv, NEW s \in Stream, NEW x \in Stream, NEW m \in DownMessage, NEW p,
           m.id = s, SendToAgent(m), fwd' = [fwd EXCEPT ![s] = p],
           \/ m = Open(s) /\ fwd[s] = "opening" /\ p = "waiting"
           \/ m.type = "data" /\ fwd[s] = "write" /\ p = "bridge"
           \/ m = Close(s) /\ fwd[s] = "close" /\ p = "done",
           UNCHANGED <<end, streamTx, waiters, outcome, chan, reader, toDaemon, agentVars, upVars, clVars>>
    PROVE  StreamInv(x)'
  <1> USE DEF agentVars, taskVars, upVars, clVars
  <1>0. StreamInv(x) /\ StreamInv(s)
    BY DEF CtrlInv
  <1>1. /\ x # s => fwd'[x] = fwd[x]
        /\ x = s => fwd'[x] = p
    BY DEF TypeInv
  <1>2. /\ m = Open(s) => m.type = "open"
        /\ m = Close(s) => m.type = "close"
        /\ Open(x).id = x /\ Open(x).type = "open" /\ Close(x).id = x /\ Close(x).type = "close"
    BY MessageFacts
  <1>3. x = s => \/ m.type # "open" /\ bridge[s] # "none"
                 \/ /\ m.type = "open" /\ bridge[s] = "none" /\ ~LoopOpens(s)
                    /\ \A y \in Elems(toAgent) : y.id # s
    BY <1>0, <1>2 DEF StreamInv, NotBegun, NotOpened
  <1>4. x = s => Close(x) \notin Elems(toAgent)
    BY <1>0, <1>2 DEF StreamInv, ClosedLast
  <1>5. /\ Elems(toAgent') = Elems(toAgent) \cup {m}
        /\ OpenOnce(toAgent', x) /\ CloseLast(toAgent', x)
    <2>1. OpenOnce(toAgent, x) /\ CloseLast(toAgent, x)
      BY <1>0 DEF StreamInv, OpenedOnce, ClosedLast
    <2> QED BY <1>2, <1>3, <1>4, <2>1, AgentSent
  <1>6. NotBegun(x)'
    BY <1>0, <1>1, <1>5 DEF StreamInv, NotBegun, LoopOpens, ReaderHolds
  <1>7. NotOpened(x)'
    BY <1>0, <1>1, <1>3, <1>5 DEF StreamInv, NotOpened
  <1>8. OpenedOnce(x)'
    BY <1>0, <1>2, <1>3, <1>5 DEF StreamInv, OpenedOnce, LoopOpens
  <1>9. ClosedLast(x)'
    BY <1>0, <1>1, <1>2, <1>5 DEF StreamInv, ClosedLast
  <1>10. MapsInv(x)'
    BY <1>0, <1>1 DEF StreamInv, MapsInv, ReaderHolds, LoopHolds
  <1> QED BY <1>6, <1>7, <1>8, <1>9, <1>10 DEF StreamInv

\* A step of forward_private that writes nothing: the stream is left as it is, or is
\* past its request and moves on.
Still(x) ==
    /\ fwd'[x] = fwd[x] /\ end'[x] = end[x] /\ chan'[x] = chan[x]
    /\ clRead'[x] = clRead[x] /\ clGot'[x] = clGot[x]
    /\ (x \in streamTx' <=> x \in streamTx) /\ (x \in waiters' <=> x \in waiters)

Moved(x) ==
    /\ fwd[x] \in {"opening", "waiting", "abort", "failed", "bridge", "deliver", "write", "remove", "close"}
    /\ fwd'[x] \in {"waiting", "abort", "failed", "bridge", "deliver", "write", "remove", "close", "done"}
    /\ bridge[x] = "none" => clRead'[x] = clRead[x] /\ fwd'[x] \in {"waiting", "abort", "failed", "done"}
    /\ x \in waiters' => x \in waiters /\ fwd'[x] = "waiting"
    /\ fwd'[x] = "close" => x \notin streamTx'
    /\ fwd'[x] = "done" /\ end'[x] # "error" => x \notin streamTx'
    /\ ReaderHolds(x) => x \in streamTx'
    /\ end'[x] # "" => fwd'[x] \in {"abort", "failed", "remove", "close", "done"}

LEMMA CtrlMove ==
    ASSUME NEW x \in Stream, StreamInv(x), Still(x) \/ Moved(x),
           UNCHANGED <<outcome, reader, toAgent, toDaemon, loop, streams, achan, bridge, aend, upRead, upGot>>
    PROVE  StreamInv(x)'
  <1>1. (LoopOpens(x)' <=> LoopOpens(x)) /\ (LoopHolds(x)' <=> LoopHolds(x)) /\ (ReaderHolds(x)' <=> ReaderHolds(x))
    BY DEF LoopOpens, LoopHolds, ReaderHolds
  <1>2. CASE Still(x)
    <2>1. NotBegun(x)'
      BY <1>1, <1>2 DEF StreamInv, NotBegun, Still
    <2>2. NotOpened(x)'
      BY <1>1, <1>2 DEF StreamInv, NotOpened, Still
    <2>3. OpenedOnce(x)' /\ ClosedLast(x)'
      BY <1>1, <1>2 DEF StreamInv, OpenedOnce, ClosedLast, Still
    <2>4. MapsInv(x)'
      BY <1>1, <1>2 DEF StreamInv, MapsInv, Still
    <2> QED BY <2>1, <2>2, <2>3, <2>4 DEF StreamInv
  <1>3. CASE Moved(x)
    <2>1. NotBegun(x)'
      BY <1>3 DEF NotBegun, Moved
    <2>2. NotOpened(x)'
      BY <1>3 DEF StreamInv, NotOpened, Moved
    <2>3. OpenedOnce(x)' /\ ClosedLast(x)'
      BY <1>1, <1>3 DEF StreamInv, OpenedOnce, ClosedLast, Moved
    <2>4. MapsInv(x)'
      BY <1>1, <1>3 DEF StreamInv, MapsInv, Moved
    <2> QED BY <2>1, <2>2, <2>3, <2>4 DEF StreamInv
  <1> QED BY <1>2, <1>3

LEMMA CtrlForward ==
    ASSUME TypeInv, CtrlInv, NEW s \in Stream, Forwards(s), NEW x \in Stream
    PROVE  StreamInv(x)'
  <1> USE DEF daemonVars, agentVars, taskVars, upVars, clVars
  <1>0. /\ StreamInv(x) /\ StreamInv(s) /\ MapsInv(s)
        /\ bridge[s] = "none" => outcome[s] # "ok" /\ fwd[s] \in {"none", "opening", "waiting", "abort", "failed", "done"}
    BY DEF CtrlInv, StreamInv, NotOpened
  <1>1. CASE Begin(s)
    <2>1. /\ fwd[s] = "none" /\ fwd' = [fwd EXCEPT ![s] = "opening"]
          /\ streamTx' = streamTx \cup {s} /\ waiters' = waiters \cup {s}
          /\ UNCHANGED <<end, outcome, chan, reader, toAgent, toDaemon, loop, streams, achan, bridge, aend,
                          upRead, upGot, clRead, clGot>>
      BY <1>1 DEF Begin
    <2>2. CASE x # s
      <3>1. Still(x)
        BY <2>1, <2>2, Domains DEF Still
      <3> QED BY <1>0, <2>1, <3>1, CtrlMove
    <2>3. CASE x = s
      <3>1. fwd'[x] = "opening" /\ fwd[x] = "none"
        BY <2>1, <2>3, Domains
      <3>2. NotBegun(x)'
        BY <1>0, <2>1, <2>3, <3>1 DEF StreamInv, NotBegun, LoopOpens, ReaderHolds
      <3>3. NotOpened(x)'
        BY <1>0, <2>1, <3>1 DEF StreamInv, NotOpened
      <3>4. OpenedOnce(x)' /\ ClosedLast(x)'
        BY <1>0, <2>1, <3>1 DEF StreamInv, OpenedOnce, ClosedLast, LoopOpens
      <3>5. MapsInv(x)'
        BY <1>0, <2>1, <2>3, <3>1 DEF StreamInv, NotBegun, MapsInv, ReaderHolds, LoopHolds
      <3> QED BY <3>2, <3>3, <3>4, <3>5 DEF StreamInv
    <2> QED BY <2>2, <2>3
  <1>2. CASE WriteOpen(s)
    BY <1>2, CtrlSend, MessageFacts DEF WriteOpen
  <1>3. CASE WriteFailed(s) \/ TimedOut(s)
    <2>0. PICK p \in {"abort", "failed"} : fwd' = [fwd EXCEPT ![s] = p]
      BY <1>3 DEF WriteFailed, TimedOut
    <2>1. /\ fwd[s] \in {"opening", "waiting"}
          /\ waiters' = waiters \ {s} /\ end' = [end EXCEPT ![s] = "gave_up"]
          /\ UNCHANGED <<streamTx, outcome, chan, reader, toAgent, toDaemon, loop, streams, achan, bridge, aend,
                          upRead, upGot, clRead, clGot>>
      BY <1>3 DEF WriteFailed, TimedOut
    <2>2. x # s => Still(x)
      BY <2>0, <2>1, Domains DEF Still
    <2>3. ASSUME x = s PROVE Moved(x)
      <3>1. fwd'[x] = p /\ fwd[x] \in {"opening", "waiting"} /\ clRead'[x] = clRead[x] /\ x \notin waiters'
        BY <2>0, <2>1, <2>3, Domains
      <3>2. ReaderHolds(x) => x \in streamTx'
        BY <1>0, <2>1, <2>3 DEF MapsInv
      <3> QED BY <3>1, <3>2 DEF Moved
    <2> QED BY <1>0, <2>1, <2>2, <2>3, CtrlMove
  <1>4. CASE Abort(s)
    <2>1. /\ fwd[s] \in {"abort", "failed"} /\ fwd' = [fwd EXCEPT ![s] = "done"]
          /\ streamTx' = streamTx \ {s} /\ reader.pc # "send"
          /\ UNCHANGED <<end, waiters, chan, clRead, clGot, outcome, reader, toAgent, toDaemon, loop, streams, achan,
                          bridge, aend, upRead, upGot>>
      BY <1>4 DEF Abort, TxLocked
    <2>2. x # s => Still(x)
      BY <2>1, Domains DEF Still
    <2>3. ASSUME x = s PROVE Moved(x)
      <3>1. fwd'[x] = "done" /\ end'[x] = end[x] /\ clRead'[x] = clRead[x]
        BY <2>1, <2>3, Domains
      <3>2. x \notin streamTx' /\ ~ReaderHolds(x)
        BY <1>0, <2>1, <2>3 DEF ReaderHolds
      <3>3. x \notin waiters'
        BY <1>0, <2>1, <2>3 DEF MapsInv
      <3>4. bridge[x] = "none" => fwd'[x] \in {"waiting", "abort", "failed", "done"}
        BY <1>0, <2>1, <2>3, <3>1
      <3> QED BY <2>1, <2>3, <3>1, <3>2, <3>3, <3>4 DEF Moved
    <2> QED BY <1>0, <2>1, <2>2, <2>3, CtrlMove
  <1>5. CASE OpenRefused(s)
    <2>1. /\ fwd[s] = "waiting" /\ fwd' = [fwd EXCEPT ![s] = "done"]
          /\ streamTx' = streamTx \ {s} /\ outcome[s] # "none"
          /\ end' = [end EXCEPT ![s] = "refused"] /\ reader.pc # "send"
          /\ UNCHANGED <<waiters, chan, clRead, clGot, outcome, reader, toAgent, toDaemon, loop, streams, achan,
                          bridge, aend, upRead, upGot>>
      BY <1>5 DEF OpenRefused, TxLocked
    <2>2. x # s => Still(x)
      BY <2>1, Domains DEF Still
    <2>3. ASSUME x = s PROVE Moved(x)
      <3>1. fwd'[x] = "done" /\ end'[x] = "refused" /\ clRead'[x] = clRead[x]
        BY <2>1, <2>3, Domains
      <3>2. x \notin streamTx' /\ ~ReaderHolds(x)
        BY <1>0, <2>1, <2>3 DEF ReaderHolds
      <3>3. x \notin waiters'
        BY <1>0, <2>1, <2>3 DEF MapsInv
      <3>4. bridge[x] = "none" => fwd'[x] \in {"waiting", "abort", "failed", "done"}
        BY <1>0, <2>1, <2>3, <3>1
      <3> QED BY <2>1, <2>3, <3>1, <3>2, <3>3, <3>4 DEF Moved
    <2> QED BY <1>0, <2>1, <2>2, <2>3, CtrlMove
  <1>6. CASE OpenGranted(s)
    <2>1. /\ fwd[s] = "waiting" /\ outcome[s] = "ok" /\ fwd' = [fwd EXCEPT ![s] = "bridge"]
          /\ UNCHANGED <<end, streamTx, waiters, chan, clRead, clGot, outcome, reader, toAgent, toDaemon, loop, streams, achan,
                          bridge, aend, upRead, upGot>>
      BY <1>6 DEF OpenGranted
    <2>2. x # s => Still(x)
      BY <2>1, Domains DEF Still
    <2>3. x = s => Moved(x)
      BY <1>0, <2>1, Domains DEF Moved, MapsInv, ReaderHolds
    <2> QED BY <1>0, <2>1, <2>2, <2>3, CtrlMove
  <1>7. CASE ReadClient(s)
    <2>1. /\ fwd[s] = "bridge" /\ fwd' = [fwd EXCEPT ![s] = "write"]
          /\ clRead' = [clRead EXCEPT ![s] = @ + 1]
          /\ UNCHANGED <<end, streamTx, waiters, chan, clGot, outcome, reader, toAgent, toDaemon, loop, streams, achan,
                          bridge, aend, upRead, upGot>>
      BY <1>7 DEF ReadClient
    <2>2. x # s => Still(x)
      BY <2>1, Domains DEF Still
    <2>3. x = s => Moved(x)
      BY <1>0, <2>1, Domains DEF Moved, MapsInv, ReaderHolds
    <2> QED BY <1>0, <2>1, <2>2, <2>3, CtrlMove
  <1>8. CASE WriteData(s)
    <2> DEFINE m == Data(s, clRead[s])
    <2>1. m \in DownMessage /\ m.id = s /\ m.type = "data"
      BY DEF TypeInv, Data, DownMessage
    <2>2. /\ SendToAgent(m) /\ fwd[s] = "write" /\ fwd' = [fwd EXCEPT ![s] = "bridge"]
          /\ UNCHANGED <<end, streamTx, waiters, outcome, chan, reader, toDaemon, agentVars, upVars, clVars>>
      BY <1>8 DEF WriteData
    <2> HIDE DEF m
    <2> QED BY <2>1, <2>2, CtrlSend
  <1>9. CASE ReturnError(s)
    <2>1. /\ fwd[s] \in {"write", "bridge", "deliver"} /\ fwd' = [fwd EXCEPT ![s] = "done"]
          /\ end' = [end EXCEPT ![s] = "error"]
          /\ UNCHANGED <<streamTx, waiters, chan, clRead, clGot, outcome, reader, toAgent, toDaemon, loop, streams, achan,
                          bridge, aend, upRead, upGot>>
      BY <1>9 DEF ReturnError
    <2>2. x # s => Still(x)
      BY <2>1, Domains DEF Still
    <2>3. x = s => Moved(x)
      BY <1>0, <2>1, Domains DEF Moved, MapsInv, ReaderHolds
    <2> QED BY <1>0, <2>1, <2>2, <2>3, CtrlMove
  <1>10. CASE ClientEof(s)
    <2>1. /\ fwd[s] = "bridge" /\ fwd' = [fwd EXCEPT ![s] = "remove"]
          /\ end' = [end EXCEPT ![s] = "client_eof"]
          /\ UNCHANGED <<streamTx, waiters, chan, clRead, clGot, outcome, reader, toAgent, toDaemon, loop, streams, achan,
                          bridge, aend, upRead, upGot>>
      BY <1>10 DEF ClientEof
    <2>2. x # s => Still(x)
      BY <2>1, Domains DEF Still
    <2>3. x = s => Moved(x)
      BY <1>0, <2>1, Domains DEF Moved, MapsInv, ReaderHolds
    <2> QED BY <1>0, <2>1, <2>2, <2>3, CtrlMove
  <1>11. CASE Deliver(s)
    <2>1. /\ fwd[s] = "bridge" /\ chan' = [chan EXCEPT ![s] = Tail(@)]
          /\ \E n : clGot' = [clGot EXCEPT ![s] = n]
          /\ fwd' = [fwd EXCEPT ![s] = "deliver"]
          /\ UNCHANGED <<end, streamTx, waiters, clRead, outcome, reader, toAgent, toDaemon, loop, streams, achan,
                          bridge, aend, upRead, upGot>>
      BY <1>11 DEF Deliver
    <2>2. x # s => Still(x)
      BY <2>1, Domains DEF Still
    <2>3. x = s => Moved(x)
      BY <1>0, <2>1, Domains DEF Moved, MapsInv, ReaderHolds
    <2> QED BY <1>0, <2>1, <2>2, <2>3, CtrlMove
  <1>12. CASE ClientGone(s)
    <2>1. /\ fwd[s] = "deliver" /\ fwd' = [fwd EXCEPT ![s] = "remove"]
          /\ end' = [end EXCEPT ![s] = "client_gone"]
          /\ UNCHANGED <<streamTx, waiters, chan, clRead, clGot, outcome, reader, toAgent, toDaemon, loop, streams, achan,
                          bridge, aend, upRead, upGot>>
      BY <1>12 DEF ClientGone
    <2>2. x # s => Still(x)
      BY <2>1, Domains DEF Still
    <2>3. x = s => Moved(x)
      BY <1>0, <2>1, Domains DEF Moved, MapsInv, ReaderHolds
    <2> QED BY <1>0, <2>1, <2>2, <2>3, CtrlMove
  <1>13. CASE ChannelClosed(s)
    <2>1. /\ fwd[s] = "bridge" /\ fwd' = [fwd EXCEPT ![s] = "remove"]
          /\ end' = [end EXCEPT ![s] = "stream_closed"]
          /\ UNCHANGED <<streamTx, waiters, chan, clRead, clGot, outcome, reader, toAgent, toDaemon, loop, streams, achan,
                          bridge, aend, upRead, upGot>>
      BY <1>13 DEF ChannelClosed
    <2>2. x # s => Still(x)
      BY <2>1, Domains DEF Still
    <2>3. x = s => Moved(x)
      BY <1>0, <2>1, Domains DEF Moved, MapsInv, ReaderHolds
    <2> QED BY <1>0, <2>1, <2>2, <2>3, CtrlMove
  <1>14. CASE RemoveTx(s)
    <2>1. /\ fwd[s] = "remove" /\ fwd' = [fwd EXCEPT ![s] = "close"]
          /\ streamTx' = streamTx \ {s} /\ reader.pc # "send"
          /\ UNCHANGED <<end, waiters, chan, clRead, clGot, outcome, reader, toAgent, toDaemon, loop, streams, achan,
                          bridge, aend, upRead, upGot>>
      BY <1>14 DEF RemoveTx, TxLocked
    <2>2. x # s => Still(x)
      BY <2>1, Domains DEF Still
    <2>3. ASSUME x = s PROVE Moved(x)
      <3>1. fwd'[x] = "close" /\ end'[x] = end[x] /\ clRead'[x] = clRead[x]
        BY <2>1, <2>3, Domains
      <3>2. x \notin streamTx' /\ ~ReaderHolds(x)
        BY <1>0, <2>1, <2>3 DEF ReaderHolds
      <3>3. x \notin waiters'
        BY <1>0, <2>1, <2>3 DEF MapsInv
      <3>4. bridge[x] = "none" => fwd'[x] \in {"waiting", "abort", "failed", "done"}
        BY <1>0, <2>1, <2>3, <3>1
      <3> QED BY <2>1, <2>3, <3>1, <3>2, <3>3, <3>4 DEF Moved
    <2> QED BY <1>0, <2>1, <2>2, <2>3, CtrlMove
  <1>15. CASE WriteClose(s) /\ SendToAgent(Close(s))
    BY <1>15, CtrlSend, MessageFacts DEF WriteClose
  <1>16. CASE WriteClose(s) /\ UNCHANGED toAgent
    <2>1. /\ fwd[s] = "close" /\ fwd' = [fwd EXCEPT ![s] = "done"]
          /\ UNCHANGED <<end, streamTx, waiters, chan, clRead, clGot, outcome, reader, toAgent, toDaemon, loop, streams, achan,
                          bridge, aend, upRead, upGot>>
      BY <1>16 DEF WriteClose
    <2>2. x # s => Still(x)
      BY <2>1, Domains DEF Still
    <2>3. ASSUME x = s PROVE Moved(x)
      <3>1. fwd'[x] = "done" /\ end'[x] = end[x] /\ clRead'[x] = clRead[x]
        BY <2>1, <2>3, Domains
      <3>2. x \notin streamTx' /\ ~ReaderHolds(x)
        BY <1>0, <2>1, <2>3 DEF MapsInv
      <3>3. x \notin waiters'
        BY <1>0, <2>1, <2>3 DEF MapsInv
      <3>4. bridge[x] = "none" => fwd'[x] \in {"waiting", "abort", "failed", "done"}
        BY <1>0, <2>1, <2>3, <3>1
      <3> QED BY <2>1, <2>3, <3>1, <3>2, <3>3, <3>4 DEF Moved
    <2> QED BY <1>0, <2>1, <2>2, <2>3, CtrlMove
  <1>17. CASE Delivered(s)
    <2>1. /\ fwd[s] = "deliver" /\ fwd' = [fwd EXCEPT ![s] = "bridge"]
          /\ UNCHANGED <<end, streamTx, waiters, chan, clRead, clGot, outcome, reader, toAgent, toDaemon, loop, streams, achan,
                          bridge, aend, upRead, upGot>>
      BY <1>17 DEF Delivered
    <2>2. x # s => Still(x)
      BY <2>1, Domains DEF Still
    <2>3. x = s => Moved(x)
      BY <1>0, <2>1, Domains DEF Moved, MapsInv, ReaderHolds
    <2> QED BY <1>0, <2>1, <2>2, <2>3, CtrlMove
  <1> QED BY <1>1, <1>2, <1>3, <1>4, <1>5, <1>6, <1>7, <1>8, <1>9, <1>10, <1>11, <1>12, <1>13, <1>14, <1>15,
             <1>16, <1>17 DEF Forwards, ForwardStep, WriteClose

LEMMA CtrlReader ==
    ASSUME TypeInv, CtrlInv, Reads, NEW x \in Stream
    PROVE  StreamInv(x)'
  <1> USE DEF daemonVars, agentVars, taskVars, upVars, clVars
  <1> DEFINE m == Head(toDaemon)
  <1>0. StreamInv(x)
    BY DEF CtrlInv
  <1>1. ASSUME toDaemon # <<>>, toDaemon' = Tail(toDaemon), UNCHANGED <<fwd, toAgent, loop, bridge>>
        PROVE  /\ m \in Elems(toDaemon) /\ m.id \in Stream /\ m \in UpMessage
               /\ Elems(toDaemon') \subseteq Elems(toDaemon)
               /\ OpenedOnce(x)' /\ ClosedLast(x)'
    <2>1. /\ Elems(toDaemon) = {m} \cup Elems(toDaemon') /\ m.id \in Stream /\ m \in UpMessage
          /\ CloseLast(toDaemon, x) => CloseLast(toDaemon', x)
      BY <1>1, DaemonRead
    <2>2. OpenedOnce(x)'
      BY <1>0, <1>1 DEF StreamInv, OpenedOnce, LoopOpens
    <2>3. ClosedLast(x)'
      BY <1>0, <1>1, <2>1 DEF StreamInv, ClosedLast
    <2> QED BY <2>1, <2>2, <2>3
  <1>2. CASE ReadResult
    <2>0. /\ toDaemon # <<>> /\ toDaemon' = Tail(toDaemon) /\ m.type = "result"
          /\ waiters' = waiters \ {m.id}
          /\ outcome' = IF m.id \in waiters
                        THEN [outcome EXCEPT ![m.id] = IF m.ok THEN "ok" ELSE "fail"]
                        ELSE outcome
          /\ UNCHANGED <<fwd, end, streamTx, chan, reader, toAgent, agentVars, upVars, clVars>>
      BY <1>2 DEF ReadResult, Received
    <2>1. /\ m \in Elems(toDaemon) /\ m.id \in Stream
          /\ Elems(toDaemon') \subseteq Elems(toDaemon)
          /\ OpenedOnce(x)' /\ ClosedLast(x)'
      BY <1>1, <2>0
    <2>2. /\ x # m.id => outcome'[x] = outcome[x]
          /\ x = m.id => outcome'[x] = outcome[x] \/ (outcome'[x] = "fail" \/ m.ok)
          /\ x \notin waiters => outcome'[x] = outcome[x]
      BY <2>0, <2>1 DEF TypeInv
    <2>3. NotBegun(x)'
      BY <1>0, <2>0, <2>1, <2>2 DEF StreamInv, NotBegun, LoopOpens, ReaderHolds
    <2>4. NotOpened(x)'
      BY <1>0, <2>0, <2>1, <2>2 DEF StreamInv, NotOpened
    <2>5. MapsInv(x)'
      BY <1>0, <2>0, <2>1, <2>2 DEF StreamInv, MapsInv, LoopHolds, ReaderHolds
    <2> QED BY <2>1, <2>3, <2>4, <2>5 DEF StreamInv
  <1>3. CASE ReadData
    <2>0. /\ toDaemon # <<>> /\ toDaemon' = Tail(toDaemon) /\ m.type = "data"
          /\ reader' = IF m.id \in streamTx THEN Holding(m.id, m.n) ELSE Idle
          /\ UNCHANGED <<fwd, end, streamTx, waiters, outcome, chan, toAgent, agentVars, upVars, clVars>>
      BY <1>3 DEF ReadData, Received
    <2>1. /\ m \in Elems(toDaemon) /\ m.id \in Stream /\ m \in UpMessage
          /\ Elems(toDaemon') \subseteq Elems(toDaemon)
          /\ OpenedOnce(x)' /\ ClosedLast(x)'
      BY <1>1, <2>0
    <2>2. m.n \in Nat
      BY <2>0, <2>1, UpFacts
    <2>3. ReaderHolds(x)' => x = m.id /\ x \in streamTx
      BY <2>0, <2>1, <2>2, ReaderFacts DEF ReaderHolds
    <2>4. NotBegun(x)'
      BY <1>0, <2>0, <2>1, <2>3 DEF StreamInv, NotBegun, LoopOpens
    <2>5. NotOpened(x)'
      BY <1>0, <2>0, <2>1 DEF StreamInv, NotOpened
    <2>6. MapsInv(x)'
      BY <1>0, <2>0, <2>3 DEF StreamInv, MapsInv, LoopHolds
    <2> QED BY <2>1, <2>4, <2>5, <2>6 DEF StreamInv
  <1>4. CASE PushData
    <2>0. /\ reader' = Idle /\ reader.pc = "send"
          /\ UNCHANGED <<fwd, end, streamTx, waiters, outcome, toAgent, toDaemon, agentVars, upVars, clVars>>
      BY <1>4 DEF PushData, TxLocked
    <2>1. ~ReaderHolds(x)' /\ reader.id \in Stream
      BY <2>0, ReaderFacts DEF ReaderHolds, TypeInv
    <2>2. x # reader.id => chan'[x] = chan[x]
      BY <1>4, <2>1 DEF PushData, TypeInv
    <2>3. NotBegun(x)'
      BY <1>0, <2>0, <2>1, <2>2 DEF StreamInv, NotBegun, LoopOpens, ReaderHolds
    <2> QED BY <1>0, <2>0, <2>1, <2>3
            DEF StreamInv, NotOpened, OpenedOnce, ClosedLast, MapsInv, LoopOpens, LoopHolds
  <1>5. CASE ReadClose
    <2>0. /\ toDaemon # <<>> /\ toDaemon' = Tail(toDaemon) /\ m.type = "close"
          /\ streamTx' = streamTx \ {m.id} /\ waiters' = waiters \ {m.id}
          /\ outcome' = IF m.id \in waiters THEN [outcome EXCEPT ![m.id] = "fail"] ELSE outcome
          /\ reader.pc = "read"
          /\ UNCHANGED <<fwd, end, chan, reader, toAgent, agentVars, upVars, clVars>>
      BY <1>5, ReaderFacts DEF ReadClose, Received
    <2>1. /\ m \in Elems(toDaemon) /\ m.id \in Stream
          /\ Elems(toDaemon') \subseteq Elems(toDaemon)
          /\ OpenedOnce(x)' /\ ClosedLast(x)'
      BY <1>1, <2>0
    <2>2. /\ x # m.id => outcome'[x] = outcome[x]
          /\ outcome'[x] = outcome[x] \/ outcome'[x] = "fail"
      BY <2>0, <2>1 DEF TypeInv
    <2>3. NotBegun(x)'
      BY <1>0, <2>0, <2>1, <2>2 DEF StreamInv, NotBegun, LoopOpens, ReaderHolds
    <2>4. NotOpened(x)'
      BY <1>0, <2>0, <2>1, <2>2 DEF StreamInv, NotOpened
    <2>5. MapsInv(x)'
      BY <1>0, <2>0, <2>1, <2>2 DEF StreamInv, MapsInv, LoopHolds, ReaderHolds
    <2> QED BY <2>1, <2>3, <2>4, <2>5 DEF StreamInv
  <1>6. CASE ReaderEof
    <2>1. ~ReaderHolds(x)'
      BY <1>6, ReaderFacts DEF ReaderEof, ReaderHolds
    <2> QED BY <1>0, <1>6, <2>1 DEF ReaderEof, StreamInv, NotBegun, NotOpened, OpenedOnce, ClosedLast, MapsInv,
                                    LoopOpens, LoopHolds
  <1> QED BY <1>2, <1>3, <1>4, <1>5, <1>6 DEF Reads

\* Steps that leave alone what the invariant is about.
LEMMA CtrlKept ==
    ASSUME NEW x \in Stream, StreamInv(x),
           UNCHANGED <<fwd, end, streamTx, waiters, outcome, chan, reader, toAgent, toDaemon, loop, streams, achan,
                       bridge, aend, upRead, upGot, clRead, clGot>>
    PROVE  StreamInv(x)'
  <1>1. NotBegun(x)'
    BY DEF StreamInv, NotBegun, LoopOpens, ReaderHolds
  <1>2. NotOpened(x)'
    BY DEF StreamInv, NotOpened
  <1>3. OpenedOnce(x)' /\ ClosedLast(x)'
    BY DEF StreamInv, OpenedOnce, ClosedLast, LoopOpens
  <1>4. MapsInv(x)'
    BY DEF StreamInv, MapsInv, LoopHolds, ReaderHolds
  <1> QED BY <1>1, <1>2, <1>3, <1>4 DEF StreamInv

LEMMA CtrlLoop ==
    ASSUME TypeInv, CtrlInv, LoopStep \/ ConnectStep \/ AgentCrash, NEW x \in Stream
    PROVE  StreamInv(x)'
  <1> USE DEF daemonVars, agentVars, taskVars, upVars, clVars
  <1> DEFINE m == Head(toAgent)
  <1>0. StreamInv(x) /\ loop \in Loops
    BY DEF CtrlInv, TypeInv
  <1>1. ASSUME toAgent # <<>>, toAgent' = Tail(toAgent), UNCHANGED <<fwd, toDaemon, bridge>>
        PROVE  /\ m \in Elems(toAgent) /\ m.id \in Stream /\ m \in DownMessage
               /\ Elems(toAgent') \subseteq Elems(toAgent)
               /\ OpenOnce(toAgent', x) /\ (m = Open(x) => Open(x) \notin Elems(toAgent'))
               /\ ClosedLast(x)'
    <2>1. /\ Elems(toAgent) = {m} \cup Elems(toAgent') /\ m.id \in Stream /\ m \in DownMessage
          /\ CloseLast(toAgent, x) => CloseLast(toAgent', x)
          /\ OpenOnce(toAgent, x) => OpenOnce(toAgent', x) /\ (m = Open(x) => Open(x) \notin Elems(toAgent'))
      BY <1>1, AgentRead
    <2>2. ClosedLast(x)'
      BY <1>0, <1>1, <2>1 DEF StreamInv, ClosedLast
    <2> QED BY <1>0, <2>1, <2>2 DEF StreamInv, OpenedOnce
  <1>2. CASE HandleOpen
    <2>0. /\ toAgent # <<>> /\ toAgent' = Tail(toAgent) /\ m.type = "open" /\ loop = Idle
          /\ loop' \in {Busy("connect", m.id), Busy("refuse", m.id)}
          /\ UNCHANGED <<daemonVars, toDaemon, agentUp, streams, achan, bridge, aend, upVars, clVars>>
      BY <1>2 DEF HandleOpen, Arrived
    <2>1. /\ m \in Elems(toAgent) /\ m.id \in Stream /\ m \in DownMessage
          /\ Elems(toAgent') \subseteq Elems(toAgent)
          /\ OpenOnce(toAgent', x) /\ (m = Open(x) => Open(x) \notin Elems(toAgent'))
          /\ ClosedLast(x)'
      BY <1>1, <2>0
    <2>2. m = Open(m.id)
      BY <2>0, <2>1, DownFacts
    <2>3. (LoopOpens(x)' <=> x = m.id) /\ ~LoopHolds(x)' /\ ~LoopHolds(x)
      BY <2>0, <2>1, ReaderFacts DEF LoopOpens, LoopHolds
    <2>4. NotBegun(x)'
      BY <1>0, <2>0, <2>1, <2>3 DEF StreamInv, NotBegun, ReaderHolds
    <2>5. NotOpened(x)'
      BY <1>0, <2>0, <2>1 DEF StreamInv, NotOpened
    <2>6. OpenedOnce(x)'
      BY <1>0, <2>0, <2>1, <2>2, <2>3 DEF StreamInv, OpenedOnce
    <2>7. MapsInv(x)'
      BY <1>0, <2>0, <2>3 DEF StreamInv, MapsInv, ReaderHolds
    <2> QED BY <2>1, <2>4, <2>5, <2>6, <2>7 DEF StreamInv
  <1>3. CASE ConnectStep
    <2>0. /\ loop.pc = "connect"
          /\ loop' \in {Idle, Busy("accept", loop.id), Busy("refuse", loop.id)}
          /\ UNCHANGED <<daemonVars, toAgent, toDaemon, agentUp, streams, achan, bridge, aend, upSent, upRead,
                         upGot, clVars>>
      BY <1>3 DEF ConnectStep, Connected, ConnectFailed, ServiceWriteFailed
    <2>1. (LoopOpens(x)' => LoopOpens(x)) /\ ~LoopHolds(x)' /\ ~LoopHolds(x)
      BY <1>0, <2>0, ReaderFacts DEF LoopOpens, LoopHolds
    <2> QED BY <1>0, <2>0, <2>1 DEF StreamInv, NotBegun, NotOpened, OpenedOnce, ClosedLast, MapsInv, ReaderHolds
  <1>4. CASE Refuse
    <2> DEFINE r == Result(loop.id, FALSE)
    <2>0. /\ loop.pc = "refuse" /\ loop' = Idle /\ SendToDaemon(r)
          /\ UNCHANGED <<daemonVars, toAgent, agentUp, streams, achan, bridge, aend, upVars, clVars>>
      BY <1>4 DEF Refuse
    <2>1. /\ loop.id \in Stream /\ (x = loop.id => LoopOpens(x)) /\ ~LoopOpens(x)'
          /\ ~LoopHolds(x)' /\ ~LoopHolds(x)
      BY <1>0, <2>0, ReaderFacts DEF LoopOpens, LoopHolds
    <2>2. r \in UpMessage /\ r.type = "result" /\ r.id = loop.id /\ r.ok = FALSE
      BY <2>1 DEF Result, UpMessage
    <2> HIDE DEF r
    <2>3. x = loop.id => bridge[x] = "none" /\ Close(x) \notin Elems(toDaemon)
      BY <1>0, <2>1 DEF StreamInv, OpenedOnce, ClosedLast
    <2>4. Elems(toDaemon') = Elems(toDaemon) \cup {r} /\ CloseLast(toDaemon', x)
      BY <1>0, <2>0, <2>2, <2>3, DaemonSent DEF StreamInv, ClosedLast, SendToDaemon
    <2>5. NotBegun(x)'
      BY <1>0, <2>0, <2>1, <2>2, <2>4 DEF StreamInv, NotBegun, ReaderHolds
    <2>6. NotOpened(x)'
      BY <1>0, <2>0, <2>2, <2>4 DEF StreamInv, NotOpened
    <2>7. OpenedOnce(x)'
      BY <1>0, <2>0, <2>1 DEF StreamInv, OpenedOnce
    <2>8. ClosedLast(x)'
      BY <1>0, <2>0, <2>2, <2>4, MessageFacts DEF StreamInv, ClosedLast
    <2>9. MapsInv(x)'
      BY <1>0, <2>0, <2>1 DEF StreamInv, MapsInv, ReaderHolds
    <2> QED BY <2>5, <2>6, <2>7, <2>8, <2>9 DEF StreamInv
  <1>5. CASE Grant
    <2> DEFINE r == Result(loop.id, TRUE)
    <2>0. /\ loop.pc = "accept" /\ loop' = Idle /\ SendToDaemon(r) /\ streams' = streams \cup {loop.id}
          /\ bridge' = [bridge EXCEPT ![loop.id] = "run"]
          /\ UNCHANGED <<daemonVars, toAgent, agentUp, achan, aend, upVars, clVars>>
      BY <1>5 DEF Grant
    <2>1. /\ loop.id \in Stream /\ (x = loop.id => LoopOpens(x)) /\ ~LoopOpens(x)'
          /\ ~LoopHolds(x)' /\ ~LoopHolds(x)
      BY <1>0, <2>0, ReaderFacts DEF LoopOpens, LoopHolds
    <2>2. r \in UpMessage /\ r.type = "result" /\ r.id = loop.id
      BY <2>1 DEF Result, UpMessage
    <2> HIDE DEF r
    <2>3. /\ x = loop.id => /\ bridge[x] = "none" /\ Close(x) \notin Elems(toDaemon)
                            /\ Open(x) \notin Elems(toAgent) /\ bridge'[x] = "run"
          /\ x # loop.id => bridge'[x] = bridge[x]
      BY <1>0, <2>0, <2>1 DEF StreamInv, OpenedOnce, ClosedLast, TypeInv
    <2>4. Elems(toDaemon') = Elems(toDaemon) \cup {r} /\ CloseLast(toDaemon', x)
      BY <1>0, <2>0, <2>2, <2>3, DaemonSent DEF StreamInv, ClosedLast, SendToDaemon
    <2>5. NotBegun(x)'
      BY <1>0, <2>0, <2>1, <2>2, <2>3, <2>4 DEF StreamInv, NotBegun, ReaderHolds
    <2>6. NotOpened(x)'
      BY <1>0, <2>0, <2>2, <2>3, <2>4 DEF StreamInv, NotOpened
    <2>7. OpenedOnce(x)'
      BY <1>0, <2>0, <2>1, <2>3 DEF StreamInv, OpenedOnce
    <2>8. ClosedLast(x)'
      BY <1>0, <2>0, <2>2, <2>3, <2>4, MessageFacts DEF StreamInv, ClosedLast
    <2>9. MapsInv(x)'
      BY <1>0, <2>0, <2>1, <2>3 DEF StreamInv, MapsInv, ReaderHolds
    <2> QED BY <2>5, <2>6, <2>7, <2>8, <2>9 DEF StreamInv
  <1>6. CASE HandleData
    <2>0. /\ toAgent # <<>> /\ toAgent' = Tail(toAgent) /\ m.type = "data" /\ loop = Idle
          /\ loop' = IF m.id \in streams THEN Holding(m.id, m.n) ELSE Idle
          /\ UNCHANGED <<daemonVars, toDaemon, agentUp, streams, achan, bridge, aend, upVars, clVars>>
      BY <1>6 DEF HandleData, Arrived
    <2>1. /\ m \in Elems(toAgent) /\ m.id \in Stream /\ m \in DownMessage
          /\ Elems(toAgent') \subseteq Elems(toAgent)
          /\ OpenOnce(toAgent', x) /\ ClosedLast(x)'
      BY <1>1, <2>0
    <2>2. m.n \in Nat
      BY <2>0, <2>1, DownFacts
    <2>3. ~LoopOpens(x)' /\ ~LoopOpens(x) /\ (LoopHolds(x)' => x \in streams)
      BY <2>0, <2>1, <2>2, ReaderFacts DEF LoopOpens, LoopHolds
    <2>4. NotBegun(x)'
      BY <1>0, <2>0, <2>1, <2>3 DEF StreamInv, NotBegun, ReaderHolds
    <2>5. NotOpened(x)'
      BY <1>0, <2>0, <2>1 DEF StreamInv, NotOpened
    <2>6. OpenedOnce(x)'
      BY <1>0, <2>0, <2>1, <2>3 DEF StreamInv, OpenedOnce
    <2>7. MapsInv(x)'
      BY <1>0, <2>0, <2>3 DEF StreamInv, MapsInv, ReaderHolds
    <2> QED BY <2>1, <2>4, <2>5, <2>6, <2>7 DEF StreamInv
  <1>7. CASE PushUp
    <2>0. /\ loop.pc = "send" /\ loop' = Idle
          /\ UNCHANGED <<daemonVars, toAgent, toDaemon, agentUp, streams, bridge, aend, upVars, clVars>>
      BY <1>7 DEF PushUp, StreamsLocked
    <2>1. /\ loop.id \in Stream /\ (x = loop.id => LoopHolds(x))
          /\ ~LoopOpens(x)' /\ ~LoopOpens(x) /\ ~LoopHolds(x)'
      BY <1>0, <2>0, ReaderFacts DEF LoopOpens, LoopHolds
    <2>2. x # loop.id => achan'[x] = achan[x]
      BY <1>7, <2>1 DEF PushUp, TypeInv
    <2>3. NotOpened(x)'
      BY <1>0, <2>0, <2>1, <2>2 DEF StreamInv, NotOpened, MapsInv
    <2> QED BY <1>0, <2>0, <2>1, <2>3 DEF StreamInv, NotBegun, OpenedOnce, ClosedLast, MapsInv, ReaderHolds
  <1>8. CASE HandleClose
    <2>0. /\ toAgent # <<>> /\ toAgent' = Tail(toAgent) /\ m.type = "close" /\ loop = Idle
          /\ streams' = streams \ {m.id}
          /\ UNCHANGED <<daemonVars, toDaemon, agentUp, loop, achan, bridge, aend, upVars, clVars>>
      BY <1>8 DEF HandleClose, Arrived
    <2>1. /\ Elems(toAgent') \subseteq Elems(toAgent)
          /\ OpenOnce(toAgent', x) /\ ClosedLast(x)'
      BY <1>1, <2>0
    <2>2. ~LoopOpens(x) /\ ~LoopHolds(x) /\ ~LoopOpens(x)' /\ ~LoopHolds(x)'
      BY <2>0, ReaderFacts DEF LoopOpens, LoopHolds
    <2>4. NotBegun(x)'
      BY <1>0, <2>0, <2>1, <2>2 DEF StreamInv, NotBegun, ReaderHolds
    <2>5. NotOpened(x)'
      BY <1>0, <2>0, <2>1 DEF StreamInv, NotOpened
    <2>6. OpenedOnce(x)'
      BY <1>0, <2>0, <2>1, <2>2 DEF StreamInv, OpenedOnce
    <2>7. MapsInv(x)'
      BY <1>0, <2>0, <2>2 DEF StreamInv, MapsInv, ReaderHolds
    <2> QED BY <2>1, <2>4, <2>5, <2>6, <2>7 DEF StreamInv
  <1>9. CASE AgentCrash
    <2>1. Elems(toAgent') = {} /\ OpenOnce(toAgent', x) /\ CloseLast(toAgent', x)
      BY <1>9, ElemsEmpty, FinalEmpty DEF AgentCrash, OpenOnce, CloseLast
    <2>2. UNCHANGED <<daemonVars, toDaemon, loop, streams, achan, bridge, aend, upVars, clVars>>
      BY <1>9 DEF AgentCrash
    <2> QED BY <1>0, <2>1, <2>2 DEF StreamInv, NotBegun, NotOpened, OpenedOnce, ClosedLast, MapsInv, ReaderHolds,
                                    LoopOpens, LoopHolds
  <1>10. CASE ControlClosed
    <2>1. UNCHANGED <<fwd, end, streamTx, waiters, outcome, chan, reader, toAgent, toDaemon, loop, streams, achan,
                       bridge, aend, upRead, upGot, clRead, clGot>>
      BY <1>10 DEF ControlClosed
    <2> QED BY <1>0, <2>1, CtrlKept
  <1> QED BY <1>2, <1>3, <1>4, <1>5, <1>6, <1>7, <1>8, <1>9, <1>10 DEF LoopStep

\* A step of the bridging task of some stream that sends nothing.
LEMMA CtrlTask ==
    ASSUME NEW x \in Stream, StreamInv(x),
           \/ /\ bridge'[x] = bridge[x] /\ aend'[x] = aend[x] /\ achan'[x] = achan[x] /\ upGot'[x] = upGot[x]
              /\ x \in streams' <=> x \in streams
           \/ /\ bridge[x] \in {"run", "remove"} /\ bridge'[x] \in {"run", "remove", "close"}
              /\ aend'[x] # "" => bridge'[x] \in {"remove", "close"}
              /\ bridge'[x] = "close" => x \notin streams'
              /\ LoopHolds(x) => x \in streams',
           Kept(x),
           UNCHANGED <<fwd, end, streamTx, waiters, outcome, chan, reader, toAgent, loop, upRead, clRead, clGot>>
    PROVE  StreamInv(x)'
  <1>0. /\ \A m \in Elems(toDaemon') : m \in Elems(toDaemon) \/ (m.type = "cut" /\ (m.id = x => bridge[x] = "run"))
        /\ CloseLast(toDaemon', x) /\ (Close(x) \in Elems(toDaemon') => Close(x) \in Elems(toDaemon))
    <2>1. Close(x) \in Elems(toDaemon) => bridge[x] # "run"
      BY DEF StreamInv, ClosedLast
    <2>2. Close(x).type # "cut"
      BY MessageFacts
    <2> QED BY <2>1, <2>2 DEF StreamInv, ClosedLast, Kept
  <1>1. (LoopOpens(x)' <=> LoopOpens(x)) /\ (LoopHolds(x)' <=> LoopHolds(x)) /\ (ReaderHolds(x)' <=> ReaderHolds(x))
    BY DEF LoopOpens, LoopHolds, ReaderHolds
  <1>2. NotBegun(x)'
    BY <1>0, <1>1 DEF StreamInv, NotBegun
  <1>3. NotOpened(x)'
    BY <1>0 DEF StreamInv, NotOpened
  <1>4. OpenedOnce(x)' /\ ClosedLast(x)'
    BY <1>0, <1>1 DEF StreamInv, OpenedOnce, ClosedLast
  <1>5. MapsInv(x)'
    BY <1>1 DEF StreamInv, MapsInv
  <1> QED BY <1>2, <1>3, <1>4, <1>5 DEF StreamInv

LEMMA CtrlEnds ==
    ASSUME TypeInv, CtrlInv, NEW s \in Stream,
           Tasks(s), NEW x \in Stream
    PROVE  StreamInv(x)'
  <1> USE DEF daemonVars, agentVars, taskVars, upVars, clVars
  <1>0. StreamInv(x) /\ StreamInv(s)
    BY DEF CtrlInv
  <1>1. CASE FromUp(s)
    <2> DEFINE m == Data(s, upRead[s] + 1)
    <2>0. /\ bridge[s] = "run" /\ toDaemon' = Append(toDaemon, m) /\ upRead' = [upRead EXCEPT ![s] = @ + 1]
          /\ UNCHANGED <<daemonVars, toAgent, loop, streams, achan, bridge, aend, up, upSent, upGot, clVars>>
      BY <1>1 DEF FromUp
    <2>1. upRead[s] \in 0..MaxUp /\ upSent[s] \in 0..MaxUp /\ upRead[s] < upSent[s]
      BY <1>1 DEF FromUp, TypeInv
    <2>2. upRead[s] + 1 \in 0..MaxUp
      BY <2>1, BoundAssumption
    <2>3. m \in UpMessage /\ m.id = s /\ m.type = "data"
      BY <2>2 DEF Data, UpMessage
    <2> HIDE DEF m
    <2>4. s = x => Close(x) \notin Elems(toDaemon)
      BY <1>0, <2>0 DEF StreamInv, ClosedLast
    <2>5. Elems(toDaemon') = Elems(toDaemon) \cup {m} /\ CloseLast(toDaemon', x)
      BY <1>0, <2>0, <2>3, <2>4, DaemonSent DEF StreamInv, ClosedLast
    <2>6. NotBegun(x)'
      BY <1>0, <2>0, <2>3, <2>5 DEF StreamInv, NotBegun, ReaderHolds, LoopOpens
    <2>7. NotOpened(x)'
      <3>1. x # s => upRead'[x] = upRead[x]
        BY <2>0, Domains
      <3> QED BY <1>0, <2>0, <2>3, <2>5, <3>1 DEF StreamInv, NotOpened
    <2>8. ClosedLast(x)'
      BY <1>0, <2>0, <2>3, <2>5, MessageFacts DEF StreamInv, ClosedLast
    <2> QED BY <1>0, <2>0, <2>6, <2>7, <2>8 DEF StreamInv, OpenedOnce, MapsInv, LoopOpens, LoopHolds, ReaderHolds
  <1>2. CASE BridgeClose(s)
    <2>0. /\ bridge[s] = "close" /\ SendToDaemon(Close(s)) /\ bridge' = [bridge EXCEPT ![s] = "done"]
          /\ UNCHANGED <<daemonVars, toAgent, agentUp, loop, streams, achan, aend, upVars, clVars>>
      BY <1>2 DEF BridgeClose
    <2>1. Close(s) \in UpMessage /\ Close(s).id = s /\ Close(s).type = "close"
      BY MessageFacts
    <2>2. /\ x # s => bridge'[x] = bridge[x]
          /\ bridge'[s] = "done"
      BY <2>0 DEF TypeInv
    <2>3. s = x => Close(x) \notin Elems(toDaemon)
      BY <1>0, <2>0 DEF StreamInv, ClosedLast
    <2>4. Elems(toDaemon') = Elems(toDaemon) \cup {Close(s)} /\ CloseLast(toDaemon', x)
      BY <1>0, <2>0, <2>1, <2>3, DaemonSent DEF StreamInv, ClosedLast, SendToDaemon
    <2>5. NotBegun(x)'
      BY <1>0, <2>0, <2>1, <2>2, <2>4 DEF StreamInv, NotBegun, ReaderHolds, LoopOpens
    <2>6. NotOpened(x)'
      BY <1>0, <2>0, <2>1, <2>2, <2>4 DEF StreamInv, NotOpened
    <2>7. OpenedOnce(x)'
      BY <1>0, <2>0, <2>2 DEF StreamInv, OpenedOnce, LoopOpens
    <2>8. ClosedLast(x)'
      BY <1>0, <2>0, <2>1, <2>2, <2>4, MessageFacts DEF StreamInv, ClosedLast
    <2>9. MapsInv(x)'
      BY <1>0, <2>0, <2>2 DEF StreamInv, MapsInv, LoopHolds, ReaderHolds
    <2> QED BY <2>5, <2>6, <2>7, <2>8, <2>9 DEF StreamInv
  <1>8. CASE EndStep(s)
    <2>1. UNCHANGED <<fwd, end, streamTx, waiters, outcome, chan, reader, toAgent, toDaemon, loop, streams, achan,
                      bridge, aend, upRead, upGot, clRead, clGot>>
      BY <1>8 DEF EndStep, UpSend, UpClose, ClientSend, ClientLeave
    <2> QED BY <1>0, <2>1, CtrlKept
  <1>9. CASE ToUpWritten(s) \/ FromUpPart(s)
    <2>1. UNCHANGED <<fwd, end, streamTx, waiters, outcome, chan, reader, toAgent, toDaemon, loop, streams, achan,
                      bridge, aend, upRead, upGot, clRead, clGot>>
      BY <1>9 DEF ToUpWritten, FromUpPart
    <2> QED BY <1>0, <2>1, CtrlKept
  <1>3. CASE ToUpStep(s) \/ ToUpFailed(s) \/ FromUpDone(s)
    <2>0. Kept(x)
      <3>1. CASE ToUp(s) \/ FromUpDone(s)
        BY <3>1 DEF ToUp, FromUpDone, Kept
      <3>2. CASE ToUpFailed(s) \/ ToUpDone(s)
        BY <3>2, Dropped DEF ToUpFailed, ToUpDone
      <3> QED BY <1>3, <3>1, <3>2 DEF ToUpStep
    <2>1. /\ bridge[s] = "run"
          /\ \/ /\ bridge' = bridge /\ aend' = aend
                /\ \E q : achan' = [achan EXCEPT ![s] = q]
                /\ \E n : upGot' = [upGot EXCEPT ![s] = n]
             \/ /\ bridge' = [bridge EXCEPT ![s] = "remove"]
                /\ \E p : aend' = [aend EXCEPT ![s] = p]
                /\ achan' = achan
                /\ upGot' = upGot
          /\ UNCHANGED <<fwd, end, streamTx, waiters, outcome, chan, reader, toAgent, loop, streams, upRead,
                          clRead, clGot>>
      BY <1>3 DEF ToUpStep, ToUp, ToUpFailed, ToUpDone, FromUpDone
    <2>2. x # s => bridge'[x] = bridge[x] /\ aend'[x] = aend[x] /\ achan'[x] = achan[x] /\ upGot'[x] = upGot[x]
      BY <2>1, Domains
    <2>3. x = s => /\ bridge'[x] \in {"run", "remove"}
                   /\ aend'[x] # "" => bridge'[x] = "remove"
      BY <1>0, <2>1, Domains DEF StreamInv, MapsInv
    <2>4. LoopHolds(x) => x \in streams
      BY <1>0 DEF StreamInv, MapsInv
    <2> QED BY <1>0, <2>0, <2>1, <2>2, <2>3, <2>4, CtrlTask
  <1>4. CASE BridgeRemove(s)
    <2>1. /\ bridge[s] = "remove" /\ bridge' = [bridge EXCEPT ![s] = "close"] /\ streams' = streams \ {s}
          /\ loop.pc # "send"
          /\ UNCHANGED <<fwd, end, streamTx, waiters, outcome, chan, reader, toAgent, toDaemon, loop, achan, aend,
                          upRead, upGot, clRead, clGot>>
      BY <1>4 DEF BridgeRemove, StreamsLocked
    <2>2. /\ x # s => bridge'[x] = bridge[x]
          /\ x = s => bridge'[x] = "close"
      BY <2>1, Domains
    <2>3. ~LoopHolds(x)
      BY <2>1 DEF LoopHolds
    <2>4. Kept(x)
      BY <2>1 DEF Kept
    <2> QED BY <1>0, <2>1, <2>2, <2>3, <2>4, CtrlTask
  <1> QED BY <1>1, <1>2, <1>3, <1>4, <1>8, <1>9 DEF Tasks, FromUpStep, BridgeEnd

LEMMA CtrlNext == TypeInv /\ CtrlInv /\ [Next]_vars /\ ~ReadTorn => CtrlInv'
  <1>1. TypeInv /\ CtrlInv /\ UNCHANGED vars => CtrlInv'
    BY CtrlKept DEF vars, daemonVars, agentVars, taskVars, upVars, clVars, CtrlInv
  <1>2. TypeInv /\ CtrlInv /\ Next /\ ~ReadTorn => \A x \in Stream : StreamInv(x)'
    BY CtrlForward, CtrlReader, CtrlLoop, CtrlEnds, NextSteps
  <1> QED BY <1>1, <1>2 DEF CtrlInv

(***************************************************************************)
(* What holds whatever the daemon reads.                                   *)
(***************************************************************************)

\* Steps that leave the oneshot channels alone.
LEMMA OutcomeKept ==
    ASSUME Next, ~ReadResult, ~ReadClose
    PROVE  outcome' = outcome
  <1> USE DEF daemonVars, agentVars, taskVars, upVars, clVars
  <1>1. ASSUME NEW s \in Stream, Forwards(s) PROVE outcome' = outcome
    BY <1>1 DEF Forwards, ForwardStep, Begin, WriteOpen, WriteFailed, TimedOut, Abort, OpenRefused, OpenGranted,
                ReadClient, WriteData, ReturnError, ClientEof, Deliver, Delivered, ClientGone, ChannelClosed, RemoveTx,
                WriteClose
  <1>2. ASSUME NEW s \in Stream, Tasks(s)
        PROVE  outcome' = outcome
    BY <1>2 DEF Tasks, ToUpStep, ToUp, ToUpWritten, ToUpFailed, ToUpDone, FromUpStep, FromUpPart, FromUp, FromUpDone,
                BridgeEnd, BridgeRemove, BridgeClose, EndStep, UpSend, UpClose, ClientSend, ClientLeave
  <1>3. CASE Reads \/ ReadTorn
    BY <1>3 DEF Reads, ReadData, PushData, ReaderEof, ReadTorn
  <1>4. CASE LoopStep \/ ConnectStep \/ AgentCrash
    BY <1>4 DEF LoopStep, HandleOpen, Refuse, Grant, HandleData, PushUp, HandleClose, ControlClosed, ConnectStep,
                Connected, ConnectFailed, ServiceWriteFailed, AgentCrash
  <1> QED BY <1>1, <1>2, <1>3, <1>4, NextSteps

\* Only forward_private and the reader touch the maps, and only the reader of a cut frame
\* sets the history variable.
LEMMA MapsKept ==
    ASSUME Next
    PROVE  /\ lost' = lost \/ (ReadTorn /\ lost' = TRUE)
           /\ (\E s \in Stream : Forwards(s)) \/ ReadResult \/ ReadClose \/ UNCHANGED <<fwd, end, streamTx, waiters>>
  <1> USE DEF daemonVars, agentVars, taskVars, upVars, clVars
  <1>1. ASSUME NEW s \in Stream, Forwards(s) PROVE lost' = lost
    BY <1>1 DEF Forwards, ForwardStep, Begin, WriteOpen, WriteFailed, TimedOut, Abort, OpenRefused, OpenGranted,
                ReadClient, WriteData, ReturnError, ClientEof, Deliver, Delivered, ClientGone, ChannelClosed, RemoveTx,
                WriteClose
  <1>2. ASSUME NEW s \in Stream, Tasks(s)
        PROVE  UNCHANGED <<lost, fwd, end, streamTx, waiters>>
    BY <1>2 DEF Tasks, ToUpStep, ToUp, ToUpWritten, ToUpFailed, ToUpDone, FromUpStep, FromUpPart, FromUp, FromUpDone,
                BridgeEnd, BridgeRemove, BridgeClose, EndStep, UpSend, UpClose, ClientSend, ClientLeave
  <1>3. CASE Reads
    BY <1>3 DEF Reads, ReadResult, ReadData, PushData, ReadClose, ReaderEof
  <1>4. CASE ReadTorn
    BY <1>4 DEF ReadTorn
  <1>5. CASE LoopStep \/ ConnectStep \/ AgentCrash
    BY <1>5 DEF LoopStep, HandleOpen, Refuse, Grant, HandleData, PushUp, HandleClose, ControlClosed, ConnectStep,
                Connected, ConnectFailed, ServiceWriteFailed, AgentCrash
  <1> QED BY <1>1, <1>2, <1>3, <1>4, <1>5, NextSteps

LEMMA WaitInit == Init => WaitInv
  BY DEF Init, WaitInv

LEMMA WaitForward ==
    ASSUME TypeInv, WaitInv, NEW s \in Stream, Forwards(s)
    PROVE  WaitInv'
  <1> USE DEF daemonVars, agentVars, taskVars, upVars, clVars
  <1>0. DOMAIN fwd = Stream /\ DOMAIN end = Stream
    BY Domains
  <1>1. CASE Begin(s)
    BY <1>0, <1>1 DEF Begin, WaitInv
  <1>2. CASE WriteOpen(s)
    BY <1>0, <1>2 DEF WriteOpen, WaitInv
  <1>3. CASE WriteFailed(s) \/ TimedOut(s)
    BY <1>0, <1>3 DEF WriteFailed, TimedOut, WaitInv
  <1>4. CASE Abort(s)
    BY <1>0, <1>4 DEF Abort, WaitInv
  <1>5. CASE OpenRefused(s)
    BY <1>0, <1>5 DEF OpenRefused, WaitInv
  <1>6. CASE OpenGranted(s)
    BY <1>0, <1>6 DEF OpenGranted, WaitInv
  <1>7. CASE ReadClient(s) \/ WriteData(s)
    BY <1>0, <1>7 DEF ReadClient, WriteData, WaitInv
  <1>8. CASE ReturnError(s)
    BY <1>0, <1>8 DEF ReturnError, WaitInv
  <1>9. CASE ClientEof(s) \/ ClientGone(s) \/ ChannelClosed(s)
    BY <1>0, <1>9 DEF ClientEof, ClientGone, ChannelClosed, WaitInv
  <1>10. CASE Deliver(s) \/ Delivered(s)
    BY <1>0, <1>10 DEF Deliver, Delivered, WaitInv
  <1>11. CASE RemoveTx(s)
    BY <1>0, <1>11 DEF RemoveTx, WaitInv
  <1>12. CASE WriteClose(s)
    BY <1>0, <1>12 DEF WriteClose, WaitInv
  <1> QED BY <1>1, <1>2, <1>3, <1>4, <1>5, <1>6, <1>7, <1>8, <1>9, <1>10, <1>11, <1>12 DEF Forwards, ForwardStep

\* What the reader does with an answer or a close, cut frames or not.
LEMMA Answered ==
    ASSUME TypeInv, ReadResult \/ ReadClose
    PROVE  /\ UNCHANGED <<fwd, end>> /\ streamTx' \subseteq streamTx /\ waiters' \subseteq waiters
           /\ \A s \in Stream : outcome'[s] # outcome[s] => s \in waiters /\ s \notin waiters'
  <1> DEFINE m == Head(toDaemon)
  <1>1. m.id \in Stream
    <2>1. toDaemon # <<>> /\ toDaemon' = Tail(toDaemon)
      BY DEF ReadResult, ReadClose, Received
    <2> QED BY <2>1, DaemonRead
  <1>2. CASE ReadResult
    BY <1>1, <1>2 DEF ReadResult, TypeInv
  <1>3. CASE ReadClose
    BY <1>1, <1>3 DEF ReadClose, TypeInv
  <1> QED BY <1>2, <1>3

LEMMA WaitNext == TypeInv /\ WaitInv /\ [Next]_vars => WaitInv'
  <1>1. ASSUME WaitInv, UNCHANGED <<fwd, end, streamTx, waiters, outcome>> PROVE WaitInv'
    BY <1>1 DEF WaitInv
  <1>2. TypeInv /\ WaitInv /\ (ReadResult \/ ReadClose) => WaitInv'
    BY Answered DEF WaitInv
  <1>3. ASSUME WaitInv, UNCHANGED vars PROVE WaitInv'
    BY <1>1, <1>3 DEF vars, daemonVars
  <1> QED BY <1>1, <1>2, <1>3, WaitForward, MapsKept, OutcomeKept

\* A handler of forward_private that has returned without an error has left no sender in
\* stream_tx and no waiter in open_waiters, whichever of timeout, answer and close came
\* first, and also when the daemon has read what a cut frame turned into.
THEOREM NothingLeftBehindAlways == Spec => []NothingLeftBehind
  <1>1. WaitInv => NothingLeftBehind
    BY DEF WaitInv, NothingLeftBehind
  <1> QED BY <1>1, TypeInit, TypeNext, WaitInit, WaitNext, PTL DEF Spec

(***************************************************************************)
(* The data of a stream from the backend to the client.                    *)
(***************************************************************************)

LEMMA AppendFacts ==
    ASSUME NEW S, NEW q \in Seq(S), NEW e \in S
    PROVE  /\ Len(Append(q, e)) = Len(q) + 1 /\ Append(q, e)[Len(q) + 1] = e
           /\ \A i \in 1..Len(q) : Append(q, e)[i] = q[i]
  OBVIOUS

LEMMA UpNat ==
    ASSUME TypeInv, NEW x \in Stream
    PROVE  /\ UpBase(x) \in Nat /\ upRead[x] \in Nat /\ clGot[x] \in Nat /\ Len(chan[x]) \in Nat
           /\ DownBase(x) \in Nat /\ clRead[x] \in Nat /\ upGot[x] \in Nat /\ Len(achan[x]) \in Nat
           /\ fwd[x] # "write" \/ clRead[x] > 0 => DownSent(x) \in Nat
  <1>1. /\ chan[x] \in Seq(0..MaxUp) /\ achan[x] \in Seq(0..MaxDown)
        /\ clGot[x] \in 0..MaxUp /\ upRead[x] \in 0..MaxUp
        /\ upGot[x] \in 0..MaxDown /\ clRead[x] \in 0..MaxDown
    BY DEF TypeInv
  <1>2. Len(chan[x]) \in Nat /\ Len(achan[x]) \in Nat
    BY <1>1
  <1>3. clGot[x] \in Nat /\ upRead[x] \in Nat /\ upGot[x] \in Nat /\ clRead[x] \in Nat
    BY <1>1, BoundAssumption
  <1>4. UpBase(x) \in Nat /\ DownBase(x) \in Nat
    <2>1. \A a, b \in Nat : a + b \in Nat
      OBVIOUS
    <2> QED BY <1>2, <1>3, <2>1 DEF UpBase, DownBase
  <1>5. fwd[x] # "write" \/ clRead[x] > 0 => DownSent(x) \in Nat
    BY <1>3 DEF DownSent
  <1> QED BY <1>2, <1>3, <1>4, <1>5

\* Where forward_private is while it may still receive.
Receiving == {"waiting", "bridge", "deliver", "write"}

\* What the invariant survives: steps that neither move data of the stream nor end it.
LEMMA UpFrame ==
    ASSUME TypeInv, NEW x \in Stream, UpInv(x),
           cl'[x] = "open" => cl[x] = "open",
           clGot'[x] = clGot[x], chan'[x] = chan[x], upRead'[x] = upRead[x],
           \A lo, hi \in Nat : InFlight(toDaemon, x, lo, hi) => InFlight(toDaemon', x, lo, hi),
           ReaderHolds(x)' <=> ReaderHolds(x), ReaderHolds(x) => reader'.n = reader.n,
           bridge[x] = "done" => bridge'[x] = "done",
           x \in streamTx' => x \in streamTx,
           fwd[x] = "done" => fwd'[x] = "done",
           fwd'[x] \in Receiving /\ x \notin streamTx' => fwd[x] \in Receiving /\ x \notin streamTx,
           end'[x] = "stream_closed" => end[x] = "stream_closed"
    PROVE  UpInv(x)'
  <1>1. UpBase(x)' = UpBase(x) /\ UpBase(x) \in Nat /\ UpBase(x) + 1 \in Nat /\ upRead[x] \in Nat
    BY UpNat DEF UpBase
  <1> SUFFICES ASSUME cl'[x] = "open" PROVE UpInv(x)'
    BY DEF UpInv
  <1>2. \A i \in 1..Len(chan'[x]) : chan'[x][i] = clGot'[x] + i
    BY DEF UpInv
  <1>3. ASSUME x \in streamTx', fwd'[x] # "done", ReaderHolds(x)'
        PROVE  reader'.n = UpBase(x)' + 1 /\ InFlight(toDaemon', x, UpBase(x)' + 1, upRead'[x])
    BY <1>1, <1>3 DEF UpInv
  <1>4. ASSUME x \in streamTx', fwd'[x] # "done", ~ReaderHolds(x)'
        PROVE  InFlight(toDaemon', x, UpBase(x)', upRead'[x])
    BY <1>1, <1>4 DEF UpInv
  <1>5. ASSUME x \notin streamTx', fwd'[x] \in {"waiting", "bridge", "deliver", "write"}
        PROVE  UpBase(x)' = upRead'[x] /\ bridge'[x] = "done"
    BY <1>1, <1>5 DEF UpInv, Receiving
  <1>6. ASSUME end'[x] = "stream_closed" PROVE clGot'[x] = upRead'[x] /\ bridge'[x] = "done"
    BY <1>6 DEF UpInv
  <1> QED BY <1>2, <1>3, <1>4, <1>5, <1>6 DEF UpInv

\* The queue from the agent, as the invariant sees it.
LEMMA DaemonQueue ==
    ASSUME TypeInv, NEW x \in Stream
    PROVE  /\ \A m \in UpMessage : toDaemon' = Append(toDaemon, m) /\ ~IsData(m, x) =>
                 \A lo, hi \in Nat : InFlight(toDaemon, x, lo, hi) => InFlight(toDaemon', x, lo, hi)
           /\ toDaemon # <<>> /\ toDaemon' = Tail(toDaemon) /\ ~IsData(Head(toDaemon), x) =>
                 \A lo, hi \in Nat : InFlight(toDaemon, x, lo, hi) => InFlight(toDaemon', x, lo, hi)
           /\ toDaemon # <<>> /\ toDaemon' = Tail(toDaemon) /\ IsData(Head(toDaemon), x) =>
                 \A lo, hi \in Nat : InFlight(toDaemon, x, lo, hi) =>
                    Head(toDaemon).n = lo + 1 /\ InFlight(toDaemon', x, lo + 1, hi)
  <1>1. toDaemon \in Seq(UpMessage) /\ \A m \in UpMessage : m.type = "data" => m.n \in Nat
    BY UpFacts DEF TypeInv
  <1>2. ASSUME NEW m \in UpMessage, toDaemon' = Append(toDaemon, m), ~IsData(m, x), NEW lo \in Nat, NEW hi \in Nat,
               InFlight(toDaemon, x, lo, hi)
        PROVE  InFlight(toDaemon', x, lo, hi)
    BY <1>1, <1>2, InFlightOther
  <1>3. ASSUME toDaemon # <<>>, toDaemon' = Tail(toDaemon), NEW lo \in Nat, NEW hi \in Nat,
               InFlight(toDaemon, x, lo, hi)
        PROVE  /\ ~IsData(Head(toDaemon), x) => InFlight(toDaemon', x, lo, hi)
               /\ IsData(Head(toDaemon), x) => Head(toDaemon).n = lo + 1 /\ InFlight(toDaemon', x, lo + 1, hi)
    BY <1>1, <1>3, InFlightTail
  <1> QED BY <1>2, <1>3

LEMMA UpInit == Init => \A x \in Stream : UpInv(x)
  <1> SUFFICES ASSUME Init, NEW x \in Stream PROVE UpInv(x)
    OBVIOUS
  <1>1. chan[x] = <<>> /\ Len(chan[x]) = 0
    BY DEF Init
  <1>2. x \notin streamTx /\ fwd[x] = "none" /\ end[x] = ""
    BY DEF Init
  <1>3. \A i \in 1..Len(chan[x]) : chan[x][i] = clGot[x] + i
    BY <1>1
  <1> QED BY <1>2, <1>3 DEF UpInv

LEMMA UpForward ==
    ASSUME TypeInv, CtrlInv, NEW s \in Stream, Forwards(s), NEW x \in Stream, UpInv(x)
    PROVE  UpInv(x)'
  <1> USE DEF daemonVars, agentVars, taskVars, upVars, clVars
  <1>0. StreamInv(s)
    BY DEF CtrlInv
  <1>1. CASE Begin(s)
    <2>0. /\ fwd[s] = "none" /\ fwd' = [fwd EXCEPT ![s] = "opening"] /\ streamTx' = streamTx \cup {s}
          /\ UNCHANGED <<cl, clGot, chan, upRead, toDaemon, reader, bridge, end>>
      BY <1>1 DEF Begin
    <2>1. CASE x # s
      <3>1. fwd'[x] = fwd[x] /\ (x \in streamTx' <=> x \in streamTx)
        BY <2>0, <2>1 DEF TypeInv
      <3> QED BY <2>0, <3>1, UpFrame DEF ReaderHolds
    <2>2. CASE x = s
      <3>1. /\ bridge[x] = "none" /\ clGot[x] = 0 /\ chan[x] = <<>> /\ ~ReaderHolds(x)
            /\ \A m \in Elems(toDaemon) : m.id # x
            /\ upRead[x] = 0 /\ end[x] # "stream_closed" /\ fwd'[x] = "opening"
        BY <1>0, <2>0, <2>2 DEF StreamInv, NotBegun, NotOpened, MapsInv, TypeInv
      <3>2. InFlight(toDaemon, x, 0, 0) /\ UpBase(x) = 0 /\ Len(chan[x]) = 0
        <4>1. toDaemon \in Seq(UpMessage) /\ \A m \in Elems(toDaemon) : ~IsData(m, x)
          BY <3>1 DEF TypeInv, IsData
        <4>2. Len(chan[x]) = 0
          BY <3>1
        <4> QED BY <3>1, <4>1, <4>2, InFlightNone DEF UpBase
      <3>3. UpBase(x)' = 0 /\ ~ReaderHolds(x)' /\ Len(chan'[x]) = 0
        BY <2>0, <3>1, <3>2 DEF UpBase, ReaderHolds
      <3>4. /\ end'[x] # "stream_closed" /\ InFlight(toDaemon', x, 0, 0) /\ upRead'[x] = 0
            /\ fwd'[x] = "opening"
        BY <2>0, <3>1, <3>2
      <3> QED BY <3>3, <3>4 DEF UpInv
    <2> QED BY <2>1, <2>2
  <1>2. CASE Deliver(s)
    <2>0. /\ fwd[s] = "bridge" /\ chan[s] # <<>> /\ chan' = [chan EXCEPT ![s] = Tail(@)]
          /\ clGot' = [clGot EXCEPT ![s] = IF cl[s] = "open" THEN Head(chan[s]) ELSE @]
          /\ fwd' = [fwd EXCEPT ![s] = "deliver"]
          /\ UNCHANGED <<cl, streamTx, upRead, toDaemon, reader, bridge, end>>
      BY <1>2 DEF Deliver
    <2>1. CASE x # s
      <3>1. chan'[x] = chan[x] /\ clGot'[x] = clGot[x] /\ fwd'[x] = fwd[x]
        BY <2>0, <2>1 DEF TypeInv
      <3> QED BY <2>0, <3>1, UpFrame DEF ReaderHolds
    <2>2. CASE x = s /\ cl[x] = "open"
      <3>0. chan[x] \in Seq(0..MaxUp)
        BY DEF TypeInv
      <3>1. /\ Head(chan[x]) = chan[x][1] /\ Len(chan[x]) \in Nat /\ Len(chan[x]) > 0
            /\ Len(Tail(chan[x])) = Len(chan[x]) - 1
            /\ \A i \in 1..Len(Tail(chan[x])) : Tail(chan[x])[i] = chan[x][i + 1]
        BY <2>0, <2>2, <3>0
      <3>2. chan'[x] = Tail(chan[x]) /\ clGot'[x] = Head(chan[x])
        BY <2>0, <2>2 DEF TypeInv
      <3>3. /\ \A i \in 1..Len(chan[x]) : chan[x][i] = clGot[x] + i
            /\ 1 \in 1..Len(chan[x])
        BY <2>2, <3>1 DEF UpInv
      <3>4. clGot'[x] = clGot[x] + 1 /\ clGot[x] \in Nat
        BY <3>1, <3>2, <3>3, UpNat
      <3>5. UpBase(x)' = UpBase(x)
        BY <3>1, <3>2, <3>4 DEF UpBase
      <3>6. ASSUME NEW i \in 1..Len(chan'[x]) PROVE chan'[x][i] = clGot'[x] + i
        <4>1. i + 1 \in 1..Len(chan[x]) /\ chan'[x][i] = chan[x][i + 1]
          BY <3>1, <3>2
        <4>2. chan[x][i + 1] = clGot[x] + (i + 1)
          BY <3>3, <4>1
        <4> QED BY <3>4, <4>1, <4>2
      <3>7. end[x] # "stream_closed"
        BY <1>0, <2>0, <2>2 DEF StreamInv, MapsInv
      <3>8. /\ (ReaderHolds(x)' <=> ReaderHolds(x)) /\ reader' = reader /\ toDaemon' = toDaemon
            /\ upRead' = upRead /\ streamTx' = streamTx /\ bridge' = bridge
            /\ end'[x] # "stream_closed" /\ fwd[x] = "bridge" /\ fwd'[x] = "deliver"
        BY <2>0, <2>2, <3>7, Domains DEF ReaderHolds
      <3> QED BY <2>2, <3>5, <3>6, <3>8 DEF UpInv
    <2>3. CASE cl[x] # "open"
      BY <2>0, <2>3 DEF UpInv
    <2> QED BY <2>1, <2>2, <2>3
  <1>3. CASE ClientGone(s)
    <2>0. /\ cl[s] = "closed" /\ fwd[s] = "deliver" /\ chan' = chan
          /\ end' = [end EXCEPT ![s] = "client_gone"] /\ fwd' = [fwd EXCEPT ![s] = "remove"]
          /\ UNCHANGED <<cl, clGot, streamTx, upRead, toDaemon, reader, bridge>>
      BY <1>3 DEF ClientGone
    <2>1. CASE x # s
      <3>1. chan'[x] = chan[x] /\ end'[x] = end[x] /\ fwd'[x] = fwd[x]
        BY <2>0, <2>1 DEF TypeInv
      <3> QED BY <2>0, <3>1, UpFrame DEF ReaderHolds
    <2>2. CASE x = s
      BY <2>0, <2>2 DEF UpInv
    <2> QED BY <2>1, <2>2
  <1>4. CASE ChannelClosed(s)
    <2>0. /\ fwd[s] = "bridge" /\ chan[s] = <<>> /\ s \notin streamTx
          /\ end' = [end EXCEPT ![s] = "stream_closed"] /\ fwd' = [fwd EXCEPT ![s] = "remove"]
          /\ UNCHANGED <<cl, clGot, chan, streamTx, upRead, toDaemon, reader, bridge>>
      BY <1>4 DEF ChannelClosed
    <2>1. CASE x # s
      <3>1. end'[x] = end[x] /\ fwd'[x] = fwd[x]
        BY <2>0, <2>1 DEF TypeInv
      <3> QED BY <2>0, <3>1, UpFrame DEF ReaderHolds
    <2>2. CASE x = s /\ cl[x] = "open"
      <3>1. UpBase(x) = upRead[x] /\ bridge[x] = "done"
        BY <2>0, <2>2 DEF UpInv
      <3>2. Len(chan[x]) = 0 /\ fwd'[x] = "remove"
        BY <2>0, <2>2 DEF TypeInv
      <3>3. clGot[x] = upRead[x]
        BY <3>1, <3>2, UpNat DEF UpBase
      <3> QED BY <2>0, <2>2, <3>1, <3>2, <3>3 DEF UpInv
    <2>3. CASE cl[x] # "open"
      BY <2>0, <2>3 DEF UpInv
    <2> QED BY <2>1, <2>2, <2>3
  <1>5. ASSUME UNCHANGED <<cl, clGot, chan, upRead, toDaemon, reader, bridge>>,
               NEW p, fwd' = [fwd EXCEPT ![s] = p], fwd[s] # "done",
               streamTx' = streamTx \/ (streamTx' = streamTx \ {s} /\ p \notin Receiving),
               p \in Receiving => fwd[s] \in Receiving \/ s \in streamTx',
               end' = end \/ \E e : e # "stream_closed" /\ end' = [end EXCEPT ![s] = e]
        PROVE  UpInv(x)'
    <2>1. /\ x # s => fwd'[x] = fwd[x]
          /\ x = s => fwd'[x] = p
      BY <1>5 DEF TypeInv
    <2>2. end'[x] = "stream_closed" => end[x] = "stream_closed"
      BY <1>5 DEF TypeInv
    <2> QED BY <1>5, <2>1, <2>2, UpFrame DEF ReaderHolds
  <1>6. CASE WriteOpen(s)
    <2>1. s \in streamTx'
      BY <1>0, <1>6 DEF WriteOpen, StreamInv, NotBegun
    <2> QED BY <1>5, <1>6, <2>1 DEF WriteOpen
  <1>7. CASE WriteFailed(s) \/ TimedOut(s)
    BY <1>5, <1>7 DEF WriteFailed, TimedOut, Receiving
  <1>8. CASE Abort(s) \/ OpenRefused(s) \/ RemoveTx(s)
    BY <1>5, <1>8 DEF Abort, OpenRefused, RemoveTx, Receiving
  <1>9. CASE OpenGranted(s) \/ ReadClient(s) \/ WriteData(s)
    BY <1>5, <1>9 DEF OpenGranted, ReadClient, WriteData, Receiving
  <1>10. CASE ReturnError(s)
    BY <1>5, <1>10 DEF ReturnError, Receiving
  <1>11. CASE ClientEof(s)
    BY <1>5, <1>11 DEF ClientEof, Receiving
  <1>12. CASE WriteClose(s)
    BY <1>5, <1>12 DEF WriteClose, Receiving
  <1>13. CASE Delivered(s)
    BY <1>5, <1>13 DEF Delivered, Receiving
  <1> QED BY <1>1, <1>2, <1>3, <1>4, <1>6, <1>7, <1>8, <1>9, <1>10, <1>11, <1>12, <1>13 DEF Forwards, ForwardStep


LEMMA UpReader ==
    ASSUME TypeInv, CtrlInv, Reads, NEW x \in Stream, UpInv(x)
    PROVE  UpInv(x)'
  <1> USE DEF daemonVars, agentVars, taskVars, upVars, clVars
  <1> DEFINE m == Head(toDaemon)
  <1>0. StreamInv(x) /\ UpBase(x) \in Nat /\ upRead[x] \in Nat /\ clGot[x] \in Nat /\ Len(chan[x]) \in Nat
    BY UpNat DEF CtrlInv
  <1>1. CASE ReadResult
    <2>0. /\ toDaemon # <<>> /\ toDaemon' = Tail(toDaemon) /\ m.type = "result"
          /\ UNCHANGED <<fwd, end, streamTx, chan, reader, bridge, cl, clGot, upRead>>
      BY <1>1 DEF ReadResult, Received
    <2>1. \A lo, hi \in Nat : InFlight(toDaemon, x, lo, hi) => InFlight(toDaemon', x, lo, hi)
      BY <2>0, DaemonQueue DEF IsData
    <2> QED BY <2>0, <2>1, UpFrame DEF ReaderHolds
  <1>2. CASE ReadData
    <2>0. /\ toDaemon # <<>> /\ toDaemon' = Tail(toDaemon) /\ m.type = "data" /\ reader = Idle
          /\ reader' = IF m.id \in streamTx THEN Holding(m.id, m.n) ELSE Idle
          /\ UNCHANGED <<fwd, end, streamTx, chan, bridge, cl, clGot, upRead>>
      BY <1>2 DEF ReadData, Received
    <2>1. m.id \in Stream /\ m.n \in Nat
      BY <2>0, DaemonRead, UpFacts
    <2>2. /\ ~ReaderHolds(x)
          /\ ReaderHolds(x)' <=> x = m.id /\ x \in streamTx
          /\ ReaderHolds(x)' => reader'.n = m.n
      BY <2>0, <2>1, ReaderFacts DEF ReaderHolds
    <2>3. CASE x # m.id
      <3>1. \A lo, hi \in Nat : InFlight(toDaemon, x, lo, hi) => InFlight(toDaemon', x, lo, hi)
        BY <2>0, <2>3, DaemonQueue DEF IsData
      <3>2. (ReaderHolds(x)' <=> ReaderHolds(x)) /\ ~ReaderHolds(x)
        BY <2>2, <2>3
      <3> QED BY <2>0, <3>1, <3>2, UpFrame
    <2>4. CASE x = m.id /\ cl[x] = "open"
      <3>1. \A lo, hi \in Nat : InFlight(toDaemon, x, lo, hi) =>
               m.n = lo + 1 /\ InFlight(toDaemon', x, lo + 1, hi)
        BY <2>0, <2>4, DaemonQueue DEF IsData
      <3>2. x \in streamTx /\ fwd[x] # "done" =>
               m.n = UpBase(x) + 1 /\ InFlight(toDaemon', x, UpBase(x) + 1, upRead[x])
        BY <1>0, <2>2, <2>4, <3>1 DEF UpInv
      <3>3. UpBase(x)' = UpBase(x)
        BY <2>0 DEF UpBase
      <3> QED BY <2>0, <2>2, <2>4, <3>2, <3>3 DEF UpInv
    <2>5. CASE cl[x] # "open"
      BY <2>0, <2>5 DEF UpInv
    <2> QED BY <2>3, <2>4, <2>5
  <1>3. CASE PushData
    <2> DEFINE r == reader.id
    <2>0. /\ reader.pc = "send" /\ reader' = Idle
          /\ \/ fwd[r] # "done" /\ chan' = [chan EXCEPT ![r] = Append(@, reader.n)]
             \/ fwd[r] = "done" /\ chan' = chan
          /\ UNCHANGED <<fwd, end, streamTx, toDaemon, bridge, cl, clGot, upRead>>
      BY <1>3 DEF PushData, TxLocked
    <2>1. r \in Stream /\ reader.n \in 0..MaxUp /\ ~ReaderHolds(x)' /\ (ReaderHolds(x) <=> x = r)
      BY <2>0, ReaderFacts DEF ReaderHolds, TypeInv
    <2>2. CASE x # r
      <3>1. chan'[x] = chan[x]
        BY <2>0, <2>1, <2>2 DEF TypeInv
      <3>2. (ReaderHolds(x)' <=> ReaderHolds(x)) /\ ~ReaderHolds(x)
        BY <2>1, <2>2
      <3> QED BY <2>0, <3>1, <3>2, UpFrame
    <2>3. CASE x = r /\ cl[x] = "open" /\ fwd[x] # "done"
      <3>1. chan'[x] = Append(chan[x], reader.n) /\ chan[x] \in Seq(0..MaxUp)
        <4>1. chan'[x] = Append(chan[x], reader.n)
          BY <2>0, <2>1, <2>3, Domains
        <4>2. chan[x] \in Seq(0..MaxUp)
          BY DEF TypeInv
        <4> QED BY <4>1, <4>2
      <3>2. /\ Len(chan'[x]) = Len(chan[x]) + 1 /\ chan'[x][Len(chan[x]) + 1] = reader.n
            /\ \A i \in 1..Len(chan[x]) : chan'[x][i] = chan[x][i]
        BY <2>1, <3>1, AppendFacts
      <3>3. x \in streamTx
        BY <1>0, <2>1, <2>3 DEF StreamInv, MapsInv
      <3>4. /\ reader.n = UpBase(x) + 1 /\ InFlight(toDaemon, x, UpBase(x) + 1, upRead[x])
            /\ \A i \in 1..Len(chan[x]) : chan[x][i] = clGot[x] + i
        BY <2>1, <2>3, <3>3 DEF UpInv
      <3>5. UpBase(x)' = UpBase(x) + 1
        <4>1. clGot'[x] = clGot[x] /\ clGot[x] \in Nat /\ Len(chan[x]) \in Nat
          BY <2>0, UpNat
        <4>2. clGot[x] + (Len(chan[x]) + 1) = (clGot[x] + Len(chan[x])) + 1
          BY <4>1
        <4> QED BY <3>2, <4>1, <4>2 DEF UpBase
      <3>6. ASSUME NEW i \in 1..Len(chan'[x]) PROVE chan'[x][i] = clGot[x] + i
        <4>1. CASE i \in 1..Len(chan[x])
          BY <3>2, <3>4, <4>1
        <4>2. CASE i = Len(chan[x]) + 1
          BY <1>0, <3>2, <3>4, <4>2 DEF UpBase
        <4> QED BY <1>0, <3>2, <4>1, <4>2
      <3>7. end[x] = "stream_closed" => clGot[x] = upRead[x] /\ bridge[x] = "done"
        BY <2>3 DEF UpInv
      <3> QED BY <2>0, <2>1, <3>3, <3>4, <3>5, <3>6, <3>7 DEF UpInv
    <2>4. CASE x = r /\ fwd[x] = "done"
      <3>1. chan' = chan /\ UpBase(x)' = UpBase(x)
        BY <2>0, <2>4 DEF UpBase
      <3> QED BY <2>0, <2>4, <3>1 DEF UpInv
    <2>5. CASE cl[x] # "open"
      BY <2>0, <2>5 DEF UpInv
    <2> QED BY <2>2, <2>3, <2>4, <2>5
  <1>4. CASE ReadClose
    <2>0. /\ toDaemon # <<>> /\ toDaemon' = Tail(toDaemon) /\ m.type = "close"
          /\ streamTx' = streamTx \ {m.id} /\ reader = Idle
          /\ UNCHANGED <<fwd, end, chan, reader, bridge, cl, clGot, upRead>>
      BY <1>4 DEF ReadClose, Received
    <2>1. \A lo, hi \in Nat : InFlight(toDaemon, x, lo, hi) => InFlight(toDaemon', x, lo, hi)
      BY <2>0, DaemonQueue DEF IsData
    <2>2. ~ReaderHolds(x) /\ ~ReaderHolds(x)'
      BY <2>0, ReaderFacts DEF ReaderHolds
    <2>3. CASE x # m.id \/ x \notin streamTx
      <3>1. x \in streamTx' <=> x \in streamTx
        BY <2>0, <2>3
      <3> QED BY <2>0, <2>1, <2>2, <3>1, UpFrame
    <2>4. CASE x = m.id /\ x \in streamTx /\ cl[x] = "open"
      <3>1. m = Close(x) /\ m \in Elems(toDaemon) /\ m \in UpMessage
        BY <2>0, <2>4, DaemonRead, UpFacts
      <3>2. bridge[x] = "done" /\ \A y \in Elems(toDaemon') : y.id # x
        BY <1>0, <2>0, <3>1, DaemonRead DEF StreamInv, ClosedLast
      <3>3. fwd[x] # "done" => UpBase(x) = upRead[x]
        <4>1. toDaemon' \in Seq(UpMessage) /\ \A y \in Elems(toDaemon') : ~IsData(y, x)
          BY <2>0, <3>2, ReadType DEF IsData
        <4>2. fwd[x] # "done" => InFlight(toDaemon', x, UpBase(x), upRead[x])
          BY <1>0, <2>1, <2>2, <2>4 DEF UpInv
        <4> QED BY <1>0, <4>1, <4>2, InFlightNone
      <3>4. UpBase(x)' = UpBase(x) /\ x \notin streamTx'
        BY <2>0, <2>4 DEF UpBase
      <3> QED BY <2>0, <2>4, <3>2, <3>3, <3>4 DEF UpInv
    <2>5. CASE cl[x] # "open"
      BY <2>0, <2>5 DEF UpInv
    <2> QED BY <2>3, <2>4, <2>5
  <1>5. CASE ReaderEof
    <2>1. ~ReaderHolds(x) /\ ~ReaderHolds(x)'
      BY <1>5, ReaderFacts DEF ReaderEof, ReaderHolds
    <2> QED BY <1>5, <2>1, UpFrame DEF ReaderEof
  <1> QED BY <1>1, <1>2, <1>3, <1>4, <1>5 DEF Reads

LEMMA UpAgent ==
    ASSUME TypeInv, CtrlInv, NEW x \in Stream, UpInv(x),
           \/ LoopStep \/ ConnectStep \/ AgentCrash
           \/ \E s \in Stream : Tasks(s)
    PROVE  UpInv(x)'
  <1> USE DEF daemonVars, agentVars, taskVars, upVars, clVars
  <1>0. StreamInv(x) /\ UpBase(x) \in Nat /\ upRead[x] \in Nat
    BY UpNat DEF CtrlInv
  <1>1. ASSUME UNCHANGED <<cl, clGot, chan, upRead, streamTx, fwd, reader, end>>,
               \A lo, hi \in Nat : InFlight(toDaemon, x, lo, hi) => InFlight(toDaemon', x, lo, hi),
               bridge[x] = "done" => bridge'[x] = "done"
        PROVE  UpInv(x)'
    BY <1>1, UpFrame DEF ReaderHolds
  <1>2. CASE HandleOpen \/ HandleData \/ PushUp \/ HandleClose \/ ControlClosed \/ ConnectStep \/ AgentCrash
    <2>1. UNCHANGED <<cl, clGot, chan, upRead, streamTx, fwd, reader, end, toDaemon, bridge>>
      BY <1>2 DEF HandleOpen, HandleData, PushUp, HandleClose, ControlClosed, ConnectStep, Connected, ConnectFailed,
                  ServiceWriteFailed, AgentCrash
    <2> QED BY <1>1, <2>1
  <1>3. CASE Refuse \/ Grant
    <2>1. loop.id \in Stream /\ (x = loop.id => LoopOpens(x))
      BY <1>3, ReaderFacts DEF Refuse, Grant, TypeInv, LoopOpens
    <2>2. PICK ok \in BOOLEAN : SendToDaemon(Result(loop.id, ok))
      BY <1>3 DEF Refuse, Grant
    <2>3. Result(loop.id, ok) \in UpMessage /\ ~IsData(Result(loop.id, ok), x)
      BY <2>1 DEF Result, UpMessage, IsData
    <2>4. \A lo, hi \in Nat : InFlight(toDaemon, x, lo, hi) => InFlight(toDaemon', x, lo, hi)
      BY <2>2, <2>3, DaemonQueue DEF SendToDaemon
    <2>5. bridge[x] = "done" => bridge'[x] = "done"
      BY <1>0, <1>3, <2>1 DEF Refuse, Grant, TypeInv, StreamInv, OpenedOnce
    <2>6. UNCHANGED <<cl, clGot, chan, upRead, streamTx, fwd, reader, end>>
      BY <1>3 DEF Refuse, Grant
    <2> QED BY <1>1, <2>4, <2>5, <2>6
  <1>4. ASSUME NEW s \in Stream,
               ToUpStep(s) \/ ToUpWritten(s) \/ ToUpFailed(s) \/ FromUpPart(s) \/ FromUpDone(s) \/ BridgeRemove(s)
        PROVE  UpInv(x)'
    <2>1. UNCHANGED <<cl, clGot, chan, upRead, streamTx, fwd, reader, end>>
      BY <1>4 DEF ToUpStep, ToUp, ToUpWritten, ToUpFailed, ToUpDone, FromUpPart, FromUpDone, BridgeRemove
    <2>2. \/ bridge' = bridge
          \/ bridge[s] # "done" /\ \E p : bridge' = [bridge EXCEPT ![s] = p]
      BY <1>4 DEF ToUpStep, ToUp, ToUpWritten, ToUpFailed, ToUpDone, FromUpPart, FromUpDone, BridgeRemove
    <2>3. bridge[x] = "done" => bridge'[x] = "done"
      BY <2>2 DEF TypeInv
    <2>4. \A lo, hi \in Nat : InFlight(toDaemon, x, lo, hi) => InFlight(toDaemon', x, lo, hi)
      <3>1. CASE ToUpDone(s) \/ ToUpFailed(s)
        BY <3>1, Dropped DEF ToUpDone, ToUpFailed, Kept
      <3>2. CASE ~(ToUpDone(s) \/ ToUpFailed(s))
        <4>1. toDaemon' = toDaemon
          BY <1>4, <3>2 DEF ToUpStep, ToUp, ToUpWritten, FromUpPart, FromUpDone, BridgeRemove
        <4> QED BY <4>1
      <3> QED BY <3>1, <3>2
    <2> QED BY <1>1, <2>1, <2>3, <2>4
  <1>5. ASSUME NEW s \in Stream, BridgeClose(s) PROVE UpInv(x)'
    <2>1. Close(s) \in UpMessage /\ ~IsData(Close(s), x)
      BY DEF Close, UpMessage, IsData
    <2>2. \A lo, hi \in Nat : InFlight(toDaemon, x, lo, hi) => InFlight(toDaemon', x, lo, hi)
      BY <1>5, <2>1, DaemonQueue DEF BridgeClose, SendToDaemon
    <2>3. bridge[x] = "done" => bridge'[x] = "done"
      BY <1>5 DEF BridgeClose, TypeInv
    <2> QED BY <1>1, <1>5, <2>2, <2>3 DEF BridgeClose
  <1>6. ASSUME NEW s \in Stream, EndStep(s) PROVE UpInv(x)'
    <2>1. /\ UNCHANGED <<clGot, chan, upRead, streamTx, fwd, reader, end, toDaemon, bridge>>
          /\ cl' = cl \/ \E how : how # "open" /\ cl' = [cl EXCEPT ![s] = how]
      BY <1>6 DEF EndStep, UpSend, UpClose, ClientSend, ClientLeave
    <2>2. cl'[x] = "open" => cl[x] = "open"
      BY <2>1 DEF TypeInv
    <2> QED BY <2>1, <2>2, UpFrame DEF ReaderHolds
  <1>7. ASSUME NEW s \in Stream, FromUp(s) PROVE UpInv(x)'
    <2> DEFINE m == Data(s, upRead[s] + 1)
    <2>0. /\ bridge[s] = "run" /\ toDaemon' = Append(toDaemon, m) /\ upRead' = [upRead EXCEPT ![s] = @ + 1]
          /\ UNCHANGED <<cl, clGot, chan, streamTx, fwd, reader, end, bridge>>
      BY <1>7 DEF FromUp
    <2>1. upRead[s] \in 0..MaxUp /\ upSent[s] \in 0..MaxUp /\ upRead[s] < upSent[s]
      BY <1>7 DEF FromUp, TypeInv
    <2>2. upRead[s] + 1 \in 0..MaxUp
      BY <2>1, BoundAssumption
    <2>3. m \in UpMessage /\ m.id = s /\ m.type = "data" /\ m.n = upRead[s] + 1
      BY <2>2 DEF Data, UpMessage
    <2> HIDE DEF m
    <2>4. CASE x # s
      <3>1. upRead'[x] = upRead[x]
        BY <2>0, <2>4 DEF TypeInv
      <3>2. \A lo, hi \in Nat : InFlight(toDaemon, x, lo, hi) => InFlight(toDaemon', x, lo, hi)
        BY <2>0, <2>3, <2>4, DaemonQueue DEF IsData
      <3> QED BY <2>0, <3>1, <3>2, UpFrame DEF ReaderHolds
    <2>5. CASE x = s /\ cl[x] = "open"
      <3>1. upRead'[x] = upRead[x] + 1
        BY <2>0, <2>5 DEF TypeInv
      <3>2. \A lo \in Nat : InFlight(toDaemon, x, lo, upRead[x]) => InFlight(toDaemon', x, lo, upRead[x] + 1)
        <4>1. /\ toDaemon \in Seq(UpMessage) /\ toDaemon' = Append(toDaemon, m) /\ IsData(m, x)
              /\ \A y \in UpMessage : y.type = "data" => y.n \in Nat
          BY <2>0, <2>3, <2>5, UpFacts DEF TypeInv, IsData
        <4> QED BY <1>0, <2>3, <2>5, <4>1, InFlightAppend
      <3>3. UpBase(x)' = UpBase(x) /\ UpBase(x) + 1 \in Nat
        BY <1>0, <2>0 DEF UpBase
      <3>4. bridge[x] # "done" /\ (ReaderHolds(x)' <=> ReaderHolds(x))
        BY <2>0, <2>5 DEF ReaderHolds
      <3> QED BY <1>0, <2>0, <2>5, <3>1, <3>2, <3>3, <3>4 DEF UpInv
    <2>6. CASE cl[x] # "open"
      BY <2>0, <2>6 DEF UpInv
    <2> QED BY <2>4, <2>5, <2>6
  <1> QED BY <1>2, <1>3, <1>4, <1>5, <1>6, <1>7 DEF LoopStep, Tasks, FromUpStep, BridgeEnd


(***************************************************************************)
(* The data of a stream from the client to the backend.                    *)
(***************************************************************************)

LEMMA DownFrame ==
    ASSUME TypeInv, NEW x \in Stream, DownInv(x), EndInv(x),
           up'[x] = "open" => up[x] = "open",
           upGot'[x] = upGot[x], achan'[x] = achan[x],
           agentUp' => \A lo, hi \in Nat : InFlight(toAgent, x, lo, hi) => InFlight(toAgent', x, lo, hi),
           LoopHolds(x)' <=> LoopHolds(x), LoopHolds(x) => loop'.n = loop.n,
           x \in streams' /\ agentUp' => x \in streams /\ agentUp /\ DownSent(x)' = DownSent(x),
           x \notin streams' /\ bridge'[x] = "run" => x \notin streams /\ bridge[x] = "run",
           fwd[x] = "done" => fwd'[x] = "done" /\ clRead'[x] = clRead[x],
           aend'[x] = "to_up" => aend[x] = "to_up"
    PROVE  DownInv(x)'
  <1>1. /\ DownBase(x)' = DownBase(x) /\ DownBase(x) \in Nat /\ DownBase(x) + 1 \in Nat
        /\ DownSent(x) \in Nat
    BY UpNat DEF DownBase, EndInv
  <1> SUFFICES ASSUME up'[x] = "open" PROVE DownInv(x)'
    BY DEF DownInv
  <1>2. \A i \in 1..Len(achan'[x]) : achan'[x][i] = upGot'[x] + i
    BY DEF DownInv
  <1>3. ASSUME x \in streams', agentUp', LoopHolds(x)'
        PROVE  loop'.n = DownBase(x)' + 1 /\ InFlight(toAgent', x, DownBase(x)' + 1, DownSent(x)')
    BY <1>1, <1>3 DEF DownInv
  <1>4. ASSUME x \in streams', agentUp', ~LoopHolds(x)'
        PROVE  InFlight(toAgent', x, DownBase(x)', DownSent(x)')
    BY <1>1, <1>4 DEF DownInv
  <1>5. ASSUME x \notin streams', bridge'[x] = "run"
        PROVE  DownBase(x)' = clRead'[x] /\ fwd'[x] = "done"
    BY <1>1, <1>5 DEF DownInv
  <1>6. ASSUME aend'[x] = "to_up" PROVE upGot'[x] = clRead'[x] /\ fwd'[x] = "done"
    BY <1>6 DEF DownInv
  <1> QED BY <1>2, <1>3, <1>4, <1>5, <1>6 DEF DownInv

LEMMA AgentQueue ==
    ASSUME TypeInv, NEW x \in Stream
    PROVE  /\ \A m \in DownMessage : SendToAgent(m) /\ ~IsData(m, x) =>
                 \A lo, hi \in Nat : InFlight(toAgent, x, lo, hi) => InFlight(toAgent', x, lo, hi)
           /\ toAgent # <<>> /\ toAgent' = Tail(toAgent) /\ ~IsData(Head(toAgent), x) =>
                 \A lo, hi \in Nat : InFlight(toAgent, x, lo, hi) => InFlight(toAgent', x, lo, hi)
           /\ toAgent # <<>> /\ toAgent' = Tail(toAgent) /\ IsData(Head(toAgent), x) =>
                 \A lo, hi \in Nat : InFlight(toAgent, x, lo, hi) =>
                    Head(toAgent).n = lo + 1 /\ InFlight(toAgent', x, lo + 1, hi)
  <1>1. toAgent \in Seq(DownMessage) /\ \A m \in DownMessage : m.type = "data" => m.n \in Nat
    BY DownFacts DEF TypeInv
  <1>2. ASSUME NEW m \in DownMessage, SendToAgent(m), ~IsData(m, x), NEW lo \in Nat, NEW hi \in Nat,
               InFlight(toAgent, x, lo, hi)
        PROVE  InFlight(toAgent', x, lo, hi)
    BY <1>1, <1>2, InFlightOther DEF SendToAgent
  <1>3. ASSUME toAgent # <<>>, toAgent' = Tail(toAgent), NEW lo \in Nat, NEW hi \in Nat,
               InFlight(toAgent, x, lo, hi)
        PROVE  /\ ~IsData(Head(toAgent), x) => InFlight(toAgent', x, lo, hi)
               /\ IsData(Head(toAgent), x) => Head(toAgent).n = lo + 1 /\ InFlight(toAgent', x, lo + 1, hi)
    BY <1>1, <1>3, InFlightTail
  <1> QED BY <1>2, <1>3

LEMMA DownInit == Init => \A x \in Stream : DownInv(x) /\ EndInv(x)
  <1> SUFFICES ASSUME Init, NEW x \in Stream PROVE DownInv(x) /\ EndInv(x)
    OBVIOUS
  <1>1. up[x] = "none" /\ fwd[x] = "none" /\ aend[x] = "" /\ end[x] = ""
    BY DEF Init
  <1> QED BY <1>1 DEF DownInv, EndInv

LEMMA DownForward ==
    ASSUME TypeInv, CtrlInv, NEW s \in Stream, Forwards(s), NEW x \in Stream, DownInv(x), EndInv(x)
    PROVE  DownInv(x)'
  <1> USE DEF daemonVars, agentVars, taskVars, upVars, clVars
  <1>0. /\ DownBase(x) \in Nat /\ clRead[x] \in Nat /\ DownSent(x) \in Nat
        /\ DownBase(x) + 1 \in Nat
    BY UpNat DEF EndInv
  \* A move that is not into or out of the writing of data, with an append of another kind.
  <1>1. ASSUME NEW p, fwd' = [fwd EXCEPT ![s] = p], fwd[s] # "done",
               UNCHANGED <<agentVars, upVars, clRead>>,
               agentUp => (p = "write" <=> fwd[s] = "write"),
               \A lo, hi \in Nat : InFlight(toAgent, x, lo, hi) => InFlight(toAgent', x, lo, hi)
        PROVE  DownInv(x)'
    <2>1. /\ x # s => fwd'[x] = fwd[x]
          /\ x = s => fwd'[x] = p
      BY <1>1 DEF TypeInv
    <2>2. agentUp => DownSent(x)' = DownSent(x)
      BY <1>1, <2>1 DEF DownSent
    <2>3. (LoopHolds(x)' <=> LoopHolds(x)) /\ loop' = loop /\ clRead' = clRead
      BY <1>1 DEF LoopHolds
    <2> QED BY <1>1, <2>1, <2>2, <2>3, DownFrame
  <1>2. CASE Begin(s) \/ WriteFailed(s) \/ TimedOut(s) \/ Abort(s) \/ OpenRefused(s) \/ OpenGranted(s)
             \/ ClientEof(s) \/ Deliver(s) \/ Delivered(s) \/ ClientGone(s) \/ ChannelClosed(s) \/ RemoveTx(s)
    <2>1. UNCHANGED <<agentVars, upVars, clRead, toAgent>>
      BY <1>2 DEF Begin, WriteFailed, TimedOut, Abort, OpenRefused, OpenGranted, ClientEof, Deliver, Delivered,
                  ClientGone, ChannelClosed, RemoveTx
    <2>2. PICK p : fwd' = [fwd EXCEPT ![s] = p] /\ fwd[s] # "done" /\ p # "write" /\ fwd[s] # "write"
      BY <1>2 DEF Begin, WriteFailed, TimedOut, Abort, OpenRefused, OpenGranted, ClientEof, Deliver, Delivered,
                  ClientGone, ChannelClosed, RemoveTx
    <2> QED BY <1>1, <2>1, <2>2
  <1>3. CASE ReturnError(s)
    <2>1. agentUp => fwd[s] # "write"
      BY <1>3 DEF ReturnError
    <2> QED BY <1>1, <1>3, <2>1 DEF ReturnError
  <1>4. CASE WriteOpen(s)
    <2>1. Open(s) \in DownMessage /\ ~IsData(Open(s), x)
      BY DEF Open, DownMessage, IsData
    <2>2. \A lo, hi \in Nat : InFlight(toAgent, x, lo, hi) => InFlight(toAgent', x, lo, hi)
      BY <1>4, <2>1, AgentQueue DEF WriteOpen
    <2> QED BY <1>1, <1>4, <2>2 DEF WriteOpen
  <1>5. CASE WriteClose(s)
    <2>1. Close(s) \in DownMessage /\ ~IsData(Close(s), x)
      BY DEF Close, DownMessage, IsData
    <2>2. \A lo, hi \in Nat : InFlight(toAgent, x, lo, hi) => InFlight(toAgent', x, lo, hi)
      BY <1>5, <2>1, AgentQueue DEF WriteClose
    <2> QED BY <1>1, <1>5, <2>2 DEF WriteClose
  <1>7. CASE ReadClient(s)
    <2>1. /\ fwd[s] = "bridge" /\ clRead' = [clRead EXCEPT ![s] = @ + 1] /\ fwd' = [fwd EXCEPT ![s] = "write"]
          /\ UNCHANGED <<agentVars, upVars, toAgent>>
      BY <1>7 DEF ReadClient
    <2>2. /\ x # s => fwd'[x] = fwd[x] /\ clRead'[x] = clRead[x]
          /\ x = s => fwd'[x] = "write" /\ clRead'[x] = clRead[x] + 1 /\ fwd[x] = "bridge"
      BY <2>1 DEF TypeInv
    <2>3. DownSent(x)' = DownSent(x)
      BY <1>0, <2>2 DEF DownSent
    <2>4. LoopHolds(x)' <=> LoopHolds(x)
      BY <2>1 DEF LoopHolds
    <2> QED BY <2>1, <2>2, <2>3, <2>4, DownFrame
  <1>8. CASE WriteData(s)
    <2> DEFINE m == Data(s, clRead[s])
    <2>0. /\ fwd[s] = "write" /\ SendToAgent(m) /\ fwd' = [fwd EXCEPT ![s] = "bridge"]
          /\ UNCHANGED <<agentVars, upVars, clRead>>
      BY <1>8 DEF WriteData
    <2>1. m \in DownMessage /\ m.id = s /\ m.type = "data" /\ m.n = clRead[s]
      BY DEF Data, DownMessage, TypeInv
    <2> HIDE DEF m
    <2>2. CASE x # s
      <3>1. fwd'[x] = fwd[x] /\ DownSent(x)' = DownSent(x)
        BY <2>0, <2>2 DEF TypeInv, DownSent
      <3>2. \A lo, hi \in Nat : InFlight(toAgent, x, lo, hi) => InFlight(toAgent', x, lo, hi)
        BY <2>0, <2>1, <2>2, AgentQueue DEF IsData
      <3>3. LoopHolds(x)' <=> LoopHolds(x)
        BY <2>0 DEF LoopHolds
      <3> QED BY <2>0, <3>1, <3>2, <3>3, DownFrame
    <2>3. CASE x = s
      <3>1. /\ fwd[x] = "write" /\ fwd'[x] = "bridge" /\ DownSent(x) = clRead[x] - 1 /\ DownSent(x)' = clRead[x]
            /\ DownBase(x)' = DownBase(x)
        BY <2>0, <2>3 DEF TypeInv, DownSent, DownBase
      <3>2. m.n = DownSent(x) + 1 /\ clRead[x] = DownSent(x) + 1
        BY <1>0, <2>1, <2>3, <3>1
      <3>3. \A lo \in Nat : InFlight(toAgent, x, lo, DownSent(x)) => InFlight(toAgent', x, lo, DownSent(x) + 1)
        <4>1. /\ toAgent \in Seq(DownMessage) /\ toAgent' = Append(toAgent, m) /\ IsData(m, x)
              /\ \A y \in DownMessage : y.type = "data" => y.n \in Nat
          BY <2>0, <2>1, <2>3, DownFacts DEF TypeInv, SendToAgent, IsData
        <4> QED BY <1>0, <2>1, <3>2, <4>1, InFlightAppend
      <3>4. LoopHolds(x)' <=> LoopHolds(x)
        BY <2>0 DEF LoopHolds
      <3> QED BY <1>0, <2>0, <3>1, <3>2, <3>3, <3>4 DEF DownInv
    <2> QED BY <2>2, <2>3
  <1> QED BY <1>2, <1>3, <1>4, <1>5, <1>7, <1>8 DEF Forwards, ForwardStep

LEMMA EmptyLen == Len(<<>>) = 0
  OBVIOUS

LEMMA DownLoop ==
    ASSUME TypeInv, CtrlInv, LoopStep \/ ConnectStep \/ AgentCrash, NEW x \in Stream, DownInv(x), EndInv(x)
    PROVE  DownInv(x)'
  <1> USE DEF daemonVars, agentVars, taskVars, upVars, clVars
  <1> DEFINE m == Head(toAgent)
  <1>0. /\ StreamInv(x) /\ DownBase(x) \in Nat /\ clRead[x] \in Nat /\ DownSent(x) \in Nat
        /\ DownBase(x) + 1 \in Nat /\ upGot[x] \in Nat /\ Len(achan[x]) \in Nat /\ loop \in Loops
    <2>1. StreamInv(x)
      BY DEF CtrlInv
    <2>2. /\ DownBase(x) \in Nat /\ clRead[x] \in Nat /\ DownSent(x) \in Nat
          /\ upGot[x] \in Nat /\ Len(achan[x]) \in Nat
      BY UpNat DEF EndInv
    <2>3. loop \in Loops
      BY DEF TypeInv
    <2> QED BY <2>1, <2>2, <2>3
  <1>1. CASE HandleOpen
    <2>0. /\ toAgent # <<>> /\ toAgent' = Tail(toAgent) /\ m.type = "open" /\ loop = Idle
          /\ loop' \in {Busy("connect", m.id), Busy("refuse", m.id)}
          /\ UNCHANGED <<daemonVars, agentUp, streams, achan, bridge, aend, upVars, clVars>>
      BY <1>1 DEF HandleOpen, Arrived
    <2>1. m.id \in Stream
      BY <2>0, AgentRead
    <2>2. ~LoopHolds(x) /\ ~LoopHolds(x)'
      BY <2>0, <2>1, ReaderFacts DEF LoopHolds
    <2>3. \A lo, hi \in Nat : InFlight(toAgent, x, lo, hi) => InFlight(toAgent', x, lo, hi)
      BY <2>0, AgentQueue DEF IsData
    <2>4. DownSent(x)' = DownSent(x)
      BY <2>0 DEF DownSent
    <2> QED BY <2>0, <2>2, <2>3, <2>4, DownFrame
  <1>2. CASE ConnectFailed \/ ServiceWriteFailed \/ Refuse
    <2>0. /\ loop.pc \in {"connect", "refuse"} /\ loop' \in {Idle, Busy("refuse", loop.id)}
          /\ UNCHANGED <<daemonVars, toAgent, agentUp, streams, achan, bridge, aend, upVars, clVars>>
      BY <1>2 DEF ConnectFailed, ServiceWriteFailed, Refuse
    <2>1. ~LoopHolds(x) /\ ~LoopHolds(x)'
      BY <1>0, <2>0, ReaderFacts DEF LoopHolds
    <2>2. DownSent(x)' = DownSent(x)
      BY <2>0 DEF DownSent
    <2> QED BY <2>0, <2>1, <2>2, DownFrame
  <1>3. CASE Connected
    <2>0. /\ loop.pc = "connect" /\ loop' = Busy("accept", loop.id) /\ up' = [up EXCEPT ![loop.id] = "open"]
          /\ UNCHANGED <<daemonVars, toAgent, agentUp, streams, achan, bridge, aend, upGot, clVars>>
      BY <1>3 DEF Connected
    <2>1. ~LoopHolds(x) /\ ~LoopHolds(x)' /\ loop.id \in Stream /\ (x = loop.id => LoopOpens(x))
      BY <1>0, <2>0, ReaderFacts DEF LoopHolds, LoopOpens
    <2>2. CASE x # loop.id
      <3>1. up'[x] = up[x] /\ DownSent(x)' = DownSent(x)
        BY <2>0, <2>1, <2>2 DEF TypeInv, DownSent
      <3> QED BY <2>0, <2>1, <3>1, DownFrame
    <2>3. CASE x = loop.id
      <3>1. bridge[x] = "none"
        BY <1>0, <2>1, <2>3 DEF StreamInv, OpenedOnce
      <3>2. achan[x] = <<>> /\ x \notin streams /\ aend[x] = ""
        BY <1>0, <3>1 DEF StreamInv, NotOpened, MapsInv
      <3>3. Len(achan[x]) = 0
        BY <3>2, EmptyLen
      <3>4. \A i \in 1..Len(achan[x]) : achan[x][i] = upGot[x] + i
        BY <3>3
      <3>5. achan' = achan /\ upGot' = upGot /\ x \notin streams' /\ bridge'[x] # "run" /\ aend'[x] # "to_up"
        BY <2>0, <3>1, <3>2
      <3> QED BY <3>4, <3>5 DEF DownInv
    <2> QED BY <2>2, <2>3
  <1>4. CASE Grant
    <2>0. /\ loop.pc = "accept" /\ loop' = Idle /\ streams' = streams \cup {loop.id}
          /\ bridge' = [bridge EXCEPT ![loop.id] = "run"]
          /\ UNCHANGED <<daemonVars, toAgent, agentUp, achan, aend, upVars, clVars>>
      BY <1>4 DEF Grant
    <2>1. ~LoopHolds(x) /\ ~LoopHolds(x)' /\ loop.id \in Stream /\ (x = loop.id => LoopOpens(x))
      BY <1>0, <2>0, ReaderFacts DEF LoopHolds, LoopOpens
    <2>2. DownSent(x)' = DownSent(x) /\ DownBase(x)' = DownBase(x)
      BY <2>0 DEF DownSent, DownBase
    <2>3. CASE x # loop.id
      <3>1. bridge'[x] = bridge[x] /\ (x \in streams' <=> x \in streams)
        BY <2>0, <2>1, <2>3 DEF TypeInv
      <3> QED BY <2>0, <2>1, <2>2, <3>1, DownFrame
    <2>4. CASE x = loop.id
      <3>1. bridge[x] = "none"
        BY <1>0, <2>1, <2>4 DEF StreamInv, OpenedOnce
      <3>2. /\ achan[x] = <<>> /\ x \notin streams /\ aend[x] = "" /\ upGot[x] = 0 /\ clRead[x] = 0
            /\ fwd[x] # "write" /\ \A y \in Elems(toAgent) : y.id = x => y.type = "open"
        BY <1>0, <3>1 DEF StreamInv, NotOpened, MapsInv
      <3>3. Len(achan[x]) = 0 /\ DownBase(x) = 0 /\ DownSent(x) = 0
        <4>1. Len(achan[x]) = 0
          BY <3>2, EmptyLen
        <4>2. upGot[x] = 0 /\ clRead[x] = 0 /\ fwd[x] # "write"
          BY <3>2
        <4>3. DownBase(x) = 0
          BY <4>1, <4>2 DEF DownBase
        <4>4. DownSent(x) = 0
          BY <4>2 DEF DownSent
        <4> QED BY <4>1, <4>3, <4>4
      <3>4. InFlight(toAgent, x, 0, 0)
        <4>1. toAgent \in Seq(DownMessage) /\ \A y \in Elems(toAgent) : ~IsData(y, x)
          BY <3>2 DEF TypeInv, IsData
        <4> QED BY <4>1, InFlightNone
      <3>5. x \in streams' /\ \A i \in 1..Len(achan[x]) : achan[x][i] = upGot[x] + i
        BY <2>0, <2>4, <3>3
      <3> QED BY <2>0, <2>1, <2>2, <3>2, <3>3, <3>4, <3>5 DEF DownInv
    <2> QED BY <2>3, <2>4
  <1>5. CASE HandleData
    <2>0. /\ toAgent # <<>> /\ toAgent' = Tail(toAgent) /\ m.type = "data" /\ loop = Idle
          /\ loop' = IF m.id \in streams THEN Holding(m.id, m.n) ELSE Idle
          /\ UNCHANGED <<daemonVars, agentUp, streams, achan, bridge, aend, upVars, clVars>>
      BY <1>5 DEF HandleData, Arrived
    <2>1. m.id \in Stream /\ m.n \in Nat
      BY <2>0, AgentRead, DownFacts
    <2>2. /\ ~LoopHolds(x)
          /\ LoopHolds(x)' <=> x = m.id /\ x \in streams
          /\ LoopHolds(x)' => loop'.n = m.n
      BY <2>0, <2>1, ReaderFacts DEF LoopHolds
    <2>3. DownSent(x)' = DownSent(x) /\ DownBase(x)' = DownBase(x)
      BY <2>0 DEF DownSent, DownBase
    <2>4. CASE x # m.id
      <3>1. \A lo, hi \in Nat : InFlight(toAgent, x, lo, hi) => InFlight(toAgent', x, lo, hi)
        BY <2>0, <2>4, AgentQueue DEF IsData
      <3>2. (LoopHolds(x)' <=> LoopHolds(x)) /\ ~LoopHolds(x)
        BY <2>2, <2>4
      <3> QED BY <2>0, <2>3, <3>1, <3>2, DownFrame
    <2>5. CASE x = m.id /\ up[x] = "open"
      <3>1. \A lo, hi \in Nat : InFlight(toAgent, x, lo, hi) =>
               m.n = lo + 1 /\ InFlight(toAgent', x, lo + 1, hi)
        BY <2>0, <2>5, AgentQueue DEF IsData
      <3>2. x \in streams /\ agentUp =>
               m.n = DownBase(x) + 1 /\ InFlight(toAgent', x, DownBase(x) + 1, DownSent(x))
        BY <1>0, <2>2, <2>5, <3>1 DEF DownInv
      <3> QED BY <2>0, <2>2, <2>3, <2>5, <3>2 DEF DownInv
    <2>6. CASE up[x] # "open"
      BY <2>0, <2>6 DEF DownInv
    <2> QED BY <2>4, <2>5, <2>6
  <1>6. CASE PushUp
    <2> DEFINE r == loop.id
    <2>0. /\ agentUp /\ loop.pc = "send" /\ loop' = Idle
          /\ \/ bridge[r] # "done" /\ achan' = [achan EXCEPT ![r] = Append(@, loop.n)]
             \/ bridge[r] = "done" /\ achan' = achan
          /\ UNCHANGED <<daemonVars, toAgent, agentUp, streams, bridge, aend, upVars, clVars>>
      BY <1>6 DEF PushUp, StreamsLocked
    <2>1. r \in Stream /\ loop.n \in 0..MaxDown /\ ~LoopHolds(x)' /\ (LoopHolds(x) <=> x = r)
      BY <1>0, <2>0, ReaderFacts DEF LoopHolds, TypeInv
    <2>2. DownSent(x)' = DownSent(x)
      BY <2>0 DEF DownSent
    <2>3. CASE x # r
      <3>1. achan'[x] = achan[x]
        BY <2>0, <2>1, <2>3 DEF TypeInv
      <3>2. (LoopHolds(x)' <=> LoopHolds(x)) /\ ~LoopHolds(x)
        BY <2>1, <2>3
      <3> QED BY <2>0, <2>2, <3>1, <3>2, DownFrame
    <2>4. CASE x = r /\ up[x] = "open"
      <3>1. x \in streams /\ bridge[x] # "done"
        BY <1>0, <2>1, <2>4 DEF StreamInv, MapsInv
      <3>2. achan'[x] = Append(achan[x], loop.n) /\ achan[x] \in Seq(0..MaxDown)
        <4>1. achan'[x] = Append(achan[x], loop.n)
          BY <2>0, <2>1, <2>4, <3>1, Domains
        <4>2. achan[x] \in Seq(0..MaxDown)
          BY DEF TypeInv
        <4> QED BY <4>1, <4>2
      <3>3. /\ Len(achan'[x]) = Len(achan[x]) + 1 /\ achan'[x][Len(achan[x]) + 1] = loop.n
            /\ \A i \in 1..Len(achan[x]) : achan'[x][i] = achan[x][i]
        BY <2>1, <3>2
      <3>4. /\ loop.n = DownBase(x) + 1 /\ InFlight(toAgent, x, DownBase(x) + 1, DownSent(x))
            /\ \A i \in 1..Len(achan[x]) : achan[x][i] = upGot[x] + i
        BY <2>0, <2>1, <2>4, <3>1 DEF DownInv
      <3>5. DownBase(x)' = DownBase(x) + 1
        BY <1>0, <2>0, <3>3 DEF DownBase
      <3>6. ASSUME NEW i \in 1..Len(achan'[x]) PROVE achan'[x][i] = upGot[x] + i
        <4>1. CASE i \in 1..Len(achan[x])
          BY <3>3, <3>4, <4>1
        <4>2. CASE i = Len(achan[x]) + 1
          BY <1>0, <3>3, <3>4, <4>2 DEF DownBase
        <4> QED BY <1>0, <3>3, <4>1, <4>2
      <3>7. aend[x] = "to_up" => upGot[x] = clRead[x] /\ fwd[x] = "done"
        BY <2>4 DEF DownInv
      <3> QED BY <2>0, <2>1, <2>2, <3>1, <3>4, <3>5, <3>6, <3>7 DEF DownInv
    <2>5. CASE up[x] # "open"
      BY <2>0, <2>5 DEF DownInv
    <2> QED BY <2>3, <2>4, <2>5
  <1>7. CASE HandleClose
    <2>0. /\ toAgent # <<>> /\ toAgent' = Tail(toAgent) /\ m.type = "close" /\ loop = Idle /\ agentUp
          /\ streams' = streams \ {m.id}
          /\ UNCHANGED <<daemonVars, agentUp, loop, achan, bridge, aend, upVars, clVars>>
      BY <1>7 DEF HandleClose, Arrived
    <2>1. \A lo, hi \in Nat : InFlight(toAgent, x, lo, hi) => InFlight(toAgent', x, lo, hi)
      BY <2>0, AgentQueue DEF IsData
    <2>2. ~LoopHolds(x) /\ ~LoopHolds(x)'
      BY <2>0, ReaderFacts DEF LoopHolds
    <2>3. DownSent(x)' = DownSent(x) /\ DownBase(x)' = DownBase(x)
      BY <2>0 DEF DownSent, DownBase
    <2>4. CASE x # m.id \/ x \notin streams
      <3>1. x \in streams' <=> x \in streams
        BY <2>0, <2>4
      <3> QED BY <2>0, <2>1, <2>2, <2>3, <3>1, DownFrame
    <2>5. CASE x = m.id /\ x \in streams /\ up[x] = "open"
      <3>1. m = Close(x) /\ m \in Elems(toAgent)
        BY <2>0, <2>5, AgentRead, DownFacts
      <3>2. fwd[x] = "done" /\ \A y \in Elems(toAgent') : y.id # x
        BY <1>0, <2>0, <3>1, AgentRead DEF StreamInv, ClosedLast
      <3>3. DownBase(x) = DownSent(x) /\ DownSent(x) = clRead[x]
        <4>1. toAgent' \in Seq(DownMessage) /\ \A y \in Elems(toAgent') : ~IsData(y, x)
          BY <2>0, <3>2, ReadType DEF IsData
        <4>2. InFlight(toAgent', x, DownBase(x), DownSent(x))
          BY <1>0, <2>0, <2>1, <2>2, <2>5 DEF DownInv
        <4>3. DownSent(x) = clRead[x]
          BY <3>2 DEF DownSent
        <4> QED BY <1>0, <4>1, <4>2, <4>3, InFlightNone
      <3>4. x \notin streams'
        BY <2>0, <2>5
      <3> QED BY <2>0, <2>3, <2>5, <3>2, <3>3, <3>4 DEF DownInv
    <2>6. CASE up[x] # "open"
      BY <2>0, <2>6 DEF DownInv
    <2> QED BY <2>4, <2>5, <2>6
  <1>8. CASE AgentCrash \/ ControlClosed
    <2>0. ~agentUp' /\ UNCHANGED <<daemonVars, loop, streams, achan, bridge, aend, upVars, clVars>>
      BY <1>8 DEF AgentCrash, ControlClosed
    <2>1. LoopHolds(x)' <=> LoopHolds(x)
      BY <2>0 DEF LoopHolds
    <2> QED BY <2>0, <2>1, DownFrame
  <1> QED BY <1>1, <1>2, <1>3, <1>4, <1>5, <1>6, <1>7, <1>8 DEF LoopStep, ConnectStep

LEMMA DownReader ==
    ASSUME TypeInv, Reads, NEW x \in Stream, DownInv(x), EndInv(x)
    PROVE  DownInv(x)'
  <1>1. UNCHANGED <<fwd, toAgent, agentVars, upVars, clVars>>
    BY DEF Reads, ReadResult, ReadData, PushData, ReadClose, ReaderEof
  <1>2. UNCHANGED <<fwd, toAgent, agentUp, loop, streams, achan, bridge, aend, up, upGot, clRead>>
    BY <1>1 DEF agentVars, taskVars, upVars, clVars
  <1>3. DownSent(x)' = DownSent(x) /\ (LoopHolds(x)' <=> LoopHolds(x))
    BY <1>2 DEF DownSent, LoopHolds
  <1> QED BY <1>2, <1>3, DownFrame

LEMMA DownEnds ==
    ASSUME TypeInv, CtrlInv, NEW s \in Stream, NEW x \in Stream, DownInv(x), EndInv(x),
           Tasks(s)
    PROVE  DownInv(x)'
  <1> USE DEF daemonVars, agentVars, taskVars, upVars, clVars
  <1>0. /\ UNCHANGED <<fwd, toAgent, agentUp, loop, clRead>>
        /\ (LoopHolds(x)' <=> LoopHolds(x)) /\ DownSent(x)' = DownSent(x)
    <2>1. UNCHANGED <<fwd, toAgent, agentUp, loop, clRead>>
      BY DEF Tasks, ToUpStep, ToUp, ToUpWritten, ToUpFailed, ToUpDone, FromUpStep, FromUpPart, FromUp, FromUpDone,
             BridgeEnd, BridgeRemove, BridgeClose, EndStep, UpSend, UpClose, ClientSend, ClientLeave
    <2> QED BY <2>1 DEF LoopHolds, DownSent
  \* A step that may only end the bridging task, or the backend, of s.
  <1>1. ASSUME upGot'[x] = upGot[x], achan'[x] = achan[x],
               up'[x] = "open" => up[x] = "open",
               x \in streams' => x \in streams,
               bridge'[x] = "run" => bridge[x] = "run" /\ (x \in streams' <=> x \in streams),
               aend'[x] = "to_up" => aend[x] = "to_up"
        PROVE  DownInv(x)'
    BY <1>0, <1>1, DownFrame
  <1>2. CASE ToUp(s)
    <2>0. /\ bridge[s] = "run" /\ achan[s] # <<>> /\ achan' = [achan EXCEPT ![s] = Tail(@)]
          /\ upGot' = [upGot EXCEPT ![s] = IF up[s] = "open" THEN Head(achan[s]) ELSE @]
          /\ UNCHANGED <<streams, bridge, aend, up>>
      BY <1>2 DEF ToUp
    <2>1. CASE x # s
      <3>1. achan'[x] = achan[x] /\ upGot'[x] = upGot[x]
        BY <2>0, <2>1 DEF TypeInv
      <3> QED BY <1>1, <2>0, <3>1
    <2>2. CASE x = s /\ up[x] = "open"
      <3>0. achan[x] \in Seq(0..MaxDown)
        BY DEF TypeInv
      <3>1. /\ Head(achan[x]) = achan[x][1] /\ Len(achan[x]) \in Nat /\ Len(achan[x]) > 0
            /\ Len(Tail(achan[x])) = Len(achan[x]) - 1
            /\ \A i \in 1..Len(Tail(achan[x])) : Tail(achan[x])[i] = achan[x][i + 1]
        BY <2>0, <2>2, <3>0
      <3>2. achan'[x] = Tail(achan[x]) /\ upGot'[x] = Head(achan[x])
        BY <2>0, <2>2 DEF TypeInv
      <3>3. /\ \A i \in 1..Len(achan[x]) : achan[x][i] = upGot[x] + i
            /\ 1 \in 1..Len(achan[x])
        BY <2>2, <3>1 DEF DownInv
      <3>4. upGot'[x] = upGot[x] + 1 /\ upGot[x] \in Nat
        BY <3>1, <3>2, <3>3, UpNat
      <3>5. DownBase(x)' = DownBase(x)
        BY <3>1, <3>2, <3>4 DEF DownBase
      <3>6. ASSUME NEW i \in 1..Len(achan'[x]) PROVE achan'[x][i] = upGot'[x] + i
        <4>1. i + 1 \in 1..Len(achan[x]) /\ achan'[x][i] = achan[x][i + 1] /\ i \in Nat
          BY <3>1, <3>2
        <4>2. achan[x][i + 1] = upGot[x] + (i + 1)
          BY <3>3, <4>1
        <4>3. upGot[x] + (i + 1) = (upGot[x] + 1) + i
          BY <3>4, <4>1
        <4> QED BY <3>4, <4>1, <4>2, <4>3
      <3>7. aend[x] = ""
        BY <2>0, <2>2 DEF CtrlInv, StreamInv, MapsInv
      <3>8. /\ UNCHANGED <<streams, bridge, fwd, clRead, toAgent, agentUp, loop>>
            /\ aend'[x] # "to_up"
        BY <1>0, <2>0, <3>7
      <3> QED BY <1>0, <2>2, <3>5, <3>6, <3>8 DEF DownInv
    <2>3. CASE up[x] # "open"
      BY <2>0, <2>3 DEF DownInv
    <2> QED BY <2>1, <2>2, <2>3
  <1>3. CASE ToUpFailed(s)
    <2>0. /\ up[s] = "closed" /\ achan' = achan
          /\ aend' = [aend EXCEPT ![s] = "write_failed"] /\ bridge' = [bridge EXCEPT ![s] = "remove"]
          /\ UNCHANGED <<streams, up, upGot>>
      BY <1>3 DEF ToUpFailed
    <2>1. CASE x # s
      <3>1. achan'[x] = achan[x] /\ aend'[x] = aend[x] /\ bridge'[x] = bridge[x]
        BY <2>0, <2>1 DEF TypeInv
      <3> QED BY <1>1, <2>0, <3>1
    <2>2. CASE x = s
      BY <2>0, <2>2 DEF DownInv
    <2> QED BY <2>1, <2>2
  <1>4. CASE ToUpDone(s)
    <2>0. /\ bridge[s] = "run" /\ achan[s] = <<>> /\ s \notin streams
          /\ aend' = [aend EXCEPT ![s] = "to_up"] /\ bridge' = [bridge EXCEPT ![s] = "remove"]
          /\ UNCHANGED <<streams, achan, up, upGot>>
      BY <1>4 DEF ToUpDone
    <2>1. CASE x # s
      <3>1. aend'[x] = aend[x] /\ bridge'[x] = bridge[x]
        BY <2>0, <2>1 DEF TypeInv
      <3> QED BY <1>1, <2>0, <3>1
    <2>2. CASE x = s /\ up[x] = "open"
      <3>1. DownBase(x) = clRead[x] /\ fwd[x] = "done"
        BY <2>0, <2>2 DEF DownInv
      <3>2. Len(achan[x]) = 0
        BY <2>0, <2>2, EmptyLen
      <3>3. upGot[x] = clRead[x]
        BY <3>1, <3>2, UpNat DEF DownBase
      <3>4. \A i \in 1..Len(achan[x]) : achan[x][i] = upGot[x] + i
        BY <2>2 DEF DownInv
      <3>5. x \notin streams' /\ bridge'[x] = "remove"
        BY <2>0, <2>2 DEF TypeInv
      <3> QED BY <1>0, <2>0, <3>1, <3>3, <3>4, <3>5 DEF DownInv
    <2>3. CASE up[x] # "open"
      BY <2>0, <2>3 DEF DownInv
    <2> QED BY <2>1, <2>2, <2>3
  <1>5. CASE FromUpDone(s) \/ BridgeClose(s)
    <2>0. /\ UNCHANGED <<streams, achan, up, upGot>>
          /\ \/ /\ bridge' = [bridge EXCEPT ![s] = "remove"]
                /\ aend' = [aend EXCEPT ![s] = "from_up"]
             \/ bridge' = [bridge EXCEPT ![s] = "done"] /\ aend' = aend
      BY <1>5 DEF FromUpDone, BridgeClose
    <2>1. /\ bridge'[x] = "run" => bridge[x] = "run"
          /\ aend'[x] = "to_up" => aend[x] = "to_up"
      BY <2>0, Domains
    <2> QED BY <1>1, <2>0, <2>1
  <1>6. CASE BridgeRemove(s)
    <2>0. /\ UNCHANGED <<achan, up, upGot, aend>>
          /\ bridge' = [bridge EXCEPT ![s] = "close"] /\ streams' = streams \ {s}
      BY <1>6 DEF BridgeRemove
    <2>1. /\ bridge'[x] = "run" => bridge[x] = "run" /\ x # s
      BY <2>0 DEF TypeInv
    <2> QED BY <1>1, <2>0, <2>1
  <1>7. CASE ToUpWritten(s) \/ FromUpPart(s) \/ FromUp(s) \/ EndStep(s)
    <2>0. /\ UNCHANGED <<streams, achan, bridge, aend, upGot>>
          /\ up' = up \/ up' = [up EXCEPT ![s] = "closed"]
      BY <1>7 DEF ToUpWritten, FromUpPart, FromUp, EndStep, UpSend, UpClose, ClientSend, ClientLeave
    <2>1. up'[x] = "open" => up[x] = "open"
      BY <2>0 DEF TypeInv
    <2> QED BY <1>1, <2>0, <2>1
  <1> QED BY <1>2, <1>3, <1>4, <1>5, <1>6, <1>7 DEF Tasks, ToUpStep, FromUpStep, BridgeEnd

(***************************************************************************)
(* What the two ends had done when a session ended.                        *)
(***************************************************************************)

LEMMA EndForward ==
    ASSUME TypeInv, CtrlInv, NEW s \in Stream, Forwards(s), NEW x \in Stream, EndInv(x)
    PROVE  EndInv(x)'
  <1> USE DEF daemonVars, agentVars, taskVars, upVars, clVars
  <1>1. UNCHANGED <<aend, up, upRead, upSent, cl, clSent>>
    BY DEF Forwards, ForwardStep, Begin, WriteOpen, WriteFailed, TimedOut, Abort, OpenRefused, OpenGranted, ReadClient,
           WriteData, ReturnError, ClientEof, Deliver, Delivered, ClientGone, ChannelClosed, RemoveTx, WriteClose
  <1>2. CASE ReadClient(s)
    <2>1. /\ fwd[s] = "bridge" /\ clRead' = [clRead EXCEPT ![s] = @ + 1] /\ fwd' = [fwd EXCEPT ![s] = "write"]
          /\ end' = end
      BY <1>2 DEF ReadClient
    <2>2. CASE x # s
      BY <1>1, <2>1, <2>2 DEF TypeInv, EndInv
    <2>3. CASE x = s
      <3>1. end[x] = ""
        BY <2>1, <2>3 DEF CtrlInv, StreamInv, MapsInv
      <3>2. clRead'[x] > 0
        <4>1. clRead'[x] = clRead[x] + 1
          BY <2>1, <2>3 DEF TypeInv
        <4> QED BY <4>1, UpNat
      <3>3. (aend'[x] = "from_up" => up'[x] = "closed" /\ upRead'[x] = upSent'[x]) /\ end'[x] # "client_eof"
        BY <1>1, <2>1, <3>1 DEF EndInv
      <3> QED BY <3>2, <3>3 DEF EndInv
    <2> QED BY <2>2, <2>3
  <1>3. CASE ClientEof(s)
    <2>1. /\ cl[s] = "closed" /\ clRead[s] = clSent[s] /\ clRead' = clRead
          /\ end' = [end EXCEPT ![s] = "client_eof"] /\ fwd' = [fwd EXCEPT ![s] = "remove"]
      BY <1>3 DEF ClientEof
    <2>2. /\ x # s => fwd'[x] = fwd[x] /\ end'[x] = end[x]
          /\ x = s => fwd'[x] = "remove"
      BY <2>1 DEF TypeInv
    <2> QED BY <1>1, <2>1, <2>2 DEF EndInv
  <1>4. CASE /\ ~ReadClient(s) /\ ~ClientEof(s)
    <2>1. /\ clRead' = clRead
          /\ fwd' = fwd \/ \E p : p # "write" /\ fwd' = [fwd EXCEPT ![s] = p]
          /\ end' = end \/ \E p : p # "client_eof" /\ end' = [end EXCEPT ![s] = p]
      BY <1>4 DEF Forwards, ForwardStep, Begin, WriteOpen, WriteFailed, TimedOut, Abort, OpenRefused, OpenGranted,
             WriteData, ReturnError, Deliver, Delivered, ClientGone, ChannelClosed, RemoveTx, WriteClose
    <2>2. /\ fwd'[x] = "write" => fwd[x] = "write"
          /\ end'[x] = "client_eof" => end[x] = "client_eof"
      BY <2>1, Domains
    <2> QED BY <1>1, <2>1, <2>2 DEF EndInv
  <1> QED BY <1>2, <1>3, <1>4

LEMMA EndOthers ==
    ASSUME TypeInv, CtrlInv, NEW x \in Stream, EndInv(x),
           \/ Reads \/ LoopStep \/ ConnectStep \/ AgentCrash
           \/ \E s \in Stream : Tasks(s)
    PROVE  EndInv(x)'
  <1> USE DEF daemonVars, agentVars, taskVars, upVars, clVars
  <1>0. StreamInv(x)
    BY DEF CtrlInv
  <1>1. UNCHANGED <<fwd, clRead, end>>
    BY DEF Reads, ReadResult, ReadData, PushData, ReadClose, ReaderEof,
           LoopStep, HandleOpen, Refuse, Grant, HandleData, PushUp, HandleClose, ControlClosed,
           ConnectStep, Connected, ConnectFailed, ServiceWriteFailed, AgentCrash, Tasks,
           ToUpStep, ToUp, ToUpWritten, ToUpFailed, ToUpDone, FromUpStep, FromUpPart, FromUp, FromUpDone, BridgeEnd,
           BridgeRemove,
           BridgeClose, EndStep, UpSend, UpClose, ClientSend, ClientLeave
  <1>2. CASE Reads \/ LoopStep \/ ConnectFailed \/ ServiceWriteFailed \/ AgentCrash
    <2>1. UNCHANGED <<aend, up, upRead, upSent, cl, clSent>>
      BY <1>2 DEF Reads, ReadResult, ReadData, PushData, ReadClose, ReaderEof,
           LoopStep, HandleOpen, Refuse, Grant, HandleData, PushUp, HandleClose, ControlClosed,
           ConnectFailed, ServiceWriteFailed, AgentCrash
    <2> QED BY <1>1, <2>1 DEF EndInv
  <1>3. CASE Connected
    <2>1. /\ loop.pc = "connect" /\ up' = [up EXCEPT ![loop.id] = "open"]
          /\ UNCHANGED <<aend, upRead, upSent, cl, clSent>>
      BY <1>3 DEF Connected
    <2>2. CASE x # loop.id
      <3>1. up'[x] = up[x]
        BY <2>1, <2>2 DEF TypeInv
      <3> QED BY <1>1, <2>1, <3>1 DEF EndInv
    <2>3. CASE x = loop.id
      <3>1. bridge[x] = "none"
        BY <1>0, <2>1, <2>3 DEF StreamInv, OpenedOnce, LoopOpens
      <3>2. aend[x] # "from_up"
        BY <1>0, <3>1 DEF StreamInv, MapsInv
      <3> QED BY <1>1, <2>1, <3>2 DEF EndInv
    <2> QED BY <2>2, <2>3
  <1>4. ASSUME NEW s \in Stream, ToUpStep(s) \/ ToUpWritten(s) \/ ToUpFailed(s) \/ FromUpPart(s) \/ BridgeEnd(s)
        PROVE  EndInv(x)'
    <2>1. /\ UNCHANGED <<up, upRead, upSent, cl, clSent>>
          /\ aend' = aend \/ \E p : p # "from_up" /\ aend' = [aend EXCEPT ![s] = p]
      BY <1>4 DEF ToUpStep, ToUp, ToUpWritten, ToUpFailed, ToUpDone, FromUpPart, BridgeEnd, BridgeRemove, BridgeClose
    <2>2. aend'[x] = "from_up" => aend[x] = "from_up"
      BY <2>1 DEF TypeInv
    <2> QED BY <1>1, <2>1, <2>2 DEF EndInv
  <1>5. ASSUME NEW s \in Stream, FromUpDone(s) PROVE EndInv(x)'
    <2>1. /\ UNCHANGED <<up, upRead, upSent, cl, clSent>>
          /\ up[s] = "closed" /\ upRead[s] = upSent[s] /\ aend' = [aend EXCEPT ![s] = "from_up"]
      BY <1>5 DEF FromUpDone
    <2>2. x # s => aend'[x] = aend[x]
      BY <2>1 DEF TypeInv
    <2> QED BY <1>1, <2>1, <2>2 DEF EndInv
  <1>6. ASSUME NEW s \in Stream, FromUp(s) PROVE EndInv(x)'
    <2>1. /\ UNCHANGED <<aend, up, upSent, cl, clSent>>
          /\ bridge[s] = "run" /\ upRead' = [upRead EXCEPT ![s] = @ + 1]
      BY <1>6 DEF FromUp
    <2>2. CASE x # s
      <3>1. upRead'[x] = upRead[x]
        BY <2>1, <2>2 DEF TypeInv
      <3> QED BY <1>1, <2>1, <3>1 DEF EndInv
    <2>3. CASE x = s
      <3>1. aend[x] # "from_up"
        BY <1>0, <2>1, <2>3 DEF StreamInv, MapsInv
      <3> QED BY <1>1, <2>1, <3>1 DEF EndInv
    <2> QED BY <2>2, <2>3
  <1>7. ASSUME NEW s \in Stream, UpSend(s) \/ UpClose(s) PROVE EndInv(x)'
    <2>1. /\ UNCHANGED <<aend, upRead, cl, clSent>> /\ up[s] = "open"
          /\ up' = up \/ up' = [up EXCEPT ![s] = "closed"]
          /\ upSent' = upSent \/ \E n : upSent' = [upSent EXCEPT ![s] = n]
      BY <1>7 DEF UpSend, UpClose
    <2>2. x # s => up'[x] = up[x] /\ upSent'[x] = upSent[x]
      BY <2>1, Domains
    <2> QED BY <1>1, <2>1, <2>2 DEF EndInv
  <1>8. ASSUME NEW s \in Stream, ClientSend(s) \/ ClientLeave(s) PROVE EndInv(x)'
    <2>1. /\ UNCHANGED <<aend, up, upRead, upSent>> /\ cl[s] = "open"
          /\ cl' = cl \/ \E p : cl' = [cl EXCEPT ![s] = p]
          /\ clSent' = clSent \/ \E n : clSent' = [clSent EXCEPT ![s] = n]
      BY <1>8 DEF ClientSend, ClientLeave
    <2>2. x # s => cl'[x] = cl[x] /\ clSent'[x] = clSent[x]
      BY <2>1, Domains
    <2> QED BY <1>1, <2>1, <2>2 DEF EndInv
  <1> QED BY <1>2, <1>3, <1>4, <1>5, <1>6, <1>7, <1>8 DEF ConnectStep, Tasks, FromUpStep, EndStep

(***************************************************************************)
(* The invariant of the data, and what follows from it.                    *)
(***************************************************************************)

LEMMA DataInit == Init => DataInv
  BY UpInit, DownInit DEF DataInv

LEMMA DataNext == TypeInv /\ CtrlInv /\ DataInv /\ [Next]_vars /\ ~ReadTorn => DataInv'
  <1> SUFFICES ASSUME TypeInv, CtrlInv, DataInv, [Next]_vars, ~ReadTorn, NEW x \in Stream
               PROVE  UpInv(x)' /\ DownInv(x)' /\ EndInv(x)'
    BY DEF DataInv
  <1>0. UpInv(x) /\ DownInv(x) /\ EndInv(x)
    BY DEF DataInv
  <1>1. ASSUME NEW s \in Stream, Forwards(s) PROVE UpInv(x)' /\ DownInv(x)' /\ EndInv(x)'
    BY <1>0, <1>1, UpForward, DownForward, EndForward
  <1>2. CASE Reads
    BY <1>0, <1>2, UpReader, DownReader, EndOthers
  <1>3. CASE LoopStep \/ ConnectStep \/ AgentCrash
    BY <1>0, <1>3, UpAgent, DownLoop, EndOthers
  <1>4. ASSUME NEW s \in Stream, Tasks(s)
        PROVE  UpInv(x)' /\ DownInv(x)' /\ EndInv(x)'
    BY <1>0, <1>4, UpAgent, DownEnds, EndOthers
  <1>5. CASE UNCHANGED vars
    <2>1. UNCHANGED <<fwd, end, streamTx, chan, reader, toAgent, toDaemon, agentUp, loop, streams, achan, bridge,
                      aend, up, upSent, upRead, upGot, cl, clSent, clRead, clGot>>
      BY <1>5 DEF vars, daemonVars, agentVars, taskVars, upVars, clVars
    <2>2. UpInv(x)'
      BY <1>0, <2>1 DEF UpInv, UpBase, ReaderHolds
    <2>3. DownInv(x)'
      BY <1>0, <2>1 DEF DownInv, DownBase, DownSent, LoopHolds
    <2>4. EndInv(x)'
      BY <1>0, <2>1 DEF EndInv
    <2> QED BY <2>2, <2>3, <2>4
  <1> QED BY <1>1, <1>2, <1>3, <1>4, <1>5, NextSteps

LEMMA SafeInit == Init => SafeInv
  BY CtrlInit, DataInit DEF SafeInv

LEMMA SafeNext == TypeInv /\ SafeInv /\ [Next]_vars => SafeInv'
  <1>1. ASSUME TypeInv, CtrlInv, DataInv, [Next]_vars, ~ReadTorn PROVE SafeInv'
    BY <1>1, CtrlNext, DataNext DEF SafeInv
  <1>2. ReadTorn => SafeInv'
    BY DEF ReadTorn, SafeInv
  <1>3. ASSUME lost, [Next]_vars PROVE lost'
    BY <1>3, MapsKept DEF vars, daemonVars
  <1>4. lost /\ [Next]_vars => SafeInv'
    BY <1>3 DEF SafeInv
  <1> QED BY <1>1, <1>2, <1>4 DEF SafeInv

\* The answer to OpenPrivateStream is applied once, and only to a request that waits for
\* it: after the ten seconds of forward_private it reaches nobody.  What a cut frame turns
\* into may reach a request before it is written, and never one that has an answer.
THEOREM AnswerReachesWaiterAlways == Spec => AnswerReachesWaiter
  <1> DEFINE A == \A s \in Stream : outcome'[s] # outcome[s] =>
                     outcome[s] = "none" /\ fwd[s] \in {"waiting"} \cup (IF lost THEN {"opening"} ELSE {})
  <1>1. ASSUME TypeInv, SafeInv, WaitInv, ReadResult \/ ReadClose PROVE A
    <2> SUFFICES ASSUME NEW s \in Stream, outcome'[s] # outcome[s]
                 PROVE  outcome[s] = "none" /\ fwd[s] \in {"waiting"} \cup (IF lost THEN {"opening"} ELSE {})
      OBVIOUS
    <2>1. outcome[s] = "none" /\ fwd[s] \in {"opening", "waiting"}
      BY <1>1, Answered DEF WaitInv
    <2>2. lost \/ fwd[s] # "opening"
      <3> SUFFICES ASSUME CtrlInv, fwd[s] = "opening" PROVE FALSE
        BY <1>1 DEF SafeInv
      <3>1. StreamInv(s)
        BY DEF CtrlInv
      <3>2. \A m \in Elems(toDaemon) : m.id # s
        BY <3>1 DEF StreamInv, NotBegun
      <3>3. toDaemon # <<>> /\ toDaemon' = Tail(toDaemon)
        BY <1>1 DEF ReadResult, ReadClose, Received
      <3>4. Head(toDaemon) \in Elems(toDaemon) /\ Head(toDaemon).id \in Stream
        BY <1>1, <3>3, DaemonRead
      <3>5. Head(toDaemon).id # s
        BY <3>2, <3>4
      <3>6. CASE ReadResult
        BY <1>1, <3>4, <3>5, <3>6 DEF ReadResult, TypeInv
      <3>7. CASE ReadClose
        BY <1>1, <3>4, <3>5, <3>7 DEF ReadClose, TypeInv
      <3> QED BY <1>1, <3>6, <3>7
    <2> QED BY <2>1, <2>2
  <1>2. TypeInv /\ SafeInv /\ WaitInv /\ [Next]_vars => [A]_vars
    BY <1>1, OutcomeKept DEF vars
  <1> QED BY <1>2, TypeInit, TypeNext, SafeInit, SafeNext, WaitInit, WaitNext, PTL DEF Spec, AnswerReachesWaiter

\* A transfer that the backend ended is complete at a client that stayed, and the other
\* way round, whatever the capacities: forward_private drains its channel after the
\* sender is dropped, and both bridging tasks write StreamClose after their data
\* (daemon.rs forward_private and agent_read_loop, agent.rs open_private_stream).  It holds
\* on every stream until the daemon reads a frame that the end of some stream cut off.
THEOREM NothingTruncatedAlways == Spec => []NothingTruncated
  <1>1. SafeInv => NothingTruncated
    <2> SUFFICES ASSUME DataInv, ~lost, NEW s \in Stream
                 PROVE  /\ end[s] = "stream_closed" /\ aend[s] = "from_up" /\ cl[s] = "open" => clGot[s] = upSent[s]
                        /\ end[s] = "client_eof" /\ aend[s] = "to_up" /\ up[s] = "open" => upGot[s] = clSent[s]
      BY DEF NothingTruncated, SafeInv
    <2>1. UpInv(s) /\ DownInv(s) /\ EndInv(s)
      BY DEF DataInv
    <2>2. end[s] = "stream_closed" /\ aend[s] = "from_up" /\ cl[s] = "open" => clGot[s] = upSent[s]
      BY <2>1 DEF UpInv, EndInv
    <2>3. end[s] = "client_eof" /\ aend[s] = "to_up" /\ up[s] = "open" => upGot[s] = clSent[s]
      BY <2>1 DEF DownInv, EndInv
    <2> QED BY <2>2, <2>3
  <1> QED BY <1>1, TypeInit, TypeNext, SafeInit, SafeNext, PTL DEF Spec

LEMMA ForwardGot ==
    ASSUME TypeInv, DataInv, NEW s \in Stream, Forwards(s), NEW x \in Stream
    PROVE  /\ clGot'[x] # clGot[x] => clGot'[x] = clGot[x] + 1
           /\ upGot'[x] = upGot[x]
  <1> USE DEF daemonVars, agentVars, taskVars, upVars, clVars
  <1>1. CASE ~Deliver(s)
    BY <1>1 DEF Forwards, ForwardStep, Begin, WriteOpen, WriteFailed, TimedOut, Abort, OpenRefused, OpenGranted,
           ReadClient, WriteData, ReturnError, ClientEof, Delivered, ClientGone, ChannelClosed, RemoveTx, WriteClose
  <1>2. CASE Deliver(s)
    <2>0. /\ chan[s] # <<>> /\ clGot' = [clGot EXCEPT ![s] = IF cl[s] = "open" THEN Head(chan[s]) ELSE @]
          /\ upGot' = upGot
      BY <1>2 DEF Deliver
    <2>1. /\ x # s \/ cl[x] # "open" => clGot'[x] = clGot[x]
          /\ x = s /\ cl[x] = "open" => clGot'[x] = Head(chan[x])
      BY <2>0 DEF TypeInv
    <2>2. ASSUME x = s, cl[x] = "open" PROVE Head(chan[x]) = clGot[x] + 1
      <3>1. chan[x] \in Seq(0..MaxUp) /\ \A i \in 1..Len(chan[x]) : chan[x][i] = clGot[x] + i
        BY <2>2 DEF TypeInv, DataInv, UpInv
      <3>2. Head(chan[x]) = chan[x][1] /\ 1 \in 1..Len(chan[x])
        BY <2>0, <2>2, <3>1
      <3> QED BY <3>1, <3>2
    <2> QED BY <2>0, <2>1, <2>2
  <1> QED BY <1>1, <1>2

LEMMA OthersGot ==
    ASSUME TypeInv, DataInv, NEW x \in Stream,
           \/ Reads \/ LoopStep \/ ConnectStep \/ AgentCrash
           \/ \E s \in Stream : Tasks(s)
    PROVE  /\ clGot'[x] = clGot[x]
           /\ upGot'[x] # upGot[x] => upGot'[x] = upGot[x] + 1
  <1> USE DEF daemonVars, agentVars, taskVars, upVars, clVars
  <1>1. clGot' = clGot /\ (upGot' = upGot \/ \E s \in Stream : ToUp(s))
    BY DEF Reads, ReadResult, ReadData, PushData, ReadClose, ReaderEof,
           LoopStep, HandleOpen, Refuse, Grant, HandleData, PushUp, HandleClose, ControlClosed,
           ConnectStep, Connected, ConnectFailed, ServiceWriteFailed, AgentCrash, Tasks,
           ToUpStep, ToUpWritten, ToUpFailed, ToUpDone, FromUpStep, FromUpPart, FromUp, FromUpDone, BridgeEnd, BridgeRemove,
           BridgeClose, EndStep, UpSend, UpClose, ClientSend, ClientLeave, ToUp
  <1>2. ASSUME NEW s \in Stream, ToUp(s) PROVE upGot'[x] # upGot[x] => upGot'[x] = upGot[x] + 1
    <2>0. achan[s] # <<>> /\ upGot' = [upGot EXCEPT ![s] = IF up[s] = "open" THEN Head(achan[s]) ELSE @]
      BY <1>2 DEF ToUp
    <2>1. /\ x # s \/ up[x] # "open" => upGot'[x] = upGot[x]
          /\ x = s /\ up[x] = "open" => upGot'[x] = Head(achan[x])
      BY <2>0 DEF TypeInv
    <2>2. ASSUME x = s, up[x] = "open" PROVE Head(achan[x]) = upGot[x] + 1
      <3>1. achan[x] \in Seq(0..MaxDown) /\ \A i \in 1..Len(achan[x]) : achan[x][i] = upGot[x] + i
        BY <2>2 DEF TypeInv, DataInv, DownInv
      <3>2. Head(achan[x]) = achan[x][1] /\ 1 \in 1..Len(achan[x])
        BY <2>0, <2>2, <3>1
      <3> QED BY <3>1, <3>2
    <2> QED BY <2>0, <2>1, <2>2
  <1> QED BY <1>1, <1>2

\* Every chunk a client or a backend is given is the one after the last, through the
\* socket and the bounded channels of both processes (daemon.rs forward_private and
\* agent_read_loop, agent.rs main loop and bridging tasks), until the daemon reads a frame
\* that was cut off.
THEOREM DataInOrderAlways == Spec => DataInOrder
  <1> DEFINE Step == lost \/ \A s \in Stream : /\ clGot'[s] # clGot[s] => clGot'[s] = clGot[s] + 1
                                               /\ upGot'[s] # upGot[s] => upGot'[s] = upGot[s] + 1
  <1>1. TypeInv /\ SafeInv /\ [Next]_vars => [Step]_vars
    <2> SUFFICES ASSUME TypeInv, DataInv, Next, NEW s \in Stream
                 PROVE  /\ clGot'[s] # clGot[s] => clGot'[s] = clGot[s] + 1
                        /\ upGot'[s] # upGot[s] => upGot'[s] = upGot[s] + 1
      BY DEF SafeInv
    <2>1. ASSUME NEW r \in Stream, Forwards(r)
          PROVE  /\ clGot'[s] # clGot[s] => clGot'[s] = clGot[s] + 1
                 /\ upGot'[s] # upGot[s] => upGot'[s] = upGot[s] + 1
      BY <2>1, ForwardGot
    <2>2. CASE \/ Reads \/ LoopStep \/ ConnectStep \/ AgentCrash
               \/ \E r \in Stream : Tasks(r)
      BY <2>2, OthersGot
    <2>3. CASE ReadTorn
      BY <2>3 DEF ReadTorn, upVars, clVars
    <2> QED BY <2>1, <2>2, <2>3, NextSteps
  <1>2. DataInOrder <=> [][Step]_vars
    BY PTL DEF DataInOrder
  <1> QED BY <1>1, <1>2, TypeInit, TypeNext, SafeInit, SafeNext, PTL DEF Spec
=============================================================================
