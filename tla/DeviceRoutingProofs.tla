------------------------- MODULE DeviceRoutingProofs -------------------------
(***************************************************************************)
(* Proofs about DeviceRouting for every configuration of backends, every   *)
(* set of lists they may report and every policy: public serials name one  *)
(* device, the client reaches what it was shown, the preferred device is   *)
(* the one of the comment, and a serial does not move to another device.   *)
(*                                                                         *)
(* The operators of the module are defined by recursion over sequences.    *)
(* The first part derives what each of them computes, by induction; the    *)
(* rest uses only that.                                                    *)
(***************************************************************************)
EXTENDS DeviceRouting, WellFoundedInduction, TLAPS

(***************************************************************************)
(* Induction and recursion over an interval of numbers.                    *)
(***************************************************************************)

\* A set of numbers that is not empty has a least element.
LEMMA LeastNumber ==
    ASSUME NEW T \in SUBSET Nat, T # {}
    PROVE  \E n \in T : \A m \in T : n <= m
  <1> DEFINE R == OpToRel(<, Nat)
  <1>1. IsWellFoundedOn(R, Nat)
    BY NatLessThanWellFounded
  <1>2. \A m, n \in Nat : m < n => <<m, n>> \in R
    BY DEF OpToRel
  <1> HIDE DEF R
  <1>3. PICK n \in T : \A m \in T : ~(<<m, n>> \in R)
    BY <1>1, WFMin, Zenon
  <1>4. \A m \in T : ~(m < n)
    BY <1>2, <1>3
  <1> QED BY <1>4

\* What holds at 0 and is handed on up to N holds up to N.
LEMMA InductionTo ==
    ASSUME NEW N \in Nat, NEW T, 0 \in T, \A n \in Nat : n < N /\ n \in T => n + 1 \in T
    PROVE  \A n \in 0 .. N : n \in T
  <1> DEFINE B == {n \in 0 .. N : n \notin T}
  <1> SUFFICES ASSUME B # {} PROVE FALSE
    OBVIOUS
  <1>1. B \in SUBSET Nat
    OBVIOUS
  <1>2. PICK n \in B : \A m \in B : n <= m
    BY <1>1, LeastNumber
  <1>3. n \in Nat /\ n # 0 /\ n <= N /\ n \notin T
    BY <1>2
  <1>4. n - 1 \in Nat /\ n - 1 < N /\ n - 1 \notin B
    BY <1>2, <1>3
  <1>5. n - 1 \in T
    BY <1>3, <1>4
  <1> QED BY <1>3, <1>4, <1>5

\* f is the recursion over 0 .. n that starts with base and takes its steps by G.
Solves(f, n, V, base, G) ==
    /\ f \in [0 .. n -> V] /\ f[0] = base
    /\ \A k \in 1 .. n : f[k] = G[<<f[k - 1], k>>]

StepsIn(G, n, V) == \A v \in V : \A k \in 1 .. n : G[<<v, k>>] \in V

\* It exists.
LEMMA RecursionTo ==
    ASSUME NEW N \in Nat, NEW V, NEW base \in V, NEW G, StepsIn(G, N, V)
    PROVE  \E f : Solves(f, N, V, base, G)
  <1> USE DEF StepsIn
  <1> DEFINE Sol(f, n) == Solves(f, n, V, base, G)
             T == {n \in 0 .. N : \E f : Sol(f, n)}
  <1>1. 0 \in T
    <2> DEFINE g == [k \in 0 .. 0 |-> base]
    <2>1. Sol(g, 0)
      BY DEF Solves
    <2> HIDE DEF g
    <2> QED BY <2>1
  <1>2. ASSUME NEW n \in Nat, n < N, n \in T PROVE n + 1 \in T
    <2>1. PICK f : Sol(f, n)
      BY <1>2
    <2> DEFINE g == [k \in 0 .. n + 1 |-> IF k = n + 1 THEN G[<<f[n], n + 1>>] ELSE f[k]]
    <2>2. f[n] \in V /\ G[<<f[n], n + 1>>] \in V
      <3>1. n \in 0 .. n /\ n + 1 \in 1 .. N
        BY <1>2
      <3>2. f[n] \in V
        BY <2>1, <3>1 DEF Solves
      <3> QED BY <3>1, <3>2
    <2>3. g \in [0 .. n + 1 -> V] /\ g[0] = base
      BY <2>1, <2>2 DEF Solves
    <2>4. ASSUME NEW k \in 1 .. n + 1 PROVE g[k] = G[<<g[k - 1], k>>]
      <3>1. CASE k = n + 1
        <4>1. k - 1 = n /\ g[k - 1] = f[n] /\ g[k] = G[<<f[n], n + 1>>]
          BY <3>1
        <4> QED BY <3>1, <4>1
      <3>2. CASE k # n + 1
        <4>1. k \in 1 .. n /\ k - 1 \in 0 .. n /\ k - 1 # n + 1
          BY <3>2
        <4>2. g[k] = f[k] /\ g[k - 1] = f[k - 1]
          BY <4>1
        <4> QED BY <2>1, <4>1, <4>2 DEF Solves
      <3> QED BY <3>1, <3>2
    <2>5. Sol(g, n + 1)
      BY <2>3, <2>4 DEF Solves
    <2> HIDE DEF g
    <2> QED BY <1>2, <2>5
  <1>3. N \in T
    <2> HIDE DEF T
    <2> QED BY <1>1, <1>2, InductionTo
  <1> QED BY <1>3

(***************************************************************************)
(* Select keeps the elements that are in the set, in their order.          *)
(***************************************************************************)

\* Position i of t is position h[i] of the first n of s; these are the positions whose
\* elements are in S.
Places(h, t, s, n, S) ==
    /\ h \in [1 .. Len(t) -> 1 .. n]
    /\ \A i, j \in 1 .. Len(t) : i < j => h[i] < h[j]
    /\ \A i \in 1 .. Len(t) : t[i] = s[h[i]] /\ t[i] \in S
    /\ \A k \in 1 .. n : s[k] \in S => \E i \in 1 .. Len(t) : h[i] = k

\* f[n] is what is kept of the first n elements.
Selects(f, E, s, S) ==
    /\ f \in [0 .. Len(s) -> Seq(E)] /\ f[0] = <<>>
    /\ \A n \in 1 .. Len(s) : f[n] = IF s[n] \in S THEN Append(f[n - 1], s[n]) ELSE f[n - 1]

\* The recursion that defines Select.
LEMMA SelectRecursion ==
    ASSUME NEW E, NEW s \in Seq(E), NEW S
    PROVE  \E f : Selects(f, E, s, S) /\ Select(s, S) = f[Len(s)]
  <1> DEFINE G == [p \in Seq(E) \X (1 .. Len(s)) |->
                      IF s[p[2]] \in S THEN Append(p[1], s[p[2]]) ELSE p[1]]
             Kept(f) == f = [n \in 0 .. Len(s) |->
                               IF n = 0 THEN <<>>
                               ELSE IF s[n] \in S THEN Append(f[n - 1], s[n]) ELSE f[n - 1]]
             kept == CHOOSE f : Kept(f)
  <1>1. Len(s) \in Nat /\ <<>> \in Seq(E) /\ \A n \in 1 .. Len(s) : s[n] \in E
    OBVIOUS
  <1>2. ASSUME NEW v \in Seq(E), NEW n \in 1 .. Len(s)
        PROVE  G[<<v, n>>] \in Seq(E)
    <2>1. G[<<v, n>>] = IF s[n] \in S THEN Append(v, s[n]) ELSE v
      OBVIOUS
    <2> HIDE DEF G
    <2> QED BY <1>1, <2>1
  <1>3. PICK f \in [0 .. Len(s) -> Seq(E)] : f[0] = <<>> /\ \A k \in 1 .. Len(s) : f[k] = G[<<f[k - 1], k>>]
    <2> DEFINE N == Len(s)
               V == Seq(E)
               nil == <<>>
    <2>1. N \in Nat /\ nil \in V /\ StepsIn(G, N, V)
      BY <1>1, <1>2, Zenon DEF StepsIn
    <2> HIDE DEF G, N, V, nil
    <2>2. \E f : Solves(f, N, V, nil, G)
      BY <2>1, RecursionTo
    <2> QED BY <2>2 DEF Solves, N, V, nil
  <1>4. \A n \in 1 .. Len(s) : f[n] = IF s[n] \in S THEN Append(f[n - 1], s[n]) ELSE f[n - 1]
    <2> SUFFICES ASSUME NEW n \in 1 .. Len(s)
                 PROVE  f[n] = IF s[n] \in S THEN Append(f[n - 1], s[n]) ELSE f[n - 1]
      OBVIOUS
    <2>1. n - 1 \in 0 .. Len(s)
      BY <1>1
    <2>2. f[n - 1] \in Seq(E)
      BY <2>1
    <2>3. <<f[n - 1], n>> \in Seq(E) \X (1 .. Len(s))
      BY <2>2
    <2>4. f[n] = G[<<f[n - 1], n>>]
      BY <1>3
    <2> QED BY <2>3, <2>4
  <1>5. Kept(f)
    <2>1. f = [n \in 0 .. Len(s) |-> f[n]]
      OBVIOUS
    <2>2. \A n \in 0 .. Len(s) : n = 0 \/ n \in 1 .. Len(s)
      BY <1>1
    <2>3. \A n \in 0 .. Len(s) :
             f[n] = IF n = 0 THEN <<>> ELSE IF s[n] \in S THEN Append(f[n - 1], s[n]) ELSE f[n - 1]
      BY <1>3, <1>4, <2>2
    <2> QED BY <2>1, <2>3
  <1>6. Kept(kept)
    <2> HIDE DEF Kept
    <2> QED BY <1>5, Zenon
  <1>7. Select(s, S) = kept[Len(s)]
    BY Zenon DEF Select
  <1> HIDE DEF kept
  <1>8. /\ kept[0] = <<>>
        /\ \A n \in 1 .. Len(s) : kept[n] = IF s[n] \in S THEN Append(kept[n - 1], s[n]) ELSE kept[n - 1]
    <2>1. \A n \in 0 .. Len(s) :
             kept[n] = IF n = 0 THEN <<>> ELSE IF s[n] \in S THEN Append(kept[n - 1], s[n]) ELSE kept[n - 1]
      BY <1>6, Zenon
    <2>2. 0 \in 0 .. Len(s) /\ \A n \in 1 .. Len(s) : n \in 0 .. Len(s) /\ n # 0
      BY <1>1
    <2> QED BY <2>1, <2>2
  <1>9. kept \in [0 .. Len(s) -> Seq(E)]
    <2> DEFINE T == {n \in 0 .. Len(s) : kept[n] \in Seq(E)}
    <2>1. 0 \in T
      <3>1. kept[0] \in Seq(E)
        BY <1>1, <1>8, Zenon
      <3> QED BY <1>1, <3>1
    <2>2. ASSUME NEW n \in Nat, n < Len(s), n \in T PROVE n + 1 \in T
      <3>1. n + 1 \in 1 .. Len(s) /\ (n + 1) - 1 = n
        BY <1>1, <2>2
      <3>2. kept[n + 1] = IF s[n + 1] \in S THEN Append(kept[n], s[n + 1]) ELSE kept[n]
        BY <1>8, <3>1
      <3>3. kept[n] \in Seq(E) /\ s[n + 1] \in E
        BY <1>1, <2>2, <3>1
      <3>4. Append(kept[n], s[n + 1]) \in Seq(E)
        BY <3>3
      <3>5. kept[n + 1] \in Seq(E)
        BY <3>2, <3>3, <3>4, Zenon
      <3> QED BY <1>1, <3>1, <3>5
    <2>3. \A n \in 0 .. Len(s) : n \in T
      <3> HIDE DEF T
      <3> QED BY <1>1, <2>1, <2>2, InductionTo
    <2>4. kept = [n \in 0 .. Len(s) |-> kept[n]]
      BY <1>6, Zenon
    <2> QED BY <2>3, <2>4
  <1>10. Selects(kept, E, s, S)
    BY <1>8, <1>9, Zenon DEF Selects
  <1> QED BY <1>7, <1>10

\* What Select computes.
LEMMA SelectPlaces ==
    ASSUME NEW E, NEW s \in Seq(E), NEW S
    PROVE  /\ Select(s, S) \in Seq(E)
           /\ \E h : Places(h, Select(s, S), s, Len(s), S)
  <1>0. PICK f : Selects(f, E, s, S) /\ Select(s, S) = f[Len(s)]
    BY SelectRecursion
  <1>1. /\ f \in [0 .. Len(s) -> Seq(E)] /\ f[0] = <<>> /\ Select(s, S) = f[Len(s)]
        /\ \A n \in 1 .. Len(s) : f[n] = IF s[n] \in S THEN Append(f[n - 1], s[n]) ELSE f[n - 1]
    BY <1>0, Zenon DEF Selects
  <1>2. Len(s) \in Nat /\ \A n \in 1 .. Len(s) : s[n] \in E
    OBVIOUS
  <1> DEFINE T == {n \in 0 .. Len(s) : \E h : Places(h, f[n], s, n, S)}
  <1>3. 0 \in T
    <2> DEFINE h == [i \in 1 .. 0 |-> i]
    <2>1. Len(f[0]) = 0
      BY <1>1
    <2>2. Places(h, f[0], s, 0, S)
      BY <2>1 DEF Places
    <2> HIDE DEF h
    <2> QED BY <1>2, <2>2
  <1>4. ASSUME NEW n \in Nat, n < Len(s), n \in T PROVE n + 1 \in T
    <2>1. PICK h : Places(h, f[n], s, n, S)
      BY <1>4
    <2>2. n + 1 \in 1 .. Len(s) /\ (n + 1) - 1 = n /\ n \in 0 .. Len(s) /\ n + 1 \in 0 .. Len(s)
      BY <1>2, <1>4
    <2> DEFINE t == f[n]
               L == Len(t)
    <2>3. t \in Seq(E) /\ L \in Nat
      <3>1. t \in Seq(E)
        BY <1>1, <2>2, Zenon
      <3> HIDE DEF t
      <3> QED BY <3>1
    <2>4. f[n + 1] = IF s[n + 1] \in S THEN Append(t, s[n + 1]) ELSE t
      BY <1>1, <2>2
    <2>5. CASE s[n + 1] \notin S
      <3>1. f[n + 1] = t
        BY <2>4, <2>5
      <3>2. Places(h, t, s, n + 1, S)
        <4>1. h \in [1 .. L -> 1 .. n + 1]
          BY <2>1, <2>3 DEF Places
        <4>2. ASSUME NEW k \in 1 .. n + 1, s[k] \in S PROVE \E i \in 1 .. L : h[i] = k
          <5>1. k \in 1 .. n
            BY <2>5, <4>2
          <5> QED BY <2>1, <4>2, <5>1 DEF Places
        <4> QED BY <2>1, <4>1, <4>2 DEF Places
      <3> QED BY <2>2, <3>1, <3>2
    <2>6. CASE s[n + 1] \in S
      <3> DEFINE u == f[n + 1]
                 g == [i \in 1 .. L + 1 |-> IF i = L + 1 THEN n + 1 ELSE h[i]]
      <3>1. u = Append(t, s[n + 1]) /\ s[n + 1] \in E
        BY <1>2, <2>2, <2>4, <2>6
      <3>2. Len(u) = L + 1 /\ u[L + 1] = s[n + 1] /\ \A i \in 1 .. L : u[i] = t[i]
        BY <2>3, <3>1
      <3>3. g \in [1 .. L + 1 -> 1 .. n + 1]
        BY <2>1, <2>3 DEF Places
      <3>4. g[L + 1] = n + 1 /\ \A i \in 1 .. L : g[i] = h[i] /\ h[i] \in 1 .. n /\ i \in 1 .. L + 1
        <4>1. L + 1 \in 1 .. L + 1 /\ \A i \in 1 .. L : i \in 1 .. L + 1 /\ i # L + 1
          BY <2>3
        <4>2. \A i \in 1 .. L : h[i] \in 1 .. n
          BY <2>1 DEF Places
        <4> HIDE DEF L, t
        <4> QED BY <4>1, <4>2
      <3> HIDE DEF g, u, t, L
      <3>5. \A i \in 1 .. L + 1 : i = L + 1 \/ i \in 1 .. L
        BY <2>3
      <3>6. \A i, j \in 1 .. L : i < j => h[i] < h[j]
        BY <2>1 DEF Places, t, L
      <3>7. ASSUME NEW i \in 1 .. L + 1, NEW j \in 1 .. L + 1, i < j PROVE g[i] < g[j]
        <4>1. i \in 1 .. L
          BY <2>3, <3>7
        <4>2. CASE j = L + 1
          BY <3>4, <4>1, <4>2
        <4>3. CASE j \in 1 .. L
          BY <3>4, <3>6, <3>7, <4>1, <4>3
        <4> QED BY <3>5, <4>2, <4>3
      <3>8. \A i \in 1 .. L : t[i] = s[h[i]] /\ t[i] \in S
        BY <2>1 DEF Places, t, L
      <3>9. ASSUME NEW i \in 1 .. L + 1 PROVE u[i] = s[g[i]] /\ u[i] \in S
        <4>1. CASE i = L + 1
          BY <2>6, <3>2, <3>4, <4>1
        <4>2. CASE i \in 1 .. L
          BY <3>2, <3>4, <3>8, <4>2
        <4> QED BY <3>5, <4>1, <4>2
      <3>10. ASSUME NEW k \in 1 .. n + 1, s[k] \in S PROVE \E i \in 1 .. L + 1 : g[i] = k
        <4>1. CASE k = n + 1
          <5>1. L + 1 \in 1 .. L + 1
            BY <2>3
          <5> QED BY <3>4, <4>1, <5>1
        <4>2. CASE k # n + 1
          <5>1. k \in 1 .. n
            BY <4>2
          <5>2. PICK i \in 1 .. L : h[i] = k
            BY <2>1, <3>10, <5>1 DEF Places, t, L
          <5> QED BY <3>4, <5>2
        <4> QED BY <4>1, <4>2
      <3>11. Places(g, u, s, n + 1, S)
        BY <3>2, <3>3, <3>7, <3>9, <3>10 DEF Places
      <3> QED BY <2>2, <3>11 DEF u
    <2> QED BY <2>5, <2>6
  <1>5. Len(s) \in T
    <2> HIDE DEF T
    <2>1. \A n \in 0 .. Len(s) : n \in T
      BY <1>2, <1>3, <1>4, InductionTo
    <2> QED BY <1>2, <2>1
  <1> QED BY <1>1, <1>2, <1>5

(***************************************************************************)
(* FlattenSeq puts sequences one behind the other.                         *)
(***************************************************************************)

\* A sequence that is put behind another, by places and by elements.
LEMMA ConcatPlaces ==
    ASSUME NEW E, NEW a \in Seq(E), NEW b \in Seq(E)
    PROVE  /\ a \o b \in Seq(E) /\ Len(a \o b) = Len(a) + Len(b) /\ Len(a) \in Nat /\ Len(b) \in Nat
           /\ \A i \in 1 .. Len(a) : (a \o b)[i] = a[i]
           /\ \A i \in Len(a) + 1 .. Len(a) + Len(b) : (a \o b)[i] = b[i - Len(a)]
  <1>1. a \o b \in Seq(E) /\ Len(a \o b) = Len(a) + Len(b) /\ Len(a) \in Nat /\ Len(b) \in Nat
    OBVIOUS
  <1>2. /\ \A i \in 1 .. Len(a) : (a \o b)[i] = a[i]
        /\ \A i \in Len(a) + 1 .. Len(a) + Len(b) : (a \o b)[i] = b[i - Len(a)]
    OBVIOUS
  <1> QED BY <1>1, <1>2

LEMMA ConcatSet ==
    ASSUME NEW E, NEW a \in Seq(E), NEW b \in Seq(E)
    PROVE  a \o b \in Seq(E) /\ ToSet(a \o b) = ToSet(a) \cup ToSet(b)
  <1>1. a \o b \in Seq(E) /\ Len(a \o b) = Len(a) + Len(b) /\ Len(a) \in Nat /\ Len(b) \in Nat
    BY ConcatPlaces
  <1>2. /\ \A i \in 1 .. Len(a) : (a \o b)[i] = a[i]
        /\ \A i \in Len(a) + 1 .. Len(a) + Len(b) : (a \o b)[i] = b[i - Len(a)]
    BY ConcatPlaces
  <1>3. DOMAIN a = 1 .. Len(a) /\ DOMAIN b = 1 .. Len(b) /\ DOMAIN (a \o b) = 1 .. Len(a) + Len(b)
    BY <1>1
  <1> DEFINE c == a \o b
  <1> HIDE DEF c
  <1>4. ASSUME NEW e \in ToSet(c) PROVE e \in ToSet(a) \cup ToSet(b)
    <2>1. PICK i \in 1 .. Len(a) + Len(b) : e = c[i]
      BY <1>3, <1>4 DEF ToSet, c
    <2>2. CASE i \in 1 .. Len(a)
      BY <1>2, <1>3, <2>1, <2>2 DEF ToSet, c
    <2>3. CASE i \in Len(a) + 1 .. Len(a) + Len(b)
      <3>1. i - Len(a) \in 1 .. Len(b) /\ e = b[i - Len(a)]
        BY <1>1, <1>2, <2>1, <2>3 DEF c
      <3> QED BY <1>3, <3>1 DEF ToSet
    <2> QED BY <1>1, <2>1, <2>2, <2>3
  <1>5. ASSUME NEW e \in ToSet(a) PROVE e \in ToSet(c)
    <2>1. PICK i \in 1 .. Len(a) : e = a[i]
      BY <1>3, <1>5 DEF ToSet
    <2>2. i \in 1 .. Len(a) + Len(b)
      BY <1>1, <2>1
    <2> QED BY <1>2, <1>3, <2>1, <2>2 DEF ToSet, c
  <1>6. ASSUME NEW e \in ToSet(b) PROVE e \in ToSet(c)
    <2>1. PICK i \in 1 .. Len(b) : e = b[i]
      BY <1>3, <1>6 DEF ToSet
    <2>2. i + Len(a) \in Len(a) + 1 .. Len(a) + Len(b) /\ (i + Len(a)) - Len(a) = i
      BY <1>1, <2>1
    <2>3. c[i + Len(a)] = e /\ i + Len(a) \in 1 .. Len(a) + Len(b)
      BY <1>1, <1>2, <2>1, <2>2 DEF c
    <2> QED BY <1>3, <2>3 DEF ToSet, c
  <1> QED BY <1>1, <1>4, <1>5, <1>6 DEF c

\* f[n] is the first n sequences.
Flattens(f, E, ss) ==
    /\ f \in [1 .. Len(ss) -> Seq(E)]
    /\ \A i \in 1 .. Len(ss) : f[i] = IF i = 1 THEN ss[i] ELSE f[i - 1] \o ss[i]

\* The recursion that defines FlattenSeq.
LEMMA FlattenRecursion ==
    ASSUME NEW E, NEW ss \in Seq(Seq(E)), Len(ss) # 0
    PROVE  \E f : Flattens(f, E, ss) /\ FlattenSeq(ss) = f[Len(ss)]
  <1> DEFINE N == Len(ss)
             V == Seq(E)
             nil == <<>>
             G == [p \in V \X (1 .. N) |-> p[1] \o ss[p[2]]]
             Flat(f) == f = [i \in 1 .. N |-> IF i = 1 THEN ss[i] ELSE f[i - 1] \o ss[i]]
             flat == CHOOSE f : Flat(f)
  <1>1. N \in Nat /\ N # 0 /\ nil \in V /\ \A n \in 1 .. N : ss[n] \in V
    OBVIOUS
  <1>2. \A v \in V : \A n \in 1 .. N : v \o ss[n] \in V
    BY <1>1
  <1>3. \A n \in 1 .. N : nil \o ss[n] = ss[n]
    BY <1>1
  <1>4. FlattenSeq(ss) = flat[N]
    BY Zenon DEF FlattenSeq
  <1> HIDE DEF N, V, nil
  <1>5. ASSUME NEW v \in V, NEW n \in 1 .. N PROVE G[<<v, n>>] = v \o ss[n]
    OBVIOUS
  <1> HIDE DEF G
  <1>6. StepsIn(G, N, V)
    BY <1>2, <1>5, Zenon DEF StepsIn
  <1>7. PICK r : Solves(r, N, V, nil, G)
    BY <1>1, <1>6, RecursionTo
  <1> DEFINE f == [i \in 1 .. N |-> r[i]]
  <1>8. f \in [1 .. N -> V] /\ \A i \in 1 .. N : f[i] = IF i = 1 THEN ss[i] ELSE f[i - 1] \o ss[i]
    <2>1. \A i \in 1 .. N : f[i] = r[i] /\ r[i] \in V
      BY <1>1, <1>7 DEF Solves
    <2>2. ASSUME NEW i \in 1 .. N PROVE f[i] = IF i = 1 THEN ss[i] ELSE f[i - 1] \o ss[i]
      <3>1. r[i - 1] \in V /\ r[i] = G[<<r[i - 1], i>>]
        BY <1>1, <1>7 DEF Solves
      <3>2. f[i] = r[i - 1] \o ss[i]
        BY <1>5, <2>1, <3>1
      <3>3. CASE i = 1
        <4>1. r[i - 1] = nil
          BY <1>7, <3>3 DEF Solves
        <4> QED BY <1>3, <3>2, <3>3, <4>1
      <3>4. CASE i # 1
        <4>1. i - 1 \in 1 .. N
          BY <1>1, <3>4
        <4> QED BY <2>1, <3>2, <3>4, <4>1
      <3> QED BY <3>3, <3>4
    <2> QED BY <2>1, <2>2
  <1>9. Flat(f)
    <2> HIDE DEF f
    <2>1. f = [i \in 1 .. N |-> f[i]]
      BY <1>8
    <2> QED BY <1>8, <2>1
  <1>10. Flat(flat)
    <2> HIDE DEF Flat, f
    <2> QED BY <1>9, Zenon
  <1> HIDE DEF flat, f
  <1>11. flat = [i \in 1 .. N |-> flat[i]] /\ \A i \in 1 .. N : flat[i] = IF i = 1 THEN ss[i] ELSE flat[i - 1] \o ss[i]
    BY <1>10, Zenon
  <1> HIDE DEF Flat
  <1>12. \A i \in 1 .. N : flat[i] \in V
    <2> DEFINE T == {n \in 0 .. N : n = 0 \/ flat[n] \in V}
    <2>1. 0 \in T
      BY <1>1
    <2>2. ASSUME NEW n \in Nat, n < N, n \in T PROVE n + 1 \in T
      <3>1. n + 1 \in 1 .. N /\ (n + 1) - 1 = n /\ ss[n + 1] \in V
        BY <1>1, <2>2
      <3>2. flat[n + 1] = IF n + 1 = 1 THEN ss[n + 1] ELSE flat[(n + 1) - 1] \o ss[n + 1]
        BY <1>11, <3>1, Zenon
      <3>3. n # 0 => flat[n] \in V /\ flat[n] \o ss[n + 1] \in V
        BY <1>2, <2>2, <3>1
      <3>4. flat[n + 1] \in V
        <4>1. n = 0 \/ n + 1 # 1
          OBVIOUS
        <4> HIDE DEF T
        <4> QED BY <3>1, <3>2, <3>3, <4>1
      <3> QED BY <1>1, <3>1, <3>4
    <2>3. \A n \in 0 .. N : n \in T
      <3> HIDE DEF T
      <3> QED BY <1>1, <2>1, <2>2, InductionTo
    <2> QED BY <1>1, <2>3
  <1>13. flat \in [1 .. N -> V]
    BY <1>11, <1>12
  <1>14. Flattens(flat, E, ss)
    BY <1>11, <1>13, Zenon DEF Flattens, N, V
  <1> QED BY <1>4, <1>14 DEF N

\* What FlattenSeq computes: a sequence of all the elements and no others.
LEMMA FlattenFacts ==
    ASSUME NEW E, NEW ss \in Seq(Seq(E))
    PROVE  /\ FlattenSeq(ss) \in Seq(E)
           /\ \A e : e \in ToSet(FlattenSeq(ss)) <=> \E i \in 1 .. Len(ss) : e \in ToSet(ss[i])
  <1>1. CASE Len(ss) = 0
    <2>1. ss = <<>> /\ FlattenSeq(ss) = ss
      BY <1>1 DEF FlattenSeq
    <2>2. ToSet(ss) = {} /\ ss \in Seq(E)
      BY <2>1 DEF ToSet
    <2>3. \A i : i \notin 1 .. Len(ss)
      BY <1>1
    <2> QED BY <2>1, <2>2, <2>3
  <1>2. CASE Len(ss) # 0
    <2> DEFINE N == Len(ss)
    <2>1. N \in Nat /\ N # 0 /\ \A n \in 1 .. N : ss[n] \in Seq(E)
      BY <1>2
    <2>2. PICK f : Flattens(f, E, ss) /\ FlattenSeq(ss) = f[N]
      BY <1>2, FlattenRecursion
    <2>3. /\ \A i \in 1 .. N : f[i] \in Seq(E)
          /\ \A i \in 1 .. N : f[i] = IF i = 1 THEN ss[i] ELSE f[i - 1] \o ss[i]
      BY <2>2, Zenon DEF Flattens
    <2> HIDE DEF N
    <2> DEFINE Has(n, e) == \E i \in 1 .. n : e \in ToSet(ss[i])
               T == {n \in 0 .. N : n = 0 \/ \A e : e \in ToSet(f[n]) <=> Has(n, e)}
    <2>4. 0 \in T
      BY <2>1
    <2>5. ASSUME NEW n \in Nat, n < N, n \in T PROVE n + 1 \in T
      <3>0. n < N
        BY <2>5
      <3>1. n + 1 \in 1 .. N /\ (n + 1) - 1 = n
        <4> HIDE DEF T
        <4> QED BY <2>1, <3>0
      <3>2. f[n + 1] = IF n + 1 = 1 THEN ss[n + 1] ELSE f[(n + 1) - 1] \o ss[n + 1]
        BY <2>3, <3>1, Zenon
      <3>3. ASSUME NEW e PROVE Has(n + 1, e) <=> Has(n, e) \/ e \in ToSet(ss[n + 1])
        <4>1. \A i : i \in 1 .. n + 1 <=> i \in 1 .. n \/ i = n + 1
          OBVIOUS
        <4> QED BY <4>1, Zenon
      <3>4. ASSUME NEW e PROVE e \in ToSet(f[n + 1]) <=> Has(n + 1, e)
        <4>1. CASE n = 0
          <5>1. f[n + 1] = ss[n + 1]
            BY <3>2, <4>1
          <5>2. ~Has(n, e)
            BY <4>1
          <5> QED BY <3>3, <5>1, <5>2
        <4>2. CASE n # 0
          <5>1. f[n + 1] = f[n] \o ss[n + 1]
            <6>1. n + 1 # 1
              BY <4>2
            <6> QED BY <3>1, <3>2, <6>1, Zenon
          <5>2. f[n] \in Seq(E) /\ ss[n + 1] \in Seq(E)
            BY <2>1, <2>3, <2>5, <3>1, <4>2
          <5>3. ToSet(f[n + 1]) = ToSet(f[n]) \cup ToSet(ss[n + 1])
            BY <5>1, <5>2, ConcatSet
          <5>4. e \in ToSet(f[n]) <=> Has(n, e)
            BY <2>5, <4>2
          <5> QED BY <3>3, <5>3, <5>4
        <4> QED BY <4>1, <4>2
      <3> HIDE DEF Has
      <3> QED BY <2>1, <3>1, <3>4
    <2>6. \A n \in 0 .. N : n \in T
      <3> HIDE DEF T
      <3> QED BY <2>1, <2>4, <2>5, InductionTo
    <2>7. \A e : e \in ToSet(f[N]) <=> Has(N, e)
      <3>1. N \in T
        <4> HIDE DEF T
        <4> QED BY <2>1, <2>6
      <3> HIDE DEF Has
      <3> QED BY <2>1, <3>1
    <2>8. f[N] \in Seq(E)
      BY <2>1, <2>3
    <2> QED BY <2>2, <2>7, <2>8 DEF N
  <1> QED BY <1>1, <1>2

(***************************************************************************)
(* What merge_device_lists computes.                                       *)
(***************************************************************************)

Line == [backend : STRING, serial : Seq(STRING) \ {<<>>}, state : STRING]

Lists == [Backend -> Seq(Device)]

\* The backends are the elements of the configured order.
LEMMA OrderFacts ==
    /\ Len(Order) \in Nat /\ DOMAIN Order = 1 .. Len(Order)
    /\ \A i \in 1 .. Len(Order) : Order[i] \in Backend /\ Order[i] \in STRING
    /\ \A b \in Backend : \E i \in 1 .. Len(Order) : Order[i] = b
    /\ \A i, j \in 1 .. Len(Order) : Order[i] = Order[j] => i = j
  <1>1. Order \in Seq(STRING) /\ \A i, j \in DOMAIN Order : Order[i] = Order[j] => i = j
    BY OrderAssumption DEF IsInjective
  <1>2. Len(Order) \in Nat /\ DOMAIN Order = 1 .. Len(Order) /\ \A i \in 1 .. Len(Order) : Order[i] \in STRING
    BY <1>1
  <1>3. /\ \A i \in 1 .. Len(Order) : Order[i] \in Backend
        /\ \A b \in Backend : \E i \in 1 .. Len(Order) : Order[i] = b
    BY <1>2 DEF Backend, ToSet
  <1> QED BY <1>1, <1>2, <1>3

\* The lines of one list.
LEMMA ParsedOfFacts ==
    ASSUME NEW ls \in Lists, NEW b \in Backend
    PROVE  /\ ParsedOf(ls, b) \in Seq(Line)
           /\ \A e : e \in ToSet(ParsedOf(ls, b)) <=>
                \E j \in DOMAIN ls[b] : e = [backend |-> b, serial |-> ls[b][j].serial, state |-> ls[b][j].state]
  <1>1. ls[b] \in Seq(Device) /\ b \in STRING
    BY OrderFacts DEF Lists
  <1>2. Len(ls[b]) \in Nat /\ DOMAIN ls[b] = 1 .. Len(ls[b]) /\ \A j \in 1 .. Len(ls[b]) : ls[b][j] \in Device
    BY <1>1
  <1>3. \A j \in 1 .. Len(ls[b]) : [backend |-> b, serial |-> ls[b][j].serial, state |-> ls[b][j].state] \in Line
    BY <1>1, <1>2 DEF Device, Line
  <1>4. ParsedOf(ls, b) \in Seq(Line)
    BY <1>2, <1>3 DEF ParsedOf
  <1> QED BY <1>4 DEF ParsedOf, ToSet

\* The parsed lines are those of all the lists.
LEMMA ParsedFacts ==
    ASSUME NEW ls \in Lists
    PROVE  /\ Parsed(ls) \in Seq(Line)
           /\ \A e : e \in ToSet(Parsed(ls)) <=> \E b \in Backend : e \in ToSet(ParsedOf(ls, b))
  <1> DEFINE ss == [i \in DOMAIN Order |-> ParsedOf(ls, Order[i])]
  <1>1. \A i \in 1 .. Len(Order) : ParsedOf(ls, Order[i]) \in Seq(Line)
    BY OrderFacts, ParsedOfFacts
  <1>2. ss \in Seq(Seq(Line)) /\ Len(ss) = Len(Order)
    BY <1>1, OrderFacts
  <1>3. \A i \in 1 .. Len(Order) : ss[i] = ParsedOf(ls, Order[i])
    BY OrderFacts
  <1>4. Parsed(ls) = FlattenSeq(ss)
    BY DEF Parsed
  <1> HIDE DEF ss
  <1>5. /\ Parsed(ls) \in Seq(Line)
        /\ \A e : e \in ToSet(Parsed(ls)) <=> \E i \in 1 .. Len(ss) : e \in ToSet(ss[i])
    <2>1. ss \in Seq(Seq(Line))
      BY <1>2
    <2>2. /\ FlattenSeq(ss) \in Seq(Line)
          /\ \A e : e \in ToSet(FlattenSeq(ss)) <=> \E i \in 1 .. Len(ss) : e \in ToSet(ss[i])
      BY <2>1, FlattenFacts, Zenon
    <2> QED BY <1>4, <2>2
  <1>6. \A e : (\E i \in 1 .. Len(ss) : e \in ToSet(ss[i])) <=> \E b \in Backend : e \in ToSet(ParsedOf(ls, b))
    BY <1>2, <1>3, OrderFacts
  <1> QED BY <1>5, <1>6

\* A part of a public serial is a part of a serial, a name or an index.
Part == STRING \cup {Numeral(n) : n \in Nat}

LEMMA PublicType ==
    ASSUME NEW parsed \in Seq(Line), NEW used, NEW n \in 1 .. Len(parsed)
    PROVE  Public(parsed, used, n) \in Seq(Part)
  <1>1. parsed[n] \in Line /\ n - 1 \in Nat
    OBVIOUS
  <1>2. parsed[n].backend \in Part /\ Numeral(n - 1) \in Part /\ parsed[n].serial \in Seq(STRING)
    BY <1>1 DEF Line, Part
  <1>3. parsed[n].serial \in Seq(Part)
    BY <1>2 DEF Part
  <1>4. Prefixed(parsed[n]) \in Seq(Part)
    BY <1>2, <1>3 DEF Prefixed
  <1>5. Prefixed(parsed[n]) \o <<Numeral(n - 1)>> \in Seq(Part)
    BY <1>2, <1>4
  <1> QED BY <1>3, <1>4, <1>5, Zenon DEF Public

\* The first n devices have got their public serials by the rule.
Named(pubs, parsed, n) ==
    /\ pubs \in Seq(Seq(Part)) /\ Len(pubs) = n
    /\ \A k \in 1 .. n : pubs[k] = Public(parsed, {pubs[j] : j \in 1 .. k - 1}, k)

\* Handing out one more.
LEMMA NamedStep ==
    ASSUME NEW parsed \in Seq(Line), NEW n \in Nat, n < Len(parsed), NEW p, Named(p, parsed, n)
    PROVE  Named(Append(p, Public(parsed, ToSet(p), n + 1)), parsed, n + 1)
  <1> DEFINE q == Public(parsed, ToSet(p), n + 1)
             g == Append(p, q)
  <1>1. n + 1 \in 1 .. Len(parsed)
    OBVIOUS
  <1>2. q \in Seq(Part)
    BY <1>1, PublicType
  <1>3. p \in Seq(Seq(Part)) /\ Len(p) = n /\ DOMAIN p = 1 .. n
    BY DEF Named
  <1>4. q = Public(parsed, {p[j] : j \in 1 .. n}, n + 1)
    BY <1>3 DEF ToSet
  <1> HIDE DEF q
  <1>5. /\ g \in Seq(Seq(Part)) /\ Len(g) = n + 1 /\ g[n + 1] = q
        /\ \A j \in 1 .. n : g[j] = p[j]
    BY <1>2, <1>3
  <1> HIDE DEF g
  <1>6. ASSUME NEW k \in 1 .. n + 1 PROVE g[k] = Public(parsed, {g[j] : j \in 1 .. k - 1}, k)
    <2>1. {g[j] : j \in 1 .. k - 1} = {p[j] : j \in 1 .. k - 1}
      <3>1. \A j \in 1 .. k - 1 : j \in 1 .. n
        OBVIOUS
      <3> QED BY <1>5, <3>1
    <2>2. CASE k = n + 1
      <3>1. k - 1 = n
        BY <2>2
      <3> QED BY <1>4, <1>5, <2>1, <2>2, <3>1
    <2>3. CASE k # n + 1
      <3>1. k \in 1 .. n
        BY <2>3
      <3>2. p[k] = Public(parsed, {p[j] : j \in 1 .. k - 1}, k)
        BY <3>1 DEF Named
      <3> QED BY <1>5, <2>1, <3>1, <3>2
    <2> QED BY <2>2, <2>3
  <1> QED BY <1>5, <1>6 DEF Named, g, q

\* The recursion that defines Names.
LEMMA NamesFacts ==
    ASSUME NEW parsed \in Seq(Line)
    PROVE  Named(Names(parsed)[Len(parsed)], parsed, Len(parsed))
  <1> DEFINE N == Len(parsed)
             V == Seq(Seq(Part))
             nil == <<>>
             Next1(v, n) == Append(v, Public(parsed, ToSet(v), n))
             G == [x \in V \X (1 .. N) |-> Next1(x[1], x[2])]
             Name(f) == f = [n \in 0 .. N |-> IF n = 0 THEN nil ELSE Next1(f[n - 1], n)]
             names == CHOOSE f : Name(f)
  <1>1. N \in Nat /\ nil \in V
    OBVIOUS
  <1>2. \A v \in V : \A n \in 1 .. N : Next1(v, n) \in V
    BY PublicType
  <1>3. Names(parsed) = names
    BY Zenon DEF Names
  <1>4. Named(nil, parsed, 0)
    BY DEF Named
  <1>5. ASSUME NEW n \in Nat, n < N, NEW v, Named(v, parsed, n) PROVE Named(Next1(v, n + 1), parsed, n + 1)
    BY <1>5, NamedStep
  <1> HIDE DEF N, V, nil, Next1
  <1>6. ASSUME NEW v \in V, NEW n \in 1 .. N PROVE G[<<v, n>>] = Next1(v, n)
    OBVIOUS
  <1> HIDE DEF G
  <1>7. StepsIn(G, N, V)
    BY <1>2, <1>6, Zenon DEF StepsIn
  <1>8. PICK f : Solves(f, N, V, nil, G)
    BY <1>1, <1>7, RecursionTo
  <1>9. Name(f)
    <2>1. f = [n \in 0 .. N |-> f[n]] /\ f[0] = nil
      BY <1>8 DEF Solves
    <2>2. ASSUME NEW n \in 0 .. N PROVE f[n] = IF n = 0 THEN nil ELSE Next1(f[n - 1], n)
      <3>1. CASE n = 0
        BY <2>1, <3>1
      <3>2. CASE n # 0
        <4>1. n \in 1 .. N /\ n - 1 \in 0 .. N
          BY <1>1, <3>2
        <4>2. f[n - 1] \in V /\ f[n] = G[<<f[n - 1], n>>]
          BY <1>8, <4>1 DEF Solves
        <4> QED BY <1>6, <3>2, <4>1, <4>2
      <3> QED BY <3>1, <3>2
    <2> QED BY <2>1, <2>2
  <1>10. Name(names)
    <2> HIDE DEF Name
    <2> QED BY <1>9, Zenon
  <1> HIDE DEF names
  <1>11. \A n \in 0 .. N : names[n] = IF n = 0 THEN nil ELSE Next1(names[n - 1], n)
    BY <1>10, Zenon
  <1> HIDE DEF Name
  <1> DEFINE T == {n \in 0 .. N : Named(names[n], parsed, n)}
  <1>12. 0 \in T
    <2>1. 0 \in 0 .. N
      BY <1>1
    <2>2. names[0] = nil
      BY <1>11, <2>1
    <2> QED BY <1>4, <2>1, <2>2
  <1>13. ASSUME NEW n \in Nat, n < N, n \in T PROVE n + 1 \in T
    <2>0. n < N
      BY <1>13
    <2>1. n + 1 \in 0 .. N /\ n + 1 # 0 /\ (n + 1) - 1 = n
      <3> HIDE DEF T
      <3> QED BY <1>1, <2>0
    <2>2. names[n + 1] = IF n + 1 = 0 THEN nil ELSE Next1(names[(n + 1) - 1], n + 1)
      BY <1>11, <2>1, Zenon
    <2>3. names[n + 1] = Next1(names[n], n + 1)
      BY <2>1, <2>2, Zenon
    <2>4. Named(names[n], parsed, n)
      BY <1>13
    <2>5. Named(names[n + 1], parsed, n + 1)
      BY <1>5, <2>0, <2>3, <2>4
    <2> QED BY <2>1, <2>5
  <1>14. N \in T
    <2> HIDE DEF T
    <2>1. \A n \in 0 .. N : n \in T
      BY <1>1, <1>12, <1>13, InductionTo
    <2> QED BY <1>1, <2>1
  <1> QED BY <1>3, <1>14 DEF N

\* A device of the merged list.
Entry == [public : Seq(Part), upstream : Seq(STRING) \ {<<>>}, state : STRING, backend : STRING]

\* devs is the merged list of the parsed lines: every device has the public serial the rule
\* gives it after the ones before it.
Merged(devs, parsed) ==
    /\ devs \in Seq(Entry) /\ Len(devs) = Len(parsed)
    /\ \A i \in 1 .. Len(parsed) :
          /\ devs[i].upstream = parsed[i].serial
          /\ devs[i].state = parsed[i].state
          /\ devs[i].backend = parsed[i].backend
          /\ devs[i].public = Public(parsed, {devs[j].public : j \in 1 .. i - 1}, i)

LEMMA MergeFacts ==
    ASSUME NEW ls \in Lists
    PROVE  Merged(Merge(ls), Parsed(ls))
  <1> DEFINE parsed == Parsed(ls)
             N == Len(parsed)
             pubs == Names(parsed)[Len(parsed)]
             D(i) == [public |-> pubs[i], upstream |-> parsed[i].serial,
                      state |-> parsed[i].state, backend |-> parsed[i].backend]
             devs == Merge(ls)
  <1>1. parsed \in Seq(Line)
    BY ParsedFacts
  <1>2. Named(pubs, parsed, N)
    BY <1>1, NamesFacts
  <1>3. devs = [i \in DOMAIN parsed |-> D(i)]
    BY DEF Merge
  <1> HIDE DEF parsed, pubs, devs
  <1>4. N \in Nat /\ DOMAIN parsed = 1 .. N /\ \A i \in 1 .. N : parsed[i] \in Line
    BY <1>1
  <1>5. pubs \in Seq(Seq(Part)) /\ Len(pubs) = N
    BY <1>2 DEF Named
  <1>6. \A i \in 1 .. N : pubs[i] \in Seq(Part)
    BY <1>5
  <1>7. \A i \in 1 .. N : D(i) \in Entry
    BY <1>4, <1>6 DEF Line, Entry
  <1>8. devs \in Seq(Entry) /\ Len(devs) = N /\ \A i \in 1 .. N : devs[i] = D(i)
    BY <1>3, <1>4, <1>7
  <1>9. ASSUME NEW i \in 1 .. N
         PROVE  /\ devs[i].public = pubs[i]
                /\ devs[i].upstream = parsed[i].serial
                /\ devs[i].state = parsed[i].state
                /\ devs[i].backend = parsed[i].backend
    <2>1. devs[i] = [public |-> pubs[i], upstream |-> parsed[i].serial,
                      state |-> parsed[i].state, backend |-> parsed[i].backend]
      BY <1>8
    <2> QED BY <2>1
  <1>10. ASSUME NEW i \in 1 .. N PROVE devs[i].public = Public(parsed, {devs[j].public : j \in 1 .. i - 1}, i)
    <2>1. \A j \in 1 .. i - 1 : j \in 1 .. N /\ devs[j].public = pubs[j]
      BY <1>4, <1>9
    <2>2. {devs[j].public : j \in 1 .. i - 1} = {pubs[j] : j \in 1 .. i - 1}
      BY <2>1
    <2>3. pubs[i] = Public(parsed, {pubs[j] : j \in 1 .. i - 1}, i)
      BY <1>2 DEF Named
    <2> QED BY <1>9, <2>2, <2>3
  <1> QED BY <1>8, <1>9, <1>10 DEF Merged, parsed, devs

\* The three forms of a public serial.
Fallback(d, n) == Prefixed(d) \o <<Numeral(n - 1)>>

LEMMA PublicCases ==
    ASSUME NEW parsed, NEW used, NEW n
    PROVE  \/ Public(parsed, used, n) = parsed[n].serial /\ ~Conflict(parsed, n) /\ Public(parsed, used, n) \notin used
           \/ Public(parsed, used, n) = Prefixed(parsed[n]) /\ Public(parsed, used, n) \notin used
           \/ Public(parsed, used, n) = Fallback(parsed[n], n)
  BY Zenon DEF Public, Fallback

\* Their parts.
LEMMA PublicParts ==
    ASSUME NEW d \in Line, NEW n \in Nat \ {0}
    PROVE  /\ d.serial \in Seq(STRING) /\ Len(d.serial) \in Nat \ {0}
           /\ Len(Prefixed(d)) = Len(d.serial) + 1
           /\ Prefixed(d)[1] = d.backend
           /\ \A i \in 1 .. Len(d.serial) : Prefixed(d)[i + 1] = d.serial[i]
           /\ Len(Fallback(d, n)) = Len(d.serial) + 2
           /\ \A i \in 1 .. Len(d.serial) + 1 : Fallback(d, n)[i] = Prefixed(d)[i]
           /\ Fallback(d, n)[Len(d.serial) + 2] = Numeral(n - 1)
  <1> DEFINE s == d.serial
             b == d.backend
             m == Numeral(n - 1)
  <1>1. s \in Seq(Part) /\ s # <<>> /\ b \in Part /\ m \in Part /\ s \in Seq(STRING)
    BY DEF Line, Part
  <1>2. Prefixed(d) = <<b>> \o s /\ Fallback(d, n) = (<<b>> \o s) \o <<m>>
    BY DEF Prefixed, Fallback
  <1> HIDE DEF s, b, m
  <1>3. Len(s) \in Nat \ {0} /\ <<b>> \in Seq(Part) /\ <<m>> \in Seq(Part)
    BY <1>1
  <1> DEFINE q == <<b>> \o s
  <1>4. /\ q \in Seq(Part) /\ Len(q) = Len(s) + 1 /\ q[1] = b
        /\ \A i \in 1 .. Len(s) : q[i + 1] = s[i]
    BY <1>1, <1>3
  <1> HIDE DEF q
  <1>5. /\ Len(q \o <<m>>) = Len(s) + 2
        /\ \A i \in 1 .. Len(s) + 1 : (q \o <<m>>)[i] = q[i]
        /\ (q \o <<m>>)[Len(s) + 2] = m
    BY <1>1, <1>3, <1>4
  <1>6. Prefixed(d) = q /\ Fallback(d, n) = q \o <<m>>
    BY <1>2 DEF q
  <1> QED BY <1>1, <1>3, <1>4, <1>5, <1>6 DEF s, b, m

(***************************************************************************)
(* The inductive invariant: the registry is the merged list of the last    *)
(* lists.                                                                  *)
(***************************************************************************)

MergedInv ==
    /\ lists \in Lists
    /\ devices = Merge(lists)
    /\ Len(devices) <= MaxDevices

\* A line of the merged list is a line of its backend's list.
LEMMA LineListed ==
    ASSUME NEW ls \in Lists, NEW i \in 1 .. Len(Parsed(ls))
    PROVE  /\ Parsed(ls)[i] \in Line
           /\ Parsed(ls)[i].backend \in Backend
           /\ \E j \in DOMAIN ls[Parsed(ls)[i].backend] :
                 ls[Parsed(ls)[i].backend][j].serial = Parsed(ls)[i].serial
  <1> DEFINE parsed == Parsed(ls)
             e == parsed[i]
  <1>1. parsed \in Seq(Line) /\ \A x : x \in ToSet(parsed) <=> \E b \in Backend : x \in ToSet(ParsedOf(ls, b))
    BY ParsedFacts
  <1> HIDE DEF parsed
  <1>2. i \in 1 .. Len(parsed)
    BY DEF parsed
  <1>3. e \in Line /\ e \in ToSet(parsed)
    BY <1>1, <1>2 DEF ToSet
  <1> HIDE DEF e
  <1>4. PICK b \in Backend : e \in ToSet(ParsedOf(ls, b))
    BY <1>1, <1>3
  <1>5. PICK j \in DOMAIN ls[b] : e = [backend |-> b, serial |-> ls[b][j].serial, state |-> ls[b][j].state]
    BY <1>4, ParsedOfFacts
  <1>6. e.backend = b /\ e.serial = ls[b][j].serial
    BY <1>5
  <1> QED BY <1>3, <1>6 DEF e, parsed

\* And conversely.
LEMMA ListedLine ==
    ASSUME NEW ls \in Lists, NEW b \in Backend, NEW j \in DOMAIN ls[b]
    PROVE  \E i \in 1 .. Len(Parsed(ls)) :
              Parsed(ls)[i].backend = b /\ Parsed(ls)[i].serial = ls[b][j].serial
  <1> DEFINE parsed == Parsed(ls)
             e == [backend |-> b, serial |-> ls[b][j].serial, state |-> ls[b][j].state]
  <1>1. parsed \in Seq(Line) /\ \A x : x \in ToSet(parsed) <=> \E c \in Backend : x \in ToSet(ParsedOf(ls, c))
    BY ParsedFacts
  <1>2. e \in ToSet(ParsedOf(ls, b))
    BY ParsedOfFacts
  <1>3. e.backend = b /\ e.serial = ls[b][j].serial
    OBVIOUS
  <1> HIDE DEF e, parsed
  <1>4. PICK i \in 1 .. Len(parsed) : e = parsed[i]
    BY <1>1, <1>2 DEF ToSet
  <1> QED BY <1>3, <1>4 DEF parsed

LEMMA MergedInvInit ==
    ASSUME Init
    PROVE  MergedInv
  <1> DEFINE parsed == Parsed(lists)
             devs == Merge(lists)
  <1>1. lists \in Lists /\ \A b \in Backend : lists[b] = <<>>
    BY DEF Init, Lists
  <1>2. parsed \in Seq(Line)
    BY <1>1, ParsedFacts
  <1>3. Len(parsed) = 0
    <2> SUFFICES ASSUME Len(parsed) # 0 PROVE FALSE
      OBVIOUS
    <2>1. 1 \in 1 .. Len(parsed)
      BY <1>2
    <2>2. \E b \in Backend : \E j \in DOMAIN lists[b] : TRUE
      BY <1>1, <2>1, LineListed
    <2>3. \A b \in Backend : DOMAIN lists[b] = {}
      BY <1>1
    <2> QED BY <2>2, <2>3
  <1>4. devs \in Seq(Entry) /\ Len(devs) = 0
    BY <1>1, <1>3, MergeFacts DEF Merged
  <1> HIDE DEF devs
  <1>5. devs = <<>>
    BY <1>4
  <1>6. devices = <<>>
    BY DEF Init
  <1>7. Len(devices) <= MaxDevices
    BY <1>6, BoundAssumption
  <1> QED BY <1>1, <1>5, <1>6, <1>7 DEF MergedInv, devs

LEMMA MergedInvStep ==
    ASSUME MergedInv, [Next]_vars
    PROVE  MergedInv'
  <1>1. CASE UNCHANGED <<lists, devices>>
    BY <1>1 DEF MergedInv
  <1>2. CASE Update
    <2>1. lists' \in Lists
      <3>1. \A b \in Backend : lists'[b] \in Seq(Device)
        BY <1>2, BodyAssumption DEF Update
      <3> QED BY <1>2, <3>1 DEF Update, Lists
    <2>2. devices' = Merge(lists') /\ Len(devices') <= MaxDevices
      BY <1>2 DEF Update
    <2> QED BY <2>1, <2>2 DEF MergedInv
  <1>3. Update \/ UNCHANGED <<lists, devices>>
    BY DEF Next, SetDevice, SetNode, vars
  <1> QED BY <1>1, <1>2, <1>3

\* The registry holds the merged list of what it was given last.
LEMMA MergedInvHolds == Spec => []MergedInv
  <1>1. Init => MergedInv
    BY MergedInvInit
  <1>2. MergedInv /\ [Next]_vars => MergedInv'
    BY MergedInvStep
  <1> QED BY <1>1, <1>2, PTL DEF Spec

(***************************************************************************)
(* Public serials name one device.                                         *)
(***************************************************************************)

\* The last part of a public serial, unless it is the fallback, is that of the serial.
LEMMA LastPart ==
    ASSUME NEW d \in Line, NEW n \in Nat \ {0}
    PROVE  /\ Last(Prefixed(d)) = Last(d.serial)
           /\ Last(Fallback(d, n)) = Numeral(n - 1)
  <1>1. Len(d.serial) \in 1 .. Len(d.serial)
    BY PublicParts
  <1>2. Last(Prefixed(d)) = Last(d.serial)
    BY <1>1, PublicParts DEF Last
  <1> QED BY <1>2, PublicParts DEF Last

LEMMA PublicsUnique ==
    ASSUME MergedInv, Unindexed
    PROVE  \A i, j \in DOMAIN devices : devices[i].public = devices[j].public => i = j
  <1> DEFINE parsed == Parsed(lists)
             N == Len(parsed)
  <1>1. lists \in Lists /\ Merged(devices, parsed) /\ N <= MaxDevices
    BY MergeFacts DEF MergedInv, Merged
  <1>2. DOMAIN devices = 1 .. N /\ N \in Nat
    BY <1>1 DEF Merged
  <1>3. ASSUME NEW k \in 1 .. N, NEW n \in 1 .. N, k < n, devices[k].public = devices[n].public
        PROVE  FALSE
    <2> DEFINE used(i) == {devices[j].public : j \in 1 .. i - 1}
               p == devices[n].public
               d == parsed[k]
               e == parsed[n]
    <2>1. d \in Line /\ e \in Line
      BY <1>1, LineListed
    <2>2. p = Public(parsed, used(k), k) /\ p = Public(parsed, used(n), n)
      BY <1>1, <1>3 DEF Merged
    <2>3. p \in used(n)
      BY <1>2, <1>3
    <2>4. p = Fallback(e, n)
      BY <2>2, <2>3, PublicCases
    <2>5. p = d.serial \/ p = Prefixed(d) \/ p = Fallback(d, k)
      BY <2>2, PublicCases
    <2>6. Last(d.serial) # Numeral(n - 1)
      <3>1. PICK j \in DOMAIN lists[d.backend] : d.backend \in Backend /\ lists[d.backend][j].serial = d.serial
        BY <1>1, LineListed
      <3> QED BY <1>2, <3>1 DEF Unindexed
    <2>7. Numeral(k - 1) # Numeral(n - 1)
      <3>1. k - 1 \in 0 .. MaxDevices /\ n - 1 \in 0 .. MaxDevices /\ k - 1 # n - 1
        BY <1>1, <1>2, <1>3, BoundAssumption
      <3> QED BY <3>1, NumeralAssumption
    <2>8. k \in Nat \ {0} /\ n \in Nat \ {0}
      BY <1>2
    <2> HIDE DEF d, e, p
    <2>9. Last(p) = Numeral(n - 1)
      BY <2>1, <2>4, <2>8, LastPart
    <2>10. Last(p) = Last(d.serial) \/ Last(p) = Numeral(k - 1)
      BY <2>1, <2>5, <2>8, LastPart
    <2> QED BY <2>6, <2>7, <2>9, <2>10
  <1> QED BY <1>2, <1>3

(***************************************************************************)
(* The client reaches what it was shown.                                   *)
(***************************************************************************)

\* The devices of a client's list are in the registry, each in a place of its own.
LEMMA SnapshotFacts ==
    ASSUME MergedInv
    PROVE  /\ devices \in Seq(Entry) /\ Snapshot \in Seq(Entry)
           /\ \E h : /\ \A i \in 1 .. Len(Snapshot) : h[i] \in DOMAIN devices /\ Snapshot[i] = devices[h[i]]
                     /\ \A i, j \in 1 .. Len(Snapshot) : h[i] = h[j] => i = j
  <1> DEFINE S == {d \in ToSet(devices) : d.backend \notin nodesOff /\ d.public \notin disabled}
             snap == Select(devices, S)
  <1>1. devices \in Seq(Entry)
    BY MergeFacts DEF MergedInv, Merged
  <1>2. Snapshot = snap
    BY DEF Snapshot, FilterSnapshot
  <1> HIDE DEF S
  <1>3. snap \in Seq(Entry) /\ \E h : Places(h, snap, devices, Len(devices), S)
    BY <1>1, SelectPlaces
  <1>4. PICK h : Places(h, snap, devices, Len(devices), S)
    BY <1>3
  <1> HIDE DEF snap
  <1>5. Len(snap) \in Nat /\ DOMAIN devices = 1 .. Len(devices)
    BY <1>1, <1>3
  <1>6. \A i \in 1 .. Len(snap) : h[i] \in DOMAIN devices /\ snap[i] = devices[h[i]]
    BY <1>4, <1>5 DEF Places
  <1>7. \A i, j \in 1 .. Len(snap) : h[i] = h[j] => i = j
    <2> SUFFICES ASSUME NEW i \in 1 .. Len(snap), NEW j \in 1 .. Len(snap), h[i] = h[j], i < j \/ j < i
                 PROVE  FALSE
      BY <1>5
    <2>1. h[i] \in Nat /\ h[j] \in Nat
      BY <1>1, <1>4 DEF Places
    <2>2. h[i] < h[j] \/ h[j] < h[i]
      BY <1>4 DEF Places
    <2> QED BY <2>1, <2>2
  <1> QED BY <1>1, <1>2, <1>3, <1>6, <1>7

\* A lookup among devices with different public serials finds the one with the serial.
LEMMA LookupFinds ==
    ASSUME NEW devs \in Seq(Entry), NEW i \in 1 .. Len(devs),
           \A j \in 1 .. Len(devs) : devs[j].public = devs[i].public => j = i
    PROVE  LookupDevice(devs, devs[i].public) = Found(devs[i])
  <1> DEFINE p == devs[i].public
             S == {d \in ToSet(devs) : d.public = p}
             hits == Select(devs, S)
  <1>1. hits \in Seq(Entry) /\ \E h : Places(h, hits, devs, Len(devs), S)
    <2> HIDE DEF S
    <2> QED BY SelectPlaces
  <1>2. PICK h : Places(h, hits, devs, Len(devs), S)
    BY <1>1
  <1>3. Matches(devs, p) = hits
    BY DEF Matches
  <1> HIDE DEF hits
  <1>4. devs[i] \in S
    BY DEF ToSet
  <1>5. hits # <<>> /\ 1 \in 1 .. Len(hits) /\ Head(hits) = hits[1]
    <2>1. PICK k \in 1 .. Len(hits) : h[k] = i
      BY <1>2, <1>4 DEF Places
    <2> QED BY <1>1, <2>1
  <1>6. h[1] \in 1 .. Len(devs) /\ hits[1] = devs[h[1]] /\ hits[1] \in S
    BY <1>2, <1>5 DEF Places
  <1>7. hits[1] = devs[i]
    BY <1>6
  <1> QED BY <1>3, <1>5, <1>7 DEF LookupDevice

\* A lookup by its public serial finds a device of a client's list, which is one of its
\* backend's list.
LEMMA ListedIsFound ==
    ASSUME MergedInv, Unindexed, NEW i \in 1 .. Len(Snapshot)
    PROVE  /\ LookupDevice(Snapshot, Snapshot[i].public) = Found(Snapshot[i])
           /\ \E j \in DOMAIN lists[Snapshot[i].backend] :
                 lists[Snapshot[i].backend][j].serial = Snapshot[i].upstream
  <1> DEFINE snap == Snapshot
             d == snap[i]
  <1>1. snap \in Seq(Entry)
    BY SnapshotFacts
  <1>2. PICK h : /\ \A k \in 1 .. Len(snap) : h[k] \in DOMAIN devices /\ snap[k] = devices[h[k]]
                 /\ \A k, n \in 1 .. Len(snap) : h[k] = h[n] => k = n
    BY SnapshotFacts
  <1>3. \A j \in 1 .. Len(snap) : snap[j].public = d.public => j = i
    BY <1>2, PublicsUnique
  <1>4. i \in 1 .. Len(snap)
    OBVIOUS
  <1> HIDE DEF snap
  <1>5. LookupDevice(snap, d.public) = Found(d)
    BY <1>1, <1>3, <1>4, LookupFinds
  <1>6. \E j \in DOMAIN lists[d.backend] : lists[d.backend][j].serial = d.upstream
    <2> DEFINE parsed == Parsed(lists)
               n == h[i]
    <2>1. lists \in Lists /\ Merged(devices, parsed)
      BY MergeFacts DEF MergedInv
    <2>2. n \in 1 .. Len(parsed) /\ d = devices[n]
      BY <1>2, <1>4, <2>1 DEF Merged
    <2>3. d.upstream = parsed[n].serial /\ d.backend = parsed[n].backend
      BY <2>1, <2>2 DEF Merged
    <2> HIDE DEF n
    <2> QED BY <2>1, <2>2, <2>3, LineListed
  <1> QED BY <1>5, <1>6 DEF snap

\* transport and tport look the serial up as it is and ask for a device that is online.
LEMMA TransportReaches ==
    ASSUME NEW devs, NEW d, Online(d), NEW p, LookupDevice(devs, p) = Found(d)
    PROVE  Route(devs, Transport(p)) = Found(d)
  <1>1. Found(d).entry = d
    BY DEF Found
  <1>2. LookupOnline(devs, p) = Found(d)
    BY <1>1 DEF LookupOnline
  <1>3. Transport(p).kind = "transport" /\ Transport(p).serial = p
    BY DEF Transport
  <1> HIDE DEF Transport, LookupOnline
  <1> QED BY <1>2, <1>3 DEF Route

LEMMA HeadOfConcat ==
    ASSUME NEW S, NEW s \in Seq(S), NEW t \in Seq(S), Len(s) = 1
    PROVE  Len(s \o t) = 1 + Len(t) /\ Head(s \o t) = s[1]
  <1> DEFINE u == s \o t
  <1>1. u \in Seq(S) /\ Len(u) = Len(s) + Len(t) /\ Len(t) \in Nat
    BY ConcatPlaces
  <1>2. \A i \in 1 .. Len(s) : u[i] = s[i]
    BY ConcatPlaces
  <1> HIDE DEF u
  <1>3. u[1] = s[1]
    BY <1>2
  <1>4. Len(u) = 1 + Len(t)
    BY <1>1
  <1>5. Head(u) = u[1]
    BY <1>1, <1>4
  <1> QED BY <1>3, <1>4, <1>5 DEF u

\* A serial of one part is what comes before the first colon of the query.
LEMMA HostSerialReaches ==
    ASSUME NEW devs, NEW d, NEW p \in Seq(Part), Len(p) = 1, LookupDevice(devs, p) = Found(d)
    PROVE  Route(devs, HostSerialQuery(p)) = Found(d)
  <1> DEFINE rest == p \o <<"get-state">>
  <1>1. HostSerialQuery(p).kind = "host-serial" /\ HostSerialQuery(p).rest = rest
    BY DEF HostSerialQuery
  <1>2. Len(rest) = 2 /\ Head(rest) = p[1]
    <2> DEFINE query == <<"get-state">>
               S == Part \cup {"get-state"}
    <2>1. p \in Seq(S) /\ query \in Seq(S) /\ Len(query) = 1
      OBVIOUS
    <2> HIDE DEF query, S
    <2> QED BY <2>1, HeadOfConcat DEF query
  <1>3. <<Head(rest)>> = p
    BY <1>2
  <1> HIDE DEF rest
  <1>4. HostSerial(devs, rest) = Found(d)
    BY <1>2, <1>3 DEF HostSerial
  <1> HIDE DEF HostSerialQuery
  <1> QED BY <1>1, <1>4 DEF Route

\* A public serial names one device, and the device behind an entry a client is shown is
\* reached, at its backend and with its own serial, by the public serial it was shown with:
\* by transport and tport if it is online, by host-serial if the serial has no colon; for
\* every configuration, all lists and all policies (merge_device_lists, filter_snapshot,
\* rewrite_upstream_service).
THEOREM ListedIsReachableAlways == Spec => []ListedIsReachable
  <1>1. ASSUME MergedInv PROVE ListedIsReachable
    <2> SUFFICES ASSUME Unindexed, NEW i \in DOMAIN Snapshot
                 PROVE  /\ Online(Snapshot[i]) => Reaches(Transport(Snapshot[i].public), Snapshot[i])
                        /\ Len(Snapshot[i].public) = 1
                              => Reaches(HostSerialQuery(Snapshot[i].public), Snapshot[i])
      BY <1>1, PublicsUnique DEF ListedIsReachable
    <2> DEFINE d == Snapshot[i]
    <2>1. Snapshot \in Seq(Entry) /\ i \in 1 .. Len(Snapshot)
      BY <1>1, SnapshotFacts
    <2>2. d.public \in Seq(Part)
      <3>1. Snapshot[i] \in Entry
        BY <2>1
      <3> HIDE DEF Part
      <3> QED BY <3>1 DEF Entry
    <2>3. /\ LookupDevice(Snapshot, d.public) = Found(d)
          /\ \E j \in DOMAIN lists[d.backend] : lists[d.backend][j].serial = d.upstream
      BY <1>1, <2>1, ListedIsFound
    <2> HIDE DEF d
    <2>4. Online(d) => Reaches(Transport(d.public), d)
      BY <2>3, TransportReaches DEF Reaches
    <2>5. Len(d.public) = 1 => Reaches(HostSerialQuery(d.public), d)
      BY <2>2, <2>3, HostSerialReaches DEF Reaches
    <2> QED BY <2>4, <2>5 DEF d
  <1> QED BY <1>1, MergedInvHolds, PTL

(***************************************************************************)
(* A public serial does not pass from one device to another.               *)
(***************************************************************************)

\* Among plain serials the length of a public serial tells how it was made.
LEMMA PlainPublic ==
    ASSUME NEW ls \in Lists, Plain(ls), NEW i \in 1 .. Len(Parsed(ls))
    PROVE  LET d == Parsed(ls)[i]
               p == Merge(ls)[i].public
           IN  /\ d.serial \in Seq(STRING) /\ Len(d.serial) = 1
               /\ \/ Len(p) = 1 /\ p = d.serial /\ ~Conflict(Parsed(ls), i)
                  \/ Len(p) \in {2, 3} /\ p[1] = d.backend /\ p[2] = d.serial[1]
  <1> DEFINE parsed == Parsed(ls)
             d == parsed[i]
             p == Merge(ls)[i].public
             used == {Merge(ls)[j].public : j \in 1 .. i - 1}
  <1>1. p = Public(parsed, used, i)
    BY MergeFacts DEF Merged
  <1>2. d \in Line /\ d.backend \in Backend /\ \E j \in DOMAIN ls[d.backend] : ls[d.backend][j].serial = d.serial
    BY LineListed
  <1>3. Len(d.serial) = 1
    BY <1>2 DEF Plain
  <1>4. \/ p = d.serial /\ ~Conflict(parsed, i)
        \/ p = Prefixed(d)
        \/ p = Fallback(d, i)
    BY <1>1, PublicCases
  <1>5. parsed \in Seq(Line)
    BY ParsedFacts
  <1>6. i \in Nat \ {0}
    BY <1>5
  <1> HIDE DEF parsed, d, p
  <1>7. /\ d.serial \in Seq(STRING)
        /\ Len(Prefixed(d)) = 2 /\ Prefixed(d)[1] = d.backend /\ Prefixed(d)[2] = d.serial[1]
        /\ Len(Fallback(d, i)) = 3 /\ Fallback(d, i)[1] = d.backend /\ Fallback(d, i)[2] = d.serial[1]
    <2>1. /\ d.serial \in Seq(STRING)
          /\ Len(Prefixed(d)) = Len(d.serial) + 1
          /\ Prefixed(d)[1] = d.backend
          /\ \A k \in 1 .. Len(d.serial) : Prefixed(d)[k + 1] = d.serial[k]
          /\ Len(Fallback(d, i)) = Len(d.serial) + 2
          /\ \A k \in 1 .. Len(d.serial) + 1 : Fallback(d, i)[k] = Prefixed(d)[k]
      BY <1>2, <1>6, PublicParts
    <2>2. 1 \in 1 .. Len(d.serial) /\ 1 \in 1 .. Len(d.serial) + 1 /\ 2 \in 1 .. Len(d.serial) + 1 /\ 1 + 1 = 2
      BY <1>3
    <2>3. Prefixed(d)[2] = d.serial[1]
      BY <2>1, <2>2
    <2> QED BY <1>3, <2>1, <2>2, <2>3
  <1>8. \/ Len(p) = 1 /\ p = d.serial /\ ~Conflict(parsed, i)
        \/ Len(p) \in {2, 3} /\ p[1] = d.backend /\ p[2] = d.serial[1]
    BY <1>3, <1>4, <1>7
  <1> QED BY <1>3, <1>7, <1>8 DEF parsed, d, p

\* A serial that is not in conflict is listed by one backend.
LEMMA NoConflictOneBackend ==
    ASSUME NEW ls \in Lists, NEW i \in 1 .. Len(Parsed(ls)), ~Conflict(Parsed(ls), i),
           NEW b \in Backend, NEW j \in DOMAIN ls[b], ls[b][j].serial = Parsed(ls)[i].serial
    PROVE  b = Parsed(ls)[i].backend
  <1>1. PICK k \in 1 .. Len(Parsed(ls)) : Parsed(ls)[k].backend = b /\ Parsed(ls)[k].serial = ls[b][j].serial
    BY ListedLine
  <1>2. DOMAIN Parsed(ls) = 1 .. Len(Parsed(ls))
    BY ParsedFacts
  <1>3. k = i
    BY <1>1, <1>2 DEF Conflict
  <1> QED BY <1>1, <1>3

OneDiffers(ls, new) == \E r \in Backend : \A b \in Backend \ {r} : new[b] = ls[b]

\* The lists before and after the list of one backend changed.
LEMMA TargetKept ==
    ASSUME NEW ls \in Lists, NEW new \in Lists, OneDiffers(ls, new), Plain(ls), Plain(new),
           NEW i \in 1 .. Len(Parsed(ls)), NEW j \in 1 .. Len(Parsed(new)),
           Merge(ls)[i].public = Merge(new)[j].public
    PROVE  /\ Parsed(ls)[i].backend = Parsed(new)[j].backend
           /\ Parsed(ls)[i].serial = Parsed(new)[j].serial
  <1> DEFINE d == Parsed(ls)[i]
             e == Parsed(new)[j]
             p == Merge(ls)[i].public
  <1>1. /\ d.serial \in Seq(STRING) /\ Len(d.serial) = 1
        /\ \/ Len(p) = 1 /\ p = d.serial /\ ~Conflict(Parsed(ls), i)
           \/ Len(p) \in {2, 3} /\ p[1] = d.backend /\ p[2] = d.serial[1]
    BY PlainPublic
  <1>2. /\ e.serial \in Seq(STRING) /\ Len(e.serial) = 1
        /\ \/ Len(p) = 1 /\ p = e.serial /\ ~Conflict(Parsed(new), j)
           \/ Len(p) \in {2, 3} /\ p[1] = e.backend /\ p[2] = e.serial[1]
    BY PlainPublic
  <1>3. /\ d.backend \in Backend /\ \E k \in DOMAIN ls[d.backend] : ls[d.backend][k].serial = d.serial
        /\ e.backend \in Backend /\ \E k \in DOMAIN new[e.backend] : new[e.backend][k].serial = e.serial
    BY LineListed
  <1> HIDE DEF d, e, p
  <1>4. CASE Len(p) # 1
    <2>1. d.backend = e.backend /\ d.serial[1] = e.serial[1]
      BY <1>1, <1>2, <1>4
    <2>2. d.serial = e.serial
      BY <1>1, <1>2, <2>1
    <2> QED BY <2>1, <2>2 DEF d, e
  <1>5. CASE Len(p) = 1
    <2>1. d.serial = e.serial /\ ~Conflict(Parsed(ls), i) /\ ~Conflict(Parsed(new), j)
      BY <1>1, <1>2, <1>5
    <2>2. PICK r \in Backend : \A b \in Backend \ {r} : new[b] = ls[b]
      BY DEF OneDiffers
    <2>3. CASE d.backend # r
      <3>1. \E k \in DOMAIN new[d.backend] : new[d.backend][k].serial = e.serial
        BY <1>3, <2>1, <2>2, <2>3
      <3>2. d.backend = e.backend
        BY <1>3, <2>1, <3>1, NoConflictOneBackend DEF e
      <3> QED BY <2>1, <3>2 DEF d, e
    <2>4. CASE e.backend # r
      <3>1. \E k \in DOMAIN ls[e.backend] : ls[e.backend][k].serial = d.serial
        BY <1>3, <2>1, <2>2, <2>4
      <3>2. e.backend = d.backend
        BY <1>3, <2>1, <3>1, NoConflictOneBackend DEF d
      <3> QED BY <2>1, <3>2 DEF d, e
    <2> QED BY <2>1, <2>3, <2>4 DEF d, e
  <1> QED BY <1>4, <1>5

LEMMA RetargetStep ==
    ASSUME MergedInv, [Next]_vars, Plain(lists), Plain(lists'), OneListChanges,
           NEW i \in DOMAIN devices, NEW j \in DOMAIN devices', devices[i].public = devices'[j].public
    PROVE  devices[i].backend = devices'[j].backend /\ devices[i].upstream = devices'[j].upstream
  <1>1. MergedInv' /\ OneDiffers(lists, lists')
    BY MergedInvStep DEF OneListChanges, OneDiffers
  <1> DEFINE ls == lists
             new == lists'
             devs == devices
             next == devices'
  <1>2. ls \in Lists /\ new \in Lists /\ devs = Merge(ls) /\ next = Merge(new)
    BY <1>1 DEF MergedInv
  <1>3. OneDiffers(ls, new) /\ Plain(ls) /\ Plain(new) /\ devs[i].public = next[j].public
    BY <1>1
  <1>4. i \in DOMAIN devs /\ j \in DOMAIN next
    OBVIOUS
  <1> HIDE DEF ls, new, devs, next
  <1>5. Merged(devs, Parsed(ls)) /\ Merged(next, Parsed(new))
    BY <1>2, MergeFacts
  <1>6. i \in 1 .. Len(Parsed(ls)) /\ j \in 1 .. Len(Parsed(new))
    BY <1>4, <1>5 DEF Merged
  <1>7. /\ devs[i].backend = Parsed(ls)[i].backend /\ devs[i].upstream = Parsed(ls)[i].serial
        /\ next[j].backend = Parsed(new)[j].backend /\ next[j].upstream = Parsed(new)[j].serial
    BY <1>5, <1>6 DEF Merged
  <1>8. Merge(ls)[i].public = Merge(new)[j].public
    BY <1>2, <1>3
  <1>9. /\ Parsed(ls)[i].backend = Parsed(new)[j].backend
        /\ Parsed(ls)[i].serial = Parsed(new)[j].serial
    BY <1>2, <1>3, <1>6, <1>8, TargetKept
  <1> QED BY <1>7, <1>9 DEF devs, next

\* A client that holds a public serial gets the device it was shown or an error, after any
\* change of one backend's list, as long as no backend lists a serial that looks rewritten
\* (merge_device_lists: a serial goes bare only while one device has it, and the rewritten
\* one carries the name of its backend).
THEOREM NameNeverRetargetedAlways == Spec => NameNeverRetargeted
  <1>1. ASSUME MergedInv, [Next]_vars
        PROVE  [Plain(lists) /\ Plain(lists') /\ OneListChanges =>
                  \A i \in DOMAIN devices : \A j \in DOMAIN devices' :
                      devices[i].public = devices'[j].public =>
                          /\ devices[i].backend = devices'[j].backend
                          /\ devices[i].upstream = devices'[j].upstream]_vars
    BY <1>1, RetargetStep
  <1> QED BY <1>1, MergedInvHolds, PTL DEF Spec, NameNeverRetargeted

(***************************************************************************)
(* The device that is picked when the client names none.                   *)
(***************************************************************************)

\* Of two backends not both are preferred to the other.
LEMMA PreferredAsymmetric ==
    ASSUME NEW b, NEW c, Preferred(b, c)
    PROVE  b # c /\ ~Preferred(c, b)
  <1>1. CASE b = Local
    BY <1>1 DEF Preferred
  <1>2. CASE b # Local
    <2>1. PICK i \in DOMAIN Order, j \in DOMAIN Order : i < j /\ Order[i] = b /\ Order[j] = c
      BY <1>2 DEF Preferred
    <2>2. c # Local
      BY <1>2 DEF Preferred
    <2>3. ASSUME NEW k \in DOMAIN Order, NEW n \in DOMAIN Order, k < n, Order[k] = c, Order[n] = b
          PROVE  FALSE
      <3>1. k = j /\ n = i
        BY <2>1, <2>3, OrderFacts
      <3>2. i \in Nat /\ j \in Nat
        BY OrderFacts
      <3> QED BY <2>1, <2>3, <3>1, <3>2
    <2> QED BY <2>2, <2>3 DEF Preferred
  <1> QED BY <1>1, <1>2

\* walk goes through all the backends, the preferred ones first.
Walks(walk) ==
    /\ walk \in Seq(STRING)
    /\ \A b \in Backend : \E m \in 1 .. Len(walk) : walk[m] = b
    /\ \A m, n \in 1 .. Len(walk) : m < n => Preferred(walk[m], walk[n])

LEMMA WalkFacts ==
    ASSUME NEW devs \in Seq(Entry), \A i \in 1 .. Len(devs) : devs[i].backend \in Backend
    PROVE  Walks(WalkOrder(devs))
  <1> DEFINE S == Backend \ {Local}
             others == Select(Order, S)
             walk == WalkOrder(devs)
  <1>1. Order \in Seq(STRING)
    BY OrderAssumption
  <1>2. others \in Seq(STRING) /\ \E h : Places(h, others, Order, Len(Order), S)
    <2> HIDE DEF S
    <2> QED BY <1>1, SelectPlaces
  <1>3. PICK h : Places(h, others, Order, Len(Order), S)
    BY <1>2
  <1>4. Local \in Backend \cup {devs[i].backend : i \in DOMAIN devs} <=> Local \in Backend
    <2>1. DOMAIN devs = 1 .. Len(devs)
      OBVIOUS
    <2> QED BY <2>1, Zenon
  <1>5. walk = IF Local \in Backend THEN <<Local>> \o others ELSE others
    BY <1>4 DEF WalkOrder
  <1> HIDE DEF others, walk
  <1>6. Len(others) \in Nat
    BY <1>2
  <1>7. ASSUME NEW m \in 1 .. Len(others) PROVE others[m] # Local /\ h[m] \in DOMAIN Order /\ others[m] = Order[h[m]]
    BY <1>3, OrderFacts DEF Places
  <1>8. ASSUME NEW m \in 1 .. Len(others), NEW n \in 1 .. Len(others), m < n
        PROVE  Preferred(others[m], others[n])
    <2>1. h[m] \in DOMAIN Order /\ h[n] \in DOMAIN Order /\ h[m] < h[n]
      BY <1>3, <1>7, <1>8 DEF Places
    <2>2. h[m] # h[n]
      BY <2>1, OrderFacts
    <2>3. others[m] # others[n]
      BY <1>7, <2>1, <2>2, OrderFacts
    <2> QED BY <1>7, <2>1, <2>3 DEF Preferred
  <1>9. ASSUME NEW b \in Backend, b # Local PROVE \E m \in 1 .. Len(others) : others[m] = b
    <2>1. PICK k \in 1 .. Len(Order) : Order[k] = b
      BY OrderFacts
    <2>2. PICK m \in 1 .. Len(others) : h[m] = k
      BY <1>3, <1>9, <2>1 DEF Places
    <2> QED BY <1>7, <2>1, <2>2
  <1> SUFFICES Walks(walk)
    BY DEF walk
  <1>10. CASE Local \notin Backend
    <2>1. walk = others /\ \A b \in Backend : b # Local
      BY <1>5, <1>10
    <2> QED BY <1>2, <1>8, <1>9, <2>1 DEF Walks
  <1>11. CASE Local \in Backend
    <2>1. walk = <<Local>> \o others /\ Local \in STRING
      BY <1>5, <1>11, OrderFacts
    <2>2. /\ walk \in Seq(STRING) /\ Len(walk) = Len(others) + 1 /\ walk[1] = Local
          /\ \A m \in 1 .. Len(others) : walk[m + 1] = others[m]
      BY <1>2, <2>1
    <2>3. ASSUME NEW b \in Backend PROVE \E m \in 1 .. Len(walk) : walk[m] = b
      <3>1. CASE b = Local
        BY <1>6, <2>2, <3>1
      <3>2. CASE b # Local
        <4>1. PICK m \in 1 .. Len(others) : others[m] = b
          BY <1>9, <3>2
        <4>2. m + 1 \in 1 .. Len(walk)
          BY <1>6, <2>2
        <4> QED BY <2>2, <4>1, <4>2
      <3> QED BY <3>1, <3>2
    <2>4. ASSUME NEW m \in 1 .. Len(walk), NEW n \in 1 .. Len(walk), m < n PROVE Preferred(walk[m], walk[n])
      <3>1. n - 1 \in 1 .. Len(others) /\ (n - 1) + 1 = n
        BY <1>6, <2>2, <2>4
      <3>2. walk[n] = others[n - 1]
        BY <2>2, <3>1
      <3>3. CASE m = 1
        <4>1. walk[m] = Local /\ walk[n] # Local
          BY <1>7, <2>2, <3>1, <3>2, <3>3
        <4> QED BY <4>1 DEF Preferred
      <3>4. CASE m # 1
        <4>1. m - 1 \in 1 .. Len(others) /\ (m - 1) + 1 = m /\ m - 1 < n - 1
          BY <1>6, <2>2, <2>4, <3>4
        <4>2. walk[m] = others[m - 1]
          BY <2>2, <4>1
        <4> QED BY <1>8, <3>1, <3>2, <4>1, <4>2
      <3> QED BY <3>3, <3>4
    <2> QED BY <2>2, <2>3, <2>4 DEF Walks
  <1> QED BY <1>10, <1>11

\* Position i of devs holds a device of backend b that is online.
OnlineAt(devs, b, i) == i \in 1 .. Len(devs) /\ devs[i].backend = b /\ Online(devs[i])

\* The places of the devices of o, those of backend b that are online.
OnlinePlaces(h, o, devs, b) ==
    /\ \A k \in 1 .. Len(o) : OnlineAt(devs, b, h[k]) /\ o[k] = devs[h[k]]
    /\ \A k, n \in 1 .. Len(o) : k < n => h[k] # h[n]
    /\ \A i : OnlineAt(devs, b, i) => \E k \in 1 .. Len(o) : h[k] = i

\* What OnlineOn computes.
LEMMA OnlineOnFacts ==
    ASSUME NEW devs \in Seq(Entry), NEW b
    PROVE  /\ OnlineOn(devs, b) \in Seq(Entry)
           /\ \E h : OnlinePlaces(h, OnlineOn(devs, b), devs, b)
  <1> DEFINE S == {d \in ToSet(devs) : d.backend = b /\ Online(d)}
             o == Select(devs, S)
  <1>1. o \in Seq(Entry) /\ \E h : Places(h, o, devs, Len(devs), S)
    <2> HIDE DEF S
    <2> QED BY SelectPlaces
  <1>2. PICK h : Places(h, o, devs, Len(devs), S)
    BY <1>1
  <1>3. OnlineOn(devs, b) = o
    BY DEF OnlineOn
  <1> HIDE DEF o
  <1>4. \A k \in 1 .. Len(o) : OnlineAt(devs, b, h[k]) /\ o[k] = devs[h[k]]
    <2> SUFFICES ASSUME NEW k \in 1 .. Len(o) PROVE OnlineAt(devs, b, h[k]) /\ o[k] = devs[h[k]]
      OBVIOUS
    <2>1. h[k] \in 1 .. Len(devs) /\ o[k] = devs[h[k]] /\ o[k] \in S
      BY <1>2 DEF Places
    <2> QED BY <2>1 DEF OnlineAt
  <1>5. \A k, n \in 1 .. Len(o) : k < n => h[k] # h[n]
    <2> SUFFICES ASSUME NEW k \in 1 .. Len(o), NEW n \in 1 .. Len(o), k < n PROVE h[k] # h[n]
      OBVIOUS
    <2>1. h[k] < h[n] /\ h[k] \in Nat /\ h[n] \in Nat
      BY <1>2 DEF Places
    <2> QED BY <2>1
  <1>6. ASSUME NEW i, OnlineAt(devs, b, i) PROVE \E k \in 1 .. Len(o) : h[k] = i
    <2>1. i \in 1 .. Len(devs) /\ devs[i] \in S
      BY <1>6 DEF OnlineAt, ToSet
    <2> QED BY <1>2, <2>1 DEF Places
  <1>7. OnlinePlaces(h, o, devs, b)
    BY <1>4, <1>5, <1>6 DEF OnlinePlaces
  <1> QED BY <1>1, <1>3, <1>7

\* The backend whose devices are looked at: one with a device online, preferred to every
\* other that has one.
Chosen(devs, c) ==
    /\ \E i : OnlineAt(devs, c, i)
    /\ \A b : \A i : OnlineAt(devs, b, i) => b = c \/ Preferred(c, b)

\* The pick: none, or among the devices online of the chosen backend.
LEMMA PickCases ==
    ASSUME NEW devs \in Seq(Entry), \A i \in 1 .. Len(devs) : devs[i].backend \in Backend
    PROVE  \/ /\ PickPreferred(devs) = Failed("none")
              /\ \A b : \A i : ~OnlineAt(devs, b, i)
           \/ \E c : /\ Chosen(devs, c)
                     /\ PickPreferred(devs) = IF Len(OnlineOn(devs, c)) = 1
                                              THEN Found(Head(OnlineOn(devs, c))) ELSE Failed("many")
  <1> DEFINE walk == WalkOrder(devs)
             C == {b \in ToSet(walk) : OnlineOn(devs, b) # <<>>}
             candidates == Select(walk, C)
  <1>1. walk \in Seq(STRING)
    BY WalkFacts DEF Walks
  <1>2. /\ \A b \in Backend : \E m \in 1 .. Len(walk) : walk[m] = b
        /\ \A m, n \in 1 .. Len(walk) : m < n => Preferred(walk[m], walk[n])
    BY WalkFacts DEF Walks
  <1>3. PickPreferred(devs) = IF candidates = <<>> THEN Failed("none")
                              ELSE IF Len(OnlineOn(devs, Head(candidates))) = 1
                                   THEN Found(Head(OnlineOn(devs, Head(candidates)))) ELSE Failed("many")
    BY Zenon DEF PickPreferred
  <1> HIDE DEF walk
  <1>4. candidates \in Seq(STRING) /\ \E g : Places(g, candidates, walk, Len(walk), C)
    <2> HIDE DEF C
    <2> QED BY <1>1, SelectPlaces
  <1>5. PICK g : Places(g, candidates, walk, Len(walk), C)
    BY <1>4
  <1> HIDE DEF candidates
  <1>6. \A b : OnlineOn(devs, b) # <<>> <=> \E i : OnlineAt(devs, b, i)
    <2> SUFFICES ASSUME NEW b PROVE OnlineOn(devs, b) # <<>> <=> \E i : OnlineAt(devs, b, i)
      OBVIOUS
    <2> DEFINE o == OnlineOn(devs, b)
    <2>1. PICK h : OnlinePlaces(h, o, devs, b)
      BY OnlineOnFacts
    <2>2. o \in Seq(Entry)
      BY OnlineOnFacts
    <2> HIDE DEF o
    <2>3. o # <<>> => 1 \in 1 .. Len(o)
      BY <2>2
    <2>4. o = <<>> => \A k : k \notin 1 .. Len(o)
      OBVIOUS
    <2>5. o # <<>> <=> \E i : OnlineAt(devs, b, i)
      BY <2>1, <2>3, <2>4 DEF OnlinePlaces
    <2> QED BY <2>5 DEF o
  <1>7. ASSUME NEW b, NEW i, OnlineAt(devs, b, i)
        PROVE  \E k \in 1 .. Len(candidates) : b = walk[g[k]]
    <2>1. b \in Backend
      BY <1>7 DEF OnlineAt
    <2>2. PICK m \in 1 .. Len(walk) : walk[m] = b
      BY <1>2, <2>1
    <2>3. walk[m] \in C
      BY <1>1, <1>6, <1>7, <2>2 DEF ToSet
    <2> HIDE DEF C
    <2>4. PICK k \in 1 .. Len(candidates) : g[k] = m
      BY <1>5, <2>3 DEF Places
    <2> QED BY <2>2, <2>4
  <1>8. CASE candidates = <<>>
    <2>1. \A k : k \notin 1 .. Len(candidates)
      BY <1>8
    <2> QED BY <1>3, <1>7, <1>8, <2>1
  <1>9. CASE candidates # <<>>
    <2> DEFINE c == Head(candidates)
    <2>1. c = candidates[1] /\ 1 \in 1 .. Len(candidates) /\ Len(candidates) \in Nat
      BY <1>4, <1>9
    <2> HIDE DEF c
    <2>2. c = walk[g[1]] /\ c \in C
      BY <1>5, <2>1 DEF Places
    <2>3. \E i : OnlineAt(devs, c, i)
      BY <1>6, <2>2
    <2>4. ASSUME NEW b, NEW i, OnlineAt(devs, b, i) PROVE b = c \/ Preferred(c, b)
      <3>1. PICK k \in 1 .. Len(candidates) : b = walk[g[k]]
        BY <1>7, <2>4
      <3>2. CASE k = 1
        BY <2>2, <3>1, <3>2
      <3>3. CASE k # 1
        <4>1. 1 < k
          BY <2>1, <3>3
        <4>2. g[1] \in 1 .. Len(walk) /\ g[k] \in 1 .. Len(walk) /\ g[1] < g[k]
          BY <1>5, <2>1, <4>1 DEF Places
        <4> QED BY <1>2, <2>2, <3>1, <4>2
      <3> QED BY <3>2, <3>3
    <2>5. Chosen(devs, c)
      BY <2>3, <2>4 DEF Chosen
    <2>6. PickPreferred(devs) = IF Len(OnlineOn(devs, c)) = 1
                                THEN Found(Head(OnlineOn(devs, c))) ELSE Failed("many")
      BY <1>3, <1>9 DEF c
    <2> QED BY <2>5, <2>6
  <1> QED BY <1>8, <1>9

\* The best devices are the ones online of the chosen backend.
LEMMA BestIsChosen ==
    ASSUME NEW devs \in Seq(Entry), NEW c, Chosen(devs, c), NEW i
    PROVE  OnlineAt(devs, c, i) <=>
              /\ i \in 1 .. Len(devs) /\ Online(devs[i])
              /\ \A j \in 1 .. Len(devs) : Online(devs[j]) => ~Preferred(devs[j].backend, devs[i].backend)
  <1>1. ASSUME NEW j \in 1 .. Len(devs), Online(devs[j])
        PROVE  devs[j].backend = c \/ Preferred(c, devs[j].backend)
    BY <1>1 DEF Chosen, OnlineAt
  <1>2. ASSUME OnlineAt(devs, c, i), NEW j \in 1 .. Len(devs), Online(devs[j])
        PROVE  ~Preferred(devs[j].backend, devs[i].backend)
    <2>1. devs[i].backend = c
      BY <1>2 DEF OnlineAt
    <2>2. CASE devs[j].backend = c
      BY <2>1, <2>2 DEF Preferred
    <2>3. CASE Preferred(c, devs[j].backend)
      BY <2>1, <2>3, PreferredAsymmetric
    <2> QED BY <1>1, <1>2, <2>2, <2>3
  <1>3. ASSUME i \in 1 .. Len(devs), Online(devs[i]), devs[i].backend # c
        PROVE  \E j \in 1 .. Len(devs) : Online(devs[j]) /\ Preferred(devs[j].backend, devs[i].backend)
    <2>1. Preferred(c, devs[i].backend)
      BY <1>1, <1>3
    <2> QED BY <2>1 DEF Chosen, OnlineAt
  <1> QED BY <1>2, <1>3 DEF OnlineAt

\* pick_preferred does what its comment says.
PickRight(devs) ==
    LET online == {i \in DOMAIN devs : Online(devs[i])}
        best == {i \in online : \A j \in online : ~Preferred(devs[j].backend, devs[i].backend)}
        pick == PickPreferred(devs)
    IN  /\ pick.is = "none" <=> online = {}
        /\ pick.is = "many" <=> \E i, j \in best : i # j
        /\ pick.is = "device" => \E i \in best : pick.entry = devs[i]

LEMMA PickFacts ==
    ASSUME NEW devs \in Seq(Entry), \A i \in 1 .. Len(devs) : devs[i].backend \in Backend
    PROVE  PickRight(devs)
  <1> DEFINE online == {i \in DOMAIN devs : Online(devs[i])}
             best == {i \in online : \A j \in online : ~Preferred(devs[j].backend, devs[i].backend)}
             pick == PickPreferred(devs)
  <1>1. DOMAIN devs = 1 .. Len(devs)
    OBVIOUS
  <1>2. \A i : i \in online <=> OnlineAt(devs, devs[i].backend, i)
    BY <1>1 DEF OnlineAt
  <1>3. \A why : Failed(why).is = why
    BY DEF Failed
  <1>4. \A d : Found(d).is = "device" /\ Found(d).entry = d
    BY DEF Found
  <1> SUFFICES /\ pick.is = "none" <=> online = {}
               /\ pick.is = "many" <=> \E i, j \in best : i # j
               /\ pick.is = "device" => \E i \in best : pick.entry = devs[i]
    BY Zenon DEF PickRight
  <1>5. ASSUME pick = Failed("none"), \A b : \A i : ~OnlineAt(devs, b, i)
        PROVE  /\ pick.is = "none" <=> online = {}
               /\ pick.is = "many" <=> \E i, j \in best : i # j
               /\ pick.is = "device" => \E i \in best : pick.entry = devs[i]
    <2>1. pick.is = "none"
      BY <1>3, <1>5
    <2>2. \A i : i \notin online
      BY <1>2, <1>5
    <2> HIDE DEF pick
    <2> QED BY <2>1, <2>2
  <1>6. ASSUME NEW c, Chosen(devs, c),
               pick = IF Len(OnlineOn(devs, c)) = 1
                      THEN Found(Head(OnlineOn(devs, c))) ELSE Failed("many")
        PROVE  /\ pick.is = "none" <=> online = {}
               /\ pick.is = "many" <=> \E i, j \in best : i # j
               /\ pick.is = "device" => \E i \in best : pick.entry = devs[i]
    <2> DEFINE o == OnlineOn(devs, c)
    <2>1. o \in Seq(Entry) /\ \E h : OnlinePlaces(h, o, devs, c)
      BY OnlineOnFacts
    <2>2. PICK h : OnlinePlaces(h, o, devs, c)
      BY <2>1
    <2>3. \A i : i \in best <=> OnlineAt(devs, c, i)
      <3>1. ASSUME NEW i PROVE OnlineAt(devs, c, i) <=>
              /\ i \in 1 .. Len(devs) /\ Online(devs[i])
              /\ \A j \in 1 .. Len(devs) : Online(devs[j]) => ~Preferred(devs[j].backend, devs[i].backend)
        BY <1>6, BestIsChosen
      <3> QED BY <1>1, <3>1
    <2>4. best \in SUBSET online /\ \E i : i \in best
      BY <1>6, <2>3 DEF Chosen
    <2>5. pick = IF Len(o) = 1 THEN Found(Head(o)) ELSE Failed("many")
      BY <1>6
    <2> HIDE DEF o, best, online, pick
    <2>6. online # {}
      BY <2>4
    <2>7. \A i : i \in best <=> \E k \in 1 .. Len(o) : h[k] = i
      BY <2>2, <2>3 DEF OnlinePlaces
    <2>8. Len(o) \in Nat /\ Len(o) # 0
      <3>1. Len(o) \in Nat
        BY <2>1
      <3>2. \E k : k \in 1 .. Len(o)
        BY <2>4, <2>7
      <3> QED BY <3>1, <3>2
    <2>9. CASE Len(o) = 1
      <3>1. Head(o) = o[1] /\ o[1] = devs[h[1]] /\ h[1] \in best
        <4>1. 1 \in 1 .. Len(o)
          BY <2>9
        <4>2. Head(o) = o[1]
          BY <2>1, <2>9
        <4> QED BY <2>2, <2>7, <4>1, <4>2 DEF OnlinePlaces
      <3>2. \A k \in 1 .. Len(o) : k = 1
        BY <2>9
      <3>3. \A i, j \in best : i = j
        BY <2>7, <3>2
      <3>4. pick.is = "device" /\ pick.entry = devs[h[1]]
        BY <1>4, <2>5, <2>9, <3>1
      <3> QED BY <2>6, <3>1, <3>3, <3>4
    <2>10. CASE Len(o) # 1
      <3>1. 1 \in 1 .. Len(o) /\ 2 \in 1 .. Len(o) /\ 1 < 2
        <4>1. \A n \in Nat : n # 0 /\ n # 1 => 1 \in 1 .. n /\ 2 \in 1 .. n
          OBVIOUS
        <4>2. 1 < 2
          OBVIOUS
        <4> QED BY <2>8, <2>10, <4>1, <4>2
      <3>2. h[1] \in best /\ h[2] \in best /\ h[1] # h[2]
        BY <2>2, <2>7, <3>1 DEF OnlinePlaces
      <3>3. pick.is = "many"
        <4>1. pick = Failed("many")
          BY <2>5, <2>10
        <4> QED BY <4>1 DEF Failed
      <3> QED BY <2>6, <3>2, <3>3
    <2> QED BY <2>9, <2>10
  <1>7. \/ pick = Failed("none") /\ \A b : \A i : ~OnlineAt(devs, b, i)
        \/ \E c : /\ Chosen(devs, c)
                  /\ pick = IF Len(OnlineOn(devs, c)) = 1
                            THEN Found(Head(OnlineOn(devs, c))) ELSE Failed("many")
    BY PickCases
  <1> HIDE DEF pick, online, best
  <1> QED BY <1>5, <1>6, <1>7, Zenon

\* The device picked for a client that names none is the one of the comment in
\* pick_preferred: of the local backend first, then of the others in their order, and an
\* error when the first backend with devices online has more than one; whatever the
\* configuration, the lists and the policy are.
THEOREM PickIsPreferredAlways == Spec => []PickIsPreferred
  <1>1. ASSUME MergedInv PROVE PickIsPreferred
    <2>1. lists \in Lists /\ Merged(devices, Parsed(lists))
      BY <1>1, MergeFacts DEF MergedInv
    <2>2. \A k \in DOMAIN devices : devices[k].backend \in Backend
      <3> SUFFICES ASSUME NEW k \in DOMAIN devices PROVE devices[k].backend \in Backend
        OBVIOUS
      <3>1. k \in 1 .. Len(Parsed(lists))
        <4>1. devices \in Seq(Entry) /\ Len(devices) = Len(Parsed(lists))
          BY <2>1, Zenon DEF Merged
        <4>2. DOMAIN devices = 1 .. Len(devices)
          BY <4>1
        <4> QED BY <4>1, <4>2, Zenon
      <3>2. devices[k].backend = Parsed(lists)[k].backend
        BY <2>1, <3>1, Zenon DEF Merged
      <3> QED BY <2>1, <3>1, <3>2, LineListed
    <2>3. Snapshot \in Seq(Entry) /\ \A i \in 1 .. Len(Snapshot) : Snapshot[i].backend \in Backend
      BY <1>1, <2>2, SnapshotFacts
    <2>4. PickRight(Snapshot)
      BY <2>3, PickFacts
    <2> QED BY <2>4, Zenon DEF PickRight, PickIsPreferred
  <1> QED BY <1>1, MergedInvHolds, PTL
=============================================================================
