-------------------------- MODULE SiteAnswersProofs --------------------------
(***************************************************************************)
(* What a client's get relies on, for every document, every query, every    *)
(* list of permalinks and ids, every option, every text that is compared    *)
(* and every number of responses.                                           *)
(***************************************************************************)
EXTENDS SiteAnswers, SequenceTheorems, FiniteSetTheorems, TLAPS

-----------------------------------------------------------------------------
(* Sequences and numbers.                                                   *)

(* A set of natural numbers that is not empty has a least element. *)
LEMMA LeastNat == ASSUME NEW T \in SUBSET Nat, T # {} PROVE \E x \in T : \A y \in T : x <= y
<1> DEFINE R == OpToRel(<, Nat)
<1>1. IsWellFoundedOn(R, Nat)
  BY NatLessThanWellFounded
<1>2. \A x, y \in Nat : <<x, y>> \in R <=> x < y
  BY DEF OpToRel
<1> HIDE DEF R
<1>3. PICK x \in T : \A y \in T : ~(<<y, x>> \in R)
  BY <1>1, WFMin
<1>4. \A y \in T : x \in Nat /\ y \in Nat /\ ~(y < x)
  BY <1>2, <1>3
<1>5. \A y \in T : x <= y
  BY <1>4
<1> QED BY <1>5

(* Values computed one from the other: `step` gives the next one.           *)
Iterates(f, first, step) == f[0] = first /\ \A n \in Nat : f[n + 1] = step[n][f[n]]

(* A value for every natural number, each computed from the one before it. *)
LEMMA Recursion ==
  ASSUME NEW V, NEW first \in V, NEW step \in [Nat -> [V -> V]]
  PROVE  \E f \in [Nat -> V] : Iterates(f, first, step)
<1> DEFINE Starts(n, g) == g[0] = first /\ \A i \in 0 .. n - 1 : g[i + 1] = step[i][g[i]]
           Bad == {n \in Nat : ~\E g \in [0 .. n -> V] : Starts(n, g)}
<1>1. Bad = {}
  <2> SUFFICES ASSUME Bad # {} PROVE FALSE
    OBVIOUS
  <2>1. PICK n \in Bad : \A m \in Bad : n <= m
    BY LeastNat
  <2>2. n \in Nat /\ ~\E g \in [0 .. n -> V] : Starts(n, g)
    BY <2>1
  <2>3. CASE n = 0
    <3> DEFINE g == [i \in 0 .. 0 |-> first]
    <3>1. g \in [0 .. n -> V] /\ Starts(n, g)
      BY <2>3
    <3> QED BY <2>2, <3>1
  <2>4. CASE n # 0
    <3>1. n - 1 \in Nat /\ n - 1 \notin Bad
      <4>1. n - 1 \in Nat /\ ~(n <= n - 1)
        BY <2>2, <2>4
      <4> HIDE DEF Bad
      <4> QED BY <2>1, <4>1
    <3>2. PICK g \in [0 .. n - 1 -> V] : Starts(n - 1, g)
      BY <3>1
    <3> DEFINE h == [i \in 0 .. n |-> IF i = n THEN step[n - 1][g[n - 1]] ELSE g[i]]
    <3>3. n - 1 \in 0 .. n - 1 /\ step[n - 1][g[n - 1]] \in V
      BY <3>1, <3>2
    <3>4. h \in [0 .. n -> V]
      BY <2>2, <3>2, <3>3
    <3>5. h[0] = first
      BY <2>2, <2>4, <3>2
    <3>6. ASSUME NEW i \in 0 .. n - 1 PROVE h[i + 1] = step[i][h[i]]
      <4>1. i \in Nat /\ i # n /\ h[i] = g[i]
        BY <2>2, <3>6
      <4>2. CASE i = n - 1
        BY <2>2, <4>1, <4>2
      <4>3. CASE i # n - 1
        <5>1. i \in 0 .. (n - 1) - 1 /\ i + 1 \in 0 .. n /\ i + 1 # n
          BY <2>2, <3>6, <4>3
        <5>2. g[i + 1] = step[i][g[i]]
          BY <3>2, <5>1
        <5> QED BY <4>1, <5>1, <5>2
      <4> QED BY <4>2, <4>3
    <3> HIDE DEF h
    <3> QED BY <2>2, <3>4, <3>5, <3>6
  <2> QED BY <2>3, <2>4
<1>2. \A n \in Nat : \E g \in [0 .. n -> V] : Starts(n, g)
  BY <1>1
<1>3. ASSUME NEW n \in Nat, NEW m \in Nat, n <= m, NEW g \in [0 .. n -> V], Starts(n, g),
             NEW h \in [0 .. m -> V], Starts(m, h)
      PROVE  g[n] = h[n]
  <2> DEFINE Differ == {i \in 0 .. n : g[i] # h[i]}
  <2>1. Differ = {}
    <3> SUFFICES ASSUME Differ # {} PROVE FALSE
      OBVIOUS
    <3>1. Differ \in SUBSET Nat
      OBVIOUS
    <3>2. PICK i \in Differ : \A k \in Differ : i <= k
      BY <3>1, LeastNat
    <3>3. i # 0
      BY <1>3, <3>2
    <3>4. i - 1 \in 0 .. n - 1 /\ i - 1 \in 0 .. m - 1 /\ i - 1 \in 0 .. n /\ i - 1 \notin Differ /\ i = (i - 1) + 1
      BY <1>3, <3>2, <3>3
    <3>5. g[i - 1] = h[i - 1]
      BY <3>4
    <3>6. g[i] = step[i - 1][g[i - 1]] /\ h[i] = step[i - 1][h[i - 1]]
      BY <1>3, <3>4
    <3> QED BY <3>2, <3>5, <3>6
  <2> QED BY <2>1
<1> DEFINE G(n) == CHOOSE g \in [0 .. n -> V] : Starts(n, g)
           f == [n \in Nat |-> G(n)[n]]
<1>4. \A n \in Nat : G(n) \in [0 .. n -> V] /\ Starts(n, G(n))
  BY <1>2
<1> HIDE DEF G
<1>5. f \in [Nat -> V]
  BY <1>4
<1>6. f[0] = first
  BY <1>4
<1>7. ASSUME NEW n \in Nat PROVE f[n + 1] = step[n][f[n]]
  <2>1. Starts(n + 1, G(n + 1)) /\ n \in 0 .. (n + 1) - 1
    BY <1>4
  <2>2. G(n + 1)[n + 1] = step[n][G(n + 1)[n]]
    BY <2>1
  <2>3. G(n)[n] = G(n + 1)[n]
    <3> HIDE DEF Starts
    <3>1. n + 1 \in Nat /\ n <= n + 1
      OBVIOUS
    <3> QED BY <1>3, <1>4, <3>1
  <2> QED BY <2>2, <2>3
<1> HIDE DEF f
<1> QED BY <1>5, <1>6, <1>7 DEF Iterates

(* What has been put together behind the first sequences of ss. *)
Joins(f, ss, n) == f[0] = <<>> /\ \A i \in 1 .. n : f[i] = f[i - 1] \o ss[i]

(* The empty sequence adds nothing. *)
LEMMA JoinOne == ASSUME NEW S, NEW s \in Seq(S) PROVE <<>> \o s = s /\ s \o <<>> = s
BY ConcatEmptySeq

(* FlattenSeq puts the sequences together one after the other. *)
LEMMA Flattened ==
  ASSUME NEW S, NEW n \in Nat, NEW ss \in [1 .. n -> Seq(S)]
  PROVE  \E f \in [Nat -> Seq(S)] : Joins(f, ss, n) /\ FlattenSeq(ss) = f[n]
<1> DEFINE V == Seq(S)
           step == [i \in Nat |-> [v \in V |-> IF i + 1 <= n THEN v \o ss[i + 1] ELSE v]]
<1>1. <<>> \in V
  BY EmptySeq
<1>2. step \in [Nat -> [V -> V]]
  <2>1. ASSUME NEW i \in Nat, NEW v \in V PROVE (IF i + 1 <= n THEN v \o ss[i + 1] ELSE v) \in V
    <3>1. CASE i + 1 <= n
      <4>1. ss[i + 1] \in V
        BY <3>1
      <4> QED BY <3>1, <4>1, ConcatProperties
    <3> QED BY <3>1
  <2> HIDE DEF V
  <2> QED BY <2>1
<1>3. PICK f \in [Nat -> V] : f[0] = <<>> /\ \A i \in Nat : f[i + 1] = step[i][f[i]]
  <2> HIDE DEF V, step
  <2>1. \E g \in [Nat -> V] : Iterates(g, <<>>, step)
    BY <1>1, <1>2, Recursion
  <2> QED BY <2>1 DEF Iterates
<1>4. ASSUME NEW i \in 1 .. n PROVE f[i] = f[i - 1] \o ss[i]
  <2>1. i - 1 \in Nat /\ (i - 1) + 1 = i /\ i <= n
    BY <1>4
  <2>2. f[i] = step[i - 1][f[i - 1]] /\ f[i - 1] \in V
    BY <1>3, <2>1
  <2> HIDE DEF V
  <2> QED BY <2>1, <2>2
<1>5. Joins(f, ss, n)
  BY <1>3, <1>4 DEF Joins
<1>6. DOMAIN ss = 1 .. n /\ Len(ss) = n /\ ss \in Seq(Seq(S))
  <2>1. ss \in Seq(Seq(S))
    BY SeqDef
  <2> QED BY <2>1, LenProperties
<1> DEFINE F == CHOOSE g : g = [i \in 1 .. Len(ss) |-> IF i = 1 THEN ss[i] ELSE g[i - 1] \o ss[i]]
<1>7. FlattenSeq(ss) = IF Len(ss) = 0 THEN ss ELSE F[Len(ss)]
  BY DEF FlattenSeq
<1>8. CASE n = 0
  BY <1>3, <1>5, <1>6, <1>7, <1>8, EmptySeq
<1>9. CASE n # 0
  <2> DEFINE h == [i \in 1 .. n |-> f[i]]
  <2>1. \A i \in 1 .. n : h[i] = IF i = 1 THEN ss[i] ELSE h[i - 1] \o ss[i]
    <3> SUFFICES ASSUME NEW i \in 1 .. n PROVE h[i] = IF i = 1 THEN ss[i] ELSE h[i - 1] \o ss[i]
      OBVIOUS
    <3>1. CASE i = 1
      <4>1. f[1] = <<>> \o ss[1] /\ ss[1] \in Seq(S)
        <5>1. 1 \in 1 .. n /\ 1 - 1 = 0
          BY <3>1
        <5>2. f[1] = f[1 - 1] \o ss[1]
          BY <1>4, <5>1
        <5>3. f[1 - 1] = <<>>
          BY <1>3, <5>1
        <5>4. ss[1] \in Seq(S)
          BY <5>1
        <5> HIDE DEF V, step, F, h
        <5> QED BY <5>2, <5>3, <5>4
      <4> QED BY <3>1, <4>1, JoinOne
    <3>2. CASE i # 1
      <4>1. i - 1 \in 1 .. n
        BY <3>2
      <4>2. f[i] = f[i - 1] \o ss[i]
        BY <1>4
      <4>3. h[i] = f[i] /\ h[i - 1] = f[i - 1]
        BY <4>1
      <4> HIDE DEF h
      <4> QED BY <3>2, <4>2, <4>3
    <3> QED BY <3>1, <3>2
  <2>2. h = [i \in 1 .. Len(ss) |-> IF i = 1 THEN ss[i] ELSE h[i - 1] \o ss[i]]
    BY <1>6, <2>1
  <2>3. F = [i \in 1 .. Len(ss) |-> IF i = 1 THEN ss[i] ELSE F[i - 1] \o ss[i]]
    <3> HIDE DEF h
    <3> QED BY <2>2
  <2>4. \A i \in 1 .. n : F[i] = IF i = 1 THEN ss[i] ELSE F[i - 1] \o ss[i]
    <3> HIDE DEF F
    <3> QED BY <1>6, <2>3
  <2> HIDE DEF F
  <2> DEFINE Differ == {i \in 1 .. n : F[i] # h[i]}
  <2>5. Differ = {}
    <3> SUFFICES ASSUME Differ # {} PROVE FALSE
      OBVIOUS
    <3>1. PICK i \in Differ : \A k \in Differ : i <= k
      <4>1. Differ \in SUBSET Nat
        OBVIOUS
      <4> HIDE DEF Differ
      <4> QED BY <4>1, LeastNat
    <3>2. i # 1
      BY <2>1, <2>4, <3>1
    <3>3. i - 1 \in 1 .. n /\ i - 1 \notin Differ
      BY <3>1, <3>2
    <3>4. F[i - 1] = h[i - 1]
      BY <3>3
    <3>5. F[i] = F[i - 1] \o ss[i] /\ h[i] = h[i - 1] \o ss[i]
      <4> HIDE DEF h
      <4> QED BY <2>1, <2>4, <3>1, <3>2
    <3> QED BY <3>1, <3>4, <3>5
  <2>6. F[n] = f[n]
    <3>1. n \in 1 .. n
      BY <1>9
    <3>2. n \notin Differ
      BY <2>5
    <3> QED BY <3>1, <3>2
  <2> QED BY <1>5, <1>6, <1>7, <1>9, <2>6
<1> QED BY <1>8, <1>9

Distinct(s) == \A i, j \in DOMAIN s : s[i] = s[j] => i = j

(* The elements of two sequences put together. *)
LEMMA Joined ==
  ASSUME NEW S, NEW s \in Seq(S), NEW t \in Seq(S)
  PROVE  /\ s \o t \in Seq(S) /\ DOMAIN (s \o t) = 1 .. Len(s) + Len(t) /\ Len(s \o t) = Len(s) + Len(t)
         /\ DOMAIN s = 1 .. Len(s) /\ DOMAIN t = 1 .. Len(t) /\ Len(s) \in Nat /\ Len(t) \in Nat
         /\ \A k \in DOMAIN s : k \in DOMAIN (s \o t) /\ (s \o t)[k] = s[k]
         /\ \A k \in DOMAIN t : Len(s) + k \in DOMAIN (s \o t) /\ (s \o t)[Len(s) + k] = t[k]
         /\ \A k \in DOMAIN (s \o t) : k \in DOMAIN s \/ (k - Len(s) \in DOMAIN t /\ k = Len(s) + (k - Len(s)))
<1>1. Len(s) \in Nat /\ Len(t) \in Nat /\ DOMAIN s = 1 .. Len(s) /\ DOMAIN t = 1 .. Len(t)
  BY LenProperties
<1>2. /\ s \o t \in Seq(S) /\ Len(s \o t) = Len(s) + Len(t)
      /\ \A k \in 1 .. Len(s) + Len(t) : (s \o t)[k] = IF k <= Len(s) THEN s[k] ELSE t[k - Len(s)]
  BY ConcatProperties
<1>3. DOMAIN (s \o t) = 1 .. Len(s) + Len(t)
  BY <1>2, LenProperties
<1>4. \A k \in DOMAIN s : k \in DOMAIN (s \o t) /\ (s \o t)[k] = s[k]
  BY <1>1, <1>2, <1>3
<1>5. ASSUME NEW k \in DOMAIN t PROVE Len(s) + k \in DOMAIN (s \o t) /\ (s \o t)[Len(s) + k] = t[k]
  <2>1. Len(s) + k \in 1 .. Len(s) + Len(t) /\ ~(Len(s) + k <= Len(s)) /\ (Len(s) + k) - Len(s) = k
    BY <1>1
  <2> QED BY <1>2, <1>3, <2>1
<1>6. \A k \in DOMAIN (s \o t) : k \in DOMAIN s \/ (k - Len(s) \in DOMAIN t /\ k = Len(s) + (k - Len(s)))
  BY <1>1, <1>3
<1> QED BY <1>1, <1>2, <1>3, <1>4, <1>5, <1>6

(* Nothing is lost and nothing is added when two sequences are put          *)
(* together.                                                                *)
LEMMA JoinedRange ==
  ASSUME NEW S, NEW s \in Seq(S), NEW t \in Seq(S)
  PROVE  Range(s \o t) = Range(s) \cup Range(t)
<1>1. Range(s) \cup Range(t) \subseteq Range(s \o t)
  <2>1. \A k \in DOMAIN s : s[k] \in Range(s \o t)
    BY Joined DEF Range
  <2>2. ASSUME NEW k \in DOMAIN t PROVE t[k] \in Range(s \o t)
    <3>1. Len(s) + k \in DOMAIN (s \o t) /\ (s \o t)[Len(s) + k] = t[k]
      BY Joined
    <3> QED BY <3>1 DEF Range
  <2> QED BY <2>1, <2>2 DEF Range
<1>2. ASSUME NEW k \in DOMAIN (s \o t) PROVE (s \o t)[k] \in Range(s) \cup Range(t)
  <2>1. CASE k \in DOMAIN s
    BY <2>1, Joined DEF Range
  <2>2. CASE k \notin DOMAIN s
    <3> DEFINE m == k - Len(s)
    <3>1. m \in DOMAIN t /\ k = Len(s) + m
      BY <2>2, Joined
    <3>2. (s \o t)[k] = t[m]
      BY <3>1, Joined
    <3> QED BY <3>1, <3>2 DEF Range
  <2> QED BY <2>1, <2>2
<1> QED BY <1>1, <1>2 DEF Range

(* Nor does anything come twice, if the two have nothing in common. *)
LEMMA JoinedDistinct ==
  ASSUME NEW S, NEW s \in Seq(S), NEW t \in Seq(S), Distinct(s), Distinct(t), Range(s) \cap Range(t) = {}
  PROVE  Distinct(s \o t)
<1> SUFFICES ASSUME NEW i \in DOMAIN (s \o t), NEW j \in DOMAIN (s \o t), (s \o t)[i] = (s \o t)[j] PROVE i = j
  BY DEF Distinct
<1> DEFINE At(k, x) == \/ k \in DOMAIN s /\ x = s[k]
                       \/ k - Len(s) \in DOMAIN t /\ x = t[k - Len(s)] /\ k = Len(s) + (k - Len(s))
<1>1. \A k \in DOMAIN (s \o t) : At(k, (s \o t)[k])
  BY Joined
<1>2. At(i, (s \o t)[i]) /\ At(j, (s \o t)[i])
  BY <1>1
<1>3. \A a \in DOMAIN s, b \in DOMAIN t : s[a] # t[b]
  BY DEF Range
<1>4. CASE i \in DOMAIN s /\ j \in DOMAIN s /\ s[i] = s[j]
  BY <1>4 DEF Distinct
<1>5. CASE /\ i - Len(s) \in DOMAIN t /\ j - Len(s) \in DOMAIN t /\ t[i - Len(s)] = t[j - Len(s)]
           /\ i = Len(s) + (i - Len(s)) /\ j = Len(s) + (j - Len(s))
  <2>1. i - Len(s) = j - Len(s)
    BY <1>5 DEF Distinct
  <2> QED BY <1>5, <2>1
<1> QED BY <1>2, <1>3, <1>4, <1>5

(* Induction: a set that holds the first number and with each the next.     *)
LEMMA Segment ==
  ASSUME NEW i \in Int, i >= 1
  PROVE  (\A j \in 1 .. i : j \in 1 .. i - 1 \/ j = i) /\ (\A j \in 1 .. i - 1 : j \in 1 .. i) /\ i \in 1 .. i
OBVIOUS

(* Induction from a to n over membership of a set. *)
LEMMA UpTo ==
  ASSUME NEW a \in Nat, NEW n \in Nat, a <= n, NEW T, a \in T, \A i \in a + 1 .. n : i - 1 \in T => i \in T
  PROVE  n \in T
<1> DEFINE Bad == {i \in a .. n : i \notin T}
<1> SUFFICES ASSUME n \notin T PROVE FALSE
  OBVIOUS
<1>1. Bad \in SUBSET Nat /\ Bad # {}
  <2>1. n \in Bad
    OBVIOUS
  <2> QED BY <2>1
<1>2. PICK i \in Bad : \A k \in Bad : i <= k
  <2> HIDE DEF Bad
  <2> QED BY <1>1, LeastNat
<1>3. i \in a + 1 .. n /\ i - 1 \in a .. n /\ ~(i <= i - 1)
  <2>1. i \in a .. n /\ i # a
    BY <1>2
  <2> QED BY <2>1
<1>4. i - 1 \notin Bad
  <2> HIDE DEF Bad
  <2> QED BY <1>2, <1>3
<1>5. i - 1 \in T
  BY <1>3, <1>4
<1> QED BY <1>2, <1>3, <1>5

(* What holds for the first sequences holds for all of them. *)
LEMMA FlattenSeqIs ==
  ASSUME NEW S, NEW n \in Nat, NEW ss \in [1 .. n -> Seq(S)]
  PROVE  /\ FlattenSeq(ss) \in Seq(S)
         /\ \A x : x \in Range(FlattenSeq(ss)) <=> \E i \in 1 .. n : x \in Range(ss[i])
<1>1. PICK f \in [Nat -> Seq(S)] : Joins(f, ss, n) /\ FlattenSeq(ss) = f[n]
  BY Flattened
<1> DEFINE Good(i) == \A x : x \in Range(f[i]) <=> \E j \in 1 .. i : x \in Range(ss[j])
           T == {i \in 0 .. n : Good(i)}
<1>2. 0 \in T
  <2>1. f[0] = <<>>
    BY <1>1 DEF Joins
  <2>2. Range(f[0]) = {}
    BY <2>1 DEF Range
  <2>3. 1 .. 0 = {}
    OBVIOUS
  <2> QED BY <2>2, <2>3
<1>3. ASSUME NEW i \in 0 + 1 .. n, i - 1 \in T PROVE i \in T
  <2>3. i \in 0 .. n /\ i \in 1 .. n /\ i - 1 \in Nat
    BY <1>3
  <2>4. \A x : x \in Range(f[i - 1]) <=> \E j \in 1 .. i - 1 : x \in Range(ss[j])
    BY <1>3
  <2>5. f[i] = f[i - 1] \o ss[i] /\ f[i - 1] \in Seq(S) /\ ss[i] \in Seq(S)
    BY <1>1, <2>3 DEF Joins
  <2>6. Range(f[i]) = Range(f[i - 1]) \cup Range(ss[i])
    BY <2>5, JoinedRange
  <2>7. (\A j \in 1 .. i : j \in 1 .. i - 1 \/ j = i) /\ (\A j \in 1 .. i - 1 : j \in 1 .. i) /\ i \in 1 .. i
    BY <2>3, Segment
  <2>8. \A x : x \in Range(f[i]) <=> \E j \in 1 .. i : x \in Range(ss[j])
    BY <2>4, <2>6, <2>7
  <2> QED BY <2>3, <2>8
<1>10. n \in T
  <2>1. 0 \in Nat /\ 0 <= n
    OBVIOUS
  <2> HIDE DEF T
  <2> QED BY <1>2, <1>3, <2>1, UpTo
<1> QED BY <1>1, <1>10

(* Lists without repetition that have nothing in common give one without    *)
(* repetition.                                                              *)
LEMMA FlattenDistinct ==
  ASSUME NEW S, NEW n \in Nat, NEW ss \in [1 .. n -> Seq(S)],
         \A i \in 1 .. n : Distinct(ss[i]),
         \A i, j \in 1 .. n : i # j => Range(ss[i]) \cap Range(ss[j]) = {}
  PROVE  Distinct(FlattenSeq(ss))
<1>1. PICK f \in [Nat -> Seq(S)] : Joins(f, ss, n) /\ FlattenSeq(ss) = f[n]
  BY Flattened
<1> DEFINE Good(i) == Distinct(f[i]) /\ \A x \in Range(f[i]) : \E j \in 1 .. i : x \in Range(ss[j])
           T == {i \in 0 .. n : Good(i)}
<1>2. 0 \in T
  <2>1. f[0] = <<>>
    BY <1>1 DEF Joins
  <2>2. Good(0)
    BY <2>1 DEF Range, Distinct
  <2> QED BY <2>2
<1>3. ASSUME NEW i \in 0 + 1 .. n, i - 1 \in T PROVE i \in T
  <2>3. i \in 0 .. n /\ i \in 1 .. n /\ i - 1 \in Nat
    BY <1>3
  <2>4. Good(i - 1)
    BY <1>3
  <2>5. f[i] = f[i - 1] \o ss[i] /\ f[i - 1] \in Seq(S) /\ ss[i] \in Seq(S)
    BY <1>1, <2>3 DEF Joins
  <2>6. Range(f[i]) = Range(f[i - 1]) \cup Range(ss[i])
    BY <2>5, JoinedRange
  <2>7. (\A j \in 1 .. i : j \in 1 .. i - 1 \/ j = i) /\ (\A j \in 1 .. i - 1 : j \in 1 .. i) /\ i \in 1 .. i
    BY <2>3, Segment
  <2>8. \A x \in Range(f[i]) : \E j \in 1 .. i : x \in Range(ss[j])
    BY <2>4, <2>6, <2>7
  <2>9. Range(f[i - 1]) \cap Range(ss[i]) = {}
    <3>1. \A j \in 1 .. i - 1 : j \in 1 .. n /\ j # i
      BY <2>3
    <3>2. \A j \in 1 .. i - 1 : Range(ss[j]) \cap Range(ss[i]) = {}
      BY <2>3, <3>1
    <3> QED BY <2>4, <3>2
  <2>10. Distinct(f[i])
    BY <2>3, <2>4, <2>5, <2>9, JoinedDistinct
  <2> QED BY <2>3, <2>8, <2>10
<1>10. n \in T
  <2>1. 0 \in Nat /\ 0 <= n
    OBVIOUS
  <2> HIDE DEF T
  <2> QED BY <1>2, <1>3, <2>1, UpTo
<1> QED BY <1>1, <1>10

(* A first sequence of one element, and a last one. *)
LEMMA FlattenFirst ==
  ASSUME NEW S, NEW n \in Nat \ {0}, NEW ss \in [1 .. n -> Seq(S)], NEW x, ss[1] = <<x>>
  PROVE  Len(FlattenSeq(ss)) >= 1 /\ FlattenSeq(ss)[1] = x
<1>0. n \in Nat /\ 1 \in 1 .. n /\ 1 - 1 = 0
  OBVIOUS
<1>1. PICK f \in [Nat -> Seq(S)] : Joins(f, ss, n) /\ FlattenSeq(ss) = f[n]
  BY <1>0, Flattened
<1> DEFINE Good(i) == 1 \in DOMAIN f[i] /\ f[i][1] = x
           T == {i \in 1 .. n : Good(i)}
<1>2. 1 \in T
  <2>1. f[0] = <<>> /\ f[1] = f[0] \o ss[1] /\ ss[1] \in Seq(S)
    BY <1>0, <1>1 DEF Joins
  <2>2. f[1] = <<x>>
    BY <2>1, JoinOne
  <2>3. Good(1)
    BY <2>2
  <2> QED BY <2>3
<1>3. ASSUME NEW i \in 1 + 1 .. n, i - 1 \in T PROVE i \in T
  <2>3. i \in 1 .. n /\ i \in 1 .. n /\ i - 1 \in Nat
    BY <1>3
  <2>4. Good(i - 1)
    BY <1>3
  <2>5. f[i] = f[i - 1] \o ss[i] /\ f[i - 1] \in Seq(S) /\ ss[i] \in Seq(S)
    BY <1>1, <2>3 DEF Joins
  <2>6. Good(i)
    BY <2>4, <2>5, Joined
  <2> QED BY <2>3, <2>6
<1>10. n \in T
  <2>1. 1 \in Nat /\ 1 <= n
    OBVIOUS
  <2> HIDE DEF T
  <2> QED BY <1>2, <1>3, <2>1, UpTo
<1>4. FlattenSeq(ss) \in Seq(S) /\ 1 \in DOMAIN FlattenSeq(ss) /\ FlattenSeq(ss)[1] = x
  BY <1>1, <1>10
<1> QED BY <1>4, LenProperties

(* The last sequence of one element is the end. *)
LEMMA FlattenLast ==
  ASSUME NEW S, NEW n \in Nat \ {0}, NEW ss \in [1 .. n -> Seq(S)], NEW x, ss[n] = <<x>>
  PROVE  Len(FlattenSeq(ss)) >= 1 /\ FlattenSeq(ss)[Len(FlattenSeq(ss))] = x
<1>1. PICK f \in [Nat -> Seq(S)] : Joins(f, ss, n) /\ FlattenSeq(ss) = f[n]
  BY Flattened
<1>2. n \in 1 .. n /\ n - 1 \in Nat
  OBVIOUS
<1>3. f[n] = f[n - 1] \o <<x>> /\ f[n - 1] \in Seq(S) /\ <<x>> \in Seq(S)
  BY <1>1, <1>2 DEF Joins
<1>4. Len(f[n]) = Len(f[n - 1]) + Len(<<x>>) /\ Len(<<x>>) = 1 /\ 1 \in DOMAIN <<x>> /\ <<x>>[1] = x
  BY <1>3, Joined
<1>5. f[n][Len(f[n - 1]) + 1] = x /\ Len(f[n - 1]) \in Nat
  BY <1>3, <1>4, Joined
<1> QED BY <1>1, <1>4, <1>5

(* Nothing is left out. *)
LEMMA FlattenAll ==
  ASSUME NEW S, NEW n \in Nat, NEW s \in [1 .. n -> S], NEW ss \in [1 .. n -> Seq(S)],
         \A i \in 1 .. n : ss[i] = <<s[i]>>
  PROVE  FlattenSeq(ss) = s
<1>1. PICK f \in [Nat -> Seq(S)] : Joins(f, ss, n) /\ FlattenSeq(ss) = f[n]
  BY Flattened
<1> DEFINE Good(i) == Len(f[i]) = i /\ \A k \in 1 .. i : f[i][k] = s[k]
           T == {i \in 0 .. n : Good(i)}
<1>2. 0 \in T
  <2>1. f[0] = <<>>
    BY <1>1 DEF Joins
  <2>2. Good(0)
    BY <2>1
  <2> QED BY <2>2
<1>3. ASSUME NEW i \in 0 + 1 .. n, i - 1 \in T PROVE i \in T
  <2>3. i \in 0 .. n /\ i \in 1 .. n /\ i - 1 \in Nat
    BY <1>3
  <2>4. Good(i - 1)
    BY <1>3
  <2>5. f[i] = f[i - 1] \o <<s[i]>> /\ f[i - 1] \in Seq(S) /\ <<s[i]>> \in Seq(S)
    BY <1>1, <2>3 DEF Joins
  <2>6. Len(<<s[i]>>) = 1 /\ <<s[i]>>[1] = s[i]
    OBVIOUS
  <2>7. /\ Len(f[i]) = i /\ DOMAIN f[i - 1] = 1 .. i - 1
        /\ \A k \in 1 .. i - 1 : f[i][k] = f[i - 1][k]
    BY <2>3, <2>4, <2>5, <2>6, Joined
  <2>8. f[i][i] = s[i]
    <3>1. 1 \in DOMAIN <<s[i]>> /\ (i - 1) + 1 = i
      BY <2>3
    <3>2. f[i][Len(f[i - 1]) + 1] = <<s[i]>>[1]
      BY <2>5, <3>1, Joined
    <3> QED BY <2>4, <2>6, <3>1, <3>2
  <2>9. Good(i)
    <3>1. \A k \in 1 .. i : k \in 1 .. i - 1 \/ k = i
      BY <2>3
    <3> QED BY <2>4, <2>7, <2>8, <3>1
  <2> QED BY <2>3, <2>9
<1>10. n \in T
  <2>1. 0 \in Nat /\ 0 <= n
    OBVIOUS
  <2> HIDE DEF T
  <2> QED BY <1>2, <1>3, <2>1, UpTo
<1>4. f[n] \in Seq(S) /\ Len(f[n]) = n /\ \A k \in 1 .. n : f[n][k] = s[k]
  BY <1>10
<1>5. DOMAIN f[n] = 1 .. n /\ DOMAIN s = 1 .. n
  BY <1>4, LenProperties
<1>6. f[n] = [k \in 1 .. n |-> f[n][k]] /\ s = [k \in 1 .. n |-> s[k]]
  BY <1>4, <1>5, LenProperties
<1> QED BY <1>1, <1>4, <1>6

-----------------------------------------------------------------------------
(* The XPath objects and the node a Query starts from.                      *)

(* The parts of the text behind permalink, and what is left of them behind  *)
(* the longest permalink.                                                   *)
PathOf(parts) == IF Len(parts) >= 2 /\ parts[1] = "permalink" THEN Tail(parts) ELSE <<>>
Depth(path) == IF Run!KnownPrefixes(path) = {} THEN 0 ELSE Run!Longest(path)
RestOf(parts) == IF PathOf(parts) = <<>> THEN parts
                 ELSE SubSeq(PathOf(parts), Depth(PathOf(parts)) + 1, Len(PathOf(parts)))

(* The node before a leading id is looked at. *)
Base == IF Depth(PathOf(text.parts)) > 0
          THEN Run!PermalinkNode(SubSeq(PathOf(text.parts), 1, Depth(PathOf(text.parts))))
          ELSE Run!StartContext

(* One object at most is there while the constructor runs, and it is freed  *)
(* before the next one is made.                                             *)
Balance ==
  /\ made \in Nat /\ objectsFreed \in Nat /\ strange \in BOOLEAN
  /\ at \in {"start", "permalink", "id", "sibling", "rewrite", "run"} => made = objectsFreed /\ ~strange
  /\ at \in {"done", "gone"} => ~strange
  /\ ObjectsFreed

(* How far the text has been read, and which node has been found by then.   *)
Progress ==
  /\ text \in QueryTexts
  /\ at \in {"start", "permalink"} => query = text.parts
  /\ at = "permalink" => context = Run!StartContext
  /\ at = "id" => query = RestOf(text.parts) /\ query # <<>> /\ context = Base
  /\ at \in {"sibling", "rewrite", "run"} => context = Run!Named

QueryInv == Balance /\ Progress /\ StartsAtNamed

(* The loop over the prefixes of a path finds the longest that is known. *)
LEMMA LongestKnown ==
  ASSUME NEW path \in Seq(STRING), Run!KnownPrefixes(path) # {}
  PROVE  /\ Run!Longest(path) \in Run!KnownPrefixes(path)
         /\ \A m \in Run!KnownPrefixes(path) : m <= Run!Longest(path)
<1> DEFINE K == Run!KnownPrefixes(path)
           L == Len(path)
           T == {L - n : n \in K}
<1>1. L \in Nat /\ K \subseteq 1 .. L
  BY LenProperties DEF Run!KnownPrefixes
<1> HIDE DEF L, K
<1>2. T \subseteq Nat /\ T # {}
  <2>1. K # {}
    BY DEF K
  <2>2. \A n \in K : L - n \in Nat
    BY <1>1
  <2> QED BY <2>1, <2>2
<1>3. PICK x \in T : \A y \in T : x <= y
  BY <1>2, LeastNat
<1>4. PICK n \in K : x = L - n
  BY <1>3
<1>5. \A m \in K : m <= n
  <2> SUFFICES ASSUME NEW m \in K PROVE m <= n
    OBVIOUS
  <2>1. L - n <= L - m
    BY <1>3, <1>4
  <2> QED BY <1>1, <2>1
<1> QED BY <1>4, <1>5 DEF Run!Longest, K

(* Query has the Cardinality of FiniteSets. *)
LEMMA SameCardinality == ASSUME NEW S PROVE Run!Cardinality(S) = Cardinality(S)
BY DEF Cardinality, Run!Cardinality

(* Its number is the number of prefixes that are not longer. *)
LEMMA DepthIsCount ==
  ASSUME NEW path \in Seq(STRING), Run!KnownPrefixes(path) # {}
  PROVE  Run!Cardinality({m \in 1 .. Len(path) : \E k \in m .. Len(path) : k \in Run!KnownPrefixes(path)})
           = Run!Longest(path)
<1> DEFINE n == Run!Longest(path)
           D == {m \in 1 .. Len(path) : \E k \in m .. Len(path) : k \in Run!KnownPrefixes(path)}
<1>1. Len(path) \in Nat /\ Run!KnownPrefixes(path) \subseteq 1 .. Len(path)
  BY LenProperties DEF Run!KnownPrefixes
<1>2. n \in 1 .. Len(path) /\ n \in Run!KnownPrefixes(path) /\ \A m \in Run!KnownPrefixes(path) : m <= n
  BY <1>1, LongestKnown
<1> HIDE DEF n
<1>3. D = 1 .. n
  BY <1>1, <1>2
<1>4. Cardinality(1 .. n) = n
  BY <1>2, FS_Interval
<1>5. Run!Cardinality(1 .. n) = Cardinality(1 .. n)
  BY SameCardinality
<1> QED BY <1>3, <1>4, <1>5 DEF n

(* The node that a text names, by the parts it is made of. *)
LEMMA NamedIs ==
  ASSUME NEW t \in QueryTexts, text = t
  PROVE  /\ PathOf(text.parts) \in Seq(STRING) /\ Depth(PathOf(text.parts)) \in 0 .. Len(PathOf(text.parts))
         /\ Run!Named = LET rest == RestOf(text.parts)
                        IN  IF rest # <<>> /\ rest[1] \in KnownIds THEN Run!IdNode(rest[1]) ELSE Base
<1> DEFINE parts == text.parts
           path == PathOf(parts)
           n == IF Run!KnownPrefixes(path) = {} THEN 0 ELSE Run!Cardinality({m \in 1 .. Len(path) :
                  \E k \in m .. Len(path) : k \in Run!KnownPrefixes(path)})
<1>1. parts \in Seq(STRING) /\ parts # <<>>
  BY RunAssumption DEF Run!QueryAssumption
<1>2. path \in Seq(STRING)
  <2>1. Tail(parts) \in Seq(STRING)
    BY <1>1, HeadTailProperties
  <2>2. <<>> \in Seq(STRING)
    BY EmptySeq
  <2> QED BY <2>1, <2>2 DEF PathOf
<1> HIDE DEF path
<1>3. n = Depth(path)
  BY <1>2, DepthIsCount DEF Depth
<1>4. Depth(path) \in 0 .. Len(path)
  <2>1. CASE Run!KnownPrefixes(path) = {}
    BY <1>2, <2>1, LenProperties DEF Depth
  <2>2. CASE Run!KnownPrefixes(path) # {}
    <3>1. Run!Longest(path) \in 1 .. Len(path)
      BY <1>2, <2>2, LongestKnown DEF Run!KnownPrefixes
    <3> QED BY <2>2, <3>1 DEF Depth
  <2> QED BY <2>1, <2>2
<1>5. Run!Named = LET rest == RestOf(parts)
                  IN  IF rest # <<>> /\ rest[1] \in KnownIds THEN Run!IdNode(rest[1]) ELSE Base
  <2>1. Run!Named = LET rest == IF path = <<>> THEN parts ELSE SubSeq(path, n + 1, Len(path))
                    IN  IF rest # <<>> /\ rest[1] \in KnownIds THEN Run!IdNode(rest[1])
                        ELSE IF n > 0 THEN Run!PermalinkNode(SubSeq(path, 1, n))
                        ELSE IF text.absolute THEN Run!NoNode ELSE below
    BY DEF Run!Named, PathOf, path
  <2>2. path = PathOf(text.parts)
    BY DEF path
  <2> HIDE DEF n
  <2> QED BY <1>3, <2>1, <2>2 DEF RestOf, Base, Run!StartContext
<1> QED BY <1>2, <1>4, <1>5 DEF path

(* The actions but for the two that read the text. *)
OtherSteps == \/ Run!Start \/ Run!Sibling \/ Run!Rewrite \/ Run!NotXPath \/ Run!NotNodes \/ Run!Found
              \/ Run!FoundRoot \/ Run!Destroy \/ Run!Finished \/ UNCHANGED Run!vars

(* No step changes the arguments, nor what is read off them. *)
LEMMA ArgumentsStay ==
  ASSUME Run!Next \/ UNCHANGED Run!vars
  PROVE  text' = text /\ below' = below /\ Run!Named' = Run!Named /\ Base' = Base
         /\ Run!StartContext' = Run!StartContext
<1>1. text' = text /\ below' = below
  BY DEF Run!Next, Run!vars, Run!Start, Run!ByPermalink, Run!ById, Run!Sibling, Run!Rewrite, Run!NotXPath,
         Run!NotNodes, Run!Found, Run!FoundRoot, Run!Destroy, Run!Finished
<1>2. Run!Named' = Run!Named
  BY <1>1 DEF Run!Named
<1>3. Run!StartContext' = Run!StartContext
  BY <1>1 DEF Run!StartContext
<1>4. Base' = Base
  BY <1>1, <1>3 DEF Base
<1> QED BY <1>1, <1>2, <1>3, <1>4

(* The constructor has made nothing before it starts. *)
LEMMA QueryInit == Run!Init => QueryInv
<1> SUFFICES ASSUME Run!Init PROVE QueryInv
  OBVIOUS
<1>1. Balance
  <2>1. strange \in BOOLEAN /\ ~strange /\ at = "start" /\ made = 0 /\ objectsFreed = 0
    BY DEF Run!Init
  <2> QED BY <2>1 DEF Balance, ObjectsFreed, Run!ObjectsFreed
<1>2. Progress /\ StartsAtNamed
  BY DEF Run!Init, Progress, StartsAtNamed, Run!StartsAtNamed
<1> QED BY <1>1, <1>2 DEF QueryInv

(* Each object that is made is freed or is the one the Query has. *)
LEMMA BalanceStep == Balance /\ (Run!Next \/ UNCHANGED Run!vars) => Balance'
<1> SUFFICES ASSUME Balance, Run!Next \/ UNCHANGED Run!vars PROVE Balance'
  OBVIOUS
<1> USE DEF Balance, ObjectsFreed, Run!ObjectsFreed
<1>1. CASE Run!Start \/ Run!Sibling \/ Run!Rewrite \/ Run!NotXPath
  <2>1. /\ made' = made /\ objectsFreed' = objectsFreed /\ strange' = strange
        /\ at \in {"start", "sibling", "rewrite", "run"}
        /\ at' \in {"permalink", "rewrite", "run", "thrown"}
    BY <1>1 DEF Run!Start, Run!Sibling, Run!Rewrite, Run!NotXPath
  <2> QED BY <2>1
<1>2. CASE Run!ByPermalink
  BY <1>2 DEF Run!ByPermalink, Run!Result
<1>3. CASE Run!ById
  BY <1>3 DEF Run!ById, Run!Result, Run!FreesFound
<1>4. CASE Run!NotNodes
  BY <1>4 DEF Run!NotNodes
<1>5. CASE Run!Found \/ Run!FoundRoot
  BY <1>5 DEF Run!Found, Run!FoundRoot
<1>6. CASE Run!Destroy
  BY <1>6 DEF Run!Destroy
<1>7. CASE Run!Finished \/ UNCHANGED Run!vars
  BY <1>7 DEF Run!Finished, Run!vars
<1> QED BY <1>1, <1>2, <1>3, <1>4, <1>5, <1>6, <1>7 DEF Run!Next

(* The permalink loop leaves the node of the longest permalink and the rest *)
(* of the path, or has the answer.                                          *)
LEMMA PermalinkStep ==
  ASSUME Progress, StartsAtNamed, Run!ByPermalink
  PROVE  Progress' /\ StartsAtNamed'
<1> DEFINE parts == text.parts
           path == Tail(query)
           n == Run!Longest(path)
<1>1. /\ text \in QueryTexts /\ parts \in Seq(STRING) /\ parts # <<>>
      /\ query = parts /\ context = Run!StartContext /\ at = "permalink"
  BY RunAssumption DEF Run!QueryAssumption, Progress, Run!ByPermalink
<1>2. text' = text /\ Run!Named' = Run!Named /\ Base' = Base /\ Run!StartContext' = Run!StartContext
  BY ArgumentsStay DEF Run!Next
<1>3. Run!Named = LET rest == RestOf(parts)
                  IN  IF rest # <<>> /\ rest[1] \in KnownIds THEN Run!IdNode(rest[1]) ELSE Base
  BY <1>1, NamedIs
<1>4. CASE Len(query) < 2 \/ query[1] # "permalink"
  <2>1. PathOf(parts) = <<>>
    BY <1>1, <1>4, LenProperties DEF PathOf
  <2>2. RestOf(parts) = parts
    BY <2>1 DEF RestOf
  <2>3. Depth(PathOf(parts)) = 0
    BY <1>1, <2>1, NamedIs, EmptySeq
  <2>4. Base = Run!StartContext
    BY <2>3 DEF Base
  <2>5. at' = "id" /\ context' = context /\ query' = query
    BY <1>4 DEF Run!ByPermalink
  <2> QED BY <1>1, <1>2, <2>2, <2>4, <2>5 DEF Progress, StartsAtNamed, Run!StartsAtNamed
<1>5. CASE ~(Len(query) < 2 \/ query[1] # "permalink")
  <2>1. path = PathOf(parts) /\ path \in Seq(STRING) /\ path # <<>> /\ Len(path) \in Nat
    <3>1. Len(parts) >= 2 /\ parts[1] = "permalink"
      BY <1>1, <1>5, LenProperties
    <3>2. path = PathOf(parts)
      BY <1>1, <3>1 DEF PathOf
    <3>3. path \in Seq(STRING) /\ Len(path) = Len(parts) - 1
      BY <1>1, HeadTailProperties
    <3>4. Len(parts) \in Nat /\ Len(parts) >= 2
      BY <1>1, <3>1, LenProperties
    <3>5. Len(path) = Len(parts) - 1
      BY <3>3
    <3> HIDE DEF path, parts
    <3>6. Len(path) \in Nat /\ Len(path) # 0
      BY <3>4, <3>5
    <3> QED BY <3>2, <3>3, <3>6
  <2> HIDE DEF path
  <2>2. CASE Run!KnownPrefixes(path) = {}
    <3>1. at' = "done" /\ result' = Run!NoNode
      BY <1>5, <2>2 DEF Run!ByPermalink, Run!Result, path
    <3> QED BY <1>1, <1>2, <3>1 DEF Progress, StartsAtNamed, Run!StartsAtNamed
  <2>3. CASE Run!KnownPrefixes(path) # {}
    <3>1. n \in 1 .. Len(path) /\ Depth(path) = n
      BY <2>1, <2>3, LongestKnown DEF Depth, Run!KnownPrefixes
    <3>2. RestOf(parts) = SubSeq(path, n + 1, Len(path))
      BY <2>1, <3>1 DEF RestOf
    <3>3. Base = Run!PermalinkNode(SubSeq(path, 1, n))
      BY <2>1, <3>1 DEF Base
    <3> HIDE DEF n
    <3>4. CASE n = Len(path)
      <4>1. at' = "done" /\ result' = Run!PermalinkNode(path)
        BY <1>5, <2>3, <3>4 DEF Run!ByPermalink, Run!Result, path, n
      <4>2. SubSeq(path, 1, n) = path
        BY <2>1, <3>1, <3>4, SubSeqFull
      <4>3. RestOf(parts) = <<>>
        BY <2>1, <3>1, <3>2, <3>4, SubSeqEmpty
      <4>4. Run!Named = Run!PermalinkNode(path)
        BY <1>3, <3>3, <4>2, <4>3
      <4> QED BY <1>1, <1>2, <4>1, <4>4 DEF Progress, StartsAtNamed, Run!StartsAtNamed
    <3>5. CASE n # Len(path)
      <4>1. /\ at' = "id" /\ context' = Run!PermalinkNode(SubSeq(path, 1, n))
            /\ query' = SubSeq(path, n + 1, Len(path))
        BY <1>5, <2>3, <3>5 DEF Run!ByPermalink, path, n
      <4>2. SubSeq(path, n + 1, Len(path)) # <<>>
        <5>1. n + 1 \in 1 .. Len(path) /\ Len(path) \in 1 .. Len(path)
          BY <2>1, <3>1, <3>5
        <5> DEFINE from == n + 1
                   to == Len(path)
                   rest == SubSeq(path, from, to)
        <5>2. from \in Int /\ to \in Int /\ from <= to /\ to - from + 1 # 0
          BY <5>1
        <5>3. \A i \in from .. to : path[i] \in STRING
          <6>1. \A i \in from .. to : i \in 1 .. Len(path)
            BY <5>1
          <6> QED BY <2>1, <6>1, ElementOfSeq
        <5> HIDE DEF from, to
        <5>4. Len(rest) = to - from + 1
          BY <5>2, <5>3, SubSeqProperties
        <5> HIDE DEF rest
        <5>5. Len(<<>>) = 0
          OBVIOUS
        <5>6. rest # <<>>
          BY <5>2, <5>4, <5>5
        <5> QED BY <5>6 DEF rest, from, to
      <4> QED BY <1>1, <1>2, <3>2, <3>3, <4>1, <4>2 DEF Progress, StartsAtNamed, Run!StartsAtNamed
    <3> QED BY <3>4, <3>5
  <2> QED BY <2>2, <2>3
<1> QED BY <1>4, <1>5

(* A leading id is the last part that can name the node. *)
LEMMA IdStep ==
  ASSUME Progress, StartsAtNamed, Run!ById
  PROVE  Progress' /\ StartsAtNamed'
<1>1. text \in QueryTexts /\ at = "id" /\ query = RestOf(text.parts) /\ query # <<>> /\ context = Base
  BY DEF Progress, Run!ById
<1>2. text' = text /\ Run!Named' = Run!Named /\ Base' = Base /\ Run!StartContext' = Run!StartContext
  BY ArgumentsStay DEF Run!Next
<1>3. Run!Named = IF query[1] \in KnownIds THEN Run!IdNode(query[1]) ELSE Base
  BY <1>1, NamedIs
<1>4. KnownIds \subseteq NumberParts
  BY RunAssumption DEF Run!QueryAssumption
<1>5. \/ at' = "sibling" /\ context' = Run!Named
      \/ at' = "done" /\ result' \in {Run!NoNode, Run!Named}
  BY <1>1, <1>3, <1>4 DEF Run!ById, Run!Result
<1> QED BY <1>1, <1>2, <1>5 DEF Progress, StartsAtNamed, Run!StartsAtNamed

(* Every step of the constructor keeps the invariant. *)
LEMMA QueryStep == QueryInv /\ [Run!Next]_(Run!vars) => QueryInv'
<1> SUFFICES ASSUME QueryInv, Run!Next \/ UNCHANGED Run!vars PROVE QueryInv'
  OBVIOUS
<1>1. Balance'
  BY BalanceStep DEF QueryInv
<1>2. CASE Run!ByPermalink
  BY <1>1, <1>2, PermalinkStep DEF QueryInv
<1>3. CASE Run!ById
  BY <1>1, <1>3, IdStep DEF QueryInv
<1>4. CASE OtherSteps
  <2>1. text' = text /\ Run!Named' = Run!Named /\ Run!StartContext' = Run!StartContext /\ Base' = Base
    BY ArgumentsStay
  <2>2. Progress' /\ StartsAtNamed'
    BY <1>4, <2>1 DEF QueryInv, Progress, StartsAtNamed, Run!StartsAtNamed, OtherSteps, Run!Start, Run!Sibling,
       Run!Rewrite, Run!NotXPath, Run!NotNodes, Run!Found, Run!FoundRoot, Run!Destroy, Run!Finished, Run!vars
  <2> QED BY <1>1, <2>2 DEF QueryInv
<1> QED BY <1>2, <1>3, <1>4 DEF Run!Next, OtherSteps

(* However a Query runs, the inductive invariant holds.                     *)
THEOREM QueryInvariant == Run!Spec => []QueryInv
<1>1. Run!Init => QueryInv
  BY QueryInit
<1>2. QueryInv /\ [Run!Next]_(Run!vars) => QueryInv'
  BY QueryStep
<1> QED BY <1>1, <1>2, PTL DEF Run!Spec

(* Whatever the text, the Context and the answer of libxml2, ~Query leaves  *)
(* no XPath object behind, and a constructor that throws leaves none but    *)
(* the one of a result that is not nodes (Query::Query, runRawQuery).       *)
THEOREM NoObjectLeft == Run!Spec => []ObjectsFreed
<1>1. QueryInv => ObjectsFreed
  BY DEF QueryInv, Balance
<1> QED BY <1>1, QueryInvariant, PTL

(* For every text and every set of permalinks and ids, the expression that  *)
(* libxml2 gets is run from the node the text names: the id behind the      *)
(* longest known permalink, else that permalink, else the root of an        *)
(* absolute query, else the client's Context; a node found without libxml2  *)
(* is that node (Query::Query, result).                                     *)
THEOREM RunsFromNamed == Run!Spec => []StartsAtNamed
<1>1. QueryInv => StartsAtNamed
  BY DEF QueryInv
<1> QED BY <1>1, QueryInvariant, PTL

-----------------------------------------------------------------------------
(* The ids of a Session's responses.                                        *)

IdsInv == responses \in Seq(Seq(Queries)) /\ IdsNameResponses

(* A new Session has told no id. *)
LEMMA IdsInit == Responses!Init => IdsInv
BY EmptySeq DEF Responses!Init, IdsInv, IdsNameResponses, Responses!IdsNameResponses

(* A response that is kept is the next of the vector and leaves the ones    *)
(* before it where they are.                                                *)
LEMMA KeepStep ==
  ASSUME IdsInv, NEW p \in Seq(Queries), told' = told \cup {<<Responses!NewId, p>>}, responses' = Append(responses, p)
  PROVE  IdsInv'
<1>1. responses \in Seq(Seq(Queries)) /\ Len(responses) \in Nat
  BY LenProperties DEF IdsInv
<1>2. /\ responses' \in Seq(Seq(Queries)) /\ Len(responses') = Len(responses) + 1
      /\ \A i \in 1 .. Len(responses) : responses'[i] = responses[i]
      /\ responses'[Len(responses) + 1] = p
  BY <1>1, AppendProperties
<1>3. ASSUME NEW t \in told' PROVE t[1] \in 1 .. Len(responses') /\ responses'[t[1]] = t[2]
  <2>1. CASE t \in told
    <3>1. t[1] \in 1 .. Len(responses) /\ responses[t[1]] = t[2]
      BY <2>1 DEF IdsInv, IdsNameResponses, Responses!IdsNameResponses
    <3> QED BY <1>1, <1>2, <3>1
  <2>2. CASE t = <<Responses!NewId, p>>
    <3>1. t[1] = Len(responses) + 1 /\ t[2] = p
      BY <2>2 DEF Responses!NewId
    <3> QED BY <1>1, <1>2, <3>1
  <2> QED BY <1>3, <2>1, <2>2
<1> QED BY <1>2, <1>3 DEF IdsInv, IdsNameResponses, Responses!IdsNameResponses

(* Every call on the Session keeps the invariant. *)
LEMMA IdsStep == IdsInv /\ [Responses!Next]_(Responses!vars) => IdsInv'
<1> SUFFICES ASSUME IdsInv, [Responses!Next]_(Responses!vars) PROVE IdsInv'
  OBVIOUS
<1>1. ASSUME responses' = responses, told' = told PROVE IdsInv'
  BY <1>1 DEF IdsInv, IdsNameResponses, Responses!IdsNameResponses
<1>2. ASSUME NEW id \in Responses!IdsSent, NEW q \in Queries, Responses!Get(id, q) PROVE IdsInv'
  <2> DEFINE p == Append(Responses!ParentPath(id), q)
  <2>1. CASE /\ id = Responses!Root \/ Responses!ValidParent(id)
             /\ told' = told \cup {<<Responses!NewId, p>>} /\ responses' = Append(responses, p)
    <3>1. Responses!ParentPath(id) \in Seq(Queries)
      <4>1. CASE id = Responses!Root
        BY <4>1, EmptySeq DEF Responses!ParentPath
      <4>2. CASE id # Responses!Root
        <5>1. id \in 1 .. Len(responses)
          BY <2>1, <4>2, LenProperties DEF Responses!ValidParent, Responses!AtMostSize, Responses!Root,
             Responses!IdsSent, IdsInv
        <5>2. responses[id] \in Seq(Queries)
          BY <5>1, ElementOfSeq DEF IdsInv
        <5> QED BY <4>2, <5>2 DEF Responses!ParentPath
      <4> QED BY <4>1, <4>2
    <3>2. p \in Seq(Queries)
      BY <3>1, AppendProperties
    <3> HIDE DEF p
    <3> QED BY <2>1, <3>2, KeepStep
  <2>2. CASE responses' = responses /\ told' = told
    BY <1>1, <2>2
  <2> QED BY <1>2, <2>1, <2>2 DEF Responses!Get
<1>3. ASSUME NEW id \in Responses!IdsSent, Responses!CreateInfo(id) \/ Responses!Data(id) \/ Responses!Structure(id)
      PROVE  IdsInv'
  BY <1>1, <1>3 DEF Responses!CreateInfo, Responses!Data, Responses!Structure, Responses!Read
<1>4. CASE UNCHANGED Responses!vars
  BY <1>1, <1>4 DEF Responses!vars
<1> QED BY <1>2, <1>3, <1>4 DEF Responses!Next

(* An id that get has returned names the response of that call for the rest *)
(* of the session, however many calls came between and however many of them *)
(* failed (Session::get).                                                   *)
THEOREM IdsStay == Responses!Spec => []IdsNameResponses
<1>1. Responses!Init => IdsInv
  BY IdsInit
<1>2. IdsInv /\ [Responses!Next]_(Responses!vars) => IdsInv'
  BY IdsStep
<1>3. IdsInv => IdsNameResponses
  BY DEF IdsInv
<1> QED BY <1>1, <1>2, <1>3, PTL DEF Responses!Spec

-----------------------------------------------------------------------------
(* The document of a Site, from loadXmlDoc to ~Site.                        *)

(* SiteLoad has the operators on sequences of SequencesExt. *)
LEMMA SameOperators ==
  ASSUME NEW s
  PROVE  Load!FlattenSeq(s) = FlattenSeq(s) /\ Load!Range(s) = Range(s) /\ Load!Last(s) = Last(s)
<1>1. Load!FlattenSeq(s) = FlattenSeq(s)
  BY DEF FlattenSeq, Load!FlattenSeq
<1>2. Load!Range(s) = Range(s)
  BY DEF Range, Load!Range
<1>3. Load!Last(s) = Last(s)
  BY DEF Last, Load!Last
<1> QED BY <1>1, <1>2, <1>3

(* A list without some nodes. *)
LEMMA WithoutIs ==
  ASSUME NEW S, NEW s \in Seq(S), NEW gone
  PROVE  LET t == Load!Without(s, gone)
         IN  /\ t \in Seq(S)
             /\ \A x : x \in Range(t) <=> x \in Range(s) /\ x \notin gone
             /\ Distinct(s) => Distinct(t)
             /\ s # <<>> /\ s[1] \notin gone => Len(t) >= 1 /\ t[1] = s[1]
             /\ s # <<>> /\ s[Len(s)] \notin gone => Len(t) >= 1 /\ t[Len(t)] = s[Len(s)]
<1> DEFINE n == Len(s)
           ss == [k \in DOMAIN s |-> IF s[k] \in gone THEN <<>> ELSE <<s[k]>>]
<1>1. n \in Nat /\ DOMAIN s = 1 .. n /\ \A k \in 1 .. n : s[k] \in S
  BY LenProperties, ElementOfSeq
<1>2. Load!Without(s, gone) = FlattenSeq(ss)
  BY SameOperators DEF Load!Without
<1>3. ss \in [1 .. n -> Seq(S)]
  <2>1. \A x \in S : <<x>> \in Seq(S)
    OBVIOUS
  <2>2. <<>> \in Seq(S)
    BY EmptySeq
  <2> QED BY <1>1, <2>1, <2>2
<1>4. \A k \in 1 .. n : \A x : x \in Range(ss[k]) <=> x = s[k] /\ x \notin gone
  <2> SUFFICES ASSUME NEW k \in 1 .. n PROVE \A x : x \in Range(ss[k]) <=> x = s[k] /\ x \notin gone
    OBVIOUS
  <2>1. CASE s[k] \in gone
    BY <1>1, <2>1 DEF Range
  <2>2. CASE s[k] \notin gone
    <3>1. ss[k] = <<s[k]>>
      BY <1>1, <2>2
    <3>2. \A x : x \in Range(<<s[k]>>) <=> x = s[k]
      BY DEF Range
    <3> QED BY <2>2, <3>1, <3>2
  <2> QED BY <2>1, <2>2
<1>5. \A k \in 1 .. n : Distinct(ss[k])
  BY <1>1 DEF Distinct
<1>6. n # 0 /\ s[1] \notin gone => 1 \in 1 .. n /\ ss[1] = <<s[1]>>
  BY <1>1
<1>7. n # 0 /\ s[n] \notin gone => n \in 1 .. n /\ ss[n] = <<s[n]>>
  BY <1>1
<1>8. s # <<>> => n # 0
  BY EmptySeq
<1> HIDE DEF ss, n
<1>9. FlattenSeq(ss) \in Seq(S) /\ \A x : x \in Range(FlattenSeq(ss)) <=> \E k \in 1 .. n : x \in Range(ss[k])
  BY <1>1, <1>3, FlattenSeqIs
<1>10. \A x : x \in Range(FlattenSeq(ss)) <=> x \in Range(s) /\ x \notin gone
  <2>1. \A x : x \in Range(s) <=> \E k \in 1 .. n : x = s[k]
    BY <1>1 DEF Range
  <2> SUFFICES ASSUME NEW x PROVE x \in Range(FlattenSeq(ss)) <=> x \in Range(s) /\ x \notin gone
    OBVIOUS
  <2>2. x \in Range(FlattenSeq(ss)) <=> \E k \in 1 .. n : x \in Range(ss[k])
    BY <1>9
  <2>3. \A k \in 1 .. n : x \in Range(ss[k]) <=> x = s[k] /\ x \notin gone
    BY <1>4
  <2>4. x \in Range(s) <=> \E k \in 1 .. n : x = s[k]
    BY <2>1
  <2> QED BY <2>2, <2>3, <2>4, Zenon
<1>11. ASSUME Distinct(s) PROVE Distinct(FlattenSeq(ss))
  <2>1. \A i, j \in 1 .. n : i # j => Range(ss[i]) \cap Range(ss[j]) = {}
    BY <1>1, <1>4, <1>11 DEF Distinct
  <2> QED BY <1>1, <1>3, <1>5, <2>1, FlattenDistinct
<1>12. ASSUME s # <<>>, s[1] \notin gone PROVE Len(FlattenSeq(ss)) >= 1 /\ FlattenSeq(ss)[1] = s[1]
  <2>1. n \in Nat \ {0} /\ ss[1] = <<s[1]>>
    BY <1>1, <1>6, <1>8, <1>12
  <2> QED BY <1>3, <2>1, FlattenFirst
<1>13. ASSUME s # <<>>, s[n] \notin gone
       PROVE  Len(FlattenSeq(ss)) >= 1 /\ FlattenSeq(ss)[Len(FlattenSeq(ss))] = s[n]
  <2>1. n \in Nat \ {0} /\ ss[n] = <<s[n]>>
    BY <1>1, <1>7, <1>8, <1>13
  <2>2. \A x : ss[n] = <<x>> => Len(FlattenSeq(ss)) >= 1 /\ FlattenSeq(ss)[Len(FlattenSeq(ss))] = x
    BY <1>3, <2>1, FlattenLast, Zenon
  <2> QED BY <2>1, <2>2
<1> QED BY <1>2, <1>9, <1>10, <1>11, <1>12, <1>13 DEF n

(* What the assumption says of one document. *)
LEMMA DocumentType ==
  ASSUME doc \in Documents
  PROVE  /\ N \in Nat /\ MaxLinks \in Nat
         /\ doc.parent \in [Load!Ids -> Load!Ids \cup {0}] /\ doc.links \in [Load!Ids -> Seq(Load!Ids \cup {0, Load!AnAssociation})]
         /\ doc.staging \subseteq Load!Ids /\ doc.stagingLinks \subseteq Load!Links /\ doc.indented \in BOOLEAN /\ doc.stagingMode \in BOOLEAN
         /\ \A i \in Load!Ids : doc.parent[i] < i /\ Len(doc.links[i]) <= MaxLinks
<1>1. doc \in [parent : [Load!Ids -> Load!Ids \cup {0}], links : [Load!Ids -> Seq(Load!Ids \cup {0, Load!AnAssociation})],
                staging : SUBSET Load!Ids, stagingLinks : SUBSET Load!Links, indented : BOOLEAN, stagingMode : BOOLEAN]
  BY DocumentAssumption DEF Load!LoadAssumption
<1>2. /\ doc.parent \in [Load!Ids -> Load!Ids \cup {0}] /\ doc.links \in [Load!Ids -> Seq(Load!Ids \cup {0, Load!AnAssociation})]
      /\ doc.staging \subseteq Load!Ids /\ doc.stagingLinks \subseteq Load!Links /\ doc.indented \in BOOLEAN /\ doc.stagingMode \in BOOLEAN
  BY <1>1
<1> QED BY <1>2, DocumentAssumption DEF Load!LoadAssumption

(* The items around an item: the one it is in and those around that one.    *)
LEMMA OuterIs ==
  ASSUME doc \in Documents
  PROVE  /\ Load!Outer(0) = {}
         /\ \A i \in Load!Ids : Load!Outer(i) = ({doc.parent[i]} \cup Load!Outer(doc.parent[i])) \ {0}
<1> DEFINE P == Load!Ids \cup {0}
           par == doc.parent
           Closed(S) == \A x \in S : x # 0 => par[x] \in S
           Above(j) == {k \in P : \A S \in SUBSET P : par[j] \in S /\ Closed(S) => k \in S}
           w == [j \in P |-> IF j = 0 THEN {} ELSE Above(j)]
           U == CHOOSE u : u = [j \in P |-> IF j = 0 THEN {} ELSE {par[j]} \cup u[par[j]]]
<1>1. par \in [Load!Ids -> P] /\ 0 \in P /\ 0 \notin Load!Ids
  BY DocumentType DEF Load!Ids
<1> HIDE DEF P, par
<1>2. ASSUME NEW j \in P, j # 0 PROVE Above(j) = {par[j]} \cup w[par[j]]
  <2> DEFINE q == par[j]
             S0 == {q} \cup w[q]
  <2>1. j \in Load!Ids /\ q \in P
    BY <1>1, <1>2 DEF P
  <2>2. w[q] \subseteq P
    BY <2>1
  <2>3. \A x \in P : x # 0 => par[x] \in P
    BY <1>1 DEF P
  <2>4. Closed(S0)
    <3> SUFFICES ASSUME NEW x \in S0, x # 0 PROVE par[x] \in S0
      OBVIOUS
    <3>1. CASE x = q
      <4>1. w[q] = Above(q)
        BY <2>1, <3>1
      <4>2. par[q] \in Above(q)
        BY <2>1, <2>3, <3>1
      <4> QED BY <3>1, <4>1, <4>2
    <3>2. CASE x # q
      <4>1. q # 0 /\ w[q] = Above(q) /\ x \in Above(q)
        BY <2>1, <3>2
      <4>2. par[x] \in P
        BY <2>3, <4>1
      <4>3. par[x] \in Above(q)
        BY <4>1, <4>2
      <4> QED BY <4>1, <4>3
    <3> QED BY <3>1, <3>2
  <2>5. S0 \in SUBSET P /\ q \in S0
    BY <2>1, <2>2
  <2>6. Above(j) \subseteq S0
    <3> HIDE DEF S0, Closed
    <3> QED BY <2>4, <2>5
  <2>7. q \in Above(j)
    BY <2>1
  <2>8. w[q] \subseteq Above(j)
    <3> SUFFICES ASSUME NEW k \in w[q] PROVE k \in Above(j)
      OBVIOUS
    <3>1. q # 0 /\ k \in Above(q)
      BY <2>1
    <3> QED BY <3>1
  <2> HIDE DEF w, Above
  <2> QED BY <2>6, <2>7, <2>8
<1>3. w = [j \in P |-> IF j = 0 THEN {} ELSE {par[j]} \cup w[par[j]]]
  <2>1. \A j \in P : w[j] = IF j = 0 THEN {} ELSE Above(j)
    OBVIOUS
  <2> HIDE DEF Above
  <2>2. \A j \in P : w[j] = IF j = 0 THEN {} ELSE {par[j]} \cup w[par[j]]
    <3> HIDE DEF w
    <3> QED BY <1>2, <2>1
  <2>3. w = [j \in P |-> w[j]]
    OBVIOUS
  <2> HIDE DEF w
  <2> QED BY <2>2, <2>3
<1>4. U = [j \in P |-> IF j = 0 THEN {} ELSE {par[j]} \cup U[par[j]]]
  <2> HIDE DEF w
  <2> QED BY <1>3
<1>5. \A i : Load!Outer(i) = U[i] \ {0}
  BY DEF Load!Outer, P, par
<1> HIDE DEF U
<1>6. U[0] = {} /\ \A i \in Load!Ids : U[i] = {par[i]} \cup U[par[i]]
  <2>1. \A i \in Load!Ids : i \in P /\ i # 0
    BY <1>1 DEF P
  <2>2. \A i \in P : U[i] = IF i = 0 THEN {} ELSE {par[i]} \cup U[par[i]]
    BY <1>4
  <2> QED BY <1>1, <2>1, <2>2
<1> QED BY <1>5, <1>6 DEF par

-----------------------------------------------------------------------------
(* The document of a Site.  Which nodes are there, in which list, and what  *)
(* has been freed follows from the document and from the associations that  *)
(* are still to be initialized.                                             *)

Tree == Load!Ids \cup {0}
LinksInKept == {a \in Load!Links : a[2] \in Load!Kept /\ a[3] \in DOMAIN doc.links[a[2]]}
KeptLinks == LinksInKept \ Load!KilledLinks

(* The association has been replaced by its target. *)
Spliced(a) == a \in KeptLinks /\ Load!Target(a) \in Load!Kept /\ a \notin Range(todo)

LinkOf(n) == <<"link", n[2], n[3]>>

(* The item, or the root, among whose children a node is. *)
OwnerOf(n) == IF n[1] = "item" THEN doc.parent[n[2]]
              ELSE IF n[1] = "pointer" THEN Load!Target(LinkOf(n)) ELSE n[2]

(* The nodes that libxml2 made, and those that are in the tree now. *)
InFeed(n) == \/ n[1] = "item"
             \/ n[1] = "link" /\ n[3] \in DOMAIN doc.links[n[2]]
             \/ n[1] = "text" /\ doc.indented
Present(n) == \/ n[1] = "item" /\ n[2] \in Load!Kept
              \/ n[1] = "link" /\ n \in KeptLinks /\ (Load!Target(n) \in Load!Kept \/ n \in Range(todo))
              \/ n[1] = "text" /\ n[2] \in Load!Kept /\ doc.indented
              \/ n[1] = "pointer" /\ Spliced(LinkOf(n))

(* Nothing has been done to the tree yet. *)
JustParsed ==
  /\ todo = <<>> /\ nodesToClean = {} /\ nodesToClean2 = {}
  /\ children = [i \in Tree |-> Load!Parsed(doc, i)]
  /\ view = [n \in Load!Links \cup Load!Pointers |-> Load!NoView]
  /\ nodes = [i \in Tree |-> Load!Null]
  /\ pointerNodes = [i \in Load!Ids |-> {}]
  /\ freed = [n \in Load!Nodes |-> 0] /\ deleted = [n \in Load!Items \cup Load!Links |-> 0]

(* The associations that are left are those of kept items, each once. *)
Left == Range(todo) \subseteq KeptLinks /\ Distinct(todo)

(* The ids that are known are those of kept items. *)
Registered == \A i \in Load!Ids : nodes[i] = IF i \in Load!Kept THEN Load!Item(i) ELSE Load!Null

(* Each list has the nodes that are present and belong there, each once. *)
ListsHeld == \A i \in Tree :
  /\ Distinct(children[i])
  /\ \A n \in Load!Nodes : n \in Range(children[i]) <=> Present(n) /\ OwnerOf(n) = i

(* What came with the feed and is not there any more has been freed. *)
FreedSoFar == \A n \in Load!Nodes : freed[n] = IF InFeed(n) /\ ~Present(n) THEN 1 ELSE 0
DeletedSoFar ==
  /\ \A i \in Load!Ids : deleted[Load!Item(i)] = IF i \in Load!Killed THEN 1 ELSE 0
  /\ \A a \in Load!Links : deleted[a] = IF a \in LinksInKept /\ a \notin Range(todo) THEN 1 ELSE 0

(* What an association and its pointer node share. *)
Shared ==
  /\ \A a \in Load!Links : Spliced(a) => /\ view[a].of = Load!Target(a) /\ a \in nodesToClean2
                                         /\ view[Load!Pointer(a)].of = a[2] /\ Load!Pointer(a) \in nodesToClean
  /\ \A a \in Load!Links : ~Spliced(a) => view[a] = Load!NoView /\ view[Load!Pointer(a)] = Load!NoView

(* With white space around them, lists keep their first node, and pointer   *)
(* nodes know the last one.                                                 *)
Edges == doc.indented =>
  /\ \A i \in Load!Kept : /\ Len(children[i]) >= 1 /\ children[i][1] = Load!Indent(i, 1)
                          /\ children[i][Len(children[i])] \notin Load!Links
                          /\ \A q \in pointerNodes[i] : view[q].last = children[i][Len(children[i])]
  /\ \A a \in Load!Links : Spliced(a) => /\ view[a].from = Load!Indent(Load!Target(a), 1)
                                         /\ view[Load!Pointer(a)].from = Load!Indent(a[2], 1)
                                         /\ Load!Pointer(a) \in pointerNodes[a[2]]
PointersOwned == \A i \in Load!Ids : \A q \in pointerNodes[i] : q[2] = i /\ Spliced(LinkOf(q))

(* ~Site has freed what was there. *)
AllFreed ==
  /\ \A n \in Load!Nodes : freed[n] = IF InFeed(n) \/ Present(n) THEN 1 ELSE 0
  /\ \A i \in Load!Ids : deleted[Load!Item(i)] = IF i \in Load!Killed \cup Load!Kept THEN 1 ELSE 0
  /\ \A a \in Load!Links : deleted[a] = IF a \in LinksInKept THEN 1 ELSE 0

(* The types of all but attributes and XPath objects. *)
TreeOK ==
  /\ phase \in {"parsed", "linking", "corrupted", "loaded", "failed", "cut", "freed", "destroyed"}
  /\ todo \in Seq(Load!Links)
  /\ children \in [Load!Ids \cup {0} -> Seq(Load!Nodes)]
  /\ view \in [Load!Links \cup Load!Pointers -> Load!Views]
  /\ nodes \in [Load!Ids \cup {0} -> Load!Items \cup Load!Links \cup {Load!Null}]
  /\ nodesToClean \subseteq Load!Pointers /\ nodesToClean2 \subseteq Load!Links
  /\ pointerNodes \in [Load!Ids -> SUBSET Load!Pointers]
  /\ freed \in [Load!Nodes -> Nat] /\ deleted \in [Load!Items \cup Load!Links -> Nat]

(* The invariant of the tree's nodes and Contexts. *)
TreeInv ==
  /\ doc \in Documents /\ TreeOK
  /\ phase = "parsed" => JustParsed
  /\ phase \in {"linking", "loaded"} => Left /\ Registered /\ ListsHeld /\ FreedSoFar /\ DeletedSoFar /\ Shared
                                        /\ Edges /\ PointersOwned
  /\ phase \in {"loaded", "cut", "freed", "destroyed"} => todo = <<>>
  /\ phase = "cut" => /\ ListsHeld /\ FreedSoFar /\ DeletedSoFar
                      /\ \A n \in Load!Links \cup Load!Pointers : view[n] = Load!NoView
  /\ phase = "freed" => AllFreed
  /\ phase \in {"failed", "corrupted"} => /\ \A n \in Load!Nodes : freed[n] <= 1
                                          /\ \A n \in Load!Items \cup Load!Links : deleted[n] <= 1
  /\ phase = "destroyed" => /\ \A i \in Load!Ids : deleted[Load!Item(i)] = IF i \in Load!Killed \cup Load!Kept THEN 1 ELSE 0
                            /\ \A a \in Load!Links : deleted[a] = IF a \in LinksInKept THEN 1 ELSE 0

(* A node that was the first of a shared list when it was freed. *)
Stale(n) == ~doc.indented /\ n \in KeptLinks /\ ~Present(n)

(* A list that is shared is read from a node that is in it, or was. *)
Starts == \A n \in Load!Links \cup Load!Pointers :
  \/ view[n] = Load!NoView \/ view[n].from = Load!Null
  \/ view[n].from \in Range(children[view[n].of]) \/ Stale(view[n].from)
StartsInv == phase \in {"linking", "loaded"} => Starts

(* Whose attributes a node shows. *)
OwnProps ==
  /\ \A n \in Load!Items \cup Load!Links : props[n] = n
  /\ \A a \in Load!Links : props[Load!Pointer(a)] = Load!Null
PropsShared ==
  /\ \A i \in Load!Ids : props[Load!Item(i)] = Load!Item(i)
  /\ \A a \in Load!Links :
       /\ props[a] = IF Spliced(a) THEN Load!Item(Load!Target(a)) ELSE a
       /\ props[Load!Pointer(a)] = IF Spliced(a) THEN Load!Item(a[2]) ELSE Load!Null
PropsCut ==
  /\ \A i \in Load!Ids : props[Load!Item(i)] = Load!Item(i)
  /\ \A a \in Load!Links : /\ props[a] \in {a, Load!Null} /\ (Spliced(a) => props[a] = Load!Null)
                            /\ props[Load!Pointer(a)] = Load!Null

(* The attributes of what is not there any more have been freed, and those  *)
(* of an association that shows its target's.                               *)
AttrsSoFar ==
  /\ \A i \in Load!Ids : attrsFreed[Load!Item(i)] = IF i \in Load!Kept THEN 0 ELSE 1
  /\ \A a \in Load!Links : attrsFreed[a] = IF InFeed(a) /\ (Spliced(a) \/ ~Present(a)) THEN 1 ELSE 0
AttrsDone ==
  /\ \A i \in Load!Ids : attrsFreed[Load!Item(i)] = 1
  /\ \A a \in Load!Links : attrsFreed[a] = IF InFeed(a) THEN 1 ELSE 0

AttrInv ==
  /\ props \in [Load!Items \cup Load!Links \cup Load!Pointers -> Load!Items \cup Load!Links \cup {Load!Null}]
  /\ attrsFreed \in [Load!Items \cup Load!Links -> Nat]
  /\ phase = "parsed" => OwnProps /\ \A n \in Load!Items \cup Load!Links : attrsFreed[n] = 0
  /\ phase \in {"linking", "loaded"} => PropsShared /\ AttrsSoFar
  /\ phase = "cut" => PropsCut /\ AttrsSoFar
  /\ phase \in {"freed", "destroyed"} => AttrsDone
  /\ phase \in {"failed", "corrupted"} => \A n \in Load!Items \cup Load!Links : attrsFreed[n] <= 1

(* The XPath objects hold nodes of a loaded tree.  These alone are freed    *)
(* once more.                                                               *)
HeldInv ==
  /\ held \subseteq Load!Nodes
  /\ held # {} => phase \in {"loaded", "cut", "freed", "destroyed"}
  /\ \A n \in held : InFeed(n) \/ Present(n)
  /\ phase = "destroyed" => \A n \in Load!Nodes :
       freed[n] \in IF n \in held THEN {1, 2} ELSE {IF InFeed(n) \/ Present(n) THEN 1 ELSE 0}

(* Only an association that names another one leads to where nothing is     *)
(* known.                                                                   *)
CorruptInv == phase = "corrupted" => \E i \in Load!Kept : Load!AnAssociation \in Range(doc.links[i])

(* The inductive invariant of the load and of ~Site. *)
LoadInv == TreeInv /\ StartsInv /\ AttrInv /\ HeldInv /\ CorruptInv

(* The kinds of nodes. *)
LEMMA LinkNode ==
  ASSUME NEW a \in Load!Links
  PROVE  /\ a[1] = "link" /\ a[2] \in Load!Ids /\ a[3] \in 1 .. MaxLinks /\ a \in Load!Nodes /\ LinkOf(a) = a
         /\ Load!Pointer(a) \in Load!Pointers /\ Load!Pointer(a) \in Load!Nodes
         /\ Load!Pointer(a)[1] = "pointer" /\ Load!Pointer(a)[2] = a[2] /\ LinkOf(Load!Pointer(a)) = a
         /\ a \notin Load!Items /\ Load!Pointer(a) \notin Load!Items
<1>1. PICK i \in Load!Ids, k \in 1 .. MaxLinks : a = <<"link", i, k>>
  BY DEF Load!Links
<1>2. a[1] = "link" /\ a[2] = i /\ a[3] = k
  BY <1>1
<1>3. Load!Pointer(a) = <<"pointer", i, k>>
  BY <1>2 DEF Load!Pointer
<1>4. Load!Pointer(a) \in Load!Pointers /\ Load!Pointer(a) \in Load!Nodes /\ a \in Load!Nodes
  BY DEF Load!Pointers, Load!Nodes
<1>5. LinkOf(a) = a /\ LinkOf(Load!Pointer(a)) = a
  BY <1>1, <1>2, <1>3 DEF LinkOf
<1>6. a \notin Load!Items /\ Load!Pointer(a) \notin Load!Items
  BY <1>2, <1>3 DEF Load!Items, Load!Item
<1> QED BY <1>2, <1>3, <1>4, <1>5, <1>6

(* The node of an item. *)
LEMMA ItemNode ==
  ASSUME NEW i \in Load!Ids
  PROVE  /\ Load!Item(i) \in Load!Items /\ Load!Item(i) \in Load!Nodes
         /\ Load!Item(i)[1] = "item" /\ Load!Item(i)[2] = i
BY DEF Load!Items, Load!Nodes, Load!Item

(* The white space at the two ends of a list. *)
LEMMA TextNode ==
  ASSUME NEW i \in Load!Ids, NEW p \in {1, 2}
  PROVE  /\ Load!Indent(i, p) \in Load!Nodes /\ Load!Indent(i, p)[1] = "text" /\ Load!Indent(i, p)[2] = i
         /\ Load!Indent(i, p) \notin Load!Links
<1>1. Load!Indent(i, p) \in Load!Nodes /\ Load!Indent(i, p)[1] = "text" /\ Load!Indent(i, p)[2] = i
  BY DEF Load!Indent, Load!Nodes
<1> QED BY <1>1, LinkNode

(* The pointer node of an association. *)
LEMMA PointerNode ==
  ASSUME NEW p \in Load!Pointers
  PROVE  LinkOf(p) \in Load!Links /\ p = Load!Pointer(LinkOf(p)) /\ p[1] = "pointer" /\ LinkOf(p)[2] = p[2]
<1>1. PICK a \in Load!Links : p = Load!Pointer(a)
  BY DEF Load!Pointers
<1> QED BY <1>1, LinkNode

(* A node is of one of the four kinds. *)
LEMMA NodeKinds ==
  ASSUME NEW n \in Load!Nodes
  PROVE  \/ n[1] = "item" /\ n \in Load!Items /\ n[2] \in Load!Ids /\ n = Load!Item(n[2])
         \/ n[1] = "link" /\ n \in Load!Links
         \/ n[1] = "pointer" /\ n \in Load!Pointers
         \/ n[1] = "text" /\ n[2] \in Load!Ids /\ n[3] \in {1, 2} /\ n = Load!Indent(n[2], n[3])
<1>1. CASE n \in Load!Items
  <2>1. PICK i \in Load!Ids : n = Load!Item(i)
    BY <1>1 DEF Load!Items
  <2> QED BY <1>1, <2>1, ItemNode
<1>2. CASE n \in Load!Links
  BY <1>2, LinkNode
<1>3. CASE n \in Load!Pointers
  BY <1>3, PointerNode
<1>4. ASSUME NEW i \in Load!Ids, NEW p \in {1, 2}, n = Load!Indent(i, p)
      PROVE  n[1] = "text" /\ n[2] \in Load!Ids /\ n[3] \in {1, 2} /\ n = Load!Indent(n[2], n[3])
  BY <1>4 DEF Load!Indent
<1> QED BY <1>1, <1>2, <1>3, <1>4 DEF Load!Nodes

(* NULL is no node. *)
LEMMA NullNode == Load!Null \notin Load!Nodes /\ Load!Null[1] = "null"
<1>1. Load!Null[1] = "null"
  BY DEF Load!Null
<1> QED BY <1>1, NodeKinds

(* With the item it is in, an item is dropped. *)
LEMMA KeptIs ==
  ASSUME doc \in Documents
  PROVE  /\ \A i \in Load!Ids : i \in Load!Kept => doc.parent[i] \in Load!Kept \cup {0}
         /\ \A i \in Load!Ids : i \notin Load!Kept =>
              \E k \in Load!Killed : i = k \/ k \in Load!Outer(i)
         /\ \A i \in Load!Ids, k \in Load!Killed : i = k \/ k \in Load!Outer(i) => i \notin Load!Kept
         /\ Load!Kept \subseteq Load!Ids /\ Load!Killed \subseteq Load!Ids /\ Load!Kept \cap Load!Killed = {}
<1> DEFINE par == doc.parent
           Under(i) == \E k \in Load!Killed : i = k \/ k \in Load!Outer(i)
           Bad == {i \in Load!Ids : i \notin Load!Kept /\ ~Under(i)}
<1>1. N \in Nat /\ par \in [Load!Ids -> Load!Ids \cup {0}] /\ \A i \in Load!Ids : par[i] < i /\ i \in Nat /\ i # 0
  BY DocumentType DEF Load!Ids
<1>2. \A i \in Load!Ids : /\ par[i] = 0 => Load!Outer(i) = {}
                          /\ par[i] # 0 => Load!Outer(i) = {par[i]} \cup Load!Outer(par[i])
  <2>1. \A i : 0 \notin Load!Outer(i)
    BY DEF Load!Outer
  <2> QED BY <2>1, OuterIs
<1>3. ASSUME NEW i \in Load!Ids, par[i] # 0 PROVE Load!InKilled(i) <=> Load!KillMe(par[i]) \/ Load!InKilled(par[i])
  BY <1>2, <1>3 DEF Load!InKilled
<1>4. ASSUME NEW i \in Load!Ids, par[i] = 0 PROVE ~Load!InKilled(i)
  BY <1>2, <1>4 DEF Load!InKilled
<1>5. ASSUME NEW i \in Load!Ids, i \in Load!Kept PROVE par[i] \in Load!Kept \cup {0}
  BY <1>1, <1>3, <1>5 DEF Load!Kept
<1>6. Bad = {}
  <2> SUFFICES ASSUME Bad # {} PROVE FALSE
    OBVIOUS
  <2>1. Bad \in SUBSET Nat
    BY <1>1
  <2>2. PICK i \in Bad : \A k \in Bad : i <= k
    <3> HIDE DEF Bad
    <3> QED BY <2>1, LeastNat
  <2>3. i \in Load!Ids /\ i \notin Load!Kept /\ ~Under(i)
    BY <2>2
  <2>4. Load!InKilled(i)
    BY <2>3 DEF Load!Kept, Load!Killed
  <2>5. par[i] # 0 /\ par[i] \in Load!Ids
    BY <1>1, <1>4, <2>3, <2>4
  <2>6. par[i] \notin Load!Kept
    BY <1>3, <2>3, <2>4, <2>5 DEF Load!Kept
  <2>7. par[i] \notin Bad
    <3>1. par[i] < i /\ par[i] \in Nat /\ i \in Nat
      BY <1>1, <2>3, <2>5
    <3>2. ~(i <= par[i])
      BY <3>1
    <3> HIDE DEF Bad
    <3> QED BY <2>2, <3>2
  <2>8. PICK k \in Load!Killed : par[i] = k \/ k \in Load!Outer(par[i])
    BY <2>5, <2>6, <2>7
  <2>9. k \in Load!Outer(i)
    BY <1>2, <2>3, <2>5, <2>8
  <2> QED BY <2>3, <2>9
<1>7. ASSUME NEW i \in Load!Ids, NEW k \in Load!Killed, i = k \/ k \in Load!Outer(i) PROVE i \notin Load!Kept
  BY <1>7 DEF Load!Kept, Load!Killed, Load!InKilled
<1>8. Load!Kept \subseteq Load!Ids /\ Load!Killed \subseteq Load!Ids /\ Load!Kept \cap Load!Killed = {}
  BY DEF Load!Kept, Load!Killed
<1> QED BY <1>5, <1>6, <1>7, <1>8

(* A list of one node. *)
LEMMA OneNode == ASSUME NEW S, NEW x \in S PROVE <<x>> \in Seq(S) /\ Range(<<x>>) = {x} /\ Distinct(<<x>>) /\ Len(<<x>>) = 1
<1>1. <<x>> \in Seq(S) /\ DOMAIN <<x>> = {1} /\ <<x>>[1] = x /\ Len(<<x>>) = 1
  OBVIOUS
<1> QED BY <1>1 DEF Range, Distinct

(* A list of none. *)
LEMMA NoNodes == Range(<<>>) = {} /\ Distinct(<<>>) /\ \A S : <<>> \in Seq(S)
BY EmptySeq DEF Range, Distinct

(* The associations in an item, in the feed. *)
LEMMA LinksOfIs ==
  ASSUME doc \in Documents, NEW i \in Tree
  PROVE  /\ Load!LinksOf(doc, i) \in Seq(Load!Nodes) /\ Load!LinksOf(doc, i) \in Seq(Load!Links)
         /\ Distinct(Load!LinksOf(doc, i))
         /\ \A n : n \in Range(Load!LinksOf(doc, i))
              <=> i # 0 /\ n \in Load!Links /\ n[2] = i /\ n[3] \in DOMAIN doc.links[i]
<1> DEFINE m == IF i = 0 THEN 0 ELSE Len(doc.links[i])
           s == [k \in 1 .. m |-> <<"link", i, k>>]
<1>1. s = Load!LinksOf(doc, i)
  BY DEF Load!LinksOf
<1>2. m \in Nat /\ (i # 0 => m <= MaxLinks /\ DOMAIN doc.links[i] = 1 .. m /\ i \in Load!Ids)
  <2>1. CASE i = 0
    BY <2>1
  <2>2. CASE i # 0
    <3>1. i \in Load!Ids
      BY <2>2 DEF Tree
    <3>2. doc.links[i] \in Seq(Load!Ids \cup {0, Load!AnAssociation}) /\ Len(doc.links[i]) <= MaxLinks
      BY <3>1, DocumentType
    <3> QED BY <2>2, <3>1, <3>2, LenProperties
  <2> QED BY <2>1, <2>2
<1> HIDE DEF m
<1>3. \A k \in 1 .. m : i \in Load!Ids /\ k \in 1 .. MaxLinks
  <2>1. i = 0 => m = 0
    BY DEF m
  <2>2. MaxLinks \in Nat
    BY DocumentType
  <2> QED BY <1>2, <2>1, <2>2
<1>4. \A k \in 1 .. m : <<"link", i, k>> \in Load!Links
  BY <1>3 DEF Load!Links
<1>5. s \in [1 .. m -> Load!Links] /\ s \in [1 .. m -> Load!Nodes]
  BY <1>4, LinkNode
<1>6. s \in Seq(Load!Links) /\ s \in Seq(Load!Nodes)
  BY <1>2, <1>5, SeqDef
<1>7. Distinct(s)
  BY DEF Distinct
<1>8. ASSUME NEW n PROVE n \in Range(s) <=> i # 0 /\ n \in Load!Links /\ n[2] = i /\ n[3] \in DOMAIN doc.links[i]
  <2>1. ASSUME n \in Range(s) PROVE i # 0 /\ n \in Load!Links /\ n[2] = i /\ n[3] \in DOMAIN doc.links[i]
    <3>1. PICK k \in 1 .. m : n = <<"link", i, k>>
      BY <2>1 DEF Range
    <3>2. i # 0
      BY <3>1 DEF m
    <3> QED BY <1>2, <1>4, <3>1, <3>2
  <2>2. ASSUME i # 0, n \in Load!Links, n[2] = i, n[3] \in DOMAIN doc.links[i] PROVE n \in Range(s)
    <3>1. n = <<"link", i, n[3]>> /\ n[3] \in 1 .. m
      BY <1>2, <2>2 DEF Load!Links
    <3> QED BY <3>1 DEF Range
  <2> QED BY <2>1, <2>2
<1> QED BY <1>1, <1>6, <1>7, <1>8

(* The items in an item, in the feed. *)
LEMMA NestedIs ==
  ASSUME doc \in Documents, NEW i \in Tree
  PROVE  /\ Load!Nested(doc, i) \in Seq(Load!Nodes) /\ Distinct(Load!Nested(doc, i))
         /\ \A n : n \in Range(Load!Nested(doc, i)) <=> \E j \in Load!Ids : n = Load!Item(j) /\ doc.parent[j] = i
<1> DEFINE ss == [j \in Load!Ids |-> IF doc.parent[j] = i THEN <<Load!Item(j)>> ELSE <<>>]
<1>1. Load!Nested(doc, i) = FlattenSeq(ss)
  BY SameOperators DEF Load!Nested
<1>2. N \in Nat /\ Load!Ids = 1 .. N
  BY DocumentType DEF Load!Ids
<1>3. \A j \in Load!Ids : /\ ss[j] \in Seq(Load!Nodes) /\ Distinct(ss[j])
                          /\ \A n : n \in Range(ss[j]) <=> n = Load!Item(j) /\ doc.parent[j] = i
  <2> SUFFICES ASSUME NEW j \in Load!Ids
               PROVE  /\ ss[j] \in Seq(Load!Nodes) /\ Distinct(ss[j])
                      /\ \A n : n \in Range(ss[j]) <=> n = Load!Item(j) /\ doc.parent[j] = i
    OBVIOUS
  <2>1. CASE doc.parent[j] = i
    <3>1. ss[j] = <<Load!Item(j)>> /\ Load!Item(j) \in Load!Nodes
      BY <2>1, ItemNode
    <3> QED BY <2>1, <3>1, OneNode
  <2>2. CASE doc.parent[j] # i
    <3>1. ss[j] = <<>>
      BY <2>2
    <3> QED BY <2>2, <3>1, NoNodes
  <2> QED BY <2>1, <2>2
<1>4. ss \in [1 .. N -> Seq(Load!Nodes)]
  BY <1>2, <1>3
<1> HIDE DEF ss
<1>5. \A j, k \in 1 .. N : j # k => Range(ss[j]) \cap Range(ss[k]) = {}
  <2>1. \A j, k \in Load!Ids : Load!Item(j) = Load!Item(k) => j = k
    BY ItemNode
  <2>2. ASSUME NEW j \in Load!Ids, NEW k \in Load!Ids, NEW n \in Range(ss[j]), n \in Range(ss[k]) PROVE j = k
    <3>1. n = Load!Item(j) /\ n = Load!Item(k)
      BY <1>3, <2>2
    <3> QED BY <2>1, <3>1
  <2> QED BY <1>2, <2>2
<1>6. Distinct(FlattenSeq(ss))
  BY <1>2, <1>3, <1>4, <1>5, FlattenDistinct
<1>7. FlattenSeq(ss) \in Seq(Load!Nodes) /\ \A n : n \in Range(FlattenSeq(ss)) <=> \E j \in 1 .. N : n \in Range(ss[j])
  BY <1>2, <1>4, FlattenSeqIs
<1> QED BY <1>1, <1>2, <1>3, <1>6, <1>7

(* Children between two texts of white space. *)
LEMMA Wrapped ==
  ASSUME NEW S, NEW s \in Seq(S), NEW x \in S, NEW y \in S, x # y, x \notin Range(s), y \notin Range(s), Distinct(s)
  PROVE  LET t == (<<x>> \o s) \o <<y>>
         IN  /\ t \in Seq(S) /\ Distinct(t) /\ Range(t) = {x, y} \cup Range(s)
             /\ Len(t) >= 1 /\ t[1] = x /\ t[Len(t)] = y
<1> DEFINE o == <<x>>
           e == <<y>>
           u == o \o s
           t == u \o e
<1>1. o \in Seq(S) /\ e \in Seq(S) /\ Len(o) = 1 /\ Len(e) = 1 /\ Distinct(o) /\ Distinct(e)
      /\ Range(o) = {x} /\ Range(e) = {y} /\ Len(s) \in Nat
  BY OneNode, LenProperties
<1>2. 1 \in DOMAIN o /\ 1 \in DOMAIN e /\ o[1] = x /\ e[1] = y
  OBVIOUS
<1> HIDE DEF o, e
<1>3. u \in Seq(S) /\ Len(u) = 1 + Len(s) /\ Range(u) = {x} \cup Range(s) /\ Distinct(u)
  <2>1. u \in Seq(S) /\ Len(u) = 1 + Len(s)
    BY <1>1, Joined
  <2>2. Range(u) = Range(o) \cup Range(s)
    BY <1>1, JoinedRange
  <2>3. Range(o) \cap Range(s) = {}
    BY <1>1
  <2>4. Distinct(u)
    BY <1>1, <2>3, JoinedDistinct
  <2> QED BY <1>1, <2>1, <2>2, <2>4
<1>4. u[1] = x /\ 1 \in DOMAIN u
  BY <1>1, <1>2, Joined
<1> HIDE DEF u
<1>5. t \in Seq(S) /\ Len(t) = Len(u) + 1 /\ Range(t) = {x, y} \cup Range(s) /\ Distinct(t)
  <2>1. t \in Seq(S) /\ Len(t) = Len(u) + 1
    <3>1. u \in Seq(S) /\ e \in Seq(S) /\ Len(e) = 1
      BY <1>1, <1>3
    <3> QED BY <3>1, ConcatProperties
  <2>2. Range(t) = Range(u) \cup Range(e)
    BY <1>1, <1>3, JoinedRange
  <2>3. Range(u) \cap Range(e) = {}
    BY <1>1, <1>3
  <2>4. Distinct(t)
    BY <1>1, <1>3, <2>3, JoinedDistinct
  <2>5. Range(t) = {x, y} \cup Range(s)
    BY <1>1, <1>3, <2>2
  <2> QED BY <2>1, <2>4, <2>5
<1>6. t[1] = x
  BY <1>1, <1>3, <1>4, Joined
<1>7. t[Len(u) + 1] = y
  <2>1. u \in Seq(S) /\ e \in Seq(S)
    BY <1>1, <1>3
  <2>2. \A k \in DOMAIN e : t[Len(u) + k] = e[k]
    BY <2>1, Joined
  <2> QED BY <1>2, <2>2
<1>8. Len(t) >= 1 /\ t[Len(t)] = y
  BY <1>1, <1>3, <1>5, <1>7
<1> QED BY <1>5, <1>6, <1>8 DEF u, o, e

(* A child list as it is read. *)
LEMMA ParsedIs ==
  ASSUME doc \in Documents, NEW i \in Tree
  PROVE  LET s == Load!Parsed(doc, i)
         IN  /\ s \in Seq(Load!Nodes) /\ Distinct(s)
             /\ \A n \in Load!Nodes : n \in Range(s) <=> InFeed(n) /\ OwnerOf(n) = i
             /\ doc.indented /\ i # 0 => Len(s) >= 1 /\ s[1] = Load!Indent(i, 1) /\ s[Len(s)] = Load!Indent(i, 2)
<1> DEFINE links == Load!LinksOf(doc, i)
           nested == Load!Nested(doc, i)
           els == links \o nested
           spaced == (<<Load!Indent(i, 1)>> \o els) \o <<Load!Indent(i, 2)>>
<1>1. links \in Seq(Load!Nodes) /\ nested \in Seq(Load!Nodes) /\ Distinct(links) /\ Distinct(nested)
  BY LinksOfIs, NestedIs
<1>2. Range(links) \cap Range(nested) = {}
  <2>1. \A n \in Range(links) : n[1] = "link"
    BY LinksOfIs, LinkNode
  <2>2. \A n \in Range(nested) : n[1] = "item"
    BY NestedIs, ItemNode
  <2> HIDE DEF links, nested
  <2>3. "link" # "item"
    OBVIOUS
  <2> QED BY <2>1, <2>2, <2>3
<1>3. \A n \in Load!Nodes : n \in Range(els) <=> (n[1] \in {"item", "link"} /\ InFeed(n) /\ OwnerOf(n) = i)
  <2> SUFFICES ASSUME NEW n \in Load!Nodes
               PROVE  n \in Range(links) \cup Range(nested) <=> (n[1] \in {"item", "link"} /\ InFeed(n) /\ OwnerOf(n) = i)
    BY <1>1, JoinedRange
  <2>1. CASE n[1] = "item"
    <3>1. n[2] \in Load!Ids /\ n = Load!Item(n[2])
      BY <2>1, NodeKinds
    <3>2. n \notin Range(links)
      BY <2>1, LinksOfIs, LinkNode
    <3>3. n \in Range(nested) <=> doc.parent[n[2]] = i
      BY <3>1, NestedIs, ItemNode
    <3> QED BY <2>1, <3>2, <3>3 DEF InFeed, OwnerOf
  <2>2. CASE n[1] = "link"
    <3>1. n \in Load!Links /\ n[2] \in Load!Ids /\ n[2] # 0
      BY <2>2, NodeKinds, LinkNode DEF Load!Ids
    <3>2. n \notin Range(nested)
      BY <2>2, NestedIs, ItemNode
    <3>3. n \in Range(links) <=> n[2] = i /\ n[3] \in DOMAIN doc.links[n[2]]
      BY <3>1, LinksOfIs
    <3> QED BY <2>2, <3>2, <3>3 DEF InFeed, OwnerOf
  <2>3. CASE n[1] \notin {"item", "link"}
    BY <2>3, LinksOfIs, NestedIs, LinkNode, ItemNode
  <2> QED BY <2>1, <2>2, <2>3
<1>4. els \in Seq(Load!Nodes) /\ Distinct(els)
  BY <1>1, <1>2, Joined, JoinedDistinct
<1>5. CASE doc.indented /\ i # 0
  <2>1. i \in Load!Ids
    BY <1>5 DEF Tree
  <2>2. /\ Load!Indent(i, 1) \in Load!Nodes /\ Load!Indent(i, 2) \in Load!Nodes /\ Load!Indent(i, 1) # Load!Indent(i, 2)
        /\ Load!Indent(i, 1)[1] = "text" /\ Load!Indent(i, 2)[1] = "text"
    BY <2>1, TextNode DEF Load!Indent
  <2>3. Load!Indent(i, 1) \notin Range(els) /\ Load!Indent(i, 2) \notin Range(els)
    BY <1>3, <2>2
  <2>4. Load!Parsed(doc, i) = spaced
    BY <1>5 DEF Load!Parsed
  <2>5. ASSUME NEW n \in Load!Nodes
        PROVE  n \in {Load!Indent(i, 1), Load!Indent(i, 2)} <=> n[1] = "text" /\ n[2] = i
    <3>1. n[1] = "text" => n[3] \in {1, 2} /\ n = Load!Indent(n[2], n[3])
      BY NodeKinds
    <3> QED BY <2>1, <3>1, TextNode
  <2> HIDE DEF els
  <2>6. /\ spaced \in Seq(Load!Nodes) /\ Distinct(spaced)
        /\ Range(spaced) = {Load!Indent(i, 1), Load!Indent(i, 2)} \cup Range(els)
        /\ Len(spaced) >= 1 /\ spaced[1] = Load!Indent(i, 1) /\ spaced[Len(spaced)] = Load!Indent(i, 2)
    BY <1>4, <2>2, <2>3, Wrapped
  <2> HIDE DEF spaced
  <2>7. ASSUME NEW n \in Load!Nodes PROVE n \in Range(spaced) <=> InFeed(n) /\ OwnerOf(n) = i
    <3>1. n \in Range(spaced) <=> (n[1] = "text" /\ n[2] = i) \/ (n[1] \in {"item", "link"} /\ InFeed(n) /\ OwnerOf(n) = i)
      BY <1>3, <2>5, <2>6
    <3> QED BY <1>5, <3>1 DEF InFeed, OwnerOf
  <2> QED BY <2>4, <2>6, <2>7
<1>6. CASE ~(doc.indented /\ i # 0)
  <2>1. Load!Parsed(doc, i) = els
    BY <1>6 DEF Load!Parsed
  <2> HIDE DEF els
  <2>2. ASSUME NEW n \in Load!Nodes PROVE n \in Range(els) <=> InFeed(n) /\ OwnerOf(n) = i
    <3>1. CASE n[1] = "text"
      <4>1. n[2] \in Load!Ids /\ n[2] # 0
        BY <3>1, NodeKinds DEF Load!Ids
      <4> QED BY <1>3, <1>6, <3>1, <4>1 DEF InFeed, OwnerOf
    <3>2. CASE n[1] # "text"
      BY <1>3, <3>2 DEF InFeed
    <3> QED BY <3>1, <3>2
  <2> QED BY <1>4, <1>6, <2>1, <2>2
<1> QED BY <1>5, <1>6

(* What depends on the document alone does not change with the tree. *)
LEMMA SameDoc ==
  ASSUME doc' = doc
  PROVE  /\ Load!Kept' = Load!Kept /\ Load!Killed' = Load!Killed /\ KeptLinks' = KeptLinks
         /\ LinksInKept' = LinksInKept /\ Load!KilledLinks' = Load!KilledLinks
         /\ \A a : Load!Target(a)' = Load!Target(a)
         /\ \A n : OwnerOf(n)' = OwnerOf(n) /\ InFeed(n)' = InFeed(n)
<1>1. \A i : Load!KillMe(i)' <=> Load!KillMe(i)
  BY DEF Load!KillMe
<1>2. \A i : Load!Outer(i)' = Load!Outer(i)
  BY DEF Load!Outer
<1>3. \A i : Load!InKilled(i)' <=> Load!InKilled(i)
  BY <1>1, <1>2 DEF Load!InKilled
<1>4. Load!Kept' = Load!Kept /\ Load!Killed' = Load!Killed
  BY <1>1, <1>3 DEF Load!Kept, Load!Killed
<1>5. KeptLinks' = KeptLinks /\ LinksInKept' = LinksInKept /\ Load!KilledLinks' = Load!KilledLinks
  <2>1. LinksInKept' = LinksInKept
    BY <1>4 DEF LinksInKept
  <2>2. Load!KilledLinks' = Load!KilledLinks
    BY <1>4 DEF Load!KilledLinks
  <2> QED BY <2>1, <2>2 DEF KeptLinks
<1>6. \A a : Load!Target(a)' = Load!Target(a)
  BY DEF Load!Target
<1>7. \A n : OwnerOf(n)' = OwnerOf(n) /\ InFeed(n)' = InFeed(n)
  BY <1>6 DEF OwnerOf, InFeed
<1> QED BY <1>4, <1>5, <1>6, <1>7

(* A node that shares nothing. *)
LEMMA NoViewIs == Load!NoView \in Load!Views /\ Load!Null \notin Load!Items /\ Load!NoView.of = 0
<1>1. Load!NoView \in Load!Views
  BY DEF Load!NoView, Load!Views
<1>2. Load!Null \notin Load!Items
  BY NullNode DEF Load!Nodes
<1> QED BY <1>1, <1>2 DEF Load!NoView

(* The tree as libxml2 has parsed it. *)
LEMMA StartOK == Load!Init => TreeInv
<1> SUFFICES ASSUME Load!Init PROVE TreeInv
  OBVIOUS
<1>1. doc \in Documents /\ phase = "parsed" /\ JustParsed
  BY DEF Load!Init, JustParsed, Tree
<1>2. \A i \in Tree : Load!Parsed(doc, i) \in Seq(Load!Nodes)
  BY <1>1, ParsedIs
<1>3. TreeOK
  <2>1. todo \in Seq(Load!Links)
    BY <1>1, EmptySeq DEF JustParsed
  <2>2. children \in [Tree -> Seq(Load!Nodes)]
    BY <1>1, <1>2 DEF JustParsed
  <2>3. view \in [Load!Links \cup Load!Pointers -> Load!Views]
    BY <1>1, NoViewIs DEF JustParsed
  <2>4. nodes \in [Tree -> Load!Items \cup Load!Links \cup {Load!Null}] /\ pointerNodes \in [Load!Ids -> SUBSET Load!Pointers]
    BY <1>1 DEF JustParsed
  <2>5. freed \in [Load!Nodes -> Nat] /\ deleted \in [Load!Items \cup Load!Links -> Nat]
    BY <1>1 DEF JustParsed
  <2> QED BY <1>1, <2>1, <2>2, <2>3, <2>4, <2>5 DEF TreeOK, JustParsed, Tree
<1> QED BY <1>1, <1>3 DEF TreeInv

(* What is freed with the killed items: the nodes of items that are not kept. *)
LEMMA GoneIs ==
  ASSUME doc \in Documents, JustParsed, NEW n \in Load!Nodes
  PROVE  n \in (UNION {Load!Subtree(k) : k \in Load!Killed}) \cup Load!KilledLinks <=>
           InFeed(n) /\ (n[2] \notin Load!Kept \/ n \in Load!KilledLinks)
<1> DEFINE In(j, k) == j = k \/ k \in Load!Outer(j)
<1>1. \A k \in Load!Killed : n \in Load!Subtree(k) <=>
         \E j \in Load!Ids : In(j, k) /\ (n = Load!Item(j) \/ n \in Range(children[j]))
  BY SameOperators DEF Load!Subtree
<1>2. \A j \in Load!Ids : n \in Range(children[j]) <=> InFeed(n) /\ OwnerOf(n) = j
  <2>1. \A j \in Load!Ids : j \in Tree /\ children[j] = Load!Parsed(doc, j)
    BY DEF JustParsed, Tree
  <2> QED BY <2>1, ParsedIs
<1>3. \A j \in Load!Ids : j # 0 /\ (j \notin Load!Kept <=> \E k \in Load!Killed : In(j, k))
  <2>1. 0 \notin Load!Ids
    BY DEF Load!Ids
  <2> QED BY <2>1, KeptIs
<1>4. n \in UNION {Load!Subtree(k) : k \in Load!Killed} <=>
      \E j \in Load!Ids : j \notin Load!Kept /\ (n = Load!Item(j) \/ (InFeed(n) /\ OwnerOf(n) = j))
  <2> HIDE DEF In
  <2>1. n \in UNION {Load!Subtree(k) : k \in Load!Killed} <=> \E k \in Load!Killed : n \in Load!Subtree(k)
    OBVIOUS
  <2> QED BY <1>1, <1>2, <1>3, <2>1
<1> HIDE DEF In
<1>a. n \in Load!KilledLinks => InFeed(n)
  BY LinkNode DEF Load!KilledLinks, InFeed
<1> DEFINE U == UNION {Load!Subtree(k) : k \in Load!Killed}
<1>b. n \in U <=> \E j \in Load!Ids : j \notin Load!Kept /\ (n = Load!Item(j) \/ (InFeed(n) /\ OwnerOf(n) = j))
  BY <1>4
<1> HIDE DEF U
<1> DEFINE Goal == n \in U <=> InFeed(n) /\ n[2] \notin Load!Kept
<1>5. ASSUME n[1] = "item" PROVE Goal
  <2>1. n \in Load!Items /\ n[2] \in Load!Ids /\ n = Load!Item(n[2]) /\ InFeed(n) /\ OwnerOf(n) = doc.parent[n[2]]
    BY <1>5, NodeKinds DEF InFeed, OwnerOf
  <2>2. \A j \in Load!Ids : n = Load!Item(j) => j = n[2]
    BY ItemNode
  <2>3. doc.parent[n[2]] \in Load!Ids /\ doc.parent[n[2]] \notin Load!Kept => n[2] \notin Load!Kept
    BY <1>3, <2>1, KeptIs
  <2> QED BY <1>b, <2>1, <2>2, <2>3
<1>6. ASSUME n[1] # "item", InFeed(n) PROVE Goal
  <2>1. OwnerOf(n) = n[2] /\ n[2] \in Load!Ids
    BY <1>6, NodeKinds, LinkNode DEF InFeed, OwnerOf
  <2>2. \A j \in Load!Ids : n # Load!Item(j)
    BY <1>6, ItemNode
  <2> QED BY <1>b, <1>6, <2>1, <2>2
<1>7. ASSUME ~InFeed(n) PROVE Goal
  <2>1. \A j \in Load!Ids : n # Load!Item(j)
    BY <1>7, ItemNode DEF InFeed
  <2> QED BY <1>b, <1>7, <2>1
<1>8. Goal
  BY <1>5, <1>6, <1>7
<1>9. n \in U \cup Load!KilledLinks <=> InFeed(n) /\ (n[2] \notin Load!Kept \/ n \in Load!KilledLinks)
  BY <1>a, <1>8
<1> QED BY <1>9 DEF U

(* The associations of the kept items, each once. *)
LEMMA AssociationsIs ==
  ASSUME doc \in Documents
  PROVE  LET links == Load!Without(FlattenSeq([i \in Load!Ids |-> IF i \in Load!Kept THEN Load!LinksOf(doc, i) ELSE <<>>]),
                                   Load!KilledLinks)
         IN  links \in Seq(Load!Links) /\ Range(links) = KeptLinks /\ Distinct(links)
<1> DEFINE ss == [i \in Load!Ids |-> IF i \in Load!Kept THEN Load!LinksOf(doc, i) ELSE <<>>]
<1>1. N \in Nat /\ Load!Ids = 1 .. N /\ 0 \notin Load!Ids
  BY DocumentType DEF Load!Ids
<1>2. \A i \in Load!Ids : /\ ss[i] \in Seq(Load!Links) /\ Distinct(ss[i])
                          /\ \A n : n \in Range(ss[i]) <=> n \in LinksInKept /\ n[2] = i
  <2> SUFFICES ASSUME NEW i \in Load!Ids
               PROVE  /\ ss[i] \in Seq(Load!Links) /\ Distinct(ss[i])
                      /\ \A n : n \in Range(ss[i]) <=> n \in LinksInKept /\ n[2] = i
    OBVIOUS
  <2>1. CASE i \in Load!Kept
    <3>1. ss[i] = Load!LinksOf(doc, i) /\ i \in Tree /\ i # 0
      BY <1>1, <2>1 DEF Tree
    <3> HIDE DEF ss
    <3> QED BY <2>1, <3>1, LinksOfIs DEF LinksInKept
  <2>2. CASE i \notin Load!Kept
    <3>1. ss[i] = <<>>
      BY <2>2
    <3> HIDE DEF ss
    <3> QED BY <2>2, <3>1, NoNodes DEF LinksInKept
  <2> QED BY <2>1, <2>2
<1>3. ss \in [1 .. N -> Seq(Load!Links)]
  BY <1>1, <1>2
<1> HIDE DEF ss
<1>4. \A i, j \in 1 .. N : i # j => Range(ss[i]) \cap Range(ss[j]) = {}
  <2>1. ASSUME NEW i \in Load!Ids, NEW j \in Load!Ids, NEW n \in Range(ss[i]), n \in Range(ss[j]) PROVE i = j
    <3>1. n[2] = i /\ n[2] = j
      BY <1>2, <2>1
    <3> QED BY <3>1
  <2> QED BY <1>1, <2>1
<1>5. Distinct(FlattenSeq(ss))
  BY <1>1, <1>2, <1>3, <1>4, FlattenDistinct
<1>6. FlattenSeq(ss) \in Seq(Load!Links) /\ \A n : n \in Range(FlattenSeq(ss)) <=> \E i \in 1 .. N : n \in Range(ss[i])
  BY <1>1, <1>3, FlattenSeqIs
<1>7. \A n : n \in Range(FlattenSeq(ss)) <=> n \in LinksInKept
  <2>1. \A n \in LinksInKept : n[2] \in Load!Ids
    BY LinkNode DEF LinksInKept
  <2> QED BY <1>1, <1>2, <1>6, <2>1
<1>8. Range(FlattenSeq(ss)) = LinksInKept
  BY <1>7
<1> DEFINE fs == FlattenSeq(ss)
           links == Load!Without(fs, Load!KilledLinks)
<1>9. fs \in Seq(Load!Links) /\ Distinct(fs) /\ Range(fs) = LinksInKept
  BY <1>5, <1>6, <1>8
<1> HIDE DEF fs
<1>10. links \in Seq(Load!Links) /\ Distinct(links) /\ \A x : x \in Range(links) <=> x \in Range(fs) /\ x \notin Load!KilledLinks
  BY <1>9, WithoutIs
<1> HIDE DEF links
<1>11. Range(links) = KeptLinks
  BY <1>9, <1>10 DEF KeptLinks
<1> QED BY <1>10, <1>11 DEF links, fs, ss

(* The first pass drops the staging items, frees their nodes and registers  *)
(* the others.                                                              *)
LEMMA MakeContextsOK ==
  ASSUME TreeInv, Load!MakeContexts
  PROVE  TreeInv'
<1> DEFINE links == Load!Without(FlattenSeq([i \in Load!Ids |-> IF i \in Load!Kept THEN Load!LinksOf(doc, i) ELSE <<>>]),
                                Load!KilledLinks)
           gone == (UNION {Load!Subtree(i) : i \in Load!Killed}) \cup Load!KilledLinks
           kept == Load!Kept
<1>1. /\ phase = "parsed" /\ phase' = "linking" /\ doc' = doc /\ todo' = links
      /\ children' = [i \in DOMAIN children |-> Load!Without(children[i], gone)]
      /\ nodes' = [i \in Tree |-> IF i = 0 THEN (IF links = <<>> THEN Load!Null ELSE Last(links))
                                  ELSE IF i \in kept THEN Load!Item(i) ELSE Load!Null]
      /\ freed' = [n \in Load!Nodes |-> IF n \in gone THEN 1 ELSE 0]
      /\ deleted' = [n \in Load!Items \cup Load!Links |->
                       IF n \in Load!KilledLinks \/ (n[1] = "item" /\ n[2] \in Load!Killed) THEN 1 ELSE 0]
      /\ view' = view /\ nodesToClean' = nodesToClean /\ nodesToClean2' = nodesToClean2 /\ pointerNodes' = pointerNodes
  BY SameOperators DEF Load!MakeContexts, Tree
<1>2. doc \in Documents /\ TreeOK /\ JustParsed
  BY <1>1 DEF TreeInv
<1>3. links \in Seq(Load!Links) /\ Range(links) = KeptLinks /\ Distinct(links)
  BY <1>2, AssociationsIs
<1>4. \A n \in Load!Nodes : n \in gone <=> InFeed(n) /\ (n[2] \notin kept \/ n \in Load!KilledLinks)
  BY <1>2, GoneIs
<1> HIDE DEF links, gone
<1>5. /\ Load!Kept' = Load!Kept /\ Load!Killed' = Load!Killed /\ KeptLinks' = KeptLinks /\ LinksInKept' = LinksInKept
      /\ \A a : Load!Target(a)' = Load!Target(a)
      /\ \A n : OwnerOf(n)' = OwnerOf(n) /\ InFeed(n)' = InFeed(n)
  BY <1>1, SameDoc
<1>a. \A n \in Load!KilledLinks : n \in Load!Links /\ n[1] = "link"
  BY LinkNode DEF Load!KilledLinks
<1>6. \A a : ~Spliced(a)'
  BY <1>1, <1>3, <1>5 DEF Spliced
<1>7. ASSUME NEW n \in Load!Nodes PROVE Present(n)' <=> InFeed(n) /\ n[2] \in kept /\ n \notin Load!KilledLinks
  <2>1. CASE n[1] = "item"
    BY <1>1, <1>5, <1>a, <2>1 DEF Present, InFeed
  <2>2. CASE n[1] = "link"
    <3>1. n \in Load!Links
      BY <2>2, NodeKinds
    <3> QED BY <1>1, <1>3, <1>5, <2>2, <3>1 DEF Present, InFeed, KeptLinks, LinksInKept
  <2>3. CASE n[1] = "text"
    BY <1>1, <1>5, <1>a, <2>3 DEF Present, InFeed
  <2>4. CASE n[1] = "pointer"
    BY <1>6, <2>4 DEF Present, InFeed
  <2> QED BY <2>1, <2>2, <2>3, <2>4, NodeKinds
<1>8. /\ DOMAIN children = Tree
      /\ \A i \in Tree : /\ children[i] = Load!Parsed(doc, i) /\ children'[i] = Load!Without(children[i], gone)
                         /\ children[i] \in Seq(Load!Nodes) /\ Distinct(children[i])
                         /\ \A n \in Load!Nodes : n \in Range(children[i]) <=> InFeed(n) /\ OwnerOf(n) = i
                         /\ doc.indented /\ i # 0 => /\ Len(children[i]) >= 1 /\ children[i][1] = Load!Indent(i, 1)
                                                     /\ children[i][Len(children[i])] = Load!Indent(i, 2)
  <2>1. DOMAIN children = Tree /\ \A i \in Tree : children[i] = Load!Parsed(doc, i)
    BY <1>2 DEF JustParsed
  <2>2. \A i \in Tree : children'[i] = Load!Without(children[i], gone)
    BY <1>1, <2>1
  <2> QED BY <1>2, <2>1, <2>2, ParsedIs
<1>9. ASSUME NEW i \in Tree
      PROVE  /\ children'[i] \in Seq(Load!Nodes) /\ Distinct(children'[i])
             /\ \A n \in Load!Nodes : n \in Range(children'[i]) <=> n \in Range(children[i]) /\ n \notin gone
             /\ children[i] # <<>> /\ children[i][1] \notin gone => Len(children'[i]) >= 1 /\ children'[i][1] = children[i][1]
             /\ children[i] # <<>> /\ children[i][Len(children[i])] \notin gone =>
                  Len(children'[i]) >= 1 /\ children'[i][Len(children'[i])] = children[i][Len(children[i])]
  <2> DEFINE s == children[i]
             t == Load!Without(s, gone)
  <2>1. s \in Seq(Load!Nodes) /\ Distinct(s) /\ children'[i] = t
    BY <1>8
  <2> HIDE DEF s
  <2>2. /\ t \in Seq(Load!Nodes) /\ Distinct(t) /\ \A x : x \in Range(t) <=> x \in Range(s) /\ x \notin gone
        /\ s # <<>> /\ s[1] \notin gone => Len(t) >= 1 /\ t[1] = s[1]
        /\ s # <<>> /\ s[Len(s)] \notin gone => Len(t) >= 1 /\ t[Len(t)] = s[Len(s)]
    BY <2>1, WithoutIs
  <2> HIDE DEF t
  <2> QED BY <2>1, <2>2 DEF s
<1>10. ListsHeld'
  <2>1. \A i \in Tree, n \in Load!Nodes : n \in Range(children'[i]) <=> Present(n)' /\ OwnerOf(n)' = i
    BY <1>4, <1>5, <1>7, <1>8, <1>9
  <2> QED BY <1>9, <2>1 DEF ListsHeld, Tree
<1>11. FreedSoFar'
  BY <1>1, <1>4, <1>5, <1>7 DEF FreedSoFar
<1>12. DeletedSoFar'
  <2>1. \A i \in Load!Ids : deleted'[Load!Item(i)] = IF i \in Load!Killed THEN 1 ELSE 0
    BY <1>1, <1>a, ItemNode
  <2>2. \A a \in Load!Links : deleted'[a] = IF a \in Load!KilledLinks THEN 1 ELSE 0
    BY <1>1, LinkNode
  <2>3. \A a \in Load!Links : a \in Load!KilledLinks <=> a \in LinksInKept /\ a \notin Range(links)
    BY <1>3 DEF KeptLinks, LinksInKept, Load!KilledLinks
  <2> QED BY <1>1, <1>5, <2>1, <2>2, <2>3 DEF DeletedSoFar
<1>13. Left'
  BY <1>1, <1>3, <1>5 DEF Left
<1>14. Registered'
  <2>1. \A i \in Load!Ids : i \in Tree /\ i # 0
    BY DEF Load!Ids, Tree
  <2>2. \A i \in Load!Ids : nodes'[i] = IF i \in kept THEN Load!Item(i) ELSE Load!Null
    BY <1>1, <2>1
  <2> QED BY <1>5, <2>2 DEF Registered
<1>15. Shared'
  <2>1. \A a \in Load!Links : view'[a] = Load!NoView /\ view'[Load!Pointer(a)] = Load!NoView
    BY <1>1, <1>2, LinkNode DEF JustParsed
  <2> QED BY <1>6, <2>1 DEF Shared
<1>16. PointersOwned' /\ \A i \in Load!Ids : pointerNodes'[i] = {}
  BY <1>1, <1>2 DEF JustParsed, PointersOwned
<1>17. Edges'
  <2> SUFFICES ASSUME doc.indented, NEW i \in kept
               PROVE  /\ Len(children'[i]) >= 1 /\ children'[i][1] = Load!Indent(i, 1)
                      /\ children'[i][Len(children'[i])] \notin Load!Links /\ pointerNodes'[i] = {}
    BY <1>1, <1>5, <1>6 DEF Edges
  <2>1. i \in Load!Ids /\ i \in Tree /\ i # 0
    BY DEF Load!Ids, Load!Kept, Tree
  <2>2. Load!Indent(i, 1) \notin gone /\ Load!Indent(i, 2) \notin gone /\ Load!Indent(i, 2) \notin Load!Links
    BY <1>4, <1>a, <2>1, TextNode
  <2>3. children[i] # <<>> /\ children[i][1] = Load!Indent(i, 1) /\ children[i][Len(children[i])] = Load!Indent(i, 2)
    BY <1>8, <2>1
  <2> QED BY <1>9, <1>16, <2>1, <2>2, <2>3
<1>18. TreeOK'
  <2>1. todo' \in Seq(Load!Links)
    BY <1>1, <1>3
  <2>2. children' \in [Tree -> Seq(Load!Nodes)]
    BY <1>1, <1>8, <1>9
  <2>3. nodes' \in [Tree -> Load!Items \cup Load!Links \cup {Load!Null}]
    <3>1. links # <<>> => Last(links) \in Load!Links
      BY <1>3, EmptySeq, LenProperties, ElementOfSeq DEF Last
    <3>2. \A i \in kept : Load!Item(i) \in Load!Items
      BY ItemNode DEF Load!Kept
    <3> QED BY <1>1, <3>1, <3>2
  <2>4. freed' \in [Load!Nodes -> Nat] /\ deleted' \in [Load!Items \cup Load!Links -> Nat]
    BY <1>1
  <2>5. view' \in [Load!Links \cup Load!Pointers -> Load!Views] /\ pointerNodes' \in [Load!Ids -> SUBSET Load!Pointers]
        /\ nodesToClean' \subseteq Load!Pointers /\ nodesToClean2' \subseteq Load!Links
    BY <1>1, <1>2 DEF TreeOK
  <2> QED BY <1>1, <2>1, <2>2, <2>3, <2>4, <2>5 DEF TreeOK, Tree
<1> QED BY <1>1, <1>2, <1>10, <1>11, <1>12, <1>13, <1>14, <1>15, <1>16, <1>17, <1>18 DEF TreeInv

(* The next association of the loop. *)
LEMMA NextAssociation ==
  ASSUME TreeInv, phase = "linking", todo # <<>>
  PROVE  LET a == Head(todo)
         IN  /\ a \in Load!Links /\ a \in KeptLinks /\ a[2] \in Load!Ids /\ a[2] \in Load!Kept /\ a \in Range(todo)
             /\ Tail(todo) \in Seq(Load!Links) /\ Distinct(Tail(todo))
             /\ \A b : b \in Range(Tail(todo)) <=> b \in Range(todo) /\ b # a
             /\ a \in LinksInKept /\ (Load!Found(a) <=> Load!Target(a) \in Load!Kept)
<1> DEFINE a == Head(todo)
           n == Len(todo)
<1>1. doc \in Documents /\ TreeOK /\ Left /\ Registered
  BY DEF TreeInv
<1>2. todo \in Seq(Load!Links) /\ n \in Nat /\ n # 0 /\ DOMAIN todo = 1 .. n
  BY <1>1, EmptySeq, LenProperties DEF TreeOK
<1>3. a = todo[1] /\ 1 \in DOMAIN todo
  BY <1>2, HeadTailProperties
<1>4. a \in Range(todo) /\ a \in KeptLinks
  BY <1>1, <1>3 DEF Range, Left
<1>5. a \in Load!Links /\ a[2] \in Load!Kept /\ a[2] \in Load!Ids /\ a[3] \in DOMAIN doc.links[a[2]]
  BY <1>4, LinkNode DEF KeptLinks, LinksInKept
<1>6. /\ Tail(todo) \in Seq(Load!Links) /\ DOMAIN Tail(todo) = 1 .. n - 1
      /\ \A k \in 1 .. n - 1 : Tail(todo)[k] = todo[k + 1]
  <2>1. Tail(todo) \in Seq(Load!Links) /\ Len(Tail(todo)) = n - 1
    BY <1>2, HeadTailProperties
  <2>2. \A k \in 1 .. n - 1 : Tail(todo)[k] = todo[k + 1]
    BY <1>2, <2>1, HeadTailProperties
  <2> QED BY <2>1, <2>2, LenProperties
<1>7. \A k \in 1 .. n - 1 : k + 1 \in DOMAIN todo /\ k + 1 # 1
  BY <1>2
<1>8. Distinct(Tail(todo))
  <2>1. \A j, k \in 1 .. n - 1 : todo[j + 1] = todo[k + 1] => j = k
    BY <1>1, <1>7 DEF Left, Distinct
  <2> QED BY <1>6, <2>1 DEF Distinct
<1>9. ASSUME NEW b PROVE b \in Range(Tail(todo)) <=> b \in Range(todo) /\ b # a
  <2>1. ASSUME b \in Range(Tail(todo)) PROVE b \in Range(todo) /\ b # a
    <3>1. PICK k \in 1 .. n - 1 : b = todo[k + 1]
      BY <1>6, <2>1 DEF Range
    <3>2. b \in Range(todo)
      BY <1>7, <3>1 DEF Range
    <3>3. b # a
      BY <1>1, <1>3, <1>7, <3>1 DEF Left, Distinct
    <3> QED BY <3>2, <3>3
  <2>2. ASSUME b \in Range(todo), b # a PROVE b \in Range(Tail(todo))
    <3>1. PICK k \in 1 .. n : b = todo[k]
      BY <1>2, <2>2 DEF Range
    <3>2. k # 1
      BY <1>3, <2>2, <3>1
    <3>3. k - 1 \in 1 .. n - 1 /\ (k - 1) + 1 = k
      BY <1>2, <3>2
    <3>4. Tail(todo)[k - 1] = b
      BY <1>6, <3>1, <3>3
    <3> QED BY <1>6, <3>3, <3>4 DEF Range
  <2> QED BY <2>1, <2>2
<1>10. Load!Found(a) <=> Load!Target(a) \in Load!Kept
  <2> DEFINE t == Load!Target(a)
  <2>1. Load!Kept \subseteq Load!Ids
    BY DEF Load!Kept
  <2>2. \A i \in Load!Ids : Load!Item(i) # Load!Null
    BY ItemNode, NullNode
  <2>3. \A i \in Load!Ids : nodes[i] # Load!Null <=> i \in Load!Kept
    BY <1>1, <2>2 DEF Registered
  <2> HIDE DEF t
  <2>4. (t \in Load!Ids /\ nodes[t] # Load!Null) <=> t \in Load!Kept
    BY <2>1, <2>3
  <2> QED BY <2>4 DEF Load!Found, t
<1>11. a \in LinksInKept
  BY <1>5 DEF LinksInKept
<1> QED BY <1>4, <1>5, <1>6, <1>8, <1>9, <1>10, <1>11

(* Which nodes are in the tree after one association. *)
LEMMA PresentNext ==
  ASSUME TreeInv, phase = "linking", todo # <<>>, todo' = Tail(todo), doc' = doc
  PROVE  LET a == Head(todo)
         IN  /\ Present(a) /\ ~Present(Load!Pointer(a)) /\ ~Spliced(a)
             /\ \A b : Spliced(b)' <=> Spliced(b) \/ (b = a /\ Load!Target(a) \in Load!Kept)
             /\ \A n \in Load!Nodes : Present(n)' <=>
                  \/ Present(n) /\ (n = a => Load!Target(a) \in Load!Kept)
                  \/ n = Load!Pointer(a) /\ Load!Target(a) \in Load!Kept
<1> DEFINE a == Head(todo)
           t == Load!Target(a)
<1>1. /\ a \in Load!Links /\ a \in KeptLinks /\ a \in Range(todo)
      /\ \A b : b \in Range(todo') <=> b \in Range(todo) /\ b # a
  BY NextAssociation
<1>2. /\ Load!Kept' = Load!Kept /\ KeptLinks' = KeptLinks /\ \A b : Load!Target(b)' = Load!Target(b)
      /\ doc'.indented = doc.indented
  BY SameDoc
<1>3. /\ a[1] = "link" /\ a \in Load!Nodes /\ LinkOf(a) = a /\ Load!Pointer(a) \in Load!Nodes
      /\ Load!Pointer(a)[1] = "pointer" /\ LinkOf(Load!Pointer(a)) = a
  BY <1>1, LinkNode
<1> HIDE DEF a
<1>4. ~Spliced(a) /\ \A b : Spliced(b)' <=> Spliced(b) \/ (b = a /\ t \in Load!Kept)
  BY <1>1, <1>2 DEF Spliced
<1>5. Present(a) /\ ~Present(Load!Pointer(a))
  BY <1>1, <1>3, <1>4 DEF Present
<1>6. ASSUME NEW n \in Load!Nodes
      PROVE  Present(n)' <=> (Present(n) /\ (n = a => t \in Load!Kept)) \/ (n = Load!Pointer(a) /\ t \in Load!Kept)
  <2>1. CASE n[1] = "item"
    BY <1>2, <1>3, <2>1 DEF Present
  <2>2. CASE n[1] = "link"
    BY <1>1, <1>2, <1>3, <2>2 DEF Present
  <2>3. CASE n[1] = "text"
    BY <1>2, <1>3, <2>3 DEF Present
  <2>4. CASE n[1] = "pointer"
    <3>1. LinkOf(n) = a <=> n = Load!Pointer(a)
      BY <1>3, <2>4, NodeKinds, PointerNode
    <3> QED BY <1>3, <1>4, <2>4, <3>1 DEF Present
  <2> QED BY <2>1, <2>2, <2>3, <2>4, NodeKinds
<1> QED BY <1>4, <1>5, <1>6 DEF a

(* An association without a target is taken out and freed. *)
LEMMA CouldNotFindOK ==
  ASSUME TreeInv, Load!CouldNotFind
  PROVE  TreeInv'
<1> DEFINE a == Head(todo)
           i == a[2]
           t == Load!Target(a)
<1>1. /\ phase = "linking" /\ phase' = "linking" /\ todo # <<>> /\ ~Load!Found(a) /\ todo' = Tail(todo) /\ doc' = doc
      /\ children' = [children EXCEPT ![i] = Load!Without(@, {a})]
      /\ freed' = [freed EXCEPT ![a] = @ + 1] /\ deleted' = [deleted EXCEPT ![a] = @ + 1]
      /\ view' = view /\ nodes' = nodes /\ nodesToClean' = nodesToClean /\ nodesToClean2' = nodesToClean2
      /\ pointerNodes' = pointerNodes
  BY DEF Load!CouldNotFind
<1>2. /\ doc \in Documents /\ TreeOK /\ Left /\ Registered /\ ListsHeld /\ FreedSoFar /\ DeletedSoFar /\ Shared
      /\ Edges /\ PointersOwned
  BY <1>1 DEF TreeInv
<1>3. /\ a \in Load!Links /\ a \in KeptLinks /\ i \in Load!Ids /\ i \in Tree /\ i \in Load!Kept /\ a \in Range(todo)
      /\ todo' \in Seq(Load!Links) /\ Distinct(todo')
      /\ \A b : b \in Range(todo') <=> b \in Range(todo) /\ b # a
      /\ t \notin Load!Kept
  BY <1>1, NextAssociation DEF Tree
<1>4. a[1] = "link" /\ a \in Load!Nodes /\ a \notin Load!Items
  BY <1>3, LinkNode
<1>5. /\ Load!Kept' = Load!Kept /\ Load!Killed' = Load!Killed /\ KeptLinks' = KeptLinks
      /\ LinksInKept' = LinksInKept /\ \A b : Load!Target(b)' = Load!Target(b)
      /\ \A n : OwnerOf(n)' = OwnerOf(n) /\ InFeed(n)' = InFeed(n)
  BY <1>1, SameDoc
<1>6. /\ Present(a) /\ \A b : Spliced(b)' <=> Spliced(b)
      /\ \A n \in Load!Nodes : Present(n)' <=> Present(n) /\ n # a
  BY <1>1, <1>3, PresentNext
<1> HIDE DEF a, i, t
<1>7. /\ children \in [Tree -> Seq(Load!Nodes)] /\ view \in [Load!Links \cup Load!Pointers -> Load!Views]
      /\ freed \in [Load!Nodes -> Nat] /\ deleted \in [Load!Items \cup Load!Links -> Nat]
  BY <1>2 DEF TreeOK, Tree
<1>8. /\ children'[i] \in Seq(Load!Nodes) /\ Distinct(children'[i])
      /\ \A x : x \in Range(children'[i]) <=> x \in Range(children[i]) /\ x # a
      /\ Len(children[i]) >= 1 /\ children[i][1] # a => Len(children'[i]) >= 1 /\ children'[i][1] = children[i][1]
      /\ Len(children[i]) >= 1 /\ children[i][Len(children[i])] # a =>
           Len(children'[i]) >= 1 /\ children'[i][Len(children'[i])] = children[i][Len(children[i])]
  <2> DEFINE s == children[i]
             r == Load!Without(s, {a})
  <2>1. s \in Seq(Load!Nodes) /\ Distinct(s) /\ children'[i] = r
    BY <1>1, <1>2, <1>3, <1>7 DEF ListsHeld
  <2> HIDE DEF s
  <2>2. Len(s) >= 1 => s # <<>>
    BY <2>1
  <2>3. /\ r \in Seq(Load!Nodes) /\ Distinct(r) /\ \A x : x \in Range(r) <=> x \in Range(s) /\ x \notin {a}
        /\ s # <<>> /\ s[1] \notin {a} => Len(r) >= 1 /\ r[1] = s[1]
        /\ s # <<>> /\ s[Len(s)] \notin {a} => Len(r) >= 1 /\ r[Len(r)] = s[Len(s)]
    BY <2>1, WithoutIs
  <2> HIDE DEF r
  <2> QED BY <2>1, <2>2, <2>3 DEF s
<1>9. \A j \in Tree : j # i => children'[j] = children[j]
  BY <1>1, <1>7
<1>10. ListsHeld'
  <2>1. \A j \in Tree : Distinct(children'[j])
    BY <1>2, <1>8, <1>9 DEF ListsHeld
  <2>2. OwnerOf(a) = i
    BY <1>4 DEF OwnerOf, i
  <2>3. ASSUME NEW j \in Tree, NEW n \in Load!Nodes PROVE n \in Range(children'[j]) <=> Present(n) /\ n # a /\ OwnerOf(n) = j
    <3>1. n \in Range(children[j]) <=> Present(n) /\ OwnerOf(n) = j
      BY <1>2 DEF ListsHeld
    <3>2. CASE j = i
      BY <1>8, <3>1, <3>2
    <3>3. CASE j # i
      BY <1>9, <2>2, <3>1, <3>3
    <3> QED BY <3>2, <3>3
  <2> QED BY <1>5, <1>6, <2>1, <2>3 DEF ListsHeld, Tree
<1>11. FreedSoFar'
  <2>1. freed[a] = 0 /\ InFeed(a)
    BY <1>2, <1>3, <1>4, <1>6 DEF FreedSoFar, InFeed, KeptLinks, LinksInKept
  <2>2. \A n \in Load!Nodes : freed'[n] = IF n = a THEN 1 ELSE freed[n]
    BY <1>1, <1>4, <1>7, <2>1
  <2> QED BY <1>2, <1>5, <1>6, <2>1, <2>2 DEF FreedSoFar
<1>12. DeletedSoFar'
  <2>1. deleted[a] = 0
    BY <1>2, <1>3 DEF DeletedSoFar, KeptLinks
  <2>2. \A n \in Load!Items \cup Load!Links : deleted'[n] = IF n = a THEN 1 ELSE deleted[n]
    BY <1>1, <1>3, <1>7, <2>1
  <2>3. \A j \in Load!Ids : Load!Item(j) # a /\ Load!Item(j) \in Load!Items
    BY <1>4, ItemNode
  <2>4. \A j \in Load!Ids : deleted'[Load!Item(j)] = deleted[Load!Item(j)]
    BY <2>2, <2>3
  <2>5. \A b \in Load!Links : deleted'[b] = IF b \in LinksInKept /\ b \notin Range(todo') THEN 1 ELSE 0
    BY <1>2, <1>3, <2>2 DEF DeletedSoFar, KeptLinks
  <2> QED BY <1>2, <1>5, <2>4, <2>5 DEF DeletedSoFar
<1>13. Left' /\ Registered'
  BY <1>1, <1>2, <1>3, <1>5 DEF Left, Registered
<1>14. Shared'
  BY <1>1, <1>2, <1>5, <1>6 DEF Shared
<1>15. PointersOwned'
  BY <1>1, <1>2, <1>6 DEF PointersOwned
<1>16. Edges'
  <2> SUFFICES ASSUME doc.indented PROVE Edges'
    BY <1>1 DEF Edges
  <2>1. ASSUME NEW j \in Load!Kept
        PROVE  /\ Len(children'[j]) >= 1 /\ children'[j][1] = Load!Indent(j, 1)
               /\ children'[j][Len(children'[j])] = children[j][Len(children[j])]
    <3>1. j \in Load!Ids /\ j \in Tree
      BY DEF Load!Kept, Tree
    <3>2. /\ Len(children[j]) >= 1 /\ children[j][1] = Load!Indent(j, 1)
          /\ children[j][Len(children[j])] \notin Load!Links
      BY <1>2 DEF Edges
    <3>3. Load!Indent(j, 1) # a
      BY <1>3, <3>1, TextNode
    <3>4. CASE j = i
      BY <1>3, <1>8, <3>2, <3>3, <3>4
    <3>5. CASE j # i
      BY <1>9, <3>1, <3>2, <3>5
    <3> QED BY <3>4, <3>5
  <2> QED BY <1>1, <1>2, <1>5, <1>6, <2>1 DEF Edges
<1>17. TreeOK'
  <2>1. children' \in [Tree -> Seq(Load!Nodes)]
    BY <1>1, <1>3, <1>7, <1>8, <1>9
  <2>2. freed' \in [Load!Nodes -> Nat]
    BY <1>1, <1>4, <1>7
  <2>3. deleted' \in [Load!Items \cup Load!Links -> Nat]
    BY <1>1, <1>3, <1>7
  <2>4. todo' \in Seq(Load!Links) /\ phase' = phase
    BY <1>1, <1>3
  <2> QED BY <1>1, <1>2, <2>1, <2>2, <2>3, <2>4 DEF TreeOK, Tree
<1> QED BY <1>1, <1>2, <1>10, <1>11, <1>12, <1>13, <1>14, <1>15, <1>16, <1>17 DEF TreeInv

(* A node put at the end of a list. *)
LEMMA AppendIs ==
  ASSUME NEW S, NEW s \in Seq(S), NEW x \in S
  PROVE  LET r == Append(s, x)
         IN  /\ r \in Seq(S) /\ Range(r) = Range(s) \cup {x} /\ Len(r) >= 1 /\ r[Len(r)] = x
             /\ Distinct(s) /\ x \notin Range(s) => Distinct(r)
             /\ Len(s) >= 1 => r[1] = s[1]
<1> DEFINE r == Append(s, x)
           n == Len(s)
<1>1. n \in Nat /\ DOMAIN s = 1 .. n
  BY LenProperties
<1>2. r \in Seq(S) /\ Len(r) = n + 1 /\ (\A k \in 1 .. n : r[k] = s[k]) /\ r[n + 1] = x
  BY AppendProperties
<1>3. DOMAIN r = 1 .. n + 1
  BY <1>2, LenProperties
<1> HIDE DEF r, n
<1>4. \A k \in 1 .. n + 1 : k \in 1 .. n \/ k = n + 1
  BY <1>1
<1>5. 1 .. n \subseteq 1 .. n + 1 /\ n + 1 \in 1 .. n + 1
  BY <1>1
<1>6. Range(r) = Range(s) \cup {x}
  BY <1>1, <1>2, <1>3, <1>4, <1>5 DEF Range
<1>7. ASSUME Distinct(s), x \notin Range(s) PROVE Distinct(r)
  <2>1. \A k \in 1 .. n : s[k] # x
    BY <1>1, <1>7 DEF Range
  <2> QED BY <1>1, <1>2, <1>3, <1>4, <1>7, <2>1 DEF Distinct
<1>8. n >= 1 => r[1] = s[1]
  BY <1>1, <1>2
<1>9. Len(r) >= 1 /\ r[Len(r)] = x
  BY <1>1, <1>2
<1> QED BY <1>2, <1>6, <1>7, <1>8, <1>9 DEF r, n

(* What a node sees that shares a list: its first and its last node. *)
LEMMA ViewIs ==
  ASSUME NEW i \in Tree, NEW s \in Seq(Load!Nodes)
  PROVE  /\ Load!View(i, s) \in Load!Views /\ Load!View(i, s).of = i
         /\ Len(s) >= 1 => Load!View(i, s).from = s[1] /\ Load!View(i, s).last = s[Len(s)]
<1>1. Len(s) \in Nat /\ DOMAIN s = 1 .. Len(s) /\ (s # <<>> => Len(s) # 0)
  BY LenProperties, EmptySeq
<1>2. Len(s) >= 1 => s # <<>>
  OBVIOUS
<1>3. s # <<>> => s[1] \in Load!Nodes /\ s[Len(s)] \in Load!Nodes
  BY <1>1, ElementOfSeq
<1>4. Load!FirstOf(s) \in Load!Nodes \cup {Load!Null} /\ Load!LastOf(s) \in Load!Nodes \cup {Load!Null}
  BY <1>3, SameOperators DEF Load!FirstOf, Load!LastOf, Last
<1>5. Len(s) >= 1 => Load!FirstOf(s) = s[1] /\ Load!LastOf(s) = s[Len(s)]
  BY <1>2, SameOperators DEF Load!FirstOf, Load!LastOf, Last
<1>6. /\ Load!View(i, s).of = i /\ Load!View(i, s).from = Load!FirstOf(s) /\ Load!View(i, s).last = Load!LastOf(s)
      /\ Load!View(i, s) \in Load!Views
  BY <1>4 DEF Load!View, Load!Views, Tree
<1> QED BY <1>5, <1>6

(* What is shared after an association was replaced by its target. *)
LEMMA ViewNext ==
  ASSUME TreeInv, Load!Associate
  PROVE  LET a == Head(todo)
             p == Load!Pointer(a)
             base(n) == IF n = a THEN Load!View(Load!Target(a), children[Load!Target(a)])
                        ELSE IF n = p THEN Load!View(a[2], children[a[2]]) ELSE view[n]
         IN  /\ view' \in [Load!Links \cup Load!Pointers -> Load!Views]
             /\ \A n \in Load!Links \cup Load!Pointers :
                  /\ view'[n].of = base(n).of /\ view'[n].from = base(n).from
                  /\ n \in pointerNodes'[Load!Target(a)] => view'[n].last = p
                  /\ n \notin pointerNodes'[Load!Target(a)] => view'[n] = base(n)
<1> DEFINE a == Head(todo)
           p == Load!Pointer(a)
           t == Load!Target(a)
           i == a[2]
           vt == Load!View(t, children[t])
           vi == Load!View(i, children[i])
           base(n) == IF n = a THEN vt ELSE IF n = p THEN vi ELSE view[n]
           new == [view EXCEPT ![a] = vt, ![p] = vi]
           D == Load!Links \cup Load!Pointers
<1>1. /\ phase = "linking" /\ todo # <<>> /\ Load!Found(a)
      /\ view' = [n \in DOMAIN new |-> IF n \in pointerNodes'[t] THEN [new[n] EXCEPT !.last = p] ELSE new[n]]
  BY DEF Load!Associate, Load!Updates
<1>2. /\ view \in [D -> Load!Views] /\ children \in [Tree -> Seq(Load!Nodes)]
  BY DEF TreeInv, TreeOK, Tree
<1>3. a \in Load!Links /\ i \in Tree /\ t \in Tree
  BY <1>1, NextAssociation DEF Tree, Load!Kept
<1>4. a \in D /\ p \in D /\ p \in Load!Nodes /\ a # p
  BY <1>3, LinkNode
<1>5. vt \in Load!Views /\ vi \in Load!Views
  BY <1>2, <1>3, ViewIs
<1> HIDE DEF a, p, t, i, vt, vi, D
<1>6. DOMAIN new = D /\ \A n \in D : new[n] = base(n)
  BY <1>2, <1>4
<1>7. \A n \in D : base(n) \in Load!Views
  BY <1>2, <1>5
<1> HIDE DEF new, base
<1>8. ASSUME NEW v \in Load!Views
      PROVE  LET w == [v EXCEPT !.last = p]
             IN  w \in Load!Views /\ w.of = v.of /\ w.from = v.from /\ w.last = p
  BY <1>4 DEF Load!Views
<1>9. ASSUME NEW n \in D
      PROVE  /\ view'[n] \in Load!Views /\ view'[n].of = base(n).of /\ view'[n].from = base(n).from
             /\ n \in pointerNodes'[t] => view'[n].last = p
             /\ n \notin pointerNodes'[t] => view'[n] = base(n)
  <2>1. view'[n] = IF n \in pointerNodes'[t] THEN [base(n) EXCEPT !.last = p] ELSE base(n)
    BY <1>1, <1>6
  <2> QED BY <1>7, <1>8, <2>1
<1>10. view' \in [D -> Load!Views]
  <2>1. view' = [n \in D |-> view'[n]]
    BY <1>1, <1>6
  <2> QED BY <1>9, <2>1
<1> QED BY <1>9, <1>10 DEF a, p, t, i, vt, vi, D, base

(* An association takes over its target's children, and the target gets a   *)
(* pointer node at the end of its own.                                      *)
LEMMA AssociateOK ==
  ASSUME TreeInv, Load!Associate
  PROVE  TreeInv'
<1> DEFINE a == Head(todo)
           i == a[2]
           t == Load!Target(a)
           p == Load!Pointer(a)
           D == Load!Links \cup Load!Pointers
           base(n) == IF n = a THEN Load!View(t, children[t]) ELSE IF n = p THEN Load!View(i, children[i]) ELSE view[n]
<1>1. /\ phase = "linking" /\ phase' = "linking" /\ todo # <<>> /\ Load!Found(a) /\ todo' = Tail(todo) /\ doc' = doc
      /\ children' = [children EXCEPT ![t] = Append(@, p)]
      /\ pointerNodes' = [pointerNodes EXCEPT ![i] = @ \cup {p}]
      /\ deleted' = [deleted EXCEPT ![a] = @ + 1] /\ freed' = freed /\ nodes' = nodes
      /\ nodesToClean' = nodesToClean \cup {p} /\ nodesToClean2' = nodesToClean2 \cup {a}
  BY DEF Load!Associate
<1>2. /\ doc \in Documents /\ TreeOK /\ Left /\ Registered /\ ListsHeld /\ FreedSoFar /\ DeletedSoFar /\ Shared
      /\ Edges /\ PointersOwned
  BY <1>1 DEF TreeInv
<1>3. /\ a \in Load!Links /\ a \in KeptLinks /\ i \in Load!Ids /\ i \in Tree /\ i \in Load!Kept /\ a \in Range(todo)
      /\ todo' \in Seq(Load!Links) /\ Distinct(todo')
      /\ \A b : b \in Range(todo') <=> b \in Range(todo) /\ b # a
      /\ t \in Load!Kept /\ t \in Tree /\ t \in Load!Ids
  BY <1>1, NextAssociation DEF Tree, Load!Kept
<1>4. /\ a[1] = "link" /\ a \in Load!Nodes /\ a \notin Load!Items /\ p \in Load!Pointers /\ p \in Load!Nodes
      /\ p[1] = "pointer" /\ p[2] = i /\ LinkOf(p) = a /\ p \notin Load!Links /\ a \notin Load!Pointers
  <2>1. \A q \in Load!Pointers : q[1] = "pointer"
    BY PointerNode
  <2> QED BY <1>3, <2>1, LinkNode
<1>5. /\ Load!Kept' = Load!Kept /\ Load!Killed' = Load!Killed /\ KeptLinks' = KeptLinks
      /\ LinksInKept' = LinksInKept /\ \A b : Load!Target(b)' = Load!Target(b)
      /\ \A n : OwnerOf(n)' = OwnerOf(n) /\ InFeed(n)' = InFeed(n)
  BY <1>1, SameDoc
<1>6. /\ Present(a) /\ ~Present(p) /\ ~Spliced(a) /\ \A b : Spliced(b)' <=> Spliced(b) \/ b = a
      /\ \A n \in Load!Nodes : Present(n)' <=> Present(n) \/ n = p
  BY <1>1, <1>3, PresentNext
<1>7. /\ view' \in [D -> Load!Views]
      /\ \A n \in D : /\ view'[n].of = base(n).of /\ view'[n].from = base(n).from
                      /\ n \in pointerNodes'[t] => view'[n].last = p
                      /\ n \notin pointerNodes'[t] => view'[n] = base(n)
  BY ViewNext
<1>8. \A b \in Load!Links : b \in D /\ Load!Pointer(b) \in D /\ Load!Pointer(b) \in Load!Pointers
                            /\ b # p /\ Load!Pointer(b) # a /\ (Load!Pointer(b) = p => b = a)
                            /\ LinkOf(Load!Pointer(b)) = b
  BY <1>4, LinkNode
<1>9. p \in D /\ a \in D
  BY <1>3, <1>4
<1>10. OwnerOf(p) = t
  BY <1>4 DEF OwnerOf
<1> HIDE DEF a, i, t, p, D
<1>11. /\ children \in [Tree -> Seq(Load!Nodes)] /\ view \in [D -> Load!Views]
       /\ freed \in [Load!Nodes -> Nat] /\ deleted \in [Load!Items \cup Load!Links -> Nat]
       /\ pointerNodes \in [Load!Ids -> SUBSET Load!Pointers]
  BY <1>2 DEF TreeOK, Tree, D
<1>12. /\ base(a).of = t /\ base(p).of = i /\ a # p
       /\ Len(children[t]) >= 1 => base(a).from = children[t][1]
       /\ Len(children[i]) >= 1 => base(p).from = children[i][1] /\ base(p).last = children[i][Len(children[i])]
       /\ \A n \in D : n # a /\ n # p => base(n) = view[n]
  BY <1>3, <1>4, <1>11, ViewIs
<1> HIDE DEF base
<1>13. /\ children'[t] \in Seq(Load!Nodes) /\ Distinct(children'[t]) /\ Range(children'[t]) = Range(children[t]) \cup {p}
       /\ Len(children'[t]) >= 1 /\ children'[t][Len(children'[t])] = p
       /\ Len(children[t]) >= 1 => children'[t][1] = children[t][1]
  <2> DEFINE s == children[t]
  <2>1. s \in Seq(Load!Nodes) /\ Distinct(s) /\ p \notin Range(s) /\ children'[t] = Append(s, p)
    BY <1>1, <1>2, <1>3, <1>4, <1>6, <1>11 DEF ListsHeld
  <2> HIDE DEF s
  <2> QED BY <1>4, <2>1, AppendIs DEF s
<1>14. \A j \in Tree : j # t => children'[j] = children[j]
  BY <1>1, <1>11
<1>15. \A j \in Load!Ids : pointerNodes'[j] = IF j = i THEN pointerNodes[j] \cup {p} ELSE pointerNodes[j]
  BY <1>1, <1>11
<1>16. PointersOwned'
  <2> SUFFICES ASSUME NEW j \in Load!Ids, NEW q \in pointerNodes'[j] PROVE q[2] = j /\ Spliced(LinkOf(q))'
    BY DEF PointersOwned
  <2>1. (q = p /\ j = i) \/ q \in pointerNodes[j]
    BY <1>15
  <2>2. CASE q = p /\ j = i
    BY <1>4, <1>6, <2>2
  <2>3. CASE q \in pointerNodes[j]
    BY <1>2, <1>6, <2>3 DEF PointersOwned
  <2> QED BY <2>1, <2>2, <2>3
<1>17. ListsHeld'
  <2>1. \A j \in Tree : Distinct(children'[j])
    BY <1>2, <1>13, <1>14 DEF ListsHeld
  <2>2. ASSUME NEW j \in Tree, NEW n \in Load!Nodes
        PROVE  n \in Range(children'[j]) <=> (Present(n) \/ n = p) /\ OwnerOf(n) = j
    <3>1. n \in Range(children[j]) <=> Present(n) /\ OwnerOf(n) = j
      BY <1>2 DEF ListsHeld
    <3>2. CASE j = t
      BY <1>10, <1>13, <3>1, <3>2
    <3>3. CASE j # t
      BY <1>10, <1>14, <3>1, <3>3
    <3> QED BY <3>2, <3>3
  <2> QED BY <1>5, <1>6, <2>1, <2>2 DEF ListsHeld, Tree
<1>18. FreedSoFar'
  <2>1. ~InFeed(p)
    BY <1>4 DEF InFeed
  <2> QED BY <1>1, <1>2, <1>5, <1>6, <2>1 DEF FreedSoFar
<1>19. DeletedSoFar'
  <2>1. deleted[a] = 0
    BY <1>2, <1>3 DEF DeletedSoFar, KeptLinks
  <2>2. \A n \in Load!Items \cup Load!Links : deleted'[n] = IF n = a THEN 1 ELSE deleted[n]
    BY <1>1, <1>3, <1>11, <2>1
  <2>3. \A j \in Load!Ids : Load!Item(j) # a /\ Load!Item(j) \in Load!Items
    BY <1>4, ItemNode
  <2>4. \A j \in Load!Ids : deleted'[Load!Item(j)] = deleted[Load!Item(j)]
    BY <2>2, <2>3
  <2>5. \A b \in Load!Links : deleted'[b] = IF b \in LinksInKept /\ b \notin Range(todo') THEN 1 ELSE 0
    BY <1>2, <1>3, <2>2 DEF DeletedSoFar, KeptLinks
  <2> QED BY <1>2, <1>5, <2>4, <2>5 DEF DeletedSoFar
<1>20. Left' /\ Registered'
  BY <1>1, <1>2, <1>3, <1>5 DEF Left, Registered
<1>21. Shared'
  <2>1. ASSUME NEW b \in Load!Links, Spliced(b)'
        PROVE  /\ view'[b].of = Load!Target(b) /\ b \in nodesToClean2'
               /\ view'[Load!Pointer(b)].of = b[2] /\ Load!Pointer(b) \in nodesToClean'
    <3>1. CASE b = a
      BY <1>1, <1>7, <1>9, <1>12, <3>1 DEF t, p, i
    <3>2. CASE b # a
      <4>1. Spliced(b)
        BY <1>6, <2>1, <3>2
      <4>2. /\ view[b].of = Load!Target(b) /\ b \in nodesToClean2
            /\ view[Load!Pointer(b)].of = b[2] /\ Load!Pointer(b) \in nodesToClean
        BY <1>2, <4>1 DEF Shared
      <4>3. base(b) = view[b] /\ base(Load!Pointer(b)) = view[Load!Pointer(b)]
        BY <1>8, <1>12, <3>2
      <4> QED BY <1>1, <1>7, <1>8, <4>2, <4>3
    <3> QED BY <3>1, <3>2
  <2>2. ASSUME NEW b \in Load!Links, ~Spliced(b)' PROVE view'[b] = Load!NoView /\ view'[Load!Pointer(b)] = Load!NoView
    <3>1. b # a /\ ~Spliced(b)
      BY <1>6, <2>2
    <3>2. base(b) = Load!NoView /\ base(Load!Pointer(b)) = Load!NoView
      BY <1>2, <1>8, <1>12, <3>1 DEF Shared
    <3>3. b \notin pointerNodes'[t]
      <4>1. pointerNodes'[t] \subseteq Load!Pointers
        BY <1>3, <1>4, <1>11, <1>15
      <4> QED BY <4>1, PointerNode, LinkNode
    <3>4. Load!Pointer(b) \notin pointerNodes'[t]
      BY <1>3, <1>8, <1>16, <2>2 DEF PointersOwned, LinkOf
    <3> QED BY <1>7, <1>8, <3>2, <3>3, <3>4
  <2> QED BY <1>5, <2>1, <2>2 DEF Shared
<1>22. Edges'
  <2> SUFFICES ASSUME doc.indented PROVE Edges'
    BY <1>1 DEF Edges
  <2>1. \A j \in Load!Kept : /\ Len(children[j]) >= 1 /\ children[j][1] = Load!Indent(j, 1)
                             /\ children[j][Len(children[j])] \notin Load!Links
                             /\ \A q \in pointerNodes[j] : view[q].last = children[j][Len(children[j])]
    BY <1>2 DEF Edges
  <2>2. ASSUME NEW j \in Load!Kept
        PROVE  /\ Len(children'[j]) >= 1 /\ children'[j][1] = Load!Indent(j, 1)
               /\ children'[j][Len(children'[j])] \notin Load!Links
    <3>1. j \in Tree
      BY DEF Load!Kept, Tree
    <3>2. CASE j = t
      BY <1>4, <1>13, <2>1, <3>2
    <3>3. CASE j # t
      BY <1>14, <2>1, <3>1, <3>3
    <3> QED BY <3>2, <3>3
  <2>3. ASSUME NEW j \in Load!Kept, NEW q \in pointerNodes'[j]
        PROVE  view'[q].last = children'[j][Len(children'[j])]
    <3>1. j \in Tree /\ j \in Load!Ids
      BY DEF Load!Kept, Tree
    <3>2. q \in D
      <4>1. q = p \/ q \in pointerNodes[j]
        BY <1>15, <3>1
      <4>2. pointerNodes[j] \subseteq Load!Pointers
        BY <1>11, <3>1
      <4> QED BY <1>9, <4>1, <4>2 DEF D
    <3>3. CASE j = t
      BY <1>7, <1>13, <2>3, <3>2, <3>3
    <3>4. CASE j # t
      <4>1. q \notin pointerNodes'[t]
        <5>1. q[2] = j
          BY <1>16, <3>1 DEF PointersOwned
        <5>2. \A r \in pointerNodes'[t] : r[2] = t
          BY <1>3, <1>16 DEF PointersOwned
        <5> QED BY <3>4, <5>1, <5>2
      <4>2. view'[q] = base(q) /\ children'[j] = children[j]
        BY <1>7, <1>14, <3>1, <3>2, <3>4, <4>1
      <4>3. CASE q = p
        <5>1. j = i
          BY <1>4, <1>16, <3>1, <4>3 DEF PointersOwned
        <5> QED BY <1>12, <2>1, <4>2, <4>3, <5>1
      <4>4. CASE q # p
        <5>1. q \in pointerNodes[j]
          BY <1>15, <3>1, <4>4
        <5>2. q # a
          BY <1>4, <1>11, <3>1, <5>1
        <5> QED BY <1>12, <2>1, <3>2, <4>2, <4>4, <5>1, <5>2
      <4> QED BY <4>3, <4>4
    <3> QED BY <3>3, <3>4
  <2>4. ASSUME NEW b \in Load!Links, Spliced(b)'
        PROVE  /\ view'[b].from = Load!Indent(Load!Target(b), 1)
               /\ view'[Load!Pointer(b)].from = Load!Indent(b[2], 1)
               /\ Load!Pointer(b) \in pointerNodes'[b[2]]
    <3>1. CASE b = a
      <4>1. p \in pointerNodes'[i]
        BY <1>3, <1>15
      <4>2. view'[a].from = Load!Indent(t, 1) /\ view'[p].from = Load!Indent(i, 1)
        BY <1>3, <1>7, <1>9, <1>12, <2>1
      <4> QED BY <3>1, <4>1, <4>2 DEF t, i, p
    <3>2. CASE b # a
      <4>1. Spliced(b)
        BY <1>6, <2>4, <3>2
      <4>2. /\ view[b].from = Load!Indent(Load!Target(b), 1)
            /\ view[Load!Pointer(b)].from = Load!Indent(b[2], 1) /\ Load!Pointer(b) \in pointerNodes[b[2]]
        BY <1>2, <4>1 DEF Edges
      <4>3. base(b) = view[b] /\ base(Load!Pointer(b)) = view[Load!Pointer(b)]
        BY <1>8, <1>12, <3>2
      <4>4. b[2] \in Load!Ids
        BY LinkNode
      <4> QED BY <1>7, <1>8, <1>15, <4>2, <4>3, <4>4
    <3> QED BY <3>1, <3>2
  <2> QED BY <1>5, <2>2, <2>3, <2>4 DEF Edges
<1>23. TreeOK'
  <2>1. children' \in [Tree -> Seq(Load!Nodes)]
    BY <1>1, <1>3, <1>11, <1>13, <1>14
  <2>2. deleted' \in [Load!Items \cup Load!Links -> Nat]
    BY <1>1, <1>3, <1>11
  <2>3. pointerNodes' \in [Load!Ids -> SUBSET Load!Pointers]
    BY <1>1, <1>3, <1>4, <1>11
  <2>4. /\ todo' \in Seq(Load!Links) /\ phase' = phase
        /\ nodesToClean' \subseteq Load!Pointers /\ nodesToClean2' \subseteq Load!Links
    BY <1>1, <1>2, <1>3, <1>4 DEF TreeOK
  <2>5. view' \in [Load!Links \cup Load!Pointers -> Load!Views]
    BY <1>7 DEF D
  <2> QED BY <1>1, <1>2, <2>1, <2>2, <2>3, <2>4, <2>5 DEF TreeOK, Tree
<1> QED BY <1>1, <1>2, <1>16, <1>17, <1>18, <1>19, <1>20, <1>21, <1>22, <1>23 DEF TreeInv

(* SiteLoad counts as FiniteSets does. *)
LEMMA LoadCardinality == ASSUME NEW S PROVE Load!Cardinality(S) = Cardinality(S)
BY DEF Cardinality, Load!Cardinality, IsFiniteSet, Load!IsFiniteSet

(* There are finitely many nodes. *)
LEMMA NodesFinite ==
  ASSUME doc \in Documents
  PROVE  IsFiniteSet(Load!Nodes \cup {Load!Null})
<1> DEFINE K == {"item", "link", "pointer", "text", "null"}
           M == MaxLinks + 2
           D == (K \X (0 .. N)) \X (0 .. M)
           f == [d \in D |-> <<d[1][1], d[1][2], d[2]>>]
           T == {f[d] : d \in D}
<1>1. N \in Nat /\ MaxLinks \in Nat /\ M \in Nat
  BY DocumentType
<1>2. IsFiniteSet(K)
  <2> DEFINE A == {"item"} \cup {"link"}
             B == A \cup {"pointer"}
             C == B \cup {"text"}
             E == C \cup {"null"}
  <2>1. IsFiniteSet({"item"})
    BY FS_Singleton
  <2>2. IsFiniteSet(A)
    BY <2>1, FS_AddElement
  <2> HIDE DEF A
  <2>3. IsFiniteSet(B)
    BY <2>2, FS_AddElement
  <2> HIDE DEF B
  <2>4. IsFiniteSet(C)
    BY <2>3, FS_AddElement
  <2> HIDE DEF C
  <2>5. IsFiniteSet(E)
    BY <2>4, FS_AddElement
  <2>6. E = K
    BY DEF A, B, C
  <2> QED BY <2>5, <2>6
<1> HIDE DEF K, M
<1>3. IsFiniteSet(0 .. N) /\ IsFiniteSet(0 .. M)
  <2>1. 0 \in Int /\ N \in Int /\ M \in Int
    BY <1>1
  <2> QED BY <2>1, FS_Interval
<1>4. IsFiniteSet(K \X (0 .. N))
  BY <1>2, <1>3, FS_Product
<1>5. IsFiniteSet(D)
  BY <1>3, <1>4, FS_Product
<1>6. IsFiniteSet(T)
  <2>1. f \in Surjection(D, T)
    <3>1. f \in [D -> T] /\ \A y \in T : \E d \in D : f[d] = y
      <4>1. f = [d \in D |-> f[d]]
        OBVIOUS
      <4> HIDE DEF f, D
      <4> QED BY <4>1
    <3> HIDE DEF f, D, T
    <3> QED BY <3>1 DEF Surjection
  <2> HIDE DEF D, f, T
  <2> QED BY <1>5, <2>1, FS_Surjection
<1>7. ASSUME NEW k \in K, NEW i \in 0 .. N, NEW m \in 0 .. M PROVE <<k, i, m>> \in T
  <2>1. <<<<k, i>>, m>> \in D /\ f[<<<<k, i>>, m>>] = <<k, i, m>>
    OBVIOUS
  <2> HIDE DEF f, D
  <2> QED BY <2>1
<1> HIDE DEF T
<1>8. Load!Null \in T
  <2>1. "null" \in K /\ 0 \in 0 .. N /\ 0 \in 0 .. M
    BY <1>1 DEF K
  <2> QED BY <1>7, <2>1 DEF Load!Null
<1>9. ASSUME NEW n \in Load!Nodes PROVE n \in T
  <2>1. \A i \in Load!Ids : i \in 0 .. N
    BY <1>1 DEF Load!Ids
  <2>2. \A i \in 1 .. MaxLinks : i \in 0 .. M
    BY <1>1 DEF M
  <2>3. 0 \in 0 .. M /\ 1 \in 0 .. M /\ 2 \in 0 .. M
    BY <1>1 DEF M
  <2>4. "item" \in K /\ "link" \in K /\ "pointer" \in K /\ "text" \in K
    BY DEF K
  <2>5. \A i \in Load!Ids : Load!Item(i) \in T /\ Load!Indent(i, 1) \in T /\ Load!Indent(i, 2) \in T
    BY <1>7, <2>1, <2>3, <2>4 DEF Load!Item, Load!Indent
  <2>6. \A i \in Load!Ids, k \in 1 .. MaxLinks : <<"link", i, k>> \in T /\ <<"pointer", i, k>> \in T
    BY <1>7, <2>1, <2>2, <2>4
  <2>7. \A a \in Load!Links : a \in T /\ Load!Pointer(a) \in T
    <3>1. \A a \in Load!Links : a = <<"link", a[2], a[3]>> /\ a[2] \in Load!Ids /\ a[3] \in 1 .. MaxLinks
      BY LinkNode DEF LinkOf
    <3> QED BY <2>6, <3>1 DEF Load!Pointer
  <2>8. CASE n[1] = "pointer"
    BY <2>7, <2>8, NodeKinds, PointerNode
  <2>9. CASE n[1] # "pointer"
    BY <2>5, <2>7, <2>9, NodeKinds
  <2> QED BY <2>8, <2>9
<1>10. Load!Nodes \cup {Load!Null} \in SUBSET T
  BY <1>8, <1>9
<1> QED BY <1>6, <1>10, FS_Subset

(* Closed under going to the children. *)
Closed(C) == \A n \in C : Range(Load!ListAt(n)) \subseteq C

(* The least closed set with the root. *)
LEMMA ReachableIs ==
  ASSUME doc \in Documents, Closed(Load!Nodes \cup {Load!Null})
  PROVE  /\ Closed(Load!Reachable) /\ Load!Null \in Load!Reachable /\ Load!Reachable \subseteq Load!Nodes \cup {Load!Null}
         /\ \A C \in SUBSET (Load!Nodes \cup {Load!Null}) : Load!Null \in C /\ Closed(C) => Load!Reachable \subseteq C
<1> DEFINE U == Load!Nodes \cup {Load!Null}
           more(S) == S \cup UNION {Load!Range(Load!ListAt(n)) : n \in S}
           Within(S) == {x \in U : \A C \in SUBSET U : S \subseteq C /\ Closed(C) => x \in C}
           w == [S \in SUBSET U |-> Within(S)]
           F == CHOOSE g : g = [S \in SUBSET U |-> IF more(S) = S THEN S ELSE g[more(S)]]
<1>1. Load!Reachable = F[{Load!Null}]
  BY DEF Load!Reachable
<1>2. IsFiniteSet(U)
  BY NodesFinite
<1> HIDE DEF U
<1>3. ASSUME NEW S \in SUBSET U
      PROVE  /\ more(S) \in SUBSET U /\ S \subseteq more(S)
             /\ more(S) = S <=> Closed(S)
             /\ \A C \in SUBSET U : S \subseteq C /\ Closed(C) => more(S) \subseteq C
  <2>1. \A x : x \in more(S) <=> x \in S \/ \E n \in S : x \in Range(Load!ListAt(n))
    BY SameOperators
  <2> HIDE DEF more
  <2>2. Closed(U)
    BY DEF U
  <2>3. more(S) \in SUBSET U
    BY <2>1, <2>2 DEF Closed
  <2>4. more(S) = S <=> Closed(S)
    BY <2>1 DEF Closed
  <2>5. \A C \in SUBSET U : S \subseteq C /\ Closed(C) => more(S) \subseteq C
    BY <2>1 DEF Closed
  <2> QED BY <2>1, <2>3, <2>4, <2>5
<1> HIDE DEF more
<1>4. w = [S \in SUBSET U |-> IF more(S) = S THEN S ELSE w[more(S)]]
  <2>1. ASSUME NEW S \in SUBSET U PROVE w[S] = IF more(S) = S THEN S ELSE w[more(S)]
    <3>1. CASE more(S) = S
      <4>1. Closed(S)
        BY <1>3, <3>1
      <4>2. Within(S) = S
        BY <4>1
      <4> QED BY <3>1, <4>2
    <3>2. CASE more(S) # S
      <4>1. more(S) \in SUBSET U /\ S \subseteq more(S)
        BY <1>3
      <4>2. \A C \in SUBSET U : Closed(C) => (S \subseteq C <=> more(S) \subseteq C)
        BY <1>3, <4>1
      <4>3. Within(S) = Within(more(S))
        BY <4>2
      <4>4. w[S] = Within(S) /\ w[more(S)] = Within(more(S))
        BY <4>1
      <4> HIDE DEF w, Within
      <4> QED BY <3>2, <4>3, <4>4
    <3> QED BY <3>1, <3>2
  <2>2. w = [S \in SUBSET U |-> w[S]]
    OBVIOUS
  <2> HIDE DEF w
  <2> QED BY <2>1, <2>2
<1>5. F = [S \in SUBSET U |-> IF more(S) = S THEN S ELSE F[more(S)]]
  <2> HIDE DEF w
  <2> QED BY <1>4
<1> HIDE DEF F
<1>6. \A S \in SUBSET U : F[S] = IF more(S) = S THEN S ELSE F[more(S)]
  BY <1>5
<1> DEFINE Good(S) == /\ Closed(F[S]) /\ S \subseteq F[S] /\ F[S] \subseteq U
                      /\ \A C \in SUBSET U : S \subseteq C /\ Closed(C) => F[S] \subseteq C
           left(S) == Cardinality(U \ S)
           Bad == {k \in Nat : \E S \in SUBSET U : left(S) = k /\ ~Good(S)}
<1>7. \A S \in SUBSET U : left(S) \in Nat /\ IsFiniteSet(U \ S)
  BY <1>2, FS_Difference, FS_CardinalityType
<1>8. Bad = {}
  <2> SUFFICES ASSUME Bad # {} PROVE FALSE
    OBVIOUS
  <2>1. PICK k \in Bad : \A j \in Bad : k <= j
    <3>1. Bad \in SUBSET Nat
      OBVIOUS
    <3> HIDE DEF Bad
    <3> QED BY <3>1, LeastNat
  <2>2. PICK S \in SUBSET U : left(S) = k /\ ~Good(S)
    BY <2>1
  <2>3. CASE more(S) = S
    <3>1. F[S] = S /\ Closed(S)
      BY <1>3, <1>6, <2>3
    <3>2. Good(S)
      BY <3>1
    <3> QED BY <2>2, <3>2
  <2>4. CASE more(S) # S
    <3>1. more(S) \in SUBSET U /\ S \subseteq more(S) /\ F[S] = F[more(S)]
      BY <1>3, <1>6, <2>4
    <3>2. (U \ more(S)) \in SUBSET (U \ S) /\ (U \ more(S)) # (U \ S)
      BY <2>4, <3>1
    <3>3. left(more(S)) <= left(S) /\ left(more(S)) # left(S)
      BY <1>7, <3>2, FS_Subset
    <3>4. left(more(S)) \in Nat /\ k \in Nat /\ ~(k <= left(more(S)))
      BY <1>7, <2>2, <3>1, <3>3
    <3>5. left(more(S)) \notin Bad
      <4> HIDE DEF Bad, left
      <4> QED BY <2>1, <3>4
    <3>6. Good(more(S))
      <4> HIDE DEF left, Good
      <4> QED BY <3>1, <3>4, <3>5
    <3>7. Good(S)
      <4>1. \A C \in SUBSET U : S \subseteq C /\ Closed(C) => more(S) \subseteq C
        BY <1>3
      <4> QED BY <3>1, <3>6, <4>1
    <3> QED BY <2>2, <3>7
  <2> QED BY <2>3, <2>4
<1>9. \A S \in SUBSET U : Good(S)
  <2> HIDE DEF Good, left
  <2> QED BY <1>7, <1>8
<1>10. {Load!Null} \in SUBSET U
  BY DEF U
<1>11. Good({Load!Null})
  BY <1>9, <1>10
<1> QED BY <1>1, <1>11 DEF U

(* A list read from one of its nodes on, which is all of it from the first. *)
LEMMA FromIs ==
  ASSUME NEW S, NEW s \in Seq(S), NEW n
  PROVE  /\ \A x \in Range(Load!From(s, n)) : x \in Range(s) \/ (x = n /\ n # Load!Null /\ n \notin Range(s))
         /\ Distinct(s) /\ Len(s) >= 1 /\ s[1] = n /\ n # Load!Null => Load!From(s, n) = s
<1> DEFINE at1 == {k \in DOMAIN s : s[k] = n}
           k == CHOOSE k \in at1 : TRUE
           r == SubSeq(s, k, Len(s))
<1>1. Load!From(s, n) = IF n = Load!Null THEN <<>> ELSE IF at1 = {} THEN <<n>> ELSE r
  BY DEF Load!From
<1>2. Len(s) \in Nat /\ DOMAIN s = 1 .. Len(s) /\ \A j \in 1 .. Len(s) : s[j] \in S
  BY LenProperties, ElementOfSeq
<1>0. CASE n = Load!Null
  <2>1. Range(Load!From(s, n)) = {}
    BY <1>0, <1>1, NoNodes
  <2> QED BY <1>0, <2>1
<1>3. CASE at1 = {} /\ n # Load!Null
  <2>1. Range(Load!From(s, n)) = {n}
    BY <1>1, <1>3, OneNode
  <2>2. ~(Len(s) >= 1 /\ s[1] = n)
    BY <1>2, <1>3
  <2>3. n \notin Range(s)
    BY <1>3 DEF Range
  <2> QED BY <1>3, <2>1, <2>2, <2>3
<1>4. CASE at1 # {} /\ n # Load!Null
  <2>1. k \in at1
    BY <1>4
  <2>2. k \in 1 .. Len(s) /\ s[k] = n
    BY <1>2, <2>1
  <2> HIDE DEF k
  <2>3. /\ r \in Seq(S) /\ Len(r) = Len(s) - k + 1
        /\ \A j \in 1 .. Len(s) - k + 1 : r[j] = s[k + j - 1]
    <3>1. \A j \in k .. Len(s) : s[j] \in S
      BY <1>2, <2>2
    <3>2. k \in Int /\ Len(s) \in Int /\ k <= Len(s)
      BY <1>2, <2>2
    <3> QED BY <3>1, <3>2, SubSeqProperties
  <2>4. DOMAIN r = 1 .. Len(s) - k + 1
    BY <2>3, LenProperties
  <2>5. ASSUME NEW j \in DOMAIN r PROVE r[j] \in Range(s)
    <3>1. k + j - 1 \in DOMAIN s /\ r[j] = s[k + j - 1]
      BY <1>2, <2>2, <2>3, <2>4
    <3> HIDE DEF r
    <3> QED BY <3>1 DEF Range
  <2>6. Range(r) \subseteq Range(s)
    <3> HIDE DEF r
    <3> QED BY <2>5 DEF Range
  <2>7. ASSUME Distinct(s), Len(s) >= 1, s[1] = n PROVE r = s
    <3>1. 1 \in DOMAIN s /\ k \in DOMAIN s
      BY <1>2, <2>2, <2>7
    <3>2. k = 1
      BY <2>2, <2>7, <3>1 DEF Distinct
    <3> QED BY <3>2, SubSeqFull
  <2> QED BY <1>1, <1>4, <2>6, <2>7
<1> QED BY <1>0, <1>3, <1>4

(* The children one finds at a node. *)
LEMMA ListAtIs ==
  ASSUME TreeInv
  PROVE  /\ Load!ListAt(Load!Null) = children[0]
         /\ \A i \in Load!Ids : Load!ListAt(Load!Item(i)) = children[i]
         /\ \A n \in Load!Links \cup Load!Pointers :
              Load!ListAt(n) = IF view[n] = Load!NoView THEN <<>> ELSE Load!From(children[view[n].of], view[n].from)
         /\ \A n \in Load!Nodes : n[1] = "text" => Load!ListAt(n) = <<>>
<1> DEFINE D == Load!Links \cup Load!Pointers
<1>1. DOMAIN view = D
  BY DEF TreeInv, TreeOK
<1>2. \A n \in D : n \notin Load!Items /\ n # Load!Null
  <2>1. \A n \in D : n[1] # "item" /\ n[1] # "null"
    BY LinkNode, PointerNode
  <2> QED BY <2>1, ItemNode, NullNode DEF Load!Items
<1>3. Load!Null \notin Load!Items /\ Load!Null \notin D
  <2>1. Load!Null \notin Load!Nodes
    BY NullNode
  <2> QED BY <2>1 DEF Load!Nodes
<1>4. Load!ListAt(Load!Null) = children[0]
  BY <1>1, <1>3 DEF Load!ListAt
<1>5. ASSUME NEW i \in Load!Ids PROVE Load!ListAt(Load!Item(i)) = children[i]
  <2>1. Load!Item(i) \in Load!Items /\ Load!Item(i)[2] = i
    BY ItemNode
  <2>2. Load!Item(i) # Load!Null /\ Load!Item(i) \notin DOMAIN view
    BY <1>1, <1>2, <1>3, <2>1
  <2> QED BY <2>1, <2>2 DEF Load!ListAt
<1>6. \A n \in D : Load!ListAt(n) = IF view[n] = Load!NoView THEN <<>> ELSE Load!From(children[view[n].of], view[n].from)
  BY <1>1, <1>2 DEF Load!ListAt
<1>7. ASSUME NEW n \in Load!Nodes, n[1] = "text" PROVE Load!ListAt(n) = <<>>
  <2>1. n # Load!Null /\ n \notin Load!Items /\ n \notin D
    BY <1>7, NullNode, ItemNode, LinkNode, PointerNode DEF Load!Items
  <2> HIDE DEF D
  <2> QED BY <1>1, <2>1 DEF Load!ListAt
<1> QED BY <1>4, <1>5, <1>6, <1>7

(* Nothing but children is found, and nodes that were. *)
LEMMA ChildrenOnly ==
  ASSUME TreeInv, NEW n \in Load!Nodes \cup {Load!Null}, NEW x \in Range(Load!ListAt(n))
  PROVE  \/ \E j \in Tree : x \in Range(children[j])
         \/ /\ n \in Load!Links \cup Load!Pointers /\ view[n] # Load!NoView
            /\ x = view[n].from /\ x # Load!Null /\ x \notin Range(children[view[n].of])
<1>1. /\ children \in [Tree -> Seq(Load!Nodes)] /\ view \in [Load!Links \cup Load!Pointers -> Load!Views]
      /\ 0 \in Tree /\ Load!Ids \subseteq Tree
  BY DEF TreeInv, TreeOK, Tree
<1>2. CASE n = Load!Null
  BY <1>1, <1>2, ListAtIs
<1>3. CASE n \in Load!Nodes /\ n[1] = "item"
  <2>1. n[2] \in Load!Ids /\ n = Load!Item(n[2])
    BY <1>3, NodeKinds
  <2> QED BY <1>1, <2>1, ListAtIs
<1>4. CASE n \in Load!Links \cup Load!Pointers
  <2>1. view[n] # Load!NoView /\ Load!ListAt(n) = Load!From(children[view[n].of], view[n].from)
    BY <1>4, ListAtIs, NoNodes
  <2>2. view[n].of \in Tree
    BY <1>1, <1>4 DEF Load!Views, Tree
  <2>3. children[view[n].of] \in Seq(Load!Nodes)
    BY <1>1, <2>2
  <2>4. \/ x \in Range(children[view[n].of])
        \/ x = view[n].from /\ x # Load!Null /\ x \notin Range(children[view[n].of])
    BY <2>1, <2>3, FromIs
  <2> QED BY <1>4, <2>1, <2>2, <2>4
<1>5. CASE n \in Load!Nodes /\ n[1] = "text"
  BY <1>5, ListAtIs, NoNodes
<1> QED BY <1>2, <1>3, <1>4, <1>5, NodeKinds

(* Only nodes of the tree are reached, and from each all its children. *)
LEMMA ReachablePresent ==
  ASSUME TreeInv, ListsHeld, Starts
  PROVE  /\ Closed(Load!Reachable) /\ Load!Null \in Load!Reachable
         /\ \A n \in Load!Reachable : n = Load!Null \/ (n \in Load!Nodes /\ (Present(n) \/ Stale(n)))
<1> DEFINE U == Load!Nodes \cup {Load!Null}
           C == {n \in U : n = Load!Null \/ Present(n) \/ Stale(n)}
<1>1. doc \in Documents /\ children \in [Tree -> Seq(Load!Nodes)]
  BY DEF TreeInv, TreeOK, Tree
<1>2. \A n \in U : \A x \in Range(Load!ListAt(n)) : x \in Load!Nodes /\ (Present(x) \/ Stale(x))
  <2> SUFFICES ASSUME NEW n \in U, NEW x \in Range(Load!ListAt(n)) PROVE x \in Load!Nodes /\ (Present(x) \/ Stale(x))
    OBVIOUS
  <2>1. CASE \E j \in Tree : x \in Range(children[j])
    <3>1. PICK j \in Tree : x \in Range(children[j])
      BY <2>1
    <3>2. children[j] \in Seq(Load!Nodes)
      BY <1>1
    <3>3. x \in Load!Nodes
      BY <3>1, <3>2, ElementOfSeq, LenProperties DEF Range
    <3> QED BY <3>1, <3>3 DEF ListsHeld
  <2>2. CASE /\ n \in Load!Links \cup Load!Pointers /\ view[n] # Load!NoView
             /\ x = view[n].from /\ x # Load!Null /\ x \notin Range(children[view[n].of])
    <3>1. Stale(x)
      BY <2>2 DEF Starts
    <3>2. x \in Load!Nodes
      BY <3>1, LinkNode DEF Stale, KeptLinks, LinksInKept
    <3> QED BY <3>1, <3>2
  <2> QED BY <2>1, <2>2, ChildrenOnly
<1>3. Closed(U) /\ Closed(C)
  BY <1>2 DEF Closed
<1>4. C \in SUBSET U /\ Load!Null \in C
  OBVIOUS
<1> HIDE DEF C
<1>5. Closed(Load!Reachable) /\ Load!Null \in Load!Reachable /\ Load!Reachable \subseteq C
  BY <1>1, <1>3, <1>4, ReachableIs
<1> QED BY <1>5 DEF C

(* The node whose children are those of an item or of the root. *)
NodeOf(i) == IF i = 0 THEN Load!Null ELSE Load!Item(i)

(* When the views have been cut open, each node is found in one place. *)
LEMMA FoundOnce ==
  ASSUME TreeInv, phase = "cut", NEW n \in Load!Nodes
  PROVE  LET visits == UNION {{m} \X Range(Load!ListAt(m)) : m \in Load!Reachable}
         IN  Cardinality({v \in visits : v[2] = n}) = IF Present(n) THEN 1 ELSE 0
<1> DEFINE visits == UNION {{m} \X Range(Load!ListAt(m)) : m \in Load!Reachable}
           here == {v \in visits : v[2] = n}
           o == OwnerOf(n)
<1>1. /\ doc \in Documents /\ ListsHeld /\ \A m \in Load!Links \cup Load!Pointers : view[m] = Load!NoView
      /\ todo = <<>>
  BY DEF TreeInv
<1>2. /\ Closed(Load!Reachable) /\ Load!Null \in Load!Reachable
      /\ \A m \in Load!Reachable : m = Load!Null \/ m \in Load!Nodes
  <2>1. Starts
    BY <1>1 DEF Starts
  <2> QED BY <1>1, <2>1, ReachablePresent
<1>3. Load!Ids = 1 .. N /\ N \in Nat /\ 0 \notin Load!Ids /\ 0 \in Tree /\ Load!Kept \subseteq Load!Ids
      /\ Load!Ids \subseteq Tree
  BY <1>1, DocumentType DEF Load!Ids, Tree, Load!Kept
<1>4. \A j \in Tree : Load!ListAt(NodeOf(j)) = children[j]
  BY ListAtIs DEF NodeOf, Tree
<1>5. ASSUME NEW m \in Load!Reachable, n \in Range(Load!ListAt(m)) PROVE m = NodeOf(o) /\ Present(n)
  <2>1. CASE m = Load!Null
    <3>1. n \in Range(children[0])
      BY <1>5, <2>1, ListAtIs
    <3>2. Present(n) /\ o = 0
      BY <1>1, <1>3, <3>1 DEF ListsHeld
    <3> QED BY <2>1, <3>2 DEF NodeOf
  <2>2. CASE m \in Load!Nodes /\ m[1] = "item"
    <3>1. m[2] \in Load!Ids /\ m = Load!Item(m[2])
      BY <2>2, NodeKinds
    <3>2. n \in Range(children[m[2]])
      BY <1>5, <3>1, ListAtIs
    <3>3. Present(n) /\ o = m[2]
      BY <1>1, <1>3, <3>1, <3>2 DEF ListsHeld
    <3> QED BY <1>3, <3>1, <3>3 DEF NodeOf
  <2>3. CASE m \in Load!Nodes /\ m[1] # "item"
    <3>1. Load!ListAt(m) = <<>>
      BY <1>1, <2>3, ListAtIs, NodeKinds
    <3> QED BY <1>5, <3>1, NoNodes
  <2> QED BY <1>2, <2>1, <2>2, <2>3
<1>6. \A i \in Load!Kept : Load!Item(i) \in Load!Reachable
  <2> DEFINE Bad == {i \in Load!Kept : Load!Item(i) \notin Load!Reachable}
  <2> SUFFICES ASSUME Bad # {} PROVE FALSE
    OBVIOUS
  <2>1. PICK i \in Bad : \A j \in Bad : i <= j
    <3>1. \A j \in Load!Ids : j \in Nat
      BY <1>3
    <3>2. Bad \in SUBSET Nat
      BY <1>3, <3>1
    <3> HIDE DEF Bad
    <3> QED BY <3>2, LeastNat
  <2> DEFINE q == doc.parent[i]
  <2>2. i \in Load!Ids /\ i \in Load!Kept /\ Load!Item(i) \notin Load!Reachable
    BY <1>3, <2>1
  <2>3. q \in Tree /\ q < i /\ q \in Load!Kept \cup {0}
    BY <1>1, <1>3, <2>2, DocumentType, KeptIs
  <2>4. NodeOf(q) \in Load!Reachable
    <3>1. CASE q = 0
      BY <1>2, <3>1 DEF NodeOf
    <3>2. CASE q # 0
      <4>1. q \in Load!Kept /\ q \in Nat /\ i \in Nat
        <5> HIDE DEF q
        <5>1. q \in Load!Kept /\ q \in Load!Ids
          BY <2>3, <3>2 DEF Load!Kept
        <5> QED BY <1>3, <2>2, <5>1
      <4>2. ~(i <= q)
        BY <2>3, <4>1
      <4>3. q \notin Bad
        <5> HIDE DEF Bad, q
        <5> QED BY <2>1, <4>2
      <4> QED BY <3>2, <4>1, <4>3 DEF NodeOf
    <3> QED BY <3>1, <3>2
  <2>5. Load!Item(i) \in Load!Nodes /\ Present(Load!Item(i)) /\ OwnerOf(Load!Item(i)) = q
    BY <2>2, ItemNode DEF Present, OwnerOf
  <2>6. Load!Item(i) \in Range(children[q])
    BY <1>1, <2>3, <2>5 DEF ListsHeld
  <2>7. Load!Item(i) \in Range(Load!ListAt(NodeOf(q)))
    BY <1>4, <2>3, <2>6
  <2> QED BY <1>2, <2>2, <2>4, <2>7 DEF Closed
<1>7. \A v : v \in here <=> \E m \in Load!Reachable : v = <<m, n>> /\ n \in Range(Load!ListAt(m))
  OBVIOUS
<1>8. CASE Present(n)
  <2>1. o \in Load!Kept \cup {0}
    <3>1. CASE n[1] = "item"
      BY <1>1, <1>3, <1>8, <3>1, KeptIs DEF Present, OwnerOf
    <3>2. CASE n[1] = "link"
      BY <1>8, <3>2 DEF Present, OwnerOf, KeptLinks, LinksInKept
    <3>3. CASE n[1] = "text"
      BY <1>8, <3>3 DEF Present, OwnerOf
    <3>4. CASE n[1] = "pointer"
      BY <1>8, <3>4 DEF Present, OwnerOf, Spliced
    <3> QED BY <3>1, <3>2, <3>3, <3>4, NodeKinds
  <2>2. o \in Tree /\ NodeOf(o) \in Load!Reachable
    BY <1>2, <1>3, <1>6, <2>1 DEF NodeOf
  <2>3. n \in Range(Load!ListAt(NodeOf(o)))
    <3>1. n \in Range(children[o])
      BY <1>1, <1>8, <2>2 DEF ListsHeld
    <3> QED BY <1>4, <2>2, <3>1
  <2> HIDE DEF here, o
  <2>4. here = {<<NodeOf(o), n>>}
    BY <1>5, <1>7, <2>2, <2>3
  <2>5. Cardinality(here) = 1
    BY <2>4, FS_Singleton
  <2> QED BY <1>8, <2>5 DEF here
<1>9. CASE ~Present(n)
  <2>1. here = {}
    <3> HIDE DEF here
    <3> QED BY <1>5, <1>7, <1>9
  <2> QED BY <1>9, <2>1, FS_EmptySet
<1> QED BY <1>8, <1>9

(* ~Site frees each node that is there, once, however many ways lead to it. *)
LEMMA FreeOK ==
  ASSUME TreeInv, Load!Free
  PROVE  TreeInv'
<1> DEFINE visits == UNION {{m} \X Range(Load!ListAt(m)) : m \in Load!Reachable}
           here(n) == {v \in visits : v[2] = n}
           there(n) == {v \in visits : Load!ContextAt(v[2]) = n}
<1>1. /\ phase = "cut" /\ phase' = "freed" /\ doc' = doc /\ todo' = todo /\ children' = children /\ view' = view
      /\ nodes' = nodes /\ nodesToClean' = nodesToClean /\ nodesToClean2' = nodesToClean2 /\ pointerNodes' = pointerNodes
      /\ freed' = [n \in Load!Nodes |-> freed[n] + Cardinality(here(n))]
      /\ deleted' = [n \in DOMAIN deleted |-> deleted[n] + Cardinality(there(n))]
  BY SameOperators, LoadCardinality DEF Load!Free
<1>2. /\ doc \in Documents /\ TreeOK /\ todo = <<>> /\ ListsHeld /\ FreedSoFar /\ DeletedSoFar
      /\ \A m \in Load!Links \cup Load!Pointers : view[m] = Load!NoView
  BY <1>1 DEF TreeInv
<1>3. \A n \in Load!Nodes : Cardinality(here(n)) = IF Present(n) THEN 1 ELSE 0
  BY <1>1, FoundOnce
<1>4. \A m : Load!ContextAt(m) = IF m \in Load!Items THEN m ELSE Load!Null
  BY <1>2 DEF Load!ContextAt, TreeOK
<1>5. Load!Null \notin Load!Items /\ Load!Null \notin Load!Links
  <2>1. Load!Null \notin Load!Nodes
    BY NullNode
  <2> QED BY <2>1 DEF Load!Nodes
<1>6. \A i \in Load!Ids : there(Load!Item(i)) = here(Load!Item(i))
  <2> HIDE DEF visits
  <2> QED BY <1>4, <1>5, ItemNode
<1>7. \A a \in Load!Links : there(a) = {}
  <2> HIDE DEF visits
  <2> QED BY <1>4, <1>5, LinkNode
<1> HIDE DEF here, there
<1>8. Range(todo) = {}
  BY <1>2, NoNodes
<1>9. /\ Load!Kept' = Load!Kept /\ Load!Killed' = Load!Killed /\ KeptLinks' = KeptLinks /\ LinksInKept' = LinksInKept
      /\ \A n : InFeed(n)' = InFeed(n)
  BY <1>1, SameDoc
<1>10. \A n : Present(n)' <=> Present(n)
  <2>1. \A b : Load!Target(b)' = Load!Target(b)
    BY <1>1, SameDoc
  <2> QED BY <1>1, <1>9, <2>1 DEF Present, Spliced
<1>11. /\ freed \in [Load!Nodes -> Nat] /\ deleted \in [Load!Items \cup Load!Links -> Nat]
  BY <1>2 DEF TreeOK
<1>12. \A n \in Load!Nodes : freed'[n] = IF InFeed(n) \/ Present(n) THEN 1 ELSE 0
  BY <1>1, <1>2, <1>3 DEF FreedSoFar
<1>13. ASSUME NEW i \in Load!Ids PROVE deleted'[Load!Item(i)] = IF i \in Load!Killed \cup Load!Kept THEN 1 ELSE 0
  <2>1. Load!Item(i) \in Load!Nodes /\ Load!Item(i) \in DOMAIN deleted
    BY <1>11, ItemNode
  <2>2. Present(Load!Item(i)) <=> i \in Load!Kept
    BY ItemNode DEF Present
  <2>3. deleted'[Load!Item(i)] = deleted[Load!Item(i)] + Cardinality(here(Load!Item(i)))
    BY <1>1, <1>6, <2>1
  <2>4. i \in Load!Kept => i \notin Load!Killed
    BY <1>2, KeptIs
  <2> QED BY <1>2, <1>3, <2>1, <2>2, <2>3, <2>4 DEF DeletedSoFar
<1>14. ASSUME NEW a \in Load!Links PROVE deleted'[a] = IF a \in LinksInKept THEN 1 ELSE 0
  <2>1. a \in DOMAIN deleted /\ Cardinality(there(a)) = 0
    BY <1>7, <1>11, FS_EmptySet
  <2>2. deleted'[a] = deleted[a] + 0 /\ deleted[a] \in Nat
    BY <1>1, <1>11, <2>1
  <2> QED BY <1>2, <1>8, <2>2 DEF DeletedSoFar
<1>15. AllFreed'
  BY <1>9, <1>10, <1>12, <1>13, <1>14 DEF AllFreed
<1>16. freed' \in [Load!Nodes -> Nat] /\ deleted' \in [Load!Items \cup Load!Links -> Nat]
  <2>1. \A n \in Load!Nodes : freed'[n] \in Nat
    BY <1>12
  <2>2. \A n \in Load!Items \cup Load!Links : deleted'[n] \in Nat
    BY <1>13, <1>14 DEF Load!Items
  <2> QED BY <1>1, <1>11, <2>1, <2>2
<1>17. TreeOK'
  BY <1>1, <1>2, <1>16 DEF TreeOK
<1> QED BY <1>1, <1>2, <1>15, <1>17 DEF TreeInv

(* Steps that leave the tree alone. *)
LEMMA TreeSame ==
  ASSUME UNCHANGED <<doc, todo>>
  PROVE  /\ Load!Kept' = Load!Kept /\ Load!Killed' = Load!Killed /\ KeptLinks' = KeptLinks /\ LinksInKept' = LinksInKept
         /\ \A a : Load!Target(a)' = Load!Target(a) /\ (Spliced(a)' <=> Spliced(a))
         /\ \A n : OwnerOf(n)' = OwnerOf(n) /\ InFeed(n)' = InFeed(n) /\ (Present(n)' <=> Present(n))
<1>1. /\ Load!Kept' = Load!Kept /\ Load!Killed' = Load!Killed /\ KeptLinks' = KeptLinks /\ LinksInKept' = LinksInKept
      /\ \A a : Load!Target(a)' = Load!Target(a)
      /\ \A n : OwnerOf(n)' = OwnerOf(n) /\ InFeed(n)' = InFeed(n)
  BY SameDoc
<1>2. \A a : Spliced(a)' <=> Spliced(a)
  BY <1>1 DEF Spliced
<1>3. \A n : Present(n)' <=> Present(n)
  BY <1>1, <1>2 DEF Present
<1> QED BY <1>1, <1>2, <1>3

(* Nothing freed, nothing moved: the lists stay as they are. *)
LEMMA ListsSame ==
  ASSUME UNCHANGED <<doc, todo, children, freed, deleted>>
  PROVE  /\ (ListsHeld => ListsHeld') /\ (FreedSoFar => FreedSoFar') /\ (DeletedSoFar => DeletedSoFar') /\ (AllFreed => AllFreed')
<1>1. ListsHeld => ListsHeld'
  BY TreeSame DEF ListsHeld, Tree
<1>2. FreedSoFar => FreedSoFar'
  BY TreeSame DEF FreedSoFar
<1>3. DeletedSoFar => DeletedSoFar'
  BY TreeSame DEF DeletedSoFar
<1>4. AllFreed => AllFreed'
  BY TreeSame DEF AllFreed
<1> QED BY <1>1, <1>2, <1>3, <1>4

(* Nor does what is shared change. *)
LEMMA StateSame ==
  ASSUME UNCHANGED <<doc, todo, children, view, nodes, nodesToClean, nodesToClean2, pointerNodes, freed, deleted>>
  PROVE  /\ (Left => Left') /\ (Registered => Registered') /\ (Shared => Shared') /\ (Edges => Edges')
         /\ (PointersOwned => PointersOwned') /\ (JustParsed => JustParsed')
<1>1. (Left => Left') /\ (Registered => Registered')
  BY TreeSame DEF Left, Registered
<1>2. Shared => Shared'
  BY TreeSame DEF Shared
<1>3. Edges => Edges'
  BY TreeSame DEF Edges
<1>4. PointersOwned => PointersOwned'
  BY TreeSame DEF PointersOwned
<1>5. JustParsed => JustParsed'
  BY DEF JustParsed, Load!Parsed, Load!LinksOf, Load!Nested
<1> QED BY <1>1, <1>2, <1>3, <1>4, <1>5

(* Before ~Site, too, nothing has been freed twice. *)
LEMMA AtMostOnce ==
  ASSUME TreeInv
  PROVE  /\ phase # "destroyed" => \A n \in Load!Nodes : freed[n] <= 1
         /\ \A n \in Load!Items \cup Load!Links : deleted[n] <= 1
<1>1. phase \in {"parsed", "linking", "corrupted", "loaded", "failed", "cut", "freed", "destroyed"}
  BY DEF TreeInv, TreeOK
<1>2. CASE phase = "parsed"
  BY <1>2 DEF TreeInv, JustParsed
<1>3. CASE phase \in {"linking", "loaded", "cut"}
  <2>1. FreedSoFar /\ DeletedSoFar
    BY <1>3 DEF TreeInv
  <2> QED BY <2>1 DEF FreedSoFar, DeletedSoFar, Load!Items
<1>4. CASE phase \in {"failed", "corrupted"}
  BY <1>4 DEF TreeInv
<1>5. CASE phase = "freed"
  <2>1. AllFreed
    BY <1>5 DEF TreeInv
  <2> QED BY <2>1 DEF AllFreed, Load!Items
<1>6. CASE phase = "destroyed"
  BY <1>6 DEF TreeInv, Load!Items
<1> QED BY <1>1, <1>2, <1>3, <1>4, <1>5, <1>6

(* The steps that only go on to the next phase. *)
LEMMA OtherStepsOK ==
  ASSUME TreeInv,
         \/ Load!Loaded \/ Load!Throw \/ Load!AssociateAssociation \/ Load!CopyFails \/ Load!CutOpen
         \/ (\E n : Load!RunQuery(n)) \/ (\E again : Load!FreeObjects(again)) \/ UNCHANGED loadVars
  PROVE  TreeInv'
<1>0. doc \in Documents /\ TreeOK
  BY DEF TreeInv
<1>1. CASE UNCHANGED loadVars \/ \E n : Load!RunQuery(n)
  <2>1. UNCHANGED <<doc, todo, children, view, nodes, nodesToClean, nodesToClean2, pointerNodes, freed, deleted>> /\ phase' = phase
    BY <1>1 DEF loadVars, Load!RunQuery
  <2>2. TreeOK'
    BY <1>0, <2>1 DEF TreeOK
  <2>3. /\ (Left => Left') /\ (Registered => Registered') /\ (Shared => Shared') /\ (Edges => Edges')
        /\ (PointersOwned => PointersOwned') /\ (JustParsed => JustParsed')
        /\ (ListsHeld => ListsHeld') /\ (FreedSoFar => FreedSoFar') /\ (DeletedSoFar => DeletedSoFar') /\ (AllFreed => AllFreed')
    BY <2>1, StateSame, ListsSame
  <2>4. Load!Killed' = Load!Killed /\ Load!Kept' = Load!Kept /\ LinksInKept' = LinksInKept
    BY <2>1, TreeSame
  <2> QED BY <2>1, <2>2, <2>3, <2>4 DEF TreeInv
<1>2. CASE Load!Loaded
  <2>1. /\ UNCHANGED <<doc, todo, children, view, nodes, nodesToClean, nodesToClean2, pointerNodes, freed, deleted>>
        /\ phase = "linking" /\ phase' = "loaded" /\ todo = <<>>
    BY <1>2 DEF Load!Loaded
  <2>2. TreeOK'
    BY <1>0, <2>1 DEF TreeOK
  <2>3. Left' /\ Registered' /\ Shared' /\ Edges' /\ PointersOwned' /\ ListsHeld' /\ FreedSoFar' /\ DeletedSoFar'
    BY <2>1, StateSame, ListsSame DEF TreeInv
  <2> QED BY <1>0, <2>1, <2>2, <2>3 DEF TreeInv
<1>3. CASE Load!Throw \/ Load!AssociateAssociation
  <2>1. /\ UNCHANGED <<doc, todo, children, view, nodes, nodesToClean, nodesToClean2, pointerNodes, freed, deleted>>
        /\ phase' \in {"failed", "corrupted"} /\ phase # "destroyed"
    BY <1>3 DEF Load!Throw, Load!AssociateAssociation
  <2>2. TreeOK'
    BY <1>0, <2>1 DEF TreeOK
  <2> QED BY <1>0, <2>1, <2>2, AtMostOnce DEF TreeInv
<1>4. CASE Load!CutOpen
  <2>1. /\ UNCHANGED <<doc, todo, children, nodes, pointerNodes, freed, deleted>> /\ phase = "loaded" /\ phase' = "cut"
        /\ view' = [n \in DOMAIN view |-> IF n \in nodesToClean \cup nodesToClean2 THEN Load!NoView ELSE view[n]]
        /\ nodesToClean' = {} /\ nodesToClean2' = {}
    BY <1>4 DEF Load!CutOpen, Load!Cuts
  <2>2. todo = <<>> /\ Shared /\ ListsHeld /\ FreedSoFar /\ DeletedSoFar
    BY <2>1 DEF TreeInv
  <2>3. view \in [Load!Links \cup Load!Pointers -> Load!Views]
    BY <1>0 DEF TreeOK
  <2>4. \A a \in Load!Links : /\ a \in nodesToClean2 \/ view[a] = Load!NoView
                              /\ Load!Pointer(a) \in nodesToClean \/ view[Load!Pointer(a)] = Load!NoView
    BY <2>2 DEF Shared
  <2>5. \A n \in Load!Links \cup Load!Pointers : view'[n] = Load!NoView
    <3>1. \A n \in Load!Links : view'[n] = Load!NoView
      BY <2>1, <2>3, <2>4
    <3>2. \A n \in Load!Pointers : view'[n] = Load!NoView
      BY <2>1, <2>3, <2>4, PointerNode
    <3> QED BY <3>1, <3>2
  <2>6. view' \in [Load!Links \cup Load!Pointers -> Load!Views]
    BY <2>1, <2>3, NoViewIs
  <2>7. TreeOK'
    BY <1>0, <2>1, <2>6 DEF TreeOK
  <2>8. ListsHeld' /\ FreedSoFar' /\ DeletedSoFar'
    BY <2>1, <2>2, ListsSame
  <2> QED BY <1>0, <2>1, <2>2, <2>5, <2>7, <2>8 DEF TreeInv
<1>5. CASE Load!CopyFails
  <2> DEFINE a == Head(todo)
             t == Load!Target(a)
  <2>1. /\ UNCHANGED <<doc, todo, children, nodes, nodesToClean, pointerNodes, freed, deleted>>
        /\ phase = "linking" /\ phase' = "failed" /\ todo # <<>> /\ Load!Found(a)
        /\ view' = [view EXCEPT ![a] = Load!View(t, children[t])] /\ nodesToClean2' = nodesToClean2 \cup {a}
    BY <1>5 DEF Load!CopyFails
  <2>2. a \in Load!Links /\ t \in Tree
    BY <2>1, NextAssociation DEF Tree, Load!Kept
  <2>3. children[t] \in Seq(Load!Nodes) /\ view \in [Load!Links \cup Load!Pointers -> Load!Views] /\ nodesToClean2 \subseteq Load!Links
    BY <1>0, <2>2 DEF TreeOK, Tree
  <2>4. Load!View(t, children[t]) \in Load!Views
    BY <2>2, <2>3, ViewIs
  <2> HIDE DEF a, t
  <2>5. view' \in [Load!Links \cup Load!Pointers -> Load!Views] /\ nodesToClean2' \subseteq Load!Links
    BY <2>1, <2>2, <2>3, <2>4
  <2>6. TreeOK'
    BY <1>0, <2>1, <2>5 DEF TreeOK
  <2> QED BY <1>0, <2>1, <2>6, AtMostOnce DEF TreeInv
<1>6. CASE \E again : Load!FreeObjects(again)
  <2>1. PICK again : Load!FreeObjects(again)
    BY <1>6
  <2>2. /\ UNCHANGED <<doc, todo, children, view, nodes, nodesToClean, nodesToClean2, pointerNodes, deleted>>
        /\ phase = "freed" /\ phase' = "destroyed"
        /\ freed' = [n \in Load!Nodes |-> IF n \in again THEN freed[n] + 1 ELSE freed[n]]
    BY <2>1 DEF Load!FreeObjects
  <2>3. freed' \in [Load!Nodes -> Nat]
    BY <1>0, <2>2 DEF TreeOK
  <2>4. TreeOK'
    BY <1>0, <2>2, <2>3 DEF TreeOK
  <2>5. Load!Killed' = Load!Killed /\ Load!Kept' = Load!Kept /\ LinksInKept' = LinksInKept
    BY <2>2, TreeSame
  <2>6. AllFreed /\ todo = <<>>
    BY <2>2 DEF TreeInv
  <2> QED BY <1>0, <2>2, <2>4, <2>5, <2>6 DEF TreeInv, AllFreed
<1> QED BY <1>1, <1>2, <1>3, <1>4, <1>5, <1>6

(* Every step of the load and of ~Site keeps the tree's invariant. *)
LEMMA TreeStepOK == TreeInv /\ [Load!Next]_loadVars => TreeInv'
<1> SUFFICES ASSUME TreeInv, [Load!Next]_loadVars PROVE TreeInv'
  OBVIOUS
<1> DEFINE Others == \/ Load!Loaded \/ Load!Throw \/ Load!AssociateAssociation \/ Load!CopyFails \/ Load!CutOpen
                     \/ (\E n : Load!RunQuery(n)) \/ (\E again : Load!FreeObjects(again)) \/ UNCHANGED loadVars
<1>1. Load!MakeContexts \/ Load!Associate \/ Load!CouldNotFind \/ Load!Free \/ Others
  BY DEF Load!Next, Load!Gone, Load!vars, loadVars
<1>2. CASE Load!MakeContexts
  BY <1>2, MakeContextsOK
<1>3. CASE Load!Associate
  BY <1>3, AssociateOK
<1>4. CASE Load!CouldNotFind
  BY <1>4, CouldNotFindOK
<1>5. CASE Others
  BY <1>5, OtherStepsOK
<1>6. CASE Load!Free
  BY <1>6, FreeOK
<1> QED BY <1>1, <1>2, <1>3, <1>4, <1>5, <1>6

(* While lists are shared, the node from which one is read stays, or is     *)
(* freed as an association without a target.                                *)
LEMMA StartsStepOK ==
  ASSUME TreeInv, TreeInv', StartsInv, [Load!Next]_loadVars
  PROVE  StartsInv'
<1> DEFINE D == Load!Links \cup Load!Pointers
           OK(n) == \/ view[n] = Load!NoView \/ view[n].from = Load!Null
                    \/ view[n].from \in Range(children[view[n].of]) \/ Stale(view[n].from)
<1> SUFFICES ASSUME phase' \in {"linking", "loaded"}, NEW n \in D PROVE OK(n)'
  BY DEF StartsInv, Starts
<1>1. \/ Load!MakeContexts \/ Load!Associate \/ Load!CouldNotFind \/ Load!Loaded
      \/ (\E m : Load!RunQuery(m)) \/ UNCHANGED loadVars
  BY DEF Load!Next, Load!Gone, Load!vars, loadVars, Load!CopyFails, Load!AssociateAssociation, Load!Throw,
         Load!CutOpen, Load!Free, Load!FreeObjects
<1>2. CASE Load!MakeContexts
  <2>1. view' = view /\ phase = "parsed"
    BY <1>2 DEF Load!MakeContexts
  <2>2. view[n] = Load!NoView
    BY <2>1 DEF TreeInv, JustParsed
  <2> QED BY <2>1, <2>2
<1>3. CASE Load!Loaded \/ (\E m : Load!RunQuery(m)) \/ UNCHANGED loadVars
  <2>1. UNCHANGED <<doc, todo, children, view>> /\ phase \in {"linking", "loaded"}
    BY <1>3 DEF Load!Loaded, Load!RunQuery, loadVars
  <2>2. OK(n)
    BY <2>1 DEF StartsInv, Starts
  <2>3. Stale(view[n].from)' <=> Stale(view[n].from)
    BY <2>1, TreeSame DEF Stale
  <2> QED BY <2>1, <2>2, <2>3
<1>4. CASE Load!CouldNotFind
  <2> DEFINE a == Head(todo)
             i == a[2]
             f == view[n].from
             o == view[n].of
  <2>1. /\ phase = "linking" /\ todo # <<>> /\ ~Load!Found(a) /\ todo' = Tail(todo) /\ doc' = doc /\ view' = view
        /\ children' = [children EXCEPT ![i] = Load!Without(@, {a})]
    BY <1>4 DEF Load!CouldNotFind
  <2>2. OK(n)
    BY <2>1 DEF StartsInv, Starts
  <2>3. a \in Load!Links /\ a \in KeptLinks /\ Load!Target(a) \notin Load!Kept /\ i \in Tree
    BY <2>1, NextAssociation DEF Tree
  <2>4. a \in Load!Nodes /\ a # Load!Null
    BY <2>3, LinkNode, NullNode
  <2>5. KeptLinks' = KeptLinks /\ doc'.indented = doc.indented
    BY <2>1, SameDoc
  <2>6. \A m \in Load!Nodes : Present(m)' <=> Present(m) /\ m # a
    BY <2>1, <2>3, PresentNext
  <2>7. children \in [Tree -> Seq(Load!Nodes)] /\ view \in [D -> Load!Views]
    BY DEF TreeInv, TreeOK, Tree
  <2>8. o \in Tree
    BY <2>7 DEF Load!Views, Tree
  <2>9. \A x : x \in Range(children[o]) /\ x # a => x \in Range(children'[o])
    <3>1. CASE o = i
      <4>1. children[i] \in Seq(Load!Nodes) /\ children'[i] = Load!Without(children[i], {a})
        BY <2>1, <2>3, <2>7
      <4>2. \A x : x \in Range(Load!Without(children[i], {a})) <=> x \in Range(children[i]) /\ x \notin {a}
        BY <4>1, WithoutIs
      <4> QED BY <3>1, <4>1, <4>2
    <3>2. CASE o # i
      BY <2>1, <2>7, <2>8, <3>2
    <3> QED BY <3>1, <3>2
  <2>10. ASSUME view[n] # Load!NoView, f = a PROVE ~doc.indented
    <3> SUFFICES ASSUME doc.indented PROVE FALSE
      OBVIOUS
    <3>1. Edges /\ Shared
      BY <2>1 DEF TreeInv
    <3>2. ASSUME NEW j \in Load!Ids PROVE Load!Indent(j, 1) # a
      BY <2>3, TextNode
    <3>3. CASE n \in Load!Links
      <4>1. Spliced(n)
        BY <2>10, <3>1, <3>3 DEF Shared
      <4>2. f = Load!Indent(Load!Target(n), 1) /\ Load!Target(n) \in Load!Ids
        BY <3>1, <3>3, <4>1 DEF Edges, Spliced, Load!Kept
      <4> QED BY <2>10, <3>2, <4>2
    <3>4. CASE n \in Load!Pointers
      <4> DEFINE b == LinkOf(n)
      <4>1. b \in Load!Links /\ n = Load!Pointer(b)
        BY <3>4, PointerNode
      <4> HIDE DEF b
      <4>2. Spliced(b)
        BY <2>10, <3>1, <4>1 DEF Shared
      <4>3. f = Load!Indent(b[2], 1) /\ b[2] \in Load!Ids
        BY <3>1, <4>1, <4>2, LinkNode DEF Edges
      <4> QED BY <2>10, <3>2, <4>3
    <3> QED BY <3>3, <3>4
  <2> HIDE DEF a, i
  <2>11. CASE view[n] = Load!NoView \/ f = Load!Null
    BY <2>1, <2>11
  <2>12. CASE view[n] # Load!NoView /\ f # Load!Null /\ f = a
    <3>1. PICK c : c = a
      OBVIOUS
    <3>2. ~doc'.indented /\ c \in KeptLinks' /\ ~Present(c)'
      BY <2>3, <2>4, <2>5, <2>6, <2>10, <2>12, <3>1
    <3>3. view'[n].from = c
      BY <2>1, <2>12, <3>1
    <3> QED BY <3>2, <3>3 DEF Stale, Present, Spliced, LinkOf, Load!Target
  <2>13. CASE view[n] # Load!NoView /\ f # Load!Null /\ f # a
    <3>1. f \in Range(children[o]) \/ Stale(f)
      BY <2>2, <2>13
    <3>2. CASE f \in Range(children[o])
      BY <2>1, <2>9, <2>13, <3>2
    <3>3. CASE Stale(f)
      <4>1. f \in Load!Nodes
        BY <3>3, LinkNode DEF Stale, KeptLinks, LinksInKept
      <4>2. PICK c : c = f
        OBVIOUS
      <4>3. ~doc'.indented /\ c \in KeptLinks' /\ ~Present(c)'
        BY <2>5, <2>6, <3>3, <4>1, <4>2 DEF Stale
      <4>4. view'[n].from = c
        BY <2>1, <4>2
      <4> QED BY <4>3, <4>4 DEF Stale, Present, Spliced, LinkOf, Load!Target
    <3> QED BY <3>1, <3>2, <3>3
  <2> QED BY <2>11, <2>12, <2>13
<1>5. CASE Load!Associate
  <2> DEFINE a == Head(todo)
             i == a[2]
             t == Load!Target(a)
             p == Load!Pointer(a)
             base(m) == IF m = a THEN Load!View(t, children[t]) ELSE IF m = p THEN Load!View(i, children[i]) ELSE view[m]
  <2>1. /\ phase = "linking" /\ todo # <<>> /\ Load!Found(a) /\ todo' = Tail(todo) /\ doc' = doc
        /\ children' = [children EXCEPT ![t] = Append(@, p)]
    BY <1>5 DEF Load!Associate
  <2>2. /\ a \in Load!Links /\ a \in KeptLinks /\ t \in Load!Kept /\ i \in Tree /\ t \in Tree /\ p \in Load!Nodes
    BY <2>1, NextAssociation, LinkNode DEF Tree, Load!Kept
  <2>3. OK(n)
    BY <2>1 DEF StartsInv, Starts
  <2>4. /\ view'[n].of = base(n).of /\ view'[n].from = base(n).from
    BY <1>5, ViewNext
  <2>5. KeptLinks' = KeptLinks /\ doc'.indented = doc.indented /\ \A m \in Load!Nodes : Present(m)' <=> Present(m) \/ m = p
    BY <2>1, <2>2, SameDoc, PresentNext
  <2>6. children \in [Tree -> Seq(Load!Nodes)] /\ view \in [D -> Load!Views]
    BY DEF TreeInv, TreeOK, Tree
  <2>a. p[1] = "pointer"
    BY <2>2, LinkNode
  <2> HIDE DEF a, i, t, p
  <2>7. \A j \in Tree : Range(children[j]) \subseteq Range(children'[j])
    <3> SUFFICES ASSUME NEW j \in Tree PROVE Range(children[j]) \subseteq Range(children'[j])
      OBVIOUS
    <3>1. CASE j = t
      <4>1. children[t] \in Seq(Load!Nodes) /\ children'[t] = Append(children[t], p)
        BY <2>1, <2>2, <2>6
      <4>2. Range(Append(children[t], p)) = Range(children[t]) \cup {p}
        BY <2>2, <4>1, AppendIs
      <4> QED BY <3>1, <4>1, <4>2
    <3>2. CASE j # t
      BY <2>1, <2>6, <3>2
    <3> QED BY <3>1, <3>2
  <2>8. \A j \in Tree : LET v == Load!View(j, children[j])
                        IN  v.of = j /\ (v.from = Load!Null \/ v.from \in Range(children[j]))
    <3> SUFFICES ASSUME NEW j \in Tree
                 PROVE  LET v == Load!View(j, children[j])
                        IN  v.of = j /\ (v.from = Load!Null \/ v.from \in Range(children[j]))
      OBVIOUS
    <3> DEFINE s == children[j]
    <3>1. s \in Seq(Load!Nodes)
      BY <2>6
    <3> HIDE DEF s
    <3>2. s # <<>> => 1 \in DOMAIN s
      BY <3>1, EmptySeq, LenProperties
    <3>3. Load!View(j, s).of = j /\ Load!View(j, s).from = Load!FirstOf(s)
      BY DEF Load!View
    <3>4. Load!FirstOf(s) = Load!Null \/ Load!FirstOf(s) \in Range(s)
      BY <3>2 DEF Load!FirstOf, Range
    <3> QED BY <3>3, <3>4 DEF s
  <2>9. CASE n = a \/ n = p
    <3>1. \E j \in Tree : base(n) = Load!View(j, children[j])
      BY <2>2, <2>9
    <3> HIDE DEF base
    <3>2. \E j \in Tree : view'[n].of = j /\ (view'[n].from = Load!Null \/ view'[n].from \in Range(children[j]))
      BY <2>4, <2>8, <3>1
    <3> QED BY <2>7, <3>2
  <2>10. CASE n # a /\ n # p
    <3>1. view'[n].of = view[n].of /\ view'[n].from = view[n].from /\ view[n].of \in Tree
      BY <2>4, <2>6, <2>10 DEF Load!Views, Tree
    <3> HIDE DEF base
    <3>2. CASE view[n] = Load!NoView
      BY <3>1, <3>2 DEF Load!NoView
    <3>3. CASE view[n].from = Load!Null \/ view[n].from \in Range(children[view[n].of])
      BY <2>7, <3>1, <3>3
    <3>4. CASE Stale(view[n].from)
      <4> DEFINE f == view[n].from
      <4>1. f \in Load!Nodes /\ f # p
        BY <2>a, <3>4, LinkNode DEF Stale, KeptLinks, LinksInKept
      <4>2. PICK c : c = f
        OBVIOUS
      <4>3. ~doc'.indented /\ c \in KeptLinks' /\ ~Present(c)'
        BY <2>5, <3>4, <4>1, <4>2 DEF Stale
      <4> QED BY <3>1, <4>2, <4>3 DEF Stale, Present, Spliced, LinkOf, Load!Target
    <3> QED BY <2>3, <3>2, <3>3, <3>4
  <2> QED BY <2>9, <2>10
<1> QED BY <1>1, <1>2, <1>3, <1>4, <1>5

(* A list of attributes goes with the element it was parsed for, or when    *)
(* that shows another's.                                                    *)
LEMMA AttrStepOK ==
  ASSUME TreeInv, TreeInv', AttrInv, [Load!Next]_loadVars
  PROVE  AttrInv'
<1> DEFINE P == Load!Items \cup Load!Links \cup Load!Pointers
           Q == Load!Items \cup Load!Links
<1>0. props \in [P -> Q \cup {Load!Null}] /\ attrsFreed \in [Q -> Nat] /\ doc \in Documents
  BY DEF AttrInv, TreeInv
<1>1. \A i \in Load!Ids : Load!Item(i) \in Q /\ Load!Item(i) \in P /\ Load!Item(i) \in Load!Nodes /\ Load!Item(i)[1] = "item"
                          /\ Load!Item(i)[2] = i
  BY ItemNode
<1>2. \A a \in Load!Links : a \in Q /\ a \in P /\ Load!Pointer(a) \in P /\ a[1] = "link" /\ Load!Pointer(a)[1] = "pointer"
                            /\ a \in Load!Nodes /\ LinkOf(Load!Pointer(a)) = a /\ a[2] \in Load!Ids
  BY LinkNode
<1>3. \A n \in Q : n \in Load!Links \/ \E i \in Load!Ids : n = Load!Item(i)
  BY DEF Load!Items
<1>4. CASE Load!MakeContexts
  <2> DEFINE gone == (UNION {Load!Subtree(i) : i \in Load!Killed}) \cup Load!KilledLinks
  <2>1. /\ phase = "parsed" /\ phase' = "linking" /\ doc' = doc /\ props' = props
        /\ attrsFreed' = [n \in Q |-> IF n \in gone THEN 1 ELSE 0]
        /\ freed' = [n \in Load!Nodes |-> IF n \in gone THEN 1 ELSE 0]
    BY <1>4 DEF Load!MakeContexts
  <2>2. OwnProps
    BY <2>1 DEF AttrInv
  <2>3. FreedSoFar' /\ Left'
    BY <2>1 DEF TreeInv
  <2>4. Range(todo') = KeptLinks /\ KeptLinks' = KeptLinks
    <3>1. todo' = Load!Without(FlattenSeq([i \in Load!Ids |-> IF i \in Load!Kept THEN Load!LinksOf(doc, i) ELSE <<>>]),
                               Load!KilledLinks)
      BY <1>4, SameOperators DEF Load!MakeContexts
    <3> QED BY <1>0, <2>1, <3>1, AssociationsIs, SameDoc
  <2>5. \A a : ~Spliced(a)'
    BY <2>4 DEF Spliced
  <2> HIDE DEF gone
  <2>6. \A n \in Q : attrsFreed'[n] = IF InFeed(n)' /\ ~Present(n)' THEN 1 ELSE 0
    <3>1. \A n \in Q : n \in Load!Nodes /\ attrsFreed'[n] = freed'[n]
      BY <1>1, <1>2, <1>3, <2>1
    <3> QED BY <2>3, <3>1 DEF FreedSoFar
  <2>7. AttrsSoFar'
    <3>1. \A i \in Load!Ids : attrsFreed'[Load!Item(i)] = IF i \in Load!Kept' THEN 0 ELSE 1
      BY <1>1, <2>6 DEF InFeed, Present
    <3>2. \A a \in Load!Links : attrsFreed'[a] = IF InFeed(a)' /\ ~Present(a)' THEN 1 ELSE 0
      BY <1>2, <2>6
    <3> QED BY <2>5, <3>1, <3>2 DEF AttrsSoFar
  <2>8. PropsShared'
    BY <1>1, <1>2, <2>1, <2>2, <2>5 DEF PropsShared, OwnProps
  <2>9. attrsFreed' \in [Q -> Nat]
    BY <2>1
  <2> QED BY <1>0, <2>1, <2>7, <2>8, <2>9 DEF AttrInv
<1>5. CASE Load!Associate \/ Load!CouldNotFind \/ Load!CopyFails
  <2> DEFINE a == Head(todo)
             t == Load!Target(a)
             p == Load!Pointer(a)
  <2>1. /\ phase = "linking" /\ todo # <<>> /\ doc' = doc
        /\ attrsFreed' = [attrsFreed EXCEPT ![props[a]] = @ + 1]
    BY <1>5 DEF Load!Associate, Load!CouldNotFind, Load!CopyFails
  <2>2. PropsShared /\ AttrsSoFar
    BY <2>1 DEF AttrInv
  <2>3. /\ a \in Load!Links /\ a \in KeptLinks /\ a \in LinksInKept /\ a[2] \in Load!Ids /\ a \in Range(todo)
        /\ (Load!Found(a) <=> t \in Load!Kept)
    BY <2>1, NextAssociation
  <2>4. ~Spliced(a) /\ InFeed(a) /\ Present(a)
    BY <1>2, <2>3 DEF Spliced, InFeed, Present, LinksInKept
  <2>5. props[a] = a /\ attrsFreed[a] = 0
    BY <2>2, <2>3, <2>4 DEF PropsShared, AttrsSoFar
  <2>6. Load!Kept' = Load!Kept /\ \A n : InFeed(n)' = InFeed(n)
    BY <2>1, SameDoc
  <2>b. \A b : Load!Target(b)' = Load!Target(b)
    BY <2>1, SameDoc
  <2>c. \A b \in Load!Links : b # p /\ Load!Pointer(b) # a /\ (Load!Pointer(b) = p => b = a)
    BY <1>2, <2>3
  <2>d. p \in P /\ a \in P /\ a \in Q /\ a[1] = "link" /\ p[1] = "pointer" /\ p # a
    BY <1>2, <2>3
  <2> HIDE DEF a, t, p
  <2>7. attrsFreed' \in [Q -> Nat] /\ \A n \in Q : attrsFreed'[n] = IF n = a THEN 1 ELSE attrsFreed[n]
    BY <1>0, <2>1, <2>5, <2>d
  <2>8. \A i \in Load!Ids : Load!Item(i) # a /\ Load!Item(i) # p
    BY <1>1, <2>d
  <2>9. CASE Load!Associate \/ Load!CouldNotFind
    <3>1. todo' = Tail(todo) /\ phase' = "linking"
      BY <2>1, <2>9 DEF Load!Associate, Load!CouldNotFind
    <3>2. /\ \A b : Spliced(b)' <=> Spliced(b) \/ (b = a /\ t \in Load!Kept)
          /\ \A n \in Load!Nodes : Present(n)' <=> \/ Present(n) /\ (n = a => t \in Load!Kept)
                                                   \/ n = p /\ t \in Load!Kept
      BY <2>1, <3>1, PresentNext DEF a, t, p
    <3>3. AttrsSoFar'
      <4>1. \A i \in Load!Ids : attrsFreed'[Load!Item(i)] = IF i \in Load!Kept' THEN 0 ELSE 1
        BY <1>1, <2>2, <2>6, <2>7, <2>8 DEF AttrsSoFar
      <4>2. ASSUME NEW b \in Load!Links
            PROVE  attrsFreed'[b] = IF InFeed(b)' /\ (Spliced(b)' \/ ~Present(b)') THEN 1 ELSE 0
        <5>1. b \in Load!Nodes /\ b \in Q /\ b # p
          BY <1>2, <2>c
        <5>2. CASE b = a
          BY <2>4, <2>6, <2>7, <3>2, <5>1, <5>2
        <5>3. CASE b # a
          <6>1. (Spliced(b)' <=> Spliced(b)) /\ (Present(b)' <=> Present(b)) /\ InFeed(b)' = InFeed(b)
            BY <2>6, <3>2, <5>1, <5>3
          <6>2. attrsFreed'[b] = attrsFreed[b]
            BY <2>7, <5>1, <5>3
          <6> QED BY <2>2, <6>1, <6>2 DEF AttrsSoFar
        <5> QED BY <5>2, <5>3
      <4> QED BY <4>1, <4>2 DEF AttrsSoFar
    <3>4. CASE Load!Associate
      <4>1. t \in Load!Kept /\ props' = [props EXCEPT ![a] = props[Load!Item(t)], ![p] = props[Load!Item(a[2])]]
        BY <2>3, <3>4 DEF Load!Associate, a, t, p
      <4>2. props[Load!Item(t)] = Load!Item(t) /\ props[Load!Item(a[2])] = Load!Item(a[2]) /\ t \in Load!Ids
        BY <2>2, <2>3, <4>1 DEF PropsShared, Load!Kept
      <4>3. \A n \in P : props'[n] = IF n = p THEN Load!Item(a[2]) ELSE IF n = a THEN Load!Item(t) ELSE props[n]
        BY <1>0, <2>d, <4>1, <4>2
      <4>4. props' \in [P -> Q \cup {Load!Null}]
        <5>1. Load!Item(t) \in Q /\ Load!Item(a[2]) \in Q
          BY <1>1, <2>3, <4>2
        <5>2. DOMAIN props' = P /\ props' = [n \in P |-> props'[n]]
          BY <1>0, <4>1
        <5> QED BY <1>0, <4>3, <5>1, <5>2
      <4>5. PropsShared'
        <5>1. \A i \in Load!Ids : props'[Load!Item(i)] = Load!Item(i)
          BY <1>1, <2>2, <2>8, <4>3 DEF PropsShared
        <5>2. ASSUME NEW b \in Load!Links
              PROVE  /\ props'[b] = IF Spliced(b)' THEN Load!Item(Load!Target(b)) ELSE b
                     /\ props'[Load!Pointer(b)] = IF Spliced(b)' THEN Load!Item(b[2]) ELSE Load!Null
          <6>1. b \in P /\ Load!Pointer(b) \in P /\ b # p /\ Load!Pointer(b) # a
            BY <1>2, <2>c
          <6>2. CASE b = a
            <7>1. Load!Pointer(b) = p /\ t = Load!Target(b) /\ Spliced(b)'
              BY <3>2, <4>1, <6>2 DEF p, t
            <7> QED BY <4>3, <6>1, <6>2, <7>1
          <6>3. CASE b # a
            <7>1. Load!Pointer(b) # p /\ (Spliced(b)' <=> Spliced(b))
              BY <2>c, <3>2, <6>3
            <7> QED BY <2>2, <4>3, <6>1, <6>3, <7>1 DEF PropsShared
          <6> QED BY <6>2, <6>3
        <5> QED BY <2>b, <5>1, <5>2 DEF PropsShared
      <4> QED BY <2>7, <3>1, <3>3, <4>4, <4>5 DEF AttrInv
    <3>5. CASE Load!CouldNotFind
      <4>1. props' = props /\ t \notin Load!Kept
        BY <2>3, <3>5 DEF Load!CouldNotFind, a, t
      <4>2. PropsShared'
        BY <2>2, <2>b, <3>2, <4>1 DEF PropsShared
      <4> QED BY <1>0, <2>7, <3>1, <3>3, <4>1, <4>2 DEF AttrInv
    <3> QED BY <2>9, <3>4, <3>5
  <2>10. CASE Load!CopyFails
    <3>1. phase' = "failed" /\ t \in Load!Kept /\ props' = [props EXCEPT ![a] = props[Load!Item(t)]]
      BY <2>3, <2>10 DEF Load!CopyFails, a, t
    <3>2. t \in Load!Ids /\ props[Load!Item(t)] \in Q
      BY <1>1, <2>2, <3>1 DEF PropsShared, Load!Kept
    <3>3. props' \in [P -> Q \cup {Load!Null}]
      BY <1>0, <2>d, <3>1, <3>2
    <3>4. \A n \in Q : attrsFreed'[n] <= 1
      <4>1. \A n \in Q : attrsFreed[n] <= 1
        BY <1>3, <2>2 DEF AttrsSoFar
      <4> QED BY <2>7, <4>1
    <3> QED BY <2>7, <3>1, <3>3, <3>4 DEF AttrInv
  <2> QED BY <1>5, <2>9, <2>10
<1>6. CASE Load!CutOpen
  <2>1. /\ UNCHANGED <<doc, todo, attrsFreed>> /\ phase = "loaded" /\ phase' = "cut"
        /\ props' = [n \in DOMAIN props |-> IF n \in nodesToClean \cup nodesToClean2 THEN Load!Null ELSE props[n]]
    BY <1>6 DEF Load!CutOpen, Load!Cuts
  <2>2. PropsShared /\ AttrsSoFar /\ Shared /\ nodesToClean \subseteq Load!Pointers /\ nodesToClean2 \subseteq Load!Links
    BY <2>1 DEF AttrInv, TreeInv, TreeOK
  <2>3. Load!Kept' = Load!Kept /\ \A n : InFeed(n)' = InFeed(n) /\ (Present(n)' <=> Present(n)) /\ (Spliced(n)' <=> Spliced(n))
    BY <2>1, TreeSame
  <2>4. AttrsSoFar'
    BY <2>1, <2>2, <2>3 DEF AttrsSoFar
  <2>5. props' \in [P -> Q \cup {Load!Null}]
    BY <1>0, <2>1
  <2>6. ASSUME NEW i \in Load!Ids PROVE props'[Load!Item(i)] = Load!Item(i)
    <3>1. Load!Item(i) \notin nodesToClean \cup nodesToClean2
      BY <1>1, <1>2, <2>2, PointerNode
    <3> QED BY <1>0, <1>1, <2>1, <2>2, <3>1 DEF PropsShared
  <2>7. ASSUME NEW a \in Load!Links
        PROVE  /\ props'[a] \in {a, Load!Null} /\ (Spliced(a) => props'[a] = Load!Null)
               /\ props'[Load!Pointer(a)] = Load!Null
    <3>1. CASE Spliced(a)
      <4>1. a \in nodesToClean2 /\ Load!Pointer(a) \in nodesToClean
        BY <2>2, <3>1 DEF Shared
      <4> QED BY <1>0, <1>2, <2>1, <4>1
    <3>2. CASE ~Spliced(a)
      <4>1. props[a] = a /\ props[Load!Pointer(a)] = Load!Null
        BY <2>2, <3>2 DEF PropsShared
      <4> QED BY <1>0, <1>2, <2>1, <3>2, <4>1
    <3> QED BY <3>1, <3>2
  <2>8. PropsCut'
    BY <2>3, <2>6, <2>7 DEF PropsCut
  <2> QED BY <1>0, <2>1, <2>4, <2>5, <2>8 DEF AttrInv
<1>7. CASE Load!Free
  <2> DEFINE visits == UNION {{m} \X Range(Load!ListAt(m)) : m \in Load!Reachable}
             here(n) == {v \in visits : v[2] = n}
             shown(n) == {v \in visits : v[2] \in DOMAIN props /\ props[v[2]] = n}
  <2>1. /\ phase = "cut" /\ phase' = "freed" /\ doc' = doc /\ todo' = todo /\ props' = props
        /\ attrsFreed' = [n \in DOMAIN attrsFreed |-> attrsFreed[n] + Cardinality(shown(n))]
    BY <1>7, SameOperators, LoadCardinality DEF Load!Free
  <2>2. PropsCut /\ AttrsSoFar /\ todo = <<>>
    BY <2>1 DEF AttrInv, TreeInv
  <2>3. \A n \in Load!Nodes : Cardinality(here(n)) = IF Present(n) THEN 1 ELSE 0
    BY <2>1, FoundOnce
  <2>4. Load!Null \notin Q
    <3>1. Load!Null \notin Load!Nodes
      BY NullNode
    <3> QED BY <3>1 DEF Load!Nodes
  <2>5. \A m \in P : \/ \E i \in Load!Ids : m = Load!Item(i) /\ props[m] = m
                     \/ m \in Load!Links /\ props[m] \in {m, Load!Null}
                     \/ m \in Load!Pointers /\ props[m] = Load!Null
    <3>1. \A m \in Load!Pointers : LinkOf(m) \in Load!Links /\ m = Load!Pointer(LinkOf(m))
      BY PointerNode
    <3> QED BY <1>3, <2>2, <3>1 DEF PropsCut
  <2> HIDE DEF visits
  <2>6. ASSUME NEW n \in Q PROVE shown(n) = IF props[n] = n THEN here(n) ELSE {}
    <3>1. DOMAIN props = P /\ n \in P /\ n # Load!Null
      BY <1>0, <2>4
    <3>2. \A m \in P : props[m] = n => m = n
      BY <2>5, <3>1
    <3> HIDE DEF P, Q
    <3> QED BY <3>1, <3>2
  <2> HIDE DEF shown, here
  <2>7. \A i \in Load!Ids : attrsFreed'[Load!Item(i)] = 1
    <3> SUFFICES ASSUME NEW i \in Load!Ids PROVE attrsFreed'[Load!Item(i)] = 1
      OBVIOUS
    <3>1. shown(Load!Item(i)) = here(Load!Item(i))
      BY <1>1, <2>2, <2>6 DEF PropsCut
    <3>2. Present(Load!Item(i)) <=> i \in Load!Kept
      BY <1>1 DEF Present
    <3>3. Cardinality(shown(Load!Item(i))) = IF i \in Load!Kept THEN 1 ELSE 0
      BY <1>1, <2>3, <3>1, <3>2
    <3>4. attrsFreed'[Load!Item(i)] = attrsFreed[Load!Item(i)] + Cardinality(shown(Load!Item(i)))
      BY <1>0, <1>1, <2>1
    <3> QED BY <2>2, <3>3, <3>4 DEF AttrsSoFar
  <2>8. ASSUME NEW a \in Load!Links PROVE attrsFreed'[a] = IF InFeed(a) THEN 1 ELSE 0
    <3>1. Present(a) => Spliced(a)
      BY <1>2, <2>2, NoNodes DEF Present, Spliced
    <3>2. Spliced(a) => InFeed(a)
      BY <1>2 DEF Spliced, KeptLinks, LinksInKept, InFeed
    <3>3. Cardinality(shown(a)) = 0
      <4>1. CASE Spliced(a)
        <5>1. props[a] # a
          BY <1>2, <2>2, <2>4, <4>1 DEF PropsCut
        <5>2. shown(a) = {}
          BY <1>2, <2>6, <5>1
        <5> QED BY <5>2, FS_EmptySet
      <4>2. CASE ~Spliced(a)
        <5>1. Cardinality(here(a)) = 0
          BY <1>2, <2>3, <3>1, <4>2
        <5>2. shown(a) = here(a) \/ shown(a) = {}
          BY <1>2, <2>6
        <5> QED BY <5>1, <5>2, FS_EmptySet
      <4> QED BY <4>1, <4>2
    <3>4. attrsFreed'[a] = attrsFreed[a] + Cardinality(shown(a))
      BY <1>0, <1>2, <2>1
    <3> QED BY <2>2, <3>1, <3>2, <3>3, <3>4 DEF AttrsSoFar
  <2>9. AttrsDone'
    <3>1. \A n : InFeed(n)' = InFeed(n)
      BY <2>1, SameDoc
    <3> QED BY <2>7, <2>8, <3>1 DEF AttrsDone
  <2>10. attrsFreed' \in [Q -> Nat]
    <3>1. \A n \in Q : attrsFreed'[n] \in Nat
      BY <1>3, <2>7, <2>8
    <3>2. attrsFreed' = [n \in Q |-> attrsFreed'[n]]
      BY <1>0, <2>1
    <3> QED BY <3>1, <3>2
  <2> QED BY <1>0, <2>1, <2>9, <2>10 DEF AttrInv
<1>8. CASE \/ Load!Loaded \/ Load!Throw \/ Load!AssociateAssociation
           \/ (\E n : Load!RunQuery(n)) \/ (\E again : Load!FreeObjects(again)) \/ UNCHANGED loadVars
  <2>1. UNCHANGED <<doc, todo, props, attrsFreed>>
    BY <1>8 DEF Load!Loaded, Load!Throw, Load!AssociateAssociation, Load!RunQuery, Load!FreeObjects, loadVars
  <2>2. /\ phase' = phase \/ (phase = "linking" /\ phase' = "loaded") \/ (phase = "freed" /\ phase' = "destroyed")
        \/ (phase \in {"parsed", "linking"} /\ phase' \in {"failed", "corrupted"})
    BY <1>8 DEF Load!Loaded, Load!Throw, Load!AssociateAssociation, Load!RunQuery, Load!FreeObjects, loadVars
  <2>3. /\ Load!Kept' = Load!Kept /\ \A a : Load!Target(a)' = Load!Target(a) /\ (Spliced(a)' <=> Spliced(a))
        /\ \A n : InFeed(n)' = InFeed(n) /\ (Present(n)' <=> Present(n))
    BY <2>1, TreeSame
  <2>4. /\ (OwnProps => OwnProps') /\ (PropsShared => PropsShared') /\ (PropsCut => PropsCut')
        /\ (AttrsSoFar => AttrsSoFar') /\ (AttrsDone => AttrsDone')
    BY <2>1, <2>3 DEF OwnProps, PropsShared, PropsCut, AttrsSoFar, AttrsDone
  <2>5. phase \in {"parsed", "linking"} => \A n \in Q : attrsFreed[n] <= 1
    BY <1>3 DEF AttrInv, AttrsSoFar
  <2>6. props' \in [P -> Q \cup {Load!Null}] /\ attrsFreed' \in [Q -> Nat]
    BY <1>0, <2>1
  <2>7. CASE phase' = phase
    BY <2>1, <2>4, <2>6, <2>7 DEF AttrInv
  <2>8. CASE phase = "linking" /\ phase' = "loaded"
    BY <2>4, <2>6, <2>8 DEF AttrInv
  <2>9. CASE phase = "freed" /\ phase' = "destroyed"
    BY <2>4, <2>6, <2>9 DEF AttrInv
  <2>10. CASE phase \in {"parsed", "linking"} /\ phase' \in {"failed", "corrupted"}
    BY <2>1, <2>5, <2>6, <2>10 DEF AttrInv
  <2> QED BY <2>2, <2>7, <2>8, <2>9, <2>10
<1> QED BY <1>4, <1>5, <1>6, <1>7, <1>8 DEF Load!Next, Load!Gone, Load!vars, loadVars

(* XPath objects hold what was found in the tree, and a node they hold is   *)
(* freed once more at most.                                                 *)
LEMMA HeldStepOK ==
  ASSUME TreeInv, StartsInv, AttrInv, HeldInv, [Load!Next]_loadVars
  PROVE  HeldInv'
<1> DEFINE late == {"loaded", "cut", "freed", "destroyed"}
<1>1. held \subseteq Load!Nodes /\ (held # {} => phase \in late) /\ \A n \in held : InFeed(n) \/ Present(n)
  BY DEF HeldInv
<1>2. CASE \E n \in Load!Reachable \cap DOMAIN props : Load!RunQuery(n)
  <2>1. PICK n \in Load!Reachable \cap DOMAIN props : Load!RunQuery(n)
    BY <1>2
  <2>2. phase = "loaded" /\ phase' = "loaded" /\ held' = held \cup {n} /\ UNCHANGED <<doc, todo>>
    BY <2>1 DEF Load!RunQuery
  <2>3. Starts /\ ListsHeld
    BY <2>2 DEF StartsInv, TreeInv
  <2>4. n = Load!Null \/ (n \in Load!Nodes /\ (Present(n) \/ Stale(n)))
    BY <2>1, <2>3, ReachablePresent
  <2>5. CASE n \in Load!Nodes /\ (Present(n) \/ Stale(n))
    <3>1. InFeed(n) \/ Present(n)
      BY <2>5, LinkNode DEF Stale, KeptLinks, LinksInKept, InFeed
    <3>2. \A m : InFeed(m)' = InFeed(m) /\ (Present(m)' <=> Present(m))
      BY <2>2, TreeSame
    <3>3. \A m \in held' : m \in Load!Nodes /\ (InFeed(m) \/ Present(m))
      BY <1>1, <2>2, <2>5, <3>1
    <3> QED BY <2>2, <3>2, <3>3 DEF HeldInv
  <2>6. n # Load!Null
    <3>1. n \in Load!Items \cup Load!Links \cup Load!Pointers
      BY <2>1 DEF AttrInv
    <3> QED BY <3>1, NullNode DEF Load!Nodes
  <2> QED BY <2>4, <2>5, <2>6
<1>3. CASE \E again \in SUBSET held : Load!FreeObjects(again)
  <2>1. PICK again \in SUBSET held : Load!FreeObjects(again)
    BY <1>3
  <2>2. /\ phase = "freed" /\ phase' = "destroyed" /\ held' = held /\ UNCHANGED <<doc, todo>>
        /\ freed' = [n \in Load!Nodes |-> IF n \in again THEN freed[n] + 1 ELSE freed[n]]
    BY <2>1 DEF Load!FreeObjects
  <2>3. AllFreed
    BY <2>2 DEF TreeInv
  <2>4. \A m : InFeed(m)' = InFeed(m) /\ (Present(m)' <=> Present(m))
    BY <2>2, TreeSame
  <2>5. ASSUME NEW n \in Load!Nodes
        PROVE  freed'[n] \in IF n \in held THEN {1, 2} ELSE {IF InFeed(n) \/ Present(n) THEN 1 ELSE 0}
    <3>1. freed[n] = IF InFeed(n) \/ Present(n) THEN 1 ELSE 0
      BY <2>3 DEF AllFreed
    <3>2. freed'[n] = IF n \in again THEN freed[n] + 1 ELSE freed[n]
      BY <2>2
    <3> QED BY <1>1, <2>1, <3>1, <3>2
  <2> QED BY <1>1, <2>2, <2>4, <2>5 DEF HeldInv
<1>4. CASE UNCHANGED loadVars
  <2>1. UNCHANGED <<doc, todo, held, freed, phase>>
    BY <1>4 DEF loadVars
  <2>2. \A m : InFeed(m)' = InFeed(m) /\ (Present(m)' <=> Present(m))
    BY <2>1, TreeSame
  <2> QED BY <2>1, <2>2 DEF HeldInv
<1>5. CASE \/ Load!MakeContexts \/ Load!Associate \/ Load!CopyFails \/ Load!AssociateAssociation \/ Load!CouldNotFind
           \/ Load!Loaded \/ Load!Throw
  <2>1. held' = held /\ phase \in {"parsed", "linking"} /\ phase' # "destroyed"
    BY <1>5 DEF Load!MakeContexts, Load!Associate, Load!CopyFails, Load!AssociateAssociation, Load!CouldNotFind,
                Load!Loaded, Load!Throw
  <2>2. held = {}
    BY <1>1, <2>1
  <2> QED BY <2>1, <2>2 DEF HeldInv
<1>6. CASE Load!CutOpen \/ Load!Free
  <2>1. UNCHANGED <<doc, todo, held>> /\ phase' \in {"cut", "freed"}
    BY <1>6 DEF Load!CutOpen, Load!Free
  <2>2. \A m : InFeed(m)' = InFeed(m) /\ (Present(m)' <=> Present(m))
    BY <2>1, TreeSame
  <2> QED BY <1>1, <2>1, <2>2 DEF HeldInv
<1> QED BY <1>2, <1>3, <1>4, <1>5, <1>6 DEF Load!Next, Load!Gone, Load!vars, loadVars

(* A document without an association of an association does not get there. *)
LEMMA CorruptStepOK ==
  ASSUME TreeInv, CorruptInv, [Load!Next]_loadVars
  PROVE  CorruptInv'
<1> SUFFICES ASSUME phase' = "corrupted" PROVE \E i \in Load!Kept' : Load!AnAssociation \in Range(doc'.links[i])
  BY DEF CorruptInv
<1>1. Load!AssociateAssociation \/ (UNCHANGED <<doc, todo>> /\ phase = "corrupted")
  BY DEF Load!Next, Load!Gone, Load!vars, loadVars, Load!MakeContexts, Load!Associate, Load!CopyFails,
         Load!CouldNotFind, Load!Loaded, Load!Throw, Load!RunQuery, Load!CutOpen, Load!Free, Load!FreeObjects
<1>2. doc' = doc /\ Load!Kept' = Load!Kept
  BY <1>1, SameDoc DEF Load!AssociateAssociation
<1>3. CASE Load!AssociateAssociation
  <2> DEFINE a == Head(todo)
  <2>1. phase = "linking" /\ todo # <<>> /\ Load!Target(a) = Load!AnAssociation
    BY <1>3 DEF Load!AssociateAssociation
  <2>2. a \in LinksInKept
    BY <2>1, NextAssociation
  <2> HIDE DEF a
  <2>3. a[2] \in Load!Kept /\ a[3] \in DOMAIN doc.links[a[2]] /\ doc.links[a[2]][a[3]] = Load!AnAssociation
    BY <2>1, <2>2 DEF LinksInKept, Load!Target
  <2> QED BY <1>2, <2>3 DEF Range
<1>4. CASE UNCHANGED <<doc, todo>> /\ phase = "corrupted"
  BY <1>2, <1>4 DEF CorruptInv
<1> QED BY <1>1, <1>3, <1>4

(* The invariant holds of the tree as libxml2 has parsed it. *)
LEMMA LoadStartOK == Load!Init => LoadInv
<1> SUFFICES ASSUME Load!Init PROVE LoadInv
  OBVIOUS
<1>1. TreeInv
  BY StartOK
<1>2. /\ phase = "parsed" /\ held = {} /\ attrsFreed = [n \in Load!Items \cup Load!Links |-> 0]
      /\ props = [n \in Load!Items \cup Load!Links \cup Load!Pointers |-> IF n \in Load!Pointers THEN Load!Null ELSE n]
  BY DEF Load!Init
<1>3. \A n \in Load!Items \cup Load!Links : n \notin Load!Pointers
  BY PointerNode, LinkNode, ItemNode DEF Load!Items
<1>4. AttrInv
  <2>1. props \in [Load!Items \cup Load!Links \cup Load!Pointers -> Load!Items \cup Load!Links \cup {Load!Null}]
    BY <1>2
  <2>2. OwnProps
    BY <1>2, <1>3, LinkNode DEF OwnProps
  <2> QED BY <1>2, <2>1, <2>2 DEF AttrInv
<1> QED BY <1>1, <1>2, <1>4 DEF LoadInv, StartsInv, HeldInv, CorruptInv

(* Every step of the load and of ~Site keeps the invariant. *)
LEMMA LoadStepOK == LoadInv /\ [Load!Next]_loadVars => LoadInv'
<1> SUFFICES ASSUME LoadInv, [Load!Next]_loadVars PROVE LoadInv'
  OBVIOUS
<1>1. TreeInv /\ StartsInv /\ AttrInv /\ HeldInv /\ CorruptInv
  BY DEF LoadInv
<1>2. TreeInv'
  BY <1>1, TreeStepOK
<1>3. StartsInv'
  BY <1>1, <1>2, StartsStepOK
<1>4. AttrInv'
  BY <1>1, <1>2, AttrStepOK
<1>5. HeldInv' /\ CorruptInv'
  BY <1>1, HeldStepOK, CorruptStepOK
<1> QED BY <1>2, <1>3, <1>4, <1>5 DEF LoadInv

(* Which nodes of a document are in the tree, in which list, who shares     *)
(* what with whom and what has been freed follows, after every step from    *)
(* loadXmlDoc to ~Site, from the document and the associations still to be  *)
(* initialized (Site::loadXmlDoc, Context::Context,                         *)
(* Context::initializeAssociation, Site::~Site).                            *)
THEOREM LoadInvariant == Load!Spec => []LoadInv
<1>1. Load!Init => LoadInv
  BY LoadStartOK
<1>2. LoadInv /\ [Load!Next]_loadVars => LoadInv'
  BY LoadStepOK
<1> QED BY <1>1, <1>2, PTL DEF Load!Spec, Load!vars, loadVars

(* Nor has any list of attributes. *)
LEMMA AttrsAtMostOnce ==
  ASSUME TreeInv, AttrInv
  PROVE  \A n \in Load!Items \cup Load!Links : attrsFreed[n] <= 1
<1>1. phase \in {"parsed", "linking", "corrupted", "loaded", "failed", "cut", "freed", "destroyed"}
  BY DEF TreeInv, TreeOK
<1>2. CASE phase \in {"parsed", "failed", "corrupted"}
  BY <1>2 DEF AttrInv
<1>3. CASE phase \in {"linking", "loaded", "cut"}
  <2>1. AttrsSoFar
    BY <1>3 DEF AttrInv
  <2> QED BY <2>1 DEF AttrsSoFar, Load!Items
<1>4. CASE phase \in {"freed", "destroyed"}
  <2>1. AttrsDone
    BY <1>4 DEF AttrInv
  <2> QED BY <2>1 DEF AttrsDone, Load!Items
<1> QED BY <1>1, <1>2, <1>3, <1>4

(* At the end everything has been freed, and before it nothing twice. *)
LEMMA FreedOnceIs == LoadInv => FreedOnce
<1> SUFFICES ASSUME LoadInv PROVE Load!FreedOnce
  BY DEF FreedOnce
<1>1. TreeInv /\ AttrInv /\ HeldInv /\ CorruptInv /\ doc \in Documents
  BY DEF LoadInv, TreeInv
<1> DEFINE end == phase \in {"freed", "destroyed"}
<1>2. ASSUME end, NEW n \in Load!Nodes
      PROVE  /\ InFeed(n) \/ Present(n) => freed[n] >= 1 /\ (freed[n] = 1 \/ (phase = "destroyed" /\ n \in held /\ freed[n] = 2))
             /\ ~(InFeed(n) \/ Present(n)) => freed[n] = 0
  <2>1. CASE phase = "freed"
    BY <1>1, <2>1 DEF TreeInv, AllFreed
  <2>2. CASE phase = "destroyed"
    <3>1. freed[n] \in IF n \in held THEN {1, 2} ELSE {IF InFeed(n) \/ Present(n) THEN 1 ELSE 0}
      BY <1>1, <2>2 DEF HeldInv
    <3>2. n \in held => InFeed(n) \/ Present(n)
      BY <1>1 DEF HeldInv
    <3> QED BY <2>2, <3>1, <3>2
  <2> QED BY <1>2, <2>1, <2>2
<1>3. \A n \in Load!Nodes : freed[n] <= 1 \/ (phase = "destroyed" /\ n \in held /\ freed[n] = 2)
  <2>1. CASE phase = "destroyed"
    BY <1>2, <2>1
  <2>2. CASE phase # "destroyed"
    BY <1>1, <2>2, AtMostOnce
  <2> QED BY <2>1, <2>2
<1>4. \A n \in Load!Items \cup Load!Links : attrsFreed[n] <= 1
  BY <1>1, AttrsAtMostOnce
<1>5. \A n \in Load!Items \cup Load!Links : deleted[n] <= 1
  BY <1>1, AtMostOnce
<1>6. ASSUME end
      PROVE  /\ AttrsDone
             /\ \A i \in Load!Ids : deleted[Load!Item(i)] = IF i \in Load!Killed \cup Load!Kept THEN 1 ELSE 0
             /\ \A a \in Load!Links : deleted[a] = IF a \in LinksInKept THEN 1 ELSE 0
  BY <1>1, <1>6 DEF AttrInv, TreeInv, AllFreed
<1>7. ASSUME end, NEW i \in Load!Ids
      PROVE  /\ freed[Load!Item(i)] >= 1 /\ attrsFreed[Load!Item(i)] = 1
             /\ i \in Load!Kept \cup Load!Killed => deleted[Load!Item(i)] = 1
  <2>1. Load!Item(i) \in Load!Nodes /\ InFeed(Load!Item(i))
    BY ItemNode DEF InFeed
  <2> QED BY <1>2, <1>6, <1>7, <2>1 DEF AttrsDone
<1>8. ASSUME end, NEW i \in Load!Ids, NEW k \in DOMAIN doc.links[i]
      PROVE  LET a == <<"link", i, k>>
                 spliced == i \in Load!Kept /\ a \notin Load!KilledLinks /\ Load!Target(a) \in Load!Kept
             IN  /\ freed[a] >= 1 /\ attrsFreed[a] = 1
                 /\ i \in Load!Kept => deleted[a] = 1
                 /\ IF spliced THEN freed[Load!Pointer(a)] >= 1 ELSE freed[Load!Pointer(a)] = 0
  <2> DEFINE a == <<"link", i, k>>
             spliced == i \in Load!Kept /\ a \notin Load!KilledLinks /\ Load!Target(a) \in Load!Kept
  <2>1. Range(todo) = {}
    BY <1>1, <1>8, NoNodes DEF TreeInv
  <2>2. k \in 1 .. MaxLinks
    <3>1. doc.links[i] \in Seq(Load!Ids \cup {0, Load!AnAssociation}) /\ Len(doc.links[i]) <= MaxLinks /\ MaxLinks \in Nat
      BY <1>1, DocumentType
    <3>2. Len(doc.links[i]) \in Nat /\ DOMAIN doc.links[i] = 1 .. Len(doc.links[i])
      BY <3>1, LenProperties
    <3> QED BY <1>8, <3>1, <3>2
  <2>3. a \in Load!Links /\ a[1] = "link" /\ a[2] = i /\ a[3] = k
    BY <2>2 DEF Load!Links
  <2> HIDE DEF a
  <2>4. InFeed(a) /\ a \in Load!Nodes /\ (i \in Load!Kept <=> a \in LinksInKept)
    BY <1>8, <2>3, LinkNode DEF InFeed, LinksInKept
  <2>5. /\ Load!Pointer(a) \in Load!Nodes /\ ~InFeed(Load!Pointer(a))
        /\ Present(Load!Pointer(a)) <=> spliced
    <3>1. Load!Pointer(a) \in Load!Nodes /\ Load!Pointer(a)[1] = "pointer" /\ LinkOf(Load!Pointer(a)) = a
      BY <2>3, LinkNode
    <3> QED BY <2>1, <2>4, <3>1 DEF InFeed, Present, Spliced, KeptLinks
  <2> HIDE DEF spliced
  <2>6. freed[a] >= 1 /\ attrsFreed[a] = 1 /\ (i \in Load!Kept => deleted[a] = 1)
    BY <1>2, <1>6, <1>8, <2>3, <2>4 DEF AttrsDone
  <2>7. IF spliced THEN freed[Load!Pointer(a)] >= 1 ELSE freed[Load!Pointer(a)] = 0
    BY <1>2, <1>8, <2>5
  <2> QED BY <2>6, <2>7 DEF a, spliced
<1>9. phase = "corrupted" => \E i \in Load!Kept : Load!AnAssociation \in Load!Range(doc.links[i])
  BY <1>1, SameOperators DEF CorruptInv
<1> QED BY <1>3, <1>4, <1>5, <1>7, <1>8, <1>9 DEF Load!FreedOnce

(* Whatever the items, associations and cycles of a document, no node, no   *)
(* attribute list and no Context is freed twice while the site is loaded    *)
(* and in the body of ~Site, and when that is done every node of the feed,  *)
(* every pointer node, every attribute list and every Context has been      *)
(* freed.  After it a node is freed again only if an XPath object still     *)
(* holds it, and only an association that names an association leads to     *)
(* where this is not known (Context::initializeAssociation, Site::~Site,    *)
(* Site::freeContexts, the double frees of main.cpp:58).                    *)
THEOREM NodesFreedOnce == Load!Spec => []FreedOnce
BY LoadInvariant, FreedOnceIs, PTL

(* Items that were dropped are in no list, so no path leads to them. *)
LEMMA StagingHiddenIs == LoadInv => StagingHidden
<1> DEFINE hidden == {i \in Load!Ids : i \in doc.staging \/ Load!Outer(i) \cap doc.staging # {}}
<1> SUFFICES ASSUME LoadInv, phase = "loaded", ~doc.stagingMode
             PROVE  /\ \A i \in hidden : nodes[i] = Load!Null
                    /\ \A n \in Load!Reachable : /\ {n, Load!ContextAt(n)} \cap {Load!Item(i) : i \in hidden} = {}
                                                 /\ n \notin doc.stagingLinks
  BY DEF StagingHidden, Load!StagingHidden
<1>1. TreeInv /\ Registered /\ ListsHeld /\ Shared /\ Starts /\ doc \in Documents /\ TreeOK
  BY DEF LoadInv, TreeInv, StartsInv
<1>2. \A i \in hidden : i \in Load!Ids /\ i \notin Load!Kept
  BY DEF Load!Kept, Load!InKilled, Load!KillMe
<1>3. \A i \in hidden : nodes[i] = Load!Null
  BY <1>1, <1>2 DEF Registered
<1> HIDE DEF hidden
<1>4. ASSUME NEW n \in Load!Reachable, NEW i \in Load!Ids, n = Load!Item(i) \/ Load!ContextAt(n) = Load!Item(i)
      PROVE  i \in Load!Kept
  <2>1. n = Load!Null \/ (n \in Load!Nodes /\ (Present(n) \/ Stale(n)))
    BY <1>1, ReachablePresent
  <2>2. Load!Item(i) # Load!Null /\ Load!Item(i)[1] = "item" /\ Load!Item(i)[2] = i /\ Load!Item(i) \in Load!Items
    BY ItemNode, NullNode
  <2>3. CASE n \in Load!Items
    <3>1. n = Load!Item(i)
      BY <1>4, <2>3 DEF Load!ContextAt
    <3>2. ~Stale(n)
      BY <2>3, LinkNode DEF Stale, KeptLinks, LinksInKept
    <3> QED BY <2>1, <2>2, <3>1, <3>2 DEF Present
  <2>4. CASE n \notin Load!Items
    <3>1. n \in DOMAIN view /\ view[n] # Load!NoView /\ Load!Item(view[n].of) = Load!Item(i)
      BY <1>4, <2>2, <2>4 DEF Load!ContextAt
    <3>2. view[n].of = i
      BY <3>1 DEF Load!Item
    <3>3. n \in Load!Links \cup Load!Pointers
      BY <1>1, <3>1 DEF TreeOK
    <3>4. CASE n \in Load!Links
      <4>1. Spliced(n) /\ view[n].of = Load!Target(n)
        BY <1>1, <3>1, <3>4 DEF Shared
      <4> QED BY <3>2, <4>1 DEF Spliced
    <3>5. CASE n \in Load!Pointers
      <4> DEFINE a == LinkOf(n)
      <4>1. a \in Load!Links /\ n = Load!Pointer(a)
        BY <3>5, PointerNode
      <4> HIDE DEF a
      <4>2. Spliced(a) /\ view[n].of = a[2]
        BY <1>1, <3>1, <4>1 DEF Shared
      <4> QED BY <3>2, <4>2 DEF Spliced, KeptLinks, LinksInKept
    <3> QED BY <3>3, <3>4, <3>5
  <2> QED BY <2>3, <2>4
<1>5. \A n \in Load!Reachable : {n, Load!ContextAt(n)} \cap {Load!Item(i) : i \in hidden} = {}
  BY <1>2, <1>4
<1>6. ASSUME NEW n \in Load!Reachable PROVE n \notin doc.stagingLinks
  <2> SUFFICES ASSUME n \in doc.stagingLinks PROVE FALSE
    OBVIOUS
  <2>1. n \in Load!Links
    BY <1>1, DocumentType
  <2>2. n[1] = "link" /\ n # Load!Null
    BY <2>1, LinkNode, NullNode
  <2>3. n \in KeptLinks
    BY <1>1, <2>2, ReachablePresent DEF Present, Stale
  <2> QED BY <2>3 DEF KeptLinks, LinksInKept, Load!KilledLinks
<1> QED BY <1>3, <1>5, <1>6

(* On a live site no path from the root, along associations and pointer     *)
(* nodes in any order and number, leads to a staging item, to what is in    *)
(* one or over a staging association, and no id finds it (Context::Context  *)
(* drops it before an association is initialized), for every document.      *)
THEOREM StagingNotReached == Load!Spec => []StagingHidden
BY LoadInvariant, StagingHiddenIs, PTL

(* What an association and its pointer node share is what the lists of both *)
(* items hold.                                                              *)
LEMMA SharesShown ==
  ASSUME LoadInv, phase = "loaded", doc.indented, NEW i \in Load!Kept, NEW k \in DOMAIN doc.links[i]
  PROVE  LET a == <<"link", i, k>>
             t == Load!Target(a)
             p == Load!Pointer(a)
         IN  IF t \in Load!Kept /\ a \notin Load!KilledLinks
             THEN /\ Load!ContextAt(a) = Load!Item(t) /\ Load!ListAt(a) = children[t]
                  /\ p \in Range(children[t]) /\ Load!ContextAt(p) = Load!Item(i)
                  /\ Load!ListAt(p) = children[i] /\ view[p].last = Last(children[i])
             ELSE a \notin Load!Placed
<1> DEFINE a == <<"link", i, k>>
           t == Load!Target(a)
           p == Load!Pointer(a)
<1>1. TreeInv /\ ListsHeld /\ Shared /\ Edges /\ doc \in Documents /\ TreeOK /\ Range(todo) = {}
  BY NoNodes DEF LoadInv, TreeInv
<1>2. i \in Load!Ids /\ Load!Kept \subseteq Load!Ids /\ Load!Ids \subseteq Tree /\ 0 \notin Load!Ids
  BY DEF Load!Kept, Load!Ids, Tree
<1>3. k \in 1 .. MaxLinks
  <2>1. doc.links[i] \in Seq(Load!Ids \cup {0, Load!AnAssociation}) /\ Len(doc.links[i]) <= MaxLinks /\ MaxLinks \in Nat
    BY <1>1, <1>2, DocumentType
  <2>2. Len(doc.links[i]) \in Nat /\ DOMAIN doc.links[i] = 1 .. Len(doc.links[i])
    BY <2>1, LenProperties
  <2> QED BY <2>1, <2>2
<1>4. a \in Load!Links /\ a[1] = "link" /\ a[2] = i /\ a[3] = k
  BY <1>2, <1>3 DEF Load!Links
<1> HIDE DEF a
<1>5. /\ a \in LinksInKept /\ a \in Load!Nodes /\ a \notin Load!Items /\ p \notin Load!Items /\ p \in Load!Nodes
      /\ p \in Load!Pointers /\ p[1] = "pointer" /\ LinkOf(p) = a
  BY <1>4, LinkNode DEF LinksInKept
<1>6. DOMAIN view = Load!Links \cup Load!Pointers /\ children \in [Tree -> Seq(Load!Nodes)]
  BY <1>1 DEF TreeOK, Tree
<1>7. CASE ~(t \in Load!Kept /\ a \notin Load!KilledLinks)
  <2>1. ~Present(a)
    BY <1>1, <1>4, <1>7 DEF Present, KeptLinks
  <2>2. \A j \in Tree : a \notin Range(children[j])
    BY <1>1, <1>5, <2>1 DEF ListsHeld
  <2>3. a \notin Load!Placed
    BY <1>6, <2>2, SameOperators DEF Load!Placed
  <2> QED BY <1>7, <2>3 DEF a
<1>8. CASE t \in Load!Kept /\ a \notin Load!KilledLinks
  <2>1. Spliced(a)
    BY <1>1, <1>5, <1>8 DEF Spliced, KeptLinks
  <2>2. view[a].of = t /\ view[p].of = i
    BY <1>1, <1>4, <2>1 DEF Shared
  <2>3. view[a] # Load!NoView /\ view[p] # Load!NoView
    BY <1>2, <1>8, <2>2, NoViewIs
  <2>4. Load!ContextAt(a) = Load!Item(t) /\ Load!ContextAt(p) = Load!Item(i)
    BY <1>4, <1>5, <1>6, <2>2, <2>3 DEF Load!ContextAt
  <2>5. ASSUME NEW j \in Load!Kept PROVE Load!From(children[j], Load!Indent(j, 1)) = children[j]
    <3>1. j \in Tree
      BY <1>2
    <3>2. Len(children[j]) >= 1 /\ children[j][1] = Load!Indent(j, 1)
      BY <1>1 DEF Edges
    <3>3. Distinct(children[j]) /\ children[j] \in Seq(Load!Nodes)
      BY <1>1, <1>6, <3>1 DEF ListsHeld
    <3>4. Load!Indent(j, 1) # Load!Null
      BY <1>2, TextNode, NullNode
    <3> QED BY <3>2, <3>3, <3>4, FromIs
  <2>6. view[a].from = Load!Indent(t, 1) /\ view[p].from = Load!Indent(i, 1) /\ p \in pointerNodes[i]
    BY <1>1, <1>4, <2>1 DEF Edges
  <2>7. Load!ListAt(a) = children[t]
    BY <1>1, <1>4, <1>8, <2>2, <2>3, <2>5, <2>6, ListAtIs
  <2>8. Load!ListAt(p) = children[i]
    BY <1>1, <1>5, <2>2, <2>3, <2>5, <2>6, ListAtIs
  <2>9. p \in Range(children[t])
    <3>1. Present(p) /\ OwnerOf(p) = t
      BY <1>5, <2>1 DEF Present, OwnerOf
    <3> QED BY <1>1, <1>2, <1>5, <1>8, <3>1 DEF ListsHeld
  <2>10. view[p].last = Last(children[i])
    BY <1>1, <2>6 DEF Edges, Last
  <2> QED BY <1>8, <2>4, <2>7, <2>8, <2>9, <2>10 DEF a
<1> QED BY <1>7, <1>8

(* What is found is there, or was the first of a shared list. *)
LEMMA MirroredIs == LoadInv => Mirrored
<1> SUFFICES ASSUME LoadInv, phase = "loaded"
             PROVE  /\ \A n \in Load!Reachable \ {Load!Null} : freed[n] = 0 \/ Load!Dangling(n)
                    /\ doc.indented => \A i \in Load!Kept : \A k \in DOMAIN doc.links[i] :
                         LET a == <<"link", i, k>>
                             t == Load!Target(a)
                             p == Load!Pointer(a)
                         IN  IF t \in Load!Kept /\ a \notin Load!KilledLinks
                             THEN /\ Load!ContextAt(a) = Load!Item(t) /\ Load!ListAt(a) = children[t]
                                  /\ p \in Range(children[t]) /\ Load!ContextAt(p) = Load!Item(i)
                                  /\ Load!ListAt(p) = children[i] /\ view[p].last = Last(children[i])
                             ELSE a \notin Load!Placed
  BY SameOperators DEF Mirrored, Load!Mirrored
<1>1. TreeInv /\ ListsHeld /\ FreedSoFar /\ Starts /\ TreeOK
  BY DEF LoadInv, TreeInv, StartsInv
<1>2. ASSUME NEW n \in Load!Reachable \ {Load!Null} PROVE freed[n] = 0 \/ Load!Dangling(n)
  <2>1. n \in Load!Nodes /\ (Present(n) \/ Stale(n))
    BY <1>1, ReachablePresent
  <2>2. CASE Present(n)
    BY <1>1, <2>1, <2>2 DEF FreedSoFar
  <2>3. CASE ~Present(n)
    <3>1. ~doc.indented /\ n \in Load!Links
      BY <2>1, <2>3 DEF Stale, KeptLinks, LinksInKept
    <3>2. \A j \in Tree : n \notin Range(children[j])
      BY <1>1, <2>1, <2>3 DEF ListsHeld
    <3>3. DOMAIN children = Tree
      BY <1>1 DEF TreeOK, Tree
    <3>4. n \notin Load!Placed
      BY <3>2, <3>3, SameOperators DEF Load!Placed
    <3> QED BY <3>1, <3>4 DEF Load!Dangling
  <2> QED BY <2>2, <2>3
<1>3. ASSUME doc.indented, NEW i \in Load!Kept, NEW k \in DOMAIN doc.links[i]
      PROVE  LET a == <<"link", i, k>>
                 t == Load!Target(a)
                 p == Load!Pointer(a)
             IN  IF t \in Load!Kept /\ a \notin Load!KilledLinks
                 THEN /\ Load!ContextAt(a) = Load!Item(t) /\ Load!ListAt(a) = children[t]
                      /\ p \in Range(children[t]) /\ Load!ContextAt(p) = Load!Item(i)
                      /\ Load!ListAt(p) = children[i] /\ view[p].last = Last(children[i])
                 ELSE a \notin Load!Placed
  BY <1>3, SharesShown
<1> QED BY <1>2, <1>3

(* Once a document is loaded, nothing that is found in the tree has been    *)
(* freed, but for an association that was the first child of a shared list  *)
(* without white space.  In an indented one every association shows its     *)
(* target's children and context, the target shows the item through a       *)
(* pointer node, and pointer nodes end where their item ends, in whatever   *)
(* order the associations were initialized and however they are connected   *)
(* (Context::initializeAssociation).                                        *)
THEOREM AssociationsMirrored == Load!Spec => []Mirrored
BY LoadInvariant, MirroredIs, PTL

-----------------------------------------------------------------------------
(* The nodes of a page.                                                     *)

(* The arithmetic on int gives integers, whatever it is given. *)
LEMMA WrapInt == ASSUME NEW x \in Int PROVE Wrap(x) \in Int
BY PagingAssumption DEF Wrap, IntMin

(* So does the division, by zero too. *)
LEMMA CeilQuotInt == ASSUME NEW a \in Int, NEW b \in Int PROVE CeilQuot(a, b) \in Int
BY PagingAssumption DEF CeilQuot, ToInt, IntMin

(* The options and the size do not change between two pages. *)
RequestInv == size \in 0 .. MaxSize /\ opt \in Options

(* The options are integers. *)
LEMMA OptionsInt ==
  ASSUME RequestInv
  PROVE  size \in Int /\ opt.skip \in Int /\ opt.groups \in Int /\ opt.paginate \in Int
BY PagingAssumption DEF RequestInv, Options, Numbers

(* A round of the loop over groups. *)
Round(j, from) == [skip |-> from, paginate |-> CeilQuot(Wrap(size - from), SharesLeft(j))]
AfterRound(r) == Wrap(r.skip + r.paginate)

(* The loop over groups has a value for each of its rounds.                 *)
LEMMA RoundsInt ==
  ASSUME RequestInv
  PROVE  /\ \A j \in Nat : GroupRound[j].skip \in Int /\ GroupRound[j].paginate \in Int
         /\ \A j \in Nat : GroupRound[j] = Round(j, IF j = 0 THEN opt.skip ELSE AfterRound(GroupRound[j - 1]))
<1> DEFINE V == [skip : Int, paginate : Int]
           At(j, from) == [skip |-> from, paginate |-> CeilQuot(Wrap(size - from), SharesLeft(j))]
           step == [j \in Nat |-> [r \in V |-> At(j + 1, Wrap(r.skip + r.paginate))]]
<1>1. ASSUME NEW j \in Nat, NEW from \in Int PROVE At(j, from) \in V
  <2>1. size - from \in Int /\ opt.groups - j \in Int
    BY OptionsInt
  <2>2. Wrap(size - from) \in Int /\ SharesLeft(j) \in Int
    BY <2>1, WrapInt DEF SharesLeft
  <2>3. CeilQuot(Wrap(size - from), SharesLeft(j)) \in Int
    BY <2>2, CeilQuotInt
  <2> QED BY <2>3
<1>2. At(0, opt.skip) \in V
  BY <1>1, OptionsInt
<1>3. step \in [Nat -> [V -> V]]
  <2>1. \A r \in V : Wrap(r.skip + r.paginate) \in Int
    BY WrapInt
  <2> HIDE DEF At
  <2>2. \A j \in Nat, r \in V : At(j + 1, Wrap(r.skip + r.paginate)) \in V
    BY <1>1, <2>1
  <2> HIDE DEF V
  <2> QED BY <2>2
<1>4. PICK f \in [Nat -> V] : f[0] = At(0, opt.skip) /\ \A n \in Nat : f[n + 1] = step[n][f[n]]
  <2> DEFINE first == At(0, opt.skip)
  <2>1. first \in V
    BY <1>2
  <2> HIDE DEF V, first, step
  <2>2. \E g \in [Nat -> V] : Iterates(g, first, step)
    BY <1>3, <2>1, Recursion
  <2> QED BY <2>2 DEF Iterates, first
<1>5. f = [j \in Nat |-> LET prev == f[j - 1]
                             from == IF j = 0 THEN opt.skip ELSE Wrap(prev.skip + prev.paginate)
                         IN  [skip |-> from, paginate |-> CeilQuot(Wrap(size - from), SharesLeft(j))]]
  <2> SUFFICES ASSUME NEW j \in Nat
               PROVE  f[j] = At(j, IF j = 0 THEN opt.skip ELSE Wrap(f[j - 1].skip + f[j - 1].paginate))
    BY <1>4
  <2>1. CASE j = 0
    BY <1>4, <2>1
  <2>2. CASE j # 0
    <3>1. j - 1 \in Nat /\ (j - 1) + 1 = j
      BY <2>2
    <3>2. f[j] = step[j - 1][f[j - 1]] /\ f[j - 1] \in V
      BY <1>4, <3>1
    <3>3. step[j - 1][f[j - 1]] = At(j, Wrap(f[j - 1].skip + f[j - 1].paginate))
      <4> HIDE DEF At, V
      <4> QED BY <3>1, <3>2
    <3> QED BY <2>2, <3>2, <3>3
  <2> QED BY <2>1, <2>2
<1>6. GroupRound = [j \in Nat |-> LET prev == GroupRound[j - 1]
                                      from == IF j = 0 THEN opt.skip ELSE Wrap(prev.skip + prev.paginate)
                                  IN  [skip |-> from, paginate |-> CeilQuot(Wrap(size - from), SharesLeft(j))]]
  BY <1>5 DEF GroupRound
<1>7. ASSUME NEW j \in Nat
      PROVE  GroupRound[j]
               = At(j, IF j = 0 THEN opt.skip ELSE Wrap(GroupRound[j - 1].skip + GroupRound[j - 1].paginate))
  BY <1>6
<1> DEFINE Bad == {j \in Nat : GroupRound[j] \notin V}
<1>8. Bad = {}
  <2> SUFFICES ASSUME Bad # {} PROVE FALSE
    OBVIOUS
  <2>1. PICK j \in Bad : \A k \in Bad : j <= k
    BY LeastNat
  <2>2. j \in Nat /\ GroupRound[j] \notin V
    BY <2>1
  <2>3. j # 0
    <3> HIDE DEF At, V
    <3> QED BY <1>2, <1>7, <2>2
  <2>4. j - 1 \in Nat /\ GroupRound[j - 1] \in V
    <3>1. j - 1 \in Nat /\ ~(j <= j - 1)
      BY <2>2, <2>3
    <3> HIDE DEF V
    <3> QED BY <2>1, <3>1
  <2>5. Wrap(GroupRound[j - 1].skip + GroupRound[j - 1].paginate) \in Int
    BY <2>4, WrapInt
  <2> HIDE DEF At, V
  <2> QED BY <1>1, <1>7, <2>2, <2>3, <2>5
<1> QED BY <1>7, <1>8 DEF Round, AfterRound

(* skip_ and paginate_ are integers before they are clamped. *)
LEMMA WindowInt ==
  ASSUME RequestInv, NEW p \in Int
  PROVE  Window(p).skip \in Nat /\ Window(p).paginate \in Int
<1> DEFINE w == IF opt.groups # 0 THEN GroupWindow(p) ELSE PageWindow(p)
<1>1. w.skip \in Int /\ w.paginate \in Int
  <2>1. CASE opt.groups # 0
    <3>1. AtLeast(p, 1) - 1 \in Nat
      BY DEF AtLeast
    <3>2. GroupWindow(p).skip \in Int /\ GroupWindow(p).paginate \in Int
      BY <3>1, RoundsInt DEF GroupWindow
    <3> QED BY <2>1, <3>2
  <2>2. CASE opt.groups = 0
    <3> DEFINE n == IF p = -1 THEN CeilQuot(Wrap(size - opt.skip), opt.paginate) ELSE p
               q == AtLeast(n, 1)
    <3>1. n \in Int
      <4>1. Wrap(size - opt.skip) \in Int
        BY OptionsInt, WrapInt
      <4>2. CeilQuot(Wrap(size - opt.skip), opt.paginate) \in Int
        BY <4>1, OptionsInt, CeilQuotInt
      <4> QED BY <4>2
    <3> HIDE DEF n
    <3>2. q \in Int
      BY <3>1 DEF AtLeast
    <3> HIDE DEF q
    <3>3. PageStart(q) \in Int
      <4>1. (q - 1) * opt.paginate \in Int
        BY <3>2, OptionsInt
      <4> QED BY <4>1, WrapInt DEF PageStart
    <3>4. Wrap(opt.skip + PageStart(q)) \in Int
      BY <3>3, OptionsInt, WrapInt
    <3>5. PageWindow(p) = [skip |-> Wrap(opt.skip + PageStart(q)), paginate |-> opt.paginate]
      BY DEF PageWindow, n, q
    <3> QED BY <2>2, <3>4, <3>5, OptionsInt
  <2> QED BY <2>1, <2>2
<1>2. Window(p) = [skip |-> NonNegative(w.skip), paginate |-> AtLeast(w.paginate, 1)]
  BY DEF Window
<1> HIDE DEF w
<1> QED BY <1>1, <1>2 DEF NonNegative, AtLeast

(* The first request. *)
LEMMA RequestInit == Init => RequestInv
BY DEF Init, RequestInv

(* The next page is asked for with the same options. *)
LEMMA RequestStep == RequestInv /\ [Ask]_vars => RequestInv'
BY DEF RequestInv, Ask, vars

(* start and end are clamped to what was found. *)
LEMMA BoundsInRange == RequestInv => NodesInRange
<1> SUFFICES ASSUME RequestInv, NEW p \in -Below .. MaxPage PROVE Bounds(p).start >= 0 /\ Bounds(p).end <= size
  BY DEF NodesInRange
<1>1. p \in Int /\ size \in Nat
  BY PagingAssumption DEF RequestInv
<1> DEFINE w == Window(p)
           stop == Wrap(w.paginate + w.skip)
<1>2. w.skip \in Nat /\ w.paginate \in Int
  BY <1>1, WindowInt
<1> HIDE DEF w
<1>3. stop \in Int
  BY <1>2, WrapInt
<1>4. Bounds(p) = IF opt.order = "None" THEN [start |-> w.skip, end |-> EndOfPage(stop)]
                                        ELSE [start |-> 0, end |-> size]
  BY DEF Bounds, w
<1> HIDE DEF stop
<1>5. EndOfPage(stop) <= size
  BY <1>1, <1>3 DEF EndOfPage
<1>6. CASE opt.order = "None"
  BY <1>2, <1>4, <1>5, <1>6
<1>7. CASE opt.order # "None"
  BY <1>1, <1>4, <1>7
<1> QED BY <1>6, <1>7

(* The loops over nodeTab stay inside it for every number of nodes, every   *)
(* value of the options and every page, the sums that wrap around and the   *)
(* divisions by zero included (Response::query).                            *)
THEOREM PageInRange == Spec => []NodesInRange
<1>1. Init => RequestInv
  BY RequestInit
<1>2. RequestInv /\ [Ask]_vars => RequestInv'
  BY RequestStep
<1>3. RequestInv => NodesInRange
  BY BoundsInRange
<1> QED BY <1>1, <1>2, <1>3, PTL DEF Spec

(* More pages are more items. *)
LEMMA TimesMono == ASSUME NEW b \in Nat, NEW x \in Int, NEW y \in Int, x <= y PROVE b * x <= b * y
<1>1. PICK d \in Nat : y = x + d
  <2>1. y - x \in Nat /\ y = x + (y - x)
    OBVIOUS
  <2> QED BY <2>1
<1>2. b * y = b * x + b * d /\ b * d \in Nat /\ b * x \in Int
  BY <1>1
<1> QED BY <1>2

(* Without overflow int arithmetic is arithmetic. *)
LEMMA WrapSame == ASSUME NEW x \in IntMin .. IntMax PROVE Wrap(x) = x
<1> DEFINE m == 2 * (IntMax + 1)
           y == x - IntMin
<1>1. IntMax \in Nat /\ m \in Nat /\ m > 0 /\ y \in 0 .. m - 1
  BY PagingAssumption DEF IntMin
<1>2. ASSUME NEW k \in Nat, NEW z \in 0 .. k - 1 PROVE z % k = z
  OBVIOUS
<1> HIDE DEF m, y
<1>3. y % m = y
  BY <1>1, <1>2
<1>4. Wrap(x) = (y % m) + IntMin
  BY DEF Wrap, m, y
<1> QED BY <1>1, <1>3, <1>4, PagingAssumption DEF y, IntMin

(* Division with a remainder. *)
LEMMA DivIs ==
  ASSUME NEW a \in Int, NEW b \in Nat \ {0}, NEW q \in Int, NEW r \in 0 .. b - 1, a = b * q + r
  PROVE  a \div b = q
<1> DEFINE d == a \div b
           m == a % b
<1>1. d \in Int /\ m \in 0 .. b - 1 /\ a = b * d + m
  OBVIOUS
<1> HIDE DEF d, m
<1>2. ASSUME q < d PROVE FALSE
  <2>1. b * (q + 1) <= b * d
    BY <1>1, <1>2, TimesMono
  <2>2. b * (q + 1) = b * q + b
    OBVIOUS
  <2>3. b * q \in Int /\ b * d \in Int
    BY <1>1
  <2> QED BY <1>1, <2>1, <2>2, <2>3
<1>3. ASSUME d < q PROVE FALSE
  <2>1. b * (d + 1) <= b * q
    BY <1>1, <1>3, TimesMono
  <2>2. b * (d + 1) = b * d + b
    BY <1>1
  <2>3. b * q \in Int /\ b * d \in Int
    BY <1>1
  <2> QED BY <1>1, <2>1, <2>2, <2>3
<1>4. d = q
  BY <1>1, <1>2, <1>3
<1> QED BY <1>4 DEF d

(* ceil of a quotient, without overflow. *)
LEMMA CeilIs ==
  ASSUME NEW a \in Int, NEW b \in Nat \ {0}, NEW c \in IntMin .. IntMax, b * (c - 1) < a, a <= b * c
  PROVE  CeilQuot(a, b) = c
<1>1. c \in Int
  BY PagingAssumption DEF IntMin
<1> DEFINE x == b * c
<1>2. x \in Int /\ b * (c - 1) = x - b /\ b * (-c) = -x
  BY <1>1
<1>3. x - a \in 0 .. b - 1 /\ -a = b * (-c) + (x - a) /\ -a \in Int /\ -c \in Int
  BY <1>1, <1>2
<1> HIDE DEF x
<1>4. (-a) \div b = -c
  BY <1>3, DivIs
<1>5. -((-a) \div b) = c
  BY <1>1, <1>4
<1> QED BY <1>5 DEF CeilQuot, ToInt

-----------------------------------------------------------------------------
(* r is what s has at the places a + 1 .. t. *)
IsSlice(r, s, a, t) ==
  /\ Len(r) \in Nat
  /\ Len(r) = LET e == IF t < Len(s) THEN t ELSE Len(s) IN IF a < e THEN e - a ELSE 0
  /\ \A i \in 1 .. Len(r) : r[i] = s[a + i]

(* Slice takes the elements behind a up to t. *)
LEMMA SliceIs ==
  ASSUME NEW S, NEW s \in Seq(S), NEW a \in Nat, NEW t \in Int
  PROVE  Slice(s, a + 1, t) \in Seq(S) /\ IsSlice(Slice(s, a + 1, t), s, a, t)
<1> DEFINE e == IF t < Len(s) THEN t ELSE Len(s)
           r == SubSeq(s, a + 1, e)
<1>1. Len(s) \in Nat /\ e \in Int /\ e <= Len(s) /\ a + 1 \in Int
  BY LenProperties
<1>2. Slice(s, a + 1, t) = r
  BY DEF Slice
<1> HIDE DEF e
<1>3. \A i \in a + 1 .. e : s[i] \in S
  <2>1. \A i \in a + 1 .. e : i \in 1 .. Len(s)
    BY <1>1
  <2> QED BY <2>1, ElementOfSeq
<1>4. /\ r \in Seq(S) /\ Len(r) = IF a + 1 <= e THEN e - (a + 1) + 1 ELSE 0
      /\ \A i \in 1 .. e - (a + 1) + 1 : r[i] = s[(a + 1) + i - 1]
  BY <1>1, <1>3, SubSeqProperties
<1>5. Len(r) = IF a < e THEN e - a ELSE 0
  BY <1>1, <1>4
<1>6. ASSUME NEW i \in 1 .. Len(r) PROVE r[i] = s[a + i]
  <2>1. i \in 1 .. e - (a + 1) + 1 /\ (a + 1) + i - 1 = a + i
    BY <1>1, <1>5
  <2> QED BY <1>4, <2>1
<1>7. Len(r) \in Nat
  BY <1>1, <1>5
<1> HIDE DEF r
<1>8. IsSlice(r, s, a, t)
  BY <1>5, <1>6, <1>7 DEF IsSlice, e
<1> QED BY <1>2, <1>4, <1>8

(* A slice of a slice is a slice. *)
LEMMA SliceSlice ==
  ASSUME NEW S, NEW s \in Seq(S), NEW a \in Nat, NEW b \in Nat, NEW c \in Nat
  PROVE  Slice(Slice(s, a + 1, Len(s)), b + 1, c) = Slice(s, (a + b) + 1, a + c)
<1> DEFINE u == Slice(s, a + 1, Len(s))
           v == Slice(u, b + 1, c)
           w == Slice(s, (a + b) + 1, a + c)
           n == Len(s)
<1>0. n \in Nat /\ n \in Int /\ a + b \in Nat /\ a + c \in Int /\ c \in Int
  BY LenProperties
<1>1. u \in Seq(S) /\ Len(u) \in Nat /\ Len(u) = (IF a < n THEN n - a ELSE 0) /\ \A i \in 1 .. Len(u) : u[i] = s[a + i]
  <2>1. u \in Seq(S) /\ IsSlice(u, s, a, n)
    BY <1>0, SliceIs
  <2> HIDE DEF u
  <2> QED BY <1>0, <2>1 DEF IsSlice
<1> HIDE DEF u
<1>2. /\ v \in Seq(S) /\ Len(v) \in Nat /\ \A i \in 1 .. Len(v) : v[i] = u[b + i]
      /\ Len(v) = LET e == IF c < Len(u) THEN c ELSE Len(u) IN IF b < e THEN e - b ELSE 0
  <2>1. v \in Seq(S) /\ IsSlice(v, u, b, c)
    BY <1>0, <1>1, SliceIs
  <2> HIDE DEF v
  <2> QED BY <2>1 DEF IsSlice
<1>3. /\ w \in Seq(S) /\ Len(w) \in Nat /\ \A i \in 1 .. Len(w) : w[i] = s[(a + b) + i]
      /\ Len(w) = LET e == IF a + c < n THEN a + c ELSE n IN IF a + b < e THEN e - (a + b) ELSE 0
  <2>1. w \in Seq(S) /\ IsSlice(w, s, a + b, a + c)
    BY <1>0, SliceIs
  <2> HIDE DEF w
  <2> QED BY <2>1 DEF IsSlice
<1> HIDE DEF v, w, n
<1>4. Len(v) = Len(w)
  <2> DEFINE lu == Len(u)
             lv == Len(v)
             lw == Len(w)
  <2>1. /\ lu = (IF a < n THEN n - a ELSE 0)
        /\ lv = (IF c < lu THEN (IF b < c THEN c - b ELSE 0) ELSE (IF b < lu THEN lu - b ELSE 0))
        /\ lw = (IF a + c < n THEN (IF a + b < a + c THEN (a + c) - (a + b) ELSE 0)
                ELSE (IF a + b < n THEN n - (a + b) ELSE 0))
    BY <1>1, <1>2, <1>3
  <2> HIDE DEF lu, lv, lw
  <2>2. lv = lw
    BY <1>0, <2>1
  <2> QED BY <2>2 DEF lv, lw
<1>5. ASSUME NEW i \in 1 .. Len(v) PROVE v[i] = w[i]
  <2>1. b + i \in 1 .. Len(u) /\ a + (b + i) = (a + b) + i
    BY <1>0, <1>1, <1>2, <1>5
  <2>2. v[i] = s[a + (b + i)]
    BY <1>1, <1>2, <2>1
  <2> QED BY <1>3, <1>4, <2>1, <2>2
<1>6. v = w
  BY <1>2, <1>3, <1>4, <1>5, SeqEqual
<1> QED BY <1>6 DEF u, v, w

(* Two slices one behind the other are one. *)
LEMMA SliceJoin ==
  ASSUME NEW S, NEW s \in Seq(S), NEW a \in Nat, NEW b \in Nat, a <= b
  PROVE  Slice(s, 1, a) \o Slice(s, a + 1, b) = Slice(s, 1, b)
<1> DEFINE u == Slice(s, 0 + 1, a)
           v == Slice(s, a + 1, b)
           w == Slice(s, 0 + 1, b)
           x == u \o v
           n == Len(s)
<1>0. n \in Nat /\ a \in Int /\ b \in Int /\ 0 \in Nat /\ 0 + 1 = 1
  BY LenProperties
<1>1. /\ u \in Seq(S) /\ Len(u) \in Nat /\ Len(u) = (IF a < n THEN a ELSE n)
      /\ \A i \in 1 .. Len(u) : u[i] = s[0 + i]
  <2>1. u \in Seq(S) /\ IsSlice(u, s, 0, a)
    BY <1>0, SliceIs
  <2> HIDE DEF u
  <2> QED BY <1>0, <2>1 DEF IsSlice
<1>2. /\ v \in Seq(S) /\ Len(v) \in Nat /\ \A i \in 1 .. Len(v) : v[i] = s[a + i]
      /\ Len(v) = LET e == IF b < n THEN b ELSE n IN IF a < e THEN e - a ELSE 0
  <2>1. v \in Seq(S) /\ IsSlice(v, s, a, b)
    BY <1>0, SliceIs
  <2> HIDE DEF v
  <2> QED BY <2>1 DEF IsSlice
<1>3. /\ w \in Seq(S) /\ Len(w) \in Nat /\ Len(w) = (IF b < n THEN b ELSE n)
      /\ \A i \in 1 .. Len(w) : w[i] = s[0 + i]
  <2>1. w \in Seq(S) /\ IsSlice(w, s, 0, b)
    BY <1>0, SliceIs
  <2> HIDE DEF w
  <2> QED BY <1>0, <2>1 DEF IsSlice
<1> HIDE DEF u, v, w, n
<1>4. x \in Seq(S) /\ Len(x) = Len(u) + Len(v) /\ \A i \in 1 .. Len(u) + Len(v) : x[i] = IF i <= Len(u) THEN u[i] ELSE v[i - Len(u)]
  BY <1>1, <1>2, ConcatProperties
<1> HIDE DEF x
<1>5. Len(x) = Len(w)
  BY <1>0, <1>1, <1>2, <1>3, <1>4
<1>6. ASSUME NEW i \in 1 .. Len(x) PROVE x[i] = w[i]
  <2>1. i \in 1 .. Len(w) /\ w[i] = s[i]
    BY <1>3, <1>5, <1>6
  <2>2. CASE i <= Len(u)
    <3>1. x[i] = u[i] /\ u[i] = s[i]
      BY <1>1, <1>4, <1>6, <2>2
    <3> QED BY <2>1, <3>1
  <2>3. CASE ~(i <= Len(u))
    <3>1. i - Len(u) \in 1 .. Len(v) /\ Len(u) = a
      BY <1>0, <1>1, <1>2, <1>4, <1>6, <2>3
    <3>a. a + (i - Len(u)) = i
      BY <1>0, <1>6, <3>1
    <3>b. i \in 1 .. Len(u) + Len(v)
      BY <1>4
    <3>c. x[i] = IF i <= Len(u) THEN u[i] ELSE v[i - Len(u)]
      BY <1>4, <3>b
    <3>2. x[i] = v[i - Len(u)] /\ a + (i - Len(u)) = i
      BY <2>3, <3>a, <3>c
    <3> QED BY <1>2, <2>1, <3>1, <3>2
  <2> QED BY <2>2, <2>3
<1>7. x = w
  BY <1>3, <1>4, <1>5, <1>6, SeqEqual
<1> QED BY <1>0, <1>7 DEF x, u, v, w

(* A slice ends where the list ends. *)
LEMMA SliceEnds ==
  ASSUME NEW S, NEW s \in Seq(S), NEW a \in Nat, NEW t \in Int
  PROVE  /\ a >= Len(s) \/ t <= a => Slice(s, a + 1, t) = <<>>
         /\ t >= Len(s) => Slice(s, a + 1, t) = Slice(s, a + 1, Len(s))
         /\ t >= Len(s) => Slice(s, 1, t) = s
<1>0. Len(s) \in Nat /\ Len(s) \in Int
  BY LenProperties
<1>1. ASSUME a >= Len(s) \/ t <= a PROVE Slice(s, a + 1, t) = <<>>
  <2>1. Slice(s, a + 1, t) \in Seq(S) /\ Len(Slice(s, a + 1, t)) = 0
    <3> DEFINE r == Slice(s, a + 1, t)
               e == IF t < Len(s) THEN t ELSE Len(s)
    <3>1. r \in Seq(S) /\ Len(r) = IF a < e THEN e - a ELSE 0
      BY SliceIs DEF IsSlice
    <3>2. ~(a < e)
      BY <1>0, <1>1
    <3> QED BY <3>1, <3>2
  <2> QED BY <2>1, EmptySeq
<1>2. t >= Len(s) => Slice(s, a + 1, t) = Slice(s, a + 1, Len(s))
  BY <1>0 DEF Slice
<1>3. t >= Len(s) => Slice(s, 1, t) = s
  <2>1. t >= Len(s) => Slice(s, 1, t) = SubSeq(s, 1, Len(s))
    BY <1>0 DEF Slice
  <2> QED BY <2>1, SubSeqFull
<1> QED BY <1>1, <1>2, <1>3

(* Sequences of at most one element each. *)
LEMMA FlattenShort ==
  ASSUME NEW S, NEW n \in Nat, NEW ss \in [1 .. n -> Seq(S)], \A i \in 1 .. n : Len(ss[i]) <= 1
  PROVE  Len(FlattenSeq(ss)) <= n
<1>1. PICK f \in [Nat -> Seq(S)] : Joins(f, ss, n) /\ FlattenSeq(ss) = f[n]
  BY Flattened
<1> DEFINE T == {i \in 0 .. n : Len(f[i]) <= i}
<1>2. 0 \in T
  <2>1. f[0] = <<>>
    BY <1>1 DEF Joins
  <2>2. Len(f[0]) = 0
    BY <2>1
  <2> QED BY <2>2
<1>3. ASSUME NEW i \in 0 + 1 .. n, i - 1 \in T PROVE i \in T
  <2>1. i \in 0 .. n /\ i \in 1 .. n /\ i - 1 \in Nat /\ Len(f[i - 1]) <= i - 1 /\ Len(ss[i]) <= 1
    BY <1>3
  <2>2. f[i] = f[i - 1] \o ss[i] /\ f[i - 1] \in Seq(S) /\ ss[i] \in Seq(S)
    BY <1>1, <2>1 DEF Joins
  <2>3. Len(f[i]) = Len(f[i - 1]) + Len(ss[i]) /\ Len(f[i - 1]) \in Nat /\ Len(ss[i]) \in Nat
    BY <2>2, ConcatProperties, LenProperties
  <2>4. Len(f[i]) <= i
    BY <2>1, <2>3
  <2> QED BY <2>1, <2>4
<1>4. n \in T
  <2>1. 0 \in Nat /\ 0 <= n
    OBVIOUS
  <2> HIDE DEF T
  <2> QED BY <1>2, <1>3, <2>1, UpTo
<1> QED BY <1>1, <1>4

(* The number of nodes found. *)
LEMMA SizeIs ==
  ASSUME RequestInv
  PROVE  /\ size \in Nat /\ size <= IntMax /\ IntMax \in Nat /\ opt.skip \in Int /\ opt.skip <= IntMax
         /\ opt.groups \in Int /\ opt.groups <= IntMax /\ opt.paginate \in Int /\ opt.order \in {"None", "Reverse"}
<1>1. opt.order \in {"None", "Reverse"}
  BY DEF RequestInv, Options
<1>2. size \in 0 .. MaxSize /\ MaxSize \in 0 .. IntMax /\ IntMax \in Nat
  BY PagingAssumption DEF RequestInv
<1>3. /\ opt.skip \in -Below .. MaxOption /\ opt.groups \in -Below .. MaxOption /\ opt.paginate \in -Below .. MaxOption
      /\ MaxOption \in 0 .. IntMax /\ Below \in 0 .. IntMax
  BY PagingAssumption DEF RequestInv, Options, Numbers
<1> QED BY <1>1, <1>2, <1>3

(* The filter takes nodes away and keeps the order of the others. *)
LEMMA MatchingIs ==
  ASSUME RequestInv
  PROVE  /\ Matching \in Seq(Nat) /\ Len(Matching) \in Nat /\ Len(Matching) <= size
         /\ opt.dropped = {} => Len(Matching) = size /\ \A i \in 1 .. size : Matching[i] = i
<1> DEFINE ss == [i \in 1 .. size |-> IF i \in opt.dropped THEN <<>> ELSE <<i>>]
           s == [i \in 1 .. size |-> i]
<1>1. size \in Nat
  BY SizeIs
<1>2. ss \in [1 .. size -> Seq(Nat)] /\ \A i \in 1 .. size : Len(ss[i]) <= 1
  <2>1. ASSUME NEW i \in 1 .. size PROVE ss[i] \in Seq(Nat) /\ Len(ss[i]) <= 1
    <3>1. i \in Nat
      BY <1>1
    <3>2. <<i>> \in Seq(Nat) /\ Len(<<i>>) = 1 /\ <<>> \in Seq(Nat) /\ Len(<<>>) = 0
      BY <3>1
    <3>3. CASE i \in opt.dropped
      <4>1. ss[i] = <<>>
        BY <3>3
      <4> QED BY <3>2, <4>1
    <3>4. CASE i \notin opt.dropped
      <4>1. ss[i] = <<i>>
        BY <3>4
      <4> QED BY <3>2, <4>1
    <3> QED BY <3>3, <3>4
  <2> QED BY <2>1
<1>3. Matching = FlattenSeq(ss)
  BY DEF Matching
<1>4. FlattenSeq(ss) \in Seq(Nat)
  BY <1>1, <1>2, FlattenSeqIs
<1>5. Len(FlattenSeq(ss)) <= size
  BY <1>1, <1>2, FlattenShort
<1>6. ASSUME opt.dropped = {} PROVE Matching = s
  <2>1. s \in [1 .. size -> Nat] /\ \A i \in 1 .. size : ss[i] = <<s[i]>>
    BY <1>1, <1>6
  <2> HIDE DEF s, ss
  <2> QED BY <1>1, <1>2, <1>3, <2>1, FlattenAll
<1>7. ASSUME opt.dropped = {} PROVE Len(Matching) = size /\ \A i \in 1 .. size : Matching[i] = i
  <2>1. Matching = s
    BY <1>6, <1>7
  <2> QED BY <1>1, <2>1
<1>8. Len(FlattenSeq(ss)) \in Nat
  BY <1>4, LenProperties
<1> QED BY <1>3, <1>4, <1>5, <1>7, <1>8

(* The list in the order the client asked for. *)
Sorted == Ordered(Matching)

(* An order changes the places only. *)
LEMMA OrderedIs ==
  ASSUME RequestInv
  PROVE  Sorted \in Seq(Nat) /\ Len(Sorted) = Len(Matching) /\ (opt.order = "None" => Sorted = Matching)
<1>1. Matching \in Seq(Nat) /\ Len(Matching) \in Nat /\ \A i \in 1 .. Len(Matching) : Matching[i] \in Nat
  BY MatchingIs, ElementOfSeq
<1> DEFINE n == Len(Matching)
           m == Matching
           r == [i \in 1 .. n |-> m[(n - i) + 1]]
<1>2. Reverse(Matching) = r
  BY DEF Reverse
<1> HIDE DEF n, m
<1>3. r \in [1 .. n -> Nat]
  <2>1. \A i \in 1 .. n : (n - i) + 1 \in 1 .. n
    BY <1>1 DEF n
  <2> QED BY <1>1, <2>1 DEF n, m
<1>4. r \in Seq(Nat) /\ Len(r) = n
  <2>1. r \in Seq(Nat)
    BY <1>1, <1>3, SeqDef DEF n
  <2> QED BY <1>1, <1>3, <2>1, LenProperties DEF n
<1>5. "Reverse" # "None"
  OBVIOUS
<1> QED BY <1>1, <1>2, <1>4, <1>5 DEF Sorted, Ordered, n

(* What a page shows, as long as no sum overflows. *)
LEMMA ResponseIs ==
  ASSUME RequestInv, NEW p \in Int, Window(p).skip + Window(p).paginate <= IntMax, Window(p).paginate >= 1
  PROVE  Response(p) = Slice(Sorted, Window(p).skip + 1, Window(p).skip + Window(p).paginate)
<1> DEFINE w == Window(p)
           k == w.skip
           g == w.paginate
           M == Matching
           e == IF g + k < size THEN g + k ELSE size
<1>1. k \in Nat /\ g \in Int /\ g \in Nat
  BY WindowInt
<1>2. size \in Nat /\ IntMax \in Nat
  BY SizeIs
<1>3. Wrap(g + k) = g + k
  <2>1. g + k \in IntMin .. IntMax
    BY <1>1, <1>2 DEF IntMin
  <2> QED BY <2>1, WrapSame
<1>4. M \in Seq(Nat) /\ Len(M) \in Nat /\ Len(M) <= size
  BY MatchingIs
<1>5. Sorted \in Seq(Nat) /\ Len(Sorted) = Len(M) /\ (opt.order = "None" => Sorted = M)
  BY OrderedIs
<1>6. CASE opt.order = "None"
  <2>1. Bounds(p) = [start |-> k, end |-> e]
    BY <1>3, <1>6 DEF Bounds, EndOfPage
  <2>2. Response(p) = Gathered(p)
    BY <1>6 DEF Response
  <2> HIDE DEF w, k, g, M
  <2>3. e \in Int /\ e <= size /\ e <= k + g
    BY <1>1, <1>2
  <2>4. Slice(M, k + 1, e) = Slice(M, k + 1, k + g)
    BY <1>1, <1>2, <1>4 DEF Slice
  <2>5. CASE opt.dropped # {}
    <3>1. Gathered(p) = Slice(M, k + 1, e)
      BY <2>1, <2>5 DEF Gathered, M
    <3> QED BY <1>5, <1>6, <2>2, <2>4, <3>1 DEF k, g, w
  <2>6. CASE opt.dropped = {}
    <3> DEFINE r == [i \in 1 .. (e - k) |-> k + i]
               v == Slice(M, k + 1, e)
    <3>1. Gathered(p) = r
      BY <2>1, <2>6 DEF Gathered
    <3>2. Len(M) = size /\ \A i \in 1 .. size : M[i] = i
      BY <2>6, MatchingIs DEF M
    <3>3. /\ v \in Seq(Nat) /\ Len(v) \in Nat /\ \A i \in 1 .. Len(v) : v[i] = M[k + i]
          /\ Len(v) = LET f == IF e < Len(M) THEN e ELSE Len(M) IN IF k < f THEN f - k ELSE 0
      <4>1. v \in Seq(Nat) /\ IsSlice(v, M, k, e)
        BY <1>1, <1>4, <2>3, SliceIs
      <4> HIDE DEF v, e
      <4> QED BY <4>1 DEF IsSlice
    <3> HIDE DEF v, e
    <3>4. Len(v) = IF k < e THEN e - k ELSE 0
      BY <1>1, <1>2, <2>3, <3>2, <3>3
    <3>5. 1 .. (e - k) = 1 .. Len(v)
      BY <1>1, <2>3, <3>4
    <3>6. \A i \in 1 .. Len(v) : v[i] = k + i
      <4>1. \A i \in 1 .. Len(v) : k + i \in 1 .. size
        BY <1>1, <1>2, <2>3, <3>4
      <4> QED BY <3>2, <3>3, <4>1
    <3>7. v = [i \in 1 .. Len(v) |-> v[i]]
      BY <3>3, LenProperties
    <3>8. r = v
      BY <3>5, <3>6, <3>7
    <3> QED BY <1>5, <1>6, <2>2, <2>4, <3>1, <3>8 DEF k, g, w, v
  <2> QED BY <2>5, <2>6
<1>7. CASE opt.order # "None"
  <2>1. Bounds(p) = [start |-> 0, end |-> size]
    BY <1>7 DEF Bounds
  <2>2. Gathered(p) = M
    <3>1. CASE opt.dropped # {}
      <4>1. Gathered(p) = Slice(M, 0 + 1, size)
        BY <2>1, <3>1 DEF Gathered
      <4> QED BY <1>2, <1>4, <4>1, SliceEnds
    <3>2. CASE opt.dropped = {}
      <4>1. Gathered(p) = [i \in 1 .. (size - 0) |-> 0 + i]
        BY <2>1, <3>2 DEF Gathered
      <4>2. Len(M) = size /\ \A i \in 1 .. size : M[i] = i
        BY <3>2, MatchingIs
      <4> HIDE DEF M
      <4>3. M = [i \in 1 .. size |-> M[i]]
        BY <1>4, <4>2, LenProperties
      <4>4. \A i \in 1 .. size : 0 + i = i
        BY <1>2
      <4>5. size - 0 = size
        BY <1>2
      <4> QED BY <4>1, <4>2, <4>3, <4>4, <4>5
    <3> QED BY <3>1, <3>2
  <2>3. Response(p) = EraseThenCut(Sorted, w)
    BY <1>7, <2>2 DEF Response, Sorted
  <2>4. EraseThenCut(Sorted, w) = Slice(Slice(Sorted, k + 1, Len(Sorted)), 1, g)
    BY DEF EraseThenCut
  <2> HIDE DEF w, k, g, M
  <2>5. Slice(Slice(Sorted, k + 1, Len(Sorted)), 0 + 1, g) = Slice(Sorted, (k + 0) + 1, k + g)
    <3> DEFINE o == Sorted
    <3>1. o \in Seq(Nat) /\ 0 \in Nat
      BY <1>5
    <3> HIDE DEF o
    <3>2. \A b \in Nat, c \in Nat : Slice(Slice(o, k + 1, Len(o)), b + 1, c) = Slice(o, (k + b) + 1, k + c)
      BY <1>1, <3>1, SliceSlice
    <3> QED BY <1>1, <3>1, <3>2 DEF o
  <2>6. k + 0 = k /\ 0 + 1 = 1
    BY <1>1
  <2> QED BY <2>3, <2>4, <2>5, <2>6 DEF k, g, w
<1> QED BY <1>6, <1>7

(* Behind the end there is nothing. *)
LEMMA ResponseNone ==
  ASSUME RequestInv, NEW p \in Int, Window(p).skip >= size, Window(p).paginate >= 1
  PROVE  Response(p) = <<>>
<1> DEFINE w == Window(p)
           k == w.skip
           g == w.paginate
<1>1. k \in Nat /\ g \in Nat
  BY WindowInt
<1>2. size \in Nat
  BY SizeIs
<1>3. Matching \in Seq(Nat) /\ Len(Matching) \in Nat /\ Len(Matching) <= size
  BY MatchingIs
<1>4. Sorted \in Seq(Nat) /\ Len(Sorted) = Len(Matching)
  BY OrderedIs
<1>5. CASE opt.order = "None"
  <2> DEFINE e == EndOfPage(Wrap(g + k))
  <2>1. Bounds(p) = [start |-> k, end |-> e]
    BY <1>5 DEF Bounds
  <2>2. Response(p) = Gathered(p)
    BY <1>5 DEF Response
  <2>3. e \in Int /\ e <= size
    <3>1. Wrap(g + k) \in Int
      BY <1>1, WrapInt
    <3> QED BY <1>2, <3>1 DEF EndOfPage
  <2> HIDE DEF e
  <2>4. CASE opt.dropped # {}
    <3>1. Gathered(p) = Slice(Matching, k + 1, e)
      BY <2>1, <2>4 DEF Gathered
    <3>2. k >= Len(Matching)
      BY <1>1, <1>2, <1>3
    <3> HIDE DEF k
    <3>3. Slice(Matching, k + 1, e) = <<>>
      BY <1>1, <1>3, <2>3, <3>2, SliceEnds
    <3> QED BY <2>2, <3>1, <3>3
  <2>5. CASE opt.dropped = {}
    <3>1. Gathered(p) = [i \in 1 .. (e - k) |-> k + i]
      BY <2>1, <2>5 DEF Gathered
    <3>2. 1 .. (e - k) = {}
      BY <1>1, <1>2, <2>3
    <3>3. [i \in 1 .. (e - k) |-> k + i] = <<>>
      <4>1. \A f : DOMAIN f = {} /\ f = [i \in {} |-> k + i] => f = <<>>
        OBVIOUS
      <4> QED BY <3>2, <4>1
    <3> QED BY <2>2, <3>1, <3>3
  <2> QED BY <2>4, <2>5
<1>6. CASE opt.order # "None"
  <2>1. ASSUME NEW s \in Seq(Nat), Len(s) <= size PROVE EraseThenCut(s, w) = <<>>
    <3>1. Slice(s, k + 1, Len(s)) = <<>>
      <4>1. k >= Len(s) /\ Len(s) \in Int
        BY <1>1, <1>2, <2>1, LenProperties
      <4> HIDE DEF k
      <4> QED BY <1>1, <4>1, SliceEnds
    <3>2. EraseThenCut(s, w) = Slice(<<>>, 0 + 1, g)
      BY <3>1 DEF EraseThenCut
    <3> DEFINE z == <<>>
    <3>3. z \in Seq(Nat) /\ Len(z) = 0 /\ 0 \in Nat /\ g \in Int /\ 0 >= Len(z)
      BY <1>1, EmptySeq
    <3> HIDE DEF g, z
    <3>4. \A a \in Nat : a >= Len(z) => Slice(z, a + 1, g) = <<>>
      BY <3>3, SliceEnds
    <3>5. Slice(z, 0 + 1, g) = <<>>
      BY <3>3, <3>4
    <3> QED BY <3>2, <3>5 DEF z
  <2>2. Bounds(p) = [start |-> 0, end |-> size]
    BY <1>6 DEF Bounds
  <2> DEFINE G == Gathered(p)
  <2>3. G \in Seq(Nat) /\ Len(G) <= size
    <3>1. CASE opt.dropped # {}
      <4>1. G = Slice(Matching, 0 + 1, size)
        BY <2>2, <3>1 DEF Gathered
      <4>2. Slice(Matching, 1, size) = Matching
        BY <1>2, <1>3, SliceEnds
      <4> QED BY <1>3, <4>1, <4>2
    <3>2. CASE opt.dropped = {}
      <4>1. G = [i \in 1 .. (size - 0) |-> 0 + i]
        BY <2>2, <3>2 DEF Gathered
      <4>2. G \in [1 .. size -> Nat]
        BY <1>2, <4>1
      <4> HIDE DEF G
      <4>3. G \in Seq(Nat)
        BY <1>2, <4>2, SeqDef
      <4> QED BY <1>2, <4>2, <4>3, LenProperties
    <3> QED BY <3>1, <3>2
  <2>4. Ordered(G) \in Seq(Nat) /\ Len(Ordered(G)) <= size
    <3> HIDE DEF G
    <3>1. Reverse(G) \in Seq(Nat) /\ Len(Reverse(G)) = Len(G)
      <4>1. Len(G) \in Nat /\ \A i \in 1 .. Len(G) : G[i] \in Nat
        BY <2>3, LenProperties, ElementOfSeq
      <4>2. \A i \in 1 .. Len(G) : (Len(G) - i) + 1 \in 1 .. Len(G)
        BY <4>1
      <4>3. Reverse(G) \in [1 .. Len(G) -> Nat]
        BY <4>1, <4>2 DEF Reverse
      <4>4. Reverse(G) \in Seq(Nat)
        BY <4>1, <4>3, SeqDef
      <4> QED BY <4>1, <4>3, <4>4, LenProperties
    <3> QED BY <2>3, <3>1 DEF Ordered
  <2>5. Response(p) = EraseThenCut(Ordered(G), w)
    BY <1>6 DEF Response
  <2> HIDE DEF G, w
  <2> QED BY <2>1, <2>4, <2>5
<1> QED BY <1>5, <1>6

(* One page more. *)
LEMMA TimesNext == ASSUME NEW a \in Nat, NEW b \in Nat PROVE a * b \in Nat /\ (a + 1) * b = a * b + b
OBVIOUS

(* The list the client means: what is left behind the items it skips. *)
LEMMA WantedIs ==
  ASSUME RequestInv, opt.skip >= 0
  PROVE  /\ opt.skip \in Nat /\ Sorted \in Seq(Nat) /\ Wanted \in Seq(Nat) /\ Len(Sorted) \in Nat /\ Len(Sorted) <= size
         /\ Wanted = Slice(Sorted, opt.skip + 1, Len(Sorted))
         /\ Len(Wanted) \in Nat /\ Len(Wanted) = IF opt.skip < Len(Sorted) THEN Len(Sorted) - opt.skip ELSE 0
         /\ opt.dropped = {} => Len(Sorted) = size
         /\ \A b \in Nat, c \in Nat : Slice(Wanted, b + 1, c) = Slice(Sorted, (opt.skip + b) + 1, opt.skip + c)
<1> DEFINE o == Sorted
           k == opt.skip
<1>1. k \in Nat
  BY SizeIs
<1>2. o \in Seq(Nat) /\ Len(o) = Len(Matching)
  BY OrderedIs
<1>3. Len(Matching) \in Nat /\ Len(Matching) <= size /\ (opt.dropped = {} => Len(Matching) = size)
  BY MatchingIs
<1>4. Wanted = Slice(o, k + 1, Len(o))
  BY <1>2 DEF Wanted, Sorted
<1> HIDE DEF o, k
<1>5. Len(o) \in Nat /\ Len(o) \in Int
  BY <1>2, <1>3
<1> DEFINE u == Slice(o, k + 1, Len(o))
<1>6. u \in Seq(Nat) /\ Len(u) \in Nat /\ Len(u) = IF k < Len(o) THEN Len(o) - k ELSE 0
  <2>1. u \in Seq(Nat) /\ IsSlice(u, o, k, Len(o))
    BY <1>1, <1>2, <1>5, SliceIs
  <2> HIDE DEF u
  <2> QED BY <1>5, <2>1 DEF IsSlice
<1>7. \A b \in Nat, c \in Nat : Slice(u, b + 1, c) = Slice(o, (k + b) + 1, k + c)
  BY <1>1, <1>2, SliceSlice
<1> HIDE DEF u
<1>8. Wanted = u
  BY <1>4 DEF u
<1> QED BY <1>1, <1>2, <1>3, <1>4, <1>5, <1>6, <1>7, <1>8 DEF o, k

(* skip_ and paginate_ of page p, as long as no sum overflows. *)
LEMMA PageIs ==
  ASSUME RequestInv, opt.groups = 0, NEW p \in Nat \ {0}, Sensible(p)
  PROVE  Window(p).skip = opt.skip + (p - 1) * opt.paginate /\ Window(p).paginate = opt.paginate
<1> DEFINE g == opt.paginate
           k == opt.skip
           x == (p - 1) * g
<1>1. k \in Nat /\ g \in Nat /\ g >= 1 /\ p * g + k <= IntMax /\ IntMax \in Nat
  BY SizeIs DEF Sensible
<1>2. x \in Nat /\ p * g = x + g
  <2>1. p - 1 \in Nat /\ p = (p - 1) + 1
    OBVIOUS
  <2>2. (p - 1) * g \in Nat /\ ((p - 1) + 1) * g = (p - 1) * g + g
    BY <1>1, <2>1, TimesNext
  <2> QED BY <2>1, <2>2
<1>3. PageWindow(p) = [skip |-> Wrap(k + Wrap(x)), paginate |-> g]
  <2>1. p # -1 /\ AtLeast(p, 1) = p
    BY DEF AtLeast
  <2> QED BY <2>1 DEF PageWindow, PageStart
<1> HIDE DEF g, k, x
<1>4. x \in IntMin .. IntMax /\ k + x \in IntMin .. IntMax
  BY <1>1, <1>2 DEF IntMin
<1>5. Wrap(k + Wrap(x)) = k + x
  BY <1>4, WrapSame
<1>6. PageWindow(p).skip = k + x /\ PageWindow(p).paginate = g
  BY <1>3, <1>5
<1>7. NonNegative(k + x) = k + x /\ AtLeast(g, 1) = g
  BY <1>1, <1>2 DEF NonNegative, AtLeast
<1> QED BY <1>6, <1>7 DEF Window, g, k, x

(* The page a client asks for next begins where the last one ended. *)
LEMMA NextPage ==
  ASSUME RequestInv, opt.groups = 0, page \in Nat, Sensible(page + 1)
  PROVE  /\ Sensible(page)
         /\ Slice(Wanted, 1, page * opt.paginate) \o Response(page + 1) = Slice(Wanted, 1, (page + 1) * opt.paginate)
<1> DEFINE g == opt.paginate
           k == opt.skip
           x == page * g
           p == page + 1
<1>1. k \in Nat /\ g \in Nat /\ g >= 1 /\ p * g + k <= IntMax /\ IntMax \in Nat /\ p \in Nat \ {0} /\ p - 1 = page /\ p \in Int
  BY SizeIs DEF Sensible
<1>2. x \in Nat /\ p * g = x + g
  BY <1>1, TimesNext
<1>3. Sensible(page)
  BY <1>1, <1>2 DEF Sensible
<1>4. Window(p).skip = k + x /\ Window(p).paginate = g
  BY <1>1, PageIs
<1>5. Response(p) = Slice(Sorted, (k + x) + 1, (k + x) + g)
  <2> HIDE DEF x, g, k, p
  <2>1. Window(p).skip + Window(p).paginate <= IntMax /\ Window(p).paginate >= 1
    BY <1>1, <1>2, <1>4
  <2>2. Response(p) = Slice(Sorted, Window(p).skip + 1, Window(p).skip + Window(p).paginate)
    BY <1>1, <2>1, ResponseIs
  <2> QED BY <1>4, <2>2
<1>6. /\ Wanted \in Seq(Nat)
      /\ \A b \in Nat, c \in Nat : Slice(Wanted, b + 1, c) = Slice(Sorted, (k + b) + 1, k + c)
  <2>1. k >= 0
    BY <1>1
  <2> QED BY <2>1, WantedIs
<1> DEFINE v == Wanted
<1> HIDE DEF x, g, k, v
<1>7. Response(p) = Slice(v, x + 1, x + g)
  <2>1. x + g \in Nat /\ k + (x + g) = (k + x) + g
    BY <1>1, <1>2
  <2> QED BY <1>2, <1>5, <1>6, <2>1 DEF v
<1>8. Slice(v, 1, x) \o Slice(v, x + 1, x + g) = Slice(v, 1, x + g)
  <2>1. v \in Seq(Nat) /\ x + g \in Nat /\ x <= x + g
    BY <1>1, <1>2, <1>6 DEF v
  <2> QED BY <1>2, <2>1, SliceJoin
<1>9. Slice(v, 1, x) \o Response(p) = Slice(v, 1, p * g)
  BY <1>2, <1>7, <1>8
<1> QED BY <1>3, <1>9 DEF v, x, g, p

(* last() asks for the last page that shows anything. *)
LEMMA LastPage ==
  ASSUME RequestInv, opt.groups = 0, Sensible(1), size + opt.paginate <= IntMax, opt.dropped = {}, Wanted # <<>>
  PROVE  LET before == ((Len(Wanted) - 1) \div opt.paginate) * opt.paginate
         IN  Response(-1) = Slice(Wanted, before + 1, Len(Wanted))
<1> DEFINE g == opt.paginate
           k == opt.skip
           n == Len(Wanted)
           q == (n - 1) \div g
           r == (n - 1) % g
           x == q * g
<1>1. k \in Nat /\ g \in Nat /\ g >= 1 /\ IntMax \in Nat /\ size \in Nat /\ size + g <= IntMax /\ k >= 0
  BY SizeIs DEF Sensible
<1>2. /\ Wanted \in Seq(Nat) /\ Len(Sorted) = size
      /\ n \in Nat /\ n = (IF k < size THEN size - k ELSE 0)
      /\ \A b \in Nat, c \in Nat : Slice(Wanted, b + 1, c) = Slice(Sorted, (k + b) + 1, k + c)
      /\ Sorted \in Seq(Nat)
  BY <1>1, WantedIs
<1>3. n # 0
  BY <1>2, EmptySeq
<1> HIDE DEF n, g, k
<1>4. n >= 1 /\ n = size - k /\ n - 1 \in Nat
  BY <1>1, <1>2, <1>3
<1>5. q \in Nat /\ r \in 0 .. g - 1 /\ n - 1 = g * q + r
  BY <1>1, <1>4
<1> HIDE DEF q, r
<1>6. x \in Nat /\ x = g * q /\ q <= x /\ g * (q + 1) = x + g /\ (q + 1) - 1 = q
  <2>1. \A a \in Nat : a <= g * a
    BY <1>1, TimesMono
  <2>2. q * g = g * q /\ q * g \in Nat /\ g * (q + 1) = g * q + g
    BY <1>1, <1>5
  <2> QED BY <1>5, <2>1, <2>2
<1> HIDE DEF x
<1>7. x <= n - 1 /\ n <= x + g /\ q + 1 <= IntMax /\ q + 1 \in IntMin .. IntMax /\ k + x \in Nat /\ k + x < size
  BY <1>1, <1>4, <1>5, <1>6 DEF IntMin
<1>8. CeilQuot(n, g) = q + 1
  <2>1. g * ((q + 1) - 1) < n /\ n <= g * (q + 1) /\ n \in Int /\ g \in Nat \ {0}
    BY <1>1, <1>4, <1>6, <1>7
  <2> QED BY <1>7, <2>1, CeilIs
<1>9. PageWindow(-1).skip = k + x /\ PageWindow(-1).paginate = g
  <2>1. size - k \in IntMin .. IntMax /\ x \in IntMin .. IntMax /\ k + x \in IntMin .. IntMax
    <3>1. size - k \in Nat /\ size - k <= size /\ x <= size /\ k + x <= size /\ size <= IntMax
      BY <1>1, <1>4, <1>6, <1>7
    <3> QED BY <1>1, <1>6, <1>7, <3>1 DEF IntMin
  <2>2. Wrap(size - k) = n /\ Wrap(x) = x /\ Wrap(k + x) = k + x
    BY <1>4, <2>1, WrapSame
  <2>3. AtLeast(q + 1, 1) = q + 1
    BY <1>5 DEF AtLeast
  <2>4. PageStart(q + 1) = x
    BY <1>6, <2>2 DEF PageStart, x, g
  <2>5. PageWindow(-1) = [skip |-> Wrap(k + PageStart(AtLeast(CeilQuot(Wrap(size - k), g), 1))), paginate |-> g]
    BY DEF PageWindow, g, k
  <2> QED BY <1>8, <2>2, <2>3, <2>4, <2>5
<1>10. Window(-1).skip = k + x /\ Window(-1).paginate = g
  <2>1. NonNegative(k + x) = k + x /\ AtLeast(g, 1) = g
    BY <1>1, <1>7 DEF NonNegative, AtLeast
  <2> QED BY <1>9, <2>1 DEF Window
<1>11. Response(-1) = Slice(Sorted, (k + x) + 1, (k + x) + g)
  <2>1. Window(-1).skip + Window(-1).paginate <= IntMax /\ Window(-1).paginate >= 1 /\ -1 \in Int
    BY <1>1, <1>7, <1>10
  <2>2. Response(-1) = Slice(Sorted, Window(-1).skip + 1, Window(-1).skip + Window(-1).paginate)
    BY <2>1, ResponseIs
  <2> QED BY <1>10, <2>2
<1> DEFINE v == Wanted
<1> HIDE DEF v
<1>12. Response(-1) = Slice(v, x + 1, x + g)
  <2>1. x + g \in Nat /\ k + (x + g) = (k + x) + g
    BY <1>1, <1>6
  <2> QED BY <1>2, <1>6, <1>11, <2>1 DEF v
<1>13. Slice(v, x + 1, x + g) = Slice(v, x + 1, Len(v))
  <2>1. v \in Seq(Nat) /\ x + g \in Int /\ x + g >= Len(v)
    BY <1>1, <1>2, <1>6, <1>7 DEF v, n
  <2> QED BY <1>6, <2>1, SliceEnds
<1> QED BY <1>12, <1>13 DEF v, x, q, g, n

(* What the client has been given is the beginning of the list it means. *)
PagesInv ==
  /\ RequestInv
  /\ page \in Nat
  /\ opt.groups = 0 /\ Sensible(page) => seen = Slice(Wanted, 1, page * opt.paginate)

(* Before the first page nothing has been shown. *)
LEMMA PagesInit == Init => PagesInv
<1> SUFFICES ASSUME Init, opt.groups = 0, Sensible(page) PROVE seen = Slice(Wanted, 1, page * opt.paginate)
  BY RequestInit DEF PagesInv, Init
<1> DEFINE v == Wanted
<1>1. RequestInv
  BY RequestInit
<1>2. v \in Seq(Nat) /\ 0 \in Nat /\ 0 \in Int /\ 0 <= 0
  BY <1>1, WantedIs DEF Sensible
<1>3. page * opt.paginate = 0
  BY <1>1, SizeIs DEF Init
<1> HIDE DEF v
<1>4. \A a \in Nat, t \in Int : t <= a => Slice(v, a + 1, t) = <<>>
  BY <1>2, SliceEnds
<1>5. Slice(v, 0 + 1, 0) = <<>>
  BY <1>2, <1>4
<1> QED BY <1>3, <1>5 DEF v, Init

(* Each page adds the next block. *)
LEMMA PagesStep == PagesInv /\ [Ask]_vars => PagesInv'
<1> SUFFICES ASSUME PagesInv, [Ask]_vars PROVE PagesInv'
  OBVIOUS
<1>1. RequestInv'
  BY RequestStep DEF PagesInv
<1>2. CASE Ask
  <2>1. page' = page + 1 /\ seen' = seen \o Response(page + 1) /\ size' = size /\ opt' = opt /\ page' \in Nat
    BY <1>2 DEF Ask, PagesInv
  <2>2. ASSUME opt.groups = 0, Sensible(page + 1) PROVE seen' = Slice(Wanted, 1, (page + 1) * opt.paginate)
    BY <2>1, <2>2, NextPage DEF PagesInv
  <2>3. Wanted' = Wanted
    BY <2>1 DEF Wanted, Matching, Ordered
  <2>4. Sensible(page)' = Sensible(page + 1)
    BY <2>1 DEF Sensible
  <2> QED BY <1>1, <2>1, <2>2, <2>3, <2>4 DEF PagesInv
<1>3. CASE UNCHANGED vars
  <2>1. page' = page /\ seen' = seen /\ size' = size /\ opt' = opt
    BY <1>3 DEF vars
  <2>2. Wanted' = Wanted /\ Sensible(page)' = Sensible(page)
    BY <2>1 DEF Wanted, Matching, Ordered, Sensible
  <2> QED BY <1>1, <2>1, <2>2 DEF PagesInv
<1> QED BY <1>2, <1>3

(* With `paginate`, the pages a client asks for one after the other are     *)
(* consecutive blocks of the list it means, for every size, every skip that *)
(* is not negative, every filter and order, and without a filter last() is  *)
(* the last block that is not empty, as long as no sum overflows an int     *)
(* (Response::query).                                                       *)
THEOREM PagesDisjoint == Spec => []PagesPartition
<1>1. Init => PagesInv
  BY PagesInit
<1>2. PagesInv /\ [Ask]_vars => PagesInv'
  BY PagesStep
<1>3. PagesInv => PagesPartition
  BY LastPage DEF PagesInv, PagesPartition
<1> QED BY <1>1, <1>2, <1>3, PTL DEF Spec

(* Quotient and remainder, for a list dealt out to groups. *)
LEMMA DivMod ==
  ASSUME NEW n \in Nat, NEW b \in Nat \ {0}
  PROVE  n \div b \in Nat /\ n % b \in 0 .. b - 1 /\ n = b * (n \div b) + (n % b)
OBVIOUS

(* How many items the first j of the groups get. *)
Larger(n) == n % opt.groups
Share(n) == n \div opt.groups
Dealt(n, j) == j * Share(n) + (IF j < Larger(n) THEN j ELSE Larger(n))

(* The shares of all groups together are the list. *)
LEMMA DealtIs ==
  ASSUME RequestInv, opt.groups > 0, NEW n \in Nat
  PROVE  /\ opt.groups \in Nat \ {0} /\ Share(n) \in Nat /\ Larger(n) \in 0 .. opt.groups - 1
         /\ n = opt.groups * Share(n) + Larger(n)
         /\ Dealt(n, 0) = 0 /\ Dealt(n, opt.groups) = n
         /\ \A j \in Nat : /\ Dealt(n, j) \in Nat
                           /\ Dealt(n, j + 1) = Dealt(n, j) + Share(n) + (IF j < Larger(n) THEN 1 ELSE 0)
<1> DEFINE G == opt.groups
           q == Share(n)
           r == Larger(n)
<1>1. G \in Nat \ {0}
  BY SizeIs
<1> HIDE DEF G
<1>2. q \in Nat /\ r \in 0 .. G - 1 /\ n = G * q + r
  BY <1>1, DivMod DEF Share, Larger, G
<1> HIDE DEF q, r
<1>3. \A j : Dealt(n, j) = j * q + (IF j < r THEN j ELSE r)
  BY DEF Dealt, q, r
<1>4. Dealt(n, 0) = 0
  <2>1. 0 * q = 0
    BY <1>2
  <2> QED BY <1>2, <1>3, <2>1
<1>5. Dealt(n, G) = n
  <2>1. ~(G < r) /\ G * q \in Nat
    BY <1>1, <1>2
  <2> QED BY <1>2, <1>3, <2>1
<1>6. ASSUME NEW j \in Nat
      PROVE  Dealt(n, j) \in Nat /\ Dealt(n, j + 1) = Dealt(n, j) + q + (IF j < r THEN 1 ELSE 0)
  <2> DEFINE x == j * q
             y == (j + 1) * q
  <2>1. x \in Nat /\ y = x + q
    BY <1>2, TimesNext
  <2>2. Dealt(n, j) = x + (IF j < r THEN j ELSE r) /\ Dealt(n, j + 1) = y + (IF j + 1 < r THEN j + 1 ELSE r)
    BY <1>3
  <2> DEFINE d == Dealt(n, j)
             d1 == Dealt(n, j + 1)
  <2> HIDE DEF x, y, d, d1
  <2>3. d \in Nat /\ d1 = d + q + (IF j < r THEN 1 ELSE 0)
    <3>1. d = x + (IF j < r THEN j ELSE r) /\ d1 = (x + q) + (IF j + 1 < r THEN j + 1 ELSE r) /\ r \in Nat
      BY <1>2, <2>1, <2>2 DEF d, d1
    <3>2. CASE j < r
      BY <1>2, <2>1, <3>1, <3>2
    <3>3. CASE ~(j < r)
      BY <1>2, <2>1, <3>1, <3>3
    <3> QED BY <3>2, <3>3
  <2> QED BY <2>3 DEF d, d1
<1> QED BY <1>1, <1>2, <1>4, <1>5, <1>6 DEF G, q, r

(* What is left after j groups, shared among the others, rounds up to what  *)
(* the next one gets.                                                       *)
LEMMA NextShare ==
  ASSUME RequestInv, opt.groups > 0, NEW n \in 0 .. IntMax, NEW j \in 0 .. opt.groups - 1
  PROVE  /\ CeilQuot(n - Dealt(n, j), opt.groups - j) = Dealt(n, j + 1) - Dealt(n, j)
         /\ Dealt(n, j) <= Dealt(n, j + 1) /\ Dealt(n, j + 1) <= n
         /\ Dealt(n, j) = Dealt(n, j + 1) => Dealt(n, j) = n
<1> DEFINE G == opt.groups
           q == Share(n)
           r == Larger(n)
           d == Dealt(n, j)
           d1 == Dealt(n, j + 1)
           b == G - j
           c == q + (IF j < r THEN 1 ELSE 0)
           x == j * q
           y == b * q
<1>1. n \in Nat /\ IntMax \in Nat /\ j \in Nat
  BY SizeIs
<1>2. G \in Nat \ {0} /\ q \in Nat /\ r \in 0 .. G - 1 /\ n = G * q + r
  BY <1>1, DealtIs
<1>3. d \in Nat /\ d1 = d + q + (IF j < r THEN 1 ELSE 0)
  BY <1>1, DealtIs
<1>4. d = x + (IF j < r THEN j ELSE r)
  BY DEF Dealt
<1> HIDE DEF G, q, r, d, d1
<1>5. b \in Nat \ {0} /\ G = j + b /\ j \in 0 .. G - 1
  BY <1>1, <1>2 DEF G
<1> HIDE DEF b
<1>6. x \in Nat /\ y \in Nat /\ G * q = x + y /\ q <= y /\ (q = 0 => y = 0)
  <2>1. (j + b) * q = j * q + b * q /\ j * q \in Nat /\ b * q \in Nat
    BY <1>1, <1>2, <1>5
  <2>2. q * 1 <= q * b
    BY <1>2, <1>5, TimesMono
  <2>3. q * 1 = q /\ q * b = b * q
    BY <1>2, <1>5
  <2>4. q = 0 => b * q = 0
    BY <1>5
  <2> QED BY <1>5, <2>1, <2>2, <2>3, <2>4
<1>7. b * (q + 1) = y + b /\ b * (q - 1) = y - b /\ b * ((q + 1) - 1) = y
  BY <1>2, <1>5
<1> HIDE DEF x, y
<1>8. n = (x + y) + r
  BY <1>2, <1>6
<1>9. CASE j < r
  <2>1. d = x + j /\ d1 = d + (q + 1) /\ n - d = y + (r - j)
    BY <1>1, <1>2, <1>3, <1>4, <1>6, <1>8, <1>9
  <2>2. q + 1 \in IntMin .. IntMax
    BY <1>1, <1>2, <1>6, <1>8, <1>9 DEF IntMin
  <2>3. n - d \in Int /\ b * ((q + 1) - 1) < n - d /\ n - d <= b * (q + 1)
    BY <1>1, <1>2, <1>5, <1>6, <1>7, <1>9, <2>1
  <2>4. CeilQuot(n - d, b) = q + 1
    <3> DEFINE a == n - d
               e == q + 1
    <3>1. a \in Int /\ e \in IntMin .. IntMax
      BY <2>2, <2>3
    <3>2. b * (e - 1) < a
      BY <2>3
    <3>3. a <= b * e
      BY <2>3
    <3> HIDE DEF a, e
    <3>4. CeilQuot(a, b) = e
      BY <1>5, <3>1, <3>2, <3>3, CeilIs
    <3> QED BY <3>4 DEF a, e
  <2>5. d1 <= n
    BY <1>1, <1>2, <1>6, <1>9, <2>1
  <2> QED BY <1>2, <1>3, <2>1, <2>4, <2>5 DEF d, d1, b, G
<1>10. CASE ~(j < r)
  <2>1. d = x + r /\ d1 = d + q /\ n - d = y
    BY <1>1, <1>2, <1>3, <1>4, <1>6, <1>8, <1>10
  <2>2. q \in IntMin .. IntMax
    BY <1>1, <1>2, <1>6, <1>8 DEF IntMin
  <2>3. n - d \in Int /\ b * (q - 1) < n - d /\ n - d <= b * q
    BY <1>1, <1>2, <1>5, <1>6, <1>7, <2>1 DEF y
  <2>4. CeilQuot(n - d, b) = q
    BY <1>5, <2>2, <2>3, CeilIs
  <2>5. d1 <= n
    BY <1>1, <1>2, <1>3, <1>6, <2>1
  <2>6. d = d1 => d = n
    BY <1>1, <1>2, <1>3, <1>6, <2>1
  <2> QED BY <1>2, <1>3, <2>1, <2>4, <2>5, <2>6 DEF d, d1, b, G
<1> QED BY <1>9, <1>10

(* The loop over groups passes over exactly what the earlier ones got. *)
LEMMA RoundsDealt ==
  ASSUME RequestInv, opt.groups > 0, opt.skip >= 0, opt.skip <= size
  PROVE  LET n == size - opt.skip
         IN  /\ \A j \in 0 .. opt.groups : GroupRound[j].skip = opt.skip + Dealt(n, j)
             /\ \A j \in 0 .. opt.groups - 1 : GroupRound[j].paginate = Dealt(n, j + 1) - Dealt(n, j)
             /\ GroupRound[opt.groups].paginate = IntMin
<1> DEFINE n == size - opt.skip
           k == opt.skip
           G == opt.groups
           D(j) == Dealt(n, j)
           T == {j \in 0 .. G : GroupRound[j].skip = k + D(j)}
<1>1. /\ k \in Nat /\ size \in Nat /\ IntMax \in Nat /\ n \in 0 .. IntMax /\ n \in Nat /\ size = k + n
      /\ size <= IntMax /\ G \in Nat \ {0} /\ G <= IntMax /\ k <= size
  BY SizeIs
<1>2. D(0) = 0 /\ D(G) = n /\ \A j \in Nat : D(j) \in Nat
  BY <1>1, DealtIs
<1>3. \A j \in 0 .. G - 1 : /\ CeilQuot(n - D(j), G - j) = D(j + 1) - D(j)
                            /\ D(j) <= D(j + 1) /\ D(j + 1) <= n
  BY <1>1, NextShare
<1>4. \A j \in Nat : GroupRound[j] = Round(j, IF j = 0 THEN k ELSE AfterRound(GroupRound[j - 1]))
  BY RoundsInt
<1> HIDE DEF n, k, G, D
<1>5. ASSUME NEW j \in 0 .. G, GroupRound[j].skip = k + D(j)
      PROVE  /\ j < G => GroupRound[j].paginate = D(j + 1) - D(j)
             /\ j = G => GroupRound[j].paginate = IntMin
  <2>1. j \in Nat /\ D(j) \in Nat
    BY <1>1, <1>2
  <2> DEFINE from == IF j = 0 THEN k ELSE AfterRound(GroupRound[j - 1])
  <2>2. GroupRound[j] = Round(j, from)
    BY <1>4, <2>1
  <2> HIDE DEF from
  <2>3. GroupRound[j].skip = from /\ GroupRound[j].paginate = CeilQuot(Wrap(size - from), SharesLeft(j))
    BY <2>2 DEF Round
  <2>4. G - j \in IntMin .. IntMax
    BY <1>1, <2>1 DEF IntMin
  <2>5. SharesLeft(j) = G - j
    BY <2>4, WrapSame DEF SharesLeft, G
  <2>6. CASE j < G
    <3>1. j \in 0 .. G - 1
      BY <1>1, <2>1, <2>6
    <3>2. /\ D(j) <= D(j + 1) /\ D(j + 1) <= n /\ D(j + 1) \in Nat
          /\ CeilQuot(n - D(j), G - j) = D(j + 1) - D(j)
      BY <1>2, <1>3, <2>1, <3>1
    <3>3. size - from = n - D(j) /\ n - D(j) \in IntMin .. IntMax
      BY <1>1, <1>5, <2>1, <2>3, <3>2 DEF IntMin
    <3>4. Wrap(size - from) = n - D(j)
      BY <3>3, WrapSame
    <3>5. GroupRound[j].paginate = D(j + 1) - D(j)
      BY <2>3, <2>5, <3>2, <3>4
    <3> QED BY <1>1, <2>6, <3>5
  <2>7. CASE j = G
    <3>1. SharesLeft(j) = 0
      BY <1>1, <2>5, <2>7
    <3>2. GroupRound[j].paginate = IntMin
      BY <2>3, <3>1 DEF CeilQuot
    <3> QED BY <1>1, <2>7, <3>2
  <2> QED BY <1>1, <2>6, <2>7
<1>6. 0 \in T
  <2>1. 0 \in Nat /\ 0 \in 0 .. G
    BY <1>1
  <2>2. GroupRound[0] = Round(0, k)
    BY <1>4, <2>1
  <2>3. GroupRound[0].skip = k
    BY <2>2 DEF Round
  <2> QED BY <1>1, <1>2, <2>1, <2>3
<1>7. ASSUME NEW j \in 0 + 1 .. G, j - 1 \in T PROVE j \in T
  <2>1. j \in Nat /\ j # 0 /\ j - 1 \in 0 .. G /\ j - 1 < G /\ (j - 1) + 1 = j /\ j \in 0 .. G /\ j - 1 \in 0 .. G - 1 /\ j - 1 \in Nat
    BY <1>1
  <2>2. GroupRound[j - 1].skip = k + D(j - 1)
    BY <1>7
  <2>3. GroupRound[j - 1].paginate = D(j) - D(j - 1)
    BY <1>5, <2>1, <2>2
  <2>4. D(j) <= n /\ D(j) \in Nat /\ D(j - 1) \in Nat
    BY <1>2, <1>3, <2>1
  <2>5. GroupRound[j - 1].skip + GroupRound[j - 1].paginate = k + D(j) /\ k + D(j) \in IntMin .. IntMax
    BY <1>1, <2>2, <2>3, <2>4 DEF IntMin
  <2>6. AfterRound(GroupRound[j - 1]) = k + D(j)
    BY <2>5, WrapSame DEF AfterRound
  <2>7. GroupRound[j] = Round(j, k + D(j))
    BY <1>4, <2>1, <2>6
  <2>8. GroupRound[j].skip = k + D(j)
    BY <2>7 DEF Round
  <2> QED BY <2>1, <2>8
<1>8. ASSUME NEW j \in 0 .. G PROVE j \in T
  <2>1. 0 \in Nat /\ j \in Nat /\ 0 <= j /\ \A i \in 0 + 1 .. j : i \in 0 + 1 .. G
    BY <1>1
  <2> HIDE DEF T
  <2>2. \A i \in 0 + 1 .. j : i - 1 \in T => i \in T
    BY <1>7, <2>1
  <2> QED BY <1>6, <2>1, <2>2, UpTo
<1>9. \A j \in 0 .. G : GroupRound[j].skip = k + D(j)
  BY <1>8
<1>10. ASSUME NEW j \in 0 .. G - 1 PROVE GroupRound[j].paginate = D(j + 1) - D(j)
  <2>1. j \in 0 .. G /\ j < G
    BY <1>1
  <2> QED BY <1>5, <1>9, <2>1
<1>11. GroupRound[G].paginate = IntMin
  <2>1. G \in 0 .. G
    BY <1>1
  <2> QED BY <1>5, <1>9, <2>1
<1> QED BY <1>9, <1>10, <1>11 DEF n, k, G, D

(* When everything is skipped, every group begins behind the end. *)
LEMMA RoundsBehind ==
  ASSUME RequestInv, opt.groups > 0, opt.skip >= 0, opt.skip > size
  PROVE  \A j \in 0 .. opt.groups : GroupRound[j].skip >= size
<1> DEFINE k == opt.skip
           G == opt.groups
           T == {j \in 0 .. G : GroupRound[j].skip \in size .. k}
<1>1. k \in Nat /\ k <= IntMax /\ size \in Nat /\ IntMax \in Nat /\ G \in Nat \ {0} /\ G <= IntMax /\ size < k
  BY SizeIs
<1>2. \A j \in Nat : GroupRound[j] = Round(j, IF j = 0 THEN k ELSE AfterRound(GroupRound[j - 1]))
  BY RoundsInt
<1> HIDE DEF k, G
<1>3. 0 \in T
  <2>1. 0 \in Nat /\ 0 \in 0 .. G /\ k \in size .. k
    BY <1>1
  <2>2. GroupRound[0] = Round(0, k)
    BY <1>2, <2>1
  <2>3. GroupRound[0].skip = k
    BY <2>2 DEF Round
  <2> QED BY <2>1, <2>3
<1>4. ASSUME NEW j \in 0 + 1 .. G, j - 1 \in T PROVE j \in T
  <2> DEFINE i == j - 1
             from == GroupRound[i].skip
             b == G - i
             a == size - from
             from0 == IF i = 0 THEN k ELSE AfterRound(GroupRound[i - 1])
  <2>1. /\ j \in Nat /\ j # 0 /\ j \in 0 .. G /\ i \in Nat /\ b \in Nat \ {0} /\ b \in IntMin .. IntMax
    BY <1>1 DEF IntMin
  <2>2. from \in size .. k
    BY <1>4
  <2>3. GroupRound[i] = Round(i, from0)
    BY <1>2, <2>1
  <2> HIDE DEF from0
  <2>4. from = from0 /\ GroupRound[i].paginate = CeilQuot(Wrap(size - from0), SharesLeft(i))
    BY <2>3 DEF Round
  <2> HIDE DEF from
  <2>5. a \in Int /\ a <= 0 /\ -a \in Nat /\ a \in IntMin .. IntMax /\ from \in Int
    BY <1>1, <2>2 DEF IntMin
  <2>6. Wrap(a) = a /\ SharesLeft(i) = b
    BY <2>1, <2>5, WrapSame DEF SharesLeft, G
  <2> HIDE DEF a, b, i
  <2> DEFINE m == -a
             q == m \div b
  <2>7. m \in Nat
    BY <2>5
  <2> HIDE DEF m
  <2>8. q \in 0 .. m
    <3>1. q \in Nat /\ m = b * q + (m % b) /\ m % b \in Nat
      BY <2>1, <2>7
    <3> HIDE DEF q
    <3>2. q * 1 <= q * b /\ q * 1 = q /\ q * b = b * q /\ b * q \in Nat
      <4>1. q * 1 <= q * b
        BY <2>1, <3>1, TimesMono
      <4> QED BY <2>1, <3>1, <4>1
    <3> QED BY <2>7, <3>1, <3>2
  <2> HIDE DEF q
  <2>9. -q \in IntMin .. IntMax /\ from + -q \in size .. k /\ from + -q \in IntMin .. IntMax
    <3>1. m = -a /\ a = size - from
      BY DEF m, a
    <3> QED BY <1>1, <2>2, <2>5, <2>7, <2>8, <3>1 DEF IntMin
  <2>10. CeilQuot(a, b) = -q
    <3>1. b # 0 /\ b > 0
      BY <2>1
    <3>2. CeilQuot(a, b) = ToInt(-q)
      BY <3>1 DEF CeilQuot, q, m
    <3> QED BY <2>9, <3>2 DEF ToInt
  <2>11. GroupRound[i].paginate = -q
    BY <2>4, <2>6, <2>10 DEF a
  <2>12. AfterRound(GroupRound[i]) = from + -q
    BY <2>9, <2>11, WrapSame DEF AfterRound, from
  <2>13. GroupRound[j] = Round(j, AfterRound(GroupRound[i]))
    BY <1>2, <2>1 DEF i
  <2>14. GroupRound[j].skip = from + -q
    BY <2>12, <2>13 DEF Round
  <2> QED BY <2>1, <2>9, <2>14
<1>5. ASSUME NEW j \in 0 .. G PROVE j \in T
  <2>1. 0 \in Nat /\ j \in Nat /\ 0 <= j /\ \A i \in 0 + 1 .. j : i \in 0 + 1 .. G
    BY <1>1
  <2> HIDE DEF T
  <2>2. \A i \in 0 + 1 .. j : i - 1 \in T => i \in T
    BY <1>4, <2>1
  <2> QED BY <1>3, <2>1, <2>2, UpTo
<1>6. ASSUME NEW j \in 0 .. G PROVE GroupRound[j].skip >= size
  <2>1. GroupRound[j].skip \in size .. k
    BY <1>5
  <2> QED BY <1>1, <2>1
<1> QED BY <1>6 DEF G

(* What the pages 1 .. j have shown of the n items the client means. *)
Shown(j) == LET n == Len(Wanted) IN IF j > opt.groups THEN n ELSE Dealt(n, j)

(* Page j + 1 shows the share of the next group. *)
LEMMA NextGroup ==
  ASSUME RequestInv, opt.groups > 0, opt.skip >= 0, opt.dropped = {}, NEW j \in 0 .. opt.groups
  PROVE  /\ Shown(j) \in Nat /\ Shown(j + 1) \in Nat /\ Shown(j) <= Shown(j + 1)
         /\ Response(j + 1) = Slice(Wanted, Shown(j) + 1, Shown(j + 1))
<1> DEFINE G == opt.groups
           k == opt.skip
           n == Len(Wanted)
           v == Wanted
           p == j + 1
           w == GroupRound[j]
<1>1. /\ k \in Nat /\ v \in Seq(Nat) /\ Len(Sorted) = size
      /\ n \in Nat /\ n = (IF k < size THEN size - k ELSE 0)
      /\ \A b \in Nat, c \in Nat : Slice(v, b + 1, c) = Slice(Sorted, (k + b) + 1, k + c)
  BY WantedIs
<1>2. size \in Nat /\ size <= IntMax /\ IntMax \in Nat /\ G \in Nat \ {0}
  BY SizeIs
<1>3. p \in Int /\ AtLeast(p, 1) - 1 = j /\ j \in Nat
  BY <1>2 DEF AtLeast
<1>4. w.skip \in Int /\ w.paginate \in Int
  BY <1>3, RoundsInt
<1>5. Window(p).skip = NonNegative(w.skip) /\ Window(p).paginate = AtLeast(w.paginate, 1)
  <2>1. G # 0
    BY <1>2
  <2> QED BY <1>3, <2>1 DEF Window, GroupWindow
<1>6. n \in 0 .. IntMax
  <2> HIDE DEF n, k
  <2>1. n \in Nat /\ k \in Nat /\ n = (IF k < size THEN size - k ELSE 0)
    BY <1>1
  <2>2. n <= size
    BY <1>2, <2>1
  <2> QED BY <1>2, <2>1, <2>2
<1>7. /\ Dealt(n, 0) = 0 /\ Dealt(n, G) = n
      /\ \A i \in Nat : Dealt(n, i) \in Nat
  BY <1>1, DealtIs
<1>8. j < G => /\ Dealt(n, j) <= Dealt(n, p) /\ Dealt(n, p) <= n
               /\ Dealt(n, j) = Dealt(n, p) => Dealt(n, j) = n
  <2>1. j < G => j \in 0 .. G - 1
    BY <1>2, <1>3
  <2> QED BY <1>6, <2>1, NextShare
<1> HIDE DEF w, v, n, G, k
<1>0. n \in Nat /\ k \in Nat /\ n = (IF k < size THEN size - k ELSE 0)
  BY <1>1
<1>9. Shown(j) = Dealt(n, j) /\ Shown(p) = IF j < G THEN Dealt(n, p) ELSE n
  <2>1. ~(j > G) /\ (p > G <=> ~(j < G))
    BY <1>2, <1>3 DEF G
  <2> QED BY <2>1 DEF Shown, n, G
<1>10. j \in 0 .. G /\ (~(j < G) => j = G)
  BY <1>2, <1>3 DEF G
<1>11. Shown(j) \in Nat /\ Shown(p) \in Nat /\ Shown(j) <= Shown(p)
  <2>1. p \in Nat /\ Dealt(n, p) \in Nat /\ Dealt(n, j) \in Nat
    BY <1>3, <1>7
  <2>2. CASE j < G
    BY <1>8, <1>9, <2>1, <2>2
  <2>3. CASE ~(j < G)
    <3>1. Shown(p) = n /\ Shown(j) = n
      BY <1>7, <1>9, <1>10, <2>3
    <3> QED BY <1>0, <3>1
  <2> QED BY <2>2, <2>3
<1> DEFINE a == Shown(j)
           b == Shown(p)
<1>12. ASSUME w.skip >= size PROVE Response(p) = <<>>
  <2>1. Window(p).skip >= size /\ Window(p).paginate >= 1
    BY <1>2, <1>4, <1>5, <1>12 DEF NonNegative, AtLeast
  <2> QED BY <1>3, <2>1, ResponseNone
<1>13. ASSUME a >= n \/ b <= a PROVE Slice(v, a + 1, b) = <<>>
  <2>1. a \in Nat /\ b \in Int /\ v \in Seq(Nat) /\ (a >= Len(v) \/ b <= a)
    BY <1>1, <1>11, <1>13 DEF n, v
  <2> HIDE DEF a, b
  <2> QED BY <2>1, SliceEnds
<1>14. CASE k > size
  <2>1. w.skip >= size
    BY <1>10, <1>14, RoundsBehind DEF w, k, G
  <2>2. a >= n
    BY <1>2, <1>11, <1>14, <1>0
  <2> QED BY <1>11, <1>12, <1>13, <2>1, <2>2 DEF v
<1>15. CASE ~(k > size)
  <2>1. n = size - k /\ k <= size
    BY <1>2, <1>15, <1>0
  <2>2. /\ \A i \in 0 .. G : GroupRound[i].skip = k + Dealt(n, i)
        /\ \A i \in 0 .. G - 1 : GroupRound[i].paginate = Dealt(n, i + 1) - Dealt(n, i)
    BY <2>1, RoundsDealt DEF k, G
  <2>3. w.skip = k + a
    BY <1>9, <1>10, <2>2 DEF w
  <2>4. CASE a = n
    <3>1. w.skip >= size
      BY <1>2, <1>0, <2>1, <2>3, <2>4
    <3>2. a >= n
      BY <1>0, <2>4
    <3> QED BY <1>11, <1>12, <1>13, <3>1, <3>2 DEF v
  <2>5. CASE a # n
    <3>1. j < G /\ j \in 0 .. G - 1
      <4>1. j < G
        BY <1>7, <1>9, <1>10, <2>5
      <4> QED BY <1>2, <1>3, <4>1
    <3>2. w.paginate = b - a
      BY <1>9, <2>2, <3>1 DEF w
    <3>3. a \in Nat /\ b \in Nat /\ a < b /\ b <= n
      <4>1. a # b /\ b <= n
        BY <1>8, <1>9, <2>5, <3>1
      <4> QED BY <1>11, <4>1
    <3> HIDE DEF a, b
    <3>4. Window(p).skip = k + a /\ Window(p).paginate = b - a
      <4>1. NonNegative(k + a) = k + a /\ AtLeast(b - a, 1) = b - a
        BY <1>0, <3>3 DEF NonNegative, AtLeast
      <4> QED BY <1>5, <2>3, <3>2, <4>1
    <3>5. Window(p).skip + Window(p).paginate <= IntMax /\ Window(p).paginate >= 1
      BY <1>2, <1>0, <2>1, <3>3, <3>4
    <3>6. Response(p) = Slice(Sorted, (k + a) + 1, (k + a) + (b - a))
      <4>1. Response(p) = Slice(Sorted, Window(p).skip + 1, Window(p).skip + Window(p).paginate)
        BY <1>3, <3>5, ResponseIs
      <4> QED BY <3>4, <4>1
    <3>7. (k + a) + (b - a) = k + b
      BY <1>0, <3>3
    <3>8. Response(p) = Slice(v, a + 1, b)
      BY <1>1, <3>3, <3>6, <3>7
    <3> QED BY <1>11, <3>8 DEF v, a, b
  <2> QED BY <2>4, <2>5
<1> QED BY <1>14, <1>15

(* What the client has been given are the shares of the groups it asked for. *)
GroupsInv ==
  /\ RequestInv
  /\ page \in Nat
  /\ opt.groups > 0 /\ opt.skip >= 0 /\ opt.dropped = {} /\ page <= opt.groups + 1 => seen = Slice(Wanted, 1, Shown(page))

(* What has been shown is what GroupsBalanced says. *)
LEMMA BalancedIs == GroupsInv => GroupsBalanced
BY DEF GroupsInv, GroupsBalanced, Shown, Dealt, Share, Larger

(* Before the first group nothing has been shown. *)
LEMMA GroupsInit == Init => GroupsInv
<1> SUFFICES ASSUME Init PROVE GroupsInv
  OBVIOUS
<1>1. RequestInv /\ page = 0 /\ seen = <<>> /\ page \in Nat
  BY RequestInit DEF Init
<1>2. ASSUME opt.groups > 0, opt.skip >= 0 PROVE seen = Slice(Wanted, 1, Shown(page))
  <2> DEFINE v == Wanted
  <2>1. v \in Seq(Nat) /\ 0 \in Nat /\ 0 \in Int /\ 0 <= 0 /\ Len(v) \in Nat
    BY <1>1, <1>2, WantedIs
  <2>2. Shown(page) = 0
    <3>1. Dealt(Len(Wanted), 0) = 0 /\ opt.groups \in Nat
      BY <1>1, <1>2, <2>1, DealtIs
    <3> QED BY <1>1, <3>1 DEF Shown
  <2> HIDE DEF v
  <2>3. \A a \in Nat, t \in Int : t <= a => Slice(v, a + 1, t) = <<>>
    BY <2>1, SliceEnds
  <2>4. Slice(v, 0 + 1, 0) = <<>>
    BY <2>1, <2>3
  <2> QED BY <1>1, <2>2, <2>4 DEF v
<1> QED BY <1>1, <1>2 DEF GroupsInv

(* Each page adds the share of the next group. *)
LEMMA GroupsStep == GroupsInv /\ [Ask]_vars => GroupsInv'
<1> SUFFICES ASSUME GroupsInv, [Ask]_vars PROVE GroupsInv'
  OBVIOUS
<1>1. RequestInv' /\ RequestInv
  BY RequestStep DEF GroupsInv
<1>2. CASE Ask
  <2>1. page' = page + 1 /\ seen' = seen \o Response(page + 1) /\ size' = size /\ opt' = opt /\ page' \in Nat /\ page \in Nat
    BY <1>2 DEF Ask, GroupsInv
  <2> DEFINE Goal(s, p) == opt.groups > 0 /\ opt.skip >= 0 /\ opt.dropped = {} /\ p <= opt.groups + 1 => s = Slice(Wanted, 1, Shown(p))
  <2>2. Goal(seen', page + 1)
    <3> SUFFICES ASSUME opt.groups > 0, opt.skip >= 0, opt.dropped = {}, page + 1 <= opt.groups + 1
                 PROVE  seen' = Slice(Wanted, 1, Shown(page + 1))
      OBVIOUS
    <3> DEFINE v == Wanted
               a == Shown(page)
               b == Shown(page + 1)
    <3>1. opt.groups \in Nat /\ page \in 0 .. opt.groups /\ page <= opt.groups + 1
      BY <1>1, <2>1, SizeIs
    <3>2. seen = Slice(v, 1, a)
      BY <3>1 DEF GroupsInv
    <3>3. a \in Nat /\ b \in Nat /\ a <= b /\ Response(page + 1) = Slice(v, a + 1, b)
      BY <1>1, <3>1, NextGroup
    <3>4. v \in Seq(Nat)
      BY <1>1, WantedIs
    <3> HIDE DEF v, a, b
    <3>5. Slice(v, 1, a) \o Slice(v, a + 1, b) = Slice(v, 1, b)
      BY <3>3, <3>4, SliceJoin
    <3>6. seen' = Slice(v, 1, b)
      BY <2>1, <3>2, <3>3, <3>5
    <3> QED BY <3>6 DEF v, b
  <2>3. Wanted' = Wanted
    BY <2>1 DEF Wanted, Matching, Ordered
  <2>4. Shown(page)' = Shown(page + 1)
    BY <2>1, <2>3 DEF Shown, Dealt, Share, Larger
  <2> QED BY <1>1, <2>1, <2>2, <2>3, <2>4 DEF GroupsInv
<1>3. CASE UNCHANGED vars
  <2>1. page' = page /\ seen' = seen /\ size' = size /\ opt' = opt
    BY <1>3 DEF vars
  <2>2. Wanted' = Wanted
    BY <2>1 DEF Wanted, Matching, Ordered
  <2>3. Shown(page)' = Shown(page)
    BY <2>1, <2>2 DEF Shown, Dealt, Share, Larger
  <2> QED BY <1>1, <2>1, <2>2, <2>3 DEF GroupsInv
<1> QED BY <1>2, <1>3

(* With `groups`, the pages 1 .. groups deal the whole list out in order,   *)
(* in shares that differ by at most one, for every size of a list without a *)
(* filter, every number of groups and every skip that is not negative (the  *)
(* loop over groups in Response::query).                                    *)
THEOREM GroupsDealt == Spec => []GroupsBalanced
BY GroupsInit, GroupsStep, BalancedIs, PTL DEF Spec

-----------------------------------------------------------------------------
(* The order of the nodes found.                                            *)

Positive == Nat \ {0}

(* The number at the first place where there is one. *)
Lead(f) == LET D == {i \in Positive : f[i] # 0} IN IF D = {} THEN 0 ELSE f[Sort!First(D)]

(* What the comparisons of a first with a second and of the second with a   *)
(* third say about the first and the third; positive is before.             *)
Through(x, y, z) ==
  /\ x >= 0 /\ y >= 0 => z >= 0 /\ (x > 0 \/ y > 0 => z > 0)
  /\ x <= 0 /\ y <= 0 => z <= 0 /\ (x < 0 \/ y < 0 => z < 0)

(* The least of a set of natural numbers is one of them. *)
LEMMA FirstIs ==
  ASSUME NEW T \in SUBSET Nat, T # {}
  PROVE  Sort!First(T) \in T /\ \A j \in T : Sort!First(T) <= j
<1>1. \E x \in T : \A y \in T : x <= y
  BY LeastNat
<1> QED BY <1>1 DEF Sort!First

(* And there is only one. *)
LEMMA FirstAt ==
  ASSUME NEW T \in SUBSET Nat, NEW m \in T, \A j \in T : m <= j
  PROVE  Sort!First(T) = m
<1>1. Sort!First(T) \in T /\ \A j \in T : Sort!First(T) <= j
  BY FirstIs
<1>2. Sort!First(T) \in Nat /\ m \in Nat /\ Sort!First(T) <= m /\ m <= Sort!First(T)
  BY <1>1
<1> QED BY <1>2

(* The first place that differs. *)
LEMMA LeadAt ==
  ASSUME NEW f, NEW m \in Positive, f[m] # 0, \A i \in Positive : i < m => f[i] = 0
  PROVE  Lead(f) = f[m]
<1> DEFINE D == {i \in Positive : f[i] # 0}
<1>1. D \in SUBSET Nat /\ m \in D /\ D # {}
  BY DEF Positive
<1>2. ASSUME NEW j \in D PROVE m <= j
  <2>1. ~(j < m) /\ j \in Nat /\ m \in Nat
    BY DEF Positive
  <2> QED BY <2>1
<1>3. Lead(f) = f[Sort!First(D)]
  BY <1>1 DEF Lead
<1> HIDE DEF D
<1>4. Sort!First(D) = m
  BY <1>1, <1>2, FirstAt
<1> QED BY <1>3, <1>4

(* No place differs. *)
LEMMA LeadNone == ASSUME NEW f, \A i \in Positive : f[i] = 0 PROVE Lead(f) = 0
BY DEF Lead

(* Either there is nothing or there is a first. *)
LEMMA LeadIs ==
  ASSUME NEW f
  PROVE  \/ Lead(f) = 0 /\ \A i \in Positive : f[i] = 0
         \/ \E m \in Positive : f[m] # 0 /\ Lead(f) = f[m] /\ \A i \in Positive : i < m => f[i] = 0
<1> DEFINE D == {i \in Positive : f[i] # 0}
<1>1. CASE D = {}
  <2>1. \A i \in Positive : f[i] = 0
    BY <1>1
  <2> QED BY <2>1, LeadNone
<1>2. CASE D # {}
  <2>1. D \in SUBSET Nat
    BY DEF Positive
  <2>2. PICK m \in D : \A j \in D : m <= j
    <3> HIDE DEF D
    <3> QED BY <1>2, <2>1, LeastNat
  <2>3. m \in Positive /\ f[m] # 0
    BY <2>2
  <2>4. ASSUME NEW i \in Positive, i < m PROVE f[i] = 0
    <3>1. ~(m <= i)
      BY <2>3, <2>4 DEF Positive
    <3> QED BY <2>2, <3>1
  <2>5. Lead(f) = f[m]
    BY <2>3, <2>4, LeadAt
  <2> QED BY <2>3, <2>4, <2>5
<1> QED BY <1>1, <1>2

(* A difference is an integer. *)
LEMMA LeadInt == ASSUME NEW f \in [Positive -> Int] PROVE Lead(f) \in Int
BY LeadIs

(* The other way round the sign changes. *)
LEMMA LeadMinus ==
  ASSUME NEW f \in [Positive -> Int], NEW g \in [Positive -> Int], \A i \in Positive : g[i] = -f[i]
  PROVE  Lead(g) = -Lead(f)
<1>1. CASE Lead(f) = 0 /\ \A i \in Positive : f[i] = 0
  <2>1. \A i \in Positive : g[i] = 0
    BY <1>1
  <2> QED BY <1>1, <2>1, LeadNone
<1>2. ASSUME NEW m \in Positive, f[m] # 0, Lead(f) = f[m], \A i \in Positive : i < m => f[i] = 0 PROVE Lead(g) = -Lead(f)
  <2>1. f[m] \in Int /\ g[m] = -f[m]
    OBVIOUS
  <2>2. g[m] # 0
    BY <1>2, <2>1
  <2>3. \A i \in Positive : i < m => g[i] = 0
    BY <1>2
  <2>4. Lead(g) = g[m]
    BY <2>2, <2>3, LeadAt
  <2> QED BY <1>2, <2>1, <2>4
<1> QED BY <1>1, <1>2, LeadIs

(* Where every place goes through, the first that differs does. *)
LEMMA LeadThrough ==
  ASSUME NEW f \in [Positive -> Int], NEW g \in [Positive -> Int], NEW h \in [Positive -> Int],
         \A i \in Positive : Through(f[i], g[i], h[i])
  PROVE  Through(Lead(f), Lead(g), Lead(h))
<1> DEFINE D == {i \in Positive : f[i] # 0 \/ g[i] # 0}
<1>1. \A i \in Positive : f[i] \in Int /\ g[i] \in Int /\ h[i] \in Int
  OBVIOUS
<1>2. ASSUME NEW i \in Positive, f[i] = 0, g[i] = 0 PROVE h[i] = 0
  <2>1. Through(0, 0, h[i]) /\ h[i] \in Int
    BY <1>2
  <2> QED BY <2>1 DEF Through
<1>3. CASE D = {}
  <2>1. \A i \in Positive : f[i] = 0 /\ g[i] = 0
    BY <1>3
  <2>2. \A i \in Positive : h[i] = 0
    BY <1>2, <2>1
  <2>3. Lead(f) = 0 /\ Lead(g) = 0 /\ Lead(h) = 0
    BY <2>1, <2>2, LeadNone
  <2> QED BY <2>3 DEF Through
<1>4. CASE D # {}
  <2>1. PICK m \in D : \A j \in D : m <= j
    <3>1. D \in SUBSET Nat
      BY DEF Positive
    <3> HIDE DEF D
    <3> QED BY <1>4, <3>1, LeastNat
  <2>2. m \in Positive /\ (f[m] # 0 \/ g[m] # 0)
    BY <2>1
  <2>3. ASSUME NEW i \in Positive, i < m PROVE f[i] = 0 /\ g[i] = 0 /\ h[i] = 0
    <3>1. ~(m <= i)
      BY <2>2, <2>3 DEF Positive
    <3>2. f[i] = 0 /\ g[i] = 0
      BY <2>1, <3>1
    <3> QED BY <1>2, <3>2
  <2>4. f[m] = 0 \/ Lead(f) = f[m]
    BY <2>2, <2>3, LeadAt
  <2>5. g[m] = 0 \/ Lead(g) = g[m]
    BY <2>2, <2>3, LeadAt
  <2>6. h[m] = 0 \/ Lead(h) = h[m]
    BY <2>2, <2>3, LeadAt
  <2>7. Lead(f) \in Int /\ Lead(g) \in Int /\ Lead(h) \in Int
    BY LeadInt
  <2>8. f[m] \in Int /\ g[m] \in Int /\ h[m] \in Int /\ Through(f[m], g[m], h[m])
    BY <1>1, <2>2
  <2> DEFINE a == Lead(f)
             b == Lead(g)
             c == Lead(h)
  <2> HIDE DEF a, b, c
  <2>9. a \in Int /\ b \in Int /\ c \in Int /\ (f[m] = 0 \/ a = f[m]) /\ (g[m] = 0 \/ b = g[m]) /\ (h[m] = 0 \/ c = h[m])
    BY <2>4, <2>5, <2>6, <2>7 DEF a, b, c
  <2>10. ASSUME a >= 0, b >= 0 PROVE c > 0
    BY <2>2, <2>8, <2>9, <2>10 DEF Through
  <2>11. ASSUME a <= 0, b <= 0 PROVE c < 0
    BY <2>2, <2>8, <2>9, <2>11 DEF Through
  <2>12. Through(a, b, c)
    BY <2>9, <2>10, <2>11 DEF Through
  <2> QED BY <2>12 DEF a, b, c
<1> QED BY <1>3, <1>4

-----------------------------------------------------------------------------
Text == Seq(Sort!Chars)

Padded(s, i) == IF i <= Len(s) THEN s[i] ELSE -1
TextDiff(s, t) == [i \in Positive |-> Padded(t, i) - Padded(s, i)]

(* A place behind the end of a text is before every character. *)
LEMMA PaddedInt == ASSUME NEW s \in Text, NEW i \in Positive PROVE Padded(s, i) \in Int
<1>1. CASE i <= Len(s)
  <2>1. i \in 1 .. Len(s) /\ Len(s) \in Nat
    BY <1>1, LenProperties DEF Positive, Text
  <2>2. s[i] \in 0 .. 255
    BY <2>1, ElementOfSeq DEF Text, Sort!Chars
  <2>3. Padded(s, i) = s[i]
    BY <1>1 DEF Padded
  <2>4. \A c \in 0 .. 255 : c \in Int
    OBVIOUS
  <2> QED BY <2>2, <2>3, <2>4
<1>2. CASE ~(i <= Len(s))
  BY <1>2 DEF Padded
<1> QED BY <1>1, <1>2

(* The differences of two texts, place by place. *)
LEMMA TextDiffType == ASSUME NEW s \in Text, NEW t \in Text PROVE TextDiff(s, t) \in [Positive -> Int]
<1>1. \A i \in Positive : Padded(t, i) - Padded(s, i) \in Int
  BY PaddedInt
<1> QED BY <1>1 DEF TextDiff

(* operator< looks at the first place where two texts differ. *)
LEMMA LessTextIs ==
  ASSUME NEW s \in Text, NEW t \in Text
  PROVE  Sort!LessText(s, t) <=> Lead(TextDiff(s, t)) > 0
<1> DEFINE f == TextDiff(s, t)
           m == Len(s)
           n == Len(t)
           D == {j \in 1 .. m : j > n \/ s[j] # t[j]}
           i == Sort!First(D)
<1>1. m \in Nat /\ n \in Nat /\ (\A j \in 1 .. m : s[j] \in 0 .. 255) /\ (\A j \in 1 .. n : t[j] \in 0 .. 255)
  BY LenProperties, ElementOfSeq DEF Text, Sort!Chars
<1>2. Sort!LessText(s, t) <=> (IF D = {} THEN m < n ELSE i <= n /\ s[i] < t[i])
  BY DEF Sort!LessText
<1>3. \A j \in Positive : f[j] = (IF j <= n THEN t[j] ELSE -1) - (IF j <= m THEN s[j] ELSE -1)
  BY DEF TextDiff, Padded
<1> HIDE DEF f, m, n
<1>4. CASE D = {}
  <2>1. \A j \in 1 .. m : j <= n /\ s[j] = t[j]
    BY <1>1, <1>4
  <2>2. m <= n
    <3>1. CASE m = 0
      BY <1>1, <3>1
    <3>2. CASE m # 0
      <4>1. m \in 1 .. m
        BY <1>1, <3>2
      <4> QED BY <2>1, <4>1
    <3> QED BY <3>1, <3>2
  <2>3. ASSUME NEW j \in Positive, j <= m PROVE f[j] = 0
    <3>1. j \in 1 .. m /\ j \in 1 .. n
      BY <1>1, <2>2, <2>3 DEF Positive
    <3>2. s[j] = t[j] /\ s[j] \in Int /\ f[j] = t[j] - s[j]
      BY <1>1, <1>3, <2>1, <2>3, <3>1
    <3> QED BY <3>2
  <2>4. CASE m < n
    <3>1. m + 1 \in Positive /\ m + 1 <= n /\ ~(m + 1 <= m) /\ m + 1 \in 1 .. n
      BY <1>1, <2>4 DEF Positive
    <3>2. f[m + 1] = t[m + 1] - (-1) /\ t[m + 1] \in 0 .. 255
      BY <1>1, <1>3, <3>1
    <3>3. f[m + 1] > 0 /\ f[m + 1] # 0
      BY <3>2
    <3>4. \A j \in Positive : j < m + 1 => f[j] = 0
      BY <1>1, <2>3 DEF Positive
    <3>5. Lead(f) = f[m + 1]
      BY <3>1, <3>3, <3>4, LeadAt
    <3> QED BY <1>2, <1>4, <2>4, <3>3, <3>5 DEF f
  <2>5. CASE ~(m < n)
    <3>1. m = n
      BY <1>1, <2>2, <2>5
    <3>2. ASSUME NEW j \in Positive PROVE f[j] = 0
      <4>1. CASE j <= m
        BY <2>3, <4>1
      <4>2. CASE ~(j <= m)
        BY <1>3, <3>1, <4>2
      <4> QED BY <4>1, <4>2
    <3>3. Lead(f) = 0
      BY <3>2, LeadNone
    <3> QED BY <1>2, <1>4, <2>5, <3>3 DEF f
  <2> QED BY <2>4, <2>5
<1>5. CASE D # {}
  <2>1. i \in D /\ \A j \in D : i <= j
    <3>1. D \in SUBSET Nat
      BY <1>1
    <3> HIDE DEF D
    <3> QED BY <1>5, <3>1, FirstIs
  <2> HIDE DEF i
  <2>2. i \in 1 .. m /\ i \in Positive /\ (i > n \/ s[i] # t[i])
    BY <1>1, <2>1 DEF Positive
  <2>3. ASSUME NEW j \in Positive, j < i PROVE f[j] = 0
    <3>1. j \in 1 .. m /\ j \notin D
      BY <1>1, <2>1, <2>2, <2>3 DEF Positive
    <3>2. j <= n /\ s[j] = t[j] /\ j <= m /\ s[j] \in Int
      BY <1>1, <3>1
    <3> QED BY <1>3, <3>2
  <2>4. CASE i > n
    <3>1. f[i] = (-1) - s[i] /\ s[i] \in 0 .. 255
      BY <1>1, <1>3, <2>2, <2>4
    <3>2. f[i] # 0 /\ ~(f[i] > 0) /\ ~(i <= n)
      <4> DEFINE x == s[i]
                 z == f[i]
      <4>1. x \in 0 .. 255 /\ z = (-1) - x
        BY <3>1
      <4>2. n \in Int /\ i \in Int
        BY <1>1, <2>2 DEF Positive
      <4> HIDE DEF x, z
      <4>3. z # 0 /\ ~(z > 0)
        BY <4>1
      <4>4. ~(i <= n)
        BY <2>4, <4>2
      <4> QED BY <4>3, <4>4 DEF x, z
    <3>3. Lead(f) = f[i]
      BY <2>2, <2>3, <3>2, LeadAt
    <3> QED BY <1>2, <1>5, <3>2, <3>3 DEF f
  <2>5. CASE ~(i > n)
    <3>1. i <= n /\ i <= m /\ i \in 1 .. n /\ s[i] # t[i]
      BY <1>1, <2>2, <2>5
    <3>2. f[i] = t[i] - s[i] /\ s[i] \in 0 .. 255 /\ t[i] \in 0 .. 255
      BY <1>1, <1>3, <2>2, <3>1
    <3>3. f[i] # 0 /\ (f[i] > 0 <=> s[i] < t[i])
      <4> DEFINE x == s[i]
                 y == t[i]
                 z == f[i]
      <4>1. x \in 0 .. 255 /\ y \in 0 .. 255 /\ z = y - x /\ x # y
        BY <3>1, <3>2
      <4> HIDE DEF x, y, z
      <4>2. z # 0 /\ (z > 0 <=> x < y)
        BY <4>1
      <4> QED BY <4>2 DEF x, y, z
    <3>4. Lead(f) = f[i]
      BY <2>2, <2>3, <3>3, LeadAt
    <3> QED BY <1>2, <1>5, <3>1, <3>3, <3>4 DEF f
  <2> QED BY <2>4, <2>5
<1> QED BY <1>4, <1>5

(* Texts compare alike in both directions, and through a third. *)
LEMMA TextOrder ==
  ASSUME NEW s \in Text, NEW t \in Text, NEW u \in Text
  PROVE  /\ Lead(TextDiff(s, t)) \in Int
         /\ Lead(TextDiff(t, s)) = -Lead(TextDiff(s, t))
         /\ Through(Lead(TextDiff(s, t)), Lead(TextDiff(t, u)), Lead(TextDiff(s, u)))
<1> DEFINE f == TextDiff(s, t)
           b == TextDiff(t, s)
           g == TextDiff(t, u)
           h == TextDiff(s, u)
<1>1. f \in [Positive -> Int] /\ g \in [Positive -> Int] /\ h \in [Positive -> Int] /\ b \in [Positive -> Int]
  BY TextDiffType
<1>2. ASSUME NEW i \in Positive PROVE b[i] = -f[i] /\ Through(f[i], g[i], h[i])
  <2> DEFINE x == Padded(s, i)
             y == Padded(t, i)
             z == Padded(u, i)
  <2>1. x \in Int /\ y \in Int /\ z \in Int
    BY PaddedInt
  <2>2. f[i] = y - x /\ b[i] = x - y /\ g[i] = z - y /\ h[i] = z - x
    BY DEF TextDiff
  <2> HIDE DEF x, y, z, f, g, h, b
  <2> QED BY <2>1, <2>2 DEF Through
<1> HIDE DEF f, g, h, b
<1>3. Lead(f) \in Int /\ Lead(b) = -Lead(f) /\ Through(Lead(f), Lead(g), Lead(h))
  BY <1>1, <1>2, LeadInt, LeadMinus, LeadThrough
<1> QED BY <1>3 DEF f, g, h, b

(* The characters of a text. *)
LEMMA TextIs ==
  ASSUME NEW s \in Text
  PROVE  Len(s) \in Nat /\ DOMAIN s = 1 .. Len(s) /\ \A i \in 1 .. Len(s) : s[i] \in Int /\ s[i] \in 0 .. 255
<1>1. Len(s) \in Nat /\ DOMAIN s = 1 .. Len(s) /\ \A i \in 1 .. Len(s) : s[i] \in 0 .. 255
  BY LenProperties, ElementOfSeq DEF Text, Sort!Chars
<1>2. \A c \in 0 .. 255 : c \in Int
  OBVIOUS
<1> QED BY <1>1, <1>2

(* The cast of a token gives a number, whatever the token is. *)
LEMMA NumberInt == ASSUME NEW tok \in Text PROVE Sort!Number(tok) \in Int
<1> DEFINE P == {i \in DOMAIN tok : tok[i] = Sort!Point} \cup {Len(tok) + 1}
           point == Sort!First(P)
           digit(i) == IF i <= Len(tok) THEN tok[i] - 48 ELSE 0
           F == CHOOSE g : g = [i \in Nat |-> IF i = 0 THEN 0
                                              ELSE IF i = point THEN g[i - 1]
                                              ELSE 10 * g[i - 1] + (IF i <= Len(tok) THEN tok[i] - 48 ELSE 0)]
           step == [n \in Nat |-> [v \in Int |-> IF n + 1 = point THEN v ELSE 10 * v + digit(n + 1)]]
<1>0. Places \in Nat
  BY OrderAssumption DEF Sort!SortAssumption
<1>1. Sort!Number(tok) = F[point + Places]
  BY DEF Sort!Number
<1>2. point \in Nat
  <2>1. P \in SUBSET Nat /\ P # {}
    BY TextIs
  <2> HIDE DEF P
  <2> QED BY <2>1, FirstIs
<1>3. ASSUME NEW i \in Nat PROVE digit(i + 1) \in Int
  <2>1. CASE i + 1 <= Len(tok)
    <3>1. i + 1 \in 1 .. Len(tok)
      BY <2>1, TextIs
    <3>2. tok[i + 1] \in Int
      BY <3>1, TextIs
    <3> QED BY <2>1, <3>2
  <2>2. CASE ~(i + 1 <= Len(tok))
    BY <2>2
  <2> QED BY <2>1, <2>2
<1> HIDE DEF digit, point
<1>4. step \in [Nat -> [Int -> Int]]
  BY <1>3
<1>5. PICK f \in [Nat -> Int] : f[0] = 0 /\ \A n \in Nat : f[n + 1] = step[n][f[n]]
  <2>1. 0 \in Int
    OBVIOUS
  <2> HIDE DEF step
  <2>2. \E g \in [Nat -> Int] : Iterates(g, 0, step)
    BY <1>4, <2>1, Recursion
  <2> QED BY <2>2 DEF Iterates
<1>6. f = [i \in Nat |-> IF i = 0 THEN 0 ELSE IF i = point THEN f[i - 1] ELSE 10 * f[i - 1] + digit(i)]
  <2> SUFFICES ASSUME NEW i \in Nat, i # 0
               PROVE  f[i] = IF i = point THEN f[i - 1] ELSE 10 * f[i - 1] + digit(i)
    BY <1>5
  <2>1. i - 1 \in Nat /\ (i - 1) + 1 = i
    OBVIOUS
  <2>2. f[i] = step[i - 1][f[i - 1]] /\ f[i - 1] \in Int
    BY <1>5, <2>1
  <2> QED BY <2>1, <2>2
<1>7. F = [i \in Nat |-> IF i = 0 THEN 0 ELSE IF i = point THEN F[i - 1] ELSE 10 * F[i - 1] + digit(i)]
  BY <1>6 DEF digit
<1> HIDE DEF F
<1> DEFINE T == {i \in Nat : F[i] \in Int}
<1>8. 0 \in T
  BY <1>7
<1>9. ASSUME NEW i \in Nat, i # 0, i - 1 \in T PROVE i \in T
  <2>1. i - 1 \in Nat /\ (i - 1) + 1 = i
    BY <1>9
  <2>2. digit(i) \in Int /\ F[i - 1] \in Int
    BY <1>3, <1>9, <2>1
  <2>3. F[i] = IF i = point THEN F[i - 1] ELSE 10 * F[i - 1] + digit(i)
    BY <1>7, <1>9
  <2> QED BY <2>2, <2>3
<1>10. point + Places \in T
  <2>1. 0 \in Nat /\ point + Places \in Nat /\ 0 <= point + Places /\ \A i \in 0 + 1 .. point + Places : i \in Nat /\ i # 0
    BY <1>0, <1>2
  <2> HIDE DEF T
  <2>2. \A i \in 0 + 1 .. point + Places : i - 1 \in T => i \in T
    BY <1>9, <2>1
  <2> QED BY <1>8, <2>1, <2>2, UpTo
<1> QED BY <1>1, <1>10

-----------------------------------------------------------------------------
(* Numbers closer than EPS are as good as equal. *)
Rounded(d) == IF Eps <= d \/ d <= -Eps THEN d ELSE 0

(* How far two tokens that are not empty are apart. *)
Apart(i, s, t) == IF i % 2 = 0 THEN Rounded(Sort!Number(t) - Sort!Number(s)) ELSE Lead(TextDiff(s, t))

(* The tokens are numbers that tie by EPS alone. *)
Near(i, s, t) ==
  /\ i % 2 = 0 /\ <<>> \notin {s, t}
  /\ Sort!Number(s) - Sort!Number(t) \in (1 - Eps .. Eps - 1) \ {0}

(* The bound is positive. *)
LEMMA EpsIs == Eps \in Nat /\ Eps \in Int /\ Eps > 0
BY OrderAssumption DEF Sort!SortAssumption

(* Rounding keeps the sign, and what is not near. *)
LEMMA RoundedIs ==
  ASSUME NEW d \in Int
  PROVE  Rounded(d) \in Int /\ Rounded(-d) = -Rounded(d) /\ (d \notin (1 - Eps .. Eps - 1) \ {0} => Rounded(d) = d)
                     /\ (Rounded(d) > 0 <=> Eps <= d)
BY EpsIs DEF Rounded

(* Two tokens compare alike in both directions, and through a third unless  *)
(* two of the three tie by EPS alone.                                       *)
LEMMA ApartIs ==
  ASSUME NEW i, NEW s \in Text, NEW t \in Text, NEW u \in Text
  PROVE  /\ Apart(i, s, t) \in Int /\ Apart(i, t, s) = -Apart(i, s, t)
         /\ <<>> \notin {s, t, u} /\ ~Near(i, s, t) /\ ~Near(i, t, u) /\ ~Near(i, s, u)
              => Through(Apart(i, s, t), Apart(i, t, u), Apart(i, s, u))
<1>1. CASE i % 2 = 0
  <2> DEFINE x == Sort!Number(s)
             y == Sort!Number(t)
             z == Sort!Number(u)
             near(d) == d \in (1 - Eps .. Eps - 1) \ {0}
  <2>1. x \in Int /\ y \in Int /\ z \in Int
    BY NumberInt
  <2>2. /\ Apart(i, s, t) = Rounded(y - x) /\ Apart(i, t, s) = Rounded(x - y)
        /\ Apart(i, t, u) = Rounded(z - y) /\ Apart(i, s, u) = Rounded(z - x)
    BY <1>1 DEF Apart
  <2>3. ASSUME <<>> \notin {s, t, u}, ~Near(i, s, t), ~Near(i, t, u), ~Near(i, s, u)
        PROVE  ~near(x - y) /\ ~near(y - z) /\ ~near(x - z)
    BY <1>1, <2>3 DEF Near
  <2>4. y - x \in Int /\ x - y = -(y - x) /\ y - z = -(z - y) /\ x - z = -(z - x) /\ z - y \in Int /\ z - x \in Int
    BY <2>1
  <2>5. \A d \in Int : near(d) <=> near(-d)
    BY EpsIs
  <2> HIDE DEF x, y, z, near
  <2>6. Rounded(y - x) \in Int /\ Rounded(x - y) = -Rounded(y - x)
    BY <2>4, RoundedIs
  <2>7. ASSUME ~near(x - y), ~near(y - z), ~near(x - z)
        PROVE  Through(Rounded(y - x), Rounded(z - y), Rounded(z - x))
    <3>1. ~near(y - x) /\ ~near(z - y) /\ ~near(z - x)
      BY <2>4, <2>5, <2>7
    <3>2. Rounded(y - x) = y - x /\ Rounded(z - y) = z - y /\ Rounded(z - x) = z - x
      BY <2>4, <3>1, RoundedIs DEF near
    <3>3. Through(y - x, z - y, z - x)
      BY <2>1 DEF Through
    <3> QED BY <3>2, <3>3
  <2> QED BY <2>2, <2>3, <2>6, <2>7
<1>2. CASE i % 2 # 0
  <2>1. \A a, b : Apart(i, a, b) = Lead(TextDiff(a, b))
    BY <1>2 DEF Apart
  <2> QED BY <2>1, TextOrder
<1> QED BY <1>1, <1>2

(* What is returned for one token of each is the sign of their difference;  *)
(* an empty one is first.                                                   *)
LEMMA CompareTokenIs ==
  ASSUME NEW i, NEW s \in Text, NEW t \in Text
  PROVE  Sort!CompareToken(i, s, t) =
           IF s = <<>> THEN (IF t = <<>> THEN 0 ELSE 1)
           ELSE IF t = <<>> THEN -1
           ELSE IF Apart(i, s, t) > 0 THEN 1 ELSE IF Apart(i, s, t) < 0 THEN -1 ELSE 0
<1>1. CASE s = <<>> \/ t = <<>>
  BY <1>1 DEF Sort!CompareToken
<1>2. CASE s # <<>> /\ t # <<>>
  <2> DEFINE less(u, v) == IF i % 2 = 0 THEN Sort!LessNumber(u, v) ELSE Sort!LessText(u, v)
  <2>1. Sort!CompareToken(i, s, t) = IF less(s, t) THEN 1 ELSE IF less(t, s) THEN -1 ELSE 0
    BY <1>2 DEF Sort!CompareToken
  <2>2. Apart(i, s, t) \in Int /\ Apart(i, t, s) = -Apart(i, s, t)
    BY ApartIs
  <2>3. ASSUME NEW u \in Text, NEW v \in Text PROVE less(u, v) <=> Apart(i, u, v) > 0
    <3>1. CASE i % 2 = 0
      <4> DEFINE x == Sort!Number(u)
                 y == Sort!Number(v)
      <4>1. x \in Int /\ y \in Int
        BY NumberInt
      <4>2. (less(u, v) <=> x + Eps <= y) /\ Apart(i, u, v) = Rounded(y - x)
        BY <3>1 DEF Apart, Sort!LessNumber
      <4> HIDE DEF x, y, less
      <4>3. Rounded(y - x) > 0 <=> Eps <= y - x
        BY <4>1, RoundedIs
      <4> QED BY <4>1, <4>2, <4>3, EpsIs
    <3>2. CASE i % 2 # 0
      BY <3>2, LessTextIs DEF Apart
    <3> QED BY <3>1, <3>2
  <2> HIDE DEF less
  <2>4. (less(s, t) <=> Apart(i, s, t) > 0) /\ (less(t, s) <=> Apart(i, s, t) < 0)
    BY <2>2, <2>3
  <2> QED BY <1>2, <2>1, <2>4
<1> QED BY <1>1, <1>2

(* So one token of each is compared alike in both directions, and through a *)
(* third unless two of the three tie by EPS alone.                          *)
LEMMA TokenOrder ==
  ASSUME NEW i, NEW s \in Text, NEW t \in Text, NEW u \in Text
  PROVE  /\ Sort!CompareToken(i, s, t) \in {-1, 0, 1}
         /\ Sort!CompareToken(i, t, s) = -Sort!CompareToken(i, s, t)
         /\ ~Near(i, s, t) /\ ~Near(i, t, u) /\ ~Near(i, s, u) =>
              Through(Sort!CompareToken(i, s, t), Sort!CompareToken(i, t, u), Sort!CompareToken(i, s, u))
<1> DEFINE a == Apart(i, s, t)
           b == Apart(i, t, u)
           c == Apart(i, s, u)
           es == s = <<>>
           et == t = <<>>
           eu == u = <<>>
           x == Sort!CompareToken(i, s, t)
           y == Sort!CompareToken(i, t, u)
           z == Sort!CompareToken(i, s, u)
           w == Sort!CompareToken(i, t, s)
<1>1. a \in Int /\ b \in Int /\ c \in Int /\ Apart(i, t, s) = -a
  BY ApartIs
<1>2. /\ x = IF es THEN (IF et THEN 0 ELSE 1) ELSE IF et THEN -1 ELSE IF a > 0 THEN 1 ELSE IF a < 0 THEN -1 ELSE 0
      /\ y = IF et THEN (IF eu THEN 0 ELSE 1) ELSE IF eu THEN -1 ELSE IF b > 0 THEN 1 ELSE IF b < 0 THEN -1 ELSE 0
      /\ z = IF es THEN (IF eu THEN 0 ELSE 1) ELSE IF eu THEN -1 ELSE IF c > 0 THEN 1 ELSE IF c < 0 THEN -1 ELSE 0
      /\ w = IF et THEN (IF es THEN 0 ELSE 1) ELSE IF es THEN -1 ELSE IF -a > 0 THEN 1 ELSE IF -a < 0 THEN -1 ELSE 0
  BY <1>1, CompareTokenIs
<1>5. ~Near(i, s, t) /\ ~Near(i, t, u) /\ ~Near(i, s, u) /\ ~es /\ ~et /\ ~eu => Through(a, b, c)
  BY ApartIs
<1> HIDE DEF a, b, c, x, y, z, w, es, et, eu
<1>3. x \in {-1, 0, 1} /\ w = -x
  BY <1>1, <1>2
<1>4. ASSUME ~Near(i, s, t), ~Near(i, t, u), ~Near(i, s, u) PROVE Through(x, y, z)
  <2>1. CASE es \/ et \/ eu
    BY <1>1, <1>2, <2>1 DEF Through
  <2>2. CASE ~es /\ ~et /\ ~eu
    <3>1. Through(a, b, c)
      BY <1>4, <1>5, <2>2
    <3> QED BY <1>1, <1>2, <2>2, <3>1 DEF Through
  <2> QED BY <2>1, <2>2
<1> QED BY <1>3, <1>4 DEF x, y, z, w

-----------------------------------------------------------------------------
(* A token that is not there is before every other. *)
TokensDiff(t1, t2) ==
  [i \in Positive |-> IF i <= Len(t1) /\ i <= Len(t2) THEN Sort!CompareToken(i, t1[i], t2[i])
                      ELSE IF i <= Len(t2) THEN 1 ELSE IF i <= Len(t1) THEN -1 ELSE 0]

(* A list of tokens holds texts. *)
LEMMA TokensIs ==
  ASSUME NEW s \in Seq(Text), NEW i \in Positive, i <= Len(s)
  PROVE  s[i] \in Text
<1>1. Len(s) \in Nat /\ i \in 1 .. Len(s)
  BY LenProperties DEF Positive
<1> QED BY <1>1, ElementOfSeq

NearAt(i, s, t) == i <= Len(s) /\ i <= Len(t) /\ Near(i, s[i], t[i])

(* The same at every place of two lists of tokens. *)
LEMMA TokensDiffOrder ==
  ASSUME NEW s \in Seq(Text), NEW t \in Seq(Text), NEW u \in Seq(Text)
  PROVE  /\ TokensDiff(s, t) \in [Positive -> Int]
         /\ \A i \in Positive : TokensDiff(t, s)[i] = -TokensDiff(s, t)[i]
         /\ \A i \in Positive : ~NearAt(i, s, t) /\ ~NearAt(i, t, u) /\ ~NearAt(i, s, u) =>
              Through(TokensDiff(s, t)[i], TokensDiff(t, u)[i], TokensDiff(s, u)[i])
<1>1. ASSUME NEW i \in Positive
      PROVE  /\ TokensDiff(s, t)[i] \in Int /\ TokensDiff(t, s)[i] = -TokensDiff(s, t)[i]
             /\ ~NearAt(i, s, t) /\ ~NearAt(i, t, u) /\ ~NearAt(i, s, u) =>
                  Through(TokensDiff(s, t)[i], TokensDiff(t, u)[i], TokensDiff(s, u)[i])
  <2> DEFINE C(a, b) == Sort!CompareToken(i, a[i], b[i])
             is == i <= Len(s)
             it == i <= Len(t)
             iu == i <= Len(u)
             x == C(s, t)
             y == C(t, u)
             z == C(s, u)
             w == C(t, s)
             f == TokensDiff(s, t)[i]
             g == TokensDiff(t, u)[i]
             h == TokensDiff(s, u)[i]
             b == TokensDiff(t, s)[i]
             apart == ~NearAt(i, s, t) /\ ~NearAt(i, t, u) /\ ~NearAt(i, s, u)
  <2>1. (is => s[i] \in Text) /\ (it => t[i] \in Text) /\ (iu => u[i] \in Text)
    BY TokensIs
  <2>2. is /\ it => x \in {-1, 0, 1} /\ w = -x
    BY <2>1, TokenOrder
  <2>3. apart /\ is /\ it /\ iu => Through(x, y, z)
    BY <2>1, TokenOrder DEF NearAt
  <2>4. (it /\ iu => y \in {-1, 0, 1}) /\ (is /\ iu => z \in {-1, 0, 1})
    BY <2>1, TokenOrder
  <2>5. /\ f = IF is /\ it THEN x ELSE IF it THEN 1 ELSE IF is THEN -1 ELSE 0
        /\ g = IF it /\ iu THEN y ELSE IF iu THEN 1 ELSE IF it THEN -1 ELSE 0
        /\ h = IF is /\ iu THEN z ELSE IF iu THEN 1 ELSE IF is THEN -1 ELSE 0
        /\ b = IF it /\ is THEN w ELSE IF is THEN 1 ELSE IF it THEN -1 ELSE 0
    BY DEF TokensDiff
  <2> HIDE DEF C, is, it, iu, x, y, z, w, f, g, h, b, apart
  <2>6. f \in Int /\ b = -f
    BY <2>2, <2>5
  <2>7. ASSUME apart PROVE Through(f, g, h)
    <3>1. CASE is /\ it /\ iu
      BY <2>3, <2>5, <2>7, <3>1
    <3>2. CASE ~(is /\ it /\ iu)
      BY <2>2, <2>4, <2>5, <3>2 DEF Through
    <3> QED BY <3>1, <3>2
  <2> QED BY <2>6, <2>7 DEF f, g, h, b, apart
<1>2. TokensDiff(s, t) \in [Positive -> Int]
  <2>1. TokensDiff(s, t) = [i \in Positive |-> TokensDiff(s, t)[i]]
    BY DEF TokensDiff
  <2> QED BY <1>1, <2>1
<1> QED BY <1>1, <1>2

(* The loop over the tokens returns the first difference. *)
LEMMA CompareTokensIs ==
  ASSUME NEW s \in Seq(Text), NEW t \in Seq(Text)
  PROVE  Sort!CompareTokens(s, t) = Lead(TokensDiff(s, t))
<1> DEFINE f == TokensDiff(s, t)
           m == Len(s)
           n == Len(t)
           D == {j \in DOMAIN s \cap DOMAIN t : Sort!CompareToken(j, s[j], t[j]) # 0}
           i == Sort!First(D)
<1>1. m \in Nat /\ n \in Nat /\ DOMAIN s = 1 .. m /\ DOMAIN t = 1 .. n
  BY LenProperties
<1>2. Sort!CompareTokens(s, t) = IF D # {} THEN Sort!CompareToken(i, s[i], t[i])
                                 ELSE IF m = n THEN 0 ELSE IF m < n THEN 1 ELSE -1
  BY DEF Sort!CompareTokens
<1>3. \A j \in Positive : f[j] = IF j <= m /\ j <= n THEN Sort!CompareToken(j, s[j], t[j])
                                 ELSE IF j <= n THEN 1 ELSE IF j <= m THEN -1 ELSE 0
  BY DEF TokensDiff
<1>4. \A j : j \in DOMAIN s \cap DOMAIN t <=> j \in Positive /\ j <= m /\ j <= n
  BY <1>1 DEF Positive
<1> HIDE DEF f, m, n
<1>5. CASE D # {}
  <2>1. i \in D /\ \A j \in D : i <= j
    <3>1. D \in SUBSET Nat
      BY <1>1
    <3> HIDE DEF D
    <3> QED BY <1>5, <3>1, FirstIs
  <2> HIDE DEF i
  <2>2. i \in Positive /\ i <= m /\ i <= n /\ f[i] = Sort!CompareToken(i, s[i], t[i]) /\ f[i] # 0
    BY <1>3, <1>4, <2>1
  <2>3. ASSUME NEW j \in Positive, j < i PROVE f[j] = 0
    <3>1. j <= m /\ j <= n /\ ~(i <= j)
      BY <1>1, <2>2, <2>3 DEF Positive
    <3>2. j \notin D /\ j \in DOMAIN s \cap DOMAIN t
      BY <1>4, <2>1, <3>1
    <3>3. Sort!CompareToken(j, s[j], t[j]) = 0
      BY <3>2
    <3> QED BY <1>3, <3>1, <3>3
  <2>4. Lead(f) = f[i]
    BY <2>2, <2>3, LeadAt
  <2> QED BY <1>2, <1>5, <2>2, <2>4 DEF f, i
<1>6. CASE D = {}
  <2>1. ASSUME NEW j \in Positive, j <= m, j <= n PROVE f[j] = 0
    <3>1. Sort!CompareToken(j, s[j], t[j]) = 0
      BY <1>4, <1>6, <2>1
    <3> QED BY <1>3, <2>1, <3>1
  <2>2. CASE m = n
    <3>1. \A j \in Positive : f[j] = 0
      BY <1>3, <2>1, <2>2
    <3> QED BY <1>2, <1>6, <2>2, <3>1, LeadNone DEF f
  <2>3. CASE m < n
    <3>1. m + 1 \in Positive /\ ~(m + 1 <= m) /\ m + 1 <= n
      BY <1>1, <2>3 DEF Positive
    <3>2. f[m + 1] = 1
      BY <1>3, <3>1
    <3>3. \A j \in Positive : j < m + 1 => f[j] = 0
      <4>1. \A j \in Positive : j < m + 1 => j <= m /\ j <= n
        BY <1>1, <2>3 DEF Positive
      <4> QED BY <2>1, <4>1
    <3>4. Lead(f) = 1
      BY <3>1, <3>2, <3>3, LeadAt
    <3>5. m # n
      BY <1>1, <2>3
    <3> QED BY <1>2, <1>6, <2>3, <3>4, <3>5 DEF f
  <2>4. CASE n < m
    <3>1. n + 1 \in Positive /\ ~(n + 1 <= n) /\ n + 1 <= m
      BY <1>1, <2>4 DEF Positive
    <3>2. f[n + 1] = -1
      BY <1>3, <3>1
    <3>3. \A j \in Positive : j < n + 1 => f[j] = 0
      <4>1. \A j \in Positive : j < n + 1 => j <= m /\ j <= n
        BY <1>1, <2>4 DEF Positive
      <4> QED BY <2>1, <4>1
    <3>4. Lead(f) = -1
      <4>1. f[n + 1] # 0
        BY <3>2
      <4> QED BY <3>1, <3>2, <3>3, <4>1, LeadAt
    <3>5. m # n /\ ~(m < n)
      BY <1>1, <2>4
    <3> QED BY <1>2, <1>6, <3>4, <3>5 DEF f
  <2> QED BY <1>1, <2>2, <2>3, <2>4
<1> QED BY <1>5, <1>6

IsDigit(s, i) == s[i] \in Sort!Digits

(* A token goes on to the first character of the other kind. *)
LEMMA TokenEndIs ==
  ASSUME NEW s \in Text, NEW b \in 1 .. Len(s) + 1, NEW mode \in BOOLEAN
  PROVE  LET e == Sort!TokenEnd(s, b, mode)
         IN  /\ e \in b .. Len(s) + 1 /\ e \in 1 .. Len(s) + 1
             /\ e <= Len(s) => IsDigit(s, e) = mode
             /\ \A i \in b .. e - 1 : IsDigit(s, i) # mode
<1> DEFINE D == {i \in b .. Len(s) : (s[i] \in Sort!Digits) = mode}
           n == Len(s)
           e == Sort!TokenEnd(s, b, mode)
<1>1. n \in Nat /\ b \in 1 .. n + 1
  BY TextIs
<1>2. e = IF D = {} THEN n + 1 ELSE Sort!First(D)
  BY DEF Sort!TokenEnd
<1> HIDE DEF e, n
<1>3. CASE D = {}
  <2>1. e = n + 1 /\ e \in b .. n + 1 /\ e \in 1 .. n + 1 /\ ~(e <= n) /\ b .. e - 1 = b .. n
    BY <1>1, <1>2, <1>3
  <2>2. \A i \in b .. n : IsDigit(s, i) # mode
    BY <1>3 DEF IsDigit, n
  <2> QED BY <2>1, <2>2 DEF e, n
<1>4. CASE D # {}
  <2>1. D \in SUBSET Nat
    BY <1>1
  <2>2. e \in D /\ \A j \in D : e <= j
    <3> HIDE DEF D
    <3> QED BY <1>2, <1>4, <2>1, FirstIs
  <2>3. e \in b .. n /\ IsDigit(s, e) = mode
    BY <2>2 DEF IsDigit, n
  <2>4. ASSUME NEW i \in b .. e - 1 PROVE IsDigit(s, i) # mode
    <3>1. i \in b .. n /\ ~(e <= i)
      BY <1>1, <2>3
    <3>2. i \notin D
      BY <2>2, <3>1
    <3> QED BY <3>1, <3>2 DEF IsDigit, n
  <2>5. e \in b .. n + 1 /\ e \in 1 .. n + 1
    BY <1>1, <2>3
  <2> QED BY <2>3, <2>4, <2>5 DEF e, n
<1> QED BY <1>3, <1>4

(* Where the tokens of s begin. *)
Begins(s) == CHOOSE g : g = [k \in Nat |-> IF k = 0 THEN 1 ELSE Sort!TokenEnd(s, g[k - 1], k % 2 = 1)]

(* Each token begins where the one before it ends. *)
LEMMA BeginsIs ==
  ASSUME NEW s \in Text
  PROVE  /\ Begins(s) \in [Nat -> 1 .. Len(s) + 1]
         /\ Begins(s)[0] = 1
         /\ \A k \in Nat \ {0} : Begins(s)[k] = Sort!TokenEnd(s, Begins(s)[k - 1], k % 2 = 1)
<1> DEFINE V == 1 .. Len(s) + 1
           F == Begins(s)
           step == [n \in Nat |-> [v \in V |-> Sort!TokenEnd(s, v, (n + 1) % 2 = 1)]]
<1>1. \A v \in V, mode \in BOOLEAN : Sort!TokenEnd(s, v, mode) \in V
  BY TokenEndIs
<1>2. 1 \in V
  BY TextIs
<1> HIDE DEF V
<1>3. step \in [Nat -> [V -> V]]
  BY <1>1
<1>4. PICK f \in [Nat -> V] : f[0] = 1 /\ \A n \in Nat : f[n + 1] = step[n][f[n]]
  <2> HIDE DEF step
  <2>1. \E g \in [Nat -> V] : Iterates(g, 1, step)
    BY <1>2, <1>3, Recursion
  <2> QED BY <2>1 DEF Iterates
<1>5. f = [k \in Nat |-> IF k = 0 THEN 1 ELSE Sort!TokenEnd(s, f[k - 1], k % 2 = 1)]
  <2> SUFFICES ASSUME NEW k \in Nat, k # 0 PROVE f[k] = Sort!TokenEnd(s, f[k - 1], k % 2 = 1)
    BY <1>4
  <2>1. k - 1 \in Nat /\ (k - 1) + 1 = k
    OBVIOUS
  <2>2. f[k] = step[k - 1][f[k - 1]] /\ f[k - 1] \in V
    BY <1>4, <2>1
  <2> QED BY <2>1, <2>2
<1>6. F = [k \in Nat |-> IF k = 0 THEN 1 ELSE Sort!TokenEnd(s, F[k - 1], k % 2 = 1)]
  BY <1>5 DEF Begins
<1> HIDE DEF F
<1>7. F[0] = 1 /\ \A k \in Nat \ {0} : F[k] = Sort!TokenEnd(s, F[k - 1], k % 2 = 1)
  BY <1>6
<1> DEFINE T == {k \in Nat : F[k] \in V}
<1>8. ASSUME NEW k \in Nat PROVE k \in T
  <2>1. 0 \in Nat /\ 0 <= k /\ 0 \in T
    BY <1>2, <1>7
  <2>2. ASSUME NEW i \in 0 + 1 .. k, i - 1 \in T PROVE i \in T
    <3>1. i \in Nat \ {0} /\ (i % 2 = 1) \in BOOLEAN /\ F[i - 1] \in V
      BY <2>2
    <3>2. F[i] \in V
      BY <1>1, <1>7, <3>1
    <3> QED BY <3>1, <3>2
  <2> HIDE DEF T
  <2> QED BY <2>1, <2>2, UpTo
<1>9. F = [k \in Nat |-> F[k]]
  BY <1>6
<1>10. F \in [Nat -> V]
  BY <1>8, <1>9
<1> QED BY <1>7, <1>10 DEF F, V

(* Every token but the first has a character, as long as there are any. *)
LEMMA BeginsGrow ==
  ASSUME NEW s \in Text, NEW k \in Nat \ {0}
  PROVE  LET b == Begins(s)
         IN  b[k] > Len(s) \/ (b[k] >= k /\ IsDigit(s, b[k]) = (k % 2 = 1))
<1> DEFINE b == Begins(s)
           n == Len(s)
           T == {j \in Nat : b[j] > n \/ (b[j] >= j /\ IsDigit(s, b[j]) = (j % 2 = 1))}
<1>1. n \in Nat
  BY TextIs
<1>2. /\ \A j \in Nat : b[j] \in 1 .. n + 1
      /\ b[0] = 1
      /\ \A j \in Nat \ {0} : b[j] = Sort!TokenEnd(s, b[j - 1], j % 2 = 1)
  BY BeginsIs
<1> HIDE DEF b
<1>3. ASSUME NEW j \in Nat \ {0}
      PROVE  /\ b[j] \in b[j - 1] .. n + 1
             /\ b[j] <= n => IsDigit(s, b[j]) = (j % 2 = 1)
  <2>1. j - 1 \in Nat /\ (j % 2 = 1) \in BOOLEAN
    OBVIOUS
  <2>2. b[j - 1] \in 1 .. n + 1
    BY <1>2, <2>1
  <2>3. b[j] = Sort!TokenEnd(s, b[j - 1], j % 2 = 1)
    BY <1>2
  <2> DEFINE a == b[j - 1]
             mode == (j % 2 = 1)
             e == Sort!TokenEnd(s, a, mode)
  <2>4. e \in a .. Len(s) + 1 /\ (e <= Len(s) => IsDigit(s, e) = mode)
    <3>1. a \in 1 .. Len(s) + 1 /\ mode \in BOOLEAN
      BY <2>1, <2>2 DEF n
    <3> HIDE DEF a, mode
    <3> QED BY <3>1, TokenEndIs
  <2> QED BY <2>3, <2>4 DEF n
<1>4. 1 \in T
  <2>1. b[1] \in b[1 - 1] .. n + 1 /\ (b[1] <= n => IsDigit(s, b[1]) = (1 % 2 = 1))
    BY <1>3
  <2>2. b[1] \in Int /\ b[1] >= 1
    BY <1>2
  <2>3. b[1] > n \/ (b[1] >= 1 /\ IsDigit(s, b[1]) = (1 % 2 = 1))
    BY <1>1, <2>1, <2>2
  <2> QED BY <2>3
<1>5. ASSUME NEW j \in 1 + 1 .. k, j - 1 \in T PROVE j \in T
  <2> DEFINE a == b[j - 1]
             e == b[j]
  <2>1. j \in Nat \ {0} /\ j - 1 \in Nat \ {0} /\ j - 1 \in Nat /\ j \in Nat
    BY <1>5
  <2>2. a \in 1 .. n + 1 /\ e \in 1 .. n + 1 /\ e \in a .. n + 1 /\ (e <= n => IsDigit(s, e) = (j % 2 = 1))
    BY <1>2, <1>3, <2>1
  <2>3. a > n \/ (a >= j - 1 /\ IsDigit(s, a) = ((j - 1) % 2 = 1))
    BY <1>5
  <2> HIDE DEF a, e
  <2>4. CASE a > n
    BY <1>1, <2>1, <2>2, <2>4 DEF e
  <2>5. CASE ~(a > n)
    <3>1. a >= j - 1 /\ IsDigit(s, a) = ((j - 1) % 2 = 1)
      BY <2>3, <2>5
    <3>2. (j % 2 = 1) # ((j - 1) % 2 = 1)
      BY <2>1
    <3>3. e <= n => e # a
      BY <2>2, <3>1, <3>2
    <3>4. e > n \/ e >= j
      BY <1>1, <2>1, <2>2, <2>5, <3>1, <3>3
    <3>5. e > n \/ (e >= j /\ IsDigit(s, e) = (j % 2 = 1))
      BY <1>1, <2>2, <3>4
    <3> QED BY <2>1, <3>5 DEF e
  <2> QED BY <2>4, <2>5
<1>6. k \in T
  <2>1. 1 \in Nat /\ k \in Nat /\ 1 <= k
    OBVIOUS
  <2> HIDE DEF T
  <2> QED BY <1>4, <1>5, <2>1, UpTo
<1> QED BY <1>6 DEF b, n

Lasts(s) == {k \in 0 .. Len(s) + 1 : Begins(s)[k] > Len(s)}

(* tokenize_string returns texts. *)
LEMMA TokenizeIs ==
  ASSUME NEW s \in Text
  PROVE  /\ Lasts(s) \in SUBSET Nat /\ Sort!First(Lasts(s)) \in Nat
         /\ Sort!Tokenize(s) = [k \in 1 .. Sort!First(Lasts(s)) + 1 |-> SubSeq(s, Begins(s)[k - 1], Begins(s)[k] - 1)]
         /\ Sort!Tokenize(s) \in Seq(Text)
<1> DEFINE b == Begins(s)
           n == Len(s)
           last == Sort!First(Lasts(s))
           r == [k \in 1 .. last + 1 |-> SubSeq(s, b[k - 1], b[k] - 1)]
<1>1. n \in Nat /\ \A i \in 1 .. n : s[i] \in Sort!Chars
  BY TextIs DEF Sort!Chars
<1>2. \A j \in Nat : b[j] \in 1 .. n + 1
  BY BeginsIs
<1>3. Sort!Tokenize(s) = r
  BY DEF Sort!Tokenize, Begins, Lasts
<1>4. Lasts(s) \in SUBSET Nat /\ Lasts(s) # {}
  <2>1. n + 1 \in 0 .. n + 1 /\ n + 1 \in Nat \ {0} /\ n + 1 \in Nat
    BY <1>1
  <2>2. b[n + 1] > n \/ b[n + 1] >= n + 1
    BY <2>1, BeginsGrow
  <2>3. b[n + 1] \in 1 .. n + 1
    BY <1>2, <2>1
  <2>4. b[n + 1] > n
    BY <1>1, <2>2, <2>3
  <2>5. n + 1 \in Lasts(s)
    BY <2>1, <2>4 DEF Lasts
  <2>6. Lasts(s) \in SUBSET Nat
    BY <1>1 DEF Lasts
  <2> QED BY <2>5, <2>6
<1>5. last \in Nat
  BY <1>4, FirstIs
<1> HIDE DEF last, b, n
<1>6. ASSUME NEW k \in 1 .. last + 1 PROVE SubSeq(s, b[k - 1], b[k] - 1) \in Text
  <2> DEFINE x == b[k - 1]
             y == b[k] - 1
  <2>1. k \in Nat /\ k - 1 \in Nat
    BY <1>5
  <2>2. x \in 1 .. n + 1 /\ y \in 0 .. n
    <3>1. b[k - 1] \in 1 .. n + 1 /\ b[k] \in 1 .. n + 1
      BY <1>2, <2>1
    <3> QED BY <1>1, <3>1
  <2> HIDE DEF x, y
  <2>3. x \in Int /\ y \in Int /\ \A i \in x .. y : s[i] \in Sort!Chars
    <3>1. \A i \in x .. y : i \in 1 .. n
      BY <1>1, <2>2
    <3> QED BY <1>1, <2>2, <3>1
  <2>4. SubSeq(s, x, y) \in Seq(Sort!Chars)
    BY <2>3, SubSeqProperties DEF Text
  <2> QED BY <2>4 DEF x, y, Text
<1>7. r \in Seq(Text)
  <2>1. r \in [1 .. last + 1 -> Text] /\ last + 1 \in Nat
    BY <1>5, <1>6
  <2> HIDE DEF r
  <2> QED BY <2>1, SeqDef
<1> QED BY <1>3, <1>4, <1>5, <1>7 DEF b, last

(* Where the tokens that merge_floats puts out begin. *)
Merges(t) == CHOOSE g : g = [k \in Nat |-> IF k = 0 THEN 1 ELSE LET j == g[k - 1] IN j + (IF Sort!IsFloat(t, j) THEN 3 ELSE 1)]
Ends(t) == {k \in 0 .. Len(t) : Merges(t)[k] > Len(t)}
Token(t, j) == IF Sort!IsFloat(t, j) THEN t[j] \o t[j + 1] \o t[j + 2] ELSE t[j]

(* merge_floats goes on by one token or by three. *)
LEMMA MergesIs ==
  ASSUME NEW t
  PROVE  /\ Merges(t)[0] = 1
         /\ \A k \in Nat \ {0} : Merges(t)[k] = Merges(t)[k - 1] + (IF Sort!IsFloat(t, Merges(t)[k - 1]) THEN 3 ELSE 1)
         /\ \A k \in Nat : Merges(t)[k] \in Nat /\ Merges(t)[k] >= k + 1
<1> DEFINE F == Merges(t)
           W(j) == IF Sort!IsFloat(t, j) THEN 3 ELSE 1
           step == [n \in Nat |-> [v \in Nat |-> v + W(v)]]
<1>1. \A j : W(j) \in Nat /\ W(j) >= 1
  OBVIOUS
<1> HIDE DEF W
<1>2. step \in [Nat -> [Nat -> Nat]]
  BY <1>1
<1>3. PICK f \in [Nat -> Nat] : f[0] = 1 /\ \A n \in Nat : f[n + 1] = step[n][f[n]]
  <2>1. 1 \in Nat
    OBVIOUS
  <2> HIDE DEF step
  <2>2. \E g \in [Nat -> Nat] : Iterates(g, 1, step)
    BY <1>2, <2>1, Recursion
  <2> QED BY <2>2 DEF Iterates
<1>4. f = [k \in Nat |-> IF k = 0 THEN 1 ELSE f[k - 1] + W(f[k - 1])]
  <2> SUFFICES ASSUME NEW k \in Nat, k # 0 PROVE f[k] = f[k - 1] + W(f[k - 1])
    BY <1>3
  <2>1. k - 1 \in Nat /\ (k - 1) + 1 = k
    OBVIOUS
  <2>2. f[k] = step[k - 1][f[k - 1]] /\ f[k - 1] \in Nat
    BY <1>3, <2>1
  <2> QED BY <2>1, <2>2
<1>5. F = [k \in Nat |-> IF k = 0 THEN 1 ELSE F[k - 1] + W(F[k - 1])]
  BY <1>4 DEF Merges, W
<1> HIDE DEF F
<1>6. F[0] = 1 /\ \A k \in Nat \ {0} : F[k] = F[k - 1] + W(F[k - 1])
  BY <1>5
<1> DEFINE T == {k \in Nat : F[k] \in Nat /\ F[k] >= k + 1}
<1>7. ASSUME NEW k \in Nat PROVE k \in T
  <2>1. 0 \in Nat /\ 0 <= k /\ 0 \in T
    BY <1>6
  <2>2. ASSUME NEW i \in 0 + 1 .. k, i - 1 \in T PROVE i \in T
    <3>1. i \in Nat \ {0} /\ F[i - 1] \in Nat /\ F[i - 1] >= (i - 1) + 1
      BY <2>2
    <3>2. F[i] = F[i - 1] + W(F[i - 1]) /\ W(F[i - 1]) \in Nat /\ W(F[i - 1]) >= 1
      BY <1>1, <1>6, <3>1
    <3> QED BY <3>1, <3>2
  <2> HIDE DEF T
  <2> QED BY <2>1, <2>2, UpTo
<1> QED BY <1>6, <1>7 DEF F, W

(* merge_floats returns texts. *)
LEMMA MergeFloatsIs ==
  ASSUME NEW t \in Seq(Text)
  PROVE  /\ Ends(t) \in SUBSET Nat /\ Sort!First(Ends(t)) \in Nat
         /\ Sort!MergeFloats(t) = [k \in 1 .. Sort!First(Ends(t)) |-> Token(t, Merges(t)[k - 1])]
         /\ Sort!MergeFloats(t) \in Seq(Text)
<1> DEFINE a == Merges(t)
           n == Len(t)
           last == Sort!First(Ends(t))
           r == [k \in 1 .. last |-> Token(t, a[k - 1])]
<1>1. n \in Nat /\ \A i \in 1 .. n : t[i] \in Text
  BY LenProperties, ElementOfSeq
<1>2. \A k \in Nat : a[k] \in Nat /\ a[k] >= k + 1
  BY MergesIs
<1>3. Sort!MergeFloats(t) = r
  BY DEF Sort!MergeFloats, Merges, Ends, Token
<1>4. Ends(t) \in SUBSET Nat /\ n \in Ends(t)
  <2>1. n \in 0 .. n /\ a[n] > n
    BY <1>1, <1>2
  <2>2. \A k \in 0 .. n : k \in Nat
    BY <1>1
  <2> QED BY <2>1, <2>2 DEF Ends
<1>5. last \in Nat /\ \A j \in Ends(t) : last <= j
  BY <1>4, FirstIs
<1> HIDE DEF last
<1>6. ASSUME NEW k \in 1 .. last PROVE Token(t, a[k - 1]) \in Text
  <2> DEFINE j == a[k - 1]
  <2>1. k - 1 \in Nat /\ ~(last <= k - 1) /\ k - 1 \in 0 .. n
    BY <1>1, <1>4, <1>5
  <2>2. ~(a[k - 1] > Len(t))
    BY <1>5, <2>1 DEF Ends
  <2>3. j \in 1 .. n
    <3>1. a[k - 1] \in Nat /\ a[k - 1] >= (k - 1) + 1
      BY <1>2, <2>1
    <3> HIDE DEF a
    <3> QED BY <1>1, <2>1, <2>2, <3>1 DEF n
  <2> HIDE DEF j
  <2>4. t[j] \in Text
    BY <1>1, <2>3
  <2>5. CASE Sort!IsFloat(t, j)
    <3>1. j + 1 \in 1 .. n /\ j + 2 \in 1 .. n
      BY <1>1, <2>3, <2>5 DEF Sort!IsFloat
    <3>2. t[j + 1] \in Text /\ t[j + 2] \in Text
      BY <1>1, <3>1
    <3> DEFINE x == t[j]
               y == t[j + 1]
               z == t[j + 2]
    <3>3. x \in Seq(Sort!Chars) /\ y \in Seq(Sort!Chars) /\ z \in Seq(Sort!Chars)
      BY <2>4, <3>2 DEF Text
    <3> HIDE DEF x, y, z
    <3>4. x \o y \in Seq(Sort!Chars)
      BY <3>3, ConcatProperties
    <3>5. (x \o y) \o z \in Seq(Sort!Chars)
      BY <3>3, <3>4, ConcatProperties
    <3> QED BY <2>5, <3>5 DEF Token, Text, x, y, z, j
  <2>6. CASE ~Sort!IsFloat(t, j)
    BY <2>4, <2>6 DEF Token, j
  <2> QED BY <2>5, <2>6
<1>7. r \in Seq(Text)
  <2>1. r \in [1 .. last -> Text]
    BY <1>5, <1>6
  <2> HIDE DEF r
  <2> QED BY <1>5, <2>1, SeqDef
<1> QED BY <1>3, <1>4, <1>5, <1>7 DEF a, last

(* The tokens of a text are texts. *)
LEMMA TokensType == ASSUME NEW s \in Text PROVE Sort!Tokens(s) \in Seq(Text)
BY TokenizeIs, MergeFloatsIs DEF Sort!Tokens

(* Texts are close by two tokens at one place. *)
LEMMA CloseIs ==
  ASSUME NEW s \in Text, NEW t \in Text, ~Sort!Close(s, t), NEW i \in Positive
  PROVE  ~NearAt(i, Sort!Tokens(s), Sort!Tokens(t))
<1> DEFINE a == Sort!Tokens(s)
           b == Sort!Tokens(t)
<1>1. a \in Seq(Text) /\ b \in Seq(Text)
  BY TokensType
<1>2. \A p \in DOMAIN a \cap DOMAIN b : ~Near(p, a[p], b[p])
  BY DEF Sort!Close, Near
<1> HIDE DEF a, b
<1>3. i <= Len(a) /\ i <= Len(b) => i \in DOMAIN a \cap DOMAIN b
  BY <1>1, LenProperties DEF Positive
<1>4. ~NearAt(i, a, b)
  BY <1>2, <1>3 DEF NearAt
<1> QED BY <1>4 DEF a, b

(* Texts compare alike in both directions, and through a third unless two   *)
(* of the three are close.                                                  *)
LEMMA StrCompareNatOrder ==
  ASSUME NEW s \in Text, NEW t \in Text, NEW u \in Text
  PROVE  /\ Sort!StrCompareNat(s, t) \in Int
         /\ Sort!StrCompareNat(t, s) = -Sort!StrCompareNat(s, t)
         /\ ~Sort!Close(s, t) /\ ~Sort!Close(t, u) /\ ~Sort!Close(s, u) =>
              Through(Sort!StrCompareNat(s, t), Sort!StrCompareNat(t, u), Sort!StrCompareNat(s, u))
<1> DEFINE a == Sort!Tokens(s)
           b == Sort!Tokens(t)
           c == Sort!Tokens(u)
           apart == ~Sort!Close(s, t) /\ ~Sort!Close(t, u) /\ ~Sort!Close(s, u)
<1>1. a \in Seq(Text) /\ b \in Seq(Text) /\ c \in Seq(Text)
  BY TokensType
<1>2. /\ Sort!StrCompareNat(s, t) = Sort!CompareTokens(a, b) /\ Sort!StrCompareNat(t, s) = Sort!CompareTokens(b, a)
      /\ Sort!StrCompareNat(t, u) = Sort!CompareTokens(b, c) /\ Sort!StrCompareNat(s, u) = Sort!CompareTokens(a, c)
  BY DEF Sort!StrCompareNat
<1>6. apart => \A i \in Positive : ~NearAt(i, a, b) /\ ~NearAt(i, b, c) /\ ~NearAt(i, a, c)
  BY CloseIs
<1> HIDE DEF a, b, c, apart
<1> DEFINE f == TokensDiff(a, b)
           g == TokensDiff(b, c)
           h == TokensDiff(a, c)
           m == TokensDiff(b, a)
<1>3. /\ Sort!CompareTokens(a, b) = Lead(f) /\ Sort!CompareTokens(b, a) = Lead(m)
      /\ Sort!CompareTokens(b, c) = Lead(g) /\ Sort!CompareTokens(a, c) = Lead(h)
  BY <1>1, CompareTokensIs
<1>4. /\ f \in [Positive -> Int] /\ g \in [Positive -> Int] /\ h \in [Positive -> Int] /\ m \in [Positive -> Int]
      /\ \A i \in Positive : m[i] = -f[i]
      /\ apart => \A i \in Positive : Through(f[i], g[i], h[i])
  BY <1>1, <1>6, TokensDiffOrder
<1> HIDE DEF f, g, h, m
<1>5. Lead(f) \in Int /\ Lead(m) = -Lead(f) /\ (apart => Through(Lead(f), Lead(g), Lead(h)))
  BY <1>4, LeadInt, LeadMinus, LeadThrough
<1> QED BY <1>2, <1>3, <1>5 DEF apart

Datum == [id : Nat, count : Nat, data : Text]

(* No two of three contexts have numbers that tie by EPS alone. *)
ToldApart(l, r, x) == ~Sort!Close(l.data, r.data) /\ ~Sort!Close(r.data, x.data) /\ ~Sort!Close(l.data, x.data)

(* How one field compares two contexts, before `comp = !comp` and with it. *)
Ascending(field, l, r) ==
  CASE field.by = "id" -> r.id - l.id
    [] field.by = "count" -> r.count - l.count
    [] field.by = "data" -> Sort!StrCompareNat(l.data, r.data)
FieldDiff(field, l, r) == IF field.direction = "Desc" THEN -Ascending(field, l, r) ELSE Ascending(field, l, r)

(* One field, compared upwards. *)
LEMMA AscendingIs ==
  ASSUME NEW field \in Sort!Fields, NEW l \in Datum, NEW r \in Datum, NEW x \in Datum
  PROVE  /\ Ascending(field, l, r) \in Int /\ Ascending(field, r, l) = -Ascending(field, l, r)
         /\ ToldApart(l, r, x) => Through(Ascending(field, l, r), Ascending(field, r, x), Ascending(field, l, x))
         /\ Sort!Less(field, l, r) <=> Ascending(field, l, r) > 0
         /\ Sort!Decides(field, l, r) <=> (field.by = "id" \/ Ascending(field, l, r) # 0)
         /\ field.by = "id" => (Ascending(field, l, r) = 0 <=> l.id = r.id)
<1>1. field.by \in {"id", "count", "data"}
  BY DEF Sort!Fields
<1>2. ASSUME NEW a \in Nat, NEW b \in Nat, NEW c \in Nat
      PROVE  b - a \in Int /\ a - b = -(b - a) /\ Through(b - a, c - b, c - a) /\ (a < b <=> b - a > 0) /\ (b - a = 0 <=> a = b)
  BY DEF Through
<1>3. CASE field.by = "id"
  <2>1. \A y, z : Ascending(field, y, z) = z.id - y.id
    BY <1>3 DEF Ascending
  <2>2. (Sort!Less(field, l, r) <=> l.id < r.id) /\ Sort!Decides(field, l, r)
    BY <1>3 DEF Sort!Less, Sort!Decides
  <2> DEFINE a == l.id
             b == r.id
             c == x.id
  <2>3. a \in Nat /\ b \in Nat /\ c \in Nat
    BY DEF Datum
  <2>4. /\ Ascending(field, l, r) = b - a /\ Ascending(field, r, l) = a - b
        /\ Ascending(field, r, x) = c - b /\ Ascending(field, l, x) = c - a
        /\ Sort!Less(field, l, r) <=> a < b
    BY <2>1, <2>2
  <2> HIDE DEF a, b, c
  <2>5. b - a \in Int /\ a - b = -(b - a) /\ Through(b - a, c - b, c - a) /\ (a < b <=> b - a > 0) /\ (b - a = 0 <=> a = b)
    BY <1>2, <2>3
  <2> QED BY <1>3, <2>2, <2>4, <2>5 DEF a, b
<1>4. CASE field.by = "count"
  <2>1. \A y, z : Ascending(field, y, z) = z.count - y.count
    BY <1>4 DEF Ascending
  <2>2. (Sort!Less(field, l, r) <=> l.count < r.count) /\ (Sort!Decides(field, l, r) <=> l.count # r.count) /\ field.by # "id"
    BY <1>4 DEF Sort!Less, Sort!Decides
  <2> DEFINE a == l.count
             b == r.count
             c == x.count
  <2>3. a \in Nat /\ b \in Nat /\ c \in Nat
    BY DEF Datum
  <2>4. /\ Ascending(field, l, r) = b - a /\ Ascending(field, r, l) = a - b
        /\ Ascending(field, r, x) = c - b /\ Ascending(field, l, x) = c - a
        /\ Sort!Less(field, l, r) <=> a < b
    BY <2>1, <2>2
  <2> HIDE DEF a, b, c
  <2>5. b - a \in Int /\ a - b = -(b - a) /\ Through(b - a, c - b, c - a) /\ (a < b <=> b - a > 0) /\ (b - a = 0 <=> a = b)
    BY <1>2, <2>3
  <2> QED BY <1>4, <2>2, <2>4, <2>5 DEF a, b
<1>5. CASE field.by = "data"
  <2>1. \A y, z : Ascending(field, y, z) = Sort!StrCompareNat(y.data, z.data)
    BY <1>5 DEF Ascending
  <2>2. /\ Sort!Less(field, l, r) <=> Sort!StrCompareNat(l.data, r.data) > 0
        /\ Sort!Decides(field, l, r) <=> Sort!StrCompareNat(l.data, r.data) # 0
        /\ field.by # "id"
    BY <1>5 DEF Sort!Less, Sort!Decides
  <2>3. l.data \in Text /\ r.data \in Text /\ x.data \in Text
    BY DEF Datum
  <2> QED BY <2>1, <2>2, <2>3, StrCompareNatOrder DEF ToldApart
<1> QED BY <1>1, <1>3, <1>4, <1>5

(* One field with its direction: where it differs, Comp is the sign. *)
LEMMA FieldDiffIs ==
  ASSUME NEW field \in Sort!Fields, NEW l \in Datum, NEW r \in Datum, NEW x \in Datum
  PROVE  /\ FieldDiff(field, l, r) \in Int /\ FieldDiff(field, r, l) = -FieldDiff(field, l, r)
         /\ ToldApart(l, r, x) => Through(FieldDiff(field, l, r), FieldDiff(field, r, x), FieldDiff(field, l, x))
         /\ Sort!Decides(field, l, r) <=> (field.by = "id" \/ FieldDiff(field, l, r) # 0)
         /\ FieldDiff(field, l, r) # 0 => (Sort!Comp(field, l, r) <=> FieldDiff(field, l, r) > 0)
         /\ field.by = "id" => (FieldDiff(field, l, r) = 0 <=> l.id = r.id)
         /\ FieldDiff(field, l, r) = 0 => (Sort!Comp(field, l, r) <=> field.direction = "Desc")
<1> DEFINE a == Ascending(field, l, r)
           b == Ascending(field, r, x)
           c == Ascending(field, l, x)
           d == Ascending(field, r, l)
           desc == field.direction = "Desc"
           less == Sort!Less(field, l, r)
           decides == Sort!Decides(field, l, r)
           comp == Sort!Comp(field, l, r)
           same == l.id = r.id
           byId == field.by = "id"
           apart == ToldApart(l, r, x)
<1>1. /\ a \in Int /\ b \in Int /\ c \in Int /\ d = -a /\ (apart => Through(a, b, c)) /\ (less <=> a > 0)
      /\ (decides <=> byId \/ a # 0) /\ (byId => (a = 0 <=> same))
  BY AscendingIs
<1>2. /\ FieldDiff(field, l, r) = (IF desc THEN -a ELSE a) /\ FieldDiff(field, r, x) = (IF desc THEN -b ELSE b)
      /\ FieldDiff(field, l, x) = (IF desc THEN -c ELSE c) /\ FieldDiff(field, r, l) = (IF desc THEN -d ELSE d)
  BY DEF FieldDiff
<1>4. (comp <=> ~(less <=> desc)) /\ less \in BOOLEAN /\ desc \in BOOLEAN
  <2>1. less \in BOOLEAN
    <3>1. field.by \in {"id", "count", "data"}
      BY DEF Sort!Fields
    <3>2. l.id \in Nat /\ r.id \in Nat /\ l.count \in Nat /\ r.count \in Nat /\ l.data \in Text /\ r.data \in Text
      BY DEF Datum
    <3>3. Sort!StrCompareNat(l.data, r.data) \in Int
      BY <3>2, StrCompareNatOrder
    <3>4. \A y, z \in Int : (y < z) \in BOOLEAN /\ (y > z) \in BOOLEAN
      OBVIOUS
    <3>5. CASE field.by = "id"
      <4>1. Sort!Less(field, l, r) = (l.id < r.id)
        BY <3>5 DEF Sort!Less
      <4> QED BY <3>2, <3>4, <4>1
    <3>6. CASE field.by = "count"
      <4>1. Sort!Less(field, l, r) = (l.count < r.count)
        BY <3>6 DEF Sort!Less
      <4> QED BY <3>2, <3>4, <4>1
    <3>7. CASE field.by = "data"
      <4>1. Sort!Less(field, l, r) = (Sort!StrCompareNat(l.data, r.data) > 0)
        BY <3>7 DEF Sort!Less
      <4> QED BY <3>3, <3>4, <4>1
    <3> QED BY <3>1, <3>5, <3>6, <3>7
  <2> QED BY <2>1 DEF Sort!Comp
<1> HIDE DEF a, b, c, d, less, desc, comp, decides, same, byId, apart
<1>5. CASE desc
  <2>1. -a \in Int /\ -d = -(-a) /\ (apart => Through(-a, -b, -c))
    BY <1>1 DEF Through
  <2>2. (decides <=> byId \/ -a # 0) /\ (byId => (-a = 0 <=> same)) /\ (-a # 0 => (comp <=> -a > 0)) /\ (-a = 0 => comp)
    BY <1>1, <1>4, <1>5
  <2> QED BY <1>2, <1>5, <2>1, <2>2 DEF decides, byId, comp, same, desc, apart
<1>6. CASE ~desc
  <2>1. (comp <=> a > 0)
    BY <1>1, <1>4, <1>6
  <2>2. a = 0 => ~comp
    BY <1>1, <2>1
  <2> QED BY <1>1, <1>2, <1>6, <2>1, <2>2 DEF decides, byId, comp, same, desc, apart
<1> QED BY <1>5, <1>6

(* Field by field; behind an id nothing is compared. *)
After(fields, i) == \E j \in 1 .. i - 1 : fields[j].by = "id"
FieldsDiff(fields, l, r) ==
  [i \in Positive |-> IF i <= Len(fields) /\ ~After(fields, i) THEN FieldDiff(fields[i], l, r) ELSE 0]

(* Field by field, contexts compare alike in both directions, and through a *)
(* third unless two of the three are close.                                 *)
LEMMA FieldsOrder ==
  ASSUME NEW fields \in Seq(Sort!Fields), NEW l \in Datum, NEW r \in Datum, NEW x \in Datum
  PROVE  /\ Lead(FieldsDiff(fields, l, r)) \in Int
         /\ Lead(FieldsDiff(fields, r, l)) = -Lead(FieldsDiff(fields, l, r))
         /\ ToldApart(l, r, x) =>
              Through(Lead(FieldsDiff(fields, l, r)), Lead(FieldsDiff(fields, r, x)), Lead(FieldsDiff(fields, l, x)))
<1> DEFINE f == FieldsDiff(fields, l, r)
           g == FieldsDiff(fields, r, x)
           h == FieldsDiff(fields, l, x)
           m == FieldsDiff(fields, r, l)
<1>1. ASSUME NEW i \in Positive
      PROVE  f[i] \in Int /\ g[i] \in Int /\ h[i] \in Int /\ m[i] \in Int /\ m[i] = -f[i]
             /\ (ToldApart(l, r, x) => Through(f[i], g[i], h[i]))
  <2>1. CASE i <= Len(fields) /\ ~After(fields, i)
    <3>1. fields[i] \in Sort!Fields
      <4>1. i \in 1 .. Len(fields)
        BY <2>1, LenProperties DEF Positive
      <4> QED BY <4>1, ElementOfSeq
    <3>2. /\ f[i] = FieldDiff(fields[i], l, r) /\ g[i] = FieldDiff(fields[i], r, x)
          /\ h[i] = FieldDiff(fields[i], l, x) /\ m[i] = FieldDiff(fields[i], r, l)
      BY <2>1 DEF FieldsDiff
    <3> HIDE DEF f, g, h, m
    <3> QED BY <3>1, <3>2, FieldDiffIs
  <2>2. CASE ~(i <= Len(fields) /\ ~After(fields, i))
    <3>1. f[i] = 0 /\ g[i] = 0 /\ h[i] = 0 /\ m[i] = 0
      BY <2>2 DEF FieldsDiff
    <3> HIDE DEF f, g, h, m
    <3>2. 0 \in Int /\ Through(0, 0, 0)
      BY DEF Through
    <3>3. \A z, w \in Int : z >= 0 /\ z <= 0 /\ w = z => w = -z
      OBVIOUS
    <3>4. f[i] \in Int /\ g[i] \in Int /\ h[i] \in Int /\ m[i] \in Int /\ Through(f[i], g[i], h[i])
      BY <3>1, <3>2
    <3>5. f[i] >= 0 /\ f[i] <= 0 /\ m[i] = f[i]
      BY <3>1
    <3>6. m[i] = -f[i]
      BY <3>3, <3>4, <3>5
    <3> QED BY <3>4, <3>6
  <2> QED BY <2>1, <2>2
<1>2. f \in [Positive -> Int] /\ g \in [Positive -> Int] /\ h \in [Positive -> Int] /\ m \in [Positive -> Int]
  <2>1. /\ f = [i \in Positive |-> f[i]] /\ g = [i \in Positive |-> g[i]]
        /\ h = [i \in Positive |-> h[i]] /\ m = [i \in Positive |-> m[i]]
    BY DEF FieldsDiff
  <2> HIDE DEF f, g, h, m
  <2> QED BY <1>1, <2>1
<1> HIDE DEF f, g, h, m
<1>3. Lead(f) \in Int /\ Lead(m) = -Lead(f) /\ (ToldApart(l, r, x) => Through(Lead(f), Lead(g), Lead(h)))
  BY <1>1, <1>2, LeadInt, LeadMinus, LeadThrough
<1> QED BY <1>3 DEF f, g, h, m

(* DESC(id) is the first field that looks at the id. *)
DescFirst(fields) ==
  \E k \in DOMAIN fields : /\ fields[k] = [by |-> "id", direction |-> "Desc"]
                           /\ \A g \in 1 .. k - 1 : fields[g].by # "id"

(* The field that decides is the first that differs, or else an id of both. *)
LEMMA CallbackIs ==
  ASSUME NEW fields \in Seq(Sort!Fields), NEW l \in Datum, NEW r \in Datum
  PROVE  LET lead == Lead(FieldsDiff(fields, l, r))
         IN  Sort!SortCallback(fields, l, r) <=> lead > 0 \/ (lead = 0 /\ DescFirst(fields))
<1> DEFINE f == FieldsDiff(fields, l, r)
           n == Len(fields)
           D == {i \in DOMAIN fields : Sort!Decides(fields[i], l, r)}
           i == Sort!First(D)
<1>1. n \in Nat /\ DOMAIN fields = 1 .. n /\ \A j \in 1 .. n : fields[j] \in Sort!Fields
  BY LenProperties, ElementOfSeq
<1>2. Sort!SortCallback(fields, l, r) <=> (D # {} /\ Sort!Comp(fields[i], l, r))
  BY DEF Sort!SortCallback
<1>3. \A j \in Positive : f[j] = IF j <= n /\ ~After(fields, j) THEN FieldDiff(fields[j], l, r) ELSE 0
  BY DEF FieldsDiff
<1> HIDE DEF f, n
<1>4. ASSUME NEW j \in 1 .. n, j \notin D PROVE fields[j].by # "id" /\ FieldDiff(fields[j], l, r) = 0
  <2>1. ~Sort!Decides(fields[j], l, r) /\ fields[j] \in Sort!Fields
    BY <1>1, <1>4
  <2> QED BY <2>1, FieldDiffIs
<1>5. CASE D = {}
  <2>1. \A j \in Positive : f[j] = 0
    <3> SUFFICES ASSUME NEW j \in Positive PROVE f[j] = 0
      OBVIOUS
    <3>1. CASE j <= n
      <4>1. j \in 1 .. n
        BY <1>1, <3>1 DEF Positive
      <4>2. FieldDiff(fields[j], l, r) = 0
        BY <1>4, <1>5, <4>1
      <4> QED BY <1>3, <4>2
    <3>2. CASE ~(j <= n)
      BY <1>3, <3>2
    <3> QED BY <3>1, <3>2
  <2>2. Lead(f) = 0
    BY <2>1, LeadNone
  <2>3. ~DescFirst(fields)
    BY <1>1, <1>4, <1>5 DEF DescFirst
  <2> QED BY <1>2, <1>5, <2>2, <2>3 DEF f
<1>6. CASE D # {}
  <2>1. i \in D /\ \A j \in D : i <= j
    <3>1. D \in SUBSET Nat
      BY <1>1
    <3> HIDE DEF D
    <3> QED BY <1>6, <3>1, FirstIs
  <2>2. Sort!SortCallback(fields, l, r) <=> Sort!Comp(fields[i], l, r)
    BY <1>2, <1>6
  <2> HIDE DEF i
  <2>3. i \in 1 .. n /\ i \in Positive /\ i <= n /\ Sort!Decides(fields[i], l, r) /\ fields[i] \in Sort!Fields
    BY <1>1, <2>1 DEF Positive
  <2>4. ASSUME NEW j \in Positive, j < i PROVE j \in 1 .. n /\ fields[j].by # "id" /\ FieldDiff(fields[j], l, r) = 0
    <3>1. j \in 1 .. n /\ ~(i <= j)
      BY <1>1, <2>3, <2>4 DEF Positive
    <3>2. j \notin D
      BY <2>1, <3>1
    <3> QED BY <1>4, <3>1, <3>2
  <2>5. ~After(fields, i)
    <3>1. \A j \in 1 .. i - 1 : j \in Positive /\ j < i
      BY <2>3 DEF Positive
    <3> QED BY <2>4, <3>1 DEF After
  <2>6. f[i] = FieldDiff(fields[i], l, r) /\ \A j \in Positive : j < i => f[j] = 0
    BY <1>3, <2>3, <2>4, <2>5
  <2>7. /\ fields[i].by = "id" \/ f[i] # 0
        /\ f[i] # 0 => (Sort!Comp(fields[i], l, r) <=> f[i] > 0)
        /\ f[i] = 0 => l.id = r.id
        /\ f[i] = 0 => (Sort!Comp(fields[i], l, r) <=> fields[i].direction = "Desc")
    <3> DEFINE field == fields[i]
    <3>1. field \in Sort!Fields /\ Sort!Decides(field, l, r) /\ f[i] = FieldDiff(field, l, r)
      BY <2>3, <2>6
    <3> HIDE DEF field
    <3>2. /\ field.by = "id" \/ FieldDiff(field, l, r) # 0
          /\ FieldDiff(field, l, r) # 0 => (Sort!Comp(field, l, r) <=> FieldDiff(field, l, r) > 0)
          /\ field.by = "id" => (FieldDiff(field, l, r) = 0 <=> l.id = r.id)
          /\ FieldDiff(field, l, r) = 0 => (Sort!Comp(field, l, r) <=> field.direction = "Desc")
      BY <3>1, FieldDiffIs
    <3>3. /\ field.by = "id" \/ f[i] # 0
          /\ f[i] # 0 => (Sort!Comp(field, l, r) <=> f[i] > 0)
          /\ f[i] = 0 => l.id = r.id
          /\ f[i] = 0 => (Sort!Comp(field, l, r) <=> field.direction = "Desc")
      BY <3>1, <3>2
    <3> QED BY <3>3 DEF field
  <2>8. CASE f[i] # 0
    <3>1. Lead(f) = f[i]
      BY <2>3, <2>6, <2>8, LeadAt
    <3>2. Lead(f) # 0
      BY <2>8, <3>1
    <3> QED BY <2>2, <2>7, <2>8, <3>1, <3>2 DEF f
  <2>9. CASE f[i] = 0
    <3>1. fields[i].by = "id" /\ l.id = r.id
      BY <2>7, <2>9
    <3>2. fields[i].direction = "Desc" <=> DescFirst(fields)
      <4> DEFINE descId == [by |-> "id", direction |-> "Desc"]
      <4>1. fields[i].direction = "Desc" <=> fields[i] = descId
        <5>1. \A q \in Sort!Fields : q.by = "id" => (q.direction = "Desc" <=> q = descId)
          BY DEF Sort!Fields
        <5> QED BY <2>3, <3>1, <5>1
      <4>2. ASSUME fields[i] = descId PROVE DescFirst(fields)
        <5>1. i \in DOMAIN fields /\ \A g \in 1 .. i - 1 : g \in Positive /\ g < i
          BY <1>1, <2>3 DEF Positive
        <5> QED BY <2>4, <4>2, <5>1 DEF DescFirst
      <4>3. ASSUME NEW k \in DOMAIN fields, fields[k] = descId, \A g \in 1 .. k - 1 : fields[g].by # "id" PROVE k = i
        <5>1. k \in Positive /\ fields[k].by = "id" /\ i \in Int /\ k \in Int
          BY <1>1, <2>3, <4>3 DEF Positive
        <5>2. ~(k < i)
          BY <2>4, <5>1
        <5>3. i < k => i \in 1 .. k - 1
          BY <2>3, <5>1 DEF Positive
        <5>4. ~(i < k)
          BY <3>1, <4>3, <5>3
        <5> QED BY <5>1, <5>2, <5>4
      <4> QED BY <4>1, <4>2, <4>3 DEF DescFirst
    <3>3. ASSUME NEW j \in Positive PROVE f[j] = 0
      <4>1. CASE j < i
        BY <2>6, <4>1
      <4>2. CASE j = i
        BY <2>9, <4>2
      <4>3. CASE j > i
        <5>1. i \in 1 .. j - 1
          BY <2>3, <4>3 DEF Positive
        <5>2. After(fields, j)
          BY <3>1, <5>1 DEF After
        <5> QED BY <1>3, <5>2
      <4> QED BY <2>3, <4>1, <4>2, <4>3 DEF Positive
    <3>4. Lead(f) = 0
      BY <3>3, LeadNone
    <3> QED BY <2>2, <2>7, <2>9, <3>2, <3>4 DEF f
  <2> QED BY <2>8, <2>9
<1> QED BY <1>5, <1>6

(* Nothing in front of DESC(id) decides, and the ids are the same: nothing  *)
(* differs at all.                                                          *)
LEMMA RepeatedIs ==
  ASSUME NEW fields \in Seq(Sort!Fields), NEW l \in Datum, NEW r \in Datum
  PROVE  (/\ l.id = r.id
          /\ \E k \in DOMAIN fields : /\ fields[k] = [by |-> "id", direction |-> "Desc"]
                                      /\ \A g \in 1 .. k - 1 : ~Sort!Decides(fields[g], l, r))
           <=> Lead(FieldsDiff(fields, l, r)) = 0 /\ DescFirst(fields)
<1> DEFINE f == FieldsDiff(fields, l, r)
           n == Len(fields)
           descId == [by |-> "id", direction |-> "Desc"]
<1>1. n \in Nat /\ DOMAIN fields = 1 .. n /\ \A j \in 1 .. n : fields[j] \in Sort!Fields
  BY LenProperties, ElementOfSeq
<1>2. \A j \in Positive : f[j] = IF j <= n /\ ~After(fields, j) THEN FieldDiff(fields[j], l, r) ELSE 0
  BY DEF FieldsDiff
<1> HIDE DEF f, n
<1>3. ASSUME NEW j \in 1 .. n
      PROVE  /\ Sort!Decides(fields[j], l, r) <=> (fields[j].by = "id" \/ FieldDiff(fields[j], l, r) # 0)
             /\ fields[j].by = "id" => (FieldDiff(fields[j], l, r) = 0 <=> l.id = r.id)
  <2> DEFINE field == fields[j]
  <2>1. field \in Sort!Fields
    BY <1>1
  <2> HIDE DEF field
  <2>2. /\ Sort!Decides(field, l, r) <=> (field.by = "id" \/ FieldDiff(field, l, r) # 0)
        /\ field.by = "id" => (FieldDiff(field, l, r) = 0 <=> l.id = r.id)
    BY <2>1, FieldDiffIs
  <2> QED BY <2>2 DEF field
<1>4. ASSUME l.id = r.id, NEW k \in 1 .. n, fields[k] = descId, \A g \in 1 .. k - 1 : ~Sort!Decides(fields[g], l, r)
      PROVE  Lead(f) = 0 /\ DescFirst(fields)
  <2>1. ASSUME NEW g \in 1 .. k - 1 PROVE g \in 1 .. n /\ fields[g].by # "id" /\ FieldDiff(fields[g], l, r) = 0
    <3>1. g \in 1 .. n
      BY <1>1
    <3> QED BY <1>3, <1>4, <3>1
  <2>2. FieldDiff(fields[k], l, r) = 0 /\ fields[k].by = "id"
    BY <1>3, <1>4
  <2>3. ASSUME NEW j \in Positive PROVE f[j] = 0
    <3>1. CASE j < k
      <4>1. j \in 1 .. k - 1
        BY <1>1, <3>1 DEF Positive
      <4> QED BY <1>2, <2>1, <4>1
    <3>2. CASE j = k
      BY <1>2, <2>2, <3>2
    <3>3. CASE j > k
      <4>1. k \in 1 .. j - 1
        BY <1>1, <3>3 DEF Positive
      <4>2. After(fields, j)
        BY <2>2, <4>1 DEF After
      <4> QED BY <1>2, <4>2
    <3> QED BY <3>1, <3>2, <3>3 DEF Positive
  <2>4. Lead(f) = 0
    BY <2>3, LeadNone
  <2> QED BY <1>1, <1>4, <2>1, <2>4 DEF DescFirst
<1>5. ASSUME Lead(f) = 0, NEW k \in 1 .. n, fields[k] = descId, \A g \in 1 .. k - 1 : fields[g].by # "id"
      PROVE  l.id = r.id /\ \A g \in 1 .. k - 1 : ~Sort!Decides(fields[g], l, r)
  <2>1. \A j \in Positive : f[j] = 0
    BY <1>5, LeadIs
  <2>2. ASSUME NEW j \in 1 .. k PROVE j \in 1 .. n /\ FieldDiff(fields[j], l, r) = 0
    <3>1. j \in 1 .. n /\ j \in Positive /\ j <= n /\ \A g \in 1 .. j - 1 : g \in 1 .. k - 1
      BY <1>1 DEF Positive
    <3>2. ~After(fields, j)
      BY <1>5, <3>1 DEF After
    <3> QED BY <1>2, <2>1, <3>1, <3>2
  <2>3. k \in 1 .. k /\ fields[k].by = "id"
    BY <1>5
  <2>4. l.id = r.id
    BY <1>3, <2>2, <2>3
  <2>5. \A g \in 1 .. k - 1 : g \in 1 .. k
    OBVIOUS
  <2>6. \A g \in 1 .. k - 1 : ~Sort!Decides(fields[g], l, r)
    BY <1>3, <1>5, <2>2, <2>5
  <2> QED BY <2>4, <2>6
<1> QED BY <1>1, <1>4, <1>5 DEF DescFirst, f

(* The list before it is put in order is one that a query found, and it     *)
(* holds contexts.                                                          *)
SortInv ==
  /\ order \in Orders
  /\ ~done => list \in Lists
  /\ \A i \in DOMAIN list : list[i] \in Datum

(* The contexts of a list that a query found. *)
LEMMA ListIs ==
  ASSUME NEW l \in Lists
  PROVE  Len(l) \in Nat /\ DOMAIN l = 1 .. Len(l) /\ \A i \in DOMAIN l : l[i] \in Datum
<1>1. l \in Seq(Sort!Contexts)
  BY OrderAssumption DEF Sort!SortAssumption
<1>2. Len(l) \in Nat /\ DOMAIN l = 1 .. Len(l) /\ \A i \in DOMAIN l : l[i] \in Sort!Contexts
  BY <1>1, LenProperties, ElementOfSeq
<1>3. \A c \in Sort!Contexts : c \in Datum
  BY DEF Sort!Contexts, Datum, Text
<1> QED BY <1>2, <1>3

(* The values of the option: only a specific order has fields. *)
LEMMA OrderIs ==
  ASSUME NEW o \in Orders
  PROVE  \/ o.sortType \in {"Reverse", "Shuffle"} /\ o.sortFields = <<>>
         \/ o.sortType = "Specific" /\ o.sortFields \in Seq(Sort!Fields)
BY OrderAssumption DEF Sort!SortAssumption

(* The comparison of two contexts of the list. *)
Leads(a, b) == Lead(FieldsDiff(order.sortFields, list[a], list[b]))

(* The comparison is the sign of the first difference, and `comp = !comp`   *)
(* puts two that do not differ before each other.                           *)
LEMMA BeforeIs ==
  ASSUME SortInv, order.sortType = "Specific", NEW a \in DOMAIN list, NEW b \in DOMAIN list
  PROVE  /\ Leads(a, b) \in Int /\ Leads(b, a) = -Leads(a, b)
         /\ <<a, b>> \in Sort!Before <=> Leads(a, b) > 0 \/ (Leads(a, b) = 0 /\ DescFirst(order.sortFields))
         /\ Sort!Repeated(a, b) <=> Leads(a, b) = 0 /\ DescFirst(order.sortFields)
<1> DEFINE fields == order.sortFields
           l == list[a]
           r == list[b]
<1>1. l \in Datum /\ r \in Datum
  BY DEF SortInv
<1>2. fields \in Seq(Sort!Fields)
  <2>1. order.sortType \notin {"Reverse", "Shuffle"}
    OBVIOUS
  <2> QED BY <2>1, OrderIs DEF SortInv
<1>3. <<a, b>> \in Sort!Before <=> Sort!SortCallback(fields, l, r)
  BY DEF Sort!Before, Sort!Indices
<1>4. Sort!Repeated(a, b) <=> /\ l.id = r.id
                              /\ \E k \in DOMAIN fields : /\ fields[k] = [by |-> "id", direction |-> "Desc"]
                                                          /\ \A g \in 1 .. k - 1 : ~Sort!Decides(fields[g], l, r)
  BY DEF Sort!Repeated
<1>5. Leads(a, b) = Lead(FieldsDiff(fields, l, r)) /\ Leads(b, a) = Lead(FieldsDiff(fields, r, l))
  BY DEF Leads
<1> HIDE DEF fields, l, r
<1>6. Lead(FieldsDiff(fields, l, r)) \in Int /\ Lead(FieldsDiff(fields, r, l)) = -Lead(FieldsDiff(fields, l, r))
  BY <1>1, <1>2, FieldsOrder
<1>7. Sort!SortCallback(fields, l, r) <=> \/ Lead(FieldsDiff(fields, l, r)) > 0
                                          \/ Lead(FieldsDiff(fields, l, r)) = 0 /\ DescFirst(fields)
  BY <1>1, <1>2, CallbackIs
<1>8. Sort!Repeated(a, b) <=> Lead(FieldsDiff(fields, l, r)) = 0 /\ DescFirst(fields)
  BY <1>1, <1>2, <1>4, RepeatedIs
<1> QED BY <1>3, <1>5, <1>6, <1>7, <1>8 DEF fields

(* Three contexts of which no two are close. *)
LEMMA BeforeThrough ==
  ASSUME SortInv, order.sortType = "Specific", NEW i \in DOMAIN list, NEW j \in DOMAIN list, NEW k \in DOMAIN list,
         \A a, b \in {i, j, k} : ~Sort!Close(list[a].data, list[b].data)
  PROVE  Sort!Transitive(Sort!Before, i, j, k)
<1> DEFINE desc == DescFirst(order.sortFields)
           before == Sort!Before
           x == Leads(i, j)
           y == Leads(j, k)
           z == Leads(i, k)
<1>1. /\ x \in Int /\ Leads(j, i) = -x /\ y \in Int /\ Leads(k, j) = -y /\ z \in Int /\ Leads(k, i) = -z
      /\ <<i, j>> \in before <=> x > 0 \/ (x = 0 /\ desc)
      /\ <<j, k>> \in before <=> y > 0 \/ (y = 0 /\ desc)
      /\ <<i, k>> \in before <=> z > 0 \/ (z = 0 /\ desc)
      /\ <<j, i>> \in before <=> Leads(j, i) > 0 \/ (Leads(j, i) = 0 /\ desc)
      /\ <<k, j>> \in before <=> Leads(k, j) > 0 \/ (Leads(k, j) = 0 /\ desc)
      /\ <<k, i>> \in before <=> Leads(k, i) > 0 \/ (Leads(k, i) = 0 /\ desc)
  BY BeforeIs
<1>2. Through(x, y, z)
  <2>1. list[i] \in Datum /\ list[j] \in Datum /\ list[k] \in Datum
    BY DEF SortInv
  <2>2. ToldApart(list[i], list[j], list[k])
    BY DEF ToldApart
  <2>3. order.sortFields \in Seq(Sort!Fields)
    <3>1. order.sortType \notin {"Reverse", "Shuffle"}
      OBVIOUS
    <3> QED BY <3>1, OrderIs DEF SortInv
  <2> QED BY <2>1, <2>2, <2>3, FieldsOrder DEF Leads
<1> HIDE DEF x, y, z, desc, before
<1>3. /\ <<j, i>> \in before <=> -x > 0 \/ (-x = 0 /\ desc)
      /\ <<k, j>> \in before <=> -y > 0 \/ (-y = 0 /\ desc)
      /\ <<k, i>> \in before <=> -z > 0 \/ (-z = 0 /\ desc)
  BY <1>1
<1>4. ASSUME <<i, j>> \in before, <<j, k>> \in before PROVE <<i, k>> \in before
  BY <1>1, <1>2, <1>4 DEF Through
<1>5. ASSUME <<i, j>> \notin before, <<j, i>> \notin before, <<j, k>> \notin before, <<k, j>> \notin before
      PROVE  <<i, k>> \notin before /\ <<k, i>> \notin before
  <2>1. x = 0 /\ y = 0 /\ ~desc
    BY <1>1, <1>3, <1>5
  <2>2. z = 0
    BY <1>1, <1>2, <2>1 DEF Through
  <2> QED BY <1>1, <1>3, <2>1, <2>2
<1>6. Sort!Transitive(before, i, j, k)
  BY <1>4, <1>5 DEF Sort!Transitive, Sort!Tie
<1> QED BY <1>6 DEF before

(* What std::sort asks of the comparison follows from the sign of the first *)
(* difference.                                                              *)
LEMMA OrderStrict == SortInv => StrictWeakOrder
<1> SUFFICES ASSUME SortInv, order.sortType = "Specific"
             PROVE  /\ \A i, j \in DOMAIN list : {<<i, j>>, <<j, i>>} \subseteq Sort!Before <=> Sort!Repeated(i, j)
                    /\ \A i, j, k \in DOMAIN list :
                         \/ Sort!Transitive(Sort!Before, i, j, k)
                         \/ \E a, b \in {i, j, k} : Sort!Close(list[a].data, list[b].data)
  BY DEF StrictWeakOrder, Sort!StrictWeakOrder, Sort!Indices
<1>1. ASSUME NEW i \in DOMAIN list, NEW j \in DOMAIN list
      PROVE  {<<i, j>>, <<j, i>>} \subseteq Sort!Before <=> Sort!Repeated(i, j)
  <2> DEFINE x == Leads(i, j)
             desc == DescFirst(order.sortFields)
  <2>1. /\ x \in Int /\ Leads(j, i) = -x
        /\ <<i, j>> \in Sort!Before <=> x > 0 \/ (x = 0 /\ desc)
        /\ <<j, i>> \in Sort!Before <=> Leads(j, i) > 0 \/ (Leads(j, i) = 0 /\ desc)
        /\ Sort!Repeated(i, j) <=> x = 0 /\ desc
    BY BeforeIs
  <2> HIDE DEF x, desc
  <2> QED BY <2>1
<1>2. ASSUME NEW i \in DOMAIN list, NEW j \in DOMAIN list, NEW k \in DOMAIN list
      PROVE  \/ Sort!Transitive(Sort!Before, i, j, k)
             \/ \E a, b \in {i, j, k} : Sort!Close(list[a].data, list[b].data)
  BY BeforeThrough
<1> QED BY <1>1, <1>2

(* The list is one that a query found, *)
LEMMA SortInit == Sort!Init => SortInv
BY ListIs DEF Sort!Init, SortInv

(* and is rearranged, whatever the order. *)
LEMMA SortStep == SortInv /\ [Sort!Next]_(Sort!vars) => SortInv'
<1> SUFFICES ASSUME SortInv, [Sort!Next]_(Sort!vars) PROVE SortInv'
  OBVIOUS
<1>1. CASE Sort!Next
  <2>1. ~done /\ done' = TRUE /\ order' = order /\ list \in Lists
    BY <1>1 DEF Sort!Next, SortInv
  <2>2. \A i \in DOMAIN list' : list'[i] \in Datum
    <3>1. CASE Sort!Reverse
      <4>1. list' = [i \in DOMAIN list |-> list[Len(list) + 1 - i]]
        BY <3>1 DEF Sort!Reverse, Sort!Indices
      <4>2. Len(list) \in Nat /\ DOMAIN list = 1 .. Len(list)
        BY <2>1, ListIs
      <4>3. \A i \in DOMAIN list : Len(list) + 1 - i \in DOMAIN list
        BY <4>2
      <4> QED BY <4>1, <4>3 DEF SortInv
    <3>2. CASE Sort!Shuffle \/ Sort!Specific
      <4>1. PICK q \in Sort!Permutations : list' = Sort!Arranged(q)
        BY <3>2 DEF Sort!Shuffle, Sort!Specific
      <4>2. q \in [DOMAIN list -> DOMAIN list] /\ list' = [i \in DOMAIN list |-> list[q[i]]]
        BY <4>1 DEF Sort!Permutations, Sort!Arranged, Sort!Indices
      <4> QED BY <4>2 DEF SortInv
    <3> QED BY <1>1, <3>1, <3>2 DEF Sort!Next
  <2> QED BY <2>1, <2>2 DEF SortInv
<1>2. CASE UNCHANGED Sort!vars
  BY <1>2 DEF SortInv, Sort!vars
<1> QED BY <1>1, <1>2

(* For every list of contexts, contexts that are in it twice included,      *)
(* every sequence of fields and directions, and every text in which a       *)
(* number has fifteen digits and Places decimals at most: sortCallback      *)
(* gives std::sort the strict weak order it needs, except that contexts     *)
(* with one id are each before the other where DESC(id) decides, and that   *)
(* three contexts may be out of order if two of them have numbers that tie  *)
(* by EPS alone (sortCallback, str_compare_nat).                            *)
THEOREM OrderConsistent == Sort!Spec => []StrictWeakOrder
BY SortInit, SortStep, OrderStrict, PTL DEF Sort!Spec

(* A piece of a text. *)
LEMMA PieceIs ==
  ASSUME NEW s \in Text, NEW x \in 1 .. Len(s) + 1, NEW y \in 0 .. Len(s)
  PROVE  /\ SubSeq(s, x, y) \in Text
         /\ Len(SubSeq(s, x, y)) = IF x <= y THEN y - x + 1 ELSE 0
         /\ \A i \in 1 .. y - x + 1 : SubSeq(s, x, y)[i] = s[x + i - 1]
<1>1. Len(s) \in Nat /\ \A i \in 1 .. Len(s) : s[i] \in Sort!Chars
  BY TextIs DEF Sort!Chars
<1>2. x \in Int /\ y \in Int /\ \A i \in x .. y : i \in 1 .. Len(s)
  BY <1>1
<1>3. \A i \in x .. y : s[i] \in Sort!Chars
  BY <1>1, <1>2
<1> QED BY <1>2, <1>3, SubSeqProperties DEF Text

(* Where a token ends that has characters from b to e - 1. *)
LEMMA TokenEndAt ==
  ASSUME NEW s \in Text, NEW b \in 1 .. Len(s) + 1, NEW mode \in BOOLEAN, NEW e \in b .. Len(s) + 1,
         e <= Len(s) => IsDigit(s, e) = mode,
         \A i \in b .. e - 1 : IsDigit(s, i) # mode
  PROVE  Sort!TokenEnd(s, b, mode) = e
<1> DEFINE d == Sort!TokenEnd(s, b, mode)
           n == Len(s)
<1>1. /\ d \in b .. n + 1 /\ n \in Nat
      /\ d <= n => IsDigit(s, d) = mode
      /\ \A i \in b .. d - 1 : IsDigit(s, i) # mode
  BY TokenEndIs, TextIs
<1> HIDE DEF d, n
<1>2. ASSUME d < e PROVE FALSE
  <2>1. d \in b .. e - 1 /\ d <= n
    BY <1>1, <1>2 DEF n
  <2> QED BY <1>1, <2>1
<1>3. ASSUME e < d PROVE FALSE
  <2>1. e \in b .. d - 1 /\ e <= n
    BY <1>1, <1>3 DEF n
  <2> QED BY <1>1, <2>1 DEF n
<1>4. d \in Int /\ e \in Int
  BY <1>1
<1>5. d = e
  BY <1>2, <1>3, <1>4
<1> QED BY <1>5 DEF d

(* A numeral has digits at both ends and one point at most. *)
LEMMA NumeralIs ==
  ASSUME NEW s \in Text, Sort!IsNumeral(s)
  PROVE  /\ Len(s) \in Nat /\ Len(s) >= 1 /\ IsDigit(s, 1) /\ IsDigit(s, Len(s))
         /\ \A i \in 1 .. Len(s) : IsDigit(s, i) \/ s[i] = Sort!Point
         /\ \A i, j \in 1 .. Len(s) : s[i] = Sort!Point /\ s[j] = Sort!Point => i = j
<1>1. Len(s) \in Nat /\ DOMAIN s = 1 .. Len(s)
  BY TextIs
<1>2. s # <<>>
  BY DEF Sort!IsNumeral
<1>3. Len(s) # 0
  BY <1>2, EmptySeq DEF Text
<1> QED BY <1>1, <1>3 DEF Sort!IsNumeral, IsDigit

(* The tokens of a numeral begin at 1, 1 and behind its end, or with a      *)
(* point at m, at 1, 1, m, m + 1 and behind its end.                        *)
PlainBegins(s) ==
  LET b == Begins(s)
      n == Len(s)
  IN  b[0] = 1 /\ b[1] = 1 /\ b[2] = n + 1 /\ b[3] = n + 1
PointBegins(s, m) ==
  LET b == Begins(s)
      n == Len(s)
  IN  /\ 1 < m /\ m < n /\ s[m] = Sort!Point
      /\ b[0] = 1 /\ b[1] = 1 /\ b[2] = m /\ b[3] = m + 1 /\ b[4] = n + 1 /\ b[5] = n + 1

(* These are the only two cases. *)
LEMMA NumeralBegins ==
  ASSUME NEW s \in Text, Sort!IsNumeral(s)
  PROVE  PlainBegins(s) \/ \E m \in 1 .. Len(s) : PointBegins(s, m)
<1> DEFINE b == Begins(s)
           n == Len(s)
           E(x, mode) == Sort!TokenEnd(s, x, mode)
<1>1. /\ n \in Nat /\ n >= 1 /\ IsDigit(s, 1) /\ IsDigit(s, n)
      /\ \A i \in 1 .. n : IsDigit(s, i) \/ s[i] = Sort!Point
      /\ \A i, j \in 1 .. n : s[i] = Sort!Point /\ s[j] = Sort!Point => i = j
  BY NumeralIs
<1>2. ASSUME NEW i PROVE (s[i] = Sort!Point => ~IsDigit(s, i)) /\ IsDigit(s, i) \in BOOLEAN
  BY DEF IsDigit, Sort!Point, Sort!Digits
<1>3. b[0] = 1 /\ \A k \in Nat \ {0} : b[k] = E(b[k - 1], k % 2 = 1)
  BY BeginsIs
<1> HIDE DEF b
<1>4. /\ b[1] = E(b[0], TRUE) /\ b[2] = E(b[1], FALSE) /\ b[3] = E(b[2], TRUE)
      /\ b[4] = E(b[3], FALSE) /\ b[5] = E(b[4], TRUE)
  <2>1. /\ (1 % 2 = 1) = TRUE /\ (2 % 2 = 1) = FALSE /\ (3 % 2 = 1) = TRUE
        /\ (4 % 2 = 1) = FALSE /\ (5 % 2 = 1) = TRUE
    OBVIOUS
  <2>2. /\ b[1] = E(b[1 - 1], 1 % 2 = 1) /\ b[2] = E(b[2 - 1], 2 % 2 = 1) /\ b[3] = E(b[3 - 1], 3 % 2 = 1)
        /\ b[4] = E(b[4 - 1], 4 % 2 = 1) /\ b[5] = E(b[5 - 1], 5 % 2 = 1)
    BY <1>3
  <2>3. 1 - 1 = 0 /\ 2 - 1 = 1 /\ 3 - 1 = 2 /\ 4 - 1 = 3 /\ 5 - 1 = 4
    OBVIOUS
  <2> HIDE DEF E
  <2> QED BY <2>1, <2>2, <2>3
<1>5. ASSUME NEW x \in 1 .. n + 1, NEW mode \in BOOLEAN, NEW e \in x .. n + 1,
             e <= n => IsDigit(s, e) = mode, \A i \in x .. e - 1 : IsDigit(s, i) # mode
      PROVE  E(x, mode) = e
  BY <1>5, TokenEndAt
<1> HIDE DEF E, n
<1>6. b[1] = 1
  <2>1. 1 \in 1 .. n + 1 /\ TRUE \in BOOLEAN /\ IsDigit(s, 1) = TRUE /\ \A i \in 1 .. 1 - 1 : FALSE
    BY <1>1, <1>2
  <2>2. E(1, TRUE) = 1
    BY <1>5, <2>1
  <2> QED BY <1>3, <1>4, <2>2
<1>7. E(n + 1, TRUE) = n + 1
  <2>1. n + 1 \in 1 .. n + 1 /\ n + 1 \in n + 1 .. n + 1 /\ ~(n + 1 <= n) /\ \A i \in n + 1 .. (n + 1) - 1 : FALSE
    BY <1>1
  <2> QED BY <1>5, <2>1
<1> DEFINE m == b[2]
<1>8. /\ m \in 1 .. n + 1
      /\ m <= n => IsDigit(s, m) = FALSE
      /\ \A i \in 1 .. m - 1 : IsDigit(s, i) # FALSE
  <2>1. 1 \in 1 .. Len(s) + 1 /\ FALSE \in BOOLEAN
    BY <1>1 DEF n
  <2>2. b[2] = Sort!TokenEnd(s, 1, FALSE)
    BY <1>4, <1>6 DEF E
  <2> QED BY <2>1, <2>2, TokenEndIs DEF n
<1> HIDE DEF m
<1>9. CASE m = n + 1
  BY <1>3, <1>4, <1>6, <1>7, <1>9 DEF PlainBegins, m, b, n
<1>10. CASE m # n + 1
  <2>1. m \in 1 .. n /\ m <= n
    BY <1>1, <1>8, <1>10
  <2>2. ~IsDigit(s, m) /\ s[m] = Sort!Point
    BY <1>1, <1>8, <2>1
  <2>3. m # 1 /\ m # n
    BY <1>1, <2>2
  <2>4. m \in Int /\ 1 < m /\ m < n /\ m + 1 \in 1 .. n /\ m + 1 \in 1 .. n + 1
    BY <1>1, <2>1, <2>3
  <2>5. ASSUME NEW i \in m + 1 .. n PROVE IsDigit(s, i)
    <3>1. i \in 1 .. n /\ i # m
      BY <1>1, <2>4
    <3> QED BY <1>1, <2>1, <2>2, <3>1
  <2>6. b[3] = m + 1
    <3>1. m \in 1 .. n + 1 /\ m + 1 \in m .. n + 1 /\ m + 1 \in m + 1 .. n /\ \A i \in m .. (m + 1) - 1 : i = m
      BY <1>1, <2>1, <2>4
    <3>2. IsDigit(s, m + 1) = TRUE
      BY <1>2, <2>5, <3>1
    <3>3. \A i \in m .. (m + 1) - 1 : IsDigit(s, i) # TRUE
      BY <2>2, <3>1
    <3>4. E(m, TRUE) = m + 1
      BY <1>5, <3>1, <3>2, <3>3
    <3> QED BY <1>4, <3>4 DEF m
  <2>7. b[4] = n + 1
    <3>1. n + 1 \in m + 1 .. n + 1 /\ ~(n + 1 <= n) /\ \A i \in m + 1 .. (n + 1) - 1 : i \in m + 1 .. n
      BY <1>1, <2>4
    <3>2. \A i \in m + 1 .. (n + 1) - 1 : IsDigit(s, i) # FALSE
      BY <2>5, <3>1
    <3>3. E(m + 1, FALSE) = n + 1
      BY <1>5, <2>4, <3>1, <3>2
    <3> QED BY <1>4, <2>6, <3>3
  <2>8. b[5] = n + 1
    BY <1>4, <1>7, <2>7
  <2>9. PointBegins(s, m)
    BY <1>3, <1>6, <2>2, <2>4, <2>6, <2>7, <2>8 DEF PointBegins, m, b, n
  <2> QED BY <2>1, <2>9 DEF n
<1> QED BY <1>9, <1>10

(* Three tokens, of which the number is the second. *)
OneNumber(t, s) == t \in Seq(Text) /\ Len(t) = 3 /\ t[1] = <<>> /\ t[2] = s /\ t[3] = <<>>

(* The tokens of a text whose tokens are known to begin where they do. *)
LEMMA TokensAre ==
  ASSUME NEW s \in Text, NEW last \in Nat, last <= Len(s) + 1,
         Begins(s)[last] > Len(s), \A k \in 0 .. last - 1 : Begins(s)[k] <= Len(s)
  PROVE  /\ Sort!Tokenize(s) \in Seq(Text)
         /\ Len(Sort!Tokenize(s)) = last + 1
         /\ \A k \in 1 .. last + 1 : Sort!Tokenize(s)[k] = SubSeq(s, Begins(s)[k - 1], Begins(s)[k] - 1)
<1> DEFINE b == Begins(s)
           t == Sort!Tokenize(s)
<1>1. Len(s) \in Nat /\ \A k \in Nat : b[k] \in 1 .. Len(s) + 1
  BY TextIs, BeginsIs
<1>2. Sort!First(Lasts(s)) = last
  <2>1. Lasts(s) \in SUBSET Nat
    BY TokenizeIs
  <2>2. last \in Lasts(s)
    BY <1>1 DEF Lasts
  <2>3. ASSUME NEW k \in Lasts(s) PROVE last <= k
    <3>1. k \in Nat /\ b[k] > Len(s) /\ b[k] \in Int
      BY <1>1, <2>1 DEF Lasts
    <3>2. ~(b[k] <= Len(s))
      BY <1>1, <3>1
    <3>3. k \notin 0 .. last - 1
      BY <3>2
    <3> QED BY <3>1, <3>3
  <2> QED BY <2>1, <2>2, <2>3, FirstAt
<1>3. t \in Seq(Text) /\ t = [k \in 1 .. last + 1 |-> SubSeq(s, b[k - 1], b[k] - 1)]
  BY <1>2, TokenizeIs
<1> HIDE DEF t, b
<1>4. DOMAIN t = 1 .. last + 1 /\ \A k \in 1 .. last + 1 : t[k] = SubSeq(s, b[k - 1], b[k] - 1)
  BY <1>3
<1>5. Len(t) \in Nat /\ DOMAIN t = 1 .. Len(t)
  BY <1>3, LenProperties
<1>6. Len(t) = last + 1
  BY <1>4, <1>5
<1> QED BY <1>3, <1>4, <1>6 DEF t, b

(* The same for three tokens that merge_floats puts out. *)
LEMMA MergedAre ==
  ASSUME NEW t \in Seq(Text), Len(t) >= 3,
         Merges(t)[1] <= Len(t), Merges(t)[2] <= Len(t), Merges(t)[3] > Len(t)
  PROVE  /\ Sort!MergeFloats(t) \in Seq(Text)
         /\ Len(Sort!MergeFloats(t)) = 3
         /\ \A k \in 1 .. 3 : Sort!MergeFloats(t)[k] = Token(t, Merges(t)[k - 1])
<1> DEFINE a == Merges(t)
           r == Sort!MergeFloats(t)
<1>1. Len(t) \in Nat /\ a[0] = 1 /\ \A k \in Nat : a[k] \in Nat
  BY MergesIs, LenProperties
<1>2. Sort!First(Ends(t)) = 3
  <2>1. Ends(t) \in SUBSET Nat
    BY MergeFloatsIs
  <2>2. 3 \in Ends(t)
    BY <1>1 DEF Ends
  <2>3. ASSUME NEW k \in Ends(t) PROVE 3 <= k
    <3>1. k \in Nat /\ a[k] > Len(t)
      BY <2>1 DEF Ends
    <3>2. a[0] <= Len(t) /\ a[1] <= Len(t) /\ a[2] <= Len(t) /\ a[0] \in Nat /\ a[1] \in Nat /\ a[2] \in Nat
      BY <1>1
    <3> HIDE DEF a
    <3>3. k # 0 /\ k # 1 /\ k # 2
      BY <1>1, <3>1, <3>2
    <3> QED BY <3>1, <3>3
  <2> QED BY <2>1, <2>2, <2>3, FirstAt
<1>3. r \in Seq(Text) /\ r = [k \in 1 .. 3 |-> Token(t, a[k - 1])]
  BY <1>2, MergeFloatsIs
<1> HIDE DEF r, a
<1>4. DOMAIN r = 1 .. 3 /\ \A k \in 1 .. 3 : r[k] = Token(t, a[k - 1])
  BY <1>3
<1>5. Len(r) \in Nat /\ DOMAIN r = 1 .. Len(r)
  BY <1>3, LenProperties
<1>6. Len(r) = 3
  BY <1>4, <1>5
<1> QED BY <1>3, <1>4, <1>6 DEF r, a

(* tokenize_string and merge_floats make one number of a numeral. *)
LEMMA PlainTokens ==
  ASSUME NEW s \in Text, Sort!IsNumeral(s), PlainBegins(s)
  PROVE  OneNumber(Sort!MergeFloats(Sort!Tokenize(s)), s)
<1> DEFINE b == Begins(s)
           n == Len(s)
           t == Sort!Tokenize(s)
           a == Merges(t)
           r == Sort!MergeFloats(t)
<1>1. n \in Nat /\ n >= 1
  BY NumeralIs
<1>2. b[0] = 1 /\ b[1] = 1 /\ b[2] = n + 1 /\ b[3] = n + 1
  BY DEF PlainBegins
<1>3. t \in Seq(Text) /\ Len(t) = 3 /\ \A k \in 1 .. 3 : t[k] = SubSeq(s, b[k - 1], b[k] - 1)
  <2>1. 2 \in Nat /\ 2 <= n + 1 /\ b[2] > n /\ 2 + 1 = 3
    BY <1>1, <1>2
  <2>2. \A k \in 0 .. 2 - 1 : b[k] <= n
    <3>1. \A k \in 0 .. 2 - 1 : k = 0 \/ k = 1
      OBVIOUS
    <3> HIDE DEF b, n
    <3> QED BY <1>1, <1>2, <3>1
  <2> QED BY <2>1, <2>2, TokensAre
<1>4. t[1] = <<>> /\ t[2] = s /\ t[3] = <<>>
  <2>1. t[1] = SubSeq(s, b[1 - 1], b[1] - 1) /\ t[2] = SubSeq(s, b[2 - 1], b[2] - 1) /\ t[3] = SubSeq(s, b[3 - 1], b[3] - 1)
    BY <1>3
  <2>2. 1 - 1 = 0 /\ 2 - 1 = 1 /\ 3 - 1 = 2 /\ (n + 1) - 1 = n
    BY <1>1
  <2> HIDE DEF b, n, t
  <2>3. t[1] = SubSeq(s, 1, 0) /\ t[2] = SubSeq(s, 1, n) /\ t[3] = SubSeq(s, n + 1, n)
    BY <1>2, <2>1, <2>2
  <2>4. SubSeq(s, 1, 0) = <<>> /\ SubSeq(s, n + 1, n) = <<>>
    BY <1>1, SubSeqEmpty
  <2>5. SubSeq(s, 1, n) = s
    <3> DEFINE p == SubSeq(s, 1, n)
    <3>1. 1 \in 1 .. Len(s) + 1 /\ n \in 0 .. Len(s) /\ 1 <= n /\ n - 1 + 1 = n /\ \A i \in 1 .. n : 1 + i - 1 = i
      BY <1>1 DEF n
    <3>2. p \in Text /\ Len(p) = n - 1 + 1 /\ \A i \in 1 .. n - 1 + 1 : p[i] = s[1 + i - 1]
      BY <3>1, PieceIs
    <3>3. Len(p) = Len(s) /\ \A i \in 1 .. Len(p) : p[i] = s[i]
      BY <3>1, <3>2 DEF n
    <3> HIDE DEF p
    <3>4. p = s
      BY <3>2, <3>3, SeqEqual DEF Text
    <3> QED BY <3>4 DEF p
  <2> QED BY <2>3, <2>4, <2>5
<1> HIDE DEF t
<1>5. ~Sort!IsFloat(t, 1) /\ ~Sort!IsFloat(t, 2) /\ ~Sort!IsFloat(t, 3)
  BY <1>3, <1>4 DEF Sort!IsFloat
<1>6. a[0] = 1 /\ \A k \in Nat \ {0} : a[k] = a[k - 1] + (IF Sort!IsFloat(t, a[k - 1]) THEN 3 ELSE 1)
  BY MergesIs
<1> HIDE DEF a
<1>7. a[1] = 2
  <2>1. a[1] = a[1 - 1] + (IF Sort!IsFloat(t, a[1 - 1]) THEN 3 ELSE 1)
    BY <1>6
  <2> QED BY <1>5, <1>6, <2>1
<1>8. a[2] = 3
  <2>1. a[2] = a[2 - 1] + (IF Sort!IsFloat(t, a[2 - 1]) THEN 3 ELSE 1)
    BY <1>6
  <2> QED BY <1>5, <1>7, <2>1
<1>9. a[3] = 4
  <2>1. a[3] = a[3 - 1] + (IF Sort!IsFloat(t, a[3 - 1]) THEN 3 ELSE 1)
    BY <1>6
  <2> QED BY <1>5, <1>8, <2>1
<1>10. r \in Seq(Text) /\ Len(r) = 3 /\ \A k \in 1 .. 3 : r[k] = Token(t, a[k - 1])
  <2>1. Len(t) >= 3 /\ a[1] <= Len(t) /\ a[2] <= Len(t) /\ a[3] > Len(t)
    BY <1>3, <1>7, <1>8, <1>9
  <2> QED BY <1>3, <2>1, MergedAre DEF a
<1>11. r[1] = Token(t, a[1 - 1]) /\ r[2] = Token(t, a[2 - 1]) /\ r[3] = Token(t, a[3 - 1])
  BY <1>10
<1>12. r[1] = Token(t, 1) /\ r[2] = Token(t, 2) /\ r[3] = Token(t, 3)
  BY <1>6, <1>7, <1>8, <1>11
<1> QED BY <1>4, <1>5, <1>10, <1>12 DEF OneNumber, Token, t

(* With a point, three tokens are merged into the text again. *)
LEMMA PointTokens ==
  ASSUME NEW s \in Text, Sort!IsNumeral(s), NEW m \in 1 .. Len(s), PointBegins(s, m)
  PROVE  OneNumber(Sort!MergeFloats(Sort!Tokenize(s)), s)
<1> DEFINE b == Begins(s)
           n == Len(s)
           t == Sort!Tokenize(s)
           a == Merges(t)
           r == Sort!MergeFloats(t)
           p == SubSeq(s, 1, m - 1)
           o == <<Sort!Point>>
           q == SubSeq(s, m + 1, n)
<1>1. n \in Nat /\ m \in Int
  BY NumeralIs
<1>2. /\ 1 < m /\ m < n /\ s[m] = Sort!Point
      /\ b[0] = 1 /\ b[1] = 1 /\ b[2] = m /\ b[3] = m + 1 /\ b[4] = n + 1 /\ b[5] = n + 1
  BY DEF PointBegins
<1>3. t \in Seq(Text) /\ Len(t) = 5 /\ \A k \in 1 .. 5 : t[k] = SubSeq(s, b[k - 1], b[k] - 1)
  <2>1. 4 \in Nat /\ 4 <= n + 1 /\ b[4] > n /\ 4 + 1 = 5
    BY <1>1, <1>2
  <2>2. \A k \in 0 .. 4 - 1 : b[k] <= n
    <3>1. \A k \in 0 .. 4 - 1 : k = 0 \/ k = 1 \/ k = 2 \/ k = 3
      OBVIOUS
    <3>2. b[0] <= n /\ b[1] <= n /\ b[2] <= n /\ b[3] <= n
      BY <1>1, <1>2
    <3> HIDE DEF b, n
    <3> QED BY <3>1, <3>2
  <2> QED BY <2>1, <2>2, TokensAre
<1>4. /\ p \in Text /\ Len(p) = m - 1 /\ \A i \in 1 .. m - 1 : p[i] = s[i]
      /\ q \in Text /\ Len(q) = n - m /\ \A i \in 1 .. n - m : q[i] = s[m + i]
  <2> DEFINE x == m - 1
             y == m + 1
  <2>1. 1 \in 1 .. Len(s) + 1 /\ x \in 0 .. Len(s) /\ 1 <= x /\ x - 1 + 1 = m - 1 /\ \A i \in 1 .. m - 1 : 1 + i - 1 = i
    BY <1>1, <1>2
  <2>2. y \in 1 .. Len(s) + 1 /\ n \in 0 .. Len(s) /\ y <= n /\ n - y + 1 = n - m /\ \A i \in 1 .. n - m : y + i - 1 = m + i
    BY <1>1, <1>2
  <2> HIDE DEF x, y, n
  <2>3. SubSeq(s, 1, x) \in Text /\ Len(SubSeq(s, 1, x)) = x - 1 + 1 /\ \A i \in 1 .. x - 1 + 1 : SubSeq(s, 1, x)[i] = s[1 + i - 1]
    BY <2>1, PieceIs
  <2>4. SubSeq(s, y, n) \in Text /\ Len(SubSeq(s, y, n)) = n - y + 1 /\ \A i \in 1 .. n - y + 1 : SubSeq(s, y, n)[i] = s[y + i - 1]
    BY <2>2, PieceIs
  <2>5. p = SubSeq(s, 1, x) /\ q = SubSeq(s, y, n)
    BY DEF x, y
  <2> HIDE DEF p, q
  <2> QED BY <2>1, <2>2, <2>3, <2>4, <2>5
<1>5. t[1] = <<>> /\ t[2] = p /\ t[3] = o /\ t[4] = q /\ t[5] = <<>>
  <2>1. /\ t[1] = SubSeq(s, b[1 - 1], b[1] - 1) /\ t[2] = SubSeq(s, b[2 - 1], b[2] - 1) /\ t[3] = SubSeq(s, b[3 - 1], b[3] - 1)
        /\ t[4] = SubSeq(s, b[4 - 1], b[4] - 1) /\ t[5] = SubSeq(s, b[5 - 1], b[5] - 1)
    BY <1>3
  <2>2. 1 - 1 = 0 /\ 2 - 1 = 1 /\ 3 - 1 = 2 /\ 4 - 1 = 3 /\ 5 - 1 = 4 /\ (n + 1) - 1 = n /\ (m + 1) - 1 = m
    BY <1>1
  <2> HIDE DEF b, n, t
  <2>3. /\ t[1] = SubSeq(s, 1, 0) /\ t[2] = SubSeq(s, 1, m - 1) /\ t[3] = SubSeq(s, m, m)
        /\ t[4] = SubSeq(s, m + 1, n) /\ t[5] = SubSeq(s, n + 1, n)
    BY <1>2, <2>1, <2>2
  <2>4. SubSeq(s, 1, 0) = <<>> /\ SubSeq(s, n + 1, n) = <<>>
    BY <1>1, SubSeqEmpty
  <2>5. SubSeq(s, m, m) = o
    <3> DEFINE z == SubSeq(s, m, m)
    <3>1. m \in 1 .. Len(s) + 1 /\ m \in 0 .. Len(s) /\ m <= m /\ m - m + 1 = 1 /\ m + 1 - 1 = m /\ 1 \in 1 .. 1
      BY <1>1, <1>2 DEF n
    <3>2. z \in Text /\ Len(z) = m - m + 1 /\ \A i \in 1 .. m - m + 1 : z[i] = s[m + i - 1]
      BY <3>1, PieceIs
    <3>3. Len(z) = 1 /\ z[1] = Sort!Point
      BY <1>2, <3>1, <3>2
    <3>4. o \in Text /\ Len(o) = 1 /\ o[1] = Sort!Point
      BY DEF Text, Sort!Chars, Sort!Point
    <3> HIDE DEF z, o
    <3>5. \A i \in 1 .. Len(z) : z[i] = o[i]
      BY <3>3, <3>4
    <3>6. z = o
      BY <3>2, <3>3, <3>4, <3>5, SeqEqual DEF Text
    <3> QED BY <3>6 DEF z
  <2> QED BY <2>3, <2>4, <2>5 DEF n
<1>6. (p \o o) \o q = s
  <2>1. o \in Text /\ Len(o) = 1 /\ o[1] = Sort!Point
    BY DEF Text, Sort!Chars, Sort!Point
  <2>2. s \in Text /\ Len(s) = n
    OBVIOUS
  <2> HIDE DEF p, q, o, n
  <2> DEFINE u == p \o o
             w == u \o q
  <2>3. /\ u \in Text /\ Len(u) = Len(p) + Len(o)
        /\ \A i \in 1 .. Len(p) + Len(o) : u[i] = IF i <= Len(p) THEN p[i] ELSE o[i - Len(p)]
    BY <1>4, <2>1, ConcatProperties DEF Text
  <2> HIDE DEF u
  <2>4. /\ w \in Text /\ Len(w) = Len(u) + Len(q)
        /\ \A i \in 1 .. Len(u) + Len(q) : w[i] = IF i <= Len(u) THEN u[i] ELSE q[i - Len(u)]
    <3>1. u \in Seq(Sort!Chars) /\ q \in Seq(Sort!Chars)
      BY <1>4, <2>3 DEF Text
    <3>2. /\ u \o q \in Seq(Sort!Chars) /\ Len(u \o q) = Len(u) + Len(q)
          /\ \A i \in 1 .. Len(u) + Len(q) : (u \o q)[i] = IF i <= Len(u) THEN u[i] ELSE q[i - Len(u)]
      BY <3>1, ConcatProperties
    <3> QED BY <3>2 DEF Text
  <2> HIDE DEF w
  <2>5. Len(u) = m /\ Len(w) = n
    BY <1>1, <1>2, <1>4, <2>1, <2>3, <2>4
  <2>6. ASSUME NEW i \in 1 .. n PROVE w[i] = s[i]
    <3>1. i \in Int /\ w[i] = IF i <= m THEN u[i] ELSE q[i - m]
      BY <1>1, <1>2, <1>4, <2>4, <2>5
    <3>2. CASE i < m
      <4>1. i \in 1 .. m - 1 /\ i \in 1 .. m /\ i <= m - 1
        BY <1>1, <3>1, <3>2
      <4>2. u[i] = p[i]
        BY <1>4, <2>3, <2>5, <4>1
      <4> QED BY <1>4, <3>1, <4>1, <4>2
    <3>3. CASE i = m
      <4>1. u[m] = o[m - (m - 1)] /\ m - (m - 1) = 1
        <5>1. m \in 1 .. m /\ ~(m <= m - 1) /\ m - (m - 1) = 1
          BY <1>1, <1>2
        <5>2. Len(p) = m - 1 /\ Len(p) + Len(o) = m
          BY <1>4, <2>3, <2>5
        <5>3. u[m] = IF m <= Len(p) THEN p[m] ELSE o[m - Len(p)]
          BY <2>3, <5>1, <5>2
        <5> QED BY <5>1, <5>2, <5>3
      <4> QED BY <1>2, <2>1, <3>1, <3>3, <4>1
    <3>4. CASE i > m
      <4>1. i - m \in 1 .. n - m /\ m + (i - m) = i /\ ~(i <= m)
        BY <1>1, <3>1, <3>4
      <4>2. q[i - m] = s[m + (i - m)]
        BY <1>4, <4>1
      <4> QED BY <3>1, <4>1, <4>2
    <3> QED BY <1>1, <3>1, <3>2, <3>3, <3>4
  <2>7. w = s
    BY <2>2, <2>4, <2>5, <2>6, SeqEqual DEF Text
  <2> QED BY <2>7 DEF w, u
<1>7. p # <<>> /\ q # <<>>
  <2>1. Len(p) # 0 /\ Len(q) # 0
    BY <1>1, <1>2, <1>4
  <2> HIDE DEF p, q
  <2>2. Len(<<>>) = 0
    OBVIOUS
  <2> QED BY <2>1, <2>2
<1> HIDE DEF t, p, q
<1>8. ~Sort!IsFloat(t, 1) /\ Sort!IsFloat(t, 2) /\ ~Sort!IsFloat(t, 5)
  BY <1>3, <1>5, <1>7 DEF Sort!IsFloat
<1>9. a[0] = 1 /\ \A k \in Nat \ {0} : a[k] = a[k - 1] + (IF Sort!IsFloat(t, a[k - 1]) THEN 3 ELSE 1)
  BY MergesIs
<1> HIDE DEF a
<1>10. a[1] = 2
  <2>1. a[1] = a[1 - 1] + (IF Sort!IsFloat(t, a[1 - 1]) THEN 3 ELSE 1)
    BY <1>9
  <2> QED BY <1>8, <1>9, <2>1
<1>11. a[2] = 5
  <2>1. a[2] = a[2 - 1] + (IF Sort!IsFloat(t, a[2 - 1]) THEN 3 ELSE 1)
    BY <1>9
  <2> QED BY <1>8, <1>10, <2>1
<1>12. a[3] = 6
  <2>1. a[3] = a[3 - 1] + (IF Sort!IsFloat(t, a[3 - 1]) THEN 3 ELSE 1)
    BY <1>9
  <2> QED BY <1>8, <1>11, <2>1
<1>13. r \in Seq(Text) /\ Len(r) = 3 /\ \A k \in 1 .. 3 : r[k] = Token(t, a[k - 1])
  <2>1. Len(t) >= 3 /\ a[1] <= Len(t) /\ a[2] <= Len(t) /\ a[3] > Len(t)
    BY <1>3, <1>10, <1>11, <1>12
  <2> QED BY <1>3, <2>1, MergedAre DEF a
<1>14. r[1] = Token(t, a[1 - 1]) /\ r[2] = Token(t, a[2 - 1]) /\ r[3] = Token(t, a[3 - 1])
  BY <1>13
<1>15. r[1] = Token(t, 1) /\ r[2] = Token(t, 2) /\ r[3] = Token(t, 5)
  BY <1>9, <1>10, <1>11, <1>14
<1>16. Token(t, 2) = (t[2] \o t[3]) \o t[4]
  <2>1. Token(t, 2) = t[2] \o t[2 + 1] \o t[2 + 2]
    BY <1>8 DEF Token
  <2>2. 2 + 1 = 3 /\ 2 + 2 = 4
    OBVIOUS
  <2> QED BY <2>1, <2>2
<1>17. Token(t, 1) = <<>> /\ Token(t, 5) = <<>>
  BY <1>5, <1>8 DEF Token
<1>18. Token(t, 2) = s
  BY <1>5, <1>6, <1>16
<1> QED BY <1>13, <1>15, <1>17, <1>18 DEF OneNumber, t

(* So a numeral is compared as one number. *)
LEMMA NumeralTokens ==
  ASSUME NEW s \in Text, Sort!IsNumeral(s)
  PROVE  OneNumber(Sort!MergeFloats(Sort!Tokenize(s)), s)
BY NumeralBegins, PlainTokens, PointTokens

(* str_compare_nat tells which of two numerals is the smaller number. *)
LEMMA NumeralsCompare ==
  ASSUME NEW s \in Text, NEW t \in Text, Sort!IsNumeral(s), Sort!IsNumeral(t)
  PROVE  Sort!StrCompareNat(s, t) > 0 <=> Sort!Number(s) + Eps <= Sort!Number(t)
<1> DEFINE a == Sort!MergeFloats(Sort!Tokenize(s))
           b == Sort!MergeFloats(Sort!Tokenize(t))
           f == TokensDiff(a, b)
           x == Sort!Number(s)
           y == Sort!Number(t)
           c == Sort!CompareToken(2, s, t)
<1>1. OneNumber(a, s) /\ OneNumber(b, t)
  BY NumeralTokens
<1>2. Sort!StrCompareNat(s, t) = Sort!CompareTokens(a, b)
  BY DEF Sort!StrCompareNat, Sort!Tokens
<1> HIDE DEF a, b
<1>3. Sort!CompareTokens(a, b) = Lead(f)
  BY <1>1, CompareTokensIs DEF OneNumber
<1>4. ASSUME NEW i \in Positive PROVE f[i] = IF i = 2 THEN c ELSE 0
  <2>1. /\ Len(a) = 3 /\ a[1] = <<>> /\ a[2] = s /\ a[3] = <<>>
        /\ Len(b) = 3 /\ b[1] = <<>> /\ b[2] = t /\ b[3] = <<>>
    BY <1>1 DEF OneNumber
  <2>2. f[i] = IF i <= 3 THEN Sort!CompareToken(i, a[i], b[i]) ELSE 0
    BY <2>1 DEF TokensDiff
  <2>3. Sort!CompareToken(i, <<>>, <<>>) = 0
    BY DEF Sort!CompareToken
  <2>4. i <= 3 => i = 1 \/ i = 2 \/ i = 3
    BY DEF Positive
  <2> HIDE DEF f, c
  <2> QED BY <2>1, <2>2, <2>3, <2>4 DEF c
<1>5. x \in Int /\ y \in Int
  BY NumberInt
<1>6. c = IF Rounded(y - x) > 0 THEN 1 ELSE IF Rounded(y - x) < 0 THEN -1 ELSE 0
  <2>1. s # <<>> /\ t # <<>>
    BY DEF Sort!IsNumeral
  <2>2. Apart(2, s, t) = Rounded(y - x)
    <3>1. 2 % 2 = 0
      OBVIOUS
    <3> QED BY <3>1 DEF Apart
  <2> QED BY <2>1, <2>2, CompareTokenIs
<1> HIDE DEF f, c, x, y
<1>7. Lead(f) = c
  <2>1. 2 \in Positive /\ f[2] = c /\ \A i \in Positive : i < 2 => f[i] = 0
    <3>1. 2 \in Positive /\ \A i \in Positive : i < 2 => i # 2
      BY DEF Positive
    <3> QED BY <1>4, <3>1
  <2>2. CASE c = 0
    <3>1. \A i \in Positive : f[i] = 0
      BY <1>4, <2>2
    <3> QED BY <2>2, <3>1, LeadNone
  <2>3. CASE c # 0
    BY <2>1, <2>3, LeadAt
  <2> QED BY <2>2, <2>3
<1>8. c > 0 <=> x + Eps <= y
  <2>1. y - x \in Int
    BY <1>5
  <2>2. Rounded(y - x) \in Int /\ (Rounded(y - x) > 0 <=> Eps <= y - x)
    BY <2>1, RoundedIs
  <2>3. c > 0 <=> Rounded(y - x) > 0
    BY <1>6, <2>2
  <2>4. Eps <= y - x <=> x + Eps <= y
    BY <1>5, EpsIs
  <2> QED BY <2>2, <2>3, <2>4
<1> QED BY <1>2, <1>3, <1>7, <1>8 DEF x, y, f

(* With one ascending field sortCallback is str_compare_nat. *)
LEMMA OneField ==
  ASSUME NEW l, NEW r
  PROVE  LET fields == <<[by |-> "data", direction |-> "Asc"]>>
         IN  Sort!SortCallback(fields, l, r) <=> Sort!StrCompareNat(l.data, r.data) # 0 /\ Sort!StrCompareNat(l.data, r.data) > 0
<1> DEFINE field == [by |-> "data", direction |-> "Asc"]
           fields == <<field>>
           D == {i \in DOMAIN fields : Sort!Decides(fields[i], l, r)}
           c == Sort!StrCompareNat(l.data, r.data)
<1>1. Sort!SortCallback(fields, l, r) <=> (D # {} /\ Sort!Comp(fields[Sort!First(D)], l, r))
  BY DEF Sort!SortCallback
<1>2. DOMAIN fields = {1} /\ fields[1] = field
  OBVIOUS
<1>3. Sort!Decides(field, l, r) <=> c # 0
  BY DEF Sort!Decides
<1>4. Sort!Comp(field, l, r) <=> c > 0
  <2>1. Sort!Less(field, l, r) = (c > 0)
    BY DEF Sort!Less
  <2>2. (field.direction = "Desc") = FALSE
    OBVIOUS
  <2>3. (c > 0) \in BOOLEAN
    OBVIOUS
  <2> QED BY <2>1, <2>2, <2>3 DEF Sort!Comp
<1> HIDE DEF field, fields, c
<1>5. CASE c = 0
  <2>1. D = {}
    BY <1>2, <1>3, <1>5
  <2> QED BY <1>1, <1>5, <2>1 DEF fields, field, c
<1>6. CASE c # 0
  <2>1. D = {1}
    BY <1>2, <1>3, <1>6
  <2>2. Sort!First({1}) = 1
    <3>1. {1} \in SUBSET Nat /\ 1 \in {1} /\ \A j \in {1} : 1 <= j
      OBVIOUS
    <3> QED BY <3>1, FirstAt
  <2>3. D # {} /\ Sort!First(D) = 1
    BY <2>1, <2>2
  <2> HIDE DEF D
  <2> QED BY <1>1, <1>2, <1>4, <1>6, <2>3 DEF fields, field, c
<1> QED BY <1>5, <1>6

(* One ascending field. *)
ByData == order.sortFields = <<[by |-> "data", direction |-> "Asc"]>>

(* Numerals of the list are compared by value. *)
LEMMA NumeralsBefore ==
  ASSUME ByData, NEW i \in DOMAIN list, NEW j \in DOMAIN list, list[i] \in Datum, list[j] \in Datum,
         Sort!IsNumeral(list[i].data), Sort!IsNumeral(list[j].data)
  PROVE  <<i, j>> \in Sort!Before <=> Sort!Number(list[i].data) + Eps <= Sort!Number(list[j].data)
<1> DEFINE l == list[i]
           r == list[j]
           c == Sort!StrCompareNat(l.data, r.data)
<1>1. <<i, j>> \in Sort!Before <=> Sort!SortCallback(<<[by |-> "data", direction |-> "Asc"]>>, l, r)
  BY DEF Sort!Before, Sort!Indices, ByData
<1>2. l.data \in Text /\ r.data \in Text /\ Sort!IsNumeral(l.data) /\ Sort!IsNumeral(r.data)
  BY DEF Datum
<1> HIDE DEF l, r
<1>3. Sort!SortCallback(<<[by |-> "data", direction |-> "Asc"]>>, l, r) <=> c # 0 /\ c > 0
  BY OneField
<1>4. c \in Int /\ (c > 0 <=> Sort!Number(l.data) + Eps <= Sort!Number(r.data))
  BY <1>2, NumeralsCompare, StrCompareNatOrder
<1> HIDE DEF c
<1>5. c > 0 => c # 0
  BY <1>4
<1> QED BY <1>1, <1>3, <1>4, <1>5 DEF l, r

(* What std::sort needs of a comparison of the indices in I. *)
Orderly(I, before) ==
  /\ \A i, j \in I : i # j => ~({<<i, j>>, <<j, i>>} \subseteq before)
  /\ \A i, j, k \in I : Sort!Transitive(before, i, j, k)

(* A comparison that is orderly after a rearrangement was so before. *)
LEMMA OrderlyBack ==
  ASSUME NEW I, NEW q \in [I -> I], \A a \in I : \E i \in I : q[i] = a, NEW before, NEW after,
         \A i, j \in I : <<i, j>> \in after <=> <<q[i], q[j]>> \in before, Orderly(I, after)
  PROVE  Orderly(I, before)
<1>1. ASSUME NEW a \in I, NEW b \in I, a # b PROVE ~({<<a, b>>, <<b, a>>} \subseteq before)
  <2>1. PICK i \in I : q[i] = a
    OBVIOUS
  <2>2. PICK j \in I : q[j] = b
    OBVIOUS
  <2>3. i # j /\ (<<i, j>> \in after <=> <<a, b>> \in before) /\ (<<j, i>> \in after <=> <<b, a>> \in before)
    BY <1>1, <2>1, <2>2
  <2>4. ~({<<i, j>>, <<j, i>>} \subseteq after)
    BY <2>3 DEF Orderly
  <2> QED BY <2>3, <2>4
<1>2. ASSUME NEW a \in I, NEW b \in I, NEW c \in I PROVE Sort!Transitive(before, a, b, c)
  <2>1. PICK i \in I : q[i] = a
    OBVIOUS
  <2>2. PICK j \in I : q[j] = b
    OBVIOUS
  <2>3. PICK k \in I : q[k] = c
    OBVIOUS
  <2>4. /\ (<<i, j>> \in after <=> <<a, b>> \in before) /\ (<<j, i>> \in after <=> <<b, a>> \in before)
        /\ (<<j, k>> \in after <=> <<b, c>> \in before) /\ (<<k, j>> \in after <=> <<c, b>> \in before)
        /\ (<<i, k>> \in after <=> <<a, c>> \in before) /\ (<<k, i>> \in after <=> <<c, a>> \in before)
    BY <2>1, <2>2, <2>3
  <2>5. Sort!Transitive(after, i, j, k)
    BY DEF Orderly
  <2>6. /\ <<i, j>> \in after /\ <<j, k>> \in after => <<i, k>> \in after
        /\ <<i, j>> \notin after /\ <<j, i>> \notin after /\ <<j, k>> \notin after /\ <<k, j>> \notin after
             => <<i, k>> \notin after /\ <<k, i>> \notin after
    BY <2>5 DEF Sort!Transitive, Sort!Tie
  <2>7. /\ <<a, b>> \in before /\ <<b, c>> \in before => <<a, c>> \in before
        /\ <<a, b>> \notin before /\ <<b, a>> \notin before /\ <<b, c>> \notin before /\ <<c, b>> \notin before
             => <<a, c>> \notin before /\ <<c, a>> \notin before
    BY <2>4, <2>6
  <2> QED BY <2>7 DEF Sort!Transitive, Sort!Tie
<1> QED BY <1>1, <1>2 DEF Orderly

(* The numerals of a list that was sorted are in the order of their values. *)
Settled ==
  done /\ ByData /\ Orderly(DOMAIN list, Sort!Before) =>
    \A i, j \in DOMAIN list :
      i < j /\ Sort!IsNumeral(list[i].data) /\ Sort!IsNumeral(list[j].data)
        => ~(Sort!Number(list[j].data) + Eps <= Sort!Number(list[i].data))

(* std::sort leaves nothing in front that the comparison puts behind. *)
LEMMA NumeralsStep == SortInv /\ Settled /\ [Sort!Next]_(Sort!vars) => Settled'
<1> SUFFICES ASSUME SortInv, Settled, [Sort!Next]_(Sort!vars) PROVE Settled'
  OBVIOUS
<1>1. CASE Sort!Next
  <2> SUFFICES ASSUME ByData, Orderly(DOMAIN list', Sort!Before'),
                      NEW i \in DOMAIN list', NEW j \in DOMAIN list', i < j,
                      Sort!IsNumeral(list'[i].data), Sort!IsNumeral(list'[j].data),
                      Sort!Number(list'[j].data) + Eps <= Sort!Number(list'[i].data)
               PROVE  FALSE
    <3>1. order' = order
      BY <1>1 DEF Sort!Next
    <3> QED BY <3>1 DEF Settled, ByData
  <2>1. order' = order /\ ~done /\ order \in Orders /\ list \in Lists
    BY <1>1 DEF Sort!Next, SortInv
  <2>2. Sort!Specific
    <3>1. <<[by |-> "data", direction |-> "Asc"]>> # <<>>
      OBVIOUS
    <3>2. order.sortType = "Specific"
      BY <2>1, <3>1, OrderIs DEF ByData
    <3> QED BY <1>1, <3>2 DEF Sort!Next, Sort!Reverse, Sort!Shuffle
  <2> DEFINE I == DOMAIN list
             before == Sort!Before
             sorted(q) == \A a, b \in I : a < b => <<q[b], q[a]>> \notin before
  <2>3. PICK q \in Sort!Permutations : list' = Sort!Arranged(q) /\ (Sort!Consistent(before) => sorted(q))
    BY <2>2 DEF Sort!Specific, Sort!Indices
  <2>4. q \in [I -> I] /\ (\A a \in I : \E b \in I : q[b] = a) /\ list' = [a \in I |-> list[q[a]]]
    BY <2>3 DEF Sort!Permutations, Sort!Arranged, Sort!Indices
  <2>5. DOMAIN list' = I /\ (\A a \in I : list'[a] = list[q[a]] /\ q[a] \in I)
    BY <2>4
  <2>6. \A a, b \in I : <<a, b>> \in Sort!Before' <=> <<q[a], q[b]>> \in before
    BY <2>1, <2>5 DEF Sort!Before, Sort!Indices
  <2>7. Orderly(I, before)
    <3> DEFINE after == Sort!Before'
    <3>1. Orderly(I, after) /\ \A a, b \in I : <<a, b>> \in after <=> <<q[a], q[b]>> \in before
      BY <2>5, <2>6
    <3> HIDE DEF I, before, after
    <3> QED BY <2>4, <3>1, OrderlyBack
  <2>8. Sort!Consistent(before)
    BY <2>7 DEF Orderly, Sort!Consistent, Sort!Indices
  <2>9. i \in I /\ j \in I /\ <<q[j], q[i]>> \notin before
    BY <2>3, <2>5, <2>8
  <2>10. list'[i] = list[q[i]] /\ list'[j] = list[q[j]] /\ q[i] \in I /\ q[j] \in I
    BY <2>5, <2>9
  <2>11. list[q[i]] \in Datum /\ list[q[j]] \in Datum
    BY <2>10 DEF SortInv
  <2> HIDE DEF before
  <2>12. /\ Sort!IsNumeral(list[q[i]].data) /\ Sort!IsNumeral(list[q[j]].data)
         /\ Sort!Number(list[q[j]].data) + Eps <= Sort!Number(list[q[i]].data)
    BY <2>10
  <2>13. <<q[j], q[i]>> \in before
    BY <2>10, <2>11, <2>12, NumeralsBefore DEF before
  <2> QED BY <2>9, <2>13
<1>2. CASE UNCHANGED Sort!vars
  BY <1>2 DEF Sort!vars, Settled, ByData, Sort!Before, Sort!Indices
<1> QED BY <1>1, <1>2

(* A list of contexts that is settled has its numerals by value. *)
LEMMA NumeralsAre == SortInv /\ Settled => NumeralsByValue
<1> SUFFICES ASSUME SortInv, Settled, ByData PROVE NumeralsByValue
  BY DEF ByData, NumeralsByValue, Sort!NumeralsByValue
<1>1. ASSUME NEW i \in Sort!Numerals, NEW j \in Sort!Numerals
      PROVE  /\ <<i, j>> \in Sort!Before <=> Sort!Value(i) + Eps <= Sort!Value(j)
             /\ done /\ Sort!Consistent(Sort!Before) /\ i < j => Sort!Value(i) < Sort!Value(j) + Eps
  <2>1. i \in DOMAIN list /\ j \in DOMAIN list /\ Sort!IsNumeral(list[i].data) /\ Sort!IsNumeral(list[j].data)
    BY DEF Sort!Numerals, Sort!Indices
  <2>2. list[i] \in Datum /\ list[j] \in Datum
    BY <2>1 DEF SortInv
  <2>3. <<i, j>> \in Sort!Before <=> Sort!Value(i) + Eps <= Sort!Value(j)
    BY <2>1, <2>2, NumeralsBefore DEF Sort!Value
  <2>4. Sort!Value(i) \in Int /\ Sort!Value(j) \in Int
    <3>1. list[i].data \in Text /\ list[j].data \in Text
      BY <2>2 DEF Datum
    <3> QED BY <3>1, NumberInt DEF Sort!Value
  <2>5. ASSUME done, Sort!Consistent(Sort!Before), i < j PROVE Sort!Value(i) < Sort!Value(j) + Eps
    <3>1. Orderly(DOMAIN list, Sort!Before)
      BY <2>5 DEF Orderly, Sort!Consistent, Sort!Indices
    <3>2. ~(Sort!Value(j) + Eps <= Sort!Value(i))
      BY <2>1, <2>5, <3>1 DEF Settled, Sort!Value
    <3> DEFINE x == Sort!Value(i)
               y == Sort!Value(j)
    <3>3. x \in Int /\ y \in Int /\ ~(y + Eps <= x)
      BY <2>4, <3>2
    <3> HIDE DEF x, y
    <3>4. x < y + Eps
      BY <3>3, EpsIs
    <3> QED BY <3>4 DEF x, y
  <2> QED BY <2>3, <2>5
<1> QED BY <1>1 DEF NumeralsByValue, Sort!NumeralsByValue

(* With one ascending field, texts that are numerals are before each other  *)
(* exactly if their values are EPS or more apart, and after the sort they   *)
(* stand in the order of their values up to EPS, for all numerals of up to  *)
(* fifteen digits and Places decimals, of equal or different lengths,       *)
(* whatever other texts are in the list, unless the comparison of the list  *)
(* was not the one std::sort needs (tokenize_string, merge_floats,          *)
(* str_compare_nat).                                                        *)
THEOREM NumeralsOrdered == Sort!Spec => []NumeralsByValue
<1>1. Sort!Init => Settled
  BY DEF Sort!Init, Settled
<1> QED BY <1>1, SortInit, SortStep, NumeralsStep, NumeralsAre, PTL DEF Sort!Spec
=============================================================================
