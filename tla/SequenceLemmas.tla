--------------------------- MODULE SequenceLemmas ---------------------------
(* Lemmas about numbers and sequences that the proofs of several           *)
(* components need.                                                        *)
EXTENDS Integers, Sequences, Loops, SequenceTheorems, FiniteSetTheorems,
        WellFoundedInduction, TLAPS

Less == {ss \in Nat \X Nat : ss[1] < ss[2]}

LEMMA LessWellFounded == IsWellFoundedOn(Less, Nat)
<1>1. IsWellFoundedOn(OpToRel(<, Nat), Nat)
  BY NatLessThanWellFounded
<1> QED BY <1>1 DEF OpToRel, Less

(* A set of numbers that is not empty has a least.                         *)
LEMMA HasLeast ==
  ASSUME NEW T \in SUBSET Nat, T # {}
  PROVE  \E x \in T : \A y \in T : x <= y
<1>1. \E x \in T : \A y \in T : ~(<<y, x>> \in Less)
  BY LessWellFounded, WFMin
<1>2. \A x, y \in T : ~(<<y, x>> \in Less) => x <= y
  <2>1. \A x \in T : x \in Nat
    OBVIOUS
  <2> QED BY <2>1 DEF Less
<1> QED BY <1>1, <1>2

(* Induction: a set of numbers that has zero, and with each number the     *)
(* next, has them all.                                                     *)
LEMMA AllNumbers ==
  ASSUME NEW S \in SUBSET Nat, 0 \in S, \A n \in S : n + 1 \in S
  PROVE  S = Nat
<1> SUFFICES ASSUME S # Nat PROVE FALSE
  OBVIOUS
<1>1. PICK x \in Nat \ S : \A y \in Nat \ S : x <= y
  BY HasLeast
<1>2. x # 0 /\ x - 1 \in Nat
  BY <1>1
<1>3. x - 1 \in S
  BY <1>1, <1>2
<1> QED BY <1>1, <1>3

-----------------------------------------------------------------------------
(* What Filter keeps.                                                      *)

(* What the recursive function of Filter is: by induction it exists.       *)
LEMMA KeptIs ==
  ASSUME NEW S, NEW T, NEW s \in Seq(T)
  PROVE  LET K == KeptSofar(s, S) IN
         /\ K[0] = << >>
         /\ \A i \in 1..Len(s) : K[i] = Keep(K[i - 1], s[i], S)
<1> DEFINE n == Len(s)
           K == KeptSofar(s, S)
           first == << >>
<1>1. n \in Nat
  BY LenProperties
<1> HIDE DEF first, n, K
<1>2. \E g : g = [i \in 0..n |-> IF i = 0 THEN first ELSE Keep(g[i - 1], s[i], S)]
  <2> DEFINE Step(g, i) == IF i = 0 THEN first ELSE Keep(g[i - 1], s[i], S)
             Has(k) == \E g : g = [i \in 0..k |-> Step(g, i)]
             N == {k \in Nat : Has(k)}
  <2>1. 0 \in N
    <3>1. [i \in 0..0 |-> first] = [i \in 0..0 |-> Step([j \in 0..0 |-> first], i)]
      OBVIOUS
    <3> QED BY <3>1
  <2>2. ASSUME NEW k \in N PROVE k + 1 \in N
    <3>1. PICK g : g = [i \in 0..k |-> Step(g, i)]
      OBVIOUS
    <3> DEFINE h == [i \in 0..(k + 1) |-> IF i = k + 1 THEN Keep(g[k], s[k + 1], S) ELSE g[i]]
    <3>2. \A i \in 0..(k + 1) : h[i] = Step(h, i)
      <4> SUFFICES ASSUME NEW i \in 0..(k + 1) PROVE h[i] = Step(h, i)
        OBVIOUS
      <4>1. ASSUME NEW j \in 0..k PROVE h[j] = g[j] /\ g[j] = Step(g, j)
        <5>1. j \in 0..(k + 1) /\ j # k + 1
          OBVIOUS
        <5>2. h[j] = g[j]
          BY <5>1
        <5> HIDE DEF Step, h
        <5>3. g[j] = Step(g, j)
          BY <3>1
        <5> QED BY <5>2, <5>3
      <4>2. h[k + 1] = Keep(g[k], s[k + 1], S)
        OBVIOUS
      <4>3. k \in Nat
        OBVIOUS
      <4> HIDE DEF h
      <4>4. CASE i = k + 1
        <5>0. k \in 0..k /\ k + 1 # 0 /\ k + 1 - 1 = k
          BY <4>3
        <5>1. i # 0 /\ i - 1 = k /\ h[k] = g[k]
          BY <4>1, <4>4, <5>0
        <5> QED BY <4>2, <4>4, <5>1
      <4>5. CASE i \in 1..k
        <5>1. i # 0 /\ h[i - 1] = g[i - 1] /\ h[i] = g[i] /\ g[i] = Step(g, i)
          BY <4>1, <4>3, <4>5
        <5> QED BY <5>1
      <4>6. CASE i = 0
        BY <4>1, <4>3, <4>6
      <4> QED BY <4>3, <4>4, <4>5, <4>6
    <3>3. h = [i \in 0..(k + 1) |-> Step(h, i)]
      BY <3>2
    <3> HIDE DEF h
    <3>4. Has(k + 1) /\ k + 1 \in Nat
      BY <3>3
    <3> QED BY <3>4
  <2>3. N = Nat
    BY <2>1, <2>2, AllNumbers
  <2> QED BY <1>1, <2>3
<1>3. K = [i \in 0..n |-> IF i = 0 THEN first ELSE Keep(K[i - 1], s[i], S)]
  <2>1. KeptSofar(s, S) =
          CHOOSE g : g = [i \in 0..n |-> IF i = 0 THEN first ELSE Keep(g[i - 1], s[i], S)]
    BY DEF KeptSofar, first, n
  <2> QED BY <1>2, <2>1 DEF K
<1>4. K[0] = first
  BY <1>1, <1>3
<1>5. \A i \in 1..n : K[i] = Keep(K[i - 1], s[i], S)
  BY <1>1, <1>3
<1> QED BY <1>4, <1>5 DEF K, first, n

(* What is kept of a beginning does not depend on what follows.            *)
LEMMA KeptOfPrefix ==
  ASSUME NEW S, NEW T, NEW s \in Seq(T), NEW t \in Seq(T), NEW n \in Nat,
         n <= Len(s), n <= Len(t), \A i \in 1..n : s[i] = t[i]
  PROVE  KeptSofar(s, S)[n] = KeptSofar(t, S)[n]
<1> DEFINE K == KeptSofar(s, S)
           L == KeptSofar(t, S)
           N == {k \in Nat : k <= n => K[k] = L[k]}
<1>1. /\ K[0] = << >> /\ L[0] = << >> /\ Len(s) \in Nat /\ Len(t) \in Nat
      /\ \A i \in 1..Len(s) : K[i] = Keep(K[i - 1], s[i], S)
      /\ \A i \in 1..Len(t) : L[i] = Keep(L[i - 1], t[i], S)
  BY KeptIs, LenProperties
<1> HIDE DEF K, L
<1>2. 0 \in N
  BY <1>1
<1>3. ASSUME NEW k \in N PROVE k + 1 \in N
  <2> SUFFICES ASSUME k + 1 <= n PROVE K[k + 1] = L[k + 1]
    OBVIOUS
  <2>1. k \in Nat /\ k + 1 \in 1..n /\ k + 1 \in 1..Len(s) /\ k + 1 \in 1..Len(t)
        /\ k + 1 - 1 = k /\ K[k] = L[k]
    BY <1>1
  <2>2. /\ K[k + 1] = Keep(K[k], s[k + 1], S)
        /\ L[k + 1] = Keep(L[k], t[k + 1], S)
        /\ s[k + 1] = t[k + 1]
    BY <1>1, <2>1
  <2> QED BY <2>1, <2>2
<1>4. N = Nat
  BY <1>2, <1>3, AllNumbers
<1> QED BY <1>4 DEF K, L

LEMMA FilterEmpty ==
  ASSUME NEW S
  PROVE  Filter(<< >>, S) = << >>
<1>1. << >> \in Seq({}) /\ Len(<< >>) = 0
  BY EmptySeq
<1>2. KeptSofar(<< >>, S)[0] = << >>
  BY <1>1, KeptIs
<1> QED BY <1>1, <1>2 DEF Filter

LEMMA FilterAppend ==
  ASSUME NEW S, NEW T, NEW s \in Seq(T), NEW e \in T
  PROVE  Filter(Append(s, e), S) = Keep(Filter(s, S), e, S)
<1> DEFINE t == Append(s, e)
           n == Len(s)
<1>1. /\ t \in Seq(T) /\ Len(t) = n + 1 /\ n \in Nat
      /\ \A i \in 1..n : t[i] = s[i]
      /\ t[n + 1] = e
  BY AppendProperties, LenProperties
<1> HIDE DEF t
<1>2. KeptSofar(s, S)[n] = KeptSofar(t, S)[n]
  BY <1>1, KeptOfPrefix
<1>3. \A i \in 1..Len(t) : KeptSofar(t, S)[i] = Keep(KeptSofar(t, S)[i - 1], t[i], S)
  BY <1>1, KeptIs
<1>4. n + 1 \in 1..Len(t) /\ n + 1 - 1 = n
  BY <1>1
<1>5. KeptSofar(t, S)[n + 1] = Keep(KeptSofar(t, S)[n], e, S)
  BY <1>1, <1>3, <1>4
<1> QED BY <1>1, <1>2, <1>5 DEF Filter, t

(* Where each kept element was: at all the places of elements of S, in     *)
(* their order.                                                            *)
KeptFrom(s, S, n, F, m) ==
  \E p \in [1..m -> 1..n] :
    /\ \A i \in 1..m : F[i] = s[p[i]] /\ s[p[i]] \in S
    /\ \A i, j \in 1..m : i < j => p[i] < p[j]
    /\ \A k \in 1..n : s[k] \in S => \E i \in 1..m : p[i] = k

LEMMA KeptOneMore ==
  ASSUME NEW s, NEW S, NEW k \in Nat, NEW F, NEW G, NEW m \in Nat,
         KeptFrom(s, S, k, F, m), s[k + 1] \in S,
         \A i \in 1..m : G[i] = F[i], G[m + 1] = s[k + 1]
  PROVE  KeptFrom(s, S, k + 1, G, m + 1)
<1>1. PICK p \in [1..m -> 1..k] :
        /\ \A i \in 1..m : F[i] = s[p[i]] /\ s[p[i]] \in S
        /\ \A i, j \in 1..m : i < j => p[i] < p[j]
        /\ \A x \in 1..k : s[x] \in S => \E i \in 1..m : p[i] = x
  BY DEF KeptFrom
<1> DEFINE q == [i \in 1..(m + 1) |-> IF i = m + 1 THEN k + 1 ELSE p[i]]
<1>2. q \in [1..(m + 1) -> 1..(k + 1)]
  BY <1>1
<1>3. q[m + 1] = k + 1 /\ \A i \in 1..m : q[i] = p[i] /\ p[i] \in 1..k
  BY <1>1
<1> HIDE DEF q
<1>4. \A i \in 1..(m + 1) : G[i] = s[q[i]] /\ s[q[i]] \in S
  <2> SUFFICES ASSUME NEW i \in 1..(m + 1) PROVE G[i] = s[q[i]] /\ s[q[i]] \in S
    OBVIOUS
  <2>1. i = m + 1 \/ i \in 1..m
    OBVIOUS
  <2> QED BY <2>1, <1>1, <1>3
<1>5. \A i, j \in 1..(m + 1) : i < j => q[i] < q[j]
  <2> SUFFICES ASSUME NEW i \in 1..(m + 1), NEW j \in 1..(m + 1), i < j
               PROVE  q[i] < q[j]
    OBVIOUS
  <2>1. i \in 1..m /\ (j = m + 1 \/ j \in 1..m)
    OBVIOUS
  <2>2. p[i] < k + 1
    BY <1>3, <2>1
  <2> QED BY <2>1, <2>2, <1>1, <1>3
<1>6. \A x \in 1..(k + 1) : s[x] \in S => \E i \in 1..(m + 1) : q[i] = x
  <2> SUFFICES ASSUME NEW x \in 1..(k + 1), s[x] \in S
               PROVE  \E i \in 1..(m + 1) : q[i] = x
    OBVIOUS
  <2>1. CASE x = k + 1
    BY <2>1, <1>3
  <2>2. CASE x \in 1..k
    <3>1. PICK i \in 1..m : p[i] = x
      BY <1>1, <2>2
    <3>2. i \in 1..(m + 1) /\ q[i] = x
      BY <3>1, <1>3
    <3> QED BY <3>2
  <2> QED BY <2>1, <2>2
<1> QED BY <1>2, <1>4, <1>5, <1>6 DEF KeptFrom

LEMMA KeptNoMore ==
  ASSUME NEW s, NEW S, NEW k \in Nat, NEW F, NEW m \in Nat,
         KeptFrom(s, S, k, F, m), s[k + 1] \notin S
  PROVE  KeptFrom(s, S, k + 1, F, m)
<1>1. PICK p \in [1..m -> 1..k] :
        /\ \A i \in 1..m : F[i] = s[p[i]] /\ s[p[i]] \in S
        /\ \A i, j \in 1..m : i < j => p[i] < p[j]
        /\ \A x \in 1..k : s[x] \in S => \E i \in 1..m : p[i] = x
  BY DEF KeptFrom
<1>2. p \in [1..m -> 1..(k + 1)]
  BY <1>1
<1>3. \A x \in 1..(k + 1) : s[x] \in S => \E i \in 1..m : p[i] = x
  BY <1>1
<1> QED BY <1>1, <1>2, <1>3 DEF KeptFrom

(* What KeptFrom says of a sequence of the kept ones.                      *)
KeptWell(s, S, T, n, F) ==
  F \in Seq(T \cap S) /\ Len(F) <= n /\ KeptFrom(s, S, n, F, Len(F))

LEMMA KeepWell ==
  ASSUME NEW s, NEW S, NEW T, NEW k \in Nat, NEW F, KeptWell(s, S, T, k, F), s[k + 1] \in T
  PROVE  KeptWell(s, S, T, k + 1, Keep(F, s[k + 1], S))
<1> DEFINE m == Len(F)
<1>1. F \in Seq(T \cap S) /\ m \in Nat /\ m <= k /\ KeptFrom(s, S, k, F, m)
  BY LenProperties DEF KeptWell
<1>2. CASE s[k + 1] \in S
  <2> DEFINE G == Append(F, s[k + 1])
  <2>1. s[k + 1] \in T \cap S
    BY <1>2
  <2>2. /\ G \in Seq(T \cap S) /\ Len(G) = m + 1
        /\ \A i \in 1..m : G[i] = F[i]
        /\ G[m + 1] = s[k + 1]
    BY <1>1, <2>1, AppendProperties
  <2> HIDE DEF G, m
  <2>3. KeptFrom(s, S, k + 1, G, m + 1)
    BY <1>1, <1>2, <2>2, KeptOneMore
  <2>4. KeptWell(s, S, T, k + 1, G)
    BY <1>1, <2>2, <2>3 DEF KeptWell
  <2> QED BY <1>2, <2>4 DEF Keep, G
<1>3. CASE s[k + 1] \notin S
  <2>1. KeptFrom(s, S, k + 1, F, m)
    BY <1>1, <1>3, KeptNoMore
  <2>2. KeptWell(s, S, T, k + 1, F)
    BY <1>1, <2>1 DEF KeptWell
  <2> QED BY <1>3, <2>2 DEF Keep
<1> QED BY <1>2, <1>3

LEMMA FilterTyped ==
  ASSUME NEW S, NEW T, NEW s \in Seq(T)
  PROVE  /\ KeptWell(s, S, T, Len(s), Filter(s, S))
         /\ Filter(s, S) \in Seq(T) /\ Len(Filter(s, S)) \in Nat
<1> DEFINE K == KeptSofar(s, S)
           N == {k \in Nat : k <= Len(s) => KeptWell(s, S, T, k, K[k])}
<1>1. /\ K[0] = << >> /\ Len(s) \in Nat
      /\ \A i \in 1..Len(s) : K[i] = Keep(K[i - 1], s[i], S)
  BY KeptIs, LenProperties
<1> HIDE DEF K
<1>2. 0 \in N
  <2>1. << >> \in Seq(T \cap S) /\ Len(<< >>) = 0
    BY EmptySeq
  <2>2. [i \in 1..0 |-> 1] \in [1..0 -> 1..0]
    OBVIOUS
  <2> DEFINE none == << >>
  <2> HIDE DEF none
  <2>3. KeptFrom(s, S, 0, none, 0)
    <3>1. 1..0 = {}
      OBVIOUS
    <3>2. PICK p \in [1..0 -> 1..0] : TRUE
      BY <2>2
    <3> QED BY <3>1, <3>2 DEF KeptFrom
  <2>4. KeptWell(s, S, T, 0, none)
    BY <2>1, <2>3 DEF KeptWell, none
  <2> QED BY <1>1, <2>4 DEF none
<1>3. ASSUME NEW k \in N PROVE k + 1 \in N
  <2> SUFFICES ASSUME k + 1 <= Len(s) PROVE KeptWell(s, S, T, k + 1, K[k + 1])
    OBVIOUS
  <2>1. k \in Nat /\ k + 1 \in 1..Len(s) /\ k + 1 - 1 = k /\ KeptWell(s, S, T, k, K[k])
    BY <1>1
  <2>2. K[k + 1] = Keep(K[k], s[k + 1], S)
    BY <1>1, <2>1
  <2>3. s[k + 1] \in T
    BY <2>1, ElementOfSeq
  <2> QED BY <2>1, <2>2, <2>3, KeepWell
<1>4. N = Nat
  BY <1>2, <1>3, AllNumbers
<1>5. KeptWell(s, S, T, Len(s), K[Len(s)])
  BY <1>1, <1>4
<1>6. KeptWell(s, S, T, Len(s), Filter(s, S))
  BY <1>5 DEF K, Filter
<1>7. Filter(s, S) \in Seq(T \cap S)
  BY <1>6 DEF KeptWell
<1>8. Filter(s, S) \in Seq(T)
  BY <1>7, SeqMonotonic
<1> QED BY <1>6, <1>8, LenProperties

LEMMA FilterConcat ==
  ASSUME NEW S, NEW T, NEW a \in Seq(T), NEW b \in Seq(T)
  PROVE  Filter(a \o b, S) = Filter(a, S) \o Filter(b, S)
<1> DEFINE Good(n) == \A t \in Seq(T) : Len(t) = n => Filter(a \o t, S) = Filter(a, S) \o Filter(t, S)
           N == {n \in Nat : Good(n)}
<1>0. Filter(a, S) \in Seq(T)
  BY FilterTyped
<1> DEFINE Regroups(x, y, z) == (x \o y) \o z = x \o (y \o z)
<1>r. \A x, y, z \in Seq(T) : Regroups(x, y, z)
  BY ConcatAssociative
<1>1. 0 \in N
  <2>1. \A t \in Seq(T) : Len(t) = 0 => t = << >>
    BY EmptySeq
  <2>2. a \o << >> = a /\ Filter(a, S) \o << >> = Filter(a, S) /\ Filter(<< >>, S) = << >>
    BY <1>0, ConcatEmptySeq, FilterEmpty
  <2> QED BY <2>1, <2>2
<1>2. ASSUME NEW n \in N PROVE n + 1 \in N
  <2> SUFFICES ASSUME NEW t \in Seq(T), Len(t) = n + 1
               PROVE  Filter(a \o t, S) = Filter(a, S) \o Filter(t, S)
    OBVIOUS
  <2>1. t # << >>
    BY EmptySeq
  <2>2. PICK u \in Seq(T), e \in T : t = Append(u, e)
    BY <2>1, SequenceEmptyOrAppend
  <2> DEFINE v == a \o u
  <2>3. Len(t) = Len(u) + 1 /\ Len(u) \in Nat
    BY <2>2, AppendProperties, LenProperties
  <2>4. Len(u) = n
    BY <2>3
  <2>5. Filter(v, S) = Filter(a, S) \o Filter(u, S)
    BY <2>4
  <2>6. a \o t = Append(v, e) /\ v \in Seq(T)
    <3> DEFINE last == << e >>
    <3>1. t = u \o last /\ v \in Seq(T)
      BY <2>2, AppendIsConcat, ConcatProperties
    <3>2. last \in Seq(T)
      BY <2>2
    <3>4. Append(v, e) = v \o last
      BY <3>1, AppendIsConcat
    <3> HIDE DEF last
    <3>3. a \o (u \o last) = (a \o u) \o last
      <4>1. a \in Seq(T) /\ u \in Seq(T)
        BY <2>2
      <4> HIDE DEF Regroups
      <4>2. Regroups(a, u, last)
        BY <1>r, <3>2, <4>1, Zenon
      <4> QED BY <4>2 DEF Regroups
    <3> QED BY <3>1, <3>3, <3>4
  <2> HIDE DEF v
  <2>7. Filter(a \o t, S) = Keep(Filter(v, S), e, S)
    BY <2>6, FilterAppend
  <2>8. Filter(t, S) = Keep(Filter(u, S), e, S)
    BY <2>2, FilterAppend
  <2>9. Append(Filter(a, S) \o Filter(u, S), e) = Filter(a, S) \o Append(Filter(u, S), e)
    <3> DEFINE f == Filter(a, S)
               g == Filter(u, S)
               last == << e >>
    <3>1. f \in Seq(T) /\ g \in Seq(T)
      BY <2>2, FilterTyped
    <3>2. last \in Seq(T)
      BY <2>2
    <3> HIDE DEF f, g
    <3>3. f \o g \in Seq(T)
      BY <3>1, ConcatProperties
    <3>5. Append(f \o g, e) = (f \o g) \o last
      BY <3>3, AppendIsConcat
    <3>6. Append(g, e) = g \o last
      BY <3>1, AppendIsConcat
    <3> HIDE DEF last
    <3>4. (f \o g) \o last = f \o (g \o last)
      <4> HIDE DEF Regroups
      <4>1. Regroups(f, g, last)
        BY <1>r, <3>1, <3>2, Zenon
      <4> QED BY <4>1 DEF Regroups
    <3> QED BY <3>4, <3>5, <3>6 DEF f, g
  <2>10. CASE e \in S
    BY <2>5, <2>7, <2>8, <2>9, <2>10 DEF Keep
  <2>11. CASE e \notin S
    BY <2>5, <2>7, <2>8, <2>11 DEF Keep
  <2> QED BY <2>10, <2>11
<1>3. N = Nat
  BY <1>1, <1>2, AllNumbers
<1> QED BY <1>3, LenProperties

(* Filter takes the elements of s that are in S, each as often as it was   *)
(* there.                                                                  *)
LEMMA FilterRange ==
  ASSUME NEW S, NEW T, NEW s \in Seq(T)
  PROVE  /\ Range(Filter(s, S)) = Range(s) \cap S
         /\ IsInjective(s) => IsInjective(Filter(s, S))
         /\ Filter(s, S) \in Seq(T) /\ Len(Filter(s, S)) <= Len(s)
<1> DEFINE F == Filter(s, S)
           m == Len(F)
           n == Len(s)
<1>1. F \in Seq(T) /\ m \in Nat /\ n \in Nat /\ DOMAIN F = 1..m /\ DOMAIN s = 1..n
  BY FilterTyped, LenProperties
<1>2. KeptWell(s, S, T, n, F)
  BY FilterTyped
<1> HIDE DEF F
<1>3. m <= n /\ KeptFrom(s, S, n, F, m)
  BY <1>2 DEF KeptWell
<1> HIDE DEF m, n
<1>4. PICK p \in [1..m -> 1..n] :
        /\ \A i \in 1..m : F[i] = s[p[i]] /\ s[p[i]] \in S
        /\ \A i, j \in 1..m : i < j => p[i] < p[j]
        /\ \A k \in 1..n : s[k] \in S => \E i \in 1..m : p[i] = k
  BY <1>3 DEF KeptFrom
<1>5. Range(F) \subseteq Range(s) \cap S
  BY <1>1, <1>4 DEF Range
<1>6. Range(s) \cap S \subseteq Range(F)
  <2> SUFFICES ASSUME NEW k \in 1..n, s[k] \in S PROVE s[k] \in Range(F)
    BY <1>1 DEF Range
  <2>1. PICK i \in 1..m : p[i] = k
    BY <1>4
  <2> QED BY <1>1, <1>4, <2>1 DEF Range
<1>7. ASSUME IsInjective(s) PROVE IsInjective(F)
  <2> SUFFICES ASSUME NEW i \in 1..m, NEW j \in 1..m, F[i] = F[j] PROVE i = j
    BY <1>1 DEF IsInjective
  <2>1. p[i] = p[j] /\ p[i] \in 1..n /\ p[j] \in 1..n
    BY <1>1, <1>4, <1>7 DEF IsInjective
  <2>2. ~(i < j) /\ ~(j < i)
    BY <1>1, <1>4, <2>1
  <2> QED BY <1>1, <2>2
<1> QED BY <1>1, <1>3, <1>5, <1>6, <1>7 DEF F, m, n

(* One more element, at the end.                                           *)
LEMMA RangeOfAppend ==
  ASSUME NEW T, NEW s \in Seq(T), NEW e \in T
  PROVE  /\ Append(s, e) \in Seq(T) /\ Len(Append(s, e)) = Len(s) + 1
         /\ Range(Append(s, e)) = Range(s) \cup {e}
         /\ IsInjective(s) /\ e \notin Range(s) => IsInjective(Append(s, e))
<1> DEFINE n == Len(s)
           t == Append(s, e)
<1>1. /\ t \in Seq(T) /\ Len(t) = n + 1 /\ n \in Nat
      /\ DOMAIN t = 1..(n + 1) /\ DOMAIN s = 1..n
      /\ \A i \in 1..n : t[i] = s[i]
      /\ t[n + 1] = e
  BY AppendProperties, LenProperties
<1> HIDE DEF n, t
<1>2. \A i \in 1..(n + 1) : i \in 1..n \/ i = n + 1
  BY <1>1
<1>3. Range(t) \subseteq Range(s) \cup {e}
  BY <1>1, <1>2 DEF Range
<1>4. Range(s) \cup {e} \subseteq Range(t)
  <2>1. 1..n \subseteq 1..(n + 1) /\ n + 1 \in 1..(n + 1)
    BY <1>1
  <2> QED BY <1>1, <2>1 DEF Range
<1>5. ASSUME IsInjective(s), e \notin Range(s) PROVE IsInjective(t)
  <2> SUFFICES ASSUME NEW i \in 1..(n + 1), NEW j \in 1..(n + 1), t[i] = t[j] PROVE i = j
    BY <1>1 DEF IsInjective
  <2>1. \A k \in 1..n : t[k] # e
    BY <1>1, <1>5 DEF Range
  <2>2. CASE i \in 1..n /\ j \in 1..n
    BY <1>1, <1>5, <2>2 DEF IsInjective
  <2>3. CASE i = n + 1 \/ j = n + 1
    BY <1>1, <1>2, <2>1, <2>3
  <2> QED BY <1>2, <2>2, <2>3
<1> QED BY <1>1, <1>3, <1>4, <1>5 DEF n, t

(* The last elements of a sequence.                                        *)
LEMMA LastOnes ==
  ASSUME NEW T, NEW s \in Seq(T), NEW k \in Nat, k <= Len(s)
  PROVE  LET t == SubSeq(s, k + 1, Len(s)) IN
         /\ t \in Seq(T) /\ Len(t) = Len(s) - k
         /\ \A x : x \in Range(t) <=> \E i \in DOMAIN s : i > k /\ s[i] = x
         /\ IsInjective(s) => IsInjective(t)
<1> DEFINE n == Len(s)
           t == SubSeq(s, k + 1, n)
           m == n - k
<1>1. n \in Nat /\ DOMAIN s = 1..n /\ m \in Nat /\ k <= n
  BY LenProperties
<1> HIDE DEF n
<1>2. \A i \in (k + 1)..n : s[i] \in T
  <2>1. \A i \in (k + 1)..n : i \in 1..n
    BY <1>1
  <2> QED BY <2>1, <1>1, ElementOfSeq DEF n
<1>3. /\ t \in Seq(T) /\ Len(t) = (IF k + 1 <= n THEN n - (k + 1) + 1 ELSE 0)
      /\ \A i \in 1..(n - (k + 1) + 1) : t[i] = s[k + 1 + i - 1]
  BY <1>1, <1>2, SubSeqProperties
<1>4. n - (k + 1) + 1 = m /\ (k + 1 <= n \/ m = 0) /\ \A i \in 1..m : k + 1 + i - 1 = k + i
  BY <1>1
<1> HIDE DEF t
<1>5. Len(t) = m /\ \A i \in 1..m : t[i] = s[k + i]
  BY <1>3, <1>4
<1>6. DOMAIN t = 1..m
  BY <1>3, <1>5, LenProperties
<1>7. ASSUME NEW x PROVE x \in Range(t) <=> \E i \in DOMAIN s : i > k /\ s[i] = x
  <2>1. ASSUME NEW j \in 1..m PROVE k + j \in 1..n /\ k + j > k
    BY <1>1, <2>1
  <2>2. ASSUME NEW i \in 1..n, i > k PROVE i - k \in 1..m /\ k + (i - k) = i
    BY <1>1, <2>2
  <2>3. ASSUME x \in Range(t) PROVE \E i \in DOMAIN s : i > k /\ s[i] = x
    <3>1. PICK j \in 1..m : t[j] = x
      BY <1>6, <2>3 DEF Range
    <3> QED BY <1>1, <1>5, <2>1, <3>1
  <2>4. ASSUME NEW i \in 1..n, i > k, s[i] = x PROVE x \in Range(t)
    <3> DEFINE j == i - k
    <3>1. j \in 1..m /\ k + j = i
      BY <2>2, <2>4
    <3> HIDE DEF j
    <3>2. t[j] = x
      BY <1>5, <2>4, <3>1
    <3> QED BY <1>6, <3>1, <3>2 DEF Range
  <2> QED BY <1>1, <2>3, <2>4
<1>8. ASSUME IsInjective(s) PROVE IsInjective(t)
  <2> SUFFICES ASSUME NEW i \in 1..m, NEW j \in 1..m, t[i] = t[j] PROVE i = j
    BY <1>6 DEF IsInjective
  <2>1. k + i \in 1..n /\ k + j \in 1..n
    BY <1>1
  <2>2. k + i = k + j
    BY <1>1, <1>5, <1>8, <2>1 DEF IsInjective
  <2> QED BY <1>1, <2>2
<1> QED BY <1>3, <1>5, <1>7, <1>8 DEF t, n

(* A sequence that names nothing twice is as long as what it names.        *)
LEMMA LenOfInjective ==
  ASSUME NEW T, NEW s \in Seq(T), IsInjective(s)
  PROVE  IsFiniteSet(Range(s)) /\ Cardinality(Range(s)) = Len(s) /\ Len(s) \in Nat
<1> DEFINE n == Len(s)
           R == Range(s)
<1>0. n \in Nat /\ DOMAIN s = 1..n
  BY LenProperties
<1>1. n \in Nat /\ DOMAIN s = 1..n /\ IsFiniteSet(1..n) /\ Cardinality(1..n) = n
  <2> HIDE DEF n
  <2>1. IsFiniteSet(1..n) /\ Cardinality(1..n) = IF 1 > n THEN 0 ELSE n - 1 + 1
    BY <1>0, FS_Interval
  <2> QED BY <1>0, <2>1
<1>2. s \in [1..n -> R] /\ \A y \in R : \E x \in 1..n : s[x] = y
  BY <1>1 DEF Range
<1> HIDE DEF n, R
<1>3. s \in Bijection(1..n, R)
  BY <1>2 DEF Bijection, Injection, Surjection, IsInjective
<1>4. ExistsBijection(1..n, R)
  BY <1>3 DEF ExistsBijection
<1> QED BY <1>1, <1>4, FS_Bijection DEF n, R

(* One more element makes a sequence of one, and of two. *)
LEMMA FirstTwo ==
  ASSUME NEW e, NEW a
  PROVE  Append(<<>>, e) = <<e>> /\ Append(<<e>>, a) = <<e, a>>
<1>1. Append(<<>>, e) = <<e>>
  OBVIOUS
<1> DEFINE s == <<e, a>>
           t == Append(<<e>>, a)
           E == {e, a}
<1>2. <<e>> \in Seq(E) /\ s \in Seq(E) /\ Len(s) = 2 /\ s[1] = e /\ s[2] = a
  OBVIOUS
<1>3. t \in Seq(E) /\ Len(t) = 2 /\ t[1] = e /\ t[2] = a
  BY <1>2
<1> HIDE DEF s, t, E
<1>4. \A i \in 1..Len(s) : s[i] = t[i]
  BY <1>2, <1>3
<1>5. s = t
  BY <1>2, <1>3, <1>4, SeqEqual
<1> QED BY <1>1, <1>5 DEF s, t

(* One more element, at the front.                                         *)
LEMMA RangeOfFront ==
  ASSUME NEW T, NEW s \in Seq(T), NEW e \in T
  PROVE  /\ <<e>> \o s \in Seq(T) /\ Len(<<e>> \o s) = Len(s) + 1
         /\ Range(<<e>> \o s) = Range(s) \cup {e}
         /\ IsInjective(s) /\ e \notin Range(s) => IsInjective(<<e>> \o s)
<1> DEFINE n == Len(s)
           t == <<e>> \o s
<1>1. n \in Nat /\ DOMAIN s = 1..n
  BY LenProperties
<1>2. /\ t \in Seq(T) /\ Len(t) = n + 1 /\ DOMAIN t = 1..(n + 1)
      /\ t[1] = e
      /\ \A i \in 1..n : t[i + 1] = s[i]
  <2> DEFINE first == <<e>>
  <2>1. first \in Seq(T) /\ Len(first) = 1 /\ first[1] = e
    OBVIOUS
  <2> HIDE DEF first
  <2>2. /\ first \o s \in Seq(T) /\ Len(first \o s) = 1 + n
        /\ \A i \in 1..(1 + n) : (first \o s)[i] = IF i <= 1 THEN first[i] ELSE s[i - 1]
    <3>1. /\ first \o s \in Seq(T) /\ Len(first \o s) = Len(first) + Len(s)
          /\ \A i \in 1..(Len(first) + Len(s)) :
               (first \o s)[i] = IF i <= Len(first) THEN first[i] ELSE s[i - Len(first)]
      BY <2>1, ConcatProperties
    <3> QED BY <2>1, <3>1
  <2> HIDE DEF n
  <2> DEFINE u == first \o s
  <2>3. t = u
    BY DEF first
  <2> HIDE DEF t, u
  <2>4. u \in Seq(T) /\ Len(u) = n + 1 /\ DOMAIN u = 1..(n + 1)
    BY <1>1, <2>2, LenProperties DEF u
  <2>5. u[1] = e
    BY <1>1, <2>1, <2>2 DEF u
  <2>6. ASSUME NEW i \in 1..n PROVE u[i + 1] = s[i]
    <3>1. i + 1 \in 1..(1 + n) /\ ~(i + 1 <= 1) /\ i + 1 - 1 = i
      BY <1>1
    <3> QED BY <2>2, <3>1 DEF u
  <2> QED BY <2>3, <2>4, <2>5, <2>6
<1> HIDE DEF n, t
<1>3. \A i \in 1..(n + 1) : i = 1 \/ (i - 1 \in 1..n /\ i = (i - 1) + 1)
  BY <1>1
<1>4. \A i \in 1..n : i + 1 \in 1..(n + 1)
  BY <1>1
<1>5. \A i \in 1..(n + 1) : i = 1 \/ (i - 1 \in 1..n /\ t[i] = s[i - 1])
  BY <1>2, <1>3
<1>6. Range(t) \subseteq Range(s) \cup {e}
  <2> SUFFICES ASSUME NEW i \in 1..(n + 1) PROVE t[i] \in Range(s) \cup {e}
    BY <1>2 DEF Range
  <2>1. CASE i = 1
    BY <1>2, <2>1
  <2>2. CASE i # 1
    BY <1>1, <1>5, <2>2 DEF Range
  <2> QED BY <2>1, <2>2
<1>7. Range(s) \cup {e} \subseteq Range(t)
  <2>1. 1 \in 1..(n + 1)
    BY <1>1
  <2> QED BY <1>1, <1>2, <1>4, <2>1 DEF Range
<1>8. ASSUME IsInjective(s), e \notin Range(s) PROVE IsInjective(t)
  <2> SUFFICES ASSUME NEW i \in 1..(n + 1), NEW j \in 1..(n + 1), t[i] = t[j] PROVE i = j
    BY <1>2 DEF IsInjective
  <2>1. \A k \in 1..n : s[k] # e
    BY <1>1, <1>8 DEF Range
  <2>2. CASE i = 1 \/ j = 1
    BY <1>2, <1>5, <2>1, <2>2
  <2>3. CASE i # 1 /\ j # 1
    <3>1. i - 1 \in 1..n /\ j - 1 \in 1..n /\ s[i - 1] = s[j - 1]
      BY <1>5, <2>3
    <3>2. i - 1 = j - 1
      BY <1>1, <1>8, <3>1 DEF IsInjective
    <3> QED BY <1>1, <3>2
  <2> QED BY <2>2, <2>3
<1> QED BY <1>1, <1>2, <1>6, <1>7, <1>8 DEF n, t

(* The first elements of a sequence.                                       *)
LEMMA FirstOnes ==
  ASSUME NEW T, NEW s \in Seq(T), NEW k \in Nat, k <= Len(s)
  PROVE  LET t == SubSeq(s, 1, k) IN
         /\ t \in Seq(T) /\ Len(t) = k
         /\ Range(t) \subseteq Range(s)
         /\ IsInjective(s) => IsInjective(t)
<1> DEFINE n == Len(s)
           t == SubSeq(s, 1, k)
<1>1. n \in Nat /\ DOMAIN s = 1..n /\ \A i \in 1..k : i \in 1..n
  BY LenProperties
<1>2. t \in Seq(T) /\ Len(t) = k /\ \A i \in 1..k : t[i] = s[i]
  BY <1>1
<1> HIDE DEF t
<1>3. DOMAIN t = 1..k
  BY <1>2, LenProperties
<1> QED BY <1>1, <1>2, <1>3 DEF IsInjective, Range, t

(* The loop that adds up, element by element.                              *)
LEMMA SofarIs ==
  ASSUME NEW s \in Seq(Int)
  PROVE  LET K == Sofar(s) IN
         /\ K[0] = 0
         /\ \A i \in 1..Len(s) : K[i] = K[i - 1] + s[i]
<1> DEFINE n == Len(s)
           K == Sofar(s)
           Plus(a, b) == a + b
<1>1. n \in Nat
  BY LenProperties
<1> HIDE DEF n, K, Plus
<1>2. \E g : g = [i \in 0..n |-> IF i = 0 THEN 0 ELSE Plus(g[i - 1], s[i])]
  <2> DEFINE Step(g, i) == IF i = 0 THEN 0 ELSE Plus(g[i - 1], s[i])
             Has(k) == \E g : g = [i \in 0..k |-> Step(g, i)]
             N == {k \in Nat : Has(k)}
  <2>1. 0 \in N
    <3>1. [i \in 0..0 |-> 0] = [i \in 0..0 |-> Step([j \in 0..0 |-> 0], i)]
      OBVIOUS
    <3> QED BY <3>1
  <2>2. ASSUME NEW k \in N PROVE k + 1 \in N
    <3>1. PICK g : g = [i \in 0..k |-> Step(g, i)]
      OBVIOUS
    <3> DEFINE h == [i \in 0..(k + 1) |-> IF i = k + 1 THEN Plus(g[k], s[k + 1]) ELSE g[i]]
    <3>2. \A i \in 0..(k + 1) : h[i] = Step(h, i)
      <4> SUFFICES ASSUME NEW i \in 0..(k + 1) PROVE h[i] = Step(h, i)
        OBVIOUS
      <4>1. ASSUME NEW j \in 0..k PROVE h[j] = g[j] /\ g[j] = Step(g, j)
        <5>1. j \in 0..(k + 1) /\ j # k + 1
          OBVIOUS
        <5>2. h[j] = g[j]
          BY <5>1
        <5> HIDE DEF Step, h
        <5>3. g[j] = Step(g, j)
          BY <3>1
        <5> QED BY <5>2, <5>3
      <4>2. h[k + 1] = Plus(g[k], s[k + 1])
        OBVIOUS
      <4>3. k \in Nat
        OBVIOUS
      <4> HIDE DEF h
      <4>4. CASE i = k + 1
        <5>0. k \in 0..k /\ k + 1 # 0 /\ k + 1 - 1 = k
          BY <4>3
        <5>1. i # 0 /\ i - 1 = k /\ h[k] = g[k]
          BY <4>1, <4>4, <5>0
        <5> QED BY <4>2, <4>4, <5>1
      <4>5. CASE i \in 1..k
        <5>1. i # 0 /\ h[i - 1] = g[i - 1] /\ h[i] = g[i] /\ g[i] = Step(g, i)
          BY <4>1, <4>3, <4>5
        <5> QED BY <5>1
      <4>6. CASE i = 0
        BY <4>1, <4>3, <4>6
      <4> QED BY <4>3, <4>4, <4>5, <4>6
    <3>3. h = [i \in 0..(k + 1) |-> Step(h, i)]
      BY <3>2
    <3> HIDE DEF h
    <3>4. Has(k + 1) /\ k + 1 \in Nat
      BY <3>3
    <3> QED BY <3>4
  <2>3. N = Nat
    BY <2>1, <2>2, AllNumbers
  <2> QED BY <1>1, <2>3
<1>3. K = [i \in 0..n |-> IF i = 0 THEN 0 ELSE Plus(K[i - 1], s[i])]
  <2>1. Sofar(s) = CHOOSE g : g = [i \in 0..n |-> IF i = 0 THEN 0 ELSE Plus(g[i - 1], s[i])]
    BY DEF Sofar, Plus, n
  <2> QED BY <1>2, <2>1 DEF K
<1>4. K[0] = 0
  BY <1>1, <1>3
<1>5. \A i \in 1..n : K[i] = Plus(K[i - 1], s[i])
  BY <1>1, <1>3
<1> QED BY <1>4, <1>5 DEF K, Plus, n

LEMMA SofarIsInt ==
  ASSUME NEW s \in Seq(Int), NEW n \in 0..Len(s)
  PROVE  Sofar(s)[n] \in Int
<1> DEFINE K == Sofar(s)
           N == {k \in Nat : k <= Len(s) => K[k] \in Int}
<1>1. K[0] = 0 /\ \A i \in 1..Len(s) : K[i] = K[i - 1] + s[i]
  BY SofarIs
<1>2. Len(s) \in Nat
  BY LenProperties
<1> HIDE DEF K
<1>3. 0 \in N
  BY <1>1
<1>4. ASSUME NEW k \in N PROVE k + 1 \in N
  <2> SUFFICES ASSUME k + 1 <= Len(s) PROVE K[k + 1] \in Int
    OBVIOUS
  <2>1. k \in Nat /\ k + 1 \in 1..Len(s) /\ k + 1 - 1 = k /\ K[k] \in Int
    BY <1>2
  <2>2. s[k + 1] \in Int
    BY <2>1, ElementOfSeq
  <2>3. K[k + 1] = K[k] + s[k + 1]
    BY <1>1, <2>1
  <2> QED BY <2>1, <2>2, <2>3
<1>5. N = Nat
  BY <1>3, <1>4, AllNumbers
<1> QED BY <1>2, <1>5 DEF K

(* What is added up of a beginning does not depend on what follows.        *)
LEMMA SofarOfPrefix ==
  ASSUME NEW s \in Seq(Int), NEW t \in Seq(Int), NEW n \in Nat,
         n <= Len(s), n <= Len(t), \A i \in 1..n : s[i] = t[i]
  PROVE  Sofar(s)[n] = Sofar(t)[n]
<1> DEFINE K == Sofar(s)
           L == Sofar(t)
           N == {k \in Nat : k <= n => K[k] = L[k]}
<1>1. /\ K[0] = 0 /\ L[0] = 0 /\ Len(s) \in Nat /\ Len(t) \in Nat
      /\ \A i \in 1..Len(s) : K[i] = K[i - 1] + s[i]
      /\ \A i \in 1..Len(t) : L[i] = L[i - 1] + t[i]
  BY SofarIs, LenProperties
<1> HIDE DEF K, L
<1>2. 0 \in N
  BY <1>1
<1>3. ASSUME NEW k \in N PROVE k + 1 \in N
  <2> SUFFICES ASSUME k + 1 <= n PROVE K[k + 1] = L[k + 1]
    OBVIOUS
  <2>1. k \in Nat /\ k + 1 \in 1..n /\ k + 1 \in 1..Len(s) /\ k + 1 \in 1..Len(t) /\ k + 1 - 1 = k
    BY <1>1
  <2>2. K[k] = L[k] /\ s[k + 1] = t[k + 1]
    BY <2>1
  <2>3. K[k + 1] = K[k] + s[k + 1] /\ L[k + 1] = L[k] + t[k + 1]
    BY <1>1, <2>1
  <2> QED BY <2>2, <2>3
<1>4. N = Nat
  BY <1>2, <1>3, AllNumbers
<1> QED BY <1>4 DEF K, L

LEMMA SumOfAppend ==
  ASSUME NEW s \in Seq(Int), NEW e \in Int
  PROVE  SumUp(s) \in Int /\ SumUp(Append(s, e)) = SumUp(s) + e
<1> DEFINE t == Append(s, e)
           n == Len(s)
<1>1. n \in Nat /\ n \in 0..Len(s)
  BY LenProperties
<1>2. t \in Seq(Int) /\ Len(t) = n + 1 /\ t[n + 1] = e /\ \A i \in 1..n : t[i] = s[i]
  BY AppendProperties
<1> HIDE DEF t
<1>3. Sofar(t)[n] = Sofar(s)[n]
  <2>1. t \in Seq(Int) /\ n <= Len(s) /\ n <= Len(t)
    BY <1>1, <1>2
  <2>2. \A i \in 1..n : s[i] = t[i]
    BY <1>2
  <2> HIDE DEF n
  <2>3. Sofar(s)[n] = Sofar(t)[n]
    BY <1>1, <2>1, <2>2, SofarOfPrefix
  <2> QED BY <2>3
<1>4. \A i \in 1..Len(t) : Sofar(t)[i] = Sofar(t)[i - 1] + t[i]
  <2>1. t \in Seq(Int)
    BY <1>2
  <2> QED BY <2>1, SofarIs
<1>5. n + 1 \in 1..Len(t) /\ n + 1 - 1 = n
  BY <1>1, <1>2
<1>6. Sofar(t)[n + 1] = Sofar(t)[n] + e
  BY <1>2, <1>4, <1>5
<1>7. SumUp(s) = Sofar(s)[n] /\ SumUp(t) = Sofar(t)[n + 1]
  BY <1>2 DEF SumUp
<1>8. Sofar(s)[n] \in Int
  BY <1>1, SofarIsInt
<1> QED BY <1>3, <1>6, <1>7, <1>8 DEF t

LEMMA SumOfNothing ==
  ASSUME NEW s \in Seq(Int), Len(s) = 0
  PROVE  SumUp(s) = 0
BY SofarIs DEF SumUp

(* Larger elements add up to more, and more elements too.                  *)
LEMMA SofarMonotone ==
  ASSUME NEW s \in Seq(Int), NEW t \in Seq(Int), NEW n \in Nat,
         n <= Len(s), n <= Len(t), \A i \in 1..n : s[i] <= t[i]
  PROVE  Sofar(s)[n] <= Sofar(t)[n]
<1> DEFINE K == Sofar(s)
           L == Sofar(t)
           N == {k \in Nat : k <= n => K[k] <= L[k]}
<1>1. /\ K[0] = 0 /\ L[0] = 0 /\ Len(s) \in Nat /\ Len(t) \in Nat
      /\ \A i \in 1..Len(s) : K[i] = K[i - 1] + s[i]
      /\ \A i \in 1..Len(t) : L[i] = L[i - 1] + t[i]
  BY SofarIs, LenProperties
<1>i. /\ \A i \in 0..Len(s) : K[i] \in Int
      /\ \A i \in 0..Len(t) : L[i] \in Int
  BY SofarIsInt
<1> HIDE DEF K, L
<1>2. 0 \in N
  BY <1>1
<1>3. ASSUME NEW k \in N PROVE k + 1 \in N
  <2> SUFFICES ASSUME k + 1 <= n PROVE K[k + 1] <= L[k + 1]
    OBVIOUS
  <2>1. /\ k \in Nat /\ k + 1 \in 1..n /\ k + 1 \in 1..Len(s) /\ k + 1 \in 1..Len(t) /\ k + 1 - 1 = k
        /\ k \in 0..Len(s) /\ k \in 0..Len(t)
    BY <1>1
  <2>2. K[k] <= L[k] /\ s[k + 1] <= t[k + 1] /\ K[k] \in Int /\ L[k] \in Int
    BY <1>i, <2>1
  <2>3. K[k + 1] = K[k] + s[k + 1] /\ L[k + 1] = L[k] + t[k + 1]
    BY <1>1, <2>1
  <2>4. s[k + 1] \in Int /\ t[k + 1] \in Int
    BY <2>1, ElementOfSeq
  <2> DEFINE a == s[k + 1]
             b == t[k + 1]
             x == K[k]
             y == L[k]
  <2>5. x <= y /\ a <= b /\ x \in Int /\ y \in Int /\ a \in Int /\ b \in Int
    BY <2>2, <2>4
  <2>6. K[k + 1] = x + a /\ L[k + 1] = y + b
    BY <2>3
  <2> HIDE DEF a, b, x, y
  <2> QED BY <2>5, <2>6
<1>4. N = Nat
  BY <1>2, <1>3, AllNumbers
<1> QED BY <1>4 DEF K, L

LEMMA SofarGrows ==
  ASSUME NEW s \in Seq(Nat), NEW m \in Nat, m <= Len(s)
  PROVE  Sofar(s)[m] <= SumUp(s)
<1> DEFINE K == Sofar(s)
           N == {k \in Nat : m + k <= Len(s) => K[m] <= K[m + k]}
<1>0. s \in Seq(Int) /\ Len(s) \in Nat
  BY SeqMonotonic, LenProperties
<1>1. /\ \A i \in 1..Len(s) : K[i] = K[i - 1] + s[i]
      /\ \A i \in 0..Len(s) : K[i] \in Int
  BY <1>0, SofarIs, SofarIsInt
<1> HIDE DEF K
<1>2. 0 \in N
  BY <1>0, <1>1
<1>3. ASSUME NEW k \in N PROVE k + 1 \in N
  <2> SUFFICES ASSUME m + (k + 1) <= Len(s) PROVE K[m] <= K[m + (k + 1)]
    OBVIOUS
  <2>1. /\ k \in Nat /\ m + (k + 1) \in 1..Len(s) /\ m + (k + 1) - 1 = m + k
        /\ m + k \in 0..Len(s) /\ m \in 0..Len(s)
    BY <1>0
  <2>2. K[m] <= K[m + k] /\ K[m] \in Int /\ K[m + k] \in Int
    BY <1>1, <2>1
  <2>3. K[m + (k + 1)] = K[m + k] + s[m + (k + 1)]
    BY <1>1, <2>1
  <2>4. s[m + (k + 1)] \in Nat
    BY <2>1, ElementOfSeq
  <2> QED BY <2>2, <2>3, <2>4
<1>4. N = Nat
  BY <1>2, <1>3, AllNumbers
<1> DEFINE d == Len(s) - m
<1>5. d \in Nat /\ m + d = Len(s)
  BY <1>0
<1> HIDE DEF d
<1>6. d \in N
  BY <1>4, <1>5
<1>7. K[m] <= K[Len(s)]
  BY <1>0, <1>5, <1>6
<1> QED BY <1>7 DEF K, SumUp

=============================================================================
