------------------------------ MODULE Lists_proofs ------------------------------
(***************************************************************************)
(* What is left of a list, for every list: its elements, their number, and  *)
(* the places they had.  The induction is over the length, by the least     *)
(* element that a set of numbers has.                                       *)
(***************************************************************************)
EXTENDS Lists, SequenceTheorems, FunctionTheorems, FiniteSetTheorems, WellFoundedInduction, TLAPS

(* A set of natural numbers has a least element, since the intervals below   *)
(* them are finite sets, and these are well-founded by inclusion.           *)
LEMMA LeastOfNaturals ==
  ASSUME NEW S, S \subseteq Nat, S # {}
  PROVE  \E m \in S : \A k \in S : m <= k
<1> DEFINE Below(n) == 0 .. n
           T == {Below(n) : n \in S}
<1>1. IsWellFoundedOn(StrictSubsetOrdering(Nat), FiniteSubsetsOf(Nat))
  BY FS_StrictSubsetOrderingWellFounded
<1>2. T \subseteq FiniteSubsetsOf(Nat)
  <2>1. ASSUME NEW n \in S PROVE Below(n) \in SUBSET Nat /\ IsFiniteSet(Below(n))
    <3>1. 0 \in Int /\ n \in Int
      OBVIOUS
    <3> QED BY <3>1, FS_Interval
  <2> QED BY <2>1 DEF FiniteSubsetsOf
<1>3. T # {}
  OBVIOUS
<1>4. PICK x \in T : \A y \in T : ~ (<<y, x>> \in StrictSubsetOrdering(Nat))
  <2> HIDE DEF T
  <2> QED BY <1>1, <1>2, <1>3, WFMin
<1>5. PICK m \in S : x = Below(m)
  OBVIOUS
<1>6. ASSUME NEW k \in S, k < m PROVE FALSE
  <2>1. Below(k) \subseteq Below(m) /\ m \in Below(m) /\ m \notin Below(k)
    BY <1>6
  <2>2. Below(k) \in SUBSET Nat /\ Below(m) \in SUBSET Nat
    OBVIOUS
  <2>3. <<Below(k), Below(m)>> \in StrictSubsetOrdering(Nat)
    BY <2>1, <2>2 DEF StrictSubsetOrdering
  <2> QED BY <2>3, <1>4, <1>5
<1> QED BY <1>6

(* Of finitely many things with a number, one has the greatest.             *)
LEMMA GreatestOfFinite ==
  ASSUME NEW S, IsFiniteSet(S), S # {}, NEW f \in [S -> Nat]
  PROVE  \E m \in S : \A k \in S : f[k] <= f[m]
<1> DEFINE Above(n) == {k \in S : f[n] < f[k]}
           T == {Above(n) : n \in S}
<1>1. IsWellFoundedOn(StrictSubsetOrdering(S), FiniteSubsetsOf(S))
  BY FS_StrictSubsetOrderingWellFounded
<1>2. T \subseteq FiniteSubsetsOf(S)
  <2>1. ASSUME NEW n \in S PROVE Above(n) \in SUBSET S /\ IsFiniteSet(Above(n))
    <3>1. Above(n) \in SUBSET S
      OBVIOUS
    <3> QED BY <3>1, FS_Subset
  <2> QED BY <2>1 DEF FiniteSubsetsOf
<1>3. T # {}
  <2>1. PICK n \in S : TRUE
    OBVIOUS
  <2>2. Above(n) \in T
    OBVIOUS
  <2> QED BY <2>2
<1>4. PICK x \in T : \A y \in T : ~ (<<y, x>> \in StrictSubsetOrdering(S))
  <2> HIDE DEF T
  <2> QED BY <1>1, <1>2, <1>3, WFMin
<1>5. PICK m \in S : x = Above(m)
  OBVIOUS
<1>6. ASSUME NEW k \in S, f[m] < f[k] PROVE FALSE
  <2>1. Above(k) \subseteq Above(m) /\ k \in Above(m) /\ k \notin Above(k)
    BY <1>6
  <2>2. Above(k) \in SUBSET S /\ Above(m) \in SUBSET S
    OBVIOUS
  <2>3. <<Above(k), Above(m)>> \in StrictSubsetOrdering(S)
    BY <2>1, <2>2 DEF StrictSubsetOrdering
  <2> QED BY <2>3, <1>4, <1>5
<1> QED BY <1>6

(* ... and of any, one the least.                                           *)
LEMMA LeastOf ==
  ASSUME NEW S, S # {}, NEW f \in [S -> Nat]
  PROVE  \E m \in S : \A k \in S : f[m] <= f[k]
<1> DEFINE F == {f[k] : k \in S}
<1>1. F \subseteq Nat /\ F # {}
  OBVIOUS
<1>2. PICK n \in F : \A k \in F : n <= k
  <2> HIDE DEF F
  <2> QED BY <1>1, LeastOfNaturals
<1> QED BY <1>2

LEMMA IsAList ==
  ASSUME NEW X, NEW n \in Nat, NEW f \in [1 .. n -> X]
  PROVE  f \in Seq(X) /\ Len(f) = n
<1>1. f \in Seq(X)
  BY SeqDef
<1> QED  BY <1>1, LenProperties

(* Induction, for a set.                                                    *)
LEMMA InductiveSet ==
  ASSUME NEW S, 0 \in S, \A n \in Nat : n \in S => n + 1 \in S
  PROVE  Nat \subseteq S
<1> SUFFICES ASSUME Nat \ S # {} PROVE FALSE
  OBVIOUS
<1>1. PICK m \in Nat \ S : \A k \in Nat \ S : m <= k
  BY LeastOfNaturals
<1>2. m # 0 /\ m - 1 \in Nat /\ m - 1 \in S
  BY <1>1
<1> QED BY <1>1, <1>2


(* f is the function that defines Keeping, as far as l.                     *)
Keeps(f, s, T, l) ==
    f = [n \in 0 .. l |->
            IF n = 0 THEN <<>>
            ELSE IF s[n] \in T THEN Append(f[n - 1], s[n]) ELSE f[n - 1]]

(* Such a function, by its values.                                          *)
LEMMA KeepsSteps ==
  ASSUME NEW f, NEW s, NEW T, NEW l \in Nat
  PROVE  Keeps(f, s, T, l) <=>
           /\ f = [n \in 0 .. l |-> f[n]]
           /\ f[0] = <<>>
           /\ \A n \in 1 .. l : f[n] = IF s[n] \in T THEN Append(f[n - 1], s[n]) ELSE f[n - 1]
<1> DEFINE g == [n \in 0 .. l |-> IF n = 0 THEN <<>>
            ELSE IF s[n] \in T THEN Append(f[n - 1], s[n]) ELSE f[n - 1]]
<1>1. ASSUME f = g
      PROVE  /\ f = [n \in 0 .. l |-> f[n]]
           /\ f[0] = <<>>
           /\ \A n \in 1 .. l : f[n] = IF s[n] \in T THEN Append(f[n - 1], s[n]) ELSE f[n - 1]
  <2>1. f = [n \in 0 .. l |-> f[n]]
    <3>1. \A n \in 0 .. l : f[n] = g[n]
      BY <1>1
    <3>2. f = [n \in 0 .. l |-> g[n]]
      BY <1>1
    <3> QED BY <3>1, <3>2
  <2>2. f[0] = <<>>
    BY <1>1
  <2>3. ASSUME NEW n \in 1 .. l
        PROVE  f[n] = IF s[n] \in T THEN Append(f[n - 1], s[n]) ELSE f[n - 1]
    <3>1. n \in 0 .. l /\ n # 0
      OBVIOUS
    <3>2. g[n] = IF s[n] \in T THEN Append(f[n - 1], s[n]) ELSE f[n - 1]
      BY <3>1
    <3> QED BY <3>2, <1>1
  <2> QED BY <2>1, <2>2, <2>3
<1>2. ASSUME f = [n \in 0 .. l |-> f[n]], f[0] = <<>>,
             \A n \in 1 .. l : f[n] = IF s[n] \in T THEN Append(f[n - 1], s[n]) ELSE f[n - 1]
      PROVE  f = g
  <2>1. ASSUME NEW n \in 0 .. l PROVE f[n] = g[n]
    <3>1. CASE n = 0
      BY <3>1, <1>2
    <3>2. CASE n # 0
      <4>1. n \in 1 .. l
        BY <3>2
      <4> QED BY <4>1, <1>2, <3>2
    <3> QED BY <3>1, <3>2
  <2> QED BY <2>1, <1>2
<1> QED BY <1>1, <1>2, Zenon DEF Keeps

(* There is one for every length.                                           *)
LEMMA KeptExists ==
  ASSUME NEW s, NEW T
  PROVE  \A l \in Nat : \E f : Keeps(f, s, T, l)
<1> DEFINE S == {l \in Nat : \E f : Keeps(f, s, T, l)}
<1>1. 0 \in S
  <2>1. Keeps([n \in 0 .. 0 |-> <<>>], s, T, 0)
    BY KeepsSteps
  <2> QED BY <2>1
<1>2. ASSUME NEW n \in Nat, n \in S PROVE n + 1 \in S
  <2>1. PICK f : Keeps(f, s, T, n)
    BY <1>2
  <2> DEFINE g == [k \in 0 .. n + 1 |-> IF k = n + 1
                     THEN IF s[k] \in T THEN Append(f[n], s[k]) ELSE f[n]
                     ELSE f[k]]
  <2>2. \A k \in 1 .. n : f[k] = IF s[k] \in T THEN Append(f[k - 1], s[k]) ELSE f[k - 1]
    BY <2>1, KeepsSteps
  <2>3. g[0] = <<>>
    BY <2>1, KeepsSteps
  <2>4. ASSUME NEW k \in 1 .. n + 1
        PROVE  g[k] = IF s[k] \in T THEN Append(g[k - 1], s[k]) ELSE g[k - 1]
    <3>1. CASE k = n + 1
      BY <3>1
    <3>2. CASE k # n + 1
      <4>1. k \in 1 .. n /\ k - 1 # n + 1 /\ k - 1 \in 0 .. n + 1
        BY <3>2
      <4>2. g[k] = f[k] /\ g[k - 1] = f[k - 1]
        BY <4>1
      <4> HIDE DEF g
      <4> QED BY <4>1, <4>2, <2>2
    <3> QED BY <3>1, <3>2
  <2>5. g = [k \in 0 .. n + 1 |-> g[k]]
    OBVIOUS
  <2>6. Keeps(g, s, T, n + 1)
    <3> HIDE DEF g
    <3> QED BY <2>3, <2>4, <2>5, KeepsSteps
  <2> QED BY <2>6
<1> HIDE DEF S
<1>3. Nat \subseteq S
  BY <1>1, <1>2, InductiveSet
<1> QED BY <1>3 DEF S

(* What is left is its last value.                                          *)
LEMMA KeepingSteps ==
  ASSUME NEW s, NEW T, Len(s) \in Nat
  PROVE  \E f : Keeps(f, s, T, Len(s)) /\ Keeping(s, T) = f[Len(s)]
<1> DEFINE f == CHOOSE g : Keeps(g, s, T, Len(s))
<1>1. Keeps(f, s, T, Len(s))
  BY KeptExists
<1>2. Keeping(s, T) = f[Len(s)]
  BY DEF Keeping, Keeps
<1> QED BY <1>1, <1>2

(* What is kept, by the places it had.                                      *)
KeptAt(place, K, s, T, n) ==
    /\ place \in [1 .. Len(K) -> 1 .. n]
    /\ \A i, j \in 1 .. Len(K) : i < j => place[i] < place[j]
    /\ \A i \in 1 .. Len(K) : K[i] = s[place[i]] /\ K[i] \in T
    /\ \A k \in 1 .. n : s[k] \in T => \E i \in 1 .. Len(K) : place[i] = k

(* What is left comes from the list, in the order it had, and is less if    *)
(* anything was not kept.                                                   *)
LEMMA KeepingPlaces ==
  ASSUME NEW X, NEW s \in Seq(X), NEW T
  PROVE  /\ Keeping(s, T) \in Seq(X)
         /\ Len(Keeping(s, T)) <= Len(s)
         /\ (\E k \in 1 .. Len(s) : s[k] \notin T) => Len(Keeping(s, T)) < Len(s)
         /\ \E place : KeptAt(place, Keeping(s, T), s, T, Len(s))
<1>1. Len(s) \in Nat
  OBVIOUS
<1>2. PICK f : Keeps(f, s, T, Len(s)) /\ Keeping(s, T) = f[Len(s)]
  BY <1>1, KeepingSteps
<1>3. /\ f[0] = <<>>
      /\ \A n \in 1 .. Len(s) : f[n] = IF s[n] \in T THEN Append(f[n - 1], s[n]) ELSE f[n - 1]
  BY <1>1, <1>2, KeepsSteps
<1> DEFINE P(n) == /\ f[n] \in Seq(X) /\ Len(f[n]) <= n
                   /\ (\E k \in 1 .. n : s[k] \notin T) => Len(f[n]) < n
                   /\ \E place : KeptAt(place, f[n], s, T, n)
           S == {n \in Nat : n <= Len(s) => P(n)}
<1>4. 0 \in S
  <2>1. KeptAt([i \in 1 .. 0 |-> 0], <<>>, s, T, 0)
    BY DEF KeptAt
  <2>2. <<>> \in Seq(X) /\ Len(<<>>) = 0
    OBVIOUS
  <2>3. \E place : KeptAt(place, <<>>, s, T, 0)
    BY <2>1
  <2>4. P(0)
    BY <1>3, <2>2, <2>3
  <2> QED BY <2>4
<1>5. ASSUME NEW n \in Nat, n \in S PROVE n + 1 \in S
  <2> SUFFICES ASSUME n + 1 <= Len(s) PROVE P(n + 1)
    OBVIOUS
  <2>1. P(n)
    BY <1>1, <1>5
  <2>2. PICK place : KeptAt(place, f[n], s, T, n)
    BY <2>1
  <2>3. f[n + 1] = IF s[n + 1] \in T THEN Append(f[n], s[n + 1]) ELSE f[n]
    <3>1. n + 1 \in 1 .. Len(s) /\ (n + 1) - 1 = n
      BY <1>1
    <3> QED BY <3>1, <1>3
  <2>4. CASE s[n + 1] \notin T
    <3>1. f[n + 1] = f[n]
      BY <2>3, <2>4
    <3>2. KeptAt(place, f[n + 1], s, T, n + 1)
      BY <3>1, <2>1, <2>2, <2>4 DEF KeptAt
    <3>3. Len(f[n + 1]) < n + 1 /\ f[n + 1] \in Seq(X)
      BY <3>1, <2>1
    <3> QED BY <3>2, <3>3
  <2>5. CASE s[n + 1] \in T
    <3> DEFINE K == f[n]
               L == f[n + 1]
               next == [i \in 1 .. Len(K) + 1 |-> IF i = Len(K) + 1 THEN n + 1 ELSE place[i]]
    <3>1. L = Append(K, s[n + 1]) /\ s[n + 1] \in X
      BY <2>3, <2>5, <1>1
    <3>2. L \in Seq(X) /\ Len(L) = Len(K) + 1 /\ K \in Seq(X) /\ Len(K) \in Nat
      BY <3>1, <2>1
    <3>3. L[Len(K) + 1] = s[n + 1] /\ \A i \in 1 .. Len(K) : L[i] = K[i]
      BY <3>1, <3>2
    <3>4. Len(L) <= n + 1
      BY <3>2, <2>1
    <3>5. ASSUME NEW k \in 1 .. n + 1, s[k] \notin T PROVE Len(L) < n + 1
      <4>1. k \in 1 .. n
        BY <3>5, <2>5
      <4> QED BY <4>1, <3>5, <3>2, <2>1
    <3>6. KeptAt(next, L, s, T, n + 1)
      <4> HIDE DEF K, L
      <4>1. /\ place \in [1 .. Len(K) -> 1 .. n]
            /\ \A i, j \in 1 .. Len(K) : i < j => place[i] < place[j]
            /\ \A i \in 1 .. Len(K) : K[i] = s[place[i]] /\ K[i] \in T
            /\ \A k \in 1 .. n : s[k] \in T => \E i \in 1 .. Len(K) : place[i] = k
        BY <2>2 DEF KeptAt, K
      <4>2. next[Len(K) + 1] = n + 1 /\ \A i \in 1 .. Len(K) : next[i] = place[i]
        BY <3>2
      <4>3. next \in [1 .. Len(L) -> 1 .. n + 1]
        BY <3>2, <4>1
      <4> HIDE DEF next
      <4>4. ASSUME NEW i \in 1 .. Len(L), NEW j \in 1 .. Len(L), i < j
            PROVE  next[i] < next[j]
        <5>0. i \in 1 .. Len(K)
          BY <4>4, <3>2
        <5>1. next[i] = place[i] /\ place[i] \in 1 .. n
          BY <5>0, <4>1, <4>2
        <5>2. CASE j = Len(K) + 1
          BY <5>1, <5>2, <4>2
        <5>3. CASE j \in 1 .. Len(K)
          BY <5>0, <5>3, <4>1, <4>2, <4>4
        <5> QED BY <5>2, <5>3, <3>2
      <4>5. ASSUME NEW i \in 1 .. Len(L) PROVE L[i] = s[next[i]] /\ L[i] \in T
        <5>1. CASE i = Len(K) + 1
          BY <5>1, <4>2, <3>3, <2>5
        <5>2. CASE i \in 1 .. Len(K)
          BY <5>2, <4>1, <4>2, <3>3
        <5> QED BY <5>1, <5>2, <3>2
      <4>6. ASSUME NEW k \in 1 .. n + 1, s[k] \in T
            PROVE  \E i \in 1 .. Len(L) : next[i] = k
        <5>1. CASE k = n + 1
          BY <5>1, <4>2, <3>2
        <5>2. CASE k \in 1 .. n
          <6>1. PICK i \in 1 .. Len(K) : place[i] = k
            BY <5>2, <4>1, <4>6
          <6> QED BY <6>1, <4>2, <3>2
        <5> QED BY <5>1, <5>2
      <4> QED BY <4>3, <4>4, <4>5, <4>6 DEF KeptAt
    <3> QED BY <3>2, <3>4, <3>5, <3>6
  <2> QED BY <2>4, <2>5
<1>6. Len(s) \in S
  <2> HIDE DEF S
  <2> QED BY <1>4, <1>5, <1>1, InductiveSet
<1> QED BY <1>6, <1>2, <1>1

(* The elements left are those of the list to be kept.                      *)
LEMMA KeepingEntries ==
  ASSUME NEW X, NEW s \in Seq(X), NEW T
  PROVE  Entries(Keeping(s, T)) = Entries(s) \cap T
<1> DEFINE K == Keeping(s, T)
<1>1. PICK place : KeptAt(place, K, s, T, Len(s))
  BY KeepingPlaces
<1>2. K \in Seq(X)
  BY KeepingPlaces
<1> HIDE DEF K
<1>3. Entries(K) = Entries(s) \cap T
  <2>1. ASSUME NEW i \in 1 .. Len(K) PROVE K[i] \in Entries(s) \cap T
    <3>1. place[i] \in 1 .. Len(s) /\ K[i] = s[place[i]] /\ K[i] \in T
      BY <1>1 DEF KeptAt
    <3> QED BY <3>1 DEF Entries
  <2>2. ASSUME NEW k \in 1 .. Len(s), s[k] \in T PROVE s[k] \in Entries(K)
    <3>1. PICK i \in 1 .. Len(K) : place[i] = k
      BY <1>1, <2>2 DEF KeptAt
    <3>2. K[i] = s[k]
      BY <3>1, <1>1 DEF KeptAt
    <3> QED BY <3>2 DEF Entries
  <2> QED BY <2>1, <2>2 DEF Entries
<1> QED BY <1>3 DEF K

(* A list of which everything is kept stays as it is.                       *)
LEMMA KeepingAll ==
  ASSUME NEW X, NEW s \in Seq(X), NEW T, Entries(s) \subseteq T
  PROVE  Keeping(s, T) = s
<1>1. Len(s) \in Nat
  OBVIOUS
<1>2. PICK f : Keeps(f, s, T, Len(s)) /\ Keeping(s, T) = f[Len(s)]
  BY <1>1, KeepingSteps
<1>3. /\ f[0] = <<>>
      /\ \A n \in 1 .. Len(s) : f[n] = IF s[n] \in T THEN Append(f[n - 1], s[n]) ELSE f[n - 1]
  BY <1>1, <1>2, KeepsSteps
<1> DEFINE S == {n \in Nat : n <= Len(s) => f[n] = [i \in 1 .. n |-> s[i]]}
<1>4. 0 \in S
  <2>1. [i \in 1 .. 0 |-> s[i]] = <<>>
    OBVIOUS
  <2> QED BY <1>3, <2>1
<1>5. ASSUME NEW n \in Nat, n \in S PROVE n + 1 \in S
  <2> SUFFICES ASSUME n + 1 <= Len(s) PROVE f[n + 1] = [i \in 1 .. n + 1 |-> s[i]]
    OBVIOUS
  <2>1. f[n] = [i \in 1 .. n |-> s[i]]
    BY <1>1, <1>5
  <2>2. f[n + 1] = Append(f[n], s[n + 1])
    <3>1. n + 1 \in 1 .. Len(s) /\ (n + 1) - 1 = n
      BY <1>1
    <3>2. s[n + 1] \in T
      BY <3>1 DEF Entries
    <3> QED BY <3>1, <3>2, <1>3
  <2> DEFINE p == [i \in 1 .. n |-> s[i]]
             q == [i \in 1 .. n + 1 |-> s[i]]
  <2>3. p \in Seq(X) /\ Len(p) = n
    BY <1>1
  <2>4. q \in Seq(X) /\ Len(q) = n + 1
    BY <1>1
  <2>5. Append(p, s[n + 1]) \in Seq(X) /\ Len(Append(p, s[n + 1])) = n + 1
    BY <2>3, <1>1
  <2>6. \A i \in 1 .. n + 1 : Append(p, s[n + 1])[i] = q[i]
    BY <2>3
  <2> QED BY <2>1, <2>2, <2>4, <2>5, <2>6, SeqEqual
<1>6. Len(s) \in S
  <2> HIDE DEF S
  <2> QED BY <1>4, <1>5, <1>1, InductiveSet
<1>7. s = [i \in 1 .. Len(s) |-> s[i]]
  OBVIOUS
<1> QED BY <1>6, <1>7, <1>2, <1>1

(* Nothing that comes once comes twice in what is left.                      *)
LEMMA KeepingDistinct ==
  ASSUME NEW X, NEW s \in Seq(X), NEW T, Distinct(s)
  PROVE  Distinct(Keeping(s, T))
<1> DEFINE K == Keeping(s, T)
<1>1. PICK place : KeptAt(place, K, s, T, Len(s))
  BY KeepingPlaces
<1>2. K \in Seq(X)
  BY KeepingPlaces
<1> HIDE DEF K
<1>3. ASSUME NEW i \in 1 .. Len(K), NEW j \in 1 .. Len(K), K[i] = K[j]
      PROVE  i = j
  <2>1. place[i] = place[j]
    BY <1>1, <1>3 DEF KeptAt, Distinct
  <2>2. ~(i < j) /\ ~(j < i)
    <3>1. place[i] \in 1 .. Len(s) /\ place[j] \in 1 .. Len(s)
      BY <1>1 DEF KeptAt
    <3> QED  BY <1>1, <2>1, <3>1 DEF KeptAt
  <2> QED  BY <1>2, <2>2
<1> QED  BY <1>3 DEF K, Distinct

(* An element at the end of a list that did not have it.                     *)
LEMMA AppendDistinct ==
  ASSUME NEW X, NEW s \in Seq(X), NEW x \in X, Distinct(s), x \notin Entries(s)
  PROVE  Distinct(Append(s, x))
<1>1. Len(s) \in Nat /\ Len(Append(s, x)) = Len(s) + 1 /\ Append(s, x)[Len(s) + 1] = x
  OBVIOUS
<1>2. \A i \in 1 .. Len(s) : Append(s, x)[i] = s[i]
  OBVIOUS
<1>3. \A i \in 1 .. Len(s) : s[i] # x
  BY DEF Entries
<1>4. ASSUME NEW i \in 1 .. Len(s) + 1, NEW j \in 1 .. Len(s) + 1,
             Append(s, x)[i] = Append(s, x)[j]
      PROVE  i = j
  <2>1. CASE i \in 1 .. Len(s) /\ j \in 1 .. Len(s)
    BY <1>2, <1>4, <2>1 DEF Distinct
  <2>2. CASE i = Len(s) + 1
    BY <1>1, <1>2, <1>3, <1>4, <2>2
  <2>3. CASE j = Len(s) + 1
    BY <1>1, <1>2, <1>3, <1>4, <2>3
  <2> QED  BY <1>1, <2>1, <2>2, <2>3
<1> QED  BY <1>1, <1>4 DEF Distinct

LEMMA AppendEntries ==
  ASSUME NEW X, NEW s \in Seq(X), NEW x \in X
  PROVE  Append(s, x) \in Seq(X) /\ Entries(Append(s, x)) = Entries(s) \cup {x}
<1>1. Len(s) \in Nat /\ Len(Append(s, x)) = Len(s) + 1 /\ Append(s, x)[Len(s) + 1] = x
  OBVIOUS
<1>2. \A i \in 1 .. Len(s) : Append(s, x)[i] = s[i]
  OBVIOUS
<1>3. \A i : i \in 1 .. Len(s) + 1 <=> i \in 1 .. Len(s) \/ i = Len(s) + 1
  BY <1>1
<1>4. Entries(Append(s, x)) = Entries(s) \cup {x}
  BY <1>1, <1>2, <1>3 DEF Entries
<1> QED  BY <1>4

(* A list without repetition is as long as it has elements.                  *)
LEMMA DistinctCardinality ==
  ASSUME NEW X, NEW s \in Seq(X)
  PROVE  /\ IsFiniteSet(Entries(s))
         /\ Distinct(s) <=> Cardinality(Entries(s)) = Len(s)
<1> DEFINE f == [i \in 1 .. Len(s) |-> s[i]]
<1>1. Len(s) \in Nat /\ IsFiniteSet(1 .. Len(s)) /\ Cardinality(1 .. Len(s)) = Len(s)
  <2>1. Len(s) \in Nat
    OBVIOUS
  <2> QED  BY <2>1, FS_Interval
<1>2. f \in Surjection(1 .. Len(s), Entries(s))
  BY Fun_IsSurj DEF Entries
<1>3. IsFiniteSet(Entries(s)) /\ Cardinality(Entries(s)) <= Len(s)
      /\ (Cardinality(Entries(s)) = Len(s)
            <=> f \in Injection(1 .. Len(s), Entries(s)))
  <2> HIDE DEF f
  <2> QED  BY <1>1, <1>2, FS_Surjection
<1>4. Distinct(s) <=> f \in Injection(1 .. Len(s), Entries(s))
  <2>1. f \in [1 .. Len(s) -> Entries(s)]
    BY DEF Entries
  <2>2. \A i \in 1 .. Len(s) : f[i] = s[i]
    OBVIOUS
  <2> HIDE DEF f
  <2> QED  BY <2>1, <2>2 DEF Distinct, Injection, IsInjective
<1> QED  BY <1>3, <1>4

(* A list over what its elements are in.                                     *)
LEMMA ListOver ==
  ASSUME NEW X, NEW Y, NEW s \in Seq(X), Entries(s) \subseteq Y
  PROVE  s \in Seq(Y)
<1>1. Len(s) \in Nat /\ s \in [1 .. Len(s) -> X]
  OBVIOUS
<1>2. \A i \in 1 .. Len(s) : s[i] \in Y
  BY DEF Entries
<1>3. s \in [1 .. Len(s) -> Y]
  BY <1>1, <1>2
<1>4. \A n \in Nat : s \in [1 .. n -> Y] => s \in Seq(Y)
  BY IsAList
<1> QED  BY <1>1, <1>3, <1>4

(* Two lists joined.                                                        *)
LEMMA Joined ==
  ASSUME NEW X, NEW s \in Seq(X), NEW t \in Seq(X)
  PROVE  /\ s \o t \in Seq(X)
         /\ Entries(s \o t) = Entries(s) \cup Entries(t)
         /\ Distinct(s) /\ Distinct(t) /\ Entries(s) \cap Entries(t) = {} => Distinct(s \o t)
<1> DEFINE u == s \o t
<1>1. /\ u \in Seq(X) /\ Len(s) \in Nat /\ Len(t) \in Nat /\ Len(u) = Len(s) + Len(t)
      /\ \A i \in 1 .. Len(s) : u[i] = s[i]
      /\ \A i \in Len(s) + 1 .. Len(s) + Len(t) : u[i] = t[i - Len(s)]
  BY ConcatProperties
<1> HIDE DEF u
<1>2. \A j \in 1 .. Len(t) : u[j + Len(s)] = t[j] /\ j + Len(s) \in 1 .. Len(u)
  <2> TAKE j \in 1 .. Len(t)
  <2>1. j + Len(s) \in Len(s) + 1 .. Len(s) + Len(t) /\ (j + Len(s)) - Len(s) = j
    BY <1>1
  <2> QED  BY <1>1, <2>1
<1>3. \A i \in 1 .. Len(u) :
         \/ i \in 1 .. Len(s) /\ u[i] = s[i]
         \/ i - Len(s) \in 1 .. Len(t) /\ u[i] = t[i - Len(s)]
  BY <1>1
<1>4. Entries(u) \subseteq Entries(s) \cup Entries(t)
  BY <1>3 DEF Entries
<1>5. Entries(s) \subseteq Entries(u)
  BY <1>1 DEF Entries
<1>6. Entries(t) \subseteq Entries(u)
  BY <1>2 DEF Entries
<1>7. ASSUME Distinct(s), Distinct(t), Entries(s) \cap Entries(t) = {},
             NEW i \in 1 .. Len(u), NEW j \in 1 .. Len(u), u[i] = u[j]
      PROVE  i = j
  <2>1. CASE i \in 1 .. Len(s) /\ u[i] = s[i] /\ j \in 1 .. Len(s) /\ u[j] = s[j]
    BY <1>7, <2>1 DEF Distinct
  <2>2. CASE /\ i - Len(s) \in 1 .. Len(t) /\ u[i] = t[i - Len(s)]
             /\ j - Len(s) \in 1 .. Len(t) /\ u[j] = t[j - Len(s)]
    <3>1. i - Len(s) = j - Len(s)
      BY <1>7, <2>2 DEF Distinct
    <3> QED  BY <1>1, <3>1
  <2>3. \A a \in 1 .. Len(s), b \in 1 .. Len(t) : s[a] # t[b]
    BY <1>7 DEF Entries
  <2> QED  BY <1>3, <1>7, <2>1, <2>2, <2>3
<1>8. Distinct(s) /\ Distinct(t) /\ Entries(s) \cap Entries(t) = {} => Distinct(u)
  BY <1>7 DEF Distinct
<1> QED  BY <1>1, <1>4, <1>5, <1>6, <1>8 DEF u

(* The end of a list.                                                       *)
LEMMA TailOf ==
  ASSUME NEW X, NEW s \in Seq(X), NEW k \in Nat \ {0}, k <= Len(s) + 1
  PROVE  /\ SubSeq(s, k, Len(s)) \in Seq(X)
         /\ Len(SubSeq(s, k, Len(s))) = Len(s) - k + 1
         /\ \A i \in 1 .. Len(s) - k + 1 : SubSeq(s, k, Len(s))[i] = s[k + i - 1]
         /\ Distinct(s) => Distinct(SubSeq(s, k, Len(s)))
<1> DEFINE t == SubSeq(s, k, Len(s))
           n == Len(s) - k + 1
<1>1. Len(s) \in Nat /\ n \in Nat
  OBVIOUS
<1>2. /\ t \in Seq(X) /\ Len(t) = n
      /\ \A i \in 1 .. n : t[i] = s[k + i - 1]
  <2>1. \A i \in k .. Len(s) : s[i] \in X
    OBVIOUS
  <2>2. t = [i \in 1 .. n |-> s[i + k - 1]]
    BY <1>1
  <2>3. t \in [1 .. n -> X]
    BY <1>1, <2>1, <2>2
  <2> HIDE DEF n, t
  <2>4. t \in Seq(X) /\ Len(t) = n
    BY <1>1, <2>3, IsAList
  <2>5. \A i \in 1 .. n : t[i] = s[k + i - 1]
    BY <1>1, <2>2
  <2> QED  BY <2>4, <2>5
<1> HIDE DEF t
<1>3. ASSUME Distinct(s), NEW i \in 1 .. n, NEW j \in 1 .. n, t[i] = t[j]
      PROVE  i = j
  <2>1. k + i - 1 \in 1 .. Len(s) /\ k + j - 1 \in 1 .. Len(s)
    BY <1>1
  <2>2. k + i - 1 = k + j - 1
    BY <1>2, <1>3, <2>1 DEF Distinct
  <2> QED  BY <2>2
<1>4. Distinct(s) => Distinct(t)
  BY <1>2, <1>3 DEF Distinct
<1> QED  BY <1>2, <1>4 DEF t
=============================================================================
