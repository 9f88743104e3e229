------------------------------- MODULE Lemmas -------------------------------
(***************************************************************************)
(* Lemmas that know nothing of the gateway: about loops that double a      *)
(* number, lists in an order, and sums over a set.                         *)
(***************************************************************************)
EXTENDS Listing, WellFoundedInduction, FiniteSetTheorems, TLAPS

(***************************************************************************)
(* Loops that double a number, as recursive functions.  The theorems of    *)
(* the library about such functions have an operator as a parameter, which *)
(* the provers do not instantiate; so induction is done by hand, as the    *)
(* proof that there is no least counterexample.                            *)
(***************************************************************************)
LEMMA LeastNat ==
  ASSUME NEW T \in SUBSET Nat, T # {}
  PROVE  \E n \in T : \A m \in T : n <= m
<1>1. IsWellFoundedOn(OpToRel(<, Nat), Nat)
  BY NatLessThanWellFounded
<1>2. PICK n \in T : \A m \in T : ~(<<m, n>> \in OpToRel(<, Nat))
  BY <1>1, WFMin
<1>3. \A m \in T : ~(m < n)
  BY <1>2 DEF OpToRel
<1>4. QED
  BY <1>3

(* Rounds that double what they start with, but where it is in H. *)
IsRounds(f, S, B, H) ==
  \A i \in 0..B : f[i] = IF i <= 1 THEN S
                         ELSE IF f[i - 1] \in H THEN f[i - 1] ELSE 2 * f[i - 1]

LEMMA RoundsExist ==
  ASSUME NEW S \in Nat, NEW B \in Nat, NEW H
  PROVE  \E f \in [0..B -> Nat] : IsRounds(f, S, B, H)
<1> USE DEF IsRounds
<1> DEFINE After(n) ==
      \E f \in [0..n -> Nat] :
        \A i \in 0..n : f[i] = IF i <= 1 THEN S
                               ELSE IF f[i - 1] \in H THEN f[i - 1] ELSE 2 * f[i - 1]
           T == {n \in Nat : ~After(n)}
<1> SUFFICES ASSUME T # {} PROVE FALSE
  OBVIOUS
<1>1. PICK n \in T : \A m \in T : n <= m
  BY LeastNat
<1>2. CASE n = 0
  <2> DEFINE f == [i \in 0..0 |-> S]
  <2>1. f \in [0..0 -> Nat]
    OBVIOUS
  <2>2. \A i \in 0..0 : f[i] = IF i <= 1 THEN S
                               ELSE IF f[i - 1] \in H THEN f[i - 1] ELSE 2 * f[i - 1]
    OBVIOUS
  <2>3. After(0)
    BY <2>1, <2>2
  <2>4. QED
    BY <1>2, <2>3
<1>3. CASE n # 0
  <2>1. n - 1 \in Nat /\ n \in Nat /\ ~(n - 1 \in T)
    BY <1>1, <1>3
  <2>2. After(n - 1)
    BY <2>1
  <2>3. PICK f \in [0..(n - 1) -> Nat] :
          \A i \in 0..(n - 1) :
            f[i] = IF i <= 1 THEN S
                   ELSE IF f[i - 1] \in H THEN f[i - 1] ELSE 2 * f[i - 1]
    BY <2>2
  <2> DEFINE last == IF n <= 1 THEN S
                     ELSE IF f[n - 1] \in H THEN f[n - 1] ELSE 2 * f[n - 1]
             g == [i \in 0..n |-> IF i = n THEN last ELSE f[i]]
  <2>4. last \in Nat
    BY <2>1, <2>3
  <2>5. g \in [0..n -> Nat]
    BY <2>1, <2>3, <2>4
  <2> HIDE DEF last
  <2>6. ASSUME NEW i \in 0..n
        PROVE  g[i] = IF i <= 1 THEN S
                      ELSE IF g[i - 1] \in H THEN g[i - 1] ELSE 2 * g[i - 1]
    <3>1. CASE i = n
      <4>1. g[i] = last /\ (n > 1 => g[i - 1] = f[n - 1])
        BY <2>1, <3>1
      <4>2. QED
        BY <2>1, <3>1, <4>1 DEF last
    <3>2. CASE i # n
      <4>1. i \in 0..(n - 1) /\ g[i] = f[i] /\ (i > 1 => g[i - 1] = f[i - 1])
        BY <2>1, <3>2
      <4>2. QED
        BY <2>1, <2>3, <4>1
    <3>3. QED
      BY <3>1, <3>2
  <2>7. After(n)
    BY <2>5, <2>6
  <2>8. QED
    BY <1>1, <2>7
<1>4. QED
  BY <1>2, <1>3

(* Whatever keeps or doubles what it was a round before stays a number. *)
KeepsOrDoubles(f, S, B) ==
  \A i \in 0..B :
    \/ f[i] = S
    \/ i > 0 /\ (f[i] = f[i - 1] \/ f[i] = 2 * f[i - 1])

LEMMA RoundsAreNumbers ==
  ASSUME NEW S \in Nat, NEW B \in Nat, NEW f, KeepsOrDoubles(f, S, B)
  PROVE  \A i \in 0..B : f[i] \in Nat
<1> DEFINE T == {n \in Nat : n <= B /\ f[n] \notin Nat}
<1> SUFFICES ASSUME T # {} PROVE FALSE
  OBVIOUS
<1>1. PICK n \in T : \A m \in T : n <= m
  BY LeastNat
<1>2. n \in 0..B /\ f[n] \notin Nat
  BY <1>1
<1>3. n > 0 /\ (f[n] = f[n - 1] \/ f[n] = 2 * f[n - 1])
  BY <1>2 DEF KeepsOrDoubles
<1>4. n - 1 \in Nat /\ n - 1 <= B /\ ~(n <= n - 1)
  BY <1>2, <1>3
<1>5. f[n - 1] \in Nat
  BY <1>1, <1>4
<1>6. QED
  BY <1>2, <1>3, <1>5

(***************************************************************************)
(* Lists in an order.                                                      *)
(***************************************************************************)
IsListing(list, S, before) ==
  /\ list \in Seq(S) /\ Len(list) = Cardinality(S)
  /\ \A x \in S : \E i \in 1..Len(list) : list[i] = x
  /\ \A i, j \in 1..Len(list) : i < j => list[i] \in before[list[j]]
  /\ \A i \in 1..Len(list) : Cardinality(before[list[i]]) = i - 1

(* Listed lists each element of S once, in the given order.                *)
LEMMA ListedIsListing ==
  ASSUME NEW S, IsFiniteSet(S), NEW before, IsOrder(S, before)
  PROVE  IsListing(Listed(S, before), S, before)
<1> DEFINE n == Cardinality(S)
           Place == [x \in S |-> Cardinality(before[x]) + 1]
<1>1. n \in Nat
  BY FS_CardinalityType
<1>2. ASSUME NEW x \in S
      PROVE  IsFiniteSet(before[x]) /\ Cardinality(before[x]) \in Nat /\ Cardinality(before[x]) < n
  <2>1. before[x] \in SUBSET S /\ before[x] # S
    BY DEF IsOrder
  <2>2. IsFiniteSet(before[x]) /\ Cardinality(before[x]) <= n /\ Cardinality(before[x]) # n
    BY <2>1, FS_Subset
  <2>3. QED
    BY <1>1, <2>2, FS_CardinalityType
<1>3. Place \in [S -> 1..n]
  BY <1>1, <1>2
<1>4. ASSUME NEW x \in S, NEW y \in S, x \in before[y]
      PROVE  Cardinality(before[x]) < Cardinality(before[y])
  <2>1. before[x] \in SUBSET before[y] /\ before[x] # before[y]
    BY <1>4 DEF IsOrder
  <2>2. /\ Cardinality(before[x]) <= Cardinality(before[y])
        /\ Cardinality(before[x]) # Cardinality(before[y])
    BY <1>2, <2>1, FS_Subset
  <2>3. QED
    BY <1>2, <2>2
<1>5. ASSUME NEW x \in S, NEW y \in S, Cardinality(before[x]) = Cardinality(before[y])
      PROVE  x = y
  BY <1>2, <1>4, <1>5 DEF IsOrder
<1>6. ASSUME NEW x \in S, NEW y \in S, Place[x] = Place[y] PROVE x = y
  BY <1>2, <1>5, <1>6
<1>7. Place \in Injection(S, 1..n)
  BY <1>3, <1>6 DEF Injection, IsInjective
<1>8. IsFiniteSet(1..n) /\ Cardinality(1..n) = n
  BY <1>1, FS_Interval
<1>9. Place \in Surjection(S, 1..n)
  BY <1>7, <1>8, FS_Injection
<1>10. \A i \in 1..n : \E x \in S : Place[x] = i
  BY <1>9 DEF Surjection
<1> DEFINE L == Listed(S, before)
<1>11. ASSUME NEW i \in 1..n
       PROVE  L[i] \in S /\ Cardinality(before[L[i]]) = i - 1
  <2>1. \E x \in S : Cardinality(before[x]) = i - 1
    <3>1. PICK x \in S : Place[x] = i
      BY <1>10
    <3>2. Cardinality(before[x]) + 1 = i
      BY <3>1
    <3>3. QED
      BY <1>2, <3>2
  <2>2. L[i] = CHOOSE x \in S : Cardinality(before[x]) = i - 1
    BY DEF Listed
  <2>3. QED
    BY <2>1, <2>2
<1>12. L \in [1..n -> S]
  <2>1. L = [i \in 1..n |-> L[i]]
    BY DEF Listed
  <2>2. QED
    BY <1>11, <2>1
<1>13. L \in Seq(S) /\ Len(L) = n
  BY <1>1, <1>12
<1>14. ASSUME NEW x \in S PROVE \E i \in 1..n : L[i] = x
  <2>1. Place[x] \in 1..n /\ Place[x] - 1 = Cardinality(before[x])
    BY <1>2, <1>3
  <2>2. L[Place[x]] \in S /\ Cardinality(before[L[Place[x]]]) = Cardinality(before[x])
    BY <1>11, <2>1
  <2>3. L[Place[x]] = x
    BY <1>5, <2>2
  <2>4. QED
    BY <2>1, <2>3
<1>15. ASSUME NEW i \in 1..n, NEW j \in 1..n, i < j
       PROVE  L[i] \in before[L[j]]
  <2>1. /\ L[i] \in S /\ Cardinality(before[L[i]]) = i - 1
        /\ L[j] \in S /\ Cardinality(before[L[j]]) = j - 1
    BY <1>11
  <2> HIDE DEF L
  <2>2. ~(L[j] \in before[L[i]])
    <3>1. SUFFICES ASSUME L[j] \in before[L[i]] PROVE FALSE
      OBVIOUS
    <3>2. Cardinality(before[L[j]]) < Cardinality(before[L[i]])
      BY <1>4, <2>1, <3>1
    <3>3. QED
      BY <1>15, <2>1, <3>2
  <2>3. L[i] # L[j]
    BY <1>15, <2>1
  <2>4. QED
    BY <2>1, <2>2, <2>3 DEF IsOrder
<1>16. QED
  <2> HIDE DEF L
  <2>1. IsListing(L, S, before)
    BY <1>11, <1>13, <1>14, <1>15 DEF IsListing
  <2>2. QED
    BY <2>1 DEF L

(***************************************************************************)
(* Sums over a finite set, that a loop takes element by element.           *)
(***************************************************************************)
Some(S) == CHOOSE k \in S : TRUE

Summed(f, r, S) == IF S = {} THEN 0 ELSE r[Some(S)] + f[S \ {Some(S)}]

LEMMA SumsExist ==
  ASSUME NEW K, IsFiniteSet(K), NEW r \in [K -> Nat]
  PROVE  \E f \in [SUBSET K -> Nat] : \A S \in SUBSET K : f[S] = Summed(f, r, S)
<1> DEFINE Upto(n) == {S \in SUBSET K : Cardinality(S) <= n}
           After(n) == \E f \in [Upto(n) -> Nat] : \A S \in Upto(n) : f[S] = Summed(f, r, S)
           T == {n \in Nat : ~After(n)}
<1>1. \A S \in SUBSET K : /\ IsFiniteSet(S) /\ Cardinality(S) \in Nat
                          /\ Cardinality(S) <= Cardinality(K)
  BY FS_Subset, FS_CardinalityType
<1>2. \A S \in SUBSET K : S # {} => /\ Some(S) \in S /\ Some(S) \in K
                                    /\ S \ {Some(S)} \in SUBSET K
                                    /\ Cardinality(S \ {Some(S)}) = Cardinality(S) - 1
                                    /\ Cardinality(S) # 0
  <2>1. ASSUME NEW S \in SUBSET K, S # {}
        PROVE  /\ Some(S) \in S /\ Some(S) \in K
               /\ S \ {Some(S)} \in SUBSET K
               /\ Cardinality(S \ {Some(S)}) = Cardinality(S) - 1
               /\ Cardinality(S) # 0
    <3>1. Some(S) \in S
      BY <2>1 DEF Some
    <3>2. Cardinality(S \ {Some(S)}) = Cardinality(S) - 1
      BY <1>1, <3>1, FS_RemoveElement
    <3>3. Cardinality(S) # 0
      BY <1>1, <2>1, FS_EmptySet
    <3>4. QED
      BY <3>1, <3>2, <3>3
  <2>2. QED
    BY <2>1
<1>3. T = {}
  <2> SUFFICES ASSUME T # {} PROVE FALSE
    OBVIOUS
  <2>1. PICK n \in T : \A m \in T : n <= m
    BY LeastNat
  <2>2. n \in Nat /\ ~After(n)
    BY <2>1
  <2>3. CASE n = 0
    <3> DEFINE f == [S \in Upto(0) |-> 0]
    <3>1. ASSUME NEW S \in Upto(0) PROVE S = {}
      <4>1. Cardinality(S) = 0 /\ S \in SUBSET K
        <5>1. S \in SUBSET K /\ Cardinality(S) <= 0
          OBVIOUS
        <5>2. Cardinality(S) \in Nat
          BY <1>1
        <5>3. QED
          BY <5>1, <5>2
      <4>2. QED
        BY <1>2, <4>1
    <3>2. f \in [Upto(0) -> Nat] /\ \A S \in Upto(0) : f[S] = Summed(f, r, S)
      BY <3>1 DEF Summed
    <3>3. QED
      BY <2>2, <2>3, <3>2
  <2>4. CASE n # 0
    <3>1. n - 1 \in Nat /\ n - 1 \notin T
      <4>1. n - 1 \in Nat /\ ~(n <= n - 1)
        BY <2>2, <2>4
      <4> HIDE DEF T
      <4>2. QED
        BY <2>1, <4>1
    <3>2. PICK f \in [Upto(n - 1) -> Nat] : \A S \in Upto(n - 1) : f[S] = Summed(f, r, S)
      BY <3>1
    <3> DEFINE g == [S \in Upto(n) |-> Summed(f, r, S)]
    <3>3. ASSUME NEW S \in Upto(n), S # {}
          PROVE  S \ {Some(S)} \in Upto(n - 1) /\ r[Some(S)] \in Nat
      BY <1>1, <1>2, <2>2, <3>3
    <3>4. ASSUME NEW S \in Upto(n - 1) PROVE S \in Upto(n) /\ g[S] = f[S]
      BY <1>1, <2>2, <3>2, <3>4
    <3>5. ASSUME NEW S \in Upto(n) PROVE g[S] \in Nat /\ g[S] = Summed(g, r, S)
      <4>1. CASE S = {}
        BY <4>1 DEF Summed
      <4>2. CASE S # {}
        <5> DEFINE rest == S \ {Some(S)}
        <5>1. rest \in Upto(n - 1) /\ r[Some(S)] \in Nat
          BY <3>3, <4>2
        <5>2. f[rest] \in Nat /\ g[rest] = f[rest]
          BY <3>2, <3>4, <5>1
        <5>3. g[S] = r[Some(S)] + f[rest]
          BY <4>2 DEF Summed
        <5>4. Summed(g, r, S) = r[Some(S)] + g[rest]
          BY <4>2 DEF Summed
        <5> HIDE DEF rest, g
        <5>5. QED
          BY <5>1, <5>2, <5>3, <5>4
      <4>3. QED
        BY <4>1, <4>2
    <3>6. g \in [Upto(n) -> Nat] /\ \A S \in Upto(n) : g[S] = Summed(g, r, S)
      <4>1. g = [S \in Upto(n) |-> g[S]]
        OBVIOUS
      <4> HIDE DEF g
      <4>2. QED
        BY <3>5, <4>1
    <3> HIDE DEF g
    <3>7. QED
      BY <2>2, <3>6
  <2>5. QED
    BY <2>3, <2>4
<1>4. After(Cardinality(K))
  BY <1>1, <1>3, FS_CardinalityType
<1>5. Upto(Cardinality(K)) = SUBSET K
  BY <1>1
<1>6. QED
  BY <1>4, <1>5

LEMMA SummedIsNumber ==
  ASSUME NEW K, IsFiniteSet(K), NEW r \in [K -> Nat], NEW f,
         \A S \in SUBSET K : f[S] = Summed(f, r, S)
  PROVE  \A S \in SUBSET K : f[S] \in Nat
<1> DEFINE Bad == {S \in SUBSET K : f[S] \notin Nat}
           T == {n \in Nat : \E S \in Bad : Cardinality(S) = n}
<1>1. \A S \in SUBSET K : IsFiniteSet(S) /\ Cardinality(S) \in Nat
  BY FS_Subset, FS_CardinalityType
<1> SUFFICES ASSUME NEW R \in Bad PROVE FALSE
  OBVIOUS
<1>2. Cardinality(R) \in T
  BY <1>1
<1>3. PICK n \in T : \A m \in T : n <= m
  BY <1>2, LeastNat
<1>4. PICK S \in Bad : Cardinality(S) = n
  BY <1>3
<1>5. S \in SUBSET K /\ f[S] \notin Nat /\ S # {} /\ n \in Nat
  BY <1>3, <1>4 DEF Summed
<1>6. Some(S) \in S
  BY <1>5 DEF Some
<1>7. f[S] = r[Some(S)] + f[S \ {Some(S)}] /\ r[Some(S)] \in Nat
  BY <1>5, <1>6 DEF Summed
<1>8. S \ {Some(S)} \in Bad
  BY <1>5, <1>7
<1>9. Cardinality(S \ {Some(S)}) = n - 1
  BY <1>1, <1>4, <1>5, <1>6, FS_RemoveElement
<1>10. n - 1 \in T
  <2>1. Cardinality(S \ {Some(S)}) \in Nat
    BY <1>1, <1>5
  <2>2. QED
    BY <1>8, <1>9, <2>1
<1>11. ~(n <= n - 1)
  BY <1>5
<1> HIDE DEF T
<1>12. QED
  BY <1>3, <1>10, <1>11

(***************************************************************************)
(* What Thinned leaves of a list: the elements at some positions, in       *)
(* order, all of them when every position stays.                           *)
(***************************************************************************)
IsThinned(t, s, kept) ==
  \E order \in [1..Cardinality(kept) -> kept] :
    /\ t = [m \in 1..Cardinality(kept) |-> s[order[m]]]
    /\ \A l, m \in 1..Cardinality(kept) : l < m => order[l] < order[m]
    /\ \A i \in kept : \E m \in 1..Cardinality(kept) : order[m] = i
    /\ \A m \in 1..Cardinality(kept) : Cardinality({i \in kept : i < order[m]}) = m - 1

LEMMA ThinnedIsThinned ==
  ASSUME NEW n \in Nat, NEW s, NEW kept \in SUBSET (1..n)
  PROVE  Cardinality(kept) \in Nat /\ IsThinned(Thinned(s, kept), s, kept)
<1> DEFINE before == [i \in kept |-> {j \in kept : j < i}]
           order == Listed(kept, before)
<1>1. IsFiniteSet(kept) /\ Cardinality(kept) \in Nat
  <2>1. IsFiniteSet(1..n)
    BY FS_Interval
  <2>2. QED
    BY <2>1, FS_Subset, FS_CardinalityType
<1>2. \A i \in kept : i \in Int /\ before[i] = {j \in kept : j < i}
  OBVIOUS
<1>3. Thinned(s, kept) = [m \in DOMAIN order |-> s[order[m]]]
  BY DEF Thinned
<1> HIDE DEF before
<1>4. IsOrder(kept, before)
  <2>1. \A i, j \in kept : j \in before[i] <=> j < i
    BY <1>2
  <2>2. /\ \A i \in kept : before[i] \subseteq kept /\ i \notin before[i]
        /\ \A i, j \in kept : i # j => i \in before[j] \/ j \in before[i]
    <3>1. \A i \in kept : i \in 1..n
      OBVIOUS
    <3>2. \A i, j \in kept : i # j => i < j \/ j < i
      BY <3>1
    <3>3. \A i \in kept : before[i] \subseteq kept
      BY <1>2
    <3>4. \A i \in kept : i \notin before[i]
      BY <2>1, <3>1
    <3>5. \A i, j \in kept : i # j => i \in before[j] \/ j \in before[i]
      BY <2>1, <3>2
    <3>6. QED
      BY <3>3, <3>4, <3>5
  <2>3. ASSUME NEW i \in kept, NEW j \in kept, i \in before[j] PROVE before[i] \subseteq before[j]
    <3>1. i < j /\ i \in Int /\ j \in Int
      BY <1>2, <2>1, <2>3
    <3>2. \A h \in kept : h \in Int /\ (h < i => h < j)
      BY <1>2, <3>1
    <3>3. before[i] = {h \in kept : h < i} /\ before[j] = {h \in kept : h < j}
      BY <1>2
    <3>4. QED
      BY <3>2, <3>3
  <2>4. QED
    BY <2>2, <2>3 DEF IsOrder
<1>5. IsListing(order, kept, before)
  BY <1>1, <1>4, ListedIsListing
<1> HIDE DEF order
<1>6. /\ Len(order) = Cardinality(kept) /\ order \in Seq(kept)
      /\ \A i \in kept : \E m \in 1..Len(order) : order[m] = i
      /\ \A l, m \in 1..Len(order) : l < m => order[l] \in before[order[m]]
      /\ \A m \in 1..Len(order) : Cardinality(before[order[m]]) = m - 1
  BY <1>5 DEF IsListing
<1>7. order \in [1..Cardinality(kept) -> kept] /\ DOMAIN order = 1..Cardinality(kept)
  BY <1>6
<1>8. \A l, m \in 1..Cardinality(kept) : l < m => order[l] < order[m]
  BY <1>2, <1>6, <1>7
<1>9. \A m \in 1..Cardinality(kept) : Cardinality({i \in kept : i < order[m]}) = m - 1
  BY <1>2, <1>6, <1>7
<1>10. \A i \in kept : \E m \in 1..Cardinality(kept) : order[m] = i
  BY <1>6
<1>11. Thinned(s, kept) = [m \in 1..Cardinality(kept) |-> s[order[m]]]
  BY <1>3, <1>7
<1>12. QED
  BY <1>1, <1>7, <1>8, <1>9, <1>10, <1>11 DEF IsThinned

LEMMA ThinnedOfAll ==
  ASSUME NEW n \in Nat, NEW s
  PROVE  Thinned(s, 1..n) = [m \in 1..n |-> s[m]]
<1>1. Cardinality(1..n) = n
  BY FS_Interval
<1>2. IsThinned(Thinned(s, 1..n), s, 1..n)
  BY ThinnedIsThinned
<1>3. PICK order \in [1..n -> 1..n] :
        /\ Thinned(s, 1..n) = [m \in 1..n |-> s[order[m]]]
        /\ \A m \in 1..n : Cardinality({i \in 1..n : i < order[m]}) = m - 1
  <2> DEFINE thinned == Thinned(s, 1..n)
  <2>1. IsThinned(thinned, s, 1..n)
    BY <1>2
  <2> HIDE DEF thinned
  <2>2. \E order \in [1..n -> 1..n] :
          /\ thinned = [m \in 1..n |-> s[order[m]]]
          /\ \A m \in 1..n : Cardinality({i \in 1..n : i < order[m]}) = m - 1
    BY ONLY <1>1, <2>1 DEF IsThinned
  <2>3. QED
    BY <2>2 DEF thinned
<1>4. ASSUME NEW m \in 1..n PROVE order[m] = m
  <2>1. order[m] \in 1..n
    BY <1>3
  <2>2. {i \in 1..n : i < order[m]} = 1..(order[m] - 1) /\ order[m] - 1 \in Nat
    <3>1. \A k \in 1..n : k - 1 \in Nat /\ \A i \in 1..n : i < k <=> i \in 1..(k - 1)
      OBVIOUS
    <3>2. \A k \in 1..n : 1..(k - 1) \subseteq 1..n
      OBVIOUS
    <3>3. order[m] - 1 \in Nat /\ \A i \in 1..n : i < order[m] <=> i \in 1..(order[m] - 1)
      BY <2>1, <3>1
    <3>4. 1..(order[m] - 1) \subseteq 1..n
      BY <2>1, <3>2
    <3>5. QED
      BY <3>3, <3>4
  <2>3. Cardinality(1..(order[m] - 1)) = order[m] - 1
    BY <2>2, FS_Interval
  <2>4. Cardinality({i \in 1..n : i < order[m]}) = m - 1
    BY <1>3
  <2>5. order[m] - 1 = m - 1
    BY ONLY <2>2, <2>3, <2>4
  <2>6. QED
    BY <2>1, <2>5
<1>5. QED
  BY <1>3, <1>4
=============================================================================
