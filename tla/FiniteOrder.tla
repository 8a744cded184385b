---------------------------- MODULE FiniteOrder ----------------------------
(* Lemmas that the proofs of this project share: about the least elements   *)
(* of a set of numbers, and of a finite set under a total order, and about  *)
(* a sequence cut down to a set.  An argument by induction over numbers is  *)
(* one about the least counterexample.                                      *)
EXTENDS Filter, Integers, FiniteSetTheorems, WellFoundedInduction, TLAPS

(* The least-number principle, for a set.                                   *)
LEMMA LeastNat ==
  ASSUME NEW T, T \subseteq Nat, T # {}
  PROVE  \E m \in T : \A n \in T : m <= n
<1> DEFINE R == OpToRel(<, Nat)
<1>1. IsWellFoundedOn(R, Nat)
  BY NatLessThanWellFounded
<1>2. PICK m \in T : \A n \in T : <<n, m>> \notin R
  BY <1>1, WFMin
<1>3. \A n \in T : ~(n < m)
  BY <1>2 DEF OpToRel
<1> QED BY <1>3

(* A total order, as a set of pairs.                                        *)
TotalOn(R, S) ==
    /\ \A a, b, c \in S : <<a, b>> \in R /\ <<b, c>> \in R => <<a, c>> \in R
    /\ \A a, b \in S : a # b => <<a, b>> \in R \/ <<b, a>> \in R

LeastIn(R, S, m) == m \in S /\ \A d \in S \ {m} : <<m, d>> \in R

(* A finite set that is not empty has a least element.                      *)
LEMMA FiniteLeast ==
  ASSUME NEW S, IsFiniteSet(S), S # {}, NEW R, TotalOn(R, S)
  PROVE  \E m \in S : \A d \in S \ {m} : <<m, d>> \in R
<1> DEFINE Bad == {U \in SUBSET S : U # {} /\ ~ \E m \in U : LeastIn(R, U, m)}
           Sizes == {Cardinality(U) : U \in Bad}
<1>1. \A U \in SUBSET S : IsFiniteSet(U) /\ Cardinality(U) \in Nat
  BY FS_Subset, FS_CardinalityType
<1>2. CASE Bad = {}
  <2>1. S \notin Bad
    BY <1>2
  <2> QED BY <2>1 DEF LeastIn
<1>3. CASE Bad # {}
  <2>1. Sizes \subseteq Nat /\ Sizes # {}
    BY <1>1, <1>3
  <2>2. PICK n \in Sizes : \A m \in Sizes : n <= m
    BY <2>1, LeastNat
  <2>3. PICK U \in Bad : n = Cardinality(U)
    BY <2>2
  <2>4. PICK x \in U : TRUE
    OBVIOUS
  <2> DEFINE V == U \ {x}
  <2>5. V \in SUBSET S /\ Cardinality(V) = Cardinality(U) - 1
    BY <1>1, <2>3, <2>4, FS_RemoveElement
  <2>6. V \notin Bad
    <3> SUFFICES ASSUME V \in Bad PROVE FALSE
      OBVIOUS
    <3>1. Cardinality(V) \in Sizes
      OBVIOUS
    <3>2. n \in Nat
      BY <2>1
    <3> HIDE DEF V, Bad, Sizes
    <3> QED BY <2>2, <2>3, <2>5, <3>1, <3>2
  <2>7. CASE V = {}
    <3>1. U = {x}
      BY <2>4, <2>7
    <3> QED BY <3>1, <2>3 DEF LeastIn
  <2>8. CASE V # {}
    <3>1. PICK m \in V : LeastIn(R, V, m)
      BY <2>5, <2>6, <2>8
    <3>2. m # x /\ m \in S /\ x \in S /\ U \subseteq S
      BY <2>3, <2>4, <3>1
    <3>3. CASE <<m, x>> \in R
      <4>1. LeastIn(R, U, m)
        BY <3>1, <3>3, <2>4 DEF LeastIn
      <4> QED BY <4>1, <2>3 DEF LeastIn
    <3>4. CASE <<x, m>> \in R
      <4>1. \A d \in U \ {x} : <<x, d>> \in R
        BY <3>1, <3>2, <3>4 DEF LeastIn, TotalOn
      <4>2. LeastIn(R, U, x)
        BY <4>1, <2>4 DEF LeastIn
      <4> QED BY <4>2, <2>3 DEF LeastIn
    <3> QED BY <3>2, <3>3, <3>4 DEF TotalOn
  <2> QED BY <2>7, <2>8
<1> QED BY <1>2, <1>3

(* How many numbers of P there are up to i.                                 *)
Rank(P, i) == Cardinality({j \in P : j <= i})

LEMMA Ranks ==
  ASSUME NEW P, P \subseteq Nat, IsFiniteSet(P)
  PROVE  /\ Cardinality(P) \in Nat
         /\ \A i \in P : Rank(P, i) \in 1 .. Cardinality(P)
         /\ \A i, j \in P : Rank(P, i) = Rank(P, j) => i = j
<1> DEFINE Upto(i) == {j \in P : j <= i}
<1>1. \A i \in P : Upto(i) \subseteq P /\ IsFiniteSet(Upto(i)) /\ i \in Upto(i)
  <2> SUFFICES ASSUME NEW i \in P PROVE Upto(i) \subseteq P /\ IsFiniteSet(Upto(i)) /\ i \in Upto(i)
    OBVIOUS
  <2>1. Upto(i) \subseteq P /\ i \in Upto(i)
    OBVIOUS
  <2> QED BY <2>1, FS_Subset
<1>2. \A i \in P : Rank(P, i) \in 1 .. Cardinality(P)
  <2> SUFFICES ASSUME NEW i \in P PROVE Rank(P, i) \in 1 .. Cardinality(P)
    OBVIOUS
  <2>1. Cardinality(Upto(i)) <= Cardinality(P)
    BY <1>1, FS_Subset
  <2>2. Cardinality(Upto(i)) # 0
    BY <1>1, FS_EmptySet
  <2>3. Cardinality(Upto(i)) \in Nat /\ Cardinality(P) \in Nat
    BY <1>1, FS_CardinalityType
  <2> QED BY <2>1, <2>2, <2>3 DEF Rank
<1>3. ASSUME NEW i \in P, NEW j \in P, i < j PROVE Rank(P, i) # Rank(P, j)
  <2>0. i \in Nat /\ j \in Nat
    OBVIOUS
  <2>1. Upto(i) \subseteq Upto(j) /\ j \in Upto(j) /\ j \notin Upto(i)
    <3>1. \A m \in P : m <= i => m <= j
      <4> SUFFICES ASSUME NEW m \in P, m <= i PROVE m <= j
        OBVIOUS
      <4>1. m \in Nat
        OBVIOUS
      <4> QED BY <1>3, <2>0, <4>1
    <3>2. j <= j /\ ~(j <= i)
      BY <1>3, <2>0
    <3> QED BY <3>1, <3>2
  <2>2. Upto(i) # Upto(j)
    BY <2>1
  <2> HIDE DEF Upto
  <2>3. Cardinality(Upto(i)) # Cardinality(Upto(j))
    BY <1>1, <2>1, <2>2, FS_Subset
  <2> QED BY <2>3 DEF Rank, Upto
<1>4. Cardinality(P) \in Nat
  BY FS_CardinalityType
<1>5. \A i, j \in P : i < j \/ j < i \/ i = j
  OBVIOUS
<1> QED BY <1>2, <1>3, <1>4, <1>5

LEMMA RankGrows ==
  ASSUME NEW P, P \subseteq Nat, IsFiniteSet(P), NEW i \in P, NEW j \in P, i <= j
  PROVE  Rank(P, i) <= Rank(P, j)
<1> DEFINE U == {m \in P : m <= i}
           W == {m \in P : m <= j}
<1>1. U \subseteq W
  <2> SUFFICES ASSUME NEW m \in P, m <= i PROVE m <= j
    OBVIOUS
  <2>1. m \in Nat /\ i \in Nat /\ j \in Nat
    OBVIOUS
  <2> QED BY <2>1
<1>2. IsFiniteSet(W)
  BY FS_Subset
<1>3. Cardinality(U) <= Cardinality(W)
  BY <1>1, <1>2, FS_Subset
<1> QED BY <1>3 DEF Rank

(* The k-th number of P is there, and its rank is k.                        *)
LEMMA NthIs ==
  ASSUME NEW P, P \subseteq Nat, IsFiniteSet(P), NEW k \in 1 .. Cardinality(P)
  PROVE  Nth(P, k) \in P /\ Rank(P, Nth(P, k)) = k
<1> DEFINE n == Cardinality(P)
           f == [i \in P |-> Rank(P, i)]
<1>1. n \in Nat /\ f \in Injection(P, 1 .. n)
  BY Ranks DEF Injection, IsInjective
<1>2. IsFiniteSet(1 .. n) /\ Cardinality(1 .. n) = n
  BY <1>1, FS_Interval
<1> HIDE DEF f
<1>3. f \in Surjection(P, 1 .. n)
  BY <1>1, <1>2, FS_Injection
<1>4. \E i \in P : f[i] = k
  BY <1>3 DEF Surjection
<1>5. \E i \in P : Cardinality({j \in P : j <= i}) = k
  BY <1>4 DEF f, Rank
<1> QED BY <1>5 DEF Nth, Rank

LEMMA PlacesFinite ==
  ASSUME NEW A, NEW s \in Seq(A), NEW S
  PROVE  /\ PlacesOf(s, S) \subseteq DOMAIN s /\ PlacesOf(s, S) \subseteq Nat
         /\ IsFiniteSet(PlacesOf(s, S)) /\ Cardinality(PlacesOf(s, S)) \in Nat
<1>1. DOMAIN s = 1 .. Len(s) /\ Len(s) \in Nat
  OBVIOUS
<1>2. PlacesOf(s, S) \subseteq DOMAIN s /\ PlacesOf(s, S) \subseteq Nat
  BY <1>1 DEF PlacesOf
<1>3. IsFiniteSet(DOMAIN s)
  BY <1>1, FS_Interval
<1>4. IsFiniteSet(PlacesOf(s, S))
  BY <1>2, <1>3, FS_Subset
<1> QED BY <1>2, <1>4, FS_CardinalityType

(* Only(s, S) takes the places of s that hold a member of S, each once and  *)
(* in their order, and no other.                                            *)
LEMMA OnlyTakes ==
  ASSUME NEW A, NEW s \in Seq(A), NEW S
  PROVE  \E f \in [DOMAIN Only(s, S) -> DOMAIN s] :
            /\ \A k \in DOMAIN Only(s, S) : Only(s, S)[k] = s[f[k]] /\ s[f[k]] \in S
            /\ \A j, k \in DOMAIN Only(s, S) : f[j] = f[k] => j = k
            /\ \A j, k \in DOMAIN Only(s, S) : j < k => f[j] < f[k]
            /\ \A i \in DOMAIN s : s[i] \in S => \E k \in DOMAIN Only(s, S) : f[k] = i
<1> DEFINE P == PlacesOf(s, S)
           n == Cardinality(P)
           f == [k \in 1 .. n |-> Nth(P, k)]
<1>2. P \subseteq DOMAIN s /\ P \subseteq Nat
  BY PlacesFinite
<1>3. IsFiniteSet(P) /\ n \in Nat
  BY PlacesFinite
<1>4. DOMAIN Only(s, S) = 1 .. n
  BY DEF Only
<1>5. \A k \in 1 .. n : Nth(P, k) \in P /\ Rank(P, Nth(P, k)) = k
  BY <1>2, <1>3, NthIs
<1>6. \A i \in P : Rank(P, i) \in 1 .. n
  BY <1>2, <1>3, Ranks
<1>7. \A i, j \in P : Rank(P, i) = Rank(P, j) => i = j
  BY <1>2, <1>3, Ranks
<1>8. \A k \in 1 .. n : Only(s, S)[k] = s[Nth(P, k)]
  BY DEF Only
<1>9. \A i \in P : i \in DOMAIN s /\ s[i] \in S
  BY DEF PlacesOf
<1>10. \A i \in DOMAIN s : s[i] \in S => i \in P
  BY DEF PlacesOf
<1> HIDE DEF P, n
<1>11. f \in [1 .. n -> DOMAIN s]
  BY <1>5, <1>9
<1>12. \A k \in 1 .. n : Only(s, S)[k] = s[f[k]] /\ s[f[k]] \in S
  BY <1>5, <1>8, <1>9
<1>13. \A j, k \in 1 .. n : f[j] = f[k] => j = k
  BY <1>5
<1>14. \A i \in DOMAIN s : s[i] \in S => \E k \in 1 .. n : f[k] = i
  <2> SUFFICES ASSUME NEW i \in DOMAIN s, s[i] \in S PROVE \E k \in 1 .. n : f[k] = i
    OBVIOUS
  <2>1. i \in P /\ Rank(P, i) \in 1 .. n
    BY <1>6, <1>10
  <2>2. Nth(P, Rank(P, i)) = i
    BY <2>1, <1>5, <1>7
  <2> QED BY <2>1, <2>2
<1>16. \A j, k \in 1 .. n : j < k => f[j] < f[k]
  <2> SUFFICES ASSUME NEW j \in 1 .. n, NEW k \in 1 .. n, ~(f[j] < f[k]) PROVE ~(j < k)
    OBVIOUS
  <2>1. f[j] \in P /\ f[k] \in P /\ Rank(P, f[j]) = j /\ Rank(P, f[k]) = k
    BY <1>5
  <2>2. f[k] <= f[j]
    BY <2>1, <1>2
  <2>3. Rank(P, f[k]) <= Rank(P, f[j])
    BY <2>1, <2>2, <1>2, <1>3, RankGrows
  <2> QED BY <2>1, <2>3, <1>3
<1> HIDE DEF f
<1>15. /\ f \in [DOMAIN Only(s, S) -> DOMAIN s]
       /\ \A k \in DOMAIN Only(s, S) : Only(s, S)[k] = s[f[k]] /\ s[f[k]] \in S
       /\ \A j, k \in DOMAIN Only(s, S) : f[j] = f[k] => j = k
       /\ \A j, k \in DOMAIN Only(s, S) : j < k => f[j] < f[k]
       /\ \A i \in DOMAIN s : s[i] \in S => \E k \in DOMAIN Only(s, S) : f[k] = i
  BY <1>4, <1>11, <1>12, <1>13, <1>14, <1>16, Zenon
<1> QED BY <1>15, Zenon

(* So it is a sequence of those members of S that s has, and s must have an *)
(* entry twice for it to have one twice.                                    *)
LEMMA OnlyIs ==
  ASSUME NEW A, NEW s \in Seq(A), NEW S
  PROVE  /\ Only(s, S) \in Seq(A \cap S)
         /\ {Only(s, S)[k] : k \in DOMAIN Only(s, S)} = {s[k] : k \in DOMAIN s} \cap S
<1> DEFINE t == Only(s, S)
<1>1. PICK f \in [DOMAIN t -> DOMAIN s] :
            /\ \A k \in DOMAIN t : t[k] = s[f[k]] /\ s[f[k]] \in S
            /\ \A i \in DOMAIN s : s[i] \in S => \E k \in DOMAIN t : f[k] = i
  BY OnlyTakes
<1>2. \E m \in Nat : t = [k \in 1 .. m |-> t[k]]
  <2>3. Cardinality(PlacesOf(s, S)) \in Nat
    BY PlacesFinite
  <2>4. t = [k \in 1 .. Cardinality(PlacesOf(s, S)) |-> t[k]]
    BY DEF Only
  <2> HIDE DEF t
  <2> QED BY <2>3, <2>4
<1>3. \A k \in DOMAIN s : s[k] \in A
  OBVIOUS
<1> HIDE DEF t
<1>4. \A k \in DOMAIN t : t[k] \in A \cap S
  BY <1>1, <1>3
<1>5. t \in Seq(A \cap S)
  BY <1>2, <1>4
<1>6. {t[k] : k \in DOMAIN t} = {s[k] : k \in DOMAIN s} \cap S
  BY <1>1
<1> QED BY <1>5, <1>6 DEF t
=============================================================================
