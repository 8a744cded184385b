----------------------- MODULE LevelCompactionProofs -----------------------
(* Theorems about LevelCompaction, for any keys, levels, ranges and bounds: *)
(* the types, the tables of a level stay apart, newer entries stay above    *)
(* older ones of their key, and so every read finds what was last written.  *)
EXTENDS LevelCompaction, FiniteOrder, SequenceTheorems

-----------------------------------------------------------------------------
(* Reads.                                                                   *)

\* As sequence numbers are, over the whole history.
Distinct(S) == \A a, b \in S : a.seq = b.seq => a = b
Entries == [key : Nat, seq : Nat, del : BOOLEAN]

(* A key that has an entry a reader may see has a newest one.               *)
LEMMA NewestExists ==
  ASSUME NEW S, S \subseteq Entries, NEW k, NEW q \in Nat, Seen(S, k, q) # {}
  PROVE  \E e \in S : Newest(S, k, q, e)
<1> DEFINE T == {q - e.seq : e \in Seen(S, k, q)}
<1>1. \A e \in Seen(S, k, q) : e \in S /\ e.seq \in Nat /\ e.seq <= q
  BY DEF Seen, Entries
<1>2. T \subseteq Nat /\ T # {}
  BY <1>1
<1>3. PICK m \in T : \A n \in T : m <= n
  BY <1>2, LeastNat
<1>4. PICK e \in Seen(S, k, q) : m = q - e.seq
  BY <1>3
<1>5. ASSUME NEW d \in Seen(S, k, q) PROVE d.seq <= e.seq
  <2>1. q - d.seq \in T
    OBVIOUS
  <2>2. q - e.seq <= q - d.seq
    BY <1>3, <1>4, <2>1
  <2> QED BY <1>1, <2>2
<1> QED BY <1>1, <1>5 DEF Newest

(* It is the one that tells the value.                                      *)
LEMMA NewestTells ==
  ASSUME NEW S, S \subseteq Entries, Distinct(S), NEW k, NEW q \in Nat,
         NEW e \in S, Newest(S, k, q, e)
  PROVE  Value(S, k, q) = IF e.del THEN 0 ELSE e.seq
<1>1. \A d \in S : Newest(S, k, q, d) => d = e
  <2> SUFFICES ASSUME NEW d \in S, Newest(S, k, q, d) PROVE d.seq = e.seq
    BY DEF Distinct
  <2>1. d.seq \in Nat /\ e.seq \in Nat
    BY DEF Entries
  <2> QED BY <2>1 DEF Newest
<1>2. (CHOOSE d \in S : Newest(S, k, q, d)) = e
  BY <1>1
<1>3. Seen(S, k, q) # {}
  BY DEF Newest
<1> QED BY <1>2, <1>3 DEF Value

\* Where a deletion of S may be dropped, what R has of its key is newer.
NewerIn(R, S, base) == \A s \in S, r \in R : s.key \in base /\ r.key = s.key => s.seq < r.seq

(* The drop rule of DoCompactionWork.  A compaction of the entries S keeps  *)
(* Kept(S, small, base); R is what is elsewhere.  Where a deletion may be   *)
(* dropped (base), no entry elsewhere is older than one of the inputs: that *)
(* is IsBaseLevelForKey, and the levels above.  Then no reader at or above  *)
(* the smallest snapshot can tell the difference.                           *)
THEOREM DropRule ==
  ASSUME NEW S, NEW R, S \cup R \subseteq Entries, Distinct(S \cup R),
         NEW small \in Nat, NEW base, NewerIn(R, S, base),
         NEW k, NEW q \in Nat, small <= q
  PROVE  Value(Kept(S, small, base) \cup R, k, q) = Value(S \cup R, k, q)
<1> DEFINE All == S \cup R
           Left == Kept(S, small, base) \cup R
<1>1. Left \subseteq All /\ Left \subseteq Entries /\ Distinct(Left)
  BY DEF Kept, Distinct
<1>2. CASE Seen(All, k, q) = {}
  <2>1. Seen(Left, k, q) = {}
    BY <1>1, <1>2 DEF Seen
  <2> QED BY <1>2, <2>1 DEF Value
<1>3. CASE Seen(All, k, q) # {}
  <2>1. PICK e \in All : Newest(All, k, q, e)
    BY <1>3, NewestExists
  <2>2. e.key = k /\ e.seq <= q /\ e.seq \in Nat
    BY <2>1 DEF Newest, Seen, Entries
  <2>3. \A d \in All : d.key = k /\ d.seq <= q => d.seq <= e.seq
    BY <2>1 DEF Newest, Seen
  <2>4. CASE e \in Left
    <3>1. Newest(Left, k, q, e)
      BY <1>1, <2>2, <2>3, <2>4 DEF Newest, Seen
    <3> QED BY <1>1, <2>1, <2>4, <3>1, NewestTells
  <2>5. CASE e \notin Left
    <3>1. e \in S /\ e \notin R
      BY <2>5
    <3>2. ~Hidden(S, small, e)
      <4> SUFFICES ASSUME NEW d \in S, d.key = e.key, e.seq < d.seq, d.seq <= small
                   PROVE  FALSE
        BY DEF Hidden
      <4>1. d.seq \in Nat
        BY DEF Entries
      <4>2. d.seq <= q
        BY <4>1
      <4> QED BY <2>2, <2>3, <4>1, <4>2
    <3>3. e.del /\ e.seq <= small /\ e.key \in base
      BY <2>5, <3>1, <3>2 DEF Kept, Obsolete
    <3>4. Seen(Left, k, q) = {}
      <4> SUFFICES ASSUME NEW d \in Left, d.key = k, d.seq <= q PROVE FALSE
        BY DEF Seen
      <4>1. d.seq \in Nat /\ d.seq <= e.seq
        BY <1>1, <2>3 DEF Entries
      <4>2. CASE d \in R
        BY <2>2, <3>1, <3>3, <4>1, <4>2 DEF NewerIn
      <4>3. CASE d \notin R
        <5>1. d \in Kept(S, small, base) /\ d \in S
          BY <4>3 DEF Kept
        <5>2. d # e
          BY <2>5
        <5>3. d.seq < e.seq
          BY <2>2, <3>1, <4>1, <5>1, <5>2 DEF Distinct
        <5>4. Hidden(S, small, d)
          BY <2>2, <3>1, <3>3, <5>3 DEF Hidden
        <5> QED BY <5>1, <5>4 DEF Kept
      <4> QED BY <4>2, <4>3
    <3>5. Value(Left, k, q) = 0
      BY <3>4 DEF Value
    <3>6. Value(All, k, q) = 0
      BY <2>1, <3>3, NewestTells
    <3> QED BY <3>5, <3>6
  <2> QED BY <2>4, <2>5
<1> QED BY <1>2, <1>3

-----------------------------------------------------------------------------
(* Snapshots while a compaction runs.                                       *)

SnapInv ==
    /\ IsFiniteSet(hist)
    /\ snaps \subseteq 0..LastSequence
    /\ comp.small \in Nat
    /\ ReadersAboveSmall

LEMMA LastIsNat == ASSUME IsFiniteSet(hist) PROVE LastSequence \in Nat
BY FS_CardinalityType DEF LastSequence

(* A compaction that begins takes the oldest snapshot.                      *)
LEMMA BeginKeeps ==
  ASSUME SnapInv, NEW n, NEW p, NEW manual, Begun(n, p, manual),
         UNCHANGED <<hist, snaps>>
  PROVE  SnapInv'
<1> USE DEF SnapInv
<1>1. LastSequence \in Nat /\ LastSequence' = LastSequence
  BY LastIsNat DEF LastSequence
<1>2. comp'.small = SmallestSnapshot
  BY DEF Begun
<1>3. CASE snaps = {}
  BY <1>1, <1>2, <1>3 DEF SmallestSnapshot, ReadersAboveSmall
<1>4. CASE snaps # {}
  <2>1. snaps \subseteq Nat
    BY <1>1
  <2>2. \E s \in snaps : \A r \in snaps : s <= r
    BY <1>4, <2>1, LeastNat
  <2>3. SmallestSnapshot \in snaps /\ \A r \in snaps : SmallestSnapshot <= r
    BY <1>4, <2>2 DEF SmallestSnapshot
  <2>4. SmallestSnapshot \in Nat /\ SmallestSnapshot <= LastSequence
    BY <1>1, <2>3
  <2> QED BY <1>1, <1>2, <2>3, <2>4 DEF ReadersAboveSmall
<1> QED BY <1>3, <1>4

(* ReadersAboveSmall: DropRule's condition on q holds of every reader, of   *)
(* those too that come while DoCompactionWork has given up the mutex.       *)
THEOREM ReadersAboveSmallHolds == Spec => []ReadersAboveSmall
<1>1. Init => SnapInv
  <2> SUFFICES ASSUME Init PROVE SnapInv
    OBVIOUS
  <2>1. IsFiniteSet(hist) /\ LastSequence = 0
    BY FS_EmptySet DEF Init, LastSequence
  <2> QED BY <2>1 DEF Init, SnapInv, ReadersAboveSmall, NoCompaction
<1>2. ASSUME SnapInv, [Next]_vars PROVE SnapInv'
  <2> USE <1>2 DEF SnapInv
  <2>0. LastSequence \in Nat
    BY LastIsNat
  <2>1. CASE UNCHANGED <<hist, snaps, comp>>
    BY <2>1 DEF ReadersAboveSmall, LastSequence
  <2>2. ASSUME NEW k \in Keys, NEW d \in BOOLEAN, Write(k, d) PROVE SnapInv'
    <3>1. PICK e : hist' = hist \cup {e}
      BY <2>2 DEF Write
    <3>2. IsFiniteSet(hist') /\ LastSequence' \in Nat /\ LastSequence <= LastSequence'
      <4>1. /\ IsFiniteSet(hist \cup {e})
            /\ \/ Cardinality(hist \cup {e}) = Cardinality(hist)
               \/ Cardinality(hist \cup {e}) = Cardinality(hist) + 1
        BY FS_AddElement
      <4> QED BY <2>0, <3>1, <4>1 DEF LastSequence
    <3>3. UNCHANGED <<snaps, comp>>
      BY <2>2 DEF Write
    <3> QED BY <2>0, <3>2, <3>3 DEF ReadersAboveSmall
  <2>3. CASE GetSnapshot
    <3>1. LastSequence' = LastSequence /\ UNCHANGED <<hist, comp>>
      BY <2>3 DEF GetSnapshot, LastSequence
    <3> QED BY <2>0, <2>3, <3>1 DEF GetSnapshot, ReadersAboveSmall
  <2>4. ASSUME NEW q \in snaps, ReleaseSnapshot(q) PROVE SnapInv'
    <3>1. LastSequence' = LastSequence /\ UNCHANGED <<hist, comp>>
      BY <2>4 DEF ReleaseSnapshot, LastSequence
    <3> QED BY <2>0, <2>4, <3>1 DEF ReleaseSnapshot, ReadersAboveSmall
  <2>5. CASE MakeRoomForWrite \/ CompactMemTable \/ ForceMemTable \/ ManualDone
             \/ \E r \in Ranges : CompactRange(r)
    BY <2>5, <2>1 DEF MakeRoomForWrite, CompactMemTable, ForceMemTable, ManualDone, CompactRange
  <2>6. ASSUME NEW n, NEW t, PickCompaction(n, t) PROVE SnapInv'
    <3>1. PICK p : Begun(n, p, FALSE)
      BY <2>6 DEF PickCompaction
    <3>2. UNCHANGED <<hist, snaps>>
      BY <2>6 DEF PickCompaction
    <3> QED BY <3>1, <3>2, BeginKeeps
  <2>7. ASSUME NEW n, NEW t, TrivialMove(n, t) PROVE SnapInv'
    BY <2>7, <2>1 DEF TrivialMove
  <2>8. CASE InstallCompactionResults
    <3>1. LastSequence' = LastSequence /\ UNCHANGED <<hist, snaps>> /\ comp'.small = 0
      BY <2>8 DEF InstallCompactionResults, LastSequence, NoCompaction
    <3> QED BY <2>0, <3>1 DEF ReadersAboveSmall
  <2>9. CASE ManualCompaction
    <3>1. PICK p : Begun(man.level, p, TRUE)
      BY <2>9 DEF ManualCompaction
    <3>2. UNCHANGED <<hist, snaps>>
      BY <2>9 DEF ManualCompaction
    <3> QED BY <3>1, <3>2, BeginKeeps
  <2>10. CASE UNCHANGED vars
    BY <2>10, <2>1 DEF vars
  <2> QED
    BY <2>2, <2>3, <2>4, <2>5, <2>6, <2>7, <2>8, <2>9, <2>10 DEF Next
<1>3. SnapInv => ReadersAboveSmall
  BY DEF SnapInv
<1> QED BY <1>1, <1>2, <1>3, PTL DEF Spec

-----------------------------------------------------------------------------
(* Tables: sets of entries with distinct numbers, by the keys they span.    *)

Numbered(H) == IsFiniteSet(H) /\ H \subseteq Entry /\ Distinct(H)
Tables(H) == (SUBSET H) \ {{}}

Lo(t) == Smallest(t).key
Hi(t) == Largest(t).key

Apart(t, u) == Hi(t) < Lo(u) \/ Hi(u) < Lo(t)

\* u lies on one side of all tables of F.
Outside(u, F) == \/ \A t \in F : Hi(u) < Lo(t)
                 \/ \A t \in F : Hi(t) < Lo(u)

\* Between the ends of F there is no gap that a table could fall into.
Solid(F) ==
  \A k \in Nat :
    /\ \E t \in F : Lo(t) <= k
    /\ \E t \in F : k <= Hi(t)
    => \E t \in F : Lo(t) <= k /\ k <= Hi(t)

LEMMA EntryTypes ==
  /\ Entry \subseteq Entries
  /\ \A e \in Entry : e.key \in Keys /\ e.key \in Nat /\ e.seq \in Nat
<1>1. \A e \in Entry : e.key \in Keys /\ e.seq \in 1..MaxWrites /\ e.del \in BOOLEAN
  BY DEF Entry
<1>2. Keys \subseteq Nat /\ \A n \in 1..MaxWrites : n \in Nat
  BY CompactionAssumption
<1>3. \A e \in Entry : e.key \in Nat /\ e.seq \in Nat
  BY <1>1, <1>2
<1>4. ASSUME NEW e \in Entry PROVE e \in Entries
  <2>1. e = [key |-> e.key, seq |-> e.seq, del |-> e.del]
    BY DEF Entry
  <2> QED BY <1>1, <1>3, <2>1 DEF Entries
<1> QED BY <1>1, <1>3, <1>4

LEMMA NumberedLess ==
  ASSUME NEW H, Numbered(H), NEW S, S \subseteq H
  PROVE  Numbered(S) /\ S \subseteq Entries
BY FS_Subset, EntryTypes DEF Numbered, Distinct

(* Every table has a first and a last entry.                                *)
LEMMA Ends ==
  ASSUME NEW H, Numbered(H), NEW t \in Tables(H)
  PROVE  /\ Smallest(t) \in t /\ Largest(t) \in t
         /\ \A e \in t : e = Smallest(t) \/ Before(Smallest(t), e)
         /\ \A e \in t : e = Largest(t) \/ Before(e, Largest(t))
<1>1. t \subseteq H /\ t # {} /\ Numbered(t)
  BY NumberedLess DEF Tables
<1>2. \A e \in t : e.key \in Nat /\ e.seq \in Nat
  BY <1>1, EntryTypes DEF Numbered
<1>3. \A a, b \in t : a # b => a.seq # b.seq
  BY <1>1 DEF Numbered, Distinct
<1> DEFINE R == {e \in t \X t : Before(e[1], e[2])}
           Q == {e \in t \X t : Before(e[2], e[1])}
<1>4. \A a, b \in t : (<<a, b>> \in R <=> Before(a, b)) /\ (<<a, b>> \in Q <=> Before(b, a))
  OBVIOUS
<1>5. \A a, b, c \in t : Before(a, b) /\ Before(b, c) => Before(a, c)
  BY <1>2 DEF Before
<1>6. \A a, b \in t : a # b => Before(a, b) \/ Before(b, a)
  BY <1>2, <1>3 DEF Before
<1> HIDE DEF R, Q
<1>7. TotalOn(R, t) /\ TotalOn(Q, t)
  BY <1>4, <1>5, <1>6 DEF TotalOn
<1>8. \E m \in t : \A d \in t \ {m} : <<m, d>> \in R
  BY <1>1, <1>7, FiniteLeast DEF Numbered
<1>9. \E m \in t : \A d \in t \ {m} : <<m, d>> \in Q
  BY <1>1, <1>7, FiniteLeast DEF Numbered
<1>10. \E m \in t : \A d \in t \ {m} : Before(m, d)
  BY <1>4, <1>8
<1>11. \E m \in t : \A d \in t \ {m} : Before(d, m)
  BY <1>4, <1>9
<1>12. Smallest(t) \in t /\ \A d \in t \ {Smallest(t)} : Before(Smallest(t), d)
  BY <1>10 DEF Smallest
<1>13. Largest(t) \in t /\ \A d \in t \ {Largest(t)} : Before(d, Largest(t))
  BY <1>11 DEF Largest
<1> QED BY <1>12, <1>13

LEMMA TableEnds ==
  ASSUME NEW H, Numbered(H), NEW t \in Tables(H)
  PROVE  /\ Lo(t) \in Nat /\ Hi(t) \in Nat /\ Lo(t) \in Keys /\ Hi(t) \in Keys
         /\ Lo(t) <= Hi(t)
         /\ \A e \in t : Lo(t) <= e.key /\ e.key <= Hi(t)
         /\ \E e \in t : e.key = Lo(t)
         /\ \E e \in t : e.key = Hi(t)
<1>1. Smallest(t) \in t /\ Largest(t) \in t
  BY Ends
<1>2. \A e \in t : e.key \in Nat /\ e.key \in Keys
  BY EntryTypes DEF Tables, Numbered
<1>3. \A e \in t : Lo(t) <= e.key /\ e.key <= Hi(t)
  BY <1>1, <1>2, Ends DEF Lo, Hi, Before
<1> QED BY <1>1, <1>2, <1>3 DEF Lo, Hi

LEMMA MeetsIs ==
  ASSUME NEW t, NEW r
  PROVE  Meets(t, r) <=> Hi(t) >= r[1] /\ Lo(t) <= r[2]
BY DEF Meets, Hi, Lo

(* A set of tables spans from its first to its last key.                    *)
LEMMA UnionEnds ==
  ASSUME NEW H, Numbered(H), NEW F \in SUBSET Tables(H), F # {}
  PROVE  /\ UNION F \in Tables(H)
         /\ GetRange(F) = <<Lo(UNION F), Hi(UNION F)>>
         /\ GetRange(F) \in Keys \X Keys
         /\ \A t \in F : Lo(UNION F) <= Lo(t) /\ Hi(t) <= Hi(UNION F)
         /\ \E t \in F : Lo(t) = Lo(UNION F)
         /\ \E t \in F : Hi(t) = Hi(UNION F)
<1>1. UNION F \in Tables(H)
  BY DEF Tables
<1>2. \A t \in F : t \in Tables(H)
  OBVIOUS
<1>3. GetRange(F) = <<Lo(UNION F), Hi(UNION F)>>
  BY DEF GetRange, Lo, Hi
<1>4. /\ Lo(UNION F) \in Nat /\ Hi(UNION F) \in Nat /\ Lo(UNION F) \in Keys /\ Hi(UNION F) \in Keys
      /\ \A e \in UNION F : Lo(UNION F) <= e.key /\ e.key <= Hi(UNION F)
      /\ \E e \in UNION F : e.key = Lo(UNION F)
      /\ \E e \in UNION F : e.key = Hi(UNION F)
  BY <1>1, TableEnds
<1>5. \A t \in F : Lo(UNION F) <= Lo(t) /\ Hi(t) <= Hi(UNION F)
  <2> SUFFICES ASSUME NEW t \in F PROVE Lo(UNION F) <= Lo(t) /\ Hi(t) <= Hi(UNION F)
    OBVIOUS
  <2>1. /\ Lo(t) \in Nat /\ Hi(t) \in Nat
        /\ \E e \in t : e.key = Lo(t)
        /\ \E e \in t : e.key = Hi(t)
    BY <1>2, TableEnds
  <2>2. t \subseteq UNION F
    OBVIOUS
  <2> QED BY <1>4, <2>1, <2>2
<1>6. \E t \in F : Lo(t) = Lo(UNION F)
  <2>1. PICK e \in UNION F : e.key = Lo(UNION F)
    BY <1>4
  <2>2. PICK t \in F : e \in t
    BY <2>1
  <2>3. Lo(t) \in Nat /\ Lo(t) <= e.key
    BY <1>2, <2>2, TableEnds
  <2>4. Lo(UNION F) <= Lo(t) /\ Lo(UNION F) \in Nat
    BY <1>4, <1>5
  <2>5. Lo(t) = Lo(UNION F)
    BY <2>1, <2>3, <2>4
  <2> QED BY <2>5
<1>7. \E t \in F : Hi(t) = Hi(UNION F)
  <2>1. PICK e \in UNION F : e.key = Hi(UNION F)
    BY <1>4
  <2>2. PICK t \in F : e \in t
    BY <2>1
  <2>3. Hi(t) \in Nat /\ e.key <= Hi(t)
    BY <1>2, <2>2, TableEnds
  <2>4. Hi(t) <= Hi(UNION F) /\ Hi(UNION F) \in Nat
    BY <1>4, <1>5
  <2>5. Hi(t) = Hi(UNION F)
    BY <2>1, <2>3, <2>4
  <2> QED BY <2>5
<1>8. GetRange(F) \in Keys \X Keys
  BY <1>3, <1>4
<1> QED BY <1>1, <1>3, <1>5, <1>6, <1>7, <1>8

-----------------------------------------------------------------------------
(* GetOverlappingInputs.                                                    *)

\* s holds r, and every table that meets it.
ClosedFor(F, r, s) ==
    /\ s[1] <= r[1] /\ r[2] <= s[2]
    /\ \A t \in F : Hi(t) >= s[1] /\ Lo(t) <= s[2] => s[1] <= Lo(t) /\ Hi(t) <= s[2]

LEMMA ClosedExists ==
  ASSUME NEW H, Numbered(H), NEW F \in SUBSET Tables(H), NEW r \in Keys \X Keys
  PROVE  \E s \in Keys \X Keys : ClosedFor(F, r, s)
<1>1. Keys \subseteq Nat /\ r[1] \in Nat /\ r[2] \in Nat /\ r[1] \in Keys /\ r[2] \in Keys
  BY CompactionAssumption
<1>2. CASE F = {}
  BY <1>1, <1>2 DEF ClosedFor
<1>3. CASE F # {}
  <2> DEFINE a == Lo(UNION F)
             b == Hi(UNION F)
  <2>0. UNION F \in Tables(H) /\ \A t \in F : a <= Lo(t) /\ Hi(t) <= b
    BY <1>3, UnionEnds
  <2>1. a \in Keys /\ b \in Keys
    BY <2>0, TableEnds
  <2> HIDE DEF a, b
  <2>2. \A t \in F : Lo(t) \in Nat /\ Hi(t) \in Nat
    BY TableEnds
  <2>3. PICK lo \in Keys : lo <= r[1] /\ lo <= a
    BY <1>1, <2>1
  <2>4. PICK hi \in Keys : r[2] <= hi /\ b <= hi
    BY <1>1, <2>1
  <2>5. \A t \in F : lo <= Lo(t) /\ Hi(t) <= hi
    BY <1>1, <2>0, <2>1, <2>2, <2>3, <2>4
  <2>6. <<lo, hi>> \in Keys \X Keys /\ ClosedFor(F, r, <<lo, hi>>)
    BY <2>3, <2>4, <2>5 DEF ClosedFor
  <2> QED BY <2>6
<1> QED BY <1>2, <1>3

(* The range that level 0 grows to is the least one.                        *)
LEMMA GrownIs ==
  ASSUME NEW H, Numbered(H), NEW F \in SUBSET Tables(H), NEW r \in Keys \X Keys
  PROVE  /\ Grown(F, r) \in Keys \X Keys
         /\ ClosedFor(F, r, Grown(F, r))
         /\ \A u \in Keys \X Keys : ClosedFor(F, r, u) =>
               u[1] <= Grown(F, r)[1] /\ Grown(F, r)[2] <= u[2]
<1> DEFINE C == {s \in Keys \X Keys : ClosedFor(F, r, s)}
           T == {r[1] - u[1] : u \in C}
           W == {u[2] : u \in C}
<1>1. Keys \subseteq Nat /\ r[1] \in Nat /\ r[2] \in Nat
  BY CompactionAssumption
<1>2. \A s \in C : /\ s[1] \in Nat /\ s[2] \in Nat /\ s[1] \in Keys /\ s[2] \in Keys
                   /\ s[1] <= r[1] /\ r[2] <= s[2] /\ ClosedFor(F, r, s)
  BY <1>1 DEF ClosedFor
<1>3. C # {}
  BY ClosedExists
<1> HIDE DEF C
<1>4. PICK u \in C : \A s \in C : s[1] <= u[1]
  <2>1. T \subseteq Nat /\ T # {}
    BY <1>1, <1>2, <1>3
  <2>2. PICK x \in T : \A y \in T : x <= y
    BY <2>1, LeastNat
  <2>3. PICK u \in C : x = r[1] - u[1]
    BY <2>2
  <2>4. \A s \in C : s[1] <= u[1]
    <3> SUFFICES ASSUME NEW s \in C PROVE s[1] <= u[1]
      OBVIOUS
    <3>1. r[1] - u[1] <= r[1] - s[1]
      BY <2>2, <2>3
    <3> QED BY <3>1, <1>1, <1>2
  <2> QED BY <2>4
<1>5. PICK w \in C : \A s \in C : w[2] <= s[2]
  <2>1. W \subseteq Nat /\ W # {}
    BY <1>2, <1>3
  <2>2. PICK x \in W : \A y \in W : x <= y
    BY <2>1, LeastNat
  <2>3. PICK w \in C : x = w[2]
    BY <2>2
  <2> QED BY <2>2, <2>3
<1> DEFINE s == <<u[1], w[2]>>
<1>6. s \in Keys \X Keys /\ s[1] = u[1] /\ s[2] = w[2]
  BY <1>2
<1> HIDE DEF s
<1>7. \A t \in F : Lo(t) \in Nat /\ Hi(t) \in Nat
  BY TableEnds
<1>8. u[1] \in Nat /\ u[2] \in Nat /\ w[1] \in Nat /\ w[2] \in Nat /\ w[1] <= u[1] /\ w[2] <= u[2]
  BY <1>2, <1>4, <1>5
<1>9. ClosedFor(F, r, u) /\ ClosedFor(F, r, w)
  BY <1>2
<1>10. ClosedFor(F, r, s)
  <2>1. s[1] <= r[1] /\ r[2] <= s[2]
    BY <1>6, <1>9 DEF ClosedFor
  <2>2. ASSUME NEW t \in F, Hi(t) >= s[1], Lo(t) <= s[2] PROVE s[1] <= Lo(t) /\ Hi(t) <= s[2]
    <3>1. Hi(t) >= u[1] /\ Lo(t) <= u[2] /\ Hi(t) >= w[1] /\ Lo(t) <= w[2]
      BY <1>6, <1>7, <1>8, <2>2
    <3>2. u[1] <= Lo(t) /\ Hi(t) <= w[2]
      BY <1>9, <3>1 DEF ClosedFor
    <3> QED BY <1>6, <3>2
  <2> QED BY <2>1, <2>2 DEF ClosedFor
<1>11. \A x \in Keys \X Keys : ClosedFor(F, r, x) => x[1] <= s[1] /\ s[2] <= x[2]
  BY <1>4, <1>5, <1>6 DEF C
<1> DEFINE Least(x) == /\ ClosedFor(F, r, x)
                       /\ \A y \in Keys \X Keys : ClosedFor(F, r, y) => y[1] <= x[1] /\ x[2] <= y[2]
<1>12. Least(s)
  BY <1>10, <1>11
<1>13. Grown(F, r) = CHOOSE x \in Keys \X Keys : Least(x)
  BY Zenon DEF Grown, ClosedFor, Meets, Lo, Hi
<1>14. \E x \in Keys \X Keys : Least(x)
  BY <1>6, <1>12
<1> HIDE DEF Least
<1>15. Grown(F, r) \in Keys \X Keys /\ Least(Grown(F, r))
  BY <1>13, <1>14
<1> QED BY <1>15 DEF Least

(* What GetOverlappingInputs returns.                                       *)
LEMMA ZeroInputs ==
  ASSUME NEW w, NEW r, NEW t
  PROVE  t \in GetOverlappingInputs(w, 0, r) <=>
           /\ t \in FilesAt(w, 0)
           /\ Hi(t) >= Grown(FilesAt(w, 0), r)[1] /\ Lo(t) <= Grown(FilesAt(w, 0), r)[2]
BY DEF GetOverlappingInputs, Meets, Hi, Lo

LEMMA DeepInputs ==
  ASSUME NEW w, NEW n, n # 0, NEW r, NEW t
  PROVE  t \in GetOverlappingInputs(w, n, r) <=>
           t \in FilesAt(w, n) /\ Hi(t) >= r[1] /\ Lo(t) <= r[2]
BY DEF GetOverlappingInputs, Meets, Hi, Lo

(* Every table that meets the range is among them.                          *)
LEMMA InputsMeet ==
  ASSUME NEW H, Numbered(H), NEW w, NEW n, FilesAt(w, n) \subseteq Tables(H), NEW r \in Keys \X Keys,
         NEW t \in FilesAt(w, n), Hi(t) >= r[1], Lo(t) <= r[2]
  PROVE  t \in GetOverlappingInputs(w, n, r)
<1>1. CASE n = 0
  <2> DEFINE F == FilesAt(w, 0)
             s == Grown(F, r)
  <2>1. s \in Keys \X Keys /\ ClosedFor(F, r, s)
    BY <1>1, GrownIs
  <2>2. s[1] \in Nat /\ s[2] \in Nat /\ r[1] \in Nat /\ r[2] \in Nat
    BY <2>1, CompactionAssumption
  <2>3. s[1] <= r[1] /\ r[2] <= s[2]
    BY <2>1 DEF ClosedFor
  <2>4. Hi(t) \in Nat /\ Lo(t) \in Nat
    BY TableEnds
  <2>5. Hi(t) >= s[1] /\ Lo(t) <= s[2]
    BY <2>2, <2>3, <2>4
  <2> QED BY <1>1, <2>5, ZeroInputs
<1>2. CASE n # 0
  BY <1>2, DeepInputs
<1> QED BY <1>1, <1>2

-----------------------------------------------------------------------------
(* Types.                                                                   *)

\* Sequence numbers are given out once, in order.
HistInv ==
    /\ IsFiniteSet(hist) /\ Distinct(hist)
    /\ \A e \in hist : e.seq <= LastSequence

\* There is a level below the one that is compacted.
BoundInv ==
    /\ comp.level < NumLevels => comp.level + 1 < NumLevels
    /\ comp.level = NumLevels => comp = NoCompaction
    /\ man = [stage |-> man.stage, level |-> man.level, max |-> man.max,
              range |-> man.range, begin |-> man.begin]
    /\ man.stage # "no" =>
          man.level \in Nat /\ man.max \in 1..(NumLevels - 1) /\ man.level < man.max

TypeInv == CTypeOK /\ HistInv /\ BoundInv

LEMMA HistNumbered ==
  ASSUME CTypeOK, HistInv
  PROVE  Numbered(hist) /\ LastSequence \in Nat /\ hist \subseteq Entries
BY LastIsNat, EntryTypes DEF CTypeOK, HistInv, Numbered

LEMMA Levels ==
  /\ NumLevels \in Nat /\ NumLevels > 1
  /\ MaxMemCompactLevel \in 0..(NumLevels - 1)
BY CompactionAssumption

(* The tables of a level are tables of what was written.                    *)
LEMMA FilesAre ==
  ASSUME CTypeOK
  PROVE  /\ v.l0 \in Seq(Tables(hist))
         /\ FilesAt(v, 0) = Range(v.l0)
         /\ \A n \in 1..(NumLevels - 1) : FilesAt(v, n) = v.deep[n]
         /\ \A n \in 0..(NumLevels - 1) : FilesAt(v, n) \subseteq Tables(hist)
<1>1. v.l0 \in Seq(Tables(hist)) /\ FilesAt(v, 0) = Range(v.l0)
  BY DEF CTypeOK, Tables, FilesAt
<1>2. \A i \in DOMAIN v.l0 : v.l0[i] \in Tables(hist)
  BY <1>1
<1>3. Range(v.l0) \subseteq Tables(hist)
  BY <1>2 DEF Range
<1>4. \A n \in 1..(NumLevels - 1) : FilesAt(v, n) = v.deep[n] /\ n # 0
  BY Levels DEF FilesAt
<1>5. \A n \in 1..(NumLevels - 1) : v.deep[n] \subseteq Tables(hist)
  BY DEF CTypeOK, Tables
<1>6. \A n \in 0..(NumLevels - 1) : n = 0 \/ n \in 1..(NumLevels - 1)
  BY Levels
<1> QED BY <1>1, <1>3, <1>4, <1>5, <1>6

LEMMA TablesFinite ==
  ASSUME NEW H, IsFiniteSet(H), NEW F \in SUBSET Tables(H)
  PROVE  IsFiniteSet(F) /\ Cardinality(F) \in Nat /\ (F # {} => Cardinality(F) > 0)
<1>1. IsFiniteSet(SUBSET H)
  BY FS_SUBSET
<1>2. F \subseteq SUBSET H
  BY DEF Tables
<1>3. IsFiniteSet(F)
  BY <1>1, <1>2, FS_Subset
<1>4. Cardinality(F) \in Nat /\ (Cardinality(F) = 0 <=> F = {})
  BY <1>3, FS_CardinalityType, FS_EmptySet
<1> QED BY <1>3, <1>4

(* VersionEdit::Apply.  In level 0 the order stays, and a table that is     *)
(* added is the newest.                                                     *)
LEMMA SetToSeqOne ==
  ASSUME NEW t PROVE SetToSeq({t}) = <<t>>
<1>1. Cardinality({t}) = 1
  BY FS_Singleton
<1>2. \A f \in [1..1 -> {t}] : f = <<t>>
  <2> SUFFICES ASSUME NEW f \in [1..1 -> {t}] PROVE f = <<t>>
    OBVIOUS
  <2>1. f \in Seq({t}) /\ Len(f) = 1 /\ f[1] = t
    OBVIOUS
  <2> QED BY <2>1
<1>3. <<t>> \in [1..1 -> {t}] /\ IsInjective(<<t>>)
  BY DEF IsInjective
<1>4. \E f \in [1..1 -> {t}] : IsInjective(f)
  BY <1>3
<1>5. (CHOOSE f \in [1..1 -> {t}] : IsInjective(f)) \in [1..1 -> {t}]
  BY <1>4
<1> QED BY <1>1, <1>2, <1>5 DEF SetToSeq

LEMMA OnlyRange ==
  ASSUME NEW A, NEW s \in Seq(A), NEW S
  PROVE  Only(s, S) \in Seq(A \cap S) /\ Range(Only(s, S)) = Range(s) \cap S
<1> DEFINE t == Only(s, S)
<1>1. /\ t \in Seq(A \cap S)
      /\ {t[k] : k \in DOMAIN t} = {s[k] : k \in DOMAIN s} \cap S
  BY OnlyIs
<1> HIDE DEF t
<1>2. Range(t) = Range(s) \cap S
  BY <1>1 DEF Range
<1> QED BY <1>1, <1>2 DEF t

DeepOf(H) == [1..(NumLevels - 1) -> SUBSET Tables(H)]

Single(S) == \E t : S = {t}

FilesAfter(i, gone, m, add) == (FilesAt(v, i) \ gone) \cup (IF i = m THEN add ELSE {})

LEMMA EditedIs ==
  ASSUME CTypeOK, NEW H, hist \subseteq H, NEW n, NEW gone, NEW m \in 0..(NumLevels - 1),
         NEW add \in SUBSET Tables(H), m = 0 => Single(add),
         NEW w, w = Edited(v, n, gone, m, add)
  PROVE  /\ w.l0 \in Seq(Tables(H))
         /\ w.deep \in DeepOf(H)
         /\ \A i \in 0..(NumLevels - 1) :
               FilesAt(w, i) = FilesAfter(i, gone, m, add)
<1> DEFINE kept == Only(v.l0, FilesAt(v, 0) \ gone)
<1>1. v.l0 \in Seq(Tables(hist)) /\ FilesAt(v, 0) = Range(v.l0)
  BY FilesAre
<1>2. /\ kept \in Seq(Tables(hist) \cap (FilesAt(v, 0) \ gone))
      /\ Range(kept) = Range(v.l0) \cap (FilesAt(v, 0) \ gone)
  BY <1>1, OnlyRange
<1>3. Range(kept) = FilesAt(v, 0) \ gone
  BY <1>1, <1>2
<1>4. w.l0 = IF m = 0 THEN kept \o SetToSeq(add) ELSE kept
  BY DEF Edited
<1>5. /\ w.deep = [i \in 1..(NumLevels - 1) |-> (v.deep[i] \ gone) \cup (IF i = m THEN add ELSE {})]
  BY DEF Edited
<1> HIDE DEF kept
<1>6. Tables(hist) \subseteq Tables(H)
  BY DEF Tables
<1>7. kept \in Seq(Tables(H))
  <2>1. \A k \in DOMAIN kept : kept[k] \in Tables(H)
    BY <1>2, <1>6
  <2>2. kept \in Seq(Tables(hist) \cap (FilesAt(v, 0) \ gone))
    BY <1>2
  <2>3. Tables(hist) \cap (FilesAt(v, 0) \ gone) \subseteq Tables(H)
    BY <1>6
  <2> QED BY <2>2, <2>3, SeqMonotonic
<1>8. \A t : m = 0 /\ add = {t} => w.l0 = kept \o <<t>>
  BY <1>4, SetToSeqOne
<1>9. ASSUME m = 0
      PROVE  w.l0 \in Seq(Tables(H)) /\ FilesAt(w, 0) = (FilesAt(v, 0) \ gone) \cup add
  <2>1. PICK t : add = {t}
    BY <1>9 DEF Single
  <2>2. w.l0 = kept \o <<t>> /\ t \in Tables(H)
    BY <2>1, <1>8, <1>9
  <2>3. w.l0 \in Seq(Tables(H))
    BY <2>2, <1>7
  <2>4. Range(w.l0) = Range(kept) \cup {t}
    <3>1. Len(w.l0) = Len(kept) + 1 /\ Len(kept) \in Nat /\ DOMAIN kept = 1..Len(kept) /\ DOMAIN w.l0 = 1..Len(w.l0)
      BY <2>2, <2>3, <1>7
    <3>2. \A i \in 1..Len(kept) : w.l0[i] = kept[i]
      BY <2>2, <1>7
    <3>3. w.l0[Len(kept) + 1] = t
      BY <2>2, <1>7
    <3>4. \A i \in DOMAIN w.l0 : i \in DOMAIN kept \/ i = Len(kept) + 1
      BY <3>1
    <3>5. Range(w.l0) \subseteq Range(kept) \cup {t}
      BY <3>1, <3>2, <3>3, <3>4 DEF Range
    <3>6. Len(kept) + 1 \in DOMAIN w.l0 /\ \A i \in DOMAIN kept : i \in DOMAIN w.l0
      BY <3>1
    <3>7. Range(kept) \cup {t} \subseteq Range(w.l0)
      BY <3>1, <3>2, <3>3, <3>6 DEF Range
    <3> QED BY <3>5, <3>7
  <2>5. FilesAt(w, 0) = (FilesAt(v, 0) \ gone) \cup add
    BY <2>1, <2>4, <1>3 DEF FilesAt
  <2> QED BY <2>3, <2>5
<1>10. ASSUME m # 0
       PROVE  w.l0 \in Seq(Tables(H)) /\ FilesAt(w, 0) = FilesAt(v, 0) \ gone
  <2>1. w.l0 = kept
    BY <1>4, <1>10
  <2> QED BY <2>1, <1>3, <1>7 DEF FilesAt
<1>11. /\ w.l0 \in Seq(Tables(H))
       /\ FilesAt(w, 0) = (FilesAt(v, 0) \ gone) \cup (IF 0 = m THEN add ELSE {})
       /\ m # 0 => w.l0 = kept
  BY <1>4, <1>9, <1>10
<1>12. \A i \in 1..(NumLevels - 1) :
          /\ w.deep[i] = (FilesAt(v, i) \ gone) \cup (IF i = m THEN add ELSE {})
          /\ w.deep[i] = FilesAt(w, i)
  BY <1>5, FilesAre, Levels DEF FilesAt
<1>13. \A i \in 1..(NumLevels - 1) : w.deep[i] \subseteq Tables(H)
  <2> SUFFICES ASSUME NEW i \in 1..(NumLevels - 1) PROVE w.deep[i] \subseteq Tables(H)
    OBVIOUS
  <2>1. FilesAt(v, i) \subseteq Tables(hist)
    BY FilesAre, Levels
  <2> QED BY <2>1, <1>6, <1>12
<1>14. w.deep \in DeepOf(H)
  BY <1>5, <1>13 DEF DeepOf
<1>15. \A i \in 0..(NumLevels - 1) : i = 0 \/ i \in 1..(NumLevels - 1)
  BY Levels
<1>16. \A i \in 0..(NumLevels - 1) :
          FilesAt(w, i) = (FilesAt(v, i) \ gone) \cup (IF i = m THEN add ELSE {})
  BY <1>11, <1>12, <1>15
<1>17. \A i \in 0..(NumLevels - 1) : FilesAt(w, i) = FilesAfter(i, gone, m, add)
  BY <1>16 DEF FilesAfter
<1> QED BY <1>11, <1>14, <1>17

LEMMA OverlappingAre ==
  ASSUME NEW w, NEW n, NEW r
  PROVE  GetOverlappingInputs(w, n, r) \subseteq FilesAt(w, n)
BY DEF GetOverlappingInputs

(* What a compaction takes are tables of its two levels.                    *)
LEMMA SetupIs ==
  ASSUME CTypeOK, HistInv, NEW n \in 0..(NumLevels - 1),
         NEW in0 \in SUBSET FilesAt(v, n), in0 # {},
         NEW p \in SetupOtherInputs(v, n, in0)
  PROVE  /\ p[1] \in SUBSET FilesAt(v, n) /\ p[1] # {}
         /\ p[2] \in SUBSET FilesAt(v, n + 1)
<1> DEFINE in1  == GetOverlappingInputs(v, n + 1, GetRange(in0))
           exp0 == GetOverlappingInputs(v, n, GetRange(in0 \cup in1))
           exp1 == GetOverlappingInputs(v, n + 1, GetRange(exp0))
<1>1. \/ p = <<in0, in1>>
      \/ p = <<exp0, exp1>> /\ Cardinality(exp0) > Cardinality(in0)
  BY DEF SetupOtherInputs
<1>2. in1 \subseteq FilesAt(v, n + 1) /\ exp1 \subseteq FilesAt(v, n + 1)
  BY OverlappingAre
<1>3. exp0 \subseteq FilesAt(v, n)
  BY OverlappingAre
<1> HIDE DEF in1, exp0, exp1
<1>4. FilesAt(v, n) \in SUBSET Tables(hist)
  BY FilesAre
<1>5. in0 \in SUBSET Tables(hist) /\ exp0 \in SUBSET Tables(hist)
  BY <1>3, <1>4
<1>6. Cardinality(in0) \in Nat
  BY <1>5, TablesFinite DEF HistInv
<1>7. Cardinality(exp0) > Cardinality(in0) => exp0 # {}
  BY <1>6, FS_EmptySet
<1> QED BY <1>1, <1>2, <1>3, <1>7

\* An output file's first entry, and what the file holds.
OutputOf(S, s, D) ==
    {e \in S : /\ e = s \/ Before(s, e)
               /\ \A c \in D : Before(s, c) => Before(e, c)}
StartsOf(S) == {e \in S : KeysSplit \/ \A d \in S : d.key = e.key => d.seq <= e.seq}

LEMMA OutputsIs ==
  ASSUME NEW S, S # {}, NEW out \in Outputs(S)
  PROVE  \E C \in SUBSET StartsOf(S) :
            out = {OutputOf(S, s, C \cup {Smallest(S)}) : s \in C \cup {Smallest(S)}}
BY DEF Outputs, OutputOf, StartsOf

(* The tables that a compaction writes are not empty.                       *)
LEMMA OutputsAre ==
  ASSUME NEW H, Numbered(H), NEW S \in SUBSET H, NEW out \in Outputs(S)
  PROVE  out \in SUBSET Tables(H)
<1>1. CASE S = {}
  BY <1>1 DEF Outputs
<1>2. CASE S # {}
  <2>1. PICK C \in SUBSET StartsOf(S) :
            out = {OutputOf(S, s, C \cup {Smallest(S)}) : s \in C \cup {Smallest(S)}}
    BY <1>2, OutputsIs
  <2>2. Smallest(S) \in S
    BY <1>2, Ends DEF Tables
  <2>3. StartsOf(S) \subseteq S
    BY DEF StartsOf
  <2>4. \A s \in C \cup {Smallest(S)} : OutputOf(S, s, C \cup {Smallest(S)}) \in Tables(H)
    <3> SUFFICES ASSUME NEW s \in C \cup {Smallest(S)}
                 PROVE  OutputOf(S, s, C \cup {Smallest(S)}) \in Tables(H)
      OBVIOUS
    <3>1. s \in S
      BY <2>2, <2>3
    <3>2. s \in OutputOf(S, s, C \cup {Smallest(S)})
      BY <3>1 DEF OutputOf
    <3>3. OutputOf(S, s, C \cup {Smallest(S)}) \subseteq H
      BY DEF OutputOf
    <3> QED BY <3>2, <3>3 DEF Tables
  <2> QED BY <2>1, <2>4
<1> QED BY <1>1, <1>2

LEMMA SmallIs ==
  ASSUME CTypeOK, HistInv
  PROVE  SmallestSnapshot \in 0..LastSequence
<1>1. LastSequence \in Nat /\ snaps \subseteq 0..LastSequence
  BY HistNumbered DEF CTypeOK
<1>2. CASE snaps = {}
  BY <1>1, <1>2 DEF SmallestSnapshot
<1>3. CASE snaps # {}
  <2>1. snaps \subseteq Nat
    BY <1>1
  <2>2. \E s \in snaps : \A r \in snaps : s <= r
    BY <1>3, <2>1, LeastNat
  <2>3. SmallestSnapshot \in snaps
    BY <1>3, <2>2 DEF SmallestSnapshot
  <2> QED BY <1>1, <2>3
<1> QED BY <1>2, <1>3

LEMMA BegunTypes ==
  ASSUME TypeInv, NEW n \in 0..(NumLevels - 2), NEW in0 \in SUBSET FilesAt(v, n), in0 # {},
         NEW p \in SetupOtherInputs(v, n, in0), NEW manual, Begun(n, p, manual),
         UNCHANGED <<hist, mem, imm, v, snaps, man>>
  PROVE  TypeInv'
<1> USE DEF TypeInv
<1>1. n \in 0..(NumLevels - 1) /\ n \in 0..NumLevels /\ n + 1 < NumLevels
  BY Levels
<1>2. /\ p[1] \in SUBSET FilesAt(v, n) /\ p[1] # {}
      /\ p[2] \in SUBSET FilesAt(v, n + 1)
  BY <1>1, SetupIs
<1>3. /\ comp'.level = n /\ comp'.in0 = p[1] /\ comp'.in1 = p[2]
      /\ comp'.small = SmallestSnapshot
  BY DEF Begun
<1>4. LastSequence' = LastSequence
  BY DEF LastSequence
<1>5. HistInv'
  BY <1>4 DEF HistInv
<1>6. BoundInv'
  <2>1. man' = man /\ n # NumLevels
    BY <1>1, Levels
  <2> QED BY <2>1, <1>1, <1>3 DEF BoundInv
<1>7. FilesAt(v', comp'.level) = FilesAt(v, n) /\ FilesAt(v', comp'.level + 1) = FilesAt(v, n + 1)
  BY <1>3
<1>8. CTypeOK'
  <2>1. /\ comp'.level \in 0..NumLevels /\ comp'.small \in 0..LastSequence'
        /\ comp'.in0 # {} /\ comp'.in0 \subseteq FilesAt(v', comp'.level)
        /\ comp'.in1 \subseteq FilesAt(v', comp'.level + 1)
    BY <1>1, <1>2, <1>3, <1>4, <1>7, SmallIs
  <2>2. /\ hist' \subseteq Entry /\ mem' \subseteq hist' /\ imm' \subseteq hist'
        /\ v'.l0 \in Seq((SUBSET hist') \ {{}})
        /\ v'.deep \in [1..(NumLevels - 1) -> SUBSET ((SUBSET hist') \ {{}})]
        /\ snaps' \subseteq 0..LastSequence'
        /\ man'.stage \in {"no", "force", "level"}
    BY <1>4 DEF CTypeOK
  <2> QED BY <2>1, <2>2 DEF CTypeOK
<1> QED BY <1>5, <1>6, <1>8

(* Steps that write nothing leave most of it alone.                         *)
LEMMA KeptTypes ==
  ASSUME TypeInv, UNCHANGED hist, mem' \subseteq hist, imm' \subseteq hist,
         v'.l0 \in Seq(Tables(hist)),
         v'.deep \in DeepOf(hist),
         snaps' \subseteq 0..LastSequence,
         \/ comp' = NoCompaction
         \/ /\ comp' = comp
            /\ comp.level < NumLevels =>
                 /\ comp.in0 \subseteq FilesAt(v', comp.level)
                 /\ comp.in1 \subseteq FilesAt(v', comp.level + 1),
         BoundInv', man'.stage \in {"no", "force", "level"}
  PROVE  TypeInv'
<1> USE DEF TypeInv
<1>1. LastSequence' = LastSequence /\ LastSequence \in Nat
  BY HistNumbered DEF LastSequence
<1>2. HistInv'
  BY <1>1 DEF HistInv
<1>3. /\ hist' \subseteq Entry /\ mem' \subseteq hist' /\ imm' \subseteq hist'
      /\ v'.l0 \in Seq((SUBSET hist') \ {{}})
      /\ v'.deep \in [1..(NumLevels - 1) -> SUBSET ((SUBSET hist') \ {{}})]
      /\ snaps' \subseteq 0..LastSequence'
  BY <1>1 DEF CTypeOK, Tables, DeepOf
<1>4. /\ comp'.level \in 0..NumLevels /\ comp'.small \in 0..LastSequence'
      /\ comp'.level < NumLevels =>
           /\ comp'.in0 # {} /\ comp'.in0 \subseteq FilesAt(v', comp'.level)
           /\ comp'.in1 \subseteq FilesAt(v', comp'.level + 1)
  <2>1. CASE comp' = NoCompaction
    BY <2>1, <1>1, Levels DEF NoCompaction
  <2>2. CASE comp' # NoCompaction
    BY <2>2, <1>1 DEF CTypeOK
  <2> QED BY <2>1, <2>2
<1>5. CTypeOK'
  BY <1>3, <1>4 DEF CTypeOK
<1> QED BY <1>2, <1>5

LEMMA SameFiles ==
  ASSUME TypeInv
  PROVE  /\ mem \subseteq hist /\ imm \subseteq hist
         /\ v.l0 \in Seq(Tables(hist))
         /\ v.deep \in DeepOf(hist)
         /\ snaps \subseteq 0..LastSequence
         /\ comp.level < NumLevels =>
              /\ comp.in0 \subseteq FilesAt(v, comp.level)
              /\ comp.in1 \subseteq FilesAt(v, comp.level + 1)
         /\ man.stage \in {"no", "force", "level"}
BY DEF TypeInv, CTypeOK, Tables, DeepOf

LEMMA EntryOfWrite ==
  ASSUME TypeInv, NEW k \in Keys, NEW d \in BOOLEAN, Write(k, d)
  PROVE  LET e == [key |-> k, seq |-> LastSequence + 1, del |-> d]
         IN  /\ e \in Entry /\ e \notin hist
             /\ hist' = hist \cup {e} /\ mem' = mem \cup {e}
             /\ LastSequence' = LastSequence + 1
             /\ HistInv'
<1> USE DEF TypeInv
<1> DEFINE e == [key |-> k, seq |-> LastSequence + 1, del |-> d]
<1>1. LastSequence \in Nat /\ Numbered(hist) /\ hist \subseteq Entries /\ MaxWrites \in Nat
  BY HistNumbered, CompactionAssumption
<1>2. LastSequence < MaxWrites
  BY DEF Write
<1>3. e \in Entry
  BY <1>1, <1>2 DEF Entry
<1>4. hist' = hist \cup {e} /\ mem' = mem \cup {e}
  BY DEF Write
<1>5. e.seq = LastSequence + 1
  OBVIOUS
<1> HIDE DEF e
<1>6. \A a \in hist : a.seq \in Nat /\ a.seq <= LastSequence
  BY <1>1 DEF HistInv, Entries
<1>7. e \notin hist
  BY <1>1, <1>5, <1>6
<1>8. IsFiniteSet(hist') /\ LastSequence' = LastSequence + 1
  BY <1>4, <1>7, FS_AddElement DEF HistInv, LastSequence
<1>9. Distinct(hist')
  <2> SUFFICES ASSUME NEW a \in hist', NEW b \in hist', a.seq = b.seq PROVE a = b
    BY DEF Distinct
  <2>1. a = e => b = e
    BY <1>1, <1>4, <1>5, <1>6
  <2>2. b = e => a = e
    BY <1>1, <1>4, <1>5, <1>6
  <2>3. a \in hist /\ b \in hist => a = b
    BY DEF HistInv, Distinct
  <2> QED BY <1>4, <2>1, <2>2, <2>3
<1>10. \A a \in hist' : a.seq <= LastSequence'
  BY <1>1, <1>4, <1>5, <1>6, <1>8
<1>11. HistInv'
  BY <1>8, <1>9, <1>10 DEF HistInv
<1>12. /\ e \in Entry /\ e \notin hist
       /\ hist' = hist \cup {e} /\ mem' = mem \cup {e}
       /\ LastSequence' = LastSequence + 1
       /\ HistInv'
  BY <1>3, <1>4, <1>7, <1>8, <1>11
<1> QED BY <1>12 DEF e

LEMMA WriteTypes ==
  ASSUME TypeInv, NEW k \in Keys, NEW d \in BOOLEAN, Write(k, d)
  PROVE  TypeInv'
<1> USE DEF TypeInv
<1> DEFINE e == [key |-> k, seq |-> LastSequence + 1, del |-> d]
<1>1. /\ e \in Entry /\ e \notin hist
      /\ hist' = hist \cup {e} /\ mem' = mem \cup {e}
      /\ LastSequence' = LastSequence + 1
      /\ HistInv'
  BY EntryOfWrite
<1>2. LastSequence \in Nat
  BY HistNumbered
<1>3. UNCHANGED <<imm, v, snaps, comp, man>>
  BY DEF Write
<1> HIDE DEF e
<1>4. v'.l0 \in Seq((SUBSET hist') \ {{}})
  <2>1. (SUBSET hist) \ {{}} \subseteq (SUBSET hist') \ {{}}
    BY <1>1
  <2>2. v.l0 \in Seq((SUBSET hist) \ {{}})
    BY DEF CTypeOK
  <2>3. v.l0 \in Seq((SUBSET hist') \ {{}})
    BY <2>1, <2>2, SeqMonotonic
  <2> QED BY <2>3, <1>3
<1>5. v'.deep \in [1..(NumLevels - 1) -> SUBSET ((SUBSET hist') \ {{}})]
  <2>1. (SUBSET hist) \ {{}} \subseteq (SUBSET hist') \ {{}}
    BY <1>1
  <2>2. v.deep \in [1..(NumLevels - 1) -> SUBSET ((SUBSET hist) \ {{}})]
    BY DEF CTypeOK
  <2>3. \A n \in 1..(NumLevels - 1) : v.deep[n] \in SUBSET ((SUBSET hist') \ {{}})
    BY <2>1, <2>2
  <2> QED BY <2>2, <2>3, <1>3
<1>6. snaps' \subseteq 0..LastSequence' /\ comp'.small \in 0..LastSequence'
  <2>1. 0..LastSequence \subseteq 0..LastSequence'
    BY <1>1, <1>2
  <2> QED BY <2>1, <1>3 DEF CTypeOK
<1>7. CTypeOK'
  BY <1>1, <1>3, <1>4, <1>5, <1>6 DEF CTypeOK
<1>8. BoundInv'
  BY <1>3 DEF BoundInv
<1> QED BY <1>1, <1>7, <1>8

(* A flush or a move, while the compaction's own tables stay.               *)
LEMMA EditTypes ==
  ASSUME TypeInv, NEW n, NEW gone, NEW m \in 0..(NumLevels - 1),
         NEW add \in SUBSET Tables(hist), m = 0 => Single(add),
         v' = Edited(v, n, gone, m, add)
  PROVE  /\ v'.l0 \in Seq(Tables(hist))
         /\ v'.deep \in DeepOf(hist)
         /\ \A i \in 0..(NumLevels - 1) :
               FilesAt(v', i) = FilesAfter(i, gone, m, add)
<1>1. CTypeOK /\ hist \subseteq hist
  BY DEF TypeInv
<1>2. PICK w : w = v'
  OBVIOUS
<1>3. w = Edited(v, n, gone, m, add)
  BY <1>2
<1>4. (m = 0 => Single(add)) /\ add \in SUBSET Tables(hist)
  OBVIOUS
<1>5. w.l0 \in Seq(Tables(hist))
  BY <1>1, <1>3, <1>4, EditedIs
<1>6. w.deep \in DeepOf(hist)
  BY <1>1, <1>3, <1>4, EditedIs
<1>7. \A i \in 0..(NumLevels - 1) : FilesAt(w, i) = FilesAfter(i, gone, m, add)
  BY <1>1, <1>3, <1>4, EditedIs
<1> QED BY <1>2, <1>5, <1>6, <1>7

LEMMA FlushTypes ==
  ASSUME TypeInv, CompactMemTable
  PROVE  TypeInv'
<1>1. /\ imm # {} /\ imm' = {}
      /\ UNCHANGED <<hist, mem, snaps, comp, man>>
  BY DEF CompactMemTable
<1>2. PICK n \in PickLevelForMemTableOutput(v, imm) : v' = Edited(v, n, {}, n, {imm})
  BY DEF CompactMemTable
<1>3. n \in 0..(NumLevels - 1)
  BY <1>2, Levels DEF PickLevelForMemTableOutput
<1>4. {imm} \in SUBSET Tables(hist)
  BY <1>1, SameFiles DEF Tables
<1>5. /\ v'.l0 \in Seq(Tables(hist))
      /\ v'.deep \in DeepOf(hist)
      /\ \A i \in 0..(NumLevels - 1) :
            FilesAt(v', i) = (FilesAt(v, i) \ {}) \cup (IF i = n THEN {imm} ELSE {})
  <2> DEFINE add == {imm}
             none == {}
  <2>1. (n = 0 => Single(add)) /\ add \in SUBSET Tables(hist) /\ v' = Edited(v, n, none, n, add)
    BY <1>2, <1>4 DEF Single
  <2> HIDE DEF add, none
  <2>2. /\ v'.l0 \in Seq(Tables(hist))
        /\ v'.deep \in DeepOf(hist)
        /\ \A i \in 0..(NumLevels - 1) :
              FilesAt(v', i) = FilesAfter(i, none, n, add)
    BY <2>1, <1>3, EditTypes
  <2> QED BY <2>2 DEF add, none, FilesAfter
<1>6. comp.level < NumLevels => comp.level \in 0..(NumLevels - 1) /\ comp.level + 1 \in 0..(NumLevels - 1)
  BY Levels DEF TypeInv, CTypeOK, BoundInv
<1>7. comp.level < NumLevels => /\ comp.in0 \subseteq FilesAt(v', comp.level)
                                /\ comp.in1 \subseteq FilesAt(v', comp.level + 1)
  BY <1>5, <1>6, SameFiles
<1>8. BoundInv'
  BY <1>1 DEF TypeInv, BoundInv
<1> QED BY <1>1, <1>5, <1>7, <1>8, SameFiles, KeptTypes

LEMMA PickedAre ==
  ASSUME TypeInv, NEW n \in 0..(NumLevels - 2), NEW t, Picked(n, t)
  PROVE  /\ PickedInputs(n, t) \subseteq FilesAt(v, n)
         /\ n # 0 => PickedInputs(n, t) = {t}
         /\ t \in FilesAt(v, n)
BY OverlappingAre DEF Picked, PickedInputs

LEMMA IdleIs ==
  ASSUME TypeInv, Idle
  PROVE  comp = NoCompaction /\ ~(comp.level < NumLevels)
BY Levels DEF Idle, NoCompaction

LEMMA MoveTypes ==
  ASSUME TypeInv, NEW n \in 0..(NumLevels - 2), NEW t, TrivialMove(n, t),
         PickedInputs(n, t) # {}
  PROVE  TypeInv'
<1>1. /\ Idle /\ Picked(n, t)
      /\ UNCHANGED <<hist, mem, imm, snaps, comp, man>>
  BY DEF TrivialMove
<1>2. PICK p \in SetupOtherInputs(v, n, PickedInputs(n, t)) :
          MayMove(p) /\ v' = Edited(v, n, p[1], n + 1, p[1])
  BY DEF TrivialMove
<1>3. /\ n \in 0..(NumLevels - 1) /\ n + 1 \in 0..(NumLevels - 1) /\ n + 1 # 0
      /\ NumLevels - 1 \in Nat
  BY Levels
<1>4. p[1] \in SUBSET FilesAt(v, n)
  BY <1>1, <1>2, <1>3, PickedAre, SetupIs DEF TypeInv
<1>5. p[1] \in SUBSET Tables(hist)
  BY <1>3, <1>4, FilesAre DEF TypeInv
<1>6. /\ v'.l0 \in Seq(Tables(hist))
      /\ v'.deep \in DeepOf(hist)
  BY <1>2, <1>3, <1>5, EditTypes
<1>7. BoundInv'
  BY <1>1 DEF TypeInv, BoundInv
<1>8. comp' = NoCompaction
  BY <1>1 DEF Idle
<1> QED BY <1>1, <1>6, <1>7, <1>8, SameFiles, KeptTypes

LEMMA BusyIs ==
  ASSUME TypeInv, comp # NoCompaction
  PROVE  /\ comp.level \in 0..(NumLevels - 2) /\ comp.level + 1 \in 1..(NumLevels - 1)
         /\ comp.level < NumLevels
         /\ comp.in0 # {} /\ comp.in0 \in SUBSET FilesAt(v, comp.level)
         /\ comp.in1 \in SUBSET FilesAt(v, comp.level + 1)
         /\ comp.in0 \cup comp.in1 \in SUBSET Tables(hist)
<1>1. comp.level \in 0..NumLevels /\ comp.level # NumLevels
  BY DEF TypeInv, CTypeOK, BoundInv
<1>2. comp.level < NumLevels
  BY <1>1, Levels
<1>3. comp.level + 1 < NumLevels
  BY <1>2 DEF TypeInv, BoundInv
<1>4. comp.level \in 0..(NumLevels - 2) /\ comp.level + 1 \in 1..(NumLevels - 1)
  BY <1>1, <1>3, Levels
<1>5. /\ comp.in0 # {} /\ comp.in0 \in SUBSET FilesAt(v, comp.level)
      /\ comp.in1 \in SUBSET FilesAt(v, comp.level + 1)
  BY <1>2 DEF TypeInv, CTypeOK
<1>6. FilesAt(v, comp.level) \subseteq Tables(hist) /\ FilesAt(v, comp.level + 1) \subseteq Tables(hist)
  BY <1>4, Levels, FilesAre DEF TypeInv
<1> QED BY <1>2, <1>4, <1>5, <1>6

LEMMA InputsOf ==
  ASSUME TypeInv, comp # NoCompaction
  PROVE  UNION (comp.in0 \cup comp.in1) \in SUBSET hist
BY BusyIs DEF Tables

LEMMA InstallTypes ==
  ASSUME TypeInv, InstallCompactionResults
  PROVE  TypeInv'
<1> DEFINE in == comp.in0 \cup comp.in1
           left == Kept(UNION in, comp.small, comp.base)
<1>1. /\ comp # NoCompaction /\ comp' = NoCompaction
      /\ UNCHANGED <<hist, mem, imm, snaps>>
      /\ man' = IF comp.manual THEN AfterPass(comp.in0) ELSE man
  BY DEF InstallCompactionResults
<1>2. PICK out \in Outputs(left) : v' = Edited(v, comp.level, in, comp.level + 1, out)
  BY DEF InstallCompactionResults
<1>3. left \in SUBSET hist
  BY <1>1, InputsOf DEF Kept
<1> HIDE DEF left, in
<1>4. out \in SUBSET Tables(hist)
  BY <1>2, <1>3, OutputsAre, HistNumbered DEF TypeInv
<1>5. comp.level + 1 \in 0..(NumLevels - 1) /\ comp.level + 1 # 0
  BY <1>1, BusyIs, Levels
<1>6. /\ v'.l0 \in Seq(Tables(hist))
      /\ v'.deep \in DeepOf(hist)
  BY <1>2, <1>4, <1>5, EditTypes
<1>7. BoundInv' /\ man'.stage = man.stage
  <2> DEFINE x == Largest(CHOOSE t \in comp.in0 : \A u \in comp.in0 \ {t} :
                             Before(Smallest(u), Smallest(t))).key
  <2>1. man' = [man EXCEPT !.begin = x] \/ man' = man
    BY <1>1 DEF AfterPass
  <2> HIDE DEF x
  <2>2. man = [stage |-> man.stage, level |-> man.level, max |-> man.max,
               range |-> man.range, begin |-> man.begin]
    BY DEF TypeInv, BoundInv
  <2>3. /\ man' = [stage |-> man'.stage, level |-> man'.level, max |-> man'.max,
                   range |-> man'.range, begin |-> man'.begin]
        /\ man'.stage = man.stage /\ man'.level = man.level /\ man'.max = man.max
    BY <2>1, <2>2
  <2>4. NoCompaction.level = NumLevels
    BY DEF NoCompaction
  <2> QED BY <1>1, <2>3, <2>4, Levels DEF TypeInv, BoundInv
<1> QED BY <1>1, <1>6, <1>7, SameFiles, KeptTypes

LEMMA RangeTypes ==
  ASSUME TypeInv, NEW r \in Ranges, CompactRange(r)
  PROVE  TypeInv' /\ man'.range = r /\ man'.begin = r[1]
<1> DEFINE held == {n \in 1..(NumLevels - 1) : OverlapInLevel(v, n, r)}
           most == CHOOSE n \in held \cup {1} : \A m \in held : m <= n
           U == {NumLevels - n : n \in held \cup {1}}
<1>1. /\ man' = [stage |-> "force", level |-> 0, max |-> most, range |-> r, begin |-> r[1]]
      /\ UNCHANGED <<hist, mem, imm, v, snaps, comp>>
  BY DEF CompactRange
<1>2. held \cup {1} \subseteq 1..(NumLevels - 1) /\ NumLevels \in Nat
  BY Levels
<1> HIDE DEF held
<1>3. U \subseteq Nat /\ U # {}
  BY <1>2
<1>4. PICK x \in U : \A y \in U : x <= y
  BY <1>3, LeastNat
<1>5. PICK n \in held \cup {1} : x = NumLevels - n
  BY <1>4
<1>6. \A m \in held : m <= n
  <2> SUFFICES ASSUME NEW m \in held PROVE m <= n
    OBVIOUS
  <2>1. NumLevels - m \in U /\ m \in Nat /\ n \in Nat
    BY <1>2
  <2>2. NumLevels - n <= NumLevels - m
    BY <2>1, <1>4, <1>5
  <2> QED BY <2>1, <2>2, <1>2
<1>7. most \in held \cup {1}
  BY <1>6
<1> HIDE DEF most
<1>8. most \in 1..(NumLevels - 1)
  BY <1>2, <1>7
<1>9. BoundInv'
  BY <1>1, <1>2, <1>8 DEF TypeInv, BoundInv
<1>10. man'.stage \in {"no", "force", "level"}
  BY <1>1
<1>11. TypeInv'
  BY <1>1, <1>9, <1>10, SameFiles, KeptTypes
<1> QED BY <1>1, <1>11

LEMMA ManualTypes ==
  ASSUME TypeInv, ForceMemTable \/ ManualDone
  PROVE  TypeInv'
<1>1. man = [stage |-> man.stage, level |-> man.level, max |-> man.max,
             range |-> man.range, begin |-> man.begin]
  BY DEF TypeInv, BoundInv
<1>2. /\ UNCHANGED <<hist, v, snaps, comp>>
      /\ mem' \subseteq hist /\ imm' \subseteq hist
  BY SameFiles DEF ForceMemTable, ManualDone
<1>3. \/ man' = [man EXCEPT !.stage = "level"] /\ man.stage = "force"
      \/ /\ man' = [man EXCEPT !.level = @ + 1, !.begin = man.range[1]]
         /\ man.level + 1 < man.max /\ man.stage = "level"
      \/ man' = NoCall
  BY DEF ForceMemTable, ManualDone
<1>4. BoundInv' /\ man'.stage \in {"no", "force", "level"}
  <2>1. CASE man' = [man EXCEPT !.stage = "level"] /\ man.stage = "force"
    <3>1. man' = [stage |-> "level", level |-> man.level, max |-> man.max,
                  range |-> man.range, begin |-> man.begin]
      BY <2>1, <1>1
    <3>2. man.stage # "no"
      BY <2>1
    <3> QED BY <3>1, <3>2, <1>2 DEF TypeInv, BoundInv
  <2>2. CASE /\ man' = [man EXCEPT !.level = @ + 1, !.begin = man.range[1]]
             /\ man.level + 1 < man.max /\ man.stage = "level"
    <3>1. man' = [stage |-> "level", level |-> man.level + 1, max |-> man.max,
                  range |-> man.range, begin |-> man.range[1]]
      BY <2>2, <1>1
    <3>2. man.level + 1 \in Nat /\ man.max \in 1..(NumLevels - 1)
      BY <2>2 DEF TypeInv, BoundInv
    <3> QED BY <2>2, <3>1, <3>2, <1>2 DEF TypeInv, BoundInv
  <2>3. CASE man' = NoCall
    BY <2>3, <1>2 DEF TypeInv, BoundInv, NoCall
  <2> QED BY <1>3, <2>1, <2>2, <2>3
<1> QED BY <1>2, <1>4, SameFiles, KeptTypes

(* What the background thread takes is there.                               *)
LEMMA PickedNotEmpty ==
  ASSUME TypeInv, NEW n \in 0..(NumLevels - 2), NEW t, Picked(n, t)
  PROVE  t \in PickedInputs(n, t)
<1>1. t \in FilesAt(v, n)
  BY DEF Picked
<1>2. CASE n # 0
  BY <1>2 DEF PickedInputs
<1>3. CASE n = 0
  <2>1. Numbered(hist) /\ FilesAt(v, 0) \subseteq Tables(hist)
    BY <1>3, HistNumbered, FilesAre, Levels DEF TypeInv
  <2>2. {t} \in SUBSET Tables(hist) /\ t \in Tables(hist)
    BY <1>1, <1>3, <2>1
  <2> DEFINE r == GetRange({t})
  <2>3. r \in Keys \X Keys /\ r = <<Lo(t), Hi(t)>>
    <3> DEFINE F == {t}
    <3>1. F \in SUBSET Tables(hist) /\ F # {} /\ UNION F = t
      BY <2>2
    <3> HIDE DEF F
    <3>2. GetRange(F) \in Keys \X Keys /\ GetRange(F) = <<Lo(UNION F), Hi(UNION F)>>
      BY <2>1, <3>1, UnionEnds
    <3> QED BY <3>1, <3>2 DEF F
  <2> HIDE DEF r
  <2>4. Lo(t) \in Nat /\ Hi(t) \in Nat /\ Lo(t) <= Hi(t)
    BY <2>1, <2>2, TableEnds
  <2>5. t \in GetOverlappingInputs(v, 0, r)
    BY <1>1, <1>3, <2>1, <2>3, <2>4, InputsMeet
  <2> QED BY <1>3, <2>5 DEF PickedInputs, r
<1> QED BY <1>2, <1>3

LEMMA ManualIs ==
  ASSUME TypeInv, man.stage = "level", NEW in0,
         in0 \in IF man.level = 0 THEN {ManualInputs} ELSE Parts(ManualInputs),
         ManualInputs # {}
  PROVE  /\ man.level \in 0..(NumLevels - 2)
         /\ in0 \in SUBSET FilesAt(v, man.level) /\ in0 # {}
<1>1. man.level \in Nat /\ man.max \in 1..(NumLevels - 1) /\ man.level < man.max
  BY DEF TypeInv, BoundInv
<1>2. man.level \in 0..(NumLevels - 2)
  BY <1>1, Levels
<1>3. ManualInputs \subseteq FilesAt(v, man.level)
  BY OverlappingAre DEF ManualInputs
<1> QED BY <1>2, <1>3 DEF Parts

LEMMA TypeStep ==
  ASSUME TypeInv, [Next]_vars
  PROVE  TypeInv'
<1>1. ASSUME NEW k \in Keys, NEW d \in BOOLEAN, Write(k, d) PROVE TypeInv'
  BY <1>1, WriteTypes
<1>2. CASE MakeRoomForWrite
  <2>1. mem' \subseteq hist /\ imm' \subseteq hist /\ UNCHANGED <<hist, v, snaps, comp, man>>
    BY <1>2, SameFiles DEF MakeRoomForWrite
  <2>2. BoundInv'
    BY <2>1 DEF TypeInv, BoundInv
  <2> QED BY <2>1, <2>2, SameFiles, KeptTypes
<1>3. CASE GetSnapshot \/ \E q \in snaps : ReleaseSnapshot(q)
  <2>1. UNCHANGED <<hist, mem, imm, v, comp, man>>
    BY <1>3 DEF GetSnapshot, ReleaseSnapshot
  <2>2. LastSequence \in Nat
    BY HistNumbered DEF TypeInv
  <2>3. snaps' \subseteq 0..LastSequence
    BY <1>3, <2>2, SameFiles DEF GetSnapshot, ReleaseSnapshot
  <2>4. BoundInv'
    BY <2>1 DEF TypeInv, BoundInv
  <2> QED BY <2>1, <2>3, <2>4, SameFiles, KeptTypes
<1>4. CASE CompactMemTable
  BY <1>4, FlushTypes
<1>5. ASSUME NEW n \in 0..(NumLevels - 2), NEW t \in FilesAt(v, n), PickCompaction(n, t)
      PROVE  TypeInv'
  <2>1. Picked(n, t) /\ UNCHANGED <<hist, mem, imm, v, snaps, man>>
    BY <1>5 DEF PickCompaction
  <2>2. PICK p \in SetupOtherInputs(v, n, PickedInputs(n, t)) : Begun(n, p, FALSE)
    BY <1>5 DEF PickCompaction
  <2>3. PickedInputs(n, t) \in SUBSET FilesAt(v, n) /\ PickedInputs(n, t) # {}
    BY <2>1, PickedAre, PickedNotEmpty
  <2> QED BY <2>1, <2>2, <2>3, BegunTypes
<1>6. ASSUME NEW n \in 0..(NumLevels - 2), NEW t \in FilesAt(v, n), TrivialMove(n, t)
      PROVE  TypeInv'
  <2>1. Picked(n, t)
    BY <1>6 DEF TrivialMove
  <2> QED BY <2>1, <1>6, PickedNotEmpty, MoveTypes
<1>7. CASE InstallCompactionResults
  BY <1>7, InstallTypes
<1>8. ASSUME NEW r \in Ranges, CompactRange(r) PROVE TypeInv'
  BY <1>8, RangeTypes
<1>9. CASE ForceMemTable \/ ManualDone
  BY <1>9, ManualTypes
<1>10. CASE ManualCompaction
  <2>1. man.stage = "level" /\ ManualInputs # {} /\ UNCHANGED <<hist, mem, imm, v, snaps, man>>
    BY <1>10 DEF ManualCompaction
  <2>2. PICK in0 \in IF man.level = 0 THEN {ManualInputs} ELSE Parts(ManualInputs) :
          \E p \in SetupOtherInputs(v, man.level, in0) : Begun(man.level, p, TRUE)
    BY <1>10 DEF ManualCompaction
  <2>3. PICK p \in SetupOtherInputs(v, man.level, in0) : Begun(man.level, p, TRUE)
    BY <2>2
  <2>4. /\ man.level \in 0..(NumLevels - 2)
        /\ in0 \in SUBSET FilesAt(v, man.level) /\ in0 # {}
    BY <2>1, <2>2, ManualIs
  <2> QED BY <2>1, <2>3, <2>4, BegunTypes
<1>11. CASE UNCHANGED vars
  <2>1. UNCHANGED <<hist, mem, imm, v, snaps, comp, man>>
    BY <1>11 DEF vars
  <2>2. BoundInv'
    BY <2>1 DEF TypeInv, BoundInv
  <2> QED BY <2>1, <2>2, SameFiles, KeptTypes
<1> QED
  BY <1>1, <1>2, <1>3, <1>4, <1>5, <1>6, <1>7, <1>8, <1>9, <1>10, <1>11 DEF Next

LEMMA InitTypes == Init => TypeInv
<1> SUFFICES ASSUME Init PROVE TypeInv
  OBVIOUS
<1>1. /\ hist = {} /\ mem = {} /\ imm = {} /\ snaps = {}
      /\ v.l0 = <<>> /\ v.deep = [n \in 1..(NumLevels - 1) |-> {}]
      /\ comp = NoCompaction /\ man = NoCall
  BY DEF Init
<1>2. IsFiniteSet(hist) /\ LastSequence = 0
  BY <1>1, FS_EmptySet DEF LastSequence
<1>3. HistInv
  BY <1>1, <1>2 DEF HistInv, Distinct
<1>4. BoundInv
  BY <1>1, Levels DEF BoundInv, NoCompaction, NoCall
<1>5. v.l0 \in Seq((SUBSET hist) \ {{}})
  BY <1>1
<1>6. v.deep \in [1..(NumLevels - 1) -> SUBSET ((SUBSET hist) \ {{}})]
  BY <1>1
<1>7. comp.level = NumLevels /\ comp.small = 0 /\ man.stage = "no"
  BY <1>1 DEF NoCompaction, NoCall
<1>8. CTypeOK
  BY <1>1, <1>2, <1>5, <1>6, <1>7, Levels DEF CTypeOK
<1> QED BY <1>3, <1>4, <1>8 DEF TypeInv

LEMMA TypeInvHolds == Spec => []TypeInv
BY InitTypes, TypeStep, PTL DEF Spec

(* The types, and with them: a table has entries, which were written; the   *)
(* tables that DoCompactionWork has in hand stay in their levels until it   *)
(* installs its results, whatever is flushed meanwhile; and there is always *)
(* a level below the one that is compacted.                                 *)
THEOREM CompactionTypeCorrect == Spec => []CTypeOK
BY TypeInvHolds, PTL DEF TypeInv

-----------------------------------------------------------------------------
(* The inputs of a compaction, as ranges of keys.                           *)

LEMMA ZeroApart ==
  ASSUME NEW H, Numbered(H), NEW w, FilesAt(w, 0) \subseteq Tables(H), NEW r \in Keys \X Keys,
         NEW t \in GetOverlappingInputs(w, 0, r),
         NEW u \in FilesAt(w, 0), u \notin GetOverlappingInputs(w, 0, r)
  PROVE  Apart(u, t)
<1> DEFINE F == FilesAt(w, 0)
           s == Grown(F, r)
<1>1. s \in Keys \X Keys /\ ClosedFor(F, r, s)
  BY GrownIs
<1>2. t \in F /\ Hi(t) >= s[1] /\ Lo(t) <= s[2]
  BY ZeroInputs
<1>3. ~(Hi(u) >= s[1] /\ Lo(u) <= s[2])
  BY ZeroInputs
<1>4. s[1] \in Nat /\ s[2] \in Nat
  BY <1>1, CompactionAssumption
<1> HIDE DEF s
<1>5. s[1] <= Lo(t) /\ Hi(t) <= s[2]
  BY <1>1, <1>2 DEF ClosedFor
<1>6. t \in Tables(H) /\ u \in Tables(H)
  BY <1>2
<1>7. Lo(t) \in Nat /\ Hi(t) \in Nat /\ Lo(u) \in Nat /\ Hi(u) \in Nat
  BY <1>6, TableEnds
<1> QED BY <1>3, <1>4, <1>5, <1>7 DEF Apart

\* The tables of G that meet what F spans.
MetBy(G, F) == {t \in G : Hi(t) >= Lo(UNION F) /\ Lo(t) <= Hi(UNION F)}

(* What is left of the next level lies on one side of all inputs.           *)
LEMMA LeftOutside ==
  ASSUME NEW H, Numbered(H), NEW F \in SUBSET Tables(H), F # {}, NEW G \in SUBSET Tables(H),
         \A t, u \in G : t # u => Apart(t, u),
         NEW u \in G \ MetBy(G, F)
  PROVE  Outside(u, F \cup MetBy(G, F))
<1> DEFINE a == Lo(UNION F)
           b == Hi(UNION F)
<1>1. UNION F \in Tables(H) /\ \A t \in F : a <= Lo(t) /\ Hi(t) <= b
  BY UnionEnds
<1>2. a \in Nat /\ b \in Nat
  BY <1>1, TableEnds
<1>3. \A t \in F : Lo(t) \in Nat /\ Hi(t) \in Nat
  BY TableEnds
<1>4. \A t \in G : Lo(t) \in Nat /\ Hi(t) \in Nat /\ Lo(t) <= Hi(t)
  BY TableEnds
<1>5. ~(Hi(u) >= a /\ Lo(u) <= b)
  BY DEF MetBy
<1>6. \A t \in MetBy(G, F) : t \in G /\ Hi(t) >= a /\ Lo(t) <= b
  BY DEF MetBy
<1> HIDE DEF a, b
<1>7. CASE Hi(u) < a
  <2>1. \A t \in F : Hi(u) < Lo(t)
    BY <1>1, <1>2, <1>3, <1>4, <1>7
  <2>2. \A t \in MetBy(G, F) : Hi(u) < Lo(t)
    <3> SUFFICES ASSUME NEW t \in MetBy(G, F) PROVE Hi(u) < Lo(t)
      OBVIOUS
    <3>1. t \in G /\ t # u /\ Apart(t, u)
      BY <1>6
    <3>2. /\ Hi(t) >= a
          /\ Lo(t) \in Nat /\ Hi(t) \in Nat /\ Lo(u) \in Nat /\ Hi(u) \in Nat /\ Lo(u) <= Hi(u)
      BY <1>4, <1>6, <3>1
    <3> QED BY <1>2, <1>7, <3>1, <3>2 DEF Apart
  <2> QED BY <2>1, <2>2 DEF Outside
<1>8. CASE b < Lo(u)
  <2>1. \A t \in F : Hi(t) < Lo(u)
    BY <1>1, <1>2, <1>3, <1>4, <1>8
  <2>2. \A t \in MetBy(G, F) : Hi(t) < Lo(u)
    <3> SUFFICES ASSUME NEW t \in MetBy(G, F) PROVE Hi(t) < Lo(u)
      OBVIOUS
    <3>1. t \in G /\ t # u /\ Apart(t, u)
      BY <1>6
    <3>2. /\ Lo(t) <= b
          /\ Lo(t) \in Nat /\ Hi(t) \in Nat /\ Lo(u) \in Nat /\ Hi(u) \in Nat /\ Lo(u) <= Hi(u)
      BY <1>4, <1>6, <3>1
    <3> QED BY <1>2, <1>8, <3>1, <3>2 DEF Apart
  <2> QED BY <2>1, <2>2 DEF Outside
<1>9. Hi(u) \in Nat /\ Lo(u) \in Nat
  BY <1>4
<1> QED BY <1>2, <1>5, <1>7, <1>8, <1>9

(* Tables that meet a solid set leave it solid.                             *)
LEMMA SolidGrow ==
  ASSUME NEW H, Numbered(H), NEW F \in SUBSET Tables(H), F # {}, Solid(F),
         NEW G \in SUBSET Tables(H), \A t \in G : Hi(t) >= Lo(UNION F) /\ Lo(t) <= Hi(UNION F)
  PROVE  Solid(F \cup G)
<1> DEFINE a == Lo(UNION F)
           b == Hi(UNION F)
<1>1. /\ UNION F \in Tables(H)
      /\ \A t \in F : a <= Lo(t) /\ Hi(t) <= b
      /\ \E t \in F : Lo(t) = a
      /\ \E t \in F : Hi(t) = b
  BY UnionEnds
<1>2. a \in Nat /\ b \in Nat
  BY <1>1, TableEnds
<1>3. \A t \in F \cup G : Lo(t) \in Nat /\ Hi(t) \in Nat
  BY TableEnds
<1>4. \A t \in G : Hi(t) >= a /\ Lo(t) <= b
  OBVIOUS
<1> HIDE DEF a, b
<1>5. SUFFICES ASSUME NEW k \in Nat, NEW x \in F \cup G, Lo(x) <= k, NEW y \in F \cup G, k <= Hi(y)
               PROVE  \E t \in F \cup G : Lo(t) <= k /\ k <= Hi(t)
  BY DEF Solid
<1>6. CASE k < a
  <2>1. x \in G
    BY <1>1, <1>2, <1>3, <1>5, <1>6
  <2>2. k <= Hi(x)
    BY <2>1, <1>2, <1>3, <1>4, <1>6
  <2> QED BY <1>5, <2>2
<1>7. CASE b < k
  <2>1. y \in G
    BY <1>1, <1>2, <1>3, <1>5, <1>7
  <2>2. Lo(y) <= k
    BY <2>1, <1>2, <1>3, <1>4, <1>7
  <2> QED BY <1>5, <2>2
<1>8. CASE a <= k /\ k <= b
  <2>1. \E t \in F : Lo(t) <= k
    BY <1>1, <1>8
  <2>2. \E t \in F : k <= Hi(t)
    BY <1>1, <1>8
  <2>3. \E t \in F : Lo(t) <= k /\ k <= Hi(t)
    BY <2>1, <2>2 DEF Solid
  <2> QED BY <2>3
<1> QED BY <1>2, <1>6, <1>7, <1>8

(* Nor does level 0 get a gap when it grows as little as it must.           *)
LEMMA SolidGrown ==
  ASSUME NEW H, Numbered(H), NEW F \in SUBSET Tables(H), F # {}, Solid(F),
         NEW w, FilesAt(w, 0) \subseteq Tables(H)
  PROVE  Solid(F \cup GetOverlappingInputs(w, 0, GetRange(F)))
<1> DEFINE a == Lo(UNION F)
           b == Hi(UNION F)
           Z == FilesAt(w, 0)
           r == GetRange(F)
           s == Grown(Z, r)
           G == GetOverlappingInputs(w, 0, r)
<1>1. /\ UNION F \in Tables(H)
      /\ \A t \in F : a <= Lo(t) /\ Hi(t) <= b
      /\ \E t \in F : Lo(t) = a
      /\ \E t \in F : Hi(t) = b
      /\ r = <<a, b>> /\ r \in Keys \X Keys
  BY UnionEnds
<1>2. a \in Nat /\ b \in Nat /\ a \in Keys /\ b \in Keys
  BY <1>1, TableEnds
<1>3. G \in SUBSET Tables(H) /\ Z \in SUBSET Tables(H)
  BY OverlappingAre
<1>4. \A t \in F \cup G : Lo(t) \in Nat /\ Hi(t) \in Nat
  BY <1>3, TableEnds
<1>5. \A t \in Z : Lo(t) \in Nat /\ Hi(t) \in Nat /\ Lo(t) \in Keys /\ Hi(t) \in Keys
  BY <1>3, TableEnds
<1>6. \A t \in Z : t \in G <=> Hi(t) >= s[1] /\ Lo(t) <= s[2]
  BY ZeroInputs
<1>7. /\ s \in Keys \X Keys /\ ClosedFor(Z, r, s)
      /\ \A u \in Keys \X Keys : ClosedFor(Z, r, u) => u[1] <= s[1] /\ s[2] <= u[2]
  BY <1>1, <1>3, GrownIs
<1>8. s[1] \in Nat /\ s[2] \in Nat /\ s[1] \in Keys /\ s[2] \in Keys /\ Keys \subseteq Nat
  BY <1>7, CompactionAssumption
<1>9. G \subseteq Z
  BY OverlappingAre
<1> HIDE DEF a, b, r, s, G, Z
<1>10. s[1] <= a /\ b <= s[2] /\ \A t \in G : s[1] <= Lo(t) /\ Hi(t) <= s[2]
  BY <1>1, <1>6, <1>7, <1>9 DEF ClosedFor
<1>11. SUFFICES ASSUME NEW k \in Nat, NEW x \in F \cup G, Lo(x) <= k, NEW y \in F \cup G, k <= Hi(y),
                       \A t \in F \cup G : ~(Lo(t) <= k /\ k <= Hi(t))
                PROVE  FALSE
  BY DEF Solid, G, r
<1>12. CASE a <= k /\ k <= b
  <2>1. \E t \in F : Lo(t) <= k
    BY <1>1, <1>12
  <2>2. \E t \in F : k <= Hi(t)
    BY <1>1, <1>12
  <2>3. \E t \in F : Lo(t) <= k /\ k <= Hi(t)
    BY <2>1, <2>2 DEF Solid
  <2> QED BY <2>3, <1>11
<1>13. CASE k < a
  <2> DEFINE K == {m \in Keys : k < m}
  <2>1. K \subseteq Nat /\ K # {} /\ a \in K
    BY <1>2, <1>8, <1>13
  <2>2. PICK m \in K : \A n \in K : m <= n
    BY <2>1, LeastNat
  <2>3. m \in Keys /\ m \in Nat /\ k < m /\ m <= a
    BY <2>1, <2>2
  <2>4. \A n \in Keys : k < n => m <= n
    BY <2>2
  <2> HIDE DEF K
  <2>5. x \in G
    BY <1>1, <1>2, <1>4, <1>11, <1>13
  <2>6. s[1] < m
    BY <2>3, <2>5, <1>4, <1>8, <1>10, <1>11
  <2> DEFINE u == <<m, s[2]>>
  <2>7. \A t \in Z : Hi(t) >= m /\ Lo(t) <= s[2] => m <= Lo(t) /\ Hi(t) <= s[2]
    <3> SUFFICES ASSUME NEW t \in Z, Hi(t) >= m, Lo(t) <= s[2] PROVE m <= Lo(t) /\ Hi(t) <= s[2]
      OBVIOUS
    <3>1. Lo(t) \in Nat /\ Hi(t) \in Nat /\ Lo(t) \in Keys
      BY <1>5
    <3>2. Hi(t) >= s[1]
      BY <2>3, <2>6, <3>1, <1>8
    <3>3. t \in G
      BY <1>6, <3>2
    <3>4. ~(Lo(t) <= k /\ k <= Hi(t)) /\ Hi(t) <= s[2]
      BY <1>10, <1>11, <3>3
    <3>5. k < Lo(t)
      BY <3>1, <3>4, <2>3
    <3> QED BY <2>4, <3>1, <3>4, <3>5
  <2>8. u \in Keys \X Keys /\ u[1] = m /\ u[2] = s[2]
    BY <1>8, <2>3
  <2> HIDE DEF u
  <2>9. r[1] = a /\ r[2] = b
    BY <1>1
  <2>10. ClosedFor(Z, r, u)
    BY <2>3, <2>7, <2>8, <2>9, <1>10 DEF ClosedFor
  <2>11. m <= s[1]
    BY <2>8, <2>10, <1>7
  <2> QED BY <2>3, <2>6, <2>11, <1>8
<1>14. CASE b < k
  <2> DEFINE K == {k - n : n \in {m \in Keys : m < k}}
  <2>1. K \subseteq Nat /\ K # {}
    BY <1>2, <1>8, <1>14
  <2>2. PICK d \in K : \A n \in K : d <= n
    BY <2>1, LeastNat
  <2>3. PICK m \in Keys : m < k /\ d = k - m
    BY <2>2
  <2>4. \A n \in Keys : n < k => n <= m
    <3> SUFFICES ASSUME NEW n \in Keys, n < k PROVE n <= m
      OBVIOUS
    <3>1. k - n \in K /\ n \in Nat /\ m \in Nat
      BY <1>8
    <3>2. k - m <= k - n
      BY <2>2, <2>3, <3>1
    <3> QED BY <3>1, <3>2
  <2>5. m \in Nat /\ m < k /\ b <= m
    BY <1>2, <1>8, <1>14, <2>3, <2>4
  <2> HIDE DEF K
  <2>6. y \in G
    BY <1>1, <1>2, <1>4, <1>11, <1>14
  <2>7. m < s[2]
    BY <2>5, <2>6, <1>4, <1>8, <1>10, <1>11
  <2> DEFINE u == <<s[1], m>>
  <2>8. \A t \in Z : Hi(t) >= s[1] /\ Lo(t) <= m => s[1] <= Lo(t) /\ Hi(t) <= m
    <3> SUFFICES ASSUME NEW t \in Z, Hi(t) >= s[1], Lo(t) <= m PROVE s[1] <= Lo(t) /\ Hi(t) <= m
      OBVIOUS
    <3>1. Lo(t) \in Nat /\ Hi(t) \in Nat /\ Hi(t) \in Keys
      BY <1>5
    <3>2. Lo(t) <= s[2]
      BY <2>5, <2>7, <3>1, <1>8
    <3>3. t \in G
      BY <1>6, <3>2
    <3>4. ~(Lo(t) <= k /\ k <= Hi(t)) /\ s[1] <= Lo(t)
      BY <1>10, <1>11, <3>3
    <3>5. Hi(t) < k
      BY <3>1, <3>4, <2>5
    <3> QED BY <2>4, <3>1, <3>4, <3>5
  <2>9. u \in Keys \X Keys /\ u[1] = s[1] /\ u[2] = m
    BY <1>8, <2>3
  <2> HIDE DEF u
  <2>10. r[1] = a /\ r[2] = b
    BY <1>1
  <2>11. ClosedFor(Z, r, u)
    BY <2>5, <2>8, <2>9, <2>10, <1>10 DEF ClosedFor
  <2>12. s[2] <= m
    BY <2>9, <2>11, <1>7
  <2> QED BY <2>5, <2>7, <2>12, <1>8
<1> QED BY <1>2, <1>12, <1>13, <1>14

AllApart == \A n \in 1..(NumLevels - 1) : \A t, u \in v.deep[n] : t # u => Apart(t, u)

LEMMA InputsBelow ==
  ASSUME TypeInv, NEW n \in 1..(NumLevels - 1), NEW F \in SUBSET Tables(hist), F # {}
  PROVE  GetOverlappingInputs(v, n, GetRange(F)) = MetBy(FilesAt(v, n), F)
<1>1. GetRange(F) = <<Lo(UNION F), Hi(UNION F)>>
  BY UnionEnds, HistNumbered DEF TypeInv
<1> DEFINE r == GetRange(F)
<1>2. r[1] = Lo(UNION F) /\ r[2] = Hi(UNION F)
  BY <1>1
<1> HIDE DEF r
<1>3. n # 0
  BY Levels
<1>4. \A t : t \in GetOverlappingInputs(v, n, r) <=> t \in FilesAt(v, n) /\ Hi(t) >= r[1] /\ Lo(t) <= r[2]
  BY <1>3, DeepInputs
<1>5. \A t : t \in GetOverlappingInputs(v, n, r) <=> t \in MetBy(FilesAt(v, n), F)
  BY <1>2, <1>4 DEF MetBy
<1>6. GetOverlappingInputs(v, n, r) = MetBy(FilesAt(v, n), F)
  BY <1>5
<1> QED BY <1>6 DEF r

(* Whatever inputs SetupOtherInputs settles for: the other tables of level  *)
(* 0 are apart from them, those of the next level lie on one side of them,  *)
(* and there is no gap between them.                                        *)
LEMMA SetupSpans ==
  ASSUME TypeInv, AllApart, NEW n \in 0..(NumLevels - 2),
         NEW in0 \in SUBSET FilesAt(v, n), in0 # {},
         n = 0 => \A t \in in0, u \in FilesAt(v, 0) \ in0 : Apart(u, t),
         NEW p \in SetupOtherInputs(v, n, in0)
  PROVE  /\ n = 0 => \A t \in p[1], u \in FilesAt(v, 0) \ p[1] : Apart(u, t)
         /\ \A u \in FilesAt(v, n + 1) \ p[2] : Outside(u, p[1] \cup p[2])
         /\ Solid(in0) => Solid(p[1] \cup p[2])
<1> DEFINE in1  == GetOverlappingInputs(v, n + 1, GetRange(in0))
           P    == in0 \cup in1
           exp0 == GetOverlappingInputs(v, n, GetRange(P))
           exp1 == GetOverlappingInputs(v, n + 1, GetRange(exp0))
           G    == FilesAt(v, n + 1)
<1>1. \/ p = <<in0, in1>>
      \/ /\ p = <<exp0, exp1>> /\ Cardinality(exp1) = Cardinality(in1)
         /\ Cardinality(exp0) > Cardinality(in0)
  BY DEF SetupOtherInputs
<1>2. /\ n \in 0..(NumLevels - 1) /\ n + 1 \in 1..(NumLevels - 1) /\ n + 1 \in 0..(NumLevels - 1)
      /\ n + 1 # 0
  BY Levels
<1>3. Numbered(hist) /\ IsFiniteSet(hist)
  BY HistNumbered DEF TypeInv, HistInv
<1>4. FilesAt(v, n) \in SUBSET Tables(hist) /\ G \in SUBSET Tables(hist) /\ G = v.deep[n + 1]
  BY <1>2, FilesAre DEF TypeInv
<1>5. \A t, u \in G : t # u => Apart(t, u)
  BY <1>2, <1>4 DEF AllApart
<1>6. exp0 \in SUBSET FilesAt(v, n) /\ in1 \in SUBSET G /\ exp1 \in SUBSET G
  BY OverlappingAre
<1>7. in0 \in SUBSET Tables(hist) /\ in1 \in SUBSET Tables(hist) /\ P \in SUBSET Tables(hist)
      /\ exp0 \in SUBSET Tables(hist) /\ P # {} /\ exp1 \in SUBSET Tables(hist)
  BY <1>4, <1>6
<1>8. in1 = MetBy(G, in0)
  BY <1>2, <1>7, InputsBelow
<1>9. \A u \in G \ in1 : Outside(u, in0 \cup in1)
  BY <1>3, <1>4, <1>5, <1>7, <1>8, LeftOutside
<1>10. \A t \in in1 : Hi(t) >= Lo(UNION in0) /\ Lo(t) <= Hi(UNION in0)
  BY <1>8 DEF MetBy
<1>11. Solid(in0) => Solid(P)
  BY <1>3, <1>7, <1>10, SolidGrow
<1>12. CASE p = <<in0, in1>>
  <2>1. p[1] = in0 /\ p[2] = in1
    BY <1>12
  <2> HIDE DEF in1, exp0, exp1
  <2> QED BY <2>1, <1>9, <1>11 DEF P, G
<1>13. CASE /\ p = <<exp0, exp1>> /\ Cardinality(exp1) = Cardinality(in1)
            /\ Cardinality(exp0) > Cardinality(in0)
  <2>1. p[1] = exp0 /\ p[2] = exp1
    BY <1>13
  <2>2. Cardinality(in0) \in Nat
    BY <1>3, <1>7, TablesFinite
  <2>3. exp0 # {}
    <3> HIDE DEF exp0
    <3>1. exp0 = {} => Cardinality(exp0) = 0
      BY FS_EmptySet
    <3> QED BY <2>2, <3>1, <1>13
  <2>4. exp1 = MetBy(G, exp0)
    <3>1. exp0 \in SUBSET Tables(hist) /\ exp0 # {}
      BY <1>7, <2>3
    <3> HIDE DEF exp0
    <3> QED BY <1>2, <3>1, InputsBelow
  <2>5. \A u \in G \ exp1 : Outside(u, exp0 \cup exp1)
    BY <1>3, <1>4, <1>5, <1>7, <2>3, <2>4, LeftOutside
  <2>6. /\ GetRange(P) \in Keys \X Keys
        /\ GetRange(P) = <<Lo(UNION P), Hi(UNION P)>>
        /\ \A t \in P : Lo(UNION P) <= Lo(t) /\ Hi(t) <= Hi(UNION P)
    <3> HIDE DEF P
    <3> QED BY <1>3, <1>7, UnionEnds
  <2>7. n = 0 => \A t \in exp0, u \in FilesAt(v, 0) \ exp0 : Apart(u, t)
    <3> SUFFICES ASSUME n = 0, NEW t \in exp0, NEW u \in FilesAt(v, 0) \ exp0 PROVE Apart(u, t)
      OBVIOUS
    <3> DEFINE r == GetRange(P)
    <3>1. r \in Keys \X Keys /\ FilesAt(v, 0) \subseteq Tables(hist)
      BY <1>4, <2>6
    <3>2. t \in GetOverlappingInputs(v, 0, r) /\ u \notin GetOverlappingInputs(v, 0, r)
      OBVIOUS
    <3> HIDE DEF r, exp0
    <3> QED BY <3>1, <3>2, <1>3, ZeroApart
  <2>8. ASSUME Solid(in0) PROVE Solid(exp0 \cup exp1)
    <3>1. Solid(P)
      BY <2>8, <1>11
    <3>2. Solid(P \cup exp0)
      <4>1. CASE n = 0
        <5> HIDE DEF P
        <5> QED BY <4>1, <3>1, <1>3, <1>4, <1>7, SolidGrown
      <4>2. CASE n # 0
        <5>1. n \in 1..(NumLevels - 1)
          BY <4>2, <1>2
        <5>2. exp0 = MetBy(FilesAt(v, n), P)
          <6> HIDE DEF P
          <6> QED BY <5>1, <1>7, InputsBelow
        <5>3. \A t \in exp0 : Hi(t) >= Lo(UNION P) /\ Lo(t) <= Hi(UNION P)
          BY <5>2 DEF MetBy
        <5> HIDE DEF P, exp0
        <5> QED BY <5>3, <3>1, <1>3, <1>7, SolidGrow
      <4> QED BY <4>1, <4>2
    <3>3. in0 \subseteq exp0
      <4> SUFFICES ASSUME NEW t \in in0 PROVE t \in exp0
        OBVIOUS
      <4> DEFINE r == GetRange(P)
      <4>1. r \in Keys \X Keys /\ r[1] = Lo(UNION P) /\ r[2] = Hi(UNION P)
        BY <2>6
      <4>2. t \in P /\ t \in FilesAt(v, n) /\ t \in Tables(hist)
        BY <1>7
      <4>3. Lo(UNION P) <= Lo(t) /\ Hi(t) <= Hi(UNION P)
        BY <2>6, <4>2
      <4>4. UNION P \in Tables(hist)
        <5> HIDE DEF P
        <5> QED BY <1>3, <1>7, UnionEnds
      <4> HIDE DEF P
      <4>5. Lo(UNION P) \in Nat /\ Hi(UNION P) \in Nat
        BY <4>4, <1>3, TableEnds
      <4>6. Lo(t) \in Nat /\ Hi(t) \in Nat /\ Lo(t) <= Hi(t)
        BY <4>2, <1>3, TableEnds
      <4>7. Hi(t) >= r[1] /\ Lo(t) <= r[2]
        BY <4>1, <4>3, <4>5, <4>6
      <4> HIDE DEF r
      <4>8. t \in GetOverlappingInputs(v, n, r)
        BY <4>1, <4>2, <4>7, <1>3, <1>4, InputsMeet
      <4> QED BY <4>8 DEF r
    <3>4. in1 \subseteq exp1
      <4> SUFFICES ASSUME NEW t \in in1 PROVE t \in exp1
        OBVIOUS
      <4>1. t \in G /\ Hi(t) >= Lo(UNION in0) /\ Lo(t) <= Hi(UNION in0)
        BY <1>6, <1>10
      <4> HIDE DEF in1, exp0, exp1, P
      <4>2. /\ UNION in0 \in Tables(hist)
            /\ \E x \in in0 : Lo(x) = Lo(UNION in0)
            /\ \E x \in in0 : Hi(x) = Hi(UNION in0)
        BY <1>3, <1>7, UnionEnds
      <4>3. UNION exp0 \in Tables(hist) /\ \A x \in exp0 : Lo(UNION exp0) <= Lo(x) /\ Hi(x) <= Hi(UNION exp0)
        BY <1>3, <1>7, <2>3, UnionEnds
      <4>4. /\ Lo(UNION in0) \in Nat /\ Hi(UNION in0) \in Nat
            /\ Lo(UNION exp0) \in Nat /\ Hi(UNION exp0) \in Nat
        BY <4>2, <4>3, <1>3, TableEnds
      <4>5. Lo(UNION exp0) <= Lo(UNION in0) /\ Hi(UNION in0) <= Hi(UNION exp0)
        BY <4>2, <4>3, <3>3
      <4>6. Lo(t) \in Nat /\ Hi(t) \in Nat
        BY <4>1, <1>3, <1>4, TableEnds
      <4>7. Hi(t) >= Lo(UNION exp0) /\ Lo(t) <= Hi(UNION exp0)
        BY <4>1, <4>4, <4>5, <4>6
      <4> QED BY <4>1, <4>7, <2>4 DEF MetBy
    <3>5. exp1 = in1
      <4> HIDE DEF in1, exp0, exp1, P
      <4>1. IsFiniteSet(exp1)
        BY <1>3, <1>7, TablesFinite
      <4> QED BY <4>1, <3>4, <1>13, FS_Subset
    <3>6. exp0 \cup exp1 = P \cup exp0
      <4> HIDE DEF in1, exp0, exp1
      <4> QED BY <3>3, <3>5 DEF P
    <3> HIDE DEF in1, exp0, exp1, P
    <3> QED BY <3>2, <3>6
  <2> HIDE DEF in1, exp0, exp1, P
  <2> QED BY <2>1, <2>5, <2>7, <2>8 DEF G
<1> HIDE DEF in1, exp0, exp1, P
<1> QED BY <1>1, <1>12, <1>13

-----------------------------------------------------------------------------
(* Where newer entries are.                                                 *)

Older(A, B) == \A a \in A, b \in B : a.key = b.key => a.seq < b.seq

Order ==
    /\ Older(imm, mem)
    /\ \A n \in 0..(NumLevels - 1) : \A t \in FilesAt(v, n) : Older(t, imm) /\ Older(t, mem)
    /\ \A i, j \in DOMAIN v.l0 : i < j => Older(v.l0[i], v.l0[j])
    /\ \A m, n \in 0..(NumLevels - 1) : m < n =>
          \A t \in FilesAt(v, m), u \in FilesAt(v, n) : Older(u, t)

LEMMA ApartOlder ==
  ASSUME NEW H, Numbered(H), NEW t \in Tables(H), NEW u \in Tables(H), Apart(t, u)
  PROVE  Older(t, u) /\ Older(u, t) /\ Apart(u, t) /\ t # u
<1>1. /\ Lo(t) \in Nat /\ Hi(t) \in Nat /\ Lo(u) \in Nat /\ Hi(u) \in Nat
      /\ Lo(t) <= Hi(t) /\ Lo(u) <= Hi(u)
      /\ \A e \in t : Lo(t) <= e.key /\ e.key <= Hi(t)
      /\ \A e \in u : Lo(u) <= e.key /\ e.key <= Hi(u)
  BY TableEnds
<1>2. (\A e \in t : e.key \in Nat) /\ (\A e \in u : e.key \in Nat)
  BY EntryTypes DEF Numbered, Tables
<1>3. \A a \in t, b \in u : a.key # b.key
  BY <1>1, <1>2 DEF Apart
<1>4. Apart(u, t)
  BY DEF Apart
<1>5. t # u
  BY <1>1 DEF Apart
<1> QED BY <1>3, <1>4, <1>5 DEF Older

LEMMA NotMeeting ==
  ASSUME NEW H, Numbered(H), NEW t \in Tables(H), NEW u \in Tables(H),
         ~Meets(u, <<Lo(t), Hi(t)>>)
  PROVE  Apart(t, u)
<1>1. /\ Lo(t) \in Nat /\ Hi(t) \in Nat /\ Lo(u) \in Nat /\ Hi(u) \in Nat
  BY TableEnds
<1>2. ~(Hi(u) >= Lo(t) /\ Lo(u) <= Hi(t))
  BY MeetsIs
<1> QED BY <1>1, <1>2 DEF Apart

(* A table that lies on one side of others is apart from what they hold.    *)
LEMMA OutsideApart ==
  ASSUME NEW H, Numbered(H), NEW F \in SUBSET Tables(H), NEW u \in Tables(H), Outside(u, F),
         NEW t \in Tables(H), t \subseteq UNION F
  PROVE  Apart(t, u)
<1>1. /\ Lo(t) \in Nat /\ Hi(t) \in Nat /\ Lo(u) \in Nat /\ Hi(u) \in Nat
      /\ \E e \in t : e.key = Lo(t)
      /\ \E e \in t : e.key = Hi(t)
  BY TableEnds
<1>2. \A x \in F : /\ Lo(x) \in Nat /\ Hi(x) \in Nat
                   /\ \A e \in x : Lo(x) <= e.key /\ e.key <= Hi(x)
  BY TableEnds
<1>3. PICK x \in F : \E e \in x : e.key = Lo(t)
  BY <1>1
<1>4. PICK y \in F : \E e \in y : e.key = Hi(t)
  BY <1>1
<1>5. Lo(x) <= Lo(t) /\ Hi(t) <= Hi(y)
  BY <1>2, <1>3, <1>4
<1>6. /\ Lo(x) \in Nat /\ Hi(x) \in Nat /\ Lo(y) \in Nat /\ Hi(y) \in Nat
  BY <1>2, <1>3, <1>4
<1>7. Hi(u) < Lo(x) \/ Hi(y) < Lo(u)
  BY <1>3, <1>4 DEF Outside
<1> QED BY <1>1, <1>5, <1>6, <1>7 DEF Apart

LEMMA OnlyInOrder ==
  ASSUME NEW A, NEW s \in Seq(A), NEW S
  PROVE  \E f \in [DOMAIN Only(s, S) -> DOMAIN s] :
            /\ \A k \in DOMAIN Only(s, S) : Only(s, S)[k] = s[f[k]]
            /\ \A j, k \in DOMAIN Only(s, S) : j < k => f[j] < f[k]
<1>1. PICK f \in [DOMAIN Only(s, S) -> DOMAIN s] :
            /\ \A k \in DOMAIN Only(s, S) : Only(s, S)[k] = s[f[k]] /\ s[f[k]] \in S
            /\ \A j, k \in DOMAIN Only(s, S) : j < k => f[j] < f[k]
  BY OnlyTakes, Zenon
<1> QED BY <1>1, Zenon

(* A new version keeps newer entries above older ones.                      *)
LEMMA EditOrder ==
  ASSUME TypeInv, Order, AllApart,
         NEW n, NEW gone, NEW m \in 0..(NumLevels - 1),
         NEW add \in SUBSET Tables(hist), m = 0 => Single(add),
         v' = Edited(v, n, gone, m, add),
         mem' = mem, imm' = imm \/ imm' = {},
         \A t \in add : Older(t, imm') /\ Older(t, mem),
         \A t \in add : \A i \in 0..(NumLevels - 1) : \A u \in FilesAt(v, i) \ gone :
            /\ i < m => Older(t, u)
            /\ m < i => Older(u, t)
            /\ i = m /\ m = 0 => Older(u, t)
            /\ i = m /\ m # 0 => Apart(t, u),
         m # 0 => \A t, u \in add : t # u => Apart(t, u)
  PROVE  Order' /\ AllApart'
<1> DEFINE L == 0..(NumLevels - 1)
<1>1. \A i \in L : FilesAt(v', i) = FilesAfter(i, gone, m, add)
  BY EditTypes
<1>2. v'.l0 \in Seq(Tables(hist)) /\ v'.deep \in DeepOf(hist)
  BY EditTypes
<1>3. \A i \in L : \A u \in FilesAt(v', i) :
         \/ u \in FilesAt(v, i) /\ u \notin gone
         \/ u \in add /\ i = m
  BY <1>1 DEF FilesAfter
<1>4. \A t \in add, i \in L : \A u \in FilesAt(v, i) : u \notin gone =>
            /\ i < m => Older(t, u)
            /\ m < i => Older(u, t)
            /\ i = m /\ m = 0 => Older(u, t)
            /\ i = m /\ m # 0 => Apart(t, u)
  OBVIOUS
<1>5. Older(imm', mem')
  BY DEF Order, Older
<1>6. \A i \in L : \A t \in FilesAt(v', i) : Older(t, imm') /\ Older(t, mem')
  <2> SUFFICES ASSUME NEW i \in L, NEW t \in FilesAt(v', i) PROVE Older(t, imm') /\ Older(t, mem')
    OBVIOUS
  <2>1. CASE t \in add
    BY <2>1
  <2>2. CASE t \in FilesAt(v, i)
    <3>1. Older(t, imm) /\ Older(t, mem)
      BY <2>2 DEF Order
    <3>2. Older(t, {})
      BY DEF Older
    <3> QED BY <3>1, <3>2
  <2> QED BY <2>1, <2>2, <1>3
<1>7. \A i, j \in L : i < j => \A t \in FilesAt(v', i), u \in FilesAt(v', j) : Older(u, t)
  <2> SUFFICES ASSUME NEW i \in L, NEW j \in L, i < j,
                      NEW t \in FilesAt(v', i), NEW u \in FilesAt(v', j)
               PROVE  Older(u, t)
    OBVIOUS
  <2>0. i \in Nat /\ j \in Nat /\ m \in Nat
    OBVIOUS
  <2>1. CASE t \in FilesAt(v, i) /\ t \notin gone /\ u \in FilesAt(v, j) /\ u \notin gone
    BY <2>1 DEF Order
  <2>2. CASE t \in add /\ i = m /\ u \in FilesAt(v, j) /\ u \notin gone
    BY <2>2, <1>4
  <2>3. CASE t \in FilesAt(v, i) /\ t \notin gone /\ u \in add /\ j = m
    BY <2>3, <1>4
  <2>4. CASE i = m /\ j = m
    BY <2>0, <2>4
  <2> QED BY <1>3, <2>1, <2>2, <2>3, <2>4
<1>8. \A i, j \in DOMAIN v'.l0 : i < j => Older(v'.l0[i], v'.l0[j])
  <2> DEFINE X == FilesAt(v, 0) \ gone
             s == v.l0
             kept == Only(s, X)
  <2>0. v'.l0 = IF m = 0 THEN kept \o SetToSeq(add) ELSE kept
    BY DEF Edited
  <2>1. s \in Seq(Tables(hist))
    BY SameFiles
  <2> HIDE DEF s, X
  <2>2. PICK f \in [DOMAIN kept -> DOMAIN s] :
            /\ \A k \in DOMAIN kept : kept[k] = s[f[k]]
            /\ \A j, k \in DOMAIN kept : j < k => f[j] < f[k]
    BY <2>1, OnlyInOrder, Zenon
  <2>3. kept \in Seq(Tables(hist) \cap X)
    BY <2>1, OnlyRange
  <2> HIDE DEF kept
  <2>4. \A i, j \in DOMAIN kept : i < j => Older(kept[i], kept[j])
    <3> SUFFICES ASSUME NEW i \in DOMAIN kept, NEW j \in DOMAIN kept, i < j
                 PROVE  Older(kept[i], kept[j])
      OBVIOUS
    <3>1. f[i] \in DOMAIN s /\ f[j] \in DOMAIN s /\ f[i] < f[j]
      BY <2>2
    <3>2. Older(s[f[i]], s[f[j]])
      BY <3>1 DEF Order, s
    <3> QED BY <3>2, <2>2
  <2>5. CASE m # 0
    <3>1. v'.l0 = kept
      BY <2>0, <2>5
    <3> QED BY <3>1, <2>4
  <2>6. CASE m = 0
    <3>1. PICK t : add = {t}
      BY <2>6 DEF Single
    <3>2. v'.l0 = kept \o <<t>>
      BY <2>0, <2>6, <3>1, SetToSeqOne
    <3>3. \A i \in DOMAIN kept : kept[i] \in FilesAt(v, 0) /\ kept[i] \notin gone
      BY <2>3 DEF X
    <3>4. 0 \in L
      BY Levels
    <3>5. \A i \in DOMAIN kept : Older(kept[i], t)
      BY <1>4, <2>6, <3>1, <3>3, <3>4
    <3>6. kept \in Seq(Tables(hist))
      <4>1. Tables(hist) \cap X \subseteq Tables(hist)
        OBVIOUS
      <4> QED BY <4>1, <2>3, SeqMonotonic
    <3>7. /\ Len(kept) \in Nat /\ DOMAIN kept = 1..Len(kept)
          /\ DOMAIN v'.l0 = 1..(Len(kept) + 1)
          /\ \A i \in 1..Len(kept) : v'.l0[i] = kept[i]
          /\ v'.l0[Len(kept) + 1] = t
      BY <3>2, <3>6
    <3> SUFFICES ASSUME NEW i \in DOMAIN v'.l0, NEW j \in DOMAIN v'.l0, i < j
                 PROVE  Older(v'.l0[i], v'.l0[j])
      OBVIOUS
    <3>8. i \in DOMAIN kept
      BY <3>7
    <3>9. CASE j \in DOMAIN kept
      BY <3>7, <3>8, <3>9, <2>4
    <3>10. CASE j = Len(kept) + 1
      BY <3>5, <3>7, <3>8, <3>10
    <3> QED BY <3>7, <3>9, <3>10
  <2> QED BY <2>5, <2>6
<1>9. Order'
  BY <1>5, <1>6, <1>7, <1>8 DEF Order
<1>10. AllApart'
  <2> SUFFICES ASSUME NEW i \in 1..(NumLevels - 1), NEW t \in v'.deep[i], NEW u \in v'.deep[i], t # u
               PROVE  Apart(t, u)
    BY DEF AllApart
  <2>1. i \in L /\ i # 0
    BY Levels
  <2>2. v'.deep[i] = FilesAt(v', i) /\ v.deep[i] = FilesAt(v, i)
    BY <2>1 DEF FilesAt
  <2>3. FilesAt(v, i) \subseteq Tables(hist)
    BY <2>1, FilesAre DEF TypeInv
  <2>4. Numbered(hist)
    BY HistNumbered DEF TypeInv
  <2>5. CASE t \in FilesAt(v, i) /\ t \notin gone /\ u \in FilesAt(v, i) /\ u \notin gone
    BY <2>2, <2>5 DEF AllApart
  <2>6. CASE i = m /\ t \in add /\ u \in add
    BY <2>1, <2>6
  <2>7. CASE i = m /\ t \in add /\ u \in FilesAt(v, i) /\ u \notin gone
    BY <1>4, <2>1, <2>7
  <2>8. CASE i = m /\ u \in add /\ t \in FilesAt(v, i) /\ t \notin gone
    <3>1. Apart(u, t) /\ u \in Tables(hist) /\ t \in Tables(hist)
      BY <1>4, <2>1, <2>3, <2>8
    <3> QED BY <2>4, <3>1, ApartOlder
  <2> QED BY <1>3, <2>1, <2>2, <2>5, <2>6, <2>7, <2>8
<1> QED BY <1>9, <1>10

-----------------------------------------------------------------------------
(* The inductive invariant of the levels.                                   *)

\* The two findings excluded.  No memtable is flushed below level 0 into a gap
\* between the inputs of a manual compaction: there is no such call, no such
\* flush, or the calls' ranges end with the first key.  And no file ends
\* between the entries of a key that a snapshot keeps.
Uninterrupted ==
    \/ Ranges = {} \/ MaxMemCompactLevel = 0
    \/ \A r \in Ranges : \A k \in Keys : r[2] <= k
WholeKeys == ~KeysSplit \/ MaxSnapshots = 0

Inputs == comp.in0 \cup comp.in1

CompInv ==
    comp # NoCompaction =>
      /\ \A u \in FilesAt(v, comp.level + 1) \ comp.in1 : Outside(u, Inputs)
      /\ Solid(Inputs) \/ MaxMemCompactLevel = 0
      /\ comp.level = 0 => \A t \in comp.in0, u \in FilesAt(v, 0) \ comp.in0 : Older(t, u)
      /\ \A m \in (comp.level + 2)..(NumLevels - 1) : \A t \in FilesAt(v, m) : \A e \in t :
            \A s \in UNION Inputs : s.key \in comp.base => e.key # s.key
      /\ MaxSnapshots = 0 => \A s \in UNION Inputs : s.seq <= comp.small

CallInv ==
    /\ Ranges = {} => man.stage = "no"
    /\ man.stage # "no" => man.begin \in Keys /\ man.range \in Ranges
    /\ MaxSnapshots = 0 => snaps = {}

LevelsInv == Order /\ AllApart /\ CompInv /\ CallInv

\* Nothing has happened to the files.
LEMMA FilesSame ==
  ASSUME TypeInv, Order, AllApart, CompInv,
         UNCHANGED <<v, comp>>,
         Older(imm', mem'),
         \A n \in 0..(NumLevels - 1) : \A t \in FilesAt(v, n) : Older(t, imm') /\ Older(t, mem')
  PROVE  Order' /\ AllApart' /\ CompInv'
<1>1. Order'
  BY DEF Order
<1>2. AllApart'
  BY DEF AllApart
<1>3. CompInv'
  BY DEF CompInv, Inputs
<1> QED BY <1>1, <1>2, <1>3

LEMMA WriteLevels ==
  ASSUME TypeInv, LevelsInv, NEW k \in Keys, NEW d \in BOOLEAN, Write(k, d)
  PROVE  LevelsInv'
<1> DEFINE e == [key |-> k, seq |-> LastSequence + 1, del |-> d]
<1>1. mem' = mem \cup {e} /\ UNCHANGED <<imm, v, snaps, comp, man>>
  BY DEF Write
<1>2. e.seq = LastSequence + 1 /\ LastSequence \in Nat
  BY HistNumbered DEF TypeInv
<1> HIDE DEF e
<1>3. \A a \in hist : a.seq < e.seq
  BY <1>2, HistNumbered DEF TypeInv, HistInv, Entries
<1>4. \A A \in SUBSET hist : Older(A, mem) => Older(A, mem')
  BY <1>1, <1>3 DEF Older
<1>5. imm \in SUBSET hist
  BY SameFiles
<1>6. \A n \in 0..(NumLevels - 1) : \A t \in FilesAt(v, n) : t \in SUBSET hist
  BY FilesAre DEF Tables, TypeInv
<1>7. Older(imm', mem')
  BY <1>1, <1>4, <1>5 DEF LevelsInv, Order
<1>8. \A n \in 0..(NumLevels - 1) : \A t \in FilesAt(v, n) : Older(t, imm') /\ Older(t, mem')
  BY <1>1, <1>4, <1>6 DEF LevelsInv, Order
<1>9. Order' /\ AllApart' /\ CompInv'
  BY <1>1, <1>7, <1>8, FilesSame DEF LevelsInv
<1>10. CallInv'
  BY <1>1 DEF LevelsInv, CallInv
<1> QED BY <1>9, <1>10 DEF LevelsInv

(* The memtable becomes the immutable one.                                  *)
LEMMA SwitchLevels ==
  ASSUME TypeInv, LevelsInv, imm' = mem, mem' = {}, UNCHANGED <<v, comp>>
  PROVE  Order' /\ AllApart' /\ CompInv'
<1>1. Older(imm', mem')
  BY DEF Older
<1>2. \A t : Older(t, mem')
  BY DEF Older
<1>3. \A n \in 0..(NumLevels - 1) : \A t \in FilesAt(v, n) : Older(t, imm') /\ Older(t, mem')
  BY <1>2 DEF LevelsInv, Order
<1> QED BY <1>1, <1>3, FilesSame DEF LevelsInv

(* A table that goes down to level n meets none on its way.                 *)
LEMMA ClearIs ==
  ASSUME TypeInv, imm # {}, NEW n \in PickLevelForMemTableOutput(v, imm), n # 0,
         NEW i \in 0..n, NEW u \in FilesAt(v, i)
  PROVE  Apart(imm, u)
<1>1. n \in 0..MaxMemCompactLevel /\ n \in 1..(NumLevels - 1) /\ i \in 0..(NumLevels - 1)
      /\ (i = 0 \/ i \in 1..n)
  BY Levels DEF PickLevelForMemTableOutput
<1>2. ~OverlapInLevel(v, 0, GetRange({imm})) /\ \A m \in 1..n : ~OverlapInLevel(v, m, GetRange({imm}))
  BY DEF PickLevelForMemTableOutput
<1>3. ~OverlapInLevel(v, i, GetRange({imm}))
  BY <1>1, <1>2
<1>4. ~Meets(u, GetRange({imm}))
  BY <1>3 DEF OverlapInLevel
<1>5. GetRange({imm}) = <<Lo(imm), Hi(imm)>>
  <2>1. UNION {imm} = imm
    OBVIOUS
  <2> QED BY <2>1 DEF GetRange, Lo, Hi
<1>6. imm \in Tables(hist) /\ u \in Tables(hist) /\ Numbered(hist)
  <2>1. FilesAt(v, i) \subseteq Tables(hist)
    BY <1>1, FilesAre DEF TypeInv
  <2>2. Numbered(hist)
    BY HistNumbered DEF TypeInv
  <2> QED BY <2>1, <2>2, SameFiles DEF Tables
<1> QED BY <1>4, <1>5, <1>6, NotMeeting

(* It lies on one side of a compaction's inputs, if they leave no gap.      *)
LEMMA SolidOutside ==
  ASSUME NEW H, Numbered(H), NEW F \in SUBSET Tables(H), Solid(F),
         NEW u \in Tables(H), \A t \in F : Apart(u, t)
  PROVE  Outside(u, F)
<1>1. Lo(u) \in Nat /\ Hi(u) \in Nat /\ Lo(u) <= Hi(u)
  BY TableEnds
<1>2. \A t \in F : Lo(t) \in Nat /\ Hi(t) \in Nat /\ Lo(t) <= Hi(t)
  BY TableEnds
<1>3. SUFFICES ASSUME NEW x \in F, ~(Hi(u) < Lo(x)), NEW y \in F, ~(Hi(y) < Lo(u))
               PROVE  FALSE
  BY DEF Outside
<1>4. Hi(x) < Lo(u) /\ Hi(u) < Lo(y)
  BY <1>3 DEF Apart
<1>5. Lo(x) <= Lo(u) /\ Lo(u) <= Hi(y)
  BY <1>1, <1>2, <1>4
<1>6. PICK t \in F : Lo(t) <= Lo(u) /\ Lo(u) <= Hi(t)
  BY <1>1, <1>5 DEF Solid
<1>7. Apart(u, t)
  OBVIOUS
<1> QED BY <1>1, <1>2, <1>6, <1>7 DEF Apart

LEMMA FlushLevels ==
  ASSUME TypeInv, LevelsInv, CompactMemTable
  PROVE  LevelsInv'
<1>1. /\ imm # {} /\ imm' = {}
      /\ UNCHANGED <<hist, mem, snaps, comp, man>>
  BY DEF CompactMemTable
<1>2. PICK n \in PickLevelForMemTableOutput(v, imm) : v' = Edited(v, n, {}, n, {imm})
  BY DEF CompactMemTable
<1>3. n \in 0..(NumLevels - 1) /\ n <= MaxMemCompactLevel /\ n \in Nat
  BY <1>2, Levels DEF PickLevelForMemTableOutput
<1>4. Numbered(hist) /\ imm \in Tables(hist)
  BY <1>1, SameFiles, HistNumbered DEF Tables, TypeInv
<1>5. \A i \in 0..(NumLevels - 1) : \A u \in FilesAt(v, i) :
         u \in Tables(hist) /\ (n # 0 /\ i <= n => Apart(imm, u))
  <2> SUFFICES ASSUME NEW i \in 0..(NumLevels - 1), NEW u \in FilesAt(v, i)
               PROVE  u \in Tables(hist) /\ (n # 0 /\ i <= n => Apart(imm, u))
    OBVIOUS
  <2>1. u \in Tables(hist)
    BY FilesAre DEF TypeInv
  <2>2. i <= n => i \in 0..n
    BY <1>3
  <2> QED BY <2>1, <2>2, <1>1, ClearIs
<1>6. \A i \in 0..(NumLevels - 1) : \A u \in FilesAt(v, i) : Older(u, imm)
  BY DEF LevelsInv, Order
<1> DEFINE add == {imm}
           gone == {}
<1>7. add \in SUBSET Tables(hist) /\ Single(add) /\ v' = Edited(v, n, gone, n, add)
  BY <1>2, <1>4 DEF Single
<1>8. \A t \in add : Older(t, imm') /\ Older(t, mem)
  BY <1>1 DEF LevelsInv, Order, Older
<1>9. \A t \in add : t = imm
  OBVIOUS
<1>10. \A i \in 0..(NumLevels - 1) : \A u \in FilesAt(v, i) \ gone :
            /\ i < n => Older(imm, u)
            /\ n < i => Older(u, imm)
            /\ i = n /\ n = 0 => Older(u, imm)
            /\ i = n /\ n # 0 => Apart(imm, u)
  <2> SUFFICES ASSUME NEW i \in 0..(NumLevels - 1), NEW u \in FilesAt(v, i)
               PROVE  /\ i < n => Older(imm, u)
                      /\ i = n /\ n # 0 => Apart(imm, u)
    BY <1>6
  <2>1. i < n => Apart(imm, u)
    BY <1>3, <1>5
  <2>2. i = n /\ n # 0 => Apart(imm, u)
    BY <1>3, <1>5
  <2>3. u \in Tables(hist)
    BY <1>5
  <2> QED BY <2>1, <2>2, <2>3, <1>4, ApartOlder
<1>11. \A t, u \in add : t # u => Apart(t, u)
  BY <1>9
<1> HIDE DEF add, gone
<1>12. \A i \in 0..(NumLevels - 1) : FilesAt(v', i) = FilesAfter(i, gone, n, add)
  BY <1>3, <1>7, EditTypes
<1>13. \A i \in 0..(NumLevels - 1) : \A u \in FilesAt(v', i) : u \in FilesAt(v, i) \/ (u = imm /\ i = n)
  BY <1>9, <1>12 DEF FilesAfter
<1>14. Order' /\ AllApart'
  <2>1. \A t \in add : \A i \in 0..(NumLevels - 1) : \A u \in FilesAt(v, i) \ gone :
            /\ i < n => Older(t, u)
            /\ n < i => Older(u, t)
            /\ i = n /\ n = 0 => Older(u, t)
            /\ i = n /\ n # 0 => Apart(t, u)
    BY <1>9, <1>10
  <2>2. mem' = mem
    BY <1>1
  <2>3. Order /\ AllApart
    BY DEF LevelsInv
  <2> QED BY <1>1, <1>3, <1>7, <1>8, <1>11, <2>1, <2>2, <2>3, EditOrder
<1>15. CompInv'
  <2> SUFFICES ASSUME comp # NoCompaction
               PROVE  /\ \A u \in FilesAt(v', comp.level + 1) \ comp.in1 : Outside(u, Inputs)
                      /\ comp.level = 0 =>
                           \A t \in comp.in0, u \in FilesAt(v', 0) \ comp.in0 : Older(t, u)
                      /\ \A m \in (comp.level + 2)..(NumLevels - 1) : \A t \in FilesAt(v', m) : \A e \in t :
                            \A s \in UNION Inputs : s.key \in comp.base => e.key # s.key
    BY <1>1 DEF LevelsInv, CompInv, Inputs
  <2>1. /\ comp.level \in 0..(NumLevels - 2) /\ comp.level + 1 \in 1..(NumLevels - 1)
        /\ comp.in0 \in SUBSET FilesAt(v, comp.level)
        /\ comp.in1 \in SUBSET FilesAt(v, comp.level + 1)
        /\ Inputs \in SUBSET Tables(hist)
    BY BusyIs DEF Inputs
  <2>2. comp.level \in 0..(NumLevels - 1) /\ comp.level + 1 \in 0..(NumLevels - 1)
        /\ comp.level \in Nat /\ 0 \in 0..(NumLevels - 1)
    BY <2>1, Levels
  <2>3. comp.level + 1 <= n => /\ \A t \in Inputs : Apart(imm, t)
                               /\ Solid(Inputs)
    <3> SUFFICES ASSUME comp.level + 1 <= n
                 PROVE  (\A t \in Inputs : Apart(imm, t)) /\ Solid(Inputs)
      OBVIOUS
    <3>1. n # 0 /\ comp.level <= n /\ MaxMemCompactLevel # 0
      BY <2>2, <1>3, Levels
    <3>2. \A t \in Inputs : Apart(imm, t)
      BY <2>1, <2>2, <3>1, <1>5 DEF Inputs
    <3> QED BY <3>1, <3>2 DEF LevelsInv, CompInv
  <2>4. ASSUME NEW u \in FilesAt(v', comp.level + 1) \ comp.in1 PROVE Outside(u, Inputs)
    <3>1. CASE u \in FilesAt(v, comp.level + 1)
      BY <3>1 DEF LevelsInv, CompInv
    <3>2. CASE u = imm /\ comp.level + 1 = n
      <4>1. (\A t \in Inputs : Apart(imm, t)) /\ Solid(Inputs)
        BY <2>3, <3>2, <1>3
      <4> QED BY <4>1, <3>2, <2>1, <1>4, SolidOutside
    <3> QED BY <3>1, <3>2, <2>2, <1>13
  <2>5. ASSUME comp.level = 0, NEW t \in comp.in0, NEW u \in FilesAt(v', 0) \ comp.in0 PROVE Older(t, u)
    <3>1. CASE u \in FilesAt(v, 0)
      BY <2>5, <3>1 DEF LevelsInv, CompInv
    <3>2. CASE u = imm
      BY <2>1, <2>2, <2>5, <3>2, <1>6
    <3> QED BY <3>1, <3>2, <2>2, <1>13
  <2>6. ASSUME NEW m \in (comp.level + 2)..(NumLevels - 1), NEW t \in FilesAt(v', m), NEW e \in t,
               NEW s \in UNION Inputs, s.key \in comp.base
        PROVE  e.key # s.key
    <3>1. CASE t \in FilesAt(v, m)
      BY <2>6, <3>1 DEF LevelsInv, CompInv
    <3>2. CASE t = imm /\ m = n
      <4>1. comp.level + 1 <= n
        BY <2>2, <3>2
      <4>2. PICK x \in Inputs : s \in x
        OBVIOUS
      <4>3. Apart(imm, x) /\ x \in Tables(hist)
        BY <2>1, <2>3, <4>1, <4>2
      <4>4. Older(imm, x) /\ Older(x, imm)
        BY <4>3, <1>4, ApartOlder
      <4>5. e.seq \in Nat /\ s.seq \in Nat
        <5>1. e \in hist /\ s \in hist
          BY <3>2, <4>2, <4>3, <1>4 DEF Tables
        <5> QED BY <5>1, HistNumbered DEF Entries, TypeInv
      <4>6. e.key = s.key => e.seq < s.seq /\ s.seq < e.seq
        BY <3>2, <4>2, <4>4 DEF Older
      <4> QED BY <4>5, <4>6
    <3>3. m \in 0..(NumLevels - 1)
      BY <2>2
    <3> QED BY <3>1, <3>2, <3>3, <1>13
  <2> QED BY <2>4, <2>5, <2>6
<1>16. CallInv'
  BY <1>1 DEF LevelsInv, CallInv
<1> QED BY <1>14, <1>15, <1>16 DEF LevelsInv

(* What PickCompaction takes of level 0 is apart from what it leaves.       *)
LEMMA PickedApart ==
  ASSUME TypeInv, NEW n \in 0..(NumLevels - 2), NEW t, Picked(n, t)
  PROVE  /\ PickedInputs(n, t) \in SUBSET FilesAt(v, n) /\ t \in PickedInputs(n, t)
         /\ n = 0 => \A x \in PickedInputs(n, t), u \in FilesAt(v, 0) \ PickedInputs(n, t) : Apart(u, x)
         /\ Solid(PickedInputs(n, t))
<1>1. PickedInputs(n, t) \in SUBSET FilesAt(v, n) /\ t \in PickedInputs(n, t)
  BY PickedAre, PickedNotEmpty
<1>2. n \in 0..(NumLevels - 1) /\ 0 \in 0..(NumLevels - 1)
  BY Levels
<1>3. Numbered(hist) /\ t \in Tables(hist) /\ FilesAt(v, 0) \subseteq Tables(hist)
  BY <1>1, <1>2, FilesAre, HistNumbered DEF TypeInv
<1>4. Solid({t})
  BY DEF Solid
<1>5. GetRange({t}) \in Keys \X Keys
  BY <1>3, UnionEnds
<1>6. n = 0 => PickedInputs(n, t) = GetOverlappingInputs(v, 0, GetRange({t}))
  BY DEF PickedInputs
<1>7. ASSUME n = 0, NEW x \in PickedInputs(n, t), NEW u \in FilesAt(v, 0) \ PickedInputs(n, t)
      PROVE  Apart(u, x)
  BY <1>3, <1>5, <1>6, <1>7, ZeroApart
<1>8. Solid(PickedInputs(n, t))
  <2>1. CASE n = 0
    <3>1. Solid({t} \cup GetOverlappingInputs(v, 0, GetRange({t})))
      BY <1>3, <1>4, SolidGrown
    <3>2. {t} \cup GetOverlappingInputs(v, 0, GetRange({t})) = PickedInputs(n, t)
      BY <2>1, <1>1, <1>6
    <3> QED BY <3>1, <3>2
  <2>2. CASE n # 0
    BY <2>2, <1>4, PickedAre
  <2> QED BY <2>1, <2>2
<1> QED BY <1>1, <1>7, <1>8

LEMMA MoveLevels ==
  ASSUME TypeInv, LevelsInv, NEW n \in 0..(NumLevels - 2), NEW t, TrivialMove(n, t)
  PROVE  LevelsInv'
<1>1. comp = NoCompaction /\ Picked(n, t) /\ UNCHANGED <<hist, mem, imm, snaps, comp, man>>
  BY DEF TrivialMove, Idle
<1>2. PICK p \in SetupOtherInputs(v, n, PickedInputs(n, t)) :
         MayMove(p) /\ v' = Edited(v, n, p[1], n + 1, p[1])
  BY DEF TrivialMove
<1> DEFINE in0 == PickedInputs(n, t)
<1>3. /\ in0 \in SUBSET FilesAt(v, n) /\ in0 # {}
      /\ n = 0 => \A x \in in0, u \in FilesAt(v, 0) \ in0 : Apart(u, x)
  BY <1>1, PickedApart
<1>4. p \in SetupOtherInputs(v, n, in0)
  BY <1>2
<1> HIDE DEF in0
<1>5. n \in 0..(NumLevels - 1) /\ n + 1 \in 0..(NumLevels - 1) /\ n + 1 \in 1..(NumLevels - 1)
      /\ n + 1 # 0 /\ n \in Nat /\ 0 \in 0..(NumLevels - 1)
  BY Levels
<1>6. /\ n = 0 => \A x \in p[1], u \in FilesAt(v, 0) \ p[1] : Apart(u, x)
      /\ \A u \in FilesAt(v, n + 1) \ p[2] : Outside(u, p[1] \cup p[2])
  BY <1>3, <1>4, SetupSpans DEF LevelsInv
<1>7. p[1] \in SUBSET FilesAt(v, n) /\ p[1] # {}
  BY <1>3, <1>4, <1>5, SetupIs DEF TypeInv
<1>8. \A i \in 0..(NumLevels - 1) : FilesAt(v, i) \in SUBSET Tables(hist)
  BY FilesAre DEF TypeInv
<1>9. Numbered(hist)
  BY HistNumbered DEF TypeInv
<1>10. PICK x : p[1] = {x}
  <2>1. p[1] \in SUBSET Tables(hist)
    BY <1>5, <1>7, <1>8
  <2>2. IsFiniteSet(p[1])
    BY <2>1, <1>9, TablesFinite DEF Numbered
  <2>3. Cardinality(p[1]) = 1
    BY <1>2 DEF MayMove
  <2> QED BY <2>2, <2>3, FS_Singleton
<1>11. p[2] = {} /\ x \in FilesAt(v, n) /\ x \in Tables(hist)
  BY <1>2, <1>5, <1>7, <1>8, <1>10 DEF MayMove
<1>12. ASSUME NEW i \in 0..(NumLevels - 1), NEW u \in FilesAt(v, i) \ {x}
       PROVE  /\ i < n + 1 => Older(x, u)
              /\ n + 1 < i => Older(u, x)
              /\ i = n + 1 => Apart(x, u)
  <2>1. u \in Tables(hist)
    BY <1>8
  <2>2. i < n => Older(x, u)
    BY <1>5, <1>11 DEF LevelsInv, Order
  <2>3. i = n => Older(x, u)
    <3>1. ASSUME i = n PROVE Apart(u, x)
      <4>1. CASE n = 0
        BY <4>1, <3>1, <1>6, <1>10
      <4>2. CASE n # 0
        <5>1. n \in 1..(NumLevels - 1) /\ x \in v.deep[n] /\ u \in v.deep[n]
          BY <4>2, <3>1, <1>5, <1>11 DEF FilesAt
        <5> QED BY <5>1, <1>12 DEF LevelsInv, AllApart
      <4> QED BY <4>1, <4>2
    <3> QED BY <3>1, <2>1, <1>9, <1>11, ApartOlder
  <2>4. n + 1 < i => Older(u, x)
    BY <1>5, <1>11 DEF LevelsInv, Order
  <2>5. i = n + 1 => Apart(x, u)
    <3>1. ASSUME i = n + 1 PROVE Outside(u, {x})
      <4>1. u \in FilesAt(v, n + 1) \ p[2] /\ p[1] \cup p[2] = {x}
        BY <3>1, <1>10, <1>11
      <4> QED BY <4>1, <1>6
    <3>2. {x} \in SUBSET Tables(hist) /\ x \subseteq UNION {x}
      BY <1>11
    <3>3. i = n + 1 => Apart(x, u)
      BY <3>1, <3>2, <2>1, <1>9, <1>11, OutsideApart
    <3> QED BY <3>3
  <2> QED BY <2>2, <2>3, <2>4, <2>5, <1>5
<1>13. Order' /\ AllApart'
  <2> DEFINE add == {x}
             m == n + 1
  <2>1. add \in SUBSET Tables(hist) /\ m \in 0..(NumLevels - 1) /\ m # 0
        /\ v' = Edited(v, n, add, m, add)
    BY <1>2, <1>5, <1>10, <1>11
  <2>2. \A y \in add : Older(y, imm') /\ Older(y, mem)
    BY <1>1, <1>5, <1>11 DEF LevelsInv, Order
  <2>3. \A y \in add : \A i \in 0..(NumLevels - 1) : \A u \in FilesAt(v, i) \ add :
            /\ i < m => Older(y, u)
            /\ m < i => Older(u, y)
            /\ i = m /\ m = 0 => Older(u, y)
            /\ i = m /\ m # 0 => Apart(y, u)
    BY <1>12, <2>1
  <2>4. \A y, u \in add : y # u => Apart(y, u)
    OBVIOUS
  <2> HIDE DEF add, m
  <2>5. mem' = mem /\ imm' = imm /\ Order /\ AllApart
    BY <1>1 DEF LevelsInv
  <2> QED BY <2>1, <2>2, <2>3, <2>4, <2>5, EditOrder
<1>14. CompInv' /\ CallInv'
  BY <1>1 DEF LevelsInv, CompInv, CallInv
<1> QED BY <1>13, <1>14 DEF LevelsInv

(* A compaction begins.                                                     *)
LEMMA BeginLevels ==
  ASSUME TypeInv, LevelsInv, NEW n \in 0..(NumLevels - 2),
         NEW in0 \in SUBSET FilesAt(v, n), in0 # {},
         n = 0 => \A t \in in0, u \in FilesAt(v, 0) \ in0 : Apart(u, t),
         Solid(in0) \/ MaxMemCompactLevel = 0,
         NEW p \in SetupOtherInputs(v, n, in0), NEW manual, Begun(n, p, manual),
         UNCHANGED <<hist, mem, imm, v, snaps, man>>
  PROVE  LevelsInv'
<1>1. /\ comp'.level = n /\ comp'.in0 = p[1] /\ comp'.in1 = p[2] /\ comp'.small = SmallestSnapshot
      /\ comp'.base = {k \in Keys : IsBaseLevelForKey(n, k)}
  BY DEF Begun
<1>2. n \in 0..(NumLevels - 1) /\ n + 1 \in 0..(NumLevels - 1) /\ n \in Nat /\ 0 \in 0..(NumLevels - 1)
  BY Levels
<1>3. /\ n = 0 => \A x \in p[1], u \in FilesAt(v, 0) \ p[1] : Apart(u, x)
      /\ \A u \in FilesAt(v, n + 1) \ p[2] : Outside(u, p[1] \cup p[2])
      /\ Solid(in0) => Solid(p[1] \cup p[2])
  BY SetupSpans DEF LevelsInv
<1>4. p[1] \in SUBSET FilesAt(v, n) /\ p[2] \in SUBSET FilesAt(v, n + 1)
  BY <1>2, SetupIs DEF TypeInv
<1>5. \A i \in 0..(NumLevels - 1) : FilesAt(v, i) \in SUBSET Tables(hist)
  BY FilesAre DEF TypeInv
<1>6. Numbered(hist)
  BY HistNumbered DEF TypeInv
<1>7. \A s \in UNION (p[1] \cup p[2]) : s \in hist
  BY <1>2, <1>4, <1>5 DEF Tables
<1>8. ASSUME n = 0, NEW t \in p[1], NEW u \in FilesAt(v, 0) \ p[1] PROVE Older(t, u)
  <2>1. t \in Tables(hist) /\ u \in Tables(hist) /\ Apart(u, t)
    BY <1>2, <1>3, <1>4, <1>5, <1>8
  <2> QED BY <2>1, <1>6, ApartOlder
<1>9. ASSUME NEW m \in (n + 2)..(NumLevels - 1), NEW t \in FilesAt(v, m), NEW e \in t,
             NEW k \in Keys, IsBaseLevelForKey(n, k)
      PROVE  e.key # k
  <2>1. m \in 0..(NumLevels - 1)
    BY <1>2, Levels
  <2>2. t \in Tables(hist)
    BY <2>1, <1>5
  <2>3. Lo(t) <= e.key /\ e.key <= Hi(t)
    BY <2>2, <1>6, TableEnds
  <2>4. ~Meets(t, <<k, k>>)
    BY <1>9 DEF IsBaseLevelForKey, OverlapInLevel
  <2>5. ~(Hi(t) >= k /\ Lo(t) <= k)
    BY <2>4, MeetsIs
  <2> QED BY <2>3, <2>5
<1>10. MaxSnapshots = 0 => \A s \in hist : s.seq <= SmallestSnapshot
  BY DEF LevelsInv, CallInv, SmallestSnapshot, TypeInv, HistInv
<1>11. Order' /\ AllApart'
  <2>1. Order'
    BY DEF LevelsInv, Order
  <2>2. AllApart'
    BY DEF LevelsInv, AllApart
  <2> QED BY <2>1, <2>2
<1>12. CompInv'
  <2>1. Inputs' = p[1] \cup p[2]
    BY <1>1 DEF Inputs
  <2>2. \A u \in FilesAt(v', comp'.level + 1) \ comp'.in1 : Outside(u, Inputs')
    BY <1>1, <1>3, <2>1
  <2>3. Solid(Inputs') \/ MaxMemCompactLevel = 0
    BY <1>3, <2>1
  <2>4. comp'.level = 0 => \A t \in comp'.in0, u \in FilesAt(v', 0) \ comp'.in0 : Older(t, u)
    BY <1>1, <1>8
  <2>5. \A m \in (comp'.level + 2)..(NumLevels - 1) : \A t \in FilesAt(v', m) : \A e \in t :
            \A s \in UNION Inputs' : s.key \in comp'.base => e.key # s.key
    BY <1>1, <1>9
  <2>6. MaxSnapshots = 0 => \A s \in UNION Inputs' : s.seq <= comp'.small
    BY <1>1, <1>7, <1>10, <2>1
  <2> QED BY <2>2, <2>3, <2>4, <2>5, <2>6 DEF CompInv
<1>13. CallInv'
  BY DEF LevelsInv, CallInv
<1> QED BY <1>11, <1>12, <1>13 DEF LevelsInv

LEMMA PickLevels ==
  ASSUME TypeInv, LevelsInv, NEW n \in 0..(NumLevels - 2), NEW t, PickCompaction(n, t)
  PROVE  LevelsInv'
<1>1. Picked(n, t) /\ UNCHANGED <<hist, mem, imm, v, snaps, man>>
  BY DEF PickCompaction
<1>2. PICK p \in SetupOtherInputs(v, n, PickedInputs(n, t)) : Begun(n, p, FALSE)
  BY DEF PickCompaction
<1> DEFINE in0 == PickedInputs(n, t)
<1>3. /\ in0 \in SUBSET FilesAt(v, n) /\ in0 # {}
      /\ n = 0 => \A x \in in0, u \in FilesAt(v, 0) \ in0 : Apart(u, x)
      /\ Solid(in0)
  BY <1>1, PickedApart
<1>4. p \in SetupOtherInputs(v, n, in0)
  BY <1>2
<1> HIDE DEF in0
<1> QED BY <1>1, <1>2, <1>3, <1>4, BeginLevels

(* Inputs that all have the first key leave no gap.                         *)
LEMMA FirstSolid ==
  ASSUME TypeInv, NEW F \in SUBSET Tables(hist), NEW k \in Keys, \A j \in Keys : k <= j,
         \A t \in F : Lo(t) <= k
  PROVE  Solid(F) /\ \A t \in F : Lo(t) = k
<1>1. Numbered(hist)
  BY HistNumbered DEF TypeInv
<1>2. \A t \in F : Lo(t) \in Keys /\ Lo(t) \in Nat
  BY <1>1, TableEnds
<1>3. k \in Nat
  BY CompactionAssumption
<1>4. \A t \in F : Lo(t) = k
  BY <1>2, <1>3
<1>5. Solid(F)
  BY <1>3, <1>4 DEF Solid
<1> QED BY <1>4, <1>5

\* The inputs of a manual compaction whose range ends with the first key.
LEMMA ManualSolid ==
  ASSUME TypeInv, NEW n \in 0..(NumLevels - 1), NEW r \in Keys \X Keys, \A j \in Keys : r[2] <= j,
         NEW in0 \in SUBSET GetOverlappingInputs(v, n, r), n = 0 => in0 = GetOverlappingInputs(v, n, r)
  PROVE  Solid(in0)
<1> DEFINE k == r[2]
           Z == FilesAt(v, 0)
           F == {t \in Z : Hi(t) >= r[1] /\ Lo(t) <= k}
           s == Grown(Z, r)
           g == GetRange(F)
           u == Grown(Z, g)
<1>1. Numbered(hist) /\ \A i \in 0..(NumLevels - 1) : FilesAt(v, i) \in SUBSET Tables(hist)
  BY FilesAre, HistNumbered DEF TypeInv
<1>2. k \in Keys /\ k \in Nat /\ r[1] \in Keys /\ r[1] \in Nat /\ k <= r[1] /\ Keys \subseteq Nat
  BY CompactionAssumption
<1>3. CASE n # 0
  <2>1. in0 \in SUBSET Tables(hist)
    BY <1>1, OverlappingAre
  <2>2. \A t \in in0 : Lo(t) <= k
    BY <1>3, DeepInputs
  <2> QED BY <2>1, <2>2, <1>2, FirstSolid
<1>4. CASE n = 0
  <2>1. Z \in SUBSET Tables(hist) /\ F \in SUBSET Tables(hist)
    BY <1>1, <1>4
  <2>2. /\ s \in Keys \X Keys /\ ClosedFor(Z, r, s)
        /\ \A x \in Keys \X Keys : ClosedFor(Z, r, x) => x[1] <= s[1] /\ s[2] <= x[2]
    BY <2>1, <1>1, GrownIs
  <2>3. CASE F = {}
    <3>1. ClosedFor(Z, r, r)
      BY <2>3, <1>2 DEF ClosedFor
    <3>2. r[1] <= s[1] /\ s[2] <= r[2] /\ s[1] <= r[1] /\ r[2] <= s[2]
      BY <3>1, <2>2 DEF ClosedFor
    <3>3. s[1] \in Nat /\ s[2] \in Nat
      BY <2>2, <1>2
    <3> HIDE DEF s
    <3>4. s[1] = r[1] /\ s[2] = r[2]
      BY <3>2, <3>3, <1>2
    <3>5. \A t \in GetOverlappingInputs(v, 0, r) : t \in F
      BY <3>4, ZeroInputs DEF s
    <3>6. in0 = {}
      BY <3>5, <2>3, <1>4
    <3> QED BY <3>6 DEF Solid
  <2>4. CASE F # {}
    <3>1. Solid(F) /\ \A t \in F : Lo(t) = k
      BY <2>1, <1>2, FirstSolid
    <3>2. /\ UNION F \in Tables(hist) /\ g = <<Lo(UNION F), Hi(UNION F)>> /\ g \in Keys \X Keys
          /\ \A t \in F : Lo(UNION F) <= Lo(t) /\ Hi(t) <= Hi(UNION F)
          /\ \E t \in F : Lo(t) = Lo(UNION F)
          /\ \E t \in F : Hi(t) = Hi(UNION F)
      BY <2>1, <2>4, <1>1, UnionEnds
    <3>3. \A t \in F : Lo(t) <= Hi(t) /\ Hi(t) \in Nat
      BY <2>1, <1>1, TableEnds
    <3>4. F # {} /\ k \in Nat
      BY <2>4, <1>2
    <3> HIDE DEF F, g, k
    <3>5. g[1] = Lo(UNION F) /\ g[2] = Hi(UNION F)
      BY <3>2
    <3>6. g[1] = k /\ g[2] \in Nat /\ k <= g[2] /\ (\A t \in F : Hi(t) <= g[2]) /\ \E t \in F : Hi(t) = g[2]
      BY <3>1, <3>2, <3>3, <3>4, <3>5
    <3>7. /\ u \in Keys \X Keys /\ ClosedFor(Z, g, u)
          /\ \A x \in Keys \X Keys : ClosedFor(Z, g, x) => x[1] <= u[1] /\ u[2] <= x[2]
      BY <2>1, <3>2, <1>1, GrownIs
    <3>8. \A t \in F : t \in Z /\ Hi(t) >= r[1] /\ Lo(t) <= k /\ Hi(t) \in Nat /\ Lo(t) \in Nat
      BY <2>1, <1>1, TableEnds DEF F
    <3>9. s[1] \in Nat /\ s[2] \in Nat /\ u[1] \in Nat /\ u[2] \in Nat
      BY <2>2, <3>7, <1>2
    <3> HIDE DEF Z, s, u
    <3>10. ClosedFor(Z, g, s)
      <4>1. s[1] <= r[1] /\ k <= s[2]
        BY <2>2 DEF ClosedFor, k
      <4>2. \A t \in F : s[1] <= Lo(t) /\ Hi(t) <= s[2]
        BY <4>1, <2>2, <3>8, <3>9, <1>2 DEF ClosedFor
      <4>3. s[1] <= g[1] /\ g[2] <= s[2]
        BY <4>2, <3>1, <3>6
      <4> QED BY <4>3, <2>2 DEF ClosedFor
    <3>11. ClosedFor(Z, r, u)
      <4>1. u[1] <= r[1] /\ k <= u[2]
        BY <3>6, <3>7, <3>9, <1>2 DEF ClosedFor
      <4> QED BY <4>1, <3>7 DEF ClosedFor, k
    <3>12. s[1] = u[1] /\ s[2] = u[2]
      BY <2>2, <3>7, <3>9, <3>10, <3>11
    <3>13. \A t : t \in GetOverlappingInputs(v, 0, g) <=> t \in GetOverlappingInputs(v, 0, r)
      BY <3>12, ZeroInputs DEF s, u, Z
    <3>14. in0 = GetOverlappingInputs(v, 0, g)
      BY <3>13, <1>4
    <3>15. \A t \in F : t \in in0
      <4> SUFFICES ASSUME NEW t \in F PROVE t \in GetOverlappingInputs(v, 0, g)
        BY <3>14
      <4>1. Hi(t) >= u[1] /\ Lo(t) <= u[2]
        BY <3>1, <3>6, <3>7, <3>8, <3>9, <1>2 DEF ClosedFor
      <4> QED BY <4>1, <3>8, ZeroInputs DEF u, Z
    <3>16. Solid(F \cup GetOverlappingInputs(v, 0, g))
      BY <2>1, <2>4, <3>1, <1>1, SolidGrown DEF g, Z
    <3>17. F \cup GetOverlappingInputs(v, 0, g) = in0
      BY <3>14, <3>15
    <3> QED BY <3>16, <3>17
  <2> QED BY <2>3, <2>4
<1> QED BY <1>3, <1>4

LEMMA ManualLevels ==
  ASSUME TypeInv, LevelsInv, Uninterrupted, ManualCompaction
  PROVE  LevelsInv'
<1> DEFINE r == <<man.begin, man.range[2]>>
           n == man.level
<1>1. man.stage = "level" /\ ManualInputs # {} /\ UNCHANGED <<hist, mem, imm, v, snaps, man>>
  BY DEF ManualCompaction
<1>2. PICK in0 \in IF n = 0 THEN {ManualInputs} ELSE Parts(ManualInputs) :
         \E p \in SetupOtherInputs(v, n, in0) : Begun(n, p, TRUE)
  BY DEF ManualCompaction
<1>3. PICK p \in SetupOtherInputs(v, n, in0) : Begun(n, p, TRUE)
  BY <1>2
<1>4. n \in 0..(NumLevels - 2) /\ in0 \in SUBSET FilesAt(v, n) /\ in0 # {}
  BY <1>1, <1>2, ManualIs
<1>5. man.range \in Ranges /\ r \in Keys \X Keys /\ r[2] = man.range[2]
  BY <1>1, CompactionAssumption DEF LevelsInv, CallInv
<1>6. in0 \in SUBSET GetOverlappingInputs(v, n, r) /\ (n = 0 => in0 = GetOverlappingInputs(v, n, r))
  BY <1>2 DEF ManualInputs, Parts
<1> HIDE DEF r, n
<1>7. ASSUME n = 0, NEW t \in in0, NEW u \in FilesAt(v, 0) \ in0 PROVE Apart(u, t)
  <2>1. in0 = GetOverlappingInputs(v, 0, r)
    BY <1>6, <1>7
  <2>2. FilesAt(v, 0) \subseteq Tables(hist)
    BY FilesAre, Levels DEF TypeInv
  <2>3. Numbered(hist)
    BY HistNumbered DEF TypeInv
  <2> QED BY <2>1, <2>2, <2>3, <1>5, <1>7, ZeroApart
<1>8. Solid(in0) \/ MaxMemCompactLevel = 0
  <2>1. CASE \A x \in Ranges : \A k \in Keys : x[2] <= k
    <3>1. n \in 0..(NumLevels - 1)
      BY <1>4, Levels
    <3>2. \A k \in Keys : r[2] <= k
      BY <2>1, <1>5
    <3> QED BY <3>1, <3>2, <1>5, <1>6, ManualSolid
  <2> QED BY <2>1, <1>5 DEF Uninterrupted
<1> QED BY <1>1, <1>3, <1>4, <1>7, <1>8, BeginLevels

-----------------------------------------------------------------------------
(* The results of a compaction.                                             *)

(* The starts cut the entries into pieces; where a start is the newest of   *)
(* its key, no key has entries in two of them.                              *)
LEMMA OutputsApart ==
  ASSUME NEW H, Numbered(H), NEW S \in SUBSET H, NEW out \in Outputs(S),
         \A s \in StartsOf(S) : \A d \in S : d.key = s.key => d.seq <= s.seq
  PROVE  /\ UNION out = S
         /\ \A t, u \in out : t # u => Apart(t, u)
<1>1. CASE S = {}
  BY <1>1 DEF Outputs
<1>2. CASE S # {}
  <2>1. out \in SUBSET Tables(H)
    BY OutputsAre
  <2>2. PICK C \in SUBSET StartsOf(S) :
           out = {OutputOf(S, s, C \cup {Smallest(S)}) : s \in C \cup {Smallest(S)}}
    BY <1>2, OutputsIs
  <2> DEFINE D == C \cup {Smallest(S)}
  <2>3. Smallest(S) \in S /\ \A e \in S : e = Smallest(S) \/ Before(Smallest(S), e)
    BY <1>2, Ends DEF Tables
  <2>4. S \subseteq Entries /\ Distinct(S)
    BY NumberedLess DEF Numbered
  <2>5. D \subseteq S
    BY <2>3 DEF StartsOf
  <2>6. \A s \in D : \A d \in S : d.key = s.key => d.seq <= s.seq
    BY <2>3, <2>4 DEF Before, Entries
  <2>7. out = {OutputOf(S, s, D) : s \in D} /\ Smallest(S) \in D
    BY <2>2
  <2> HIDE DEF D
  <2>8. ASSUME NEW s \in D, NEW r \in D, s.key < r.key
        PROVE  Apart(OutputOf(S, s, D), OutputOf(S, r, D))
    <3> DEFINE t == OutputOf(S, s, D)
               u == OutputOf(S, r, D)
    <3>1. Before(s, r)
      BY <2>8 DEF Before
    <3>2. \A e \in t : e \in S /\ Before(e, r)
      BY <3>1 DEF OutputOf
    <3>3. \A e \in t : e.key < r.key
      BY <3>2, <2>4, <2>5, <2>6 DEF Before, Entries
    <3>4. \A e \in u : e.key >= r.key
      BY <2>4, <2>5 DEF Before, Entries, OutputOf
    <3>5. t \in Tables(H) /\ u \in Tables(H)
      BY <2>1, <2>7
    <3> HIDE DEF t, u
    <3>6. Hi(t) < r.key
      BY <3>3, <3>5, TableEnds
    <3>7. Lo(u) >= r.key
      BY <3>4, <3>5, TableEnds
    <3>8. Hi(t) \in Nat /\ Lo(u) \in Nat /\ r.key \in Nat
      BY <3>5, <2>4, <2>5, TableEnds DEF Entries
    <3>9. Apart(t, u)
      BY <3>6, <3>7, <3>8 DEF Apart
    <3> QED BY <3>9 DEF t, u
  <2>9. ASSUME NEW t \in out, NEW u \in out, t # u PROVE Apart(t, u)
    <3>1. PICK s \in D, r \in D : t = OutputOf(S, s, D) /\ u = OutputOf(S, r, D)
      BY <2>7
    <3>2. s # r
      BY <3>1, <2>9
    <3>3. s.key # r.key
      BY <3>2, <2>4, <2>5, <2>6 DEF Distinct, Entries
    <3>4. s.key < r.key \/ r.key < s.key
      BY <3>3, <2>4, <2>5 DEF Entries
    <3>5. Apart(t, u) \/ Apart(u, t)
      BY <3>1, <3>4, <2>8
    <3> QED BY <3>5 DEF Apart
  <2>10. ASSUME NEW e \in S PROVE \E t \in out : e \in t
    <3> DEFINE P == {s \in D : s = e \/ Before(s, e)}
    <3>1. Smallest(S) \in P /\ P \in Tables(H)
      BY <2>3, <2>5, <2>7 DEF Tables
    <3> DEFINE s == Largest(P)
    <3>2. s \in P /\ \A c \in P : c = s \/ Before(c, s)
      BY <3>1, Ends
    <3>3. s \in D /\ (e = s \/ Before(s, e))
      BY <3>2
    <3>4. ASSUME NEW c \in D, Before(s, c) PROVE Before(e, c)
      <4>1. c \in P => c = s \/ Before(c, s)
        BY <3>2
      <4> HIDE DEF s
      <4>2. c \notin P
        BY <4>1, <3>3, <3>4, <2>4, <2>5 DEF Before, Entries
      <4>3. c # e /\ ~Before(c, e)
        BY <4>2
      <4> HIDE DEF P
      <4>4. c.seq # e.seq
        BY <4>3, <2>4, <2>5 DEF Distinct
      <4> QED BY <4>3, <4>4, <2>4, <2>5 DEF Before, Entries
    <3> HIDE DEF s, P
    <3>5. e \in OutputOf(S, s, D)
      BY <3>3, <3>4 DEF OutputOf
    <3> QED BY <3>3, <3>5, <2>7
  <2>11. \A t \in out : t \subseteq S
    BY <2>7 DEF OutputOf
  <2> QED BY <2>9, <2>10, <2>11
<1> QED BY <1>1, <1>2

(* Without snapshots a compaction keeps one entry of a key.                 *)
LEMMA KeptAlone ==
  ASSUME NEW S, S \subseteq Entries, NEW small \in Nat, NEW base,
         \A e \in S : e.seq <= small
  PROVE  \A a, b \in Kept(S, small, base) : a.key = b.key => b.seq <= a.seq
BY DEF Kept, Hidden, Entries

LEMMA KeptWhole ==
  ASSUME WholeKeys, NEW S, S \subseteq Entries, NEW small \in Nat, NEW base,
         MaxSnapshots = 0 => \A e \in S : e.seq <= small,
         NEW s \in StartsOf(Kept(S, small, base)), NEW d \in Kept(S, small, base), d.key = s.key
  PROVE  d.seq <= s.seq
<1>1. CASE MaxSnapshots = 0
  BY <1>1, KeptAlone DEF StartsOf
<1>2. CASE ~KeysSplit
  BY <1>2 DEF StartsOf
<1> QED BY <1>1, <1>2 DEF WholeKeys

(* What holds of all tables holds of what they have.                        *)
LEMMA OlderUnion ==
  ASSUME NEW F, NEW t, t \subseteq UNION F, NEW B
  PROVE  /\ (\A x \in F : Older(x, B)) => Older(t, B)
         /\ (\A x \in F : Older(B, x)) => Older(B, t)
BY DEF Older

(* No entry is in two tables.                                               *)
LEMMA NotTwice ==
  ASSUME TypeInv, Order, AllApart, NEW n \in 0..(NumLevels - 1), NEW t \in FilesAt(v, n),
         NEW m \in 0..(NumLevels - 1), NEW u \in FilesAt(v, m), NEW e \in t, e \in u
  PROVE  n = m /\ t = u
<1>1. Numbered(hist) /\ t \in Tables(hist) /\ u \in Tables(hist)
  BY FilesAre, HistNumbered DEF TypeInv
<1>2. e.seq \in Nat
  <2>1. e \in hist
    BY <1>1 DEF Tables
  <2> QED BY <2>1, HistNumbered DEF TypeInv, Entries
<1>3. ~Older(t, u) /\ ~Older(u, t)
  BY <1>2 DEF Older
<1>4. n \in Nat /\ m \in Nat
  OBVIOUS
<1>5. n = m
  BY <1>3, <1>4 DEF Order
<1>6. CASE n = 0
  <2>1. t \in Range(v.l0) /\ u \in Range(v.l0)
    BY <1>5, <1>6 DEF FilesAt
  <2>2. v.l0 \in Seq(Tables(hist))
    BY SameFiles
  <2>3. PICK i \in DOMAIN v.l0, j \in DOMAIN v.l0 : t = v.l0[i] /\ u = v.l0[j]
    BY <2>1 DEF Range
  <2>4. i \in Nat /\ j \in Nat
    BY <2>2
  <2>5. i = j
    BY <2>3, <2>4, <1>3 DEF Order
  <2> QED BY <1>5, <2>3, <2>5
<1>7. CASE n # 0
  <2>1. n \in 1..(NumLevels - 1) /\ t \in v.deep[n] /\ u \in v.deep[n]
    BY <1>4, <1>5, <1>7 DEF FilesAt
  <2>2. t # u => Apart(t, u)
    BY <2>1 DEF AllApart
  <2>3. t # u => Older(t, u)
    BY <2>2, <1>1, ApartOlder
  <2> QED BY <1>3, <1>5, <2>3
<1> QED BY <1>6, <1>7

(* The last table of the inputs, where the next pass begins.                *)
LEMMA LastTable ==
  ASSUME TypeInv, Order, AllApart, NEW n \in 0..(NumLevels - 1), NEW F \in SUBSET FilesAt(v, n), F # {}
  PROVE  \E t \in F : \A u \in F \ {t} : Before(Smallest(u), Smallest(t))
<1>1. Numbered(hist) /\ F \in SUBSET Tables(hist)
  BY FilesAre, HistNumbered DEF TypeInv
<1>2. \A t \in F : Smallest(t) \in t
  BY <1>1, Ends
<1> DEFINE M == {Smallest(t) : t \in F}
<1>3. M \in Tables(hist)
  BY <1>1, <1>2 DEF Tables
<1>4. Largest(M) \in M /\ \A e \in M : e = Largest(M) \/ Before(e, Largest(M))
  BY <1>1, <1>3, Ends
<1>5. PICK t \in F : Smallest(t) = Largest(M)
  BY <1>4
<1>6. \A u \in F : Smallest(u) = Smallest(t) \/ Before(Smallest(u), Smallest(t))
  BY <1>4, <1>5
<1>7. ASSUME NEW u \in F, Smallest(u) = Smallest(t) PROVE u = t
  BY <1>2, <1>7, NotTwice
<1> QED BY <1>6, <1>7

LEMMA AfterPassIs ==
  ASSUME TypeInv, Order, AllApart, comp # NoCompaction
  PROVE  AfterPass(comp.in0) = [man EXCEPT !.begin = AfterPass(comp.in0).begin]
         /\ AfterPass(comp.in0).begin \in Keys
<1> DEFINE last == CHOOSE t \in comp.in0 : \A u \in comp.in0 \ {t} : Before(Smallest(u), Smallest(t))
<1>1. comp.in0 \in SUBSET FilesAt(v, comp.level) /\ comp.in0 # {} /\ comp.level \in 0..(NumLevels - 1)
      /\ comp.in0 \in SUBSET Tables(hist)
  BY BusyIs, Levels
<1>2. \E t \in comp.in0 : \A u \in comp.in0 \ {t} : Before(Smallest(u), Smallest(t))
  BY <1>1, LastTable
<1>3. last \in comp.in0
  BY <1>2
<1>4. Hi(last) \in Keys
  BY <1>1, <1>3, HistNumbered, TableEnds DEF TypeInv
<1>5. AfterPass(comp.in0) = [man EXCEPT !.begin = Hi(last)]
  BY DEF AfterPass, Hi
<1>6. AfterPass(comp.in0).begin = Hi(last)
  BY <1>5 DEF TypeInv, BoundInv
<1> QED BY <1>4, <1>5, <1>6

(* What a compaction does not take is newer above it, older below it, and   *)
(* on one side of it where its results go.                                  *)
LEMMA RestIs ==
  ASSUME TypeInv, LevelsInv, comp # NoCompaction,
         NEW i \in 0..(NumLevels - 1), NEW u \in FilesAt(v, i) \ Inputs
  PROVE  /\ i < comp.level + 1 => \A x \in Inputs : Older(x, u)
         /\ comp.level + 1 < i => \A x \in Inputs : Older(u, x)
         /\ i = comp.level + 1 => Outside(u, Inputs)
<1> DEFINE n == comp.level
<1>1. /\ n \in 0..(NumLevels - 2) /\ n + 1 \in 1..(NumLevels - 1)
      /\ n \in 0..(NumLevels - 1) /\ n + 1 \in 0..(NumLevels - 1) /\ n \in Nat /\ 0 \in 0..(NumLevels - 1)
      /\ comp.in0 \in SUBSET FilesAt(v, n) /\ comp.in1 \in SUBSET FilesAt(v, n + 1)
      /\ Inputs \in SUBSET Tables(hist)
  BY BusyIs, Levels DEF Inputs
<1>2. \A j \in 0..(NumLevels - 1) : FilesAt(v, j) \in SUBSET Tables(hist)
  BY FilesAre DEF TypeInv
<1>3. Numbered(hist) /\ hist \subseteq Entries
  BY HistNumbered DEF TypeInv
<1> HIDE DEF n
<1>4. ASSUME i < n + 1, NEW x \in Inputs PROVE Older(x, u)
  <2>1. x \in FilesAt(v, n) \/ x \in FilesAt(v, n + 1)
    BY <1>1 DEF Inputs
  <2>2. CASE i < n
    BY <2>1, <2>2, <1>1 DEF LevelsInv, Order
  <2>3. CASE i = n /\ x \in comp.in1
    BY <2>3, <1>1 DEF LevelsInv, Order
  <2>4. CASE i = n /\ n = 0 /\ x \in comp.in0
    BY <2>4 DEF LevelsInv, CompInv, n, Inputs
  <2>5. CASE i = n /\ n # 0 /\ x \in comp.in0
    <3>1. n \in 1..(NumLevels - 1) /\ x \in v.deep[n] /\ u \in v.deep[n] /\ x # u
      BY <2>5, <1>1 DEF FilesAt, Inputs
    <3>2. Apart(x, u)
      BY <3>1 DEF LevelsInv, AllApart
    <3>3. x \in Tables(hist) /\ u \in Tables(hist)
      BY <1>1, <1>2
    <3> QED BY <3>2, <3>3, <1>3, ApartOlder
  <2> QED BY <1>4, <2>2, <2>3, <2>4, <2>5, <1>1 DEF Inputs
<1>5. ASSUME n + 1 < i, NEW x \in Inputs PROVE Older(u, x)
  <2>1. x \in FilesAt(v, n) \/ x \in FilesAt(v, n + 1)
    BY <1>1 DEF Inputs
  <2>2. n < i
    BY <1>5, <1>1
  <2> QED BY <1>5, <2>1, <2>2, <1>1 DEF LevelsInv, Order
<1>6. i = n + 1 => Outside(u, Inputs)
  <2>1. i = n + 1 => u \in FilesAt(v, n + 1) \ comp.in1
    BY DEF Inputs
  <2> QED BY <2>1 DEF LevelsInv, CompInv, n
<1> QED BY <1>4, <1>5, <1>6 DEF n

(* The results hold what is kept, in tables that lie apart.                 *)
LEMMA ResultsAre ==
  ASSUME TypeInv, LevelsInv, WholeKeys, comp # NoCompaction,
         NEW out \in Outputs(Kept(UNION Inputs, comp.small, comp.base))
  PROVE  /\ UNION out = Kept(UNION Inputs, comp.small, comp.base)
         /\ \A t, u \in out : t # u => Apart(t, u)
         /\ out \in SUBSET Tables(hist)
<1> DEFINE S == UNION Inputs
           K == Kept(S, comp.small, comp.base)
<1>1. Numbered(hist) /\ hist \subseteq Entries
  BY HistNumbered DEF TypeInv
<1>2. S \in SUBSET hist /\ K \in SUBSET hist /\ S \subseteq Entries /\ out \in Outputs(K)
  BY <1>1, InputsOf DEF Inputs, Kept
<1>3. comp.small \in Nat
  <2>1. LastSequence \in Nat
    BY HistNumbered DEF TypeInv
  <2> QED BY <2>1 DEF TypeInv, CTypeOK
<1>4. MaxSnapshots = 0 => \A e \in S : e.seq <= comp.small
  BY DEF LevelsInv, CompInv
<1> HIDE DEF S
<1>5. \A s \in StartsOf(K) : \A d \in K : d.key = s.key => d.seq <= s.seq
  BY <1>2, <1>3, <1>4, KeptWhole
<1> HIDE DEF K
<1>6. UNION out = K
  BY <1>1, <1>2, <1>5, OutputsApart
<1>7. \A t, u \in out : t # u => Apart(t, u)
  BY <1>1, <1>2, <1>5, OutputsApart
<1>8. out \in SUBSET Tables(hist)
  BY <1>1, <1>2, OutputsAre
<1> QED BY <1>6, <1>7, <1>8 DEF S, K

(* DoCompactionWork installs its results.                                   *)
LEMMA InstallLevels ==
  ASSUME TypeInv, LevelsInv, WholeKeys, InstallCompactionResults
  PROVE  LevelsInv'
<1> DEFINE n == comp.level
           S == UNION Inputs
           K == Kept(S, comp.small, comp.base)
<1>1. comp # NoCompaction /\ comp' = NoCompaction /\ UNCHANGED <<hist, mem, imm, snaps>>
  BY DEF InstallCompactionResults
<1>2. PICK out \in Outputs(K) : v' = Edited(v, n, Inputs, n + 1, out)
  BY DEF InstallCompactionResults, Inputs
<1>3. /\ n \in 0..(NumLevels - 2) /\ n + 1 \in 1..(NumLevels - 1)
      /\ n \in 0..(NumLevels - 1) /\ n + 1 \in 0..(NumLevels - 1) /\ n \in Nat /\ 0 \in 0..(NumLevels - 1)
      /\ comp.in0 \in SUBSET FilesAt(v, n) /\ comp.in1 \in SUBSET FilesAt(v, n + 1)
      /\ Inputs \in SUBSET Tables(hist)
  BY <1>1, BusyIs, Levels DEF Inputs
<1>4. \A i \in 0..(NumLevels - 1) : FilesAt(v, i) \in SUBSET Tables(hist)
  BY FilesAre DEF TypeInv
<1>5. Numbered(hist) /\ hist \subseteq Entries
  BY HistNumbered DEF TypeInv
<1>6. S \in SUBSET hist /\ K \in SUBSET hist /\ K \subseteq S
  BY <1>3 DEF Tables, Kept
<1>7. UNION out = K /\ (\A t, u \in out : t # u => Apart(t, u)) /\ out \in SUBSET Tables(hist)
  BY <1>1, <1>2, ResultsAre
<1>8. \A t \in out : t \subseteq UNION Inputs
  BY <1>6, <1>7
<1> HIDE DEF n, S, K
<1>9. ASSUME NEW i \in 0..(NumLevels - 1), NEW u \in FilesAt(v, i) \ Inputs
      PROVE  /\ i < n + 1 => \A x \in Inputs : Older(x, u)
             /\ n + 1 < i => \A x \in Inputs : Older(u, x)
             /\ i = n + 1 => Outside(u, Inputs)
  BY <1>1, RestIs DEF n
<1>10. ASSUME NEW t \in out, NEW i \in 0..(NumLevels - 1), NEW u \in FilesAt(v, i) \ Inputs
       PROVE  /\ i < n + 1 => Older(t, u)
              /\ n + 1 < i => Older(u, t)
              /\ i = n + 1 => Apart(t, u)
  <2>1. t \subseteq UNION Inputs /\ t \in Tables(hist) /\ u \in Tables(hist)
    BY <1>4, <1>7, <1>8
  <2>2. i < n + 1 => Older(t, u)
    BY <2>1, <1>9, OlderUnion
  <2>3. n + 1 < i => Older(u, t)
    BY <2>1, <1>9, OlderUnion
  <2>4. i = n + 1 => Apart(t, u)
    BY <2>1, <1>3, <1>5, <1>9, OutsideApart
  <2> QED BY <2>2, <2>3, <2>4
<1>11. ASSUME NEW t \in out PROVE Older(t, imm') /\ Older(t, mem)
  <2>1. \A x \in Inputs : Older(x, imm) /\ Older(x, mem)
    BY <1>3 DEF LevelsInv, Order, Inputs
  <2>2. Older(t, imm) /\ Older(t, mem)
    BY <2>1, <1>8, OlderUnion
  <2> QED BY <2>2, <1>1
<1>12. Order' /\ AllApart'
  <2> DEFINE m == n + 1
  <2>1. m \in 0..(NumLevels - 1) /\ m # 0 /\ v' = Edited(v, n, Inputs, m, out)
    BY <1>2, <1>3 DEF n
  <2>2. \A t \in out : \A i \in 0..(NumLevels - 1) : \A u \in FilesAt(v, i) \ Inputs :
            /\ i < m => Older(t, u)
            /\ m < i => Older(u, t)
            /\ i = m /\ m = 0 => Older(u, t)
            /\ i = m /\ m # 0 => Apart(t, u)
    BY <1>10, <2>1
  <2>3. \A t \in out : Older(t, imm') /\ Older(t, mem)
    BY <1>11
  <2>4. mem' = mem /\ imm' = imm /\ Order /\ AllApart
    BY <1>1 DEF LevelsInv
  <2>5. \A t, u \in out : t # u => Apart(t, u)
    BY <1>7
  <2>6. out \in SUBSET Tables(hist)
    BY <1>7
  <2> HIDE DEF m
  <2> QED BY <2>1, <2>2, <2>3, <2>4, <2>5, <2>6, EditOrder
<1>13. CompInv'
  BY <1>1 DEF CompInv
<1>14. CallInv'
  <2>1. man' = man \/ man' = [man EXCEPT !.begin = AfterPass(comp.in0).begin]
    BY <1>1, AfterPassIs DEF InstallCompactionResults, LevelsInv
  <2>2. AfterPass(comp.in0).begin \in Keys
    BY <1>1, AfterPassIs DEF LevelsInv
  <2>3. man = [stage |-> man.stage, level |-> man.level, max |-> man.max,
               range |-> man.range, begin |-> man.begin]
    BY DEF TypeInv, BoundInv
  <2>4. man'.stage = man.stage /\ man'.range = man.range /\ (man'.begin = man.begin \/ man'.begin \in Keys)
    BY <2>1, <2>2, <2>3
  <2> QED BY <1>1, <2>4 DEF LevelsInv, CallInv
<1> QED BY <1>12, <1>13, <1>14 DEF LevelsInv

(* The calls, which touch no file.                                          *)
LEMMA CallLevels ==
  ASSUME TypeInv, LevelsInv,
         \/ \E r \in Ranges : CompactRange(r)
         \/ ForceMemTable \/ ManualDone \/ GetSnapshot \/ \E q \in snaps : ReleaseSnapshot(q)
  PROVE  LevelsInv'
<1>1. UNCHANGED <<v, comp>>
  BY DEF CompactRange, ForceMemTable, ManualDone, GetSnapshot, ReleaseSnapshot
<1>2. (imm' = imm /\ mem' = mem) \/ (imm' = mem /\ mem' = {})
  BY DEF CompactRange, ForceMemTable, ManualDone, GetSnapshot, ReleaseSnapshot
<1>3. Order' /\ AllApart' /\ CompInv'
  <2>1. CASE imm' = imm /\ mem' = mem
    BY <1>1, <2>1, FilesSame DEF LevelsInv, Order
  <2>2. CASE imm' = mem /\ mem' = {}
    BY <1>1, <2>2, SwitchLevels
  <2> QED BY <1>2, <2>1, <2>2
<1>4. man = [stage |-> man.stage, level |-> man.level, max |-> man.max,
             range |-> man.range, begin |-> man.begin]
  BY DEF TypeInv, BoundInv
<1>5. CallInv
  BY DEF LevelsInv
<1>6. CallInv'
  <2>1. ASSUME NEW r \in Ranges, CompactRange(r) PROVE CallInv'
    <3>1. man'.range = r /\ man'.begin = r[1] /\ snaps' = snaps
      BY <2>1, RangeTypes DEF CompactRange
    <3>2. r[1] \in Keys
      BY CompactionAssumption
    <3> QED BY <3>1, <3>2, <1>5 DEF CallInv
  <2>2. CASE ForceMemTable
    <3>1. man.stage = "force" /\ man' = [man EXCEPT !.stage = "level"] /\ snaps' = snaps
      BY <2>2 DEF ForceMemTable
    <3>2. man'.range = man.range /\ man'.begin = man.begin
      BY <3>1, <1>4
    <3> QED BY <3>1, <3>2, <1>5 DEF CallInv
  <2>3. CASE ManualDone
    <3>1. man.stage = "level" /\ snaps' = snaps
          /\ (man' = NoCall \/ man' = [man EXCEPT !.level = @ + 1, !.begin = man.range[1]])
      BY <2>3 DEF ManualDone
    <3>2. CASE man' = NoCall
      BY <3>1, <3>2, <1>5 DEF CallInv, NoCall
    <3>3. CASE man' = [man EXCEPT !.level = @ + 1, !.begin = man.range[1]]
      <4>1. man'.stage = "level" /\ man'.range = man.range /\ man'.begin = man.range[1]
        BY <3>1, <3>3, <1>4
      <4>2. \A r \in Ranges : r[1] \in Keys
        BY CompactionAssumption
      <4> QED BY <3>1, <4>1, <4>2, <1>5 DEF CallInv
    <3> QED BY <3>1, <3>2, <3>3
  <2>4. CASE GetSnapshot
    <3>1. IsFiniteSet(snaps) /\ Cardinality(snaps) \in Nat
      <4>1. snaps \subseteq 0..LastSequence /\ LastSequence \in Nat
        BY HistNumbered, SameFiles DEF TypeInv
      <4>2. IsFiniteSet(0..LastSequence)
        BY <4>1, FS_Interval
      <4>3. IsFiniteSet(snaps)
        BY <4>1, <4>2, FS_Subset
      <4> QED BY <4>3, FS_CardinalityType
    <3>2. MaxSnapshots # 0
      BY <2>4, <3>1 DEF GetSnapshot
    <3> QED BY <2>4, <3>2, <1>5 DEF GetSnapshot, CallInv
  <2>5. ASSUME NEW q \in snaps, ReleaseSnapshot(q) PROVE CallInv'
    BY <2>5, <1>5 DEF ReleaseSnapshot, CallInv
  <2> QED BY <2>1, <2>2, <2>3, <2>4, <2>5
<1> QED BY <1>3, <1>6 DEF LevelsInv

LEMMA LevelsStep ==
  ASSUME TypeInv, LevelsInv, Uninterrupted, WholeKeys, [Next]_vars
  PROVE  LevelsInv'
<1>1. ASSUME NEW k \in Keys, NEW d \in BOOLEAN, Write(k, d) PROVE LevelsInv'
  BY <1>1, WriteLevels
<1>2. CASE MakeRoomForWrite
  <2>1. Order' /\ AllApart' /\ CompInv'
    BY <1>2, SwitchLevels DEF MakeRoomForWrite
  <2>2. CallInv'
    BY <1>2 DEF MakeRoomForWrite, LevelsInv, CallInv
  <2> QED BY <2>1, <2>2 DEF LevelsInv
<1>3. CASE CompactMemTable
  BY <1>3, FlushLevels
<1>4. ASSUME NEW n \in 0..(NumLevels - 2), NEW t \in FilesAt(v, n),
             PickCompaction(n, t) \/ TrivialMove(n, t)
      PROVE  LevelsInv'
  BY <1>4, PickLevels, MoveLevels
<1>5. CASE InstallCompactionResults
  BY <1>5, InstallLevels
<1>6. CASE ManualCompaction
  BY <1>6, ManualLevels
<1>7. CASE \/ \E r \in Ranges : CompactRange(r)
           \/ ForceMemTable \/ ManualDone \/ GetSnapshot \/ \E q \in snaps : ReleaseSnapshot(q)
  BY <1>7, CallLevels
<1>8. CASE UNCHANGED vars
  <2>1. UNCHANGED <<hist, mem, imm, v, snaps, comp, man>>
    BY <1>8 DEF vars
  <2>2. Order' /\ AllApart' /\ CompInv'
    BY <2>1, FilesSame DEF LevelsInv, Order
  <2>3. CallInv'
    BY <2>1 DEF LevelsInv, CallInv
  <2> QED BY <2>2, <2>3 DEF LevelsInv
<1> QED BY <1>1, <1>2, <1>3, <1>4, <1>5, <1>6, <1>7, <1>8 DEF Next

LEMMA InitLevels ==
  ASSUME Init PROVE LevelsInv
<1>1. mem = {} /\ imm = {} /\ comp = NoCompaction /\ man.stage = "no" /\ snaps = {} /\ v.l0 = <<>>
      /\ \A n \in 1..(NumLevels - 1) : v.deep[n] = {}
  BY DEF Init, NoCall
<1>2. \A n \in 0..(NumLevels - 1) : FilesAt(v, n) = {}
  BY <1>1 DEF FilesAt, Range
<1>3. Order
  BY <1>1, <1>2 DEF Order, Older
<1>4. AllApart /\ CompInv /\ CallInv
  BY <1>1 DEF AllApart, CompInv, CallInv
<1> QED BY <1>3, <1>4 DEF LevelsInv

LEMMA LevelsInvHolds ==
  ASSUME Uninterrupted, WholeKeys
  PROVE  Spec => [](TypeInv /\ LevelsInv)
<1>1. Init => TypeInv /\ LevelsInv
  BY InitTypes, InitLevels
<1>2. (TypeInv /\ LevelsInv) /\ [Next]_vars => (TypeInv /\ LevelsInv)'
  BY TypeStep, LevelsStep
<1> QED BY <1>1, <1>2, PTL DEF Spec

(* A binary search of a level is right: where no flush can fall between the *)
(* inputs of a manual compaction and no file ends inside a key,             *)
(* DoCompactionWork, the trivial move and PickLevelForMemTableOutput leave  *)
(* the tables of a level apart, whatever is flushed while the mutex is free.*)
THEOREM LevelsDisjointHolds ==
  ASSUME Uninterrupted, WholeKeys
  PROVE  Spec => []LevelsDisjoint
<1>1. TypeInv /\ LevelsInv => LevelsDisjoint
  BY DEF LevelsInv, AllApart, Apart, LevelsDisjoint, Before, Hi, Lo
<1> QED BY <1>1, LevelsInvHolds, PTL

-----------------------------------------------------------------------------
(* What iterators find.                                                     *)

\* What is in the tables, those of gone left out.
Rest(gone) == UNION UNION {FilesAt(v, i) \ gone : i \in 0..(NumLevels - 1)}

LEMMA RestHas ==
  ASSUME NEW gone, NEW e
  PROVE  e \in Rest(gone) <=> \E i \in 0..(NumLevels - 1) : \E t \in FilesAt(v, i) \ gone : e \in t
BY DEF Rest

LEMMA EverythingHas ==
  ASSUME NEW e
  PROVE  e \in Everything <=> \/ e \in mem \/ e \in imm
                              \/ \E i \in 0..(NumLevels - 1) : \E t \in FilesAt(v, i) : e \in t
BY DEF Everything

LEMMA EverythingWas ==
  ASSUME TypeInv
  PROVE  Everything \subseteq hist /\ hist \subseteq Entries /\ Distinct(hist) /\ LastSequence \in Nat
         /\ \A q \in snaps \cup {LastSequence} : q \in Nat /\ q <= LastSequence
<1>1. mem \subseteq hist /\ imm \subseteq hist /\ snaps \subseteq 0..LastSequence
  BY SameFiles
<1>2. \A i \in 0..(NumLevels - 1) : \A t \in FilesAt(v, i) : t \subseteq hist
  BY FilesAre DEF TypeInv, Tables
<1>3. Everything \subseteq hist
  BY <1>1, <1>2, EverythingHas
<1>4. Numbered(hist) /\ LastSequence \in Nat /\ hist \subseteq Entries
  BY HistNumbered DEF TypeInv
<1> QED BY <1>1, <1>3, <1>4 DEF Numbered

(* A value depends on what is seen.                                         *)
LEMMA SameSeen ==
  ASSUME NEW H, H \subseteq Entries, Distinct(H), NEW S \in SUBSET H, NEW T \in SUBSET H,
         NEW k, NEW q \in Nat, NEW r \in Nat, Seen(S, k, q) = Seen(T, k, r)
  PROVE  Value(S, k, q) = Value(T, k, r)
<1>1. CASE Seen(S, k, q) = {}
  BY <1>1 DEF Value
<1>2. CASE Seen(S, k, q) # {}
  <2>1. S \subseteq Entries /\ T \subseteq Entries /\ Distinct(S) /\ Distinct(T)
    BY DEF Distinct
  <2>2. PICK e \in S : Newest(S, k, q, e)
    BY <1>2, <2>1, NewestExists
  <2>3. e \in T /\ Newest(T, k, r, e)
    BY <2>2 DEF Newest, Seen
  <2>4. Value(S, k, q) = IF e.del THEN 0 ELSE e.seq
    BY <2>1, <2>2, NewestTells
  <2>5. Value(T, k, r) = IF e.del THEN 0 ELSE e.seq
    BY <2>1, <2>3, NewestTells
  <2> QED BY <2>4, <2>5
<1> QED BY <1>1, <1>2

(* Steps that lose no entry and make no reader.                             *)
LEMMA SameScans ==
  ASSUME ScansAgree, hist' = hist, Everything' = Everything, snaps' \subseteq snaps \cup {LastSequence}
  PROVE  ScansAgree'
<1>1. LastSequence' = LastSequence
  BY DEF LastSequence
<1> QED BY <1>1 DEF ScansAgree

LEMMA WriteScans ==
  ASSUME TypeInv, TypeInv', ScansAgree, NEW k \in Keys, NEW d \in BOOLEAN, Write(k, d)
  PROVE  ScansAgree'
<1> DEFINE e == [key |-> k, seq |-> LastSequence + 1, del |-> d]
<1>1. hist' = hist \cup {e} /\ mem' = mem \cup {e} /\ LastSequence' = LastSequence + 1
  BY EntryOfWrite
<1>2. e.seq = LastSequence + 1 /\ e.key = k /\ UNCHANGED <<imm, v, snaps>>
  BY DEF Write
<1> HIDE DEF e
<1>3. \A a : a \in Everything' <=> a \in Everything \/ a = e
  <2>1. \A a : a \in Everything <=>
               \/ a \in mem \/ a \in imm
               \/ \E i \in 0..(NumLevels - 1) : \E t \in FilesAt(v, i) : a \in t
    BY EverythingHas
  <2>2. \A a : a \in Everything' <=>
               \/ a \in mem' \/ a \in imm'
               \/ \E i \in 0..(NumLevels - 1) : \E t \in FilesAt(v', i) : a \in t
    BY DEF Everything
  <2> QED BY <2>1, <2>2, <1>1, <1>2
<1>4. Everything \subseteq hist /\ LastSequence \in Nat
      /\ \A q \in snaps \cup {LastSequence} : q \in Nat /\ q <= LastSequence
  BY EverythingWas
<1>5. \A a \in hist : a.seq <= LastSequence /\ a.seq \in Nat
  BY EverythingWas DEF TypeInv, HistInv, Entries
<1>6. hist' \subseteq Entries /\ Distinct(hist')
  <2>1. Numbered(hist)'
    BY HistNumbered, PTL DEF TypeInv
  <2> QED BY <2>1, EntryTypes DEF Numbered
<1>7. Everything' \in SUBSET hist' /\ Everything \in SUBSET hist' /\ hist \in SUBSET hist'
  BY <1>1, <1>3, <1>4
<1> SUFFICES ASSUME NEW j \in Keys, NEW q \in snaps' \cup {LastSequence'}
             PROVE  Value(Everything', j, q) = Value(hist', j, q)
  BY DEF ScansAgree
<1>8. CASE q \in snaps
  <2>1. Seen(Everything', j, q) = Seen(Everything, j, q) /\ Seen(hist', j, q) = Seen(hist, j, q) /\ q \in Nat
    BY <1>1, <1>2, <1>3, <1>4, <1>8 DEF Seen
  <2>2. Value(Everything', j, q) = Value(Everything, j, q)
    BY <2>1, <1>6, <1>7, SameSeen
  <2>3. Value(hist', j, q) = Value(hist, j, q)
    BY <2>1, <1>6, <1>7, SameSeen
  <2> QED BY <2>2, <2>3, <1>8 DEF ScansAgree
<1>9. CASE q = LastSequence + 1 /\ j # k
  <2>1. Seen(Everything', j, q) = Seen(Everything, j, LastSequence)
        /\ Seen(hist', j, q) = Seen(hist, j, LastSequence) /\ q \in Nat
    BY <1>1, <1>2, <1>3, <1>4, <1>5, <1>9 DEF Seen
  <2>2. Value(Everything', j, q) = Value(Everything, j, LastSequence)
    BY <2>1, <1>4, <1>6, <1>7, SameSeen
  <2>3. Value(hist', j, q) = Value(hist, j, LastSequence)
    BY <2>1, <1>4, <1>6, <1>7, SameSeen
  <2> QED BY <2>2, <2>3 DEF ScansAgree
<1>10. CASE q = LastSequence + 1 /\ j = k
  <2>1. Newest(hist', j, q, e) /\ Newest(Everything', j, q, e) /\ q \in Nat /\ e \in hist' /\ e \in Everything'
    BY <1>1, <1>2, <1>3, <1>4, <1>5, <1>10 DEF Newest, Seen
  <2>2. Value(hist', j, q) = IF e.del THEN 0 ELSE e.seq
    BY <2>1, <1>6, NewestTells
  <2>3. Distinct(Everything') /\ Everything' \subseteq Entries
    BY <1>6, <1>7 DEF Distinct
  <2>4. Value(Everything', j, q) = IF e.del THEN 0 ELSE e.seq
    BY <2>1, <2>3, NewestTells
  <2> QED BY <2>2, <2>4
<1> QED BY <1>1, <1>2, <1>8, <1>9, <1>10

(* A table moves, or the memtable becomes one.                              *)
LEMMA EditKeeps ==
  ASSUME TypeInv, NEW n, NEW gone, NEW m \in 0..(NumLevels - 1), NEW add \in SUBSET Tables(hist),
         m = 0 => Single(add), v' = Edited(v, n, gone, m, add), mem' = mem
  PROVE  Everything' = mem \cup imm' \cup (UNION add) \cup Rest(gone)
<1>1. \A i \in 0..(NumLevels - 1) : FilesAt(v', i) = FilesAfter(i, gone, m, add)
  BY EditTypes
<1>2. \A a : a \in Everything' <=>
               \/ a \in mem' \/ a \in imm'
               \/ \E i \in 0..(NumLevels - 1) : \E t \in FilesAt(v', i) : a \in t
  BY DEF Everything
<1>3. \A a : \A i \in 0..(NumLevels - 1) : (\E t \in FilesAt(v', i) : a \in t) <=>
               \/ \E t \in FilesAt(v, i) \ gone : a \in t
               \/ i = m /\ a \in UNION add
  BY <1>1 DEF FilesAfter
<1>4. \A a : a \in Everything' <=> a \in mem \/ a \in imm' \/ a \in UNION add \/ a \in Rest(gone)
  BY <1>2, <1>3, RestHas
<1> QED BY <1>4

LEMMA FlushScans ==
  ASSUME TypeInv, ScansAgree, CompactMemTable
  PROVE  ScansAgree'
<1>1. imm # {} /\ imm' = {} /\ hist' = hist /\ mem' = mem /\ snaps' = snaps
  BY DEF CompactMemTable
<1>2. PICK n \in PickLevelForMemTableOutput(v, imm) : v' = Edited(v, n, {}, n, {imm})
  BY DEF CompactMemTable
<1>3. n \in 0..(NumLevels - 1)
  BY <1>2, Levels DEF PickLevelForMemTableOutput
<1>4. {imm} \in SUBSET Tables(hist) /\ Single({imm})
  BY <1>1, SameFiles DEF Tables, Single
<1>5. Everything' = mem \cup imm' \cup (UNION {imm}) \cup Rest({})
  <2> DEFINE add == {imm}
             gone == {}
  <2>1. add \in SUBSET Tables(hist) /\ Single(add) /\ v' = Edited(v, n, gone, n, add)
    BY <1>2, <1>4
  <2> HIDE DEF add, gone
  <2>2. Everything' = mem \cup imm' \cup (UNION add) \cup Rest(gone)
    BY <2>1, <1>1, <1>3, EditKeeps
  <2> QED BY <2>2 DEF add, gone
<1>6. Everything' = Everything
  BY <1>1, <1>5 DEF Everything, Rest
<1> QED BY <1>1, <1>6, SameScans

LEMMA MoveScans ==
  ASSUME TypeInv, ScansAgree, NEW n \in 0..(NumLevels - 2), NEW t, TrivialMove(n, t)
  PROVE  ScansAgree'
<1>1. Picked(n, t) /\ UNCHANGED <<hist, mem, imm, snaps>>
  BY DEF TrivialMove
<1>2. PICK p \in SetupOtherInputs(v, n, PickedInputs(n, t)) : v' = Edited(v, n, p[1], n + 1, p[1])
  BY DEF TrivialMove
<1>3. n \in 0..(NumLevels - 1) /\ n + 1 \in 0..(NumLevels - 1) /\ n + 1 # 0
  BY Levels
<1>4. p[1] \in SUBSET FilesAt(v, n)
  <2> DEFINE in0 == PickedInputs(n, t)
  <2>1. in0 \in SUBSET FilesAt(v, n) /\ in0 # {}
    BY <1>1, PickedApart
  <2>2. p \in SetupOtherInputs(v, n, in0)
    BY <1>2
  <2> HIDE DEF in0
  <2> QED BY <2>1, <2>2, <1>3, SetupIs DEF TypeInv
<1>5. p[1] \in SUBSET Tables(hist)
  BY <1>3, <1>4, FilesAre DEF TypeInv
<1>6. Everything' = mem \cup imm' \cup (UNION p[1]) \cup Rest(p[1])
  BY <1>1, <1>2, <1>3, <1>5, EditKeeps
<1>7. Everything' = Everything
  <2>1. \A a : a \in (UNION p[1]) \cup Rest(p[1]) <=>
               \E i \in 0..(NumLevels - 1) : \E u \in FilesAt(v, i) : a \in u
    BY <1>3, <1>4, RestHas
  <2>2. \A a : a \in Everything' <=> a \in Everything
    BY <1>1, <1>6, <2>1, EverythingHas
  <2> QED BY <2>2
<1> QED BY <1>1, <1>7, SameScans

(* A compaction drops nothing that a reader could find.                     *)
LEMMA InstallScans ==
  ASSUME TypeInv, LevelsInv, WholeKeys, ReadersAboveSmall, ScansAgree, InstallCompactionResults
  PROVE  ScansAgree'
<1> DEFINE S == UNION Inputs
           R == mem \cup imm \cup Rest(Inputs)
<1>1. comp # NoCompaction /\ UNCHANGED <<hist, mem, imm, snaps>>
  BY DEF InstallCompactionResults
<1>2. PICK out \in Outputs(Kept(S, comp.small, comp.base)) :
         v' = Edited(v, comp.level, Inputs, comp.level + 1, out)
  BY DEF InstallCompactionResults, Inputs
<1>3. UNION out = Kept(S, comp.small, comp.base) /\ out \in SUBSET Tables(hist)
  BY <1>1, <1>2, ResultsAre
<1>4. /\ comp.level \in 0..(NumLevels - 1) /\ comp.level + 1 \in 0..(NumLevels - 1) /\ comp.level + 1 # 0
      /\ comp.level \in Nat
      /\ comp.in0 \in SUBSET FilesAt(v, comp.level) /\ comp.in1 \in SUBSET FilesAt(v, comp.level + 1)
      /\ Inputs \in SUBSET Tables(hist)
  BY <1>1, BusyIs, Levels DEF Inputs
<1>5. Everything' = mem \cup imm' \cup (UNION out) \cup Rest(Inputs)
  <2> DEFINE n == comp.level
             m == comp.level + 1
             gone == Inputs
  <2>1. v' = Edited(v, n, gone, m, out) /\ m \in 0..(NumLevels - 1) /\ m # 0
    BY <1>2, <1>4
  <2>2. out \in SUBSET Tables(hist) /\ mem' = mem
    BY <1>1, <1>3
  <2> HIDE DEF n, m, gone
  <2>3. Everything' = mem \cup imm' \cup (UNION out) \cup Rest(gone)
    BY <2>1, <2>2, EditKeeps
  <2> QED BY <2>3 DEF gone
<1>6. \A a : a \in Everything <=>
               \/ a \in mem \/ a \in imm
               \/ \E i \in 0..(NumLevels - 1) : \E u \in FilesAt(v, i) : a \in u
  BY EverythingHas
<1>7. \A a : a \in R <=> \/ a \in mem \/ a \in imm
                         \/ \E i \in 0..(NumLevels - 1) : \E u \in FilesAt(v, i) \ Inputs : a \in u
  BY RestHas
<1>8. \A a : a \in S <=> \E u \in Inputs : a \in u
  OBVIOUS
<1>9. Everything' = Kept(S, comp.small, comp.base) \cup R
  BY <1>1, <1>3, <1>5
<1> HIDE DEF R, S
<1>10. Everything = S \cup R
  <2>1. \A u \in Inputs : u \in FilesAt(v, comp.level) \/ u \in FilesAt(v, comp.level + 1)
    BY <1>4 DEF Inputs
  <2>2. \A a : a \in S => a \in Everything
    BY <1>4, <1>6, <1>8, <2>1
  <2>3. \A a : a \in R => a \in Everything
    BY <1>6, <1>7
  <2>4. \A a : a \in Everything => a \in S \/ a \in R
    BY <1>6, <1>7, <1>8
  <2> QED BY <2>2, <2>3, <2>4
<1>11. S \cup R \subseteq Entries /\ Distinct(S \cup R)
  BY <1>10, EverythingWas DEF Distinct
<1>12. ASSUME NEW s \in S, NEW r \in R, s.key \in comp.base, r.key = s.key
       PROVE  s.seq < r.seq
  <2>1. PICK x \in Inputs : s \in x
    BY <1>8
  <2>2. CASE r \in mem \/ r \in imm
    <3>1. Older(x, imm) /\ Older(x, mem)
      BY <2>1, <1>4 DEF LevelsInv, Order, Inputs
    <3> QED BY <2>1, <2>2, <3>1, <1>12 DEF Older
  <2>3. ASSUME NEW i \in 0..(NumLevels - 1), NEW u \in FilesAt(v, i) \ Inputs, r \in u
        PROVE  s.seq < r.seq
    <3>1. CASE i < comp.level + 1
      <4>1. Older(x, u)
        BY <3>1, <2>1, <1>1, RestIs
      <4> QED BY <4>1, <2>1, <2>3, <1>12 DEF Older
    <3>2. CASE i = comp.level + 1
      <4>1. Outside(u, Inputs)
        BY <3>2, <1>1, RestIs
      <4>2. x \in Tables(hist) /\ u \in Tables(hist) /\ x \subseteq UNION Inputs /\ Numbered(hist)
        BY <2>1, <1>4, FilesAre, HistNumbered DEF TypeInv
      <4>3. Apart(x, u)
        BY <4>1, <4>2, <1>4, OutsideApart
      <4>4. Older(x, u)
        BY <4>2, <4>3, ApartOlder
      <4> QED BY <4>4, <2>1, <2>3, <1>12 DEF Older
    <3>3. CASE comp.level + 1 < i
      <4>1. i \in (comp.level + 2)..(NumLevels - 1)
        BY <3>3, <1>4
      <4>2. s \in UNION Inputs
        BY <2>1
      <4> QED BY <4>1, <4>2, <2>3, <1>1, <1>12 DEF LevelsInv, CompInv
    <3> QED BY <3>1, <3>2, <3>3, <1>4
  <2> QED BY <2>2, <2>3, <1>7
<1>13. LastSequence' = LastSequence /\ comp.small \in Nat
  <2>1. LastSequence \in Nat
    BY EverythingWas
  <2> QED BY <1>1, <2>1 DEF LastSequence, TypeInv, CTypeOK
<1>14. ASSUME NEW k \in Keys, NEW q \in snaps \cup {LastSequence}
       PROVE  Value(Everything', k, q) = Value(Everything, k, q)
  <2>1. q \in Nat /\ comp.small <= q
    BY EverythingWas DEF ReadersAboveSmall
  <2>2. NewerIn(R, S, comp.base)
    BY <1>12 DEF NewerIn
  <2>3. PICK base : base = comp.base
    OBVIOUS
  <2>4. PICK small \in Nat, r \in Nat : small = comp.small /\ r = q
    BY <1>13, <2>1
  <2>5. Value(Kept(S, small, base) \cup R, k, r) = Value(S \cup R, k, r)
    BY <2>1, <2>2, <2>3, <2>4, <1>11, DropRule
  <2> QED BY <2>3, <2>4, <2>5, <1>9, <1>10
<1> QED BY <1>1, <1>13, <1>14 DEF ScansAgree

LEMMA ScansStep ==
  ASSUME TypeInv, TypeInv', LevelsInv, WholeKeys, ReadersAboveSmall, ScansAgree, [Next]_vars
  PROVE  ScansAgree'
<1>1. ASSUME NEW k \in Keys, NEW d \in BOOLEAN, Write(k, d) PROVE ScansAgree'
  BY <1>1, WriteScans
<1>2. CASE MakeRoomForWrite \/ ForceMemTable
  <2>1. imm = {} /\ imm' = mem /\ mem' = {} /\ UNCHANGED <<hist, v, snaps>>
    BY <1>2 DEF MakeRoomForWrite, ForceMemTable
  <2>2. Everything' = Everything
    BY <2>1 DEF Everything
  <2> QED BY <2>1, <2>2, SameScans
<1>3. ASSUME UNCHANGED <<hist, mem, imm, v>>, snaps' \subseteq snaps \cup {LastSequence} PROVE ScansAgree'
  <2>1. Everything' = Everything
    BY <1>3 DEF Everything
  <2> QED BY <1>3, <2>1, SameScans
<1>4. CASE GetSnapshot \/ \E q \in snaps : ReleaseSnapshot(q)
  BY <1>3, <1>4 DEF GetSnapshot, ReleaseSnapshot
<1>5. CASE CompactMemTable
  BY <1>5, FlushScans
<1>6. ASSUME NEW n \in 0..(NumLevels - 2), NEW t \in FilesAt(v, n), PickCompaction(n, t)
      PROVE  ScansAgree'
  BY <1>3, <1>6 DEF PickCompaction
<1>7. ASSUME NEW n \in 0..(NumLevels - 2), NEW t \in FilesAt(v, n), TrivialMove(n, t)
      PROVE  ScansAgree'
  BY <1>7, MoveScans
<1>8. CASE InstallCompactionResults
  BY <1>8, InstallScans
<1>9. CASE \/ \E r \in Ranges : CompactRange(r)
           \/ ManualCompaction \/ ManualDone \/ UNCHANGED vars
  BY <1>3, <1>9 DEF CompactRange, ManualCompaction, ManualDone, vars
<1> QED BY <1>1, <1>2, <1>4, <1>5, <1>6, <1>7, <1>8, <1>9 DEF Next

(* Whatever a compaction drops, no reader misses: at the last sequence      *)
(* number and at every snapshot, those taken or released while              *)
(* DoCompactionWork runs included, the tables and memtables that DBIter     *)
(* merges tell the value that was last written.                             *)
THEOREM ScansAgreeHolds ==
  ASSUME Uninterrupted, WholeKeys
  PROVE  Spec => []ScansAgree
<1>1. Init => ScansAgree
  <2> SUFFICES ASSUME Init PROVE ScansAgree
    OBVIOUS
  <2>1. hist = {} /\ mem = {} /\ imm = {} /\ v.l0 = <<>>
        /\ \A n \in 1..(NumLevels - 1) : v.deep[n] = {}
    BY DEF Init
  <2>2. \A n \in 0..(NumLevels - 1) : FilesAt(v, n) = {}
    BY <2>1 DEF FilesAt, Range
  <2>3. Everything = hist
    BY <2>1, <2>2, EverythingHas
  <2> QED BY <2>3 DEF ScansAgree
<1>2. (TypeInv /\ LevelsInv) /\ (TypeInv /\ LevelsInv)' /\ ReadersAboveSmall /\ ScansAgree /\ [Next]_vars
        => ScansAgree'
  BY ScansStep
<1>3. Spec => [](TypeInv /\ LevelsInv)
  BY LevelsInvHolds
<1>4. Spec => []ReadersAboveSmall
  BY ReadersAboveSmallHolds
<1> QED BY <1>1, <1>2, <1>3, <1>4, PTL DEF Spec

-----------------------------------------------------------------------------
(* What a read finds.                                                       *)

\* Level 0's tables that Version::Get looks at, and what it reads of a
\* lower level.
ZeroFor(k) == Only(v.l0, {t \in FilesAt(v, 0) : Meets(t, <<k, k>>)})
DeepFor(k, q) == [n \in 1..(NumLevels - 1) |-> UNION FindFile(v.deep[n], k, q)]

LEMMA SearchedIs ==
  ASSUME TypeInv, NEW k, NEW q
  PROVE  LET N == Len(ZeroFor(k))
             P == Searched(k, q)
         IN  /\ ZeroFor(k) \in Seq(Tables(hist)) /\ N \in Nat
             /\ DOMAIN P = 1..(N + NumLevels + 1)
             /\ P[1] = mem /\ P[2] = imm
             /\ \A j \in 1..N : P[2 + j] = ZeroFor(k)[N + 1 - j]
             /\ \A n \in 1..(NumLevels - 1) : P[2 + N + n] = UNION FindFile(v.deep[n], k, q)
<1> DEFINE A == Tables(hist)
           Z == ZeroFor(k)
           D == DeepFor(k, q)
           N == Len(Z)
           R == Reverse(Z)
           U == SUBSET UNION {mem, imm, UNION A, UNION UNION {v.deep[n] : n \in 1..(NumLevels - 1)}}
<1>1. Z \in Seq(A) /\ N \in Nat
  <2>1. v.l0 \in Seq(A)
    BY SameFiles
  <2>2. Z \in Seq(A \cap {t \in FilesAt(v, 0) : Meets(t, <<k, k>>)})
    BY <2>1, OnlyRange DEF ZeroFor
  <2>3. \A s \in Seq(A \cap {t \in FilesAt(v, 0) : Meets(t, <<k, k>>)}) : s \in Seq(A)
    OBVIOUS
  <2> QED BY <2>2, <2>3
<1>2. NumLevels \in Nat /\ NumLevels > 1
  BY Levels
<1>3. R = [j \in 1..N |-> Z[N - j + 1]]
  BY DEF Reverse
<1> HIDE DEF Z, R
<1>4. R \in Seq(U) /\ Len(R) = N
  <2>1. \A j \in 1..N : Z[N - j + 1] \in U
    <3> SUFFICES ASSUME NEW j \in 1..N PROVE Z[N - j + 1] \in U
      OBVIOUS
    <3>1. N - j + 1 \in 1..N
      BY <1>1
    <3>2. Z[N - j + 1] \in A
      BY <1>1, <3>1
    <3> QED BY <3>2
  <2> QED BY <1>1, <1>3, <2>1
<1>5. D \in Seq(U) /\ Len(D) = NumLevels - 1
  <2>1. \A n \in 1..(NumLevels - 1) : UNION FindFile(v.deep[n], k, q) \in U
    BY DEF FindFile
  <2>2. D = [n \in 1..(NumLevels - 1) |-> UNION FindFile(v.deep[n], k, q)]
    BY DEF DeepFor
  <2>3. NumLevels - 1 \in Nat
    BY <1>2
  <2> HIDE DEF U, D
  <2>4. PICK M \in Nat : M = NumLevels - 1
    BY <2>3
  <2>5. D \in [1..M -> U]
    BY <2>1, <2>2, <2>4
  <2>6. D \in Seq(U)
    BY <2>5, SeqDef
  <2> QED BY <2>4, <2>5, <2>6
<1>6. <<mem, imm>> \in Seq(U) /\ Len(<<mem, imm>>) = 2
  OBVIOUS
<1>7. Searched(k, q) = <<mem, imm>> \o R \o D
  BY DEF Searched, ZeroFor, DeepFor, R, Z
<1>8. \A n \in 1..(NumLevels - 1) : D[n] = UNION FindFile(v.deep[n], k, q)
  BY DEF DeepFor
<1> HIDE DEF U, D
<1> DEFINE B == <<mem, imm>> \o R
<1>9. /\ B \in Seq(U) /\ Len(B) = N + 2 /\ B[1] = mem /\ B[2] = imm
      /\ \A j \in 1..N : B[2 + j] = R[j]
  BY <1>1, <1>4, <1>6
<1> HIDE DEF B
<1>10. Searched(k, q) = B \o D
  BY <1>7 DEF B
<1> DEFINE P == Searched(k, q)
<1>11. /\ P \in Seq(U) /\ Len(P) = N + NumLevels + 1
       /\ \A i \in 1..(N + 2) : P[i] = B[i]
       /\ \A i \in 1..(NumLevels - 1) : P[N + 2 + i] = D[i]
  <2>1. PICK a \in Nat, b \in Nat : a = N + 2 /\ b = NumLevels - 1
    BY <1>1, <1>2
  <2>2. Len(B) = a /\ Len(D) = b
    BY <2>1, <1>5, <1>9
  <2> HIDE DEF P, N
  <2>3. P = B \o D
    BY <1>10 DEF P
  <2>4. /\ B \o D \in Seq(U) /\ Len(B \o D) = a + b
        /\ \A i \in 1..(a + b) : (B \o D)[i] = IF i <= a THEN B[i] ELSE D[i - a]
    BY <2>2, <1>5, <1>9, ConcatProperties
  <2>5. \A i \in 1..a : (B \o D)[i] = B[i]
    BY <2>4
  <2>6. ASSUME NEW i \in 1..b PROVE (B \o D)[a + i] = D[i]
    <3>1. PICK j \in 1..(a + b) : j = a + i
      OBVIOUS
    <3>2. ~(j <= a) /\ j - a = i
      BY <3>1
    <3>3. (B \o D)[j] = D[j - a]
      BY <2>4, <3>2
    <3> QED BY <3>1, <3>2, <3>3
  <2>7. Len(P) = N + NumLevels + 1
    BY <2>1, <2>3, <2>4, <1>1, <1>2
  <2> QED BY <2>1, <2>3, <2>7, <2>4, <2>5, <2>6
<1> HIDE DEF P
<1>12. DOMAIN P = 1..(N + NumLevels + 1)
  BY <1>11
<1>13. P[1] = mem /\ P[2] = imm
  BY <1>1, <1>9, <1>11
<1>14. \A j \in 1..N : P[2 + j] = Z[N + 1 - j]
  <2> SUFFICES ASSUME NEW j \in 1..N PROVE P[2 + j] = Z[N + 1 - j]
    OBVIOUS
  <2>1. 2 + j \in 1..(N + 2) /\ N - j + 1 = N + 1 - j
    BY <1>1
  <2> QED BY <2>1, <1>3, <1>9, <1>11
<1>15. \A n \in 1..(NumLevels - 1) : P[2 + N + n] = UNION FindFile(v.deep[n], k, q)
  <2> SUFFICES ASSUME NEW n \in 1..(NumLevels - 1) PROVE P[2 + N + n] = UNION FindFile(v.deep[n], k, q)
    OBVIOUS
  <2>1. 2 + N + n = N + 2 + n
    BY <1>1
  <2> QED BY <2>1, <1>8, <1>11
<1> QED BY <1>1, <1>12, <1>13, <1>14, <1>15 DEF P, Z

(* A binary search of a level finds the table that has the entry.           *)
LEMMA FindFinds ==
  ASSUME NEW H, Numbered(H), NEW F \in SUBSET Tables(H), \A t, u \in F : t # u => Apart(t, u),
         NEW t \in F, NEW e \in t, NEW k, e.key = k, NEW q \in Nat, e.seq <= q
  PROVE  t \in FindFile(F, k, q)
<1> DEFINE r == [key |-> k, seq |-> q]
<1>1. \A u \in F : /\ Largest(u) \in Entries /\ Smallest(u) \in Entries
                   /\ Smallest(u).key <= Largest(u).key
  <2> SUFFICES ASSUME NEW u \in F PROVE /\ Largest(u) \in Entries /\ Smallest(u) \in Entries
                                        /\ Smallest(u).key <= Largest(u).key
    OBVIOUS
  <2>1. u \in Tables(H)
    OBVIOUS
  <2>2. Largest(u) \in u /\ Smallest(u) \in u
    BY <2>1, Ends
  <2>3. Lo(u) <= Hi(u)
    BY <2>1, TableEnds
  <2>4. u \subseteq Entries
    BY <2>1, NumberedLess DEF Tables
  <2> QED BY <2>2, <2>3, <2>4 DEF Lo, Hi
<1>2. e \in Entries
  BY NumberedLess DEF Tables
<1>3. e = Largest(t) \/ Before(e, Largest(t))
  BY Ends
<1>4. Smallest(t).key <= k
  <2>1. Lo(t) <= e.key
    BY TableEnds
  <2> QED BY <2>1 DEF Lo
<1>5. r.key = k /\ r.seq = q
  OBVIOUS
<1> HIDE DEF r
<1>6. ~Before(Largest(t), r)
  BY <1>1, <1>2, <1>3, <1>5 DEF Before, Entries
<1>7. ASSUME NEW u \in F \ {t}, ~Before(Largest(u), r) PROVE Before(Smallest(t), Smallest(u))
  <2>1. Largest(t).key < Smallest(u).key \/ Largest(u).key < Smallest(t).key
    BY DEF Apart, Hi, Lo
  <2>2. ~(Largest(u).key < k)
    BY <1>5, <1>7 DEF Before
  <2>3. Smallest(t).key < Smallest(u).key
    BY <2>1, <2>2, <1>1, <1>2, <1>4 DEF Entries
  <2> QED BY <2>3 DEF Before
<1> QED BY <1>6, <1>7 DEF FindFile, r

(* The tables of level 0 are looked at from the newest on.                  *)
LEMMA ZeroForIs ==
  ASSUME TypeInv, Order, NEW k
  PROVE  /\ \A a \in DOMAIN ZeroFor(k) : ZeroFor(k)[a] \in FilesAt(v, 0)
         /\ \A a, b \in DOMAIN ZeroFor(k) : a < b => Older(ZeroFor(k)[a], ZeroFor(k)[b])
         /\ \A t \in FilesAt(v, 0) : Meets(t, <<k, k>>) => \E a \in DOMAIN ZeroFor(k) : ZeroFor(k)[a] = t
<1> DEFINE A == Tables(hist)
           S == {t \in FilesAt(v, 0) : Meets(t, <<k, k>>)}
<1>1. v.l0 \in Seq(A) /\ FilesAt(v, 0) = Range(v.l0)
  BY SameFiles DEF FilesAt
<1>2. Range(ZeroFor(k)) = Range(v.l0) \cap S
  BY <1>1, OnlyRange DEF ZeroFor
<1>3. PICK f \in [DOMAIN ZeroFor(k) -> DOMAIN v.l0] :
            /\ \A a \in DOMAIN ZeroFor(k) : ZeroFor(k)[a] = v.l0[f[a]]
            /\ \A a, b \in DOMAIN ZeroFor(k) : a < b => f[a] < f[b]
  <2> HIDE DEF A, S
  <2>1. PICK s : s = v.l0
    OBVIOUS
  <2>2. s \in Seq(A) /\ ZeroFor(k) = Only(s, S)
    BY <1>1, <2>1 DEF ZeroFor, S
  <2>3. \E f \in [DOMAIN Only(s, S) -> DOMAIN s] :
            /\ \A a \in DOMAIN Only(s, S) : Only(s, S)[a] = s[f[a]]
            /\ \A a, b \in DOMAIN Only(s, S) : a < b => f[a] < f[b]
    BY <2>2, OnlyInOrder
  <2> QED BY <2>1, <2>2, <2>3
<1>4. \A a, b \in DOMAIN ZeroFor(k) : a < b => Older(ZeroFor(k)[a], ZeroFor(k)[b])
  BY <1>3 DEF Order
<1>5. \A a \in DOMAIN ZeroFor(k) : ZeroFor(k)[a] \in FilesAt(v, 0)
  BY <1>1, <1>2 DEF Range
<1>6. \A t \in S : \E a \in DOMAIN ZeroFor(k) : ZeroFor(k)[a] = t
  BY <1>1, <1>2 DEF Range
<1> QED BY <1>4, <1>5, <1>6

\* What is searched: the i-th place is ...
IsMem(i) == i = 1
IsImm(i) == i = 2
IsZero(i, k, a) == a \in DOMAIN ZeroFor(k) /\ i = 3 + Len(ZeroFor(k)) - a
IsDeep(i, k, n) == n \in 1..(NumLevels - 1) /\ i = 2 + Len(ZeroFor(k)) + n

LEMMA PlacesAre ==
  ASSUME TypeInv, NEW k, NEW q
  PROVE  /\ Len(ZeroFor(k)) \in Nat /\ DOMAIN ZeroFor(k) = 1..Len(ZeroFor(k))
         /\ DOMAIN Searched(k, q) = 1..(Len(ZeroFor(k)) + NumLevels + 1)
         /\ \A i \in DOMAIN Searched(k, q) :
              \/ IsMem(i) \/ IsImm(i)
              \/ \E a : IsZero(i, k, a)
              \/ \E n : IsDeep(i, k, n)
         /\ \A i : IsMem(i) => i \in DOMAIN Searched(k, q) /\ Searched(k, q)[i] = mem
         /\ \A i : IsImm(i) => i \in DOMAIN Searched(k, q) /\ Searched(k, q)[i] = imm
         /\ \A i, a : IsZero(i, k, a) =>
               i \in DOMAIN Searched(k, q) /\ Searched(k, q)[i] = ZeroFor(k)[a]
         /\ \A i, n : IsDeep(i, k, n) =>
               i \in DOMAIN Searched(k, q) /\ Searched(k, q)[i] = UNION FindFile(v.deep[n], k, q)
<1> DEFINE Z == ZeroFor(k)
           P == Searched(k, q)
           N == Len(Z)
           F(n) == UNION FindFile(v.deep[n], k, q)
<1>1. Z \in Seq(Tables(hist)) /\ N \in Nat
  BY SearchedIs
<1>2. DOMAIN P = 1..(N + NumLevels + 1)
  BY SearchedIs
<1>3. P[1] = mem /\ P[2] = imm
  BY SearchedIs
<1>4. \A j \in 1..N : P[2 + j] = Z[N + 1 - j]
  BY SearchedIs
<1>5. \A n \in 1..(NumLevels - 1) : P[2 + N + n] = F(n)
  BY SearchedIs
<1>6. DOMAIN Z = 1..N
  BY <1>1
<1>7. NumLevels \in Nat /\ NumLevels > 1
  BY Levels
<1> HIDE DEF Z, P, F
<1>8. ASSUME NEW i, NEW a, IsZero(i, k, a) PROVE i \in DOMAIN P /\ P[i] = Z[a]
  <2>1. a \in 1..N /\ i = 3 + N - a
    BY <1>6, <1>8 DEF IsZero, Z
  <2>2. PICK j \in 1..N : j = N + 1 - a
    BY <2>1, <1>1
  <2>3. i = 2 + j /\ N + 1 - j = a /\ i \in 1..(N + NumLevels + 1)
    BY <2>1, <2>2, <1>1, <1>7
  <2>4. P[2 + j] = Z[N + 1 - j]
    BY <1>4
  <2> QED BY <2>3, <2>4, <1>2
<1>9. ASSUME NEW i, NEW n, IsDeep(i, k, n) PROVE i \in DOMAIN P /\ P[i] = F(n)
  <2>1. n \in 1..(NumLevels - 1) /\ i = 2 + N + n
    BY <1>9 DEF IsDeep, Z
  <2>2. i \in 1..(N + NumLevels + 1)
    BY <2>1, <1>1, <1>7
  <2> QED BY <2>1, <2>2, <1>2, <1>5
<1>10. \A i : IsMem(i) \/ IsImm(i) => i \in DOMAIN P
  BY <1>1, <1>2, <1>7 DEF IsMem, IsImm
<1>11. ASSUME NEW i \in DOMAIN P
       PROVE  IsMem(i) \/ IsImm(i) \/ (\E a : IsZero(i, k, a)) \/ (\E n : IsDeep(i, k, n))
  <2>1. i \in Nat /\ 1 <= i /\ i <= N + NumLevels + 1
    BY <1>1, <1>2, <1>7
  <2>2. CASE i > 2 /\ i <= 2 + N
    <3>1. 3 + N - i \in 1..N /\ i = 3 + N - (3 + N - i)
      BY <2>1, <2>2, <1>1
    <3>2. IsZero(i, k, 3 + N - i)
      BY <3>1, <1>6 DEF IsZero, Z
    <3> QED BY <3>2
  <2>3. CASE i > 2 + N
    <3>1. i - (2 + N) \in 1..(NumLevels - 1) /\ i = 2 + N + (i - (2 + N))
      BY <2>1, <2>3, <1>1, <1>7
    <3>2. IsDeep(i, k, i - (2 + N))
      BY <3>1 DEF IsDeep, Z
    <3> QED BY <3>2
  <2>4. CASE i = 1 \/ i = 2
    BY <2>4 DEF IsMem, IsImm
  <2> QED BY <2>1, <2>2, <2>3, <2>4, <1>1
<1>12. \A i : (IsMem(i) => P[i] = mem) /\ (IsImm(i) => P[i] = imm)
  BY <1>3 DEF IsMem, IsImm
<1>13. Len(ZeroFor(k)) \in Nat /\ DOMAIN ZeroFor(k) = 1..Len(ZeroFor(k))
       /\ DOMAIN Searched(k, q) = 1..(Len(ZeroFor(k)) + NumLevels + 1)
  BY <1>1, <1>2, <1>6 DEF Z, P
<1>14. \A i \in DOMAIN Searched(k, q) :
              IsMem(i) \/ IsImm(i) \/ (\E a : IsZero(i, k, a)) \/ (\E n : IsDeep(i, k, n))
  BY <1>11 DEF P
<1>15. \A i : (IsMem(i) => i \in DOMAIN Searched(k, q) /\ Searched(k, q)[i] = mem)
           /\ (IsImm(i) => i \in DOMAIN Searched(k, q) /\ Searched(k, q)[i] = imm)
  BY <1>10, <1>12 DEF P
<1>16. \A i, a : IsZero(i, k, a) => i \in DOMAIN Searched(k, q) /\ Searched(k, q)[i] = ZeroFor(k)[a]
  BY <1>8 DEF P, Z
<1>17. \A i, n : IsDeep(i, k, n) =>
               i \in DOMAIN Searched(k, q) /\ Searched(k, q)[i] = UNION FindFile(v.deep[n], k, q)
  BY <1>9 DEF P, F
<1> QED BY <1>13, <1>14, <1>15, <1>16, <1>17

(* What is searched later is older.                                         *)
LEMMA SearchedOlder ==
  ASSUME TypeInv, Order, NEW k, NEW q,
         NEW i \in DOMAIN Searched(k, q), NEW j \in DOMAIN Searched(k, q), i < j
  PROVE  Older(Searched(k, q)[j], Searched(k, q)[i])
<1> DEFINE Z == ZeroFor(k)
           N == Len(Z)
           P == Searched(k, q)
           G(n) == FindFile(v.deep[n], k, q)
<1>1. N \in Nat /\ DOMAIN Z = 1..N /\ NumLevels \in Nat /\ NumLevels > 1
  BY PlacesAre, Levels
<1>2. \A n \in 1..(NumLevels - 1) : n \in 0..(NumLevels - 1) /\ G(n) \subseteq FilesAt(v, n)
  BY DEF FindFile, FilesAt
<1>3. \A a \in DOMAIN Z : Z[a] \in FilesAt(v, 0)
  BY ZeroForIs
<1>4. 0 \in 0..(NumLevels - 1)
  BY <1>1
<1>5. Older(imm, mem)
  BY DEF Order
<1>6. \A a \in DOMAIN Z : Older(Z[a], mem) /\ Older(Z[a], imm)
  BY <1>3, <1>4 DEF Order
<1>7. ASSUME NEW n \in 1..(NumLevels - 1)
      PROVE  /\ Older(UNION G(n), mem) /\ Older(UNION G(n), imm)
             /\ \A a \in DOMAIN Z : Older(UNION G(n), Z[a])
             /\ \A m \in 1..(NumLevels - 1) : m < n => Older(UNION G(n), UNION G(m))
  <2>1. \A t \in G(n) : Older(t, mem) /\ Older(t, imm)
    BY <1>2 DEF Order
  <2>2. \A a \in DOMAIN Z : \A t \in G(n) : Older(t, Z[a])
    BY <1>2, <1>3, <1>4 DEF Order
  <2>3. \A m \in 1..(NumLevels - 1) : m < n => \A u \in G(m) : \A t \in G(n) : Older(t, u)
    BY <1>2 DEF Order
  <2> HIDE DEF G, Z
  <2>4. Older(UNION G(n), mem) /\ Older(UNION G(n), imm)
    BY <2>1, OlderUnion
  <2>5. \A a \in DOMAIN Z : Older(UNION G(n), Z[a])
    BY <2>2, OlderUnion
  <2>6. ASSUME NEW m \in 1..(NumLevels - 1), m < n PROVE Older(UNION G(n), UNION G(m))
    <3>1. \A u \in G(m) : Older(UNION G(n), u)
      BY <2>3, <2>6, OlderUnion
    <3> QED BY <3>1, OlderUnion
  <2> QED BY <2>4, <2>5, <2>6
<1>8. \A a, b \in DOMAIN Z : a < b => Older(Z[a], Z[b])
  BY ZeroForIs
<1> HIDE DEF G
<1>9. /\ \A x : IsMem(x) => P[x] = mem
      /\ \A x : IsImm(x) => P[x] = imm
      /\ \A x, a : IsZero(x, k, a) => P[x] = Z[a]
      /\ \A x, n : IsDeep(x, k, n) => P[x] = UNION G(n)
  BY PlacesAre DEF G
<1>10. /\ IsMem(i) \/ IsImm(i) \/ (\E a : IsZero(i, k, a)) \/ (\E n : IsDeep(i, k, n))
       /\ IsMem(j) \/ IsImm(j) \/ (\E a : IsZero(j, k, a)) \/ (\E n : IsDeep(j, k, n))
  BY PlacesAre
<1>11. i \in Nat /\ j \in Nat
  BY <1>1, PlacesAre
<1> HIDE DEF P
<1>12. /\ \A x : IsMem(x) => x = 1
       /\ \A x : IsImm(x) => x = 2
       /\ \A x, a : IsZero(x, k, a) => a \in DOMAIN Z /\ a \in Nat /\ x = 3 + N - a /\ 3 <= x /\ x <= N + 2
       /\ \A x, n : IsDeep(x, k, n) => n \in 1..(NumLevels - 1) /\ x = 2 + N + n /\ N + 3 <= x
  BY <1>1 DEF IsMem, IsImm, IsZero, IsDeep
<1> HIDE DEF Z, N
<1>13. CASE IsMem(i) \/ IsImm(i)
  <2>1. CASE IsImm(j)
    <3>1. IsMem(i)
      BY <1>12, <1>13, <2>1
    <3> QED BY <3>1, <2>1, <1>5, <1>9 DEF P
  <2>2. ~IsMem(j)
    BY <1>12, <1>13
  <2>3. ASSUME NEW a, IsZero(j, k, a) PROVE Older(P[j], P[i])
    BY <1>6, <1>9, <1>12, <1>13, <2>3
  <2>4. ASSUME NEW n, IsDeep(j, k, n) PROVE Older(P[j], P[i])
    <3>1. n \in 1..(NumLevels - 1) /\ P[j] = UNION G(n)
      BY <1>9, <1>12, <2>4
    <3>2. Older(UNION G(n), mem) /\ Older(UNION G(n), imm)
      BY <3>1, <1>7
    <3> QED BY <3>1, <3>2, <1>9, <1>13
  <2> QED BY <1>10, <2>1, <2>2, <2>3, <2>4 DEF P
<1>14. ASSUME NEW a, IsZero(i, k, a) PROVE Older(P[j], P[i])
  <2>1. a \in DOMAIN Z /\ a \in Nat /\ i = 3 + N - a /\ 3 <= i /\ P[i] = Z[a]
    BY <1>9, <1>12, <1>14
  <2>2. ~IsMem(j) /\ ~IsImm(j)
    BY <1>12, <1>11, <2>1
  <2>3. ASSUME NEW b, IsZero(j, k, b) PROVE Older(P[j], P[i])
    <3>1. b \in DOMAIN Z /\ b \in Nat /\ j = 3 + N - b /\ P[j] = Z[b]
      BY <1>9, <1>12, <2>3
    <3>2. b < a
      BY <3>1, <2>1, <1>1
    <3> QED BY <3>1, <3>2, <2>1, <1>8
  <2>4. ASSUME NEW n, IsDeep(j, k, n) PROVE Older(P[j], P[i])
    <3>1. n \in 1..(NumLevels - 1) /\ P[j] = UNION G(n)
      BY <1>9, <1>12, <2>4
    <3>2. Older(UNION G(n), Z[a])
      BY <3>1, <2>1, <1>7
    <3> QED BY <3>1, <3>2, <2>1
  <2> QED BY <1>10, <2>2, <2>3, <2>4
<1>15. ASSUME NEW m, IsDeep(i, k, m) PROVE Older(P[j], P[i])
  <2>1. m \in 1..(NumLevels - 1) /\ i = 2 + N + m /\ N + 3 <= i /\ P[i] = UNION G(m)
    BY <1>9, <1>12, <1>15
  <2>2. ~IsMem(j) /\ ~IsImm(j)
    BY <1>1, <1>12, <1>11, <2>1
  <2>3. \A a : ~IsZero(j, k, a)
    BY <1>1, <1>12, <2>1
  <2>4. ASSUME NEW n, IsDeep(j, k, n) PROVE Older(P[j], P[i])
    <3>1. n \in 1..(NumLevels - 1) /\ j = 2 + N + n /\ P[j] = UNION G(n)
      BY <1>9, <1>12, <2>4
    <3>2. m < n
      BY <3>1, <2>1, <1>1
    <3> QED BY <3>1, <3>2, <2>1, <1>7
  <2> QED BY <1>10, <2>2, <2>3, <2>4
<1> QED BY <1>10, <1>13, <1>14, <1>15 DEF P

(* Whatever has an entry of the key that the reader may see is searched.    *)
LEMMA SearchedFinds ==
  ASSUME TypeInv, AllApart, Order, NEW k, NEW q \in Nat,
         NEW e \in Everything, e.key = k, e.seq <= q
  PROVE  \E i \in DOMAIN Searched(k, q) : e \in Searched(k, q)[i]
<1>1. CASE e \in mem
  BY <1>1, PlacesAre DEF IsMem
<1>2. CASE e \in imm
  BY <1>2, PlacesAre DEF IsImm
<1>3. ASSUME NEW n \in 0..(NumLevels - 1), NEW t \in FilesAt(v, n), e \in t
      PROVE  \E i \in DOMAIN Searched(k, q) : e \in Searched(k, q)[i]
  <2>1. Numbered(hist) /\ t \in Tables(hist) /\ FilesAt(v, n) \in SUBSET Tables(hist)
    BY FilesAre, HistNumbered DEF TypeInv
  <2>2. CASE n = 0
    <3>1. Lo(t) <= k /\ k <= Hi(t) /\ Lo(t) \in Nat /\ Hi(t) \in Nat
      BY <2>1, <1>3, TableEnds
    <3>2. Meets(t, <<k, k>>)
      <4>1. k \in Nat
        <5>1. e \in hist /\ hist \subseteq Entries
          BY EverythingWas
        <5> QED BY <5>1 DEF Entries
      <4> QED BY <4>1, <3>1, MeetsIs
    <3>3. PICK a \in DOMAIN ZeroFor(k) : ZeroFor(k)[a] = t
      BY <2>2, <3>2, ZeroForIs
    <3>4. IsZero(3 + Len(ZeroFor(k)) - a, k, a)
      BY DEF IsZero
    <3>5. /\ 3 + Len(ZeroFor(k)) - a \in DOMAIN Searched(k, q)
          /\ Searched(k, q)[3 + Len(ZeroFor(k)) - a] = ZeroFor(k)[a]
      BY <3>4, PlacesAre
    <3> QED BY <3>3, <3>5, <1>3
  <2>3. CASE n # 0
    <3>1. n \in 1..(NumLevels - 1)
      BY <2>3
    <3>2. FilesAt(v, n) = v.deep[n]
      BY <2>3 DEF FilesAt
    <3>3. \A x, u \in v.deep[n] : x # u => Apart(x, u)
      BY <3>1 DEF AllApart
    <3>4. t \in FindFile(v.deep[n], k, q)
      BY <3>2, <3>3, <2>1, <1>3, FindFinds
    <3>5. IsDeep(2 + Len(ZeroFor(k)) + n, k, n)
      BY <3>1 DEF IsDeep
    <3>6. /\ 2 + Len(ZeroFor(k)) + n \in DOMAIN Searched(k, q)
          /\ Searched(k, q)[2 + Len(ZeroFor(k)) + n] = UNION FindFile(v.deep[n], k, q)
      BY <3>5, PlacesAre
    <3> QED BY <3>4, <3>6, <1>3
  <2> QED BY <2>2, <2>3
<1> QED BY <1>1, <1>2, <1>3, EverythingHas

LEMMA SearchedLess ==
  ASSUME TypeInv, Order, NEW k, NEW q, NEW i \in DOMAIN Searched(k, q)
  PROVE  Searched(k, q)[i] \subseteq Everything
<1>1. CASE IsMem(i) \/ IsImm(i)
  BY <1>1, PlacesAre DEF Everything
<1>2. ASSUME NEW a, IsZero(i, k, a) PROVE Searched(k, q)[i] \subseteq Everything
  <2>1. a \in DOMAIN ZeroFor(k) /\ Searched(k, q)[i] = ZeroFor(k)[a]
    BY <1>2, PlacesAre DEF IsZero
  <2>2. ZeroFor(k)[a] \in FilesAt(v, 0)
    BY <2>1, ZeroForIs
  <2>3. 0 \in 0..(NumLevels - 1)
    BY Levels
  <2> QED BY <2>1, <2>2, <2>3, EverythingHas
<1>3. ASSUME NEW n, IsDeep(i, k, n) PROVE Searched(k, q)[i] \subseteq Everything
  <2>1. n \in 1..(NumLevels - 1) /\ Searched(k, q)[i] = UNION FindFile(v.deep[n], k, q)
    BY <1>3, PlacesAre DEF IsDeep
  <2>2. n \in 0..(NumLevels - 1) /\ FindFile(v.deep[n], k, q) \subseteq FilesAt(v, n)
    BY <2>1 DEF FindFile, FilesAt
  <2>3. \A e \in UNION FindFile(v.deep[n], k, q) : \E t \in FilesAt(v, n) : e \in t
    BY <2>2
  <2> QED BY <2>1, <2>2, <2>3, EverythingHas
<1> QED BY <1>1, <1>2, <1>3, PlacesAre

(* The first place with an entry that the reader may see has the newest.    *)
LEMMA GetFinds ==
  ASSUME TypeInv, AllApart, Order, NEW k, NEW q \in Nat
  PROVE  Get(k, q) = Value(Everything, k, q)
<1> DEFINE P == Searched(k, q)
           hits == {i \in DOMAIN P : Seen(P[i], k, q) # {}}
<1>1. Everything \subseteq Entries /\ Distinct(Everything)
  BY EverythingWas DEF Distinct
<1>2. \A i \in DOMAIN P : P[i] \subseteq Everything
  BY SearchedLess
<1>3. \A e \in Everything : e.key = k /\ e.seq <= q => \E i \in DOMAIN P : e \in P[i]
  BY SearchedFinds
<1>4. \A i, j \in DOMAIN P : i < j => Older(P[j], P[i])
  BY SearchedOlder
<1>5. DOMAIN P \subseteq Nat
  BY PlacesAre, Levels
<1>6. Get(k, q) = IF hits = {} THEN 0
                  ELSE Value(P[CHOOSE i \in hits : \A j \in hits : i <= j], k, q)
  BY DEF Get
<1> HIDE DEF P
<1>7. CASE hits = {}
  <2>1. Seen(Everything, k, q) = {}
    BY <1>3, <1>7 DEF Seen
  <2> QED BY <2>1, <1>6, <1>7 DEF Value
<1>8. CASE hits # {}
  <2>1. \E i \in hits : \A j \in hits : i <= j
    BY <1>5, <1>8, LeastNat
  <2> DEFINE i == CHOOSE i \in hits : \A j \in hits : i <= j
  <2>2. i \in hits /\ \A j \in hits : i <= j
    BY <2>1
  <2>3. Get(k, q) = Value(P[i], k, q)
    BY <1>6, <1>8
  <2> HIDE DEF i
  <2>4. i \in DOMAIN P /\ Seen(P[i], k, q) # {} /\ P[i] \subseteq Everything
        /\ P[i] \subseteq Entries /\ Distinct(P[i])
    BY <2>2, <1>1, <1>2 DEF Distinct
  <2>5. PICK e \in P[i] : Newest(P[i], k, q, e)
    BY <2>4, NewestExists
  <2>6. Value(P[i], k, q) = IF e.del THEN 0 ELSE e.seq
    BY <2>4, <2>5, NewestTells
  <2>7. e \in Everything /\ e.key = k /\ e.seq <= q /\ e.seq \in Nat
    BY <2>4, <2>5 DEF Newest, Seen, Entries
  <2>8. ASSUME NEW d \in Everything, d.key = k, d.seq <= q PROVE d.seq <= e.seq
    <3>1. PICK j \in DOMAIN P : d \in P[j]
      BY <1>3, <2>8
    <3>2. j \in hits
      BY <3>1, <2>8 DEF Seen
    <3>3. i <= j
      BY <3>2, <2>2
    <3>4. CASE j = i
      BY <3>1, <3>4, <2>5, <2>8 DEF Newest, Seen
    <3>5. CASE i < j
      <4>1. Older(P[j], P[i])
        BY <3>5, <2>4, <1>4
      <4>2. d.seq < e.seq /\ d.seq \in Nat
        BY <4>1, <3>1, <2>7, <2>8, <1>1 DEF Older, Entries
      <4> QED BY <4>2, <2>7
    <3> QED BY <3>3, <3>4, <3>5, <1>5, <2>4
  <2>9. Newest(Everything, k, q, e)
    BY <2>7, <2>8 DEF Newest, Seen
  <2>10. Value(Everything, k, q) = IF e.del THEN 0 ELSE e.seq
    BY <2>7, <2>9, <1>1, NewestTells
  <2> QED BY <2>3, <2>6, <2>10
<1> QED BY <1>7, <1>8

(* DBImpl::Get, which stops at the first memtable or table that has the key *)
(* and looks at one table of each lower level, finds what was last written  *)
(* there: at the last sequence number and at every snapshot, whatever has   *)
(* been flushed, moved, merged or dropped meanwhile.                        *)
THEOREM ReadsAgreeHolds ==
  ASSUME Uninterrupted, WholeKeys
  PROVE  Spec => []ReadsAgree
<1>1. ASSUME TypeInv, LevelsInv, ScansAgree PROVE ReadsAgree
  <2> SUFFICES ASSUME NEW k \in Keys, NEW q \in snaps \cup {LastSequence}
               PROVE  Get(k, q) = Value(hist, k, q)
    BY DEF ReadsAgree
  <2>1. PICK r \in Nat : r = q
    BY <1>1, EverythingWas
  <2>2. Get(k, r) = Value(Everything, k, r)
    BY <1>1, GetFinds DEF LevelsInv
  <2> QED BY <1>1, <2>1, <2>2 DEF ScansAgree
<1>2. Spec => [](TypeInv /\ LevelsInv)
  BY LevelsInvHolds
<1>3. Spec => []ScansAgree
  BY ScansAgreeHolds
<1> QED BY <1>1, <1>2, <1>3, PTL
=============================================================================
