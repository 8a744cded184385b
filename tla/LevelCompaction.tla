---------------------------- MODULE LevelCompaction ----------------------------
(***************************************************************************)
(* The levels of the storage engine (Pods/leveldb-library): where the      *)
(* memtable's table goes, which tables a compaction takes and what it      *)
(* drops, manual compactions, snapshots, and the reads that must not       *)
(* notice any of it.                                                       *)
(*                                                                         *)
(* A table is the set of its entries.  What a table weighs is left open:   *)
(* wherever the code compares bytes with a limit, either answer is taken   *)
(* if there are bytes to compare.  Files, errors and crashes are           *)
(* LevelStore's subject.                                                   *)
(***************************************************************************)
EXTENDS Naturals, Sequences, FiniteSets, SequencesExt, Filter

CONSTANTS
    Keys,                \* user keys, in the comparator's order
    NumLevels, MaxMemCompactLevel, L0Trigger,   \* config::k...
    Ranges,              \* what CompactRange is called with: <<begin, end>>
    Deletable,           \* the keys that are ever deleted
    KeysSplit,           \* whether the entries of one key may exceed a file
    MaxWrites, MaxSnapshots                     \* bounds

ASSUME CompactionAssumption ==
    /\ Keys \subseteq Nat
    /\ NumLevels \in Nat \ {0, 1} /\ MaxMemCompactLevel \in 0..(NumLevels - 1)
    /\ L0Trigger \in Nat /\ Ranges \subseteq Keys \X Keys
    /\ Deletable \subseteq Keys /\ KeysSplit \in BOOLEAN
    /\ MaxWrites \in Nat /\ MaxSnapshots \in Nat

VARIABLES
    hist,      \* every entry that was ever written
    mem, imm,  \* mem_, imm_ ({} for NULL)
    v,         \* VersionSet::current_
    snaps,     \* snapshots_; those of one sequence number count as one
    comp,      \* the Compaction that DoCompactionWork is busy with
    man        \* the call of CompactRange, manual_compaction_

vars == <<hist, mem, imm, v, snaps, comp, man>>

Entry == [key : Keys, seq : 1..MaxWrites, del : BOOLEAN]
LastSequence == Cardinality(hist)

(***************************************************************************)
(* Tables and versions.                                                    *)
(***************************************************************************)
\* InternalKeyComparator: a key's newer entries come first.
Before(a, b) == a.key < b.key \/ (a.key = b.key /\ a.seq > b.seq)
Smallest(t) == CHOOSE e \in t : \A d \in t \ {e} : Before(e, d)
Largest(t)  == CHOOSE e \in t : \A d \in t \ {e} : Before(d, e)

\* AfterFile and BeforeFile; the range of user keys of some tables.
Meets(t, r) == Largest(t).key >= r[1] /\ Smallest(t).key <= r[2]
GetRange(F) == <<Smallest(UNION F).key, Largest(UNION F).key>>

\* files_[n]: level 0 in the order of the files' numbers.
FilesAt(w, n) == IF n = 0 THEN Range(w.l0) ELSE w.deep[n]
OverlapInLevel(w, n, r) == \E t \in FilesAt(w, n) : Meets(t, r)

\* Level 0's tables may overlap: there the range grows until every table
\* that meets it lies within.
Grown_Not(F, r) == r
Grown(F, r) ==
    LET Closed(s) == /\ s[1] <= r[1] /\ r[2] <= s[2]
                     /\ \A t \in F : Meets(t, s) =>
                          s[1] <= Smallest(t).key /\ Largest(t).key <= s[2]
    IN  CHOOSE s \in Keys \X Keys :
          /\ Closed(s)
          /\ \A u \in Keys \X Keys : Closed(u) => u[1] <= s[1] /\ s[2] <= u[2]

GetOverlappingInputs(w, n, r) ==
    LET F == FilesAt(w, n)
        s == IF n = 0 THEN Grown(F, r) ELSE r
    IN  {t \in F : Meets(t, s)}

\* A new version without the tables of gone, with those of add.
Edited(w, n, gone, m, add) ==
    [l0 |-> LET kept == Only(w.l0, FilesAt(w, 0) \ gone)
            IN  IF m = 0 THEN kept \o SetToSeq(add) ELSE kept,
     deep |-> [i \in 1..(NumLevels - 1) |->
                  (w.deep[i] \ gone) \cup (IF i = m THEN add ELSE {})]]

(***************************************************************************)
(* Reads.  An entry is found by its key and the reader's sequence number.  *)
(***************************************************************************)
Seen(S, k, q) == {e \in S : e.key = k /\ e.seq <= q}

\* e is what a reader of k at q must find in S.
Newest(S, k, q, e) ==
    e \in Seen(S, k, q) /\ \A d \in Seen(S, k, q) : d.seq <= e.seq

\* The sequence number that tells the value, 0 for a key that is not there.
Value(S, k, q) ==
    IF Seen(S, k, q) = {} THEN 0
    ELSE LET e == CHOOSE e \in S : Newest(S, k, q, e)
         IN  IF e.del THEN 0 ELSE e.seq

\* FindFile: the first table of a sorted level that does not end before
\* the reader's place.  The next table is not looked at.
FindFile(F, k, q) ==
    LET ahead == {t \in F : ~Before(Largest(t), [key |-> k, seq |-> q])}
    IN  {t \in ahead : \A u \in ahead \ {t} : Before(Smallest(t), Smallest(u))}

\* DBImpl::Get and Version::Get: the places that are searched, in order.
Searched(k, q) ==
    LET zero == Only(v.l0, {t \in FilesAt(v, 0) : Meets(t, <<k, k>>)})
        deep == [n \in 1..(NumLevels - 1) |-> UNION FindFile(v.deep[n], k, q)]
    IN  <<mem, imm>> \o Reverse(zero) \o deep

Get(k, q) ==
    LET places == Searched(k, q)
        hits == {i \in DOMAIN places : Seen(places[i], k, q) # {}}
    IN  IF hits = {} THEN 0
        ELSE Value(places[CHOOSE i \in hits : \A j \in hits : i <= j], k, q)

\* What DBIter merges.
Everything == mem \cup imm \cup UNION UNION {FilesAt(v, n) : n \in 0..(NumLevels - 1)}

(***************************************************************************)
(* Where a table goes.                                                     *)
(***************************************************************************)
\* Version::PickLevelForMemTableOutput: down past every level that it does
\* not overlap, unless too much lies under it.
PickLevelForMemTableOutput_Unchecked(w, t) == 0..MaxMemCompactLevel
PickLevelForMemTableOutput(w, t) ==
    LET Clear(n) == ~OverlapInLevel(w, n, GetRange({t}))
    IN  IF ~Clear(0) THEN {0}
        ELSE {n \in 0..MaxMemCompactLevel :
                /\ \A m \in 1..n : Clear(m)
                /\ \/ n = MaxMemCompactLevel
                   \/ ~Clear(n + 1)
                   \/ n + 2 < NumLevels /\ ~Clear(n + 2)}

\* VersionSet::SetupOtherInputs: the tables of the next level, and more of
\* this one if that takes no more of the next.
SetupOtherInputs(w, n, in0) ==
    LET in1  == GetOverlappingInputs(w, n + 1, GetRange(in0))
        exp0 == GetOverlappingInputs(w, n, GetRange(in0 \cup in1))
        exp1 == GetOverlappingInputs(w, n + 1, GetRange(exp0))
    IN  {<<in0, in1>>} \cup
        {p \in {<<exp0, exp1>>} :
            /\ in1 # {} /\ Cardinality(exp0) > Cardinality(in0)
            /\ Cardinality(exp1) = Cardinality(in1)}

\* Compaction::IsTrivialMove, by weight.
MayMove(p) == Cardinality(p[1]) = 1 /\ p[2] = {}
MustMove(n, p) ==
    MayMove(p) /\ (n + 2 < NumLevels => ~OverlapInLevel(v, n + 2, GetRange(p[1])))

(***************************************************************************)
(* What a compaction keeps.                                                *)
(***************************************************************************)
\* Compaction::IsBaseLevelForKey, of the version the compaction began with.
IsBaseLevelForKey_Always(n, k) == TRUE
IsBaseLevelForKey(n, k) ==
    \A m \in (n + 2)..(NumLevels - 1) : ~OverlapInLevel(v, m, <<k, k>>)

\* DoCompactionWork's loop.  Rule (A): hidden by a newer entry that every
\* snapshot sees; and a deletion that hides nothing.
Hidden(S, small, e) ==
    \E d \in S : d.key = e.key /\ e.seq < d.seq /\ d.seq <= small
Obsolete(small, base, e) == e.del /\ e.seq <= small /\ e.key \in base
Kept(S, small, base) ==
    {e \in S : ~Hidden(S, small, e) /\ ~Obsolete(small, base, e)}

\* An output file may end after any entry: by its size, or before the next
\* one by ShouldStopBefore.
Outputs(S) ==
    LET Starts == {e \in S : KeysSplit \/ \A d \in S : d.key = e.key => d.seq <= e.seq}
        Of(s, C) == {e \in S : /\ e = s \/ Before(s, e)
                               /\ \A c \in C : Before(s, c) => Before(e, c)}
    IN  IF S = {} THEN {{}}
        ELSE {{Of(s, C \cup {Smallest(S)}) : s \in C \cup {Smallest(S)}} :
                  C \in SUBSET Starts}

(***************************************************************************)
(* The states.                                                             *)
(***************************************************************************)
NoCompaction == [level |-> NumLevels, in0 |-> {}, in1 |-> {}, small |-> 0,
                 base |-> {}, manual |-> FALSE]
NoCall == [stage |-> "no", level |-> 0, max |-> 0, range |-> <<0, 0>>,
           begin |-> 0]

CTypeOK ==
    /\ hist \subseteq Entry /\ mem \subseteq hist /\ imm \subseteq hist
    /\ v.l0 \in Seq((SUBSET hist) \ {{}})
    /\ v.deep \in [1..(NumLevels - 1) -> SUBSET ((SUBSET hist) \ {{}})]
    /\ snaps \subseteq 0..LastSequence
    /\ comp.level \in 0..NumLevels /\ comp.small \in 0..LastSequence
    /\ comp.level < NumLevels =>
         /\ comp.in0 # {} /\ comp.in0 \subseteq FilesAt(v, comp.level)
         /\ comp.in1 \subseteq FilesAt(v, comp.level + 1)
    /\ man.stage \in {"no", "force", "level"}

Init ==
    /\ hist = {} /\ mem = {} /\ imm = {}
    /\ v = [l0 |-> <<>>, deep |-> [n \in 1..(NumLevels - 1) |-> {}]]
    /\ snaps = {} /\ comp = NoCompaction /\ man = NoCall

(***************************************************************************)
(* Writers, readers and the memtable.                                      *)
(***************************************************************************)
Write(k, d) ==
    /\ LastSequence < MaxWrites
    /\ LET e == [key |-> k, seq |-> LastSequence + 1, del |-> d]
       IN  hist' = hist \cup {e} /\ mem' = mem \cup {e}
    /\ UNCHANGED <<imm, v, snaps, comp, man>>

\* A write finds the memtable full, whatever that takes.
MakeRoomForWrite ==
    /\ mem # {} /\ imm = {}
    /\ imm' = mem /\ mem' = {}
    /\ UNCHANGED <<hist, v, snaps, comp, man>>

GetSnapshot ==
    /\ Cardinality(snaps) < MaxSnapshots
    /\ snaps' = snaps \cup {LastSequence}
    /\ UNCHANGED <<hist, mem, imm, v, comp, man>>

ReleaseSnapshot(q) ==
    /\ q \in snaps
    /\ snaps' = snaps \ {q}
    /\ UNCHANGED <<hist, mem, imm, v, comp, man>>

\* By the background thread when it has nothing else to do, and from inside
\* DoCompactionWork's loop.
CompactMemTable ==
    /\ imm # {}
    /\ \E n \in PickLevelForMemTableOutput(v, imm) :
          v' = Edited(v, n, {}, n, {imm})
    /\ imm' = {}
    /\ UNCHANGED <<hist, mem, snaps, comp, man>>

(***************************************************************************)
(* BackgroundCompaction.                                                   *)
(***************************************************************************)
Idle_Busy == imm = {}
Idle == comp = NoCompaction /\ imm = {}

\* DoCompactionWork begins: from now on the inputs, the smallest snapshot
\* and the version below are fixed, though the mutex is given up.
SmallestSnapshot_Newest == LastSequence
SmallestSnapshot ==
    IF snaps = {} THEN LastSequence ELSE CHOOSE q \in snaps : \A r \in snaps : q <= r
Begun(n, p, manual) ==
    comp' = [level |-> n, in0 |-> p[1], in1 |-> p[2], small |-> SmallestSnapshot,
             base |-> {k \in Keys : IsBaseLevelForKey(n, k)}, manual |-> manual]

\* VersionSet::PickCompaction: a level that is too large, its next table by
\* compact_pointer_ (any may be); or a table that reads had to pass by.
Picked(n, t) ==
    /\ t \in FilesAt(v, n)
    /\ \/ n > 0 \/ Len(v.l0) >= L0Trigger
       \/ \E m \in 0..(NumLevels - 1) :
            \E u \in FilesAt(v, m) \ {t} : Meets(u, GetRange({t}))
PickedInputs(n, t) ==
    IF n = 0 THEN GetOverlappingInputs(v, 0, GetRange({t})) ELSE {t}

PickCompaction(n, t) ==
    /\ Idle /\ Picked(n, t)
    /\ \E p \in SetupOtherInputs(v, n, PickedInputs(n, t)) :
          ~MustMove(n, p) /\ Begun(n, p, FALSE)
    /\ UNCHANGED <<hist, mem, imm, v, snaps, man>>

TrivialMove(n, t) ==
    /\ Idle /\ Picked(n, t)
    /\ \E p \in SetupOtherInputs(v, n, PickedInputs(n, t)) :
          MayMove(p) /\ v' = Edited(v, n, p[1], n + 1, p[1])
    /\ UNCHANGED <<hist, mem, imm, snaps, comp, man>>

\* The next pass over the range begins where this one's last table ended.
AfterPass(in0) ==
    LET last == CHOOSE t \in in0 : \A u \in in0 \ {t} : Before(Smallest(u), Smallest(t))
    IN  [man EXCEPT !.begin = Largest(last).key]

InstallCompactionResults ==
    /\ comp # NoCompaction
    /\ \E out \in Outputs(Kept(UNION (comp.in0 \cup comp.in1), comp.small, comp.base)) :
          v' = Edited(v, comp.level, comp.in0 \cup comp.in1, comp.level + 1, out)
    /\ man' = IF comp.manual THEN AfterPass(comp.in0) ELSE man
    /\ comp' = NoCompaction
    /\ UNCHANGED <<hist, mem, imm, snaps>>

(***************************************************************************)
(* DBImpl::CompactRange.                                                   *)
(***************************************************************************)
CompactRange(r) ==
    /\ man.stage = "no"
    /\ LET held == {n \in 1..(NumLevels - 1) : OverlapInLevel(v, n, r)}
       IN  man' = [stage |-> "force", level |-> 0,
                   max |-> CHOOSE n \in held \cup {1} : \A m \in held : m <= n,
                   range |-> r, begin |-> r[1]]
    /\ UNCHANGED <<hist, mem, imm, v, snaps, comp>>

\* TEST_CompactMemTable.
ForceMemTable ==
    /\ man.stage = "force" /\ imm = {}
    /\ imm' = mem /\ mem' = {}
    /\ man' = [man EXCEPT !.stage = "level"]
    /\ UNCHANGED <<hist, v, snaps, comp>>

\* TEST_CompactRange hands its request to the background thread, which takes
\* a part of it: beyond level 0 the first tables, until their bytes suffice.
\* manual_compaction_ is empty between two passes, until the caller has
\* woken, so another compaction may come first.
ManualInputs == GetOverlappingInputs(v, man.level, <<man.begin, man.range[2]>>)
Parts(F) ==
    {P \in (SUBSET F) \ {{}} : \A t \in P, u \in F : Before(Smallest(u), Smallest(t)) => u \in P}

ManualCompaction ==
    /\ Idle /\ man.stage = "level" /\ ManualInputs # {}
    /\ \E in0 \in IF man.level = 0 THEN {ManualInputs} ELSE Parts(ManualInputs) :
         \E p \in SetupOtherInputs(v, man.level, in0) : Begun(man.level, p, TRUE)
    /\ UNCHANGED <<hist, mem, imm, v, snaps, man>>

\* Nothing is left of the range at this level.
ManualDone ==
    /\ Idle /\ man.stage = "level" /\ ManualInputs = {}
    /\ man' = IF man.level + 1 < man.max
              THEN [man EXCEPT !.level = @ + 1, !.begin = man.range[1]]
              ELSE NoCall
    /\ UNCHANGED <<hist, mem, imm, v, snaps, comp>>

Next ==
    \/ \E k \in Keys : Write(k, FALSE) \/ (k \in Deletable /\ Write(k, TRUE))
    \/ MakeRoomForWrite
    \/ GetSnapshot \/ \E q \in snaps : ReleaseSnapshot(q)
    \/ CompactMemTable
    \/ \E n \in 0..(NumLevels - 2) : \E t \in FilesAt(v, n) :
          PickCompaction(n, t) \/ TrivialMove(n, t)
    \/ InstallCompactionResults
    \/ \E r \in Ranges : CompactRange(r)
    \/ ForceMemTable \/ ManualCompaction \/ ManualDone

Spec == Init /\ [][Next]_vars

(***************************************************************************)
(* Properties.                                                             *)
(***************************************************************************)
\* The tables of a level below 0 do not overlap, so that a binary search
\* finds the one that can have a key.
LevelsDisjoint ==
    \A n \in 1..(NumLevels - 1) : \A t, u \in v.deep[n] :
        t # u => Before(Largest(t), Smallest(u)) \/ Before(Largest(u), Smallest(t))

\* A reader of any key, at the last sequence number or at a snapshot, finds
\* what was last written there, whatever has been flushed, moved, merged or
\* dropped meanwhile.
ReadsAgree ==
    \A k \in Keys, q \in snaps \cup {LastSequence} : Get(k, q) = Value(hist, k, q)

\* A compaction drops what no reader needs: its smallest snapshot, taken
\* when it began, stays at or below every snapshot and the last sequence
\* number, whatever is written, taken or released while it runs.
ReadersAboveSmall == \A q \in snaps \cup {LastSequence} : comp.small <= q

\* So does an iterator, which merges every table.
ScansAgree ==
    \A k \in Keys, q \in snaps \cup {LastSequence} :
        Value(Everything, k, q) = Value(hist, k, q)
================================================================================
