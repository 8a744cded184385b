------------------------- MODULE LevelIteratorProofs -------------------------
(* Theorems about LevelIterator, for any keys, tables and bound: an         *)
(* iterator is a cursor on one map that does not change while it is used,   *)
(* whatever is written meanwhile.                                           *)
EXTENDS LevelIterator, FiniteOrder

-----------------------------------------------------------------------------
(* The inductive invariant.                                                 *)

(* What is written: entries with sequence numbers of their own, none beyond *)
(* the last.                                                                *)
StoreInv ==
    /\ entries \in [Children -> SUBSET Entry]
    /\ last \in 0..MaxSeq /\ sequence \in 0..last
    /\ \A e \in All : e.seq <= last
    /\ \A c, d \in Children : \A e \in entries[c], f \in entries[d] :
          e.seq = f.seq => e = f /\ c = d

(* Every child is at one of its entries, or nowhere.                        *)
Places(p) ==
    /\ p \in [Children -> Entry \cup {NoEntry}]
    /\ \A c \in Children : p[c] # NoEntry => p[c] \in entries[c]
PlaceInv ==
    /\ Places(pos)
    /\ cur \in Children \cup {NoChild}
    /\ cur # NoChild => pos[cur] # NoEntry

(* The keys among which the call looks.                                     *)
Wanted(k) ==
    /\ call.op = "seek" => call.key <= k
    /\ call.op = "next" => from[1] < k
    /\ call.op = "prev" => k < from[1]

MarkInv ==
    /\ heading \in {"forward", "reverse"} /\ direction \in {"forward", "reverse"}
    /\ saved \in [key : Keys \cup {0}, value : 0..MaxSeq]
    /\ valid \in BOOLEAN /\ skipping \in BOOLEAN /\ deletion \in BOOLEAN
    /\ pc \in {"idle", "forward", "backward", "leave", "turnnext", "turnprev"}
    /\ call \in [op : {"none", "first", "last", "seek", "next", "prev"},
                 key : Keys \cup {0}]
    /\ from \in (Keys \cup {0}) \X (0..MaxSeq)
    /\ pc = "idle" <=> call.op = "none"
    /\ pc = "idle" => call.key = 0
    /\ pc = "forward" => call.op \in {"first", "seek", "next"}
    /\ pc = "backward" => call.op \in {"last", "prev"}
    /\ pc = "turnnext" => call.op = "next"
    /\ pc \in {"turnprev", "leave"} => call.op = "prev"

(* The merging iterator: the current child is the first in its direction,   *)
(* and no child has passed by a readable entry that lies beyond it.         *)
Leads ==
    /\ cur = NoChild => \A c \in Children : pos[c] = NoEntry
    /\ \A c \in Children : pos[c] # NoEntry /\ c # cur =>
          /\ heading = "forward" => Before(Current, pos[c])
          /\ heading = "reverse" => Before(pos[c], Current)
Reaches ==
    \A c \in Children : \A e \in entries[c] : Readable(e) /\ cur # NoChild =>
        /\ heading = "forward" /\ Before(Current, e) =>
              pos[c] # NoEntry /\ ~Before(e, pos[c])
        /\ heading = "reverse" /\ Before(e, Current) =>
              pos[c] # NoEntry /\ ~Before(pos[c], e)
WayInv ==
    /\ pc \notin {"turnnext", "turnprev"} => Leads
    /\ pc \notin {"turnnext", "turnprev", "leave"} => Reaches

(* What the merging iterator has yet to meet, forwards and in reverse.      *)
Ahead1(e)  == cur # NoChild /\ ~Before(e, Current)
Behind1(e) == cur # NoChild /\ ~Before(Current, e)

IdleInv ==
    pc = "idle" /\ valid =>
        /\ direction = "forward" => heading = "forward" /\ cur # NoChild
        /\ direction = "reverse" =>
              /\ heading = "reverse" /\ saved.key \in Keys
              /\ Current.key < saved.key
              /\ \A e \in All : Readable(e) /\ e.key < saved.key => Behind1(e)

(* Forwards: of what has been passed nothing is to be returned, and neither *)
(* is anything that is skipped; all the rest is wanted.                     *)
ForwardInv ==
    pc = "forward" =>
        /\ heading = "forward" /\ direction = "forward"
        /\ \A e \in All : Readable(e) /\ Wanted(e.key) /\ ~Ahead1(e) =>
              skipping /\ e.key <= saved.key
        /\ skipping => \A k \in DOMAIN View : Wanted(k) => saved.key < k
        /\ \A e \in All : Readable(e) /\ Ahead1(e) /\ ~Hidden(e) => Wanted(e.key)
        /\ skipping => \A e \in All : Readable(e) /\ Ahead1(e) => saved.key <= e.key

(* In reverse: f, the last entry met, is what is saved; of all the others   *)
(* that are to be shown none has been passed.                               *)
Saved(f) ==
    /\ Readable(f) /\ ~f.del /\ Wanted(f.key) /\ ~Behind1(f)
    /\ saved = [key |-> f.key, value |-> f.seq]
    /\ \A e \in All : Readable(e) /\ Wanted(e.key) /\ ~Behind1(e) => ~Before(e, f)
    /\ \A e \in Shown : Wanted(e.key) /\ ~Behind1(e) => e = f
BackwardInv ==
    pc = "backward" =>
        /\ heading = "reverse" /\ direction = "reverse"
        /\ \A e \in All : Readable(e) /\ Behind1(e) => Wanted(e.key)
        /\ deletion => \A e \in Shown : Wanted(e.key) => Behind1(e)
        /\ ~deletion => \E f \in All : Saved(f)

(* Turning round.                                                           *)
TurnInv ==
    /\ pc \in {"turnnext", "turnprev"} => cur # NoChild /\ saved.key = from[1]
    /\ pc = "turnnext" =>
          /\ direction = "forward" /\ skipping
          /\ \A c \in Children \ {cur} : pos[c] # NoEntry => Before(Current, pos[c])
          /\ \A c \in Children \ {cur} : \A e \in entries[c] :
                Readable(e) /\ Before(Current, e) => pos[c] # NoEntry /\ ~Before(e, pos[c])
          /\ \A e \in All : Readable(e) => (e.key < saved.key <=> ~Before(Current, e))
    /\ pc = "turnprev" =>
          /\ Current.key = saved.key
          /\ \A c \in Children : pos[c] # NoEntry => saved.key <= pos[c].key
    /\ pc = "leave" =>
          /\ saved.key = from[1] /\ heading = "reverse"
          /\ \A c \in Children : \A e \in entries[c] : Readable(e) /\ e.key < saved.key =>
                cur # NoChild /\ pos[c] # NoEntry /\ ~Before(pos[c], e)

IInv == /\ StoreInv /\ PlaceInv /\ MarkInv /\ WayInv
        /\ IdleInv /\ ForwardInv /\ BackwardInv /\ TurnInv

-----------------------------------------------------------------------------
(* Order.                                                                   *)

LEMMA EntryFacts ==
  /\ \A e \in Entry : e.key \in Keys /\ e.key \in Nat /\ e.key > 0 /\ e.seq \in Nat
                      /\ e.seq \in 1..MaxSeq /\ e.del \in BOOLEAN /\ e # NoEntry
  /\ NoEntry.key = 0 /\ NoEntry.seq = 0
  /\ NoChild \notin Children
<1>1. \A e \in Entry : e.key \in Keys /\ e.seq \in 1..MaxSeq /\ e.del \in BOOLEAN
  BY DEF Entry
<1>2. ASSUME NEW e \in Entry PROVE e.key \in Nat /\ e.key > 0 /\ e.seq \in Nat
  <2>1. e.key \in Nat \ {0} /\ e.seq \in 1..MaxSeq /\ MaxSeq \in Nat
    BY <1>1, IteratorAssumption
  <2> QED BY <2>1
<1>3. NoEntry.key = 0 /\ NoEntry.seq = 0
  BY DEF NoEntry
<1>5. \A e \in Entry : e # NoEntry
  BY <1>2, <1>3
<1>4. NoChild \notin Children
  BY IteratorAssumption DEF NoChild, Children, Memtable
<1> QED BY <1>1, <1>2, <1>3, <1>4, <1>5

LEMMA BeforeOrder ==
  /\ \A a, b \in Entry : Before(a, b) => ~Before(b, a) /\ a.key <= b.key
  /\ \A a \in Entry : ~Before(a, a)
  /\ \A a, b, c \in Entry : Before(a, b) /\ Before(b, c) => Before(a, c)
  /\ \A a, b, c \in Entry : ~Before(a, b) /\ ~Before(b, c) => ~Before(a, c)
  /\ \A a, b \in Entry : a.key < b.key => Before(a, b)
  /\ \A a, b \in Entry : ~Before(a, b) /\ ~Before(b, a) => a.seq = b.seq
  /\ \A a, b \in Entry : a.key = b.key => (Before(a, b) <=> b.seq < a.seq)
BY EntryFacts DEF Before

LEMMA AllFacts ==
  ASSUME StoreInv
  PROVE  /\ \A e \in All : e \in Entry /\ \E c \in Children : e \in entries[c]
         /\ \A c \in Children : entries[c] \subseteq All
         /\ \A e, f \in All : e.seq = f.seq => e = f
         /\ \A e, f \in All : e # f => Before(e, f) \/ Before(f, e)
         /\ \A c, d \in Children : \A e \in entries[c] : e \in entries[d] => c = d
<1>1. \A e \in All : e \in Entry /\ \E c \in Children : e \in entries[c]
  BY DEF StoreInv, All
<1>2. \A c \in Children : entries[c] \subseteq All
  BY DEF All
<1>3. \A e, f \in All : e.seq = f.seq => e = f
  BY <1>1 DEF StoreInv
<1>4. \A e, f \in All : e # f => Before(e, f) \/ Before(f, e)
  BY <1>1, <1>3, BeforeOrder
<1>5. \A c, d \in Children : \A e \in entries[c] : e \in entries[d] => c = d
  BY DEF StoreInv
<1> QED BY <1>1, <1>2, <1>3, <1>4, <1>5

(* There are no more entries than sequence numbers.                         *)
LEMMA AllFinite == ASSUME StoreInv PROVE IsFiniteSet(All)
<1> DEFINE f == [e \in All |-> e.seq]
<1>1. IsFiniteSet(1..MaxSeq)
  BY IteratorAssumption, FS_Interval
<1>2. f \in Injection(All, 1..MaxSeq)
  BY AllFacts, EntryFacts DEF Injection, IsInjective
<1> QED BY <1>1, <1>2, FS_Injection

LEMMA LeastOf ==
  ASSUME StoreInv, NEW S, S \subseteq All
  PROVE  /\ S = {} => Least(S) = NoEntry
         /\ S # {} => Least(S) \in S /\ \A d \in S : ~Before(d, Least(S))
<1>1. CASE S # {}
  <2> DEFINE R == {r \in S \X S : Before(r[1], r[2])}
  <2>1. IsFiniteSet(S)
    BY AllFinite, FS_Subset
  <2>2. S \subseteq Entry /\ \A a, b \in S : a # b => Before(a, b) \/ Before(b, a)
    BY AllFacts
  <2>3. \A a, b \in S : <<a, b>> \in R <=> Before(a, b)
    OBVIOUS
  <2>4. TotalOn(R, S)
    <3> HIDE DEF R
    <3> QED BY <2>2, <2>3, BeforeOrder DEF TotalOn
  <2>5. \E m \in S : \A d \in S \ {m} : <<m, d>> \in R
    <3> HIDE DEF R
    <3> QED BY <1>1, <2>1, <2>4, FiniteLeast
  <2>6. \E m \in S : \A d \in S \ {m} : Before(m, d)
    BY <2>3, <2>5
  <2>7. Least(S) \in S /\ \A d \in S \ {Least(S)} : Before(Least(S), d)
    BY <1>1, <2>6 DEF Least
  <2> QED BY <1>1, <2>2, <2>7, BeforeOrder
<1>2. CASE S = {}
  BY <1>2 DEF Least
<1> QED BY <1>1, <1>2

LEMMA GreatestOf ==
  ASSUME StoreInv, NEW S, S \subseteq All
  PROVE  /\ S = {} => Greatest(S) = NoEntry
         /\ S # {} => Greatest(S) \in S /\ \A d \in S : ~Before(Greatest(S), d)
<1>1. CASE S # {}
  <2> DEFINE R == {r \in S \X S : Before(r[2], r[1])}
  <2>1. IsFiniteSet(S)
    BY AllFinite, FS_Subset
  <2>2. S \subseteq Entry /\ \A a, b \in S : a # b => Before(a, b) \/ Before(b, a)
    BY AllFacts
  <2>3. \A a, b \in S : <<a, b>> \in R <=> Before(b, a)
    OBVIOUS
  <2>4. TotalOn(R, S)
    <3> HIDE DEF R
    <3> QED BY <2>2, <2>3, BeforeOrder DEF TotalOn
  <2>5. \E m \in S : \A d \in S \ {m} : <<m, d>> \in R
    <3> HIDE DEF R
    <3> QED BY <1>1, <2>1, <2>4, FiniteLeast
  <2>6. \E m \in S : \A d \in S \ {m} : Before(d, m)
    BY <2>3, <2>5
  <2>7. Greatest(S) \in S /\ \A d \in S \ {Greatest(S)} : Before(d, Greatest(S))
    BY <1>1, <2>6 DEF Greatest
  <2> QED BY <1>1, <2>2, <2>7, BeforeOrder
<1>2. CASE S = {}
  BY <1>2 DEF Greatest
<1> QED BY <1>1, <1>2

(* So does FindSmallest, and FindLargest, find the first child.             *)
LEMMA SomewhereTotal ==
  ASSUME StoreInv, NEW p, Places(p)
  PROVE  /\ IsFiniteSet(Somewhere(p))
         /\ \A c, d \in Somewhere(p) : /\ p[c] \in Entry
                                       /\ c # d => Before(p[c], p[d]) \/ Before(p[d], p[c])
<1> DEFINE S == Somewhere(p)
           f == [c \in S |-> p[c].seq]
<1>1. \A c \in S : c \in Children /\ p[c] \in entries[c] /\ p[c] \in Entry /\ p[c] \in All
  BY AllFacts DEF Somewhere, Places
<1>2. \A c, d \in S : p[c].seq = p[d].seq => c = d
  BY <1>1 DEF StoreInv
<1>3. f \in Injection(S, 1..MaxSeq)
  <2> HIDE DEF S
  <2> QED BY <1>1, <1>2, EntryFacts DEF Injection, IsInjective
<1>4. IsFiniteSet(1..MaxSeq)
  BY IteratorAssumption, FS_Interval
<1>5. IsFiniteSet(S)
  BY <1>3, <1>4, FS_Injection
<1>6. \A c, d \in S : c # d => Before(p[c], p[d]) \/ Before(p[d], p[c])
  BY <1>1, <1>2, AllFacts
<1> QED BY <1>1, <1>5, <1>6

LEMMA SmallestOf ==
  ASSUME StoreInv, NEW p, Places(p)
  PROVE  /\ FindSmallest(p) \in Children \cup {NoChild}
         /\ FindSmallest(p) = NoChild => \A c \in Children : p[c] = NoEntry
         /\ FindSmallest(p) # NoChild =>
              /\ p[FindSmallest(p)] # NoEntry
              /\ \A c \in Children : p[c] # NoEntry /\ c # FindSmallest(p) =>
                    Before(p[FindSmallest(p)], p[c])
<1> DEFINE S == Somewhere(p)
           R == {r \in S \X S : Before(p[r[1]], p[r[2]])}
<1>0. S \subseteq Children /\ \A c \in Children : c \in S <=> p[c] # NoEntry
  BY DEF Somewhere
<1>1. CASE S # {}
  <2>1. IsFiniteSet(S) /\ \A a \in S : p[a] \in Entry
    BY SomewhereTotal
  <2>2. \A a, b \in S : a # b => Before(p[a], p[b]) \/ Before(p[b], p[a])
    BY SomewhereTotal
  <2>3. \A a, b \in S : <<a, b>> \in R <=> Before(p[a], p[b])
    OBVIOUS
  <2>4. TotalOn(R, S)
    <3> HIDE DEF R, S
    <3> QED BY <2>1, <2>2, <2>3, BeforeOrder DEF TotalOn
  <2>5. \E m \in S : \A d \in S \ {m} : <<m, d>> \in R
    <3> HIDE DEF R, S
    <3> QED BY <1>1, <2>1, <2>4, FiniteLeast
  <2>6. \E m \in S : \A d \in S \ {m} : Before(p[m], p[d])
    <3> HIDE DEF R, S
    <3> QED BY <2>3, <2>5
  <2>7. FindSmallest(p) \in S /\ \A d \in S \ {FindSmallest(p)} : Before(p[FindSmallest(p)], p[d])
    BY <1>1, <2>6 DEF FindSmallest
  <2> HIDE DEF S
  <2> QED BY <1>0, <1>1, <2>7, EntryFacts
<1>2. CASE S = {}
  <2>1. FindSmallest(p) = NoChild
    BY <1>2 DEF FindSmallest
  <2> QED BY <1>0, <1>2, <2>1
<1> QED BY <1>1, <1>2

LEMMA LargestOf ==
  ASSUME StoreInv, NEW p, Places(p)
  PROVE  /\ FindLargest(p) \in Children \cup {NoChild}
         /\ FindLargest(p) = NoChild => \A c \in Children : p[c] = NoEntry
         /\ FindLargest(p) # NoChild =>
              /\ p[FindLargest(p)] # NoEntry
              /\ \A c \in Children : p[c] # NoEntry /\ c # FindLargest(p) =>
                    Before(p[c], p[FindLargest(p)])
<1> DEFINE S == Somewhere(p)
           R == {r \in S \X S : Before(p[r[2]], p[r[1]])}
<1>0. S \subseteq Children /\ \A c \in Children : c \in S <=> p[c] # NoEntry
  BY DEF Somewhere
<1>1. CASE S # {}
  <2>1. IsFiniteSet(S) /\ \A a \in S : p[a] \in Entry
    BY SomewhereTotal
  <2>2. \A a, b \in S : a # b => Before(p[a], p[b]) \/ Before(p[b], p[a])
    BY SomewhereTotal
  <2>3. \A a, b \in S : <<a, b>> \in R <=> Before(p[b], p[a])
    OBVIOUS
  <2>4. TotalOn(R, S)
    <3> HIDE DEF R, S
    <3> QED BY <2>1, <2>2, <2>3, BeforeOrder DEF TotalOn
  <2>5. \E m \in S : \A d \in S \ {m} : <<m, d>> \in R
    <3> HIDE DEF R, S
    <3> QED BY <1>1, <2>1, <2>4, FiniteLeast
  <2>6. \E m \in S : \A d \in S \ {m} : Before(p[d], p[m])
    <3> HIDE DEF R, S
    <3> QED BY <2>3, <2>5
  <2>7. FindLargest(p) \in S /\ \A d \in S \ {FindLargest(p)} : Before(p[d], p[FindLargest(p)])
    BY <1>1, <2>6 DEF FindLargest
  <2> HIDE DEF S
  <2> QED BY <1>0, <1>1, <2>7, EntryFacts
<1>2. CASE S = {}
  <2>1. FindLargest(p) = NoChild
    BY <1>2 DEF FindLargest
  <2> QED BY <1>0, <1>2, <2>1
<1> QED BY <1>1, <1>2

-----------------------------------------------------------------------------
(* How the merging iterator moves.                                          *)

LEMMA SameStore ==
  ASSUME StoreInv, UNCHANGED store
  PROVE  /\ StoreInv' /\ All' = All /\ Shown' = Shown /\ View' = View
         /\ entries' = entries
         /\ \A e : Readable(e)' <=> Readable(e)
<1>1. entries' = entries /\ last' = last /\ sequence' = sequence
  BY DEF store
<1>2. All' = All
  BY <1>1 DEF All
<1>3. \A e : Readable(e)' <=> Readable(e)
  BY <1>1 DEF Readable
<1>4. Shown' = Shown
  BY <1>2, <1>1 DEF Shown, Newest, Readable
<1>5. View' = View
  BY <1>4 DEF View
<1>6. StoreInv'
  BY <1>1, <1>2 DEF StoreInv
<1> QED BY <1>1, <1>2, <1>3, <1>4, <1>5, <1>6

LEMMA CurrentFacts ==
  ASSUME StoreInv, PlaceInv
  PROVE  /\ cur = NoChild => Current = NoEntry
         /\ cur # NoChild => /\ Current = pos[cur] /\ cur \in Children
                             /\ Current \in entries[cur]
                             /\ Current \in All /\ Current \in Entry
BY AllFacts DEF PlaceInv, Places, Current

(* Children placed with Forwards at or before every readable entry of B,    *)
(* and past all the others: B is what is ahead.                             *)
LEMMA ForwardTo ==
  ASSUME StoreInv, UNCHANGED store, NEW p, Places(p), Forwards(p),
         NEW B, B \subseteq All,
         \A c \in Children : \A e \in entries[c] :
             e \in B => p[c] # NoEntry /\ ~Before(e, p[c]),
         \A e \in All : Readable(e) /\ e \notin B =>
             \A c \in Children : p[c] # NoEntry => Before(e, p[c])
  PROVE  /\ PlaceInv' /\ Leads' /\ Reaches' /\ heading' = "forward"
         /\ \A e \in All : Readable(e) => (Ahead1(e)' <=> e \in B)
<1> DEFINE s == FindSmallest(p)
<1>1. pos' = p /\ cur' = s /\ heading' = "forward"
  BY DEF Forwards
<1>2. /\ s \in Children \cup {NoChild}
      /\ s = NoChild => \A c \in Children : p[c] = NoEntry
      /\ s # NoChild => /\ p[s] # NoEntry
                        /\ \A c \in Children : p[c] # NoEntry /\ c # s => Before(p[s], p[c])
  BY SmallestOf
<1> HIDE DEF s
<1>3. Places(p)' /\ entries' = entries
  BY SameStore DEF Places
<1>4. PlaceInv'
  BY <1>1, <1>2, <1>3 DEF PlaceInv, Places
<1>5. s # NoChild => s \in Children /\ Current' = p[s] /\ p[s] \in Entry
  BY <1>1, <1>2 DEF Current, Places
<1>6. Leads'
  BY <1>1, <1>2, <1>5 DEF Leads
<1>7. \A c \in Children : p[c] # NoEntry => s # NoChild /\ ~Before(p[c], p[s])
  BY <1>2, BeforeOrder DEF Places
<1>8. ASSUME NEW e \in All, Readable(e) PROVE Ahead1(e)' <=> e \in B
  <2>1. PICK c \in Children : e \in entries[c]
    BY AllFacts
  <2>2. e \in Entry
    BY AllFacts
  <2>3. ASSUME e \in B PROVE Ahead1(e)'
    <3>1. p[c] # NoEntry /\ ~Before(e, p[c]) /\ p[c] \in Entry
      BY <2>1, <2>3 DEF Places
    <3>2. s # NoChild /\ ~Before(p[c], p[s])
      BY <3>1, <1>7
    <3>3. ~Before(e, p[s])
      BY <2>2, <3>1, <3>2, <1>5, BeforeOrder
    <3> QED BY <3>2, <3>3, <1>1, <1>5 DEF Ahead1
  <2>4. ASSUME e \notin B PROVE ~Ahead1(e)'
    BY <2>4, <1>1, <1>2, <1>5, <1>8 DEF Ahead1
  <2> QED BY <2>3, <2>4
<1>9. Reaches'
  <2> SUFFICES ASSUME NEW c \in Children, NEW e \in entries[c], Readable(e),
                      s # NoChild, Before(p[s], e)
               PROVE  p[c] # NoEntry /\ ~Before(e, p[c])
    BY <1>1, <1>5, SameStore DEF Reaches
  <2>1. e \in All /\ e \in Entry
    BY AllFacts
  <2>2. ~Before(e, p[s])
    BY <2>1, <1>5, BeforeOrder
  <2>3. e \in B
    BY <2>1, <2>2, <1>2, <1>5
  <2> QED BY <2>3
<1> QED BY <1>1, <1>4, <1>6, <1>8, <1>9

(* The same in reverse, except that some children may be further on.        *)
LEMMA BackFrom ==
  ASSUME StoreInv, UNCHANGED store, NEW p, Places(p), Backwards(p),
         NEW B, B \subseteq All,
         \A c \in Children : \A e \in entries[c] :
             e \in B => p[c] # NoEntry /\ ~Before(p[c], e)
  PROVE  /\ PlaceInv' /\ Leads' /\ heading' = "reverse" /\ pos' = p
         /\ \A e \in B : Behind1(e)'
<1> DEFINE s == FindLargest(p)
<1>1. pos' = p /\ cur' = s /\ heading' = "reverse"
  BY DEF Backwards
<1>2. /\ s \in Children \cup {NoChild}
      /\ s = NoChild => \A c \in Children : p[c] = NoEntry
      /\ s # NoChild => /\ p[s] # NoEntry
                        /\ \A c \in Children : p[c] # NoEntry /\ c # s => Before(p[c], p[s])
  BY LargestOf
<1> HIDE DEF s
<1>3. Places(p)' /\ entries' = entries
  BY SameStore DEF Places
<1>4. PlaceInv'
  BY <1>1, <1>2, <1>3 DEF PlaceInv, Places
<1>5. s # NoChild => s \in Children /\ Current' = p[s] /\ p[s] \in Entry
  BY <1>1, <1>2 DEF Current, Places
<1>6. Leads'
  BY <1>1, <1>2, <1>5 DEF Leads
<1>7. \A c \in Children : p[c] # NoEntry => s # NoChild /\ ~Before(p[s], p[c])
  BY <1>2, BeforeOrder DEF Places
<1>8. ASSUME NEW e \in B PROVE Behind1(e)'
  <2>1. PICK c \in Children : e \in entries[c]
    BY AllFacts
  <2>2. e \in Entry
    BY AllFacts
  <2>3. p[c] # NoEntry /\ ~Before(p[c], e) /\ p[c] \in Entry
    BY <2>1 DEF Places
  <2>4. s # NoChild /\ ~Before(p[s], p[c])
    BY <2>3, <1>7
  <2>5. ~Before(p[s], e)
    BY <2>2, <2>3, <2>4, <1>5, BeforeOrder
  <2> QED BY <2>4, <2>5, <1>1, <1>5 DEF Behind1
<1> QED BY <1>1, <1>4, <1>6, <1>8

LEMMA BackTo ==
  ASSUME StoreInv, UNCHANGED store, NEW p, Places(p), Backwards(p),
         NEW B, B \subseteq All,
         \A c \in Children : \A e \in entries[c] :
             e \in B => p[c] # NoEntry /\ ~Before(p[c], e),
         \A e \in All : Readable(e) /\ e \notin B =>
             \A c \in Children : p[c] # NoEntry => Before(p[c], e)
  PROVE  /\ PlaceInv' /\ Leads' /\ Reaches' /\ heading' = "reverse"
         /\ \A e \in All : Readable(e) => (Behind1(e)' <=> e \in B)
<1>1. PlaceInv' /\ Leads' /\ heading' = "reverse" /\ pos' = p /\ \A e \in B : Behind1(e)'
  BY BackFrom
<1>2. cur' # NoChild => /\ cur' \in Children /\ p[cur'] # NoEntry
                        /\ Current' = p[cur'] /\ p[cur'] \in Entry
  BY <1>1 DEF PlaceInv, Places, Current
<1>3. \A e \in All : Readable(e) /\ e \notin B => ~Behind1(e)'
  BY <1>2 DEF Behind1
<1>4. Reaches'
  <2> SUFFICES ASSUME NEW c \in Children, NEW e \in entries[c], Readable(e),
                      cur' # NoChild, Before(e, p[cur'])
               PROVE  p[c] # NoEntry /\ ~Before(p[c], e)
    BY <1>1, <1>2, SameStore DEF Reaches
  <2>1. e \in All /\ e \in Entry
    BY AllFacts
  <2>2. ~Before(p[cur'], e)
    BY <2>1, <1>2, BeforeOrder
  <2>3. e \in B
    BY <2>1, <2>2, <1>2
  <2> QED BY <2>3
<1> QED BY <1>1, <1>3, <1>4

(* A child moved to its first entry at a place, after one, before one.      *)
LEMMA ChildMoves ==
  ASSUME StoreInv, NEW c \in Children
  PROVE  /\ \A x : /\ Sought(c, x) # NoEntry => Sought(c, x) \in entries[c] /\ ~Before(Sought(c, x), x)
                   /\ \A e \in entries[c] : ~Before(e, x) =>
                         Sought(c, x) # NoEntry /\ ~Before(e, Sought(c, x))
         /\ \A x : /\ After(c, x) # NoEntry => After(c, x) \in entries[c] /\ Before(x, After(c, x))
                   /\ \A e \in entries[c] : Before(x, e) =>
                         After(c, x) # NoEntry /\ ~Before(e, After(c, x))
         /\ \A x : /\ Ahead(c, x) # NoEntry => Ahead(c, x) \in entries[c] /\ Before(Ahead(c, x), x)
                   /\ \A e \in entries[c] : Before(e, x) =>
                         Ahead(c, x) # NoEntry /\ ~Before(Ahead(c, x), e)
         /\ Least(entries[c]) # NoEntry => Least(entries[c]) \in entries[c]
         /\ \A e \in entries[c] :
               Least(entries[c]) # NoEntry /\ ~Before(e, Least(entries[c]))
         /\ Greatest(entries[c]) # NoEntry => Greatest(entries[c]) \in entries[c]
         /\ \A e \in entries[c] :
               Greatest(entries[c]) # NoEntry /\ ~Before(Greatest(entries[c]), e)
<1>0. entries[c] \subseteq All /\ \A e \in entries[c] : e # NoEntry
  BY AllFacts, EntryFacts
<1>1. ASSUME NEW S, S \subseteq entries[c]
      PROVE  /\ Least(S) # NoEntry => Least(S) \in S
             /\ \A e \in S : Least(S) # NoEntry /\ ~Before(e, Least(S))
             /\ Greatest(S) # NoEntry => Greatest(S) \in S
             /\ \A e \in S : Greatest(S) # NoEntry /\ ~Before(Greatest(S), e)
  <2>1. S \subseteq All
    BY <1>0, <1>1
  <2> QED BY <1>0, <1>1, <2>1, LeastOf, GreatestOf
<1>2. ASSUME NEW x
      PROVE  /\ Sought(c, x) # NoEntry => Sought(c, x) \in entries[c] /\ ~Before(Sought(c, x), x)
             /\ \A e \in entries[c] : ~Before(e, x) =>
                   Sought(c, x) # NoEntry /\ ~Before(e, Sought(c, x))
  <2> DEFINE S == {d \in entries[c] : ~Before(d, x)}
  <2>1. S \subseteq entries[c] /\ Sought(c, x) = Least(S)
    BY DEF Sought
  <2>2. \A e : e \in S <=> e \in entries[c] /\ ~Before(e, x)
    OBVIOUS
  <2> HIDE DEF S
  <2> QED BY <2>1, <2>2, <1>1
<1>3. ASSUME NEW x
      PROVE  /\ After(c, x) # NoEntry => After(c, x) \in entries[c] /\ Before(x, After(c, x))
             /\ \A e \in entries[c] : Before(x, e) =>
                   After(c, x) # NoEntry /\ ~Before(e, After(c, x))
  <2> DEFINE S == {d \in entries[c] : Before(x, d)}
  <2>1. S \subseteq entries[c] /\ After(c, x) = Least(S)
    BY DEF After
  <2>2. \A e : e \in S <=> e \in entries[c] /\ Before(x, e)
    OBVIOUS
  <2> HIDE DEF S
  <2> QED BY <2>1, <2>2, <1>1
<1>4. ASSUME NEW x
      PROVE  /\ Ahead(c, x) # NoEntry => Ahead(c, x) \in entries[c] /\ Before(Ahead(c, x), x)
             /\ \A e \in entries[c] : Before(e, x) =>
                   Ahead(c, x) # NoEntry /\ ~Before(Ahead(c, x), e)
  <2> DEFINE S == {d \in entries[c] : Before(d, x)}
  <2>1. S \subseteq entries[c] /\ Ahead(c, x) = Greatest(S)
    BY DEF Ahead
  <2>2. \A e : e \in S <=> e \in entries[c] /\ Before(e, x)
    OBVIOUS
  <2> HIDE DEF S
  <2> QED BY <2>1, <2>2, <1>1
<1> QED BY <1>1, <1>2, <1>3, <1>4

-----------------------------------------------------------------------------
(* Every step keeps the invariant.                                          *)

LEMMA PositionFacts ==
  ASSUME IInv, pc = "idle"
  PROVE  /\ Position \in (Keys \cup {0}) \X (0..MaxSeq)
         /\ valid => Position[1] \in Keys
         /\ ~valid => Position = <<0, 0>>
         /\ valid /\ direction = "forward" => Position[1] = Current.key
         /\ valid /\ direction = "reverse" => Position[1] = saved.key
<1>1. 0 \in 0..MaxSeq
  BY IteratorAssumption
<1>2. CASE ~valid
  BY <1>1, <1>2 DEF Position
<1>3. CASE valid /\ direction = "forward"
  <2>1. Current \in Entry
    BY <1>3, CurrentFacts DEF IInv, IdleInv
  <2>2. Current.key \in Keys /\ Current.seq \in 0..MaxSeq
    BY <2>1, EntryFacts
  <2> QED BY <1>3, <2>2 DEF Position
<1>4. CASE valid /\ direction = "reverse"
  <2>1. saved.key \in Keys /\ saved.value \in 0..MaxSeq
    BY <1>4 DEF IInv, IdleInv, MarkInv
  <2> QED BY <1>4, <2>1 DEF Position
<1> QED BY <1>2, <1>3, <1>4 DEF IInv, MarkInv

LEMMA SavedNat == ASSUME MarkInv PROVE saved.key \in Nat /\ from[1] \in Nat
<1>1. saved.key \in Keys \cup {0} /\ from[1] \in Keys \cup {0}
  BY DEF MarkInv
<1>2. ASSUME NEW j \in Keys \cup {0} PROVE j \in Nat
  BY IteratorAssumption
<1> QED BY <1>1, <1>2

(* A write adds an entry that no reader's number reaches and no child is at.*)
LEMMA InsertKeepsStore ==
  ASSUME StoreInv, NEW k \in Keys, NEW del \in BOOLEAN, Insert(k, del)
  PROVE  /\ StoreInv' /\ View' = View /\ Shown' = Shown /\ All \subseteq All'
         /\ \A c \in Children : entries[c] \subseteq entries'[c]
         /\ \A e : Readable(e)' <=> Readable(e)
         /\ \A e \in All' : Readable(e) => e \in All
         /\ \A c \in Children : \A e \in entries'[c] :
               Readable(e) \/ e.seq <= last => e \in entries[c]
<1> DEFINE new == [key |-> k, seq |-> last + 1, del |-> del]
<1>1. last \in Nat /\ sequence \in Nat /\ sequence <= last /\ last + 1 \in 1..MaxSeq
      /\ last' = last + 1 /\ last' \in 0..MaxSeq /\ sequence' \in 0..last'
  BY IteratorAssumption DEF StoreInv, Insert
<1>2. new \in Entry /\ ~Readable(new) /\ sequence' = sequence
  BY <1>1 DEF Entry, Readable, Insert
<1>3. entries' = [entries EXCEPT ![Memtable] = @ \cup {new}]
  BY <1>1 DEF Insert
<1>4. Memtable \in Children
  BY DEF Children
<1> HIDE DEF new
<1>5. /\ entries' \in [Children -> SUBSET Entry]
      /\ \A c \in Children : entries'[c] = IF c = Memtable THEN entries[c] \cup {new}
                                           ELSE entries[c]
  BY <1>2, <1>3, <1>4 DEF StoreInv
<1>6. All' = All \cup {new}
  BY <1>4, <1>5 DEF All
<1>7. \A e : Readable(e)' <=> Readable(e)
  BY <1>2 DEF Readable
<1>8. ASSUME NEW j PROVE Newest(j)' = Newest(j)
  <2>1. \A e : e \in All' /\ Readable(e) <=> e \in All /\ Readable(e)
    BY <1>2, <1>6
  <2> QED BY <2>1, <1>7 DEF Newest
<1>9. Shown' = Shown
  BY <1>8 DEF Shown
<1>10. new.seq = last + 1
  BY DEF new
<1>11. \A e \in All : e.seq \in Nat /\ e.seq <= last
  BY AllFacts, EntryFacts DEF StoreInv
<1>12. \A c, d \in Children : \A e \in entries'[c], f \in entries'[d] :
          e.seq = f.seq => e = f /\ c = d
  <2> SUFFICES ASSUME NEW c \in Children, NEW d \in Children, NEW e \in entries'[c],
                      NEW f \in entries'[d], e.seq = f.seq
               PROVE  e = f /\ c = d
    OBVIOUS
  <2>1. (e \in entries[c] /\ e \in All) \/ (e = new /\ c = Memtable)
    BY <1>5, AllFacts
  <2>2. (f \in entries[d] /\ f \in All) \/ (f = new /\ d = Memtable)
    BY <1>5, AllFacts
  <2>3. \A g \in All : g.seq # new.seq
    BY <1>1, <1>10, <1>11
  <2> QED BY <2>1, <2>2, <2>3 DEF StoreInv
<1>13. StoreInv'
  <2>1. \A e \in All' : e.seq <= last'
    BY <1>1, <1>6, <1>10, <1>11
  <2> QED BY <1>1, <1>5, <1>12, <2>1 DEF StoreInv
<1>14. \A c \in Children : \A e \in entries'[c] :
               Readable(e) \/ e.seq <= last => e \in entries[c]
  BY <1>1, <1>2, <1>5, <1>10
<1> QED BY <1>2, <1>5, <1>6, <1>7, <1>9, <1>13, <1>14 DEF View

LEMMA InsertKeeps ==
  ASSUME IInv, NEW k \in Keys, NEW del \in BOOLEAN, Insert(k, del)
  PROVE  IInv' /\ View' = View
<1> USE DEF IInv
<1>1. UNCHANGED <<sequence, pos, cur, heading, direction, valid, saved, skipping,
                  deletion, pc, call, from>>
  BY DEF Insert, merged, locals
<1>2. /\ StoreInv' /\ View' = View /\ Shown' = Shown /\ All \subseteq All'
      /\ \A c \in Children : entries[c] \subseteq entries'[c]
      /\ \A e : Readable(e)' <=> Readable(e)
      /\ \A e \in All' : Readable(e) => e \in All
      /\ \A c \in Children : \A e \in entries'[c] :
            Readable(e) \/ e.seq <= last => e \in entries[c]
  BY InsertKeepsStore
<1>3. Current' = Current
  BY <1>1 DEF Current
<1>4. /\ \A e : Ahead1(e)' <=> Ahead1(e)
      /\ \A e : Behind1(e)' <=> Behind1(e)
      /\ \A j : Wanted(j)' <=> Wanted(j)
      /\ \A e : Hidden(e)' <=> Hidden(e)
  BY <1>1, <1>3 DEF Ahead1, Behind1, Wanted, Hidden
<1>5. PlaceInv'
  <2>1. Places(pos)'
    BY <1>1, <1>2 DEF PlaceInv, Places
  <2> QED BY <1>1, <2>1 DEF PlaceInv
<1>6. MarkInv'
  BY <1>1 DEF MarkInv
<1>7. WayInv'
  <2>1. Leads => Leads'
    BY <1>1, <1>3 DEF Leads
  <2>2. Reaches => Reaches'
    BY <1>1, <1>2, <1>3 DEF Reaches
  <2> QED BY <1>1, <2>1, <2>2 DEF WayInv
<1>8. IdleInv'
  BY <1>1, <1>2, <1>3, <1>4 DEF IdleInv
<1>9. ForwardInv'
  BY <1>1, <1>2, <1>3, <1>4 DEF ForwardInv
<1>10. BackwardInv'
  <2>1. \A f \in All : Saved(f) => Saved(f)'
    BY <1>1, <1>2, <1>4 DEF Saved
  <2> QED BY <1>1, <1>2, <1>4, <2>1 DEF BackwardInv
<1>11. TurnInv'
  BY <1>1, <1>2, <1>3 DEF TurnInv
<1> QED BY <1>2, <1>5, <1>6, <1>7, <1>8, <1>9, <1>10, <1>11

(* The five operations, up to their first loop.                             *)
LEMMA CalledMark ==
  ASSUME IInv, NEW op \in {"first", "last", "seek", "next", "prev"},
         NEW k \in Keys \cup {0}, Called(op, k)
  PROVE  /\ call'.op = op /\ call'.key = k
         /\ call' \in [op : {"none", "first", "last", "seek", "next", "prev"},
                       key : Keys \cup {0}]
         /\ from' \in (Keys \cup {0}) \X (0..MaxSeq)
         /\ from' = Position /\ pc = "idle"
BY PositionFacts DEF Called

LEMMA SeekToFirstKeeps == ASSUME IInv, SeekToFirst PROVE IInv' /\ UNCHANGED store
<1> USE DEF IInv
<1>1. Called("first", 0) /\ UNCHANGED store
  BY DEF SeekToFirst, Called
<1>2. call'.op = "first" /\ pc' = "forward" /\ direction' = "forward" /\ ~skipping'
  BY <1>1, CalledMark DEF SeekToFirst, FindFirst
<1> DEFINE p == [c \in Children |-> Least(entries[c])]
<1>3. Places(p)
  BY ChildMoves DEF Places, StoreInv
<1>4. Forwards(p)
  BY DEF SeekToFirst
<1>5. \A c \in Children : \A e \in entries[c] : p[c] # NoEntry /\ ~Before(e, p[c])
  BY ChildMoves
<1> HIDE DEF p
<1>6. /\ PlaceInv' /\ Leads' /\ Reaches' /\ heading' = "forward"
      /\ \A e \in All : Readable(e) => (Ahead1(e)' <=> e \in All)
  BY <1>1, <1>3, <1>4, <1>5, ForwardTo
<1>7. StoreInv' /\ All' = All /\ \A e : Readable(e)' <=> Readable(e)
  BY <1>1, SameStore
<1>8. MarkInv'
  <2>1. saved' \in [key : Keys \cup {0}, value : 0..MaxSeq]
    BY IteratorAssumption DEF SeekToFirst, MarkInv
  <2> QED BY <1>1, <1>2, <1>6, <2>1, CalledMark DEF MarkInv, SeekToFirst, FindFirst
<1>9. \A j : Wanted(j)'
  BY <1>2 DEF Wanted
<1>10. ForwardInv'
  BY <1>2, <1>6, <1>7, <1>9 DEF ForwardInv
<1> QED BY <1>1, <1>2, <1>6, <1>7, <1>8, <1>10 DEF WayInv, IdleInv, BackwardInv, TurnInv

LEMMA SeekKeeps ==
  ASSUME IInv, NEW k \in Keys, Seek(k)
  PROVE  IInv' /\ UNCHANGED store
<1> USE DEF IInv
<1>1. Called("seek", k) /\ UNCHANGED store
  BY DEF Seek, Called
<1>2. call'.op = "seek" /\ call'.key = k /\ pc' = "forward" /\ direction' = "forward" /\ ~skipping'
  BY <1>1, CalledMark DEF Seek, FindFirst
<1> DEFINE x == SeekTarget(k)
           p == [c \in Children |-> Sought(c, x)]
           B == {e \in All : Readable(e) /\ ~Before(e, x)}
<1>3. Places(p)
  BY ChildMoves DEF Places, StoreInv
<1>4. Forwards(p)
  BY DEF Seek
<1>5. /\ \A c \in Children : p[c] # NoEntry => p[c] \in Entry /\ ~Before(p[c], x)
      /\ \A c \in Children : \A e \in entries[c] :
            ~Before(e, x) => p[c] # NoEntry /\ ~Before(e, p[c])
  BY <1>3, ChildMoves DEF Places
<1>6. x.key = k /\ x.seq = sequence /\ k \in Nat /\ sequence \in Nat
  BY IteratorAssumption DEF SeekTarget, StoreInv
<1>7. B \subseteq All /\ \A e \in All : Readable(e) => (e \in B <=> ~Before(e, x))
  OBVIOUS
<1> HIDE DEF p, B, x
<1>8. \A a, b \in Entry : Before(a, x) /\ ~Before(b, x) => Before(a, b)
  BY <1>6, EntryFacts DEF Before
<1>9. /\ PlaceInv' /\ Leads' /\ Reaches' /\ heading' = "forward"
      /\ \A e \in All : Readable(e) => (Ahead1(e)' <=> e \in B)
  <2>1. \A c \in Children : \A e \in entries[c] :
             e \in B => p[c] # NoEntry /\ ~Before(e, p[c])
    BY <1>5 DEF B
  <2>2. \A e \in All : Readable(e) /\ e \notin B =>
             \A c \in Children : p[c] # NoEntry => Before(e, p[c])
    BY <1>5, <1>7, <1>8, AllFacts
  <2> QED BY <1>1, <1>3, <1>4, <1>7, <2>1, <2>2, ForwardTo
<1>10. StoreInv' /\ All' = All /\ \A e : Readable(e)' <=> Readable(e)
  BY <1>1, SameStore
<1>11. MarkInv'
  <2>1. saved' \in [key : Keys \cup {0}, value : 0..MaxSeq]
    BY IteratorAssumption DEF Seek, NotSaved
  <2> QED BY <1>1, <1>2, <1>9, <2>1, CalledMark DEF MarkInv, Seek, FindFirst
<1>12. \A j : Wanted(j)' <=> k <= j
  BY <1>2 DEF Wanted
<1>13. \A e \in All : Readable(e) => (~Before(e, x) <=> k <= e.key)
  BY <1>6, AllFacts, EntryFacts DEF Before, Readable
<1>14. ForwardInv'
  BY <1>2, <1>7, <1>9, <1>10, <1>12, <1>13 DEF ForwardInv
<1> QED BY <1>1, <1>2, <1>9, <1>10, <1>11, <1>14 DEF WayInv, IdleInv, BackwardInv, TurnInv

LEMMA SeekToLastKeeps == ASSUME IInv, SeekToLast PROVE IInv' /\ UNCHANGED store
<1> USE DEF IInv
<1>1. Called("last", 0) /\ UNCHANGED store
  BY DEF SeekToLast, Called
<1>2. call'.op = "last" /\ pc' = "backward" /\ direction' = "reverse" /\ deletion' = TRUE
  BY <1>1, CalledMark DEF SeekToLast
<1> DEFINE p == [c \in Children |-> Greatest(entries[c])]
<1>3. Places(p)
  BY ChildMoves DEF Places, StoreInv
<1>4. Backwards(p)
  BY DEF SeekToLast
<1>5. \A c \in Children : \A e \in entries[c] : p[c] # NoEntry /\ ~Before(p[c], e)
  BY ChildMoves
<1> HIDE DEF p
<1>6. /\ PlaceInv' /\ Leads' /\ Reaches' /\ heading' = "reverse"
      /\ \A e \in All : Readable(e) => (Behind1(e)' <=> e \in All)
  BY <1>1, <1>3, <1>4, <1>5, BackTo
<1>7. StoreInv' /\ All' = All /\ Shown' = Shown /\ \A e : Readable(e)' <=> Readable(e)
  BY <1>1, SameStore
<1>8. MarkInv'
  <2>1. saved' \in [key : Keys \cup {0}, value : 0..MaxSeq]
    BY IteratorAssumption DEF SeekToLast, MarkInv
  <2> QED BY <1>1, <1>2, <1>6, <2>1, CalledMark DEF MarkInv, SeekToLast
<1>9. \A j : Wanted(j)'
  BY <1>2 DEF Wanted
<1>10. \A e \in Shown : e \in All /\ Readable(e)
  BY DEF Shown, Newest
<1>11. BackwardInv'
  BY <1>2, <1>6, <1>7, <1>9, <1>10 DEF BackwardInv
<1> QED BY <1>1, <1>2, <1>6, <1>7, <1>8, <1>11 DEF WayInv, IdleInv, ForwardInv, TurnInv

LEMMA NextWanted ==
  ASSUME IInv, DBNext
  PROVE  /\ UNCHANGED store /\ valid /\ pc = "idle"
         /\ call'.op = "next" /\ direction' = "forward" /\ skipping' = TRUE
         /\ saved'.key = from'[1] /\ saved'.key \in Nat
         /\ saved' \in [key : Keys \cup {0}, value : 0..MaxSeq]
         /\ from'[1] = IF direction = "forward" THEN Current.key ELSE saved.key
         /\ \A j : Wanted(j)' <=> saved'.key < j
         /\ MarkInv' <=> heading' \in {"forward", "reverse"}
<1> USE DEF IInv
<1>1. Called("next", 0) /\ valid /\ UNCHANGED store
  BY DEF DBNext, Called
<1>2. /\ call'.op = "next"
      /\ call' \in [op : {"none", "first", "last", "seek", "next", "prev"},
                    key : Keys \cup {0}]
      /\ from' \in (Keys \cup {0}) \X (0..MaxSeq)
      /\ from' = Position /\ pc = "idle"
  BY <1>1, CalledMark
<1>3. direction' = "forward" /\ skipping' = TRUE /\ pc' \in {"forward", "turnnext"}
      /\ UNCHANGED <<valid, deletion>>
  BY DEF DBNext
<1>4. direction \in {"forward", "reverse"}
  BY DEF MarkInv
<1>5. CASE direction = "forward"
  <2>1. saved' = [saved EXCEPT !.key = Current.key]
    BY <1>5 DEF DBNext
  <2>2. Current \in Entry
    BY <1>1, <1>2, <1>5, CurrentFacts DEF IdleInv
  <2>3. Current.key \in Keys
    BY <2>2, EntryFacts
  <2>4. saved' \in [key : Keys \cup {0}, value : 0..MaxSeq] /\ saved'.key = Current.key
    BY <2>1, <2>3 DEF MarkInv
  <2>5. from'[1] = Current.key
    BY <1>1, <1>2, <1>5, PositionFacts
  <2>6. saved'.key \in Nat
    BY <2>3, <2>4, IteratorAssumption
  <2>7. \A j : Wanted(j)' <=> saved'.key < j
    BY <1>2, <2>4, <2>5 DEF Wanted
  <2> QED BY <1>1, <1>2, <1>3, <1>5, <2>4, <2>5, <2>6, <2>7 DEF MarkInv
<1>6. CASE direction = "reverse"
  <2>1. saved' = saved
    BY <1>6 DEF DBNext
  <2>2. saved \in [key : Keys \cup {0}, value : 0..MaxSeq] /\ saved.key \in Keys
    BY <1>1, <1>2, <1>6 DEF IdleInv, MarkInv
  <2>3. from'[1] = saved.key
    BY <1>1, <1>2, <1>6, PositionFacts
  <2>4. saved'.key \in Nat
    BY <2>1, <2>2, IteratorAssumption
  <2>5. \A j : Wanted(j)' <=> saved'.key < j
    BY <1>2, <2>1, <2>3 DEF Wanted
  <2> QED BY <1>1, <1>2, <1>3, <1>6, <2>1, <2>2, <2>3, <2>4, <2>5 DEF MarkInv
<1> QED BY <1>4, <1>5, <1>6

LEMMA NextKeeps == ASSUME IInv, DBNext PROVE IInv' /\ UNCHANGED store
<1> USE DEF IInv
<1>1. /\ UNCHANGED store /\ valid /\ pc = "idle"
      /\ direction' = "forward" /\ skipping' = TRUE
      /\ saved'.key = from'[1] /\ saved'.key \in Nat
      /\ from'[1] = IF direction = "forward" THEN Current.key ELSE saved.key
      /\ \A j : Wanted(j)' <=> saved'.key < j
      /\ MarkInv' <=> heading' \in {"forward", "reverse"}
  BY NextWanted
<1>2. /\ StoreInv' /\ All' = All /\ View' = View /\ \A e : Readable(e)' <=> Readable(e)
      /\ entries' = entries
  BY <1>1, SameStore
<1>3. \A e : Hidden(e)' <=> e.key <= saved'.key
  BY <1>1 DEF Hidden
<1>4. \A e \in All : e \in Entry /\ e.key \in Nat
  BY AllFacts, EntryFacts
<1>5. direction \in {"forward", "reverse"}
  BY DEF MarkInv
<1>6. CASE direction = "forward"
  <2>1. /\ UNCHANGED merged /\ pc' = "forward"
        /\ heading = "forward" /\ cur # NoChild /\ Current \in Entry /\ Current.key = saved'.key
    BY <1>1, <1>6, CurrentFacts DEF DBNext, IdleInv
  <2>2. UNCHANGED <<pos, cur, heading, Current>>
    BY <2>1 DEF merged, Current
  <2>3. PlaceInv' /\ MarkInv'
    BY <1>1, <1>2, <2>1, <2>2 DEF PlaceInv, Places
  <2>4. WayInv'
    BY <1>1, <1>2, <2>1, <2>2 DEF WayInv, Leads, Reaches
  <2>5. \A e \in All : Readable(e) /\ Wanted(e.key)' => Ahead1(e)'
    <3> SUFFICES ASSUME NEW e \in All, saved'.key < e.key PROVE ~Before(e, Current)
      BY <1>1, <2>1, <2>2 DEF Ahead1
    <3>1. ~(e.key <= Current.key)
      BY <1>1, <1>4, <2>1
    <3> QED BY <1>4, <2>1, <3>1, BeforeOrder
  <2>7. \A e \in All : Ahead1(e)' => saved'.key <= e.key
    <3> SUFFICES ASSUME NEW e \in All, ~Before(e, Current) PROVE Current.key <= e.key
      BY <2>1, <2>2 DEF Ahead1
    <3> QED BY <1>4, <2>1, EntryFacts DEF Before
  <2>6. ForwardInv'
    BY <1>1, <1>2, <1>3, <1>4, <2>1, <2>2, <2>5, <2>7 DEF ForwardInv
  <2> QED BY <1>1, <1>2, <2>1, <2>3, <2>4, <2>6 DEF IdleInv, BackwardInv, TurnInv
<1>7. CASE direction = "reverse" /\ cur = NoChild
  <2>1. pc' = "forward"
    BY <1>7 DEF DBNext
  <2> DEFINE p == [c \in Children |-> Least(entries[c])]
  <2>2. Forwards(p)
    BY <1>7 DEF DBNext
  <2>3. Places(p)
    BY ChildMoves DEF Places, StoreInv
  <2>4. \A c \in Children : \A e \in entries[c] : p[c] # NoEntry /\ ~Before(e, p[c])
    BY ChildMoves
  <2> HIDE DEF p
  <2>5. /\ PlaceInv' /\ Leads' /\ Reaches' /\ heading' = "forward"
        /\ \A e \in All : Readable(e) => (Ahead1(e)' <=> e \in All)
    BY <1>1, <2>2, <2>3, <2>4, ForwardTo
  <2>7. \A e \in All : Readable(e) => saved'.key <= e.key
    <3>1. \A e \in All : Readable(e) /\ e.key < saved.key => Behind1(e)
      BY <1>1, <1>7 DEF IdleInv
    <3>2. saved' = saved
      BY <1>7 DEF DBNext
    <3> QED BY <1>1, <1>4, <1>7, <3>1, <3>2 DEF Behind1
  <2>6. ForwardInv'
    BY <1>1, <1>2, <1>3, <1>4, <2>1, <2>5, <2>7 DEF ForwardInv
  <2> QED BY <1>1, <1>2, <2>1, <2>5, <2>6 DEF WayInv, IdleInv, BackwardInv, TurnInv
<1>8. CASE direction = "reverse" /\ cur # NoChild
  <2>1. SeekOthers /\ pc' = "turnnext"
    BY <1>8 DEF DBNext
  <2>2. /\ pos' = [c \in Children |-> IF c = cur THEN pos[c] ELSE Sought(c, Current)]
        /\ cur' = cur /\ heading' = heading
    BY <2>1 DEF SeekOthers
  <2>3. cur \in Children /\ Current = pos[cur] /\ Current \in Entry /\ Current \in entries[cur]
    BY <1>8, CurrentFacts
  <2>4. Current' = Current
    BY <1>8, <2>2, <2>3 DEF Current
  <2>5. Places(pos')
    BY <2>2, <2>3, ChildMoves DEF PlaceInv, Places, StoreInv
  <2>6. PlaceInv' /\ MarkInv'
    BY <1>1, <1>2, <1>8, <2>2, <2>3, <2>5, EntryFacts DEF PlaceInv, Places, MarkInv
  <2>7. \A c \in Children \ {cur} : /\ pos'[c] # NoEntry => Before(Current, pos'[c])
                                    /\ \A e \in entries[c] : Before(Current, e) =>
                                          pos'[c] # NoEntry /\ ~Before(e, pos'[c])
    <3> SUFFICES ASSUME NEW c \in Children \ {cur}
                 PROVE  /\ pos'[c] # NoEntry => Before(Current, pos'[c])
                        /\ \A e \in entries[c] : Before(Current, e) =>
                              pos'[c] # NoEntry /\ ~Before(e, pos'[c])
      OBVIOUS
    <3>1. pos'[c] = Sought(c, Current)
      BY <2>2
    <3>2. pos'[c] # NoEntry => pos'[c] \in entries[c] /\ ~Before(pos'[c], Current)
      BY <3>1, ChildMoves
    <3>3. pos'[c] # NoEntry => pos'[c] # Current /\ pos'[c] \in All /\ Current \in All
      BY <3>2, <2>3, AllFacts
    <3>4. pos'[c] # NoEntry => Before(Current, pos'[c])
      BY <3>2, <3>3, AllFacts
    <3>5. \A e \in entries[c] : Before(Current, e) => ~Before(e, Current)
      BY <2>3, AllFacts, BeforeOrder
    <3>6. \A e \in entries[c] : ~Before(e, Current) =>
             pos'[c] # NoEntry /\ ~Before(e, pos'[c])
      BY <3>1, ChildMoves
    <3> QED BY <3>4, <3>5, <3>6
  <2>8. \A e \in All : Readable(e) => (e.key < saved.key <=> ~Before(Current, e))
    <3>1. /\ saved.key \in Nat /\ Current.key < saved.key
          /\ \A e \in All : Readable(e) /\ e.key < saved.key => Behind1(e)
      BY <1>1, <1>8 DEF IdleInv
    <3>2. \A e \in All : ~Before(Current, e) => e.key <= Current.key
      BY <1>4, <2>3, EntryFacts DEF Before
    <3> QED BY <1>4, <2>3, <3>1, <3>2, EntryFacts DEF Behind1
  <2>9. TurnInv'
    <3>1. saved' = saved
      BY <1>8 DEF DBNext
    <3> QED BY <1>1, <1>2, <1>8, <2>1, <2>2, <2>4, <2>7, <2>8, <3>1 DEF TurnInv
  <2> QED BY <1>1, <1>2, <2>1, <2>6, <2>9 DEF WayInv, IdleInv, ForwardInv, BackwardInv
<1> QED BY <1>5, <1>6, <1>7, <1>8

LEMMA PrevKeeps == ASSUME IInv, DBPrev PROVE IInv' /\ UNCHANGED store
<1> USE DEF IInv
<1>1. Called("prev", 0) /\ valid /\ UNCHANGED <<store, direction, valid, skipping>>
  BY DEF DBPrev, Called
<1>2. /\ call'.op = "prev"
      /\ call' \in [op : {"none", "first", "last", "seek", "next", "prev"},
                    key : Keys \cup {0}]
      /\ from' \in (Keys \cup {0}) \X (0..MaxSeq)
      /\ from' = Position /\ pc = "idle"
  BY <1>1, CalledMark
<1>3. \A j : Wanted(j)' <=> j < from'[1]
  BY <1>2 DEF Wanted
<1>4. /\ StoreInv' /\ All' = All /\ Shown' = Shown /\ \A e : Readable(e)' <=> Readable(e)
      /\ entries' = entries
  BY <1>1, SameStore
<1>5. direction \in {"forward", "reverse"}
  BY DEF MarkInv
<1>6. CASE direction = "forward"
  <2>1. /\ saved' = [saved EXCEPT !.key = Current.key] /\ SeekOthers
        /\ pc' = "turnprev" /\ deletion' = deletion
    BY <1>6 DEF DBPrev
  <2>2. cur # NoChild
    BY <1>1, <1>2, <1>6 DEF IdleInv
  <2>3. cur \in Children /\ Current = pos[cur] /\ Current \in Entry /\ Current \in entries[cur]
    BY <2>2, CurrentFacts
  <2>4. /\ pos' = [c \in Children |-> IF c = cur THEN pos[c] ELSE Sought(c, Current)]
        /\ cur' = cur /\ heading' = heading
    BY <2>1 DEF SeekOthers
  <2>5. Current' = Current
    BY <2>2, <2>3, <2>4 DEF Current
  <2>6. Places(pos')
    BY <2>3, <2>4, ChildMoves DEF PlaceInv, Places, StoreInv
  <2>7. Current.key \in Keys /\ Current.key \in Nat
    BY <2>3, EntryFacts
  <2>8. saved' \in [key : Keys \cup {0}, value : 0..MaxSeq] /\ saved'.key = Current.key
    BY <2>1, <2>7 DEF MarkInv
  <2>9. PlaceInv' /\ MarkInv'
    BY <1>1, <1>2, <1>4, <2>1, <2>2, <2>3, <2>4, <2>6, <2>8, EntryFacts DEF PlaceInv, Places, MarkInv
  <2>10. from'[1] = Current.key
    BY <1>1, <1>2, <1>6, PositionFacts
  <2>11. \A c \in Children : pos'[c] # NoEntry => Current.key <= pos'[c].key
    <3> SUFFICES ASSUME NEW c \in Children, pos'[c] # NoEntry, c # cur
                 PROVE  Current.key <= pos'[c].key
      BY <2>3, <2>4, <2>7
    <3>1. pos'[c] = Sought(c, Current)
      BY <2>4
    <3>2. pos'[c] \in Entry /\ ~Before(pos'[c], Current)
      BY <3>1, ChildMoves, AllFacts
    <3> QED BY <2>3, <3>2, EntryFacts DEF Before
  <2>12. TurnInv'
    BY <2>1, <2>2, <2>4, <2>5, <2>8, <2>10, <2>11 DEF TurnInv
  <2> QED BY <1>1, <1>4, <2>1, <2>9, <2>12 DEF WayInv, IdleInv, ForwardInv, BackwardInv
<1>7. CASE direction = "reverse"
  <2>1. deletion' = TRUE /\ pc' = "backward" /\ UNCHANGED <<merged, saved>>
    BY <1>7 DEF DBPrev
  <2>2. UNCHANGED <<pos, cur, heading, Current>>
    BY <2>1 DEF merged, Current
  <2>3. /\ heading = "reverse" /\ saved.key \in Keys /\ Current.key < saved.key
        /\ \A e \in All : Readable(e) /\ e.key < saved.key => Behind1(e)
    BY <1>1, <1>2, <1>7 DEF IdleInv
  <2>4. from'[1] = saved.key
    BY <1>1, <1>2, <1>7, PositionFacts
  <2>5. PlaceInv' /\ MarkInv'
    BY <1>1, <1>2, <1>4, <2>1, <2>2 DEF PlaceInv, Places, MarkInv
  <2>6. WayInv'
    BY <1>2, <1>4, <2>1, <2>2 DEF WayInv, Leads, Reaches
  <2>7. \A e : Behind1(e)' <=> Behind1(e)
    BY <2>2 DEF Behind1
  <2>8. \A e \in All : Behind1(e) => e.key < saved.key
    <3> SUFFICES ASSUME NEW e \in All, cur # NoChild, ~Before(Current, e)
                 PROVE  e.key < saved.key
      BY DEF Behind1
    <3>1. Current \in Entry /\ e \in Entry /\ saved.key \in Nat
      BY <2>3, CurrentFacts, AllFacts, IteratorAssumption
    <3> QED BY <2>3, <3>1, EntryFacts DEF Before
  <2>9. \A e \in Shown : e \in All /\ Readable(e)
    BY DEF Shown, Newest
  <2>10. BackwardInv'
    BY <1>1, <1>3, <1>4, <1>7, <2>1, <2>2, <2>3, <2>4, <2>7, <2>8, <2>9 DEF BackwardInv
  <2> QED BY <1>1, <1>4, <2>1, <2>5, <2>6, <2>10 DEF IdleInv, ForwardInv, TurnInv
<1> QED BY <1>5, <1>6, <1>7

(* The merging iterator's own steps.                                        *)
LEMMA NextMoves ==
  ASSUME StoreInv, PlaceInv, Leads, Reaches, heading = "forward", cur # NoChild,
         MergedNext, UNCHANGED store
  PROVE  /\ PlaceInv' /\ Leads' /\ Reaches' /\ heading' = "forward"
         /\ \A e \in All : Readable(e) => (Ahead1(e)' <=> Ahead1(e) /\ e # Current)
<1> DEFINE p == [pos EXCEPT ![cur] = After(cur, @)]
           B == {e \in All : Readable(e) /\ Before(Current, e)}
<1>1. cur \in Children /\ Current = pos[cur] /\ Current \in All /\ Current \in Entry
  BY CurrentFacts
<1>2. \A c \in Children : p[c] = IF c = cur THEN After(c, Current) ELSE pos[c]
  BY <1>1 DEF PlaceInv, Places
<1>3. Forwards(p)
  BY DEF MergedNext
<1>4. Places(p)
  BY <1>1, ChildMoves DEF PlaceInv, Places, StoreInv
<1>5. \A c \in Children : p[c] # NoEntry => Before(Current, p[c])
  BY <1>1, <1>2, ChildMoves DEF Leads
<1>6. \A c \in Children : \A e \in entries[c] : Readable(e) /\ Before(Current, e) =>
          p[c] # NoEntry /\ ~Before(e, p[c])
  BY <1>1, <1>2, ChildMoves DEF Reaches
<1>7. \A e : e \in B <=> e \in All /\ Readable(e) /\ Before(Current, e)
  OBVIOUS
<1> HIDE DEF p, B
<1>8. \A e \in All : Readable(e) /\ e \notin B =>
          \A c \in Children : p[c] # NoEntry => Before(e, p[c])
  <2> SUFFICES ASSUME NEW e \in All, ~Before(Current, e),
                      NEW c \in Children, p[c] # NoEntry
               PROVE  Before(e, p[c])
    BY <1>7
  <2>1. e \in Entry /\ p[c] \in Entry
    BY <1>4, AllFacts DEF Places
  <2> QED BY <1>1, <1>5, <2>1, BeforeOrder
<1>9. /\ PlaceInv' /\ Leads' /\ Reaches' /\ heading' = "forward"
      /\ \A e \in All : Readable(e) => (Ahead1(e)' <=> e \in B)
  BY <1>3, <1>4, <1>6, <1>7, <1>8, ForwardTo
<1>10. \A e \in All : Before(Current, e) <=> ~Before(e, Current) /\ e # Current
  BY <1>1, AllFacts, BeforeOrder
<1> QED BY <1>7, <1>9, <1>10 DEF Ahead1

LEMMA PrevMoves ==
  ASSUME StoreInv, PlaceInv, Leads, Reaches, heading = "reverse", cur # NoChild,
         MergedPrev, UNCHANGED store
  PROVE  /\ PlaceInv' /\ Leads' /\ Reaches' /\ heading' = "reverse"
         /\ \A e \in All : Readable(e) => (Behind1(e)' <=> Behind1(e) /\ e # Current)
<1> DEFINE p == [pos EXCEPT ![cur] = Ahead(cur, @)]
           B == {e \in All : Readable(e) /\ Before(e, Current)}
<1>1. cur \in Children /\ Current = pos[cur] /\ Current \in All /\ Current \in Entry
  BY CurrentFacts
<1>2. \A c \in Children : p[c] = IF c = cur THEN Ahead(c, Current) ELSE pos[c]
  BY <1>1 DEF PlaceInv, Places
<1>3. Backwards(p)
  BY DEF MergedPrev
<1>4. Places(p)
  BY <1>1, ChildMoves DEF PlaceInv, Places, StoreInv
<1>5. \A c \in Children : p[c] # NoEntry => Before(p[c], Current)
  BY <1>1, <1>2, ChildMoves DEF Leads
<1>6. \A c \in Children : \A e \in entries[c] : Readable(e) /\ Before(e, Current) =>
          p[c] # NoEntry /\ ~Before(p[c], e)
  BY <1>1, <1>2, ChildMoves DEF Reaches
<1>7. \A e : e \in B <=> e \in All /\ Readable(e) /\ Before(e, Current)
  OBVIOUS
<1> HIDE DEF p, B
<1>8. \A e \in All : Readable(e) /\ e \notin B =>
          \A c \in Children : p[c] # NoEntry => Before(p[c], e)
  <2> SUFFICES ASSUME NEW e \in All, ~Before(e, Current),
                      NEW c \in Children, p[c] # NoEntry
               PROVE  Before(p[c], e)
    BY <1>7
  <2>1. e \in Entry /\ p[c] \in Entry
    BY <1>4, AllFacts DEF Places
  <2> QED BY <1>1, <1>5, <2>1, BeforeOrder
<1>9. /\ PlaceInv' /\ Leads' /\ Reaches' /\ heading' = "reverse"
      /\ \A e \in All : Readable(e) => (Behind1(e)' <=> e \in B)
  BY <1>3, <1>4, <1>6, <1>7, <1>8, BackTo
<1>10. \A e \in All : Before(e, Current) <=> ~Before(Current, e) /\ e # Current
  BY <1>1, AllFacts, BeforeOrder
<1> QED BY <1>7, <1>9, <1>10 DEF Behind1

LEMMA TurnedKeeps == ASSUME IInv, Turned PROVE IInv' /\ UNCHANGED store
<1> USE DEF IInv
<1>1. UNCHANGED <<store, direction, valid, saved, skipping, deletion, call, from>>
  BY DEF Turned, locals
<1>2. /\ StoreInv' /\ All' = All /\ View' = View /\ \A e : Readable(e)' <=> Readable(e)
      /\ entries' = entries
  BY <1>1, SameStore
<1>3. cur # NoChild /\ saved.key = from[1]
  BY DEF TurnInv, Turned
<1>4. cur \in Children /\ Current = pos[cur] /\ Current \in Entry
  BY <1>3, CurrentFacts
<1>5. CASE pc = "turnnext" /\ TurnNext /\ pc' = "forward"
  <2> DEFINE p == [c \in Children |->
                     IF c = cur \/ pos[c] = Current THEN After(c, pos[c]) ELSE pos[c]]
             B == {e \in All : Readable(e) /\ Before(Current, e)}
  <2>1. Forwards(p)
    BY <1>5 DEF TurnNext
  <2>2. \A c \in Children : p[c] = IF c = cur THEN After(c, Current) ELSE pos[c]
    <3> SUFFICES ASSUME NEW c \in Children \ {cur} PROVE pos[c] # Current
      BY <1>4
    <3>1. pos[c] # NoEntry => Before(Current, pos[c])
      BY <1>5 DEF TurnInv
    <3> QED BY <1>4, <3>1, EntryFacts, BeforeOrder
  <2>3. Places(p)
    BY <2>2, ChildMoves DEF PlaceInv, Places, StoreInv
  <2>4. \A c \in Children : p[c] # NoEntry => Before(Current, p[c])
    BY <1>4, <1>5, <2>2, ChildMoves DEF TurnInv
  <2>5. \A c \in Children : \A e \in entries[c] : Readable(e) /\ Before(Current, e) =>
            p[c] # NoEntry /\ ~Before(e, p[c])
    BY <1>4, <1>5, <2>2, ChildMoves DEF TurnInv
  <2>6. \A e : e \in B <=> e \in All /\ Readable(e) /\ Before(Current, e)
    OBVIOUS
  <2> HIDE DEF p, B
  <2>7. \A e \in All : Readable(e) /\ e \notin B =>
            \A c \in Children : p[c] # NoEntry => Before(e, p[c])
    <3> SUFFICES ASSUME NEW e \in All, ~Before(Current, e),
                        NEW c \in Children, p[c] # NoEntry
                 PROVE  Before(e, p[c])
      BY <2>6
    <3>1. e \in Entry /\ p[c] \in Entry
      BY <2>3, AllFacts DEF Places
    <3> QED BY <1>4, <2>4, <3>1, BeforeOrder
  <2>8. /\ PlaceInv' /\ Leads' /\ Reaches' /\ heading' = "forward"
        /\ \A e \in All : Readable(e) => (Ahead1(e)' <=> e \in B)
    BY <1>1, <2>1, <2>3, <2>5, <2>6, <2>7, ForwardTo
  <2>9. MarkInv'
    BY <1>1, <1>5, <2>8 DEF MarkInv
  <2>10. \A e \in All : Readable(e) => (e \in B <=> saved.key <= e.key)
    <3>1. \A e \in All : Readable(e) => (e.key < saved.key <=> ~Before(Current, e))
      BY <1>5 DEF TurnInv
    <3>2. saved.key \in Nat /\ \A e \in All : e.key \in Nat
      BY AllFacts, EntryFacts, SavedNat
    <3> QED BY <2>6, <3>1, <3>2
  <2>11. call.op = "next" /\ direction = "forward" /\ skipping
    BY <1>5 DEF TurnInv, MarkInv
  <2>12. /\ \A j : Wanted(j)' <=> saved.key < j
         /\ \A e : Hidden(e)' <=> e.key <= saved.key
    BY <1>1, <1>3, <2>11 DEF Wanted, Hidden
  <2>13. saved.key \in Nat /\ \A e \in All : e.key \in Nat
    BY AllFacts, EntryFacts, SavedNat
  <2>14. ForwardInv'
    BY <1>1, <1>2, <2>8, <2>10, <2>11, <2>12, <2>13 DEF ForwardInv
  <2> QED BY <1>1, <1>2, <1>5, <2>8, <2>9, <2>14 DEF WayInv, IdleInv, BackwardInv, TurnInv
<1>6. CASE pc = "turnprev" /\ TurnPrev /\ pc' = "leave"
  <2> DEFINE p == [c \in Children |->
                     IF pos[c] = NoEntry THEN Greatest(entries[c]) ELSE Ahead(c, pos[c])]
             B == {e \in All : Readable(e) /\ e.key < saved.key}
  <2>1. Backwards(p)
    BY <1>6 DEF TurnPrev
  <2>2. Places(p)
    BY ChildMoves DEF Places, StoreInv
  <2>3. \A c \in Children : \A e \in entries[c] : e.key < saved.key =>
            p[c] # NoEntry /\ ~Before(p[c], e)
    <3> SUFFICES ASSUME NEW c \in Children, NEW e \in entries[c], e.key < saved.key
                 PROVE  p[c] # NoEntry /\ ~Before(p[c], e)
      OBVIOUS
    <3>1. CASE pos[c] = NoEntry
      BY <3>1, ChildMoves
    <3>2. CASE pos[c] # NoEntry
      <4>1. saved.key <= pos[c].key /\ pos[c] \in Entry /\ e \in Entry /\ saved.key \in Nat
        BY <1>6, <3>2, AllFacts, SavedNat DEF TurnInv, PlaceInv, Places
      <4>2. e.key < pos[c].key
        BY <4>1, EntryFacts
      <4>3. Before(e, pos[c])
        BY <4>1, <4>2, BeforeOrder
      <4> QED BY <3>2, <4>3, ChildMoves
    <3> QED BY <3>1, <3>2
  <2>4. \A e : e \in B <=> e \in All /\ Readable(e) /\ e.key < saved.key
    OBVIOUS
  <2> HIDE DEF p, B
  <2>5. /\ PlaceInv' /\ Leads' /\ heading' = "reverse" /\ pos' = p
        /\ \A e \in B : Behind1(e)'
    BY <1>1, <2>1, <2>2, <2>3, <2>4, BackFrom
  <2>6. MarkInv'
    BY <1>1, <1>6, <2>5 DEF MarkInv
  <2>7. TurnInv'
    <3> SUFFICES ASSUME NEW c \in Children, NEW e \in entries[c], Readable(e),
                        e.key < saved.key
                 PROVE  cur' # NoChild /\ p[c] # NoEntry /\ ~Before(p[c], e)
      BY <1>1, <1>2, <1>3, <1>6, <2>5 DEF TurnInv
    <3>1. e \in B
      BY <2>4, AllFacts
    <3> QED BY <2>3, <2>5, <3>1 DEF Behind1
  <2> QED BY <1>1, <1>2, <1>6, <2>5, <2>6, <2>7 DEF WayInv, IdleInv, ForwardInv, BackwardInv
<1> QED BY <1>5, <1>6 DEF Turned

(* Entries that are shown, and entries with the same key.                   *)
LEMMA ShownFacts ==
  ASSUME StoreInv
  PROVE  /\ \A e \in Shown : e \in All /\ e \in Entry /\ Readable(e) /\ ~e.del
         /\ \A e \in Shown, d \in All : d.key = e.key /\ Readable(d) => d.seq <= e.seq
         /\ \A e \in All : /\ Readable(e) /\ ~e.del
                           /\ \A d \in All : d.key = e.key /\ Readable(d) => d.seq <= e.seq
                           => e \in Shown
         /\ \A d, e \in Shown : d.key = e.key => d = e
         /\ DOMAIN View = {e.key : e \in Shown}
         /\ \A e \in Shown : View[e.key] = e.seq
<1>1. \A e \in All : e \in Entry /\ e.key \in Keys /\ e.seq \in Nat
  BY AllFacts, EntryFacts
<1>2. \A e : e \in Shown <=> /\ e \in All /\ Readable(e) /\ ~e.del /\ e.key \in Keys
                             /\ \A d \in All : d.key = e.key /\ Readable(d) => d.seq <= e.seq
  BY DEF Shown, Newest
<1>3. \A d, e \in Shown : d.key = e.key => d = e
  <2> SUFFICES ASSUME NEW d \in Shown, NEW e \in Shown, d.key = e.key PROVE d.seq = e.seq
    BY <1>2, AllFacts
  <2>1. d.seq <= e.seq /\ e.seq <= d.seq /\ d.seq \in Nat /\ e.seq \in Nat
    BY <1>1, <1>2
  <2> QED BY <2>1
<1>4. DOMAIN View = {e.key : e \in Shown}
  BY DEF View
<1>5. ASSUME NEW e \in Shown PROVE View[e.key] = e.seq
  <2>1. (CHOOSE d \in Shown : d.key = e.key) = e
    BY <1>3
  <2> QED BY <1>4, <2>1 DEF View
<1> QED BY <1>1, <1>2, <1>3, <1>4, <1>5

LEMMA FindNextKeeps == ASSUME IInv, FindNextUserEntry PROVE IInv' /\ UNCHANGED store
<1> USE DEF IInv
<1> DEFINE e == Current
<1>1. pc = "forward" /\ UNCHANGED <<store, direction, deletion, from>>
  BY DEF FindNextUserEntry
<1>2. /\ StoreInv' /\ All' = All /\ View' = View /\ \A x : Readable(x)' <=> Readable(x)
      /\ entries' = entries
  BY <1>1, SameStore
<1>3. heading = "forward" /\ direction = "forward" /\ Leads /\ Reaches
  BY <1>1 DEF ForwardInv, WayInv
<1>4. e = NoEntry <=> cur = NoChild
  BY CurrentFacts, EntryFacts
<1>5. CASE e = NoEntry \/ (Readable(e) /\ ~e.del /\ ~Hidden(e))
  <2>1. /\ valid' = (e # NoEntry) /\ pc' = "idle"
        /\ call' = [call EXCEPT !.op = "none", !.key = 0]
        /\ saved' = [saved EXCEPT !.key = 0] /\ UNCHANGED <<merged, skipping>>
    BY <1>1, <1>5 DEF FindNextUserEntry, Return
  <2>2. UNCHANGED <<pos, cur, heading, Current>>
    BY <2>1 DEF merged, Current
  <2>3. PlaceInv' /\ MarkInv'
    BY <1>1, <1>2, <2>1, <2>2 DEF PlaceInv, Places, MarkInv
  <2>4. WayInv'
    BY <1>2, <1>3, <2>2 DEF WayInv, Leads, Reaches
  <2>5. IdleInv'
    BY <1>1, <1>3, <1>4, <2>1, <2>2 DEF IdleInv
  <2> QED BY <1>1, <1>2, <2>1, <2>3, <2>4, <2>5 DEF ForwardInv, BackwardInv, TurnInv
<1>6. CASE e # NoEntry /\ ~(Readable(e) /\ ~e.del /\ ~Hidden(e))
  <2>1. /\ MergedNext /\ UNCHANGED <<valid, pc, call>>
        /\ IF Readable(e) /\ e.del
           THEN saved' = [saved EXCEPT !.key = e.key] /\ skipping' = TRUE
           ELSE UNCHANGED <<saved, skipping>>
    BY <1>1, <1>6 DEF FindNextUserEntry
  <2>2. cur # NoChild /\ e \in All /\ e \in Entry /\ e.key \in Keys /\ e.key \in Nat
    BY <1>4, <1>6, CurrentFacts, EntryFacts
  <2> HIDE DEF e
  <2>3. /\ PlaceInv' /\ Leads' /\ Reaches' /\ heading' = "forward"
        /\ \A x \in All : Readable(x) => (Ahead1(x)' <=> Ahead1(x) /\ x # e)
    BY <1>1, <1>3, <2>1, <2>2, NextMoves DEF e
  <2>4. saved' \in [key : Keys \cup {0}, value : 0..MaxSeq]
    BY <2>1, <2>2 DEF MarkInv
  <2>5. MarkInv'
    BY <1>1, <2>1, <2>3, <2>4 DEF MarkInv
  <2>6. \A j : Wanted(j)' <=> Wanted(j)
    BY <1>1, <2>1 DEF Wanted
  <2>7. \A x : Hidden(x)' <=> skipping' /\ x.key <= saved'.key
    BY DEF Hidden
  <2>8. /\ saved.key \in Nat
        /\ \A x \in All : x \in Entry /\ x.key \in Nat /\ (~Ahead1(x) => x.key <= e.key)
                          /\ (Ahead1(x) => e.key <= x.key)
    BY <2>2, SavedNat, AllFacts, EntryFacts, BeforeOrder DEF Ahead1, e, Before
  <2>9. Ahead1(e)
    BY <2>2, BeforeOrder DEF Ahead1, e
  <2>10. CASE Readable(e) /\ e.del
    <3>1. skipping' /\ saved'.key = e.key
      BY <2>1, <2>10 DEF MarkInv
    <3>2. ASSUME NEW k \in DOMAIN View, Wanted(k) PROVE e.key < k
      <4>1. PICK s \in Shown : s.key = k
        BY ShownFacts
      <4>2. s \in All /\ Readable(s) /\ ~s.del /\ s.key \in Nat /\ s \in Entry
        BY <4>1, ShownFacts, <2>8
      <4>3. Ahead1(s)
        BY <1>1, <3>2, <4>1, <4>2, <2>8 DEF ForwardInv
      <4>4. s.key # e.key
        <5> SUFFICES ASSUME s.key = e.key PROVE FALSE
          OBVIOUS
        <5>1. ~Before(s, e) /\ s # e
          BY <4>2, <4>3, <2>10 DEF Ahead1, e
        <5>2. s.seq < e.seq
          BY <5>1, <4>2, <2>2, AllFacts, BeforeOrder
        <5>3. e.seq <= s.seq /\ s.seq \in Nat /\ e.seq \in Nat
          BY <4>1, <4>2, <2>2, <2>10, ShownFacts, EntryFacts
        <5> QED BY <5>2, <5>3
      <4> QED BY <4>1, <4>2, <4>3, <4>4, <2>2, <2>8
    <3>3. \A x \in All : Readable(x) /\ Wanted(x.key) /\ ~Ahead1(x)' => x.key <= saved'.key
      BY <2>2, <2>3, <2>8, <3>1
    <3>4. \A x \in All : Readable(x) /\ Ahead1(x)' /\ saved'.key < x.key => Wanted(x.key)
      <4> SUFFICES ASSUME NEW x \in All, Readable(x), Ahead1(x), e.key < x.key
                   PROVE  Wanted(x.key)
        BY <2>3, <3>1
      <4>1. ~Hidden(x)
        <5>1. skipping => saved.key <= e.key
          BY <1>1, <2>2, <2>9, <2>10 DEF ForwardInv
        <5> QED BY <5>1, <2>2, <2>8 DEF Hidden
      <4> QED BY <1>1, <4>1 DEF ForwardInv
    <3>5. \A x \in All : Readable(x) /\ Ahead1(x)' => saved'.key <= x.key
      BY <2>3, <2>8, <3>1
    <3>6. ForwardInv'
      BY <1>1, <1>2, <1>3, <2>1, <2>2, <2>3, <2>6, <2>7, <2>8, <3>1, <3>2, <3>3, <3>4, <3>5 DEF ForwardInv
    <3> QED BY <1>1, <1>2, <2>1, <2>3, <2>5, <3>6 DEF WayInv, IdleInv, BackwardInv, TurnInv
  <2>11. CASE ~(Readable(e) /\ e.del)
    <3>1. UNCHANGED <<saved, skipping>>
      BY <2>1, <2>11
    <3>2. Readable(e) => Hidden(e)
      BY <1>6, <2>11 DEF e
    <3>3. \A x \in All : Readable(x) /\ Wanted(x.key) /\ ~Ahead1(x)' =>
              skipping /\ x.key <= saved.key
      BY <1>1, <2>3, <3>2 DEF ForwardInv, Hidden
    <3>4. ForwardInv'
      BY <1>1, <1>2, <1>3, <2>1, <2>3, <2>6, <2>7, <3>1, <3>3 DEF ForwardInv, Hidden
    <3> QED BY <1>1, <1>2, <2>1, <2>3, <2>5, <3>4 DEF WayInv, IdleInv, BackwardInv, TurnInv
  <2> QED BY <2>10, <2>11
<1> QED BY <1>1, <1>5, <1>6 DEF FindNextUserEntry

LEMMA LeaveKeyKeeps == ASSUME IInv, LeaveKey PROVE IInv' /\ UNCHANGED store
<1> USE DEF IInv
<1>1. pc = "leave" /\ UNCHANGED <<store, skipping, from>>
  BY DEF LeaveKey
<1>2. /\ StoreInv' /\ All' = All /\ Shown' = Shown /\ \A x : Readable(x)' <=> Readable(x)
      /\ entries' = entries
  BY <1>1, SameStore
<1>3. /\ heading = "reverse" /\ Leads /\ saved.key = from[1] /\ call.op = "prev"
      /\ \A c \in Children : \A e \in entries[c] : Readable(e) /\ e.key < saved.key =>
            cur # NoChild /\ pos[c] # NoEntry /\ ~Before(pos[c], e)
  BY <1>1 DEF TurnInv, WayInv, MarkInv
<1>4. saved.key \in Nat /\ \A e \in All : e \in Entry /\ e.key \in Nat
  BY SavedNat, AllFacts, EntryFacts
<1>5. CASE cur = NoChild /\ Return(FALSE) /\ saved' = NotSaved
           /\ UNCHANGED <<merged, direction, deletion>>
  <2>1. /\ valid' = FALSE /\ pc' = "idle"
        /\ call' = [call EXCEPT !.op = "none", !.key = 0]
    BY <1>5 DEF Return
  <2>2. UNCHANGED <<pos, cur, heading, Current>>
    BY <1>5 DEF merged, Current
  <2>3. saved' \in [key : Keys \cup {0}, value : 0..MaxSeq]
    BY <1>5, IteratorAssumption DEF NotSaved
  <2>4. PlaceInv' /\ MarkInv'
    BY <1>1, <1>2, <1>5, <2>1, <2>2, <2>3 DEF PlaceInv, Places, MarkInv
  <2>5. WayInv'
    BY <1>2, <1>3, <1>5, <2>2 DEF WayInv, Leads, Reaches
  <2> QED BY <1>1, <1>2, <2>1, <2>4, <2>5 DEF IdleInv, ForwardInv, BackwardInv, TurnInv
<1>6. CASE /\ cur # NoChild /\ Current.key < saved.key
           /\ direction' = "reverse" /\ deletion' = TRUE /\ pc' = "backward"
           /\ UNCHANGED <<merged, valid, saved, call>>
  <2>1. UNCHANGED <<pos, cur, heading, Current>>
    BY <1>6 DEF merged, Current
  <2>2. PlaceInv' /\ MarkInv'
    BY <1>1, <1>2, <1>3, <1>6, <2>1 DEF PlaceInv, Places, MarkInv
  <2>3. Current \in Entry /\ Current.key \in Nat
    BY <1>6, CurrentFacts, EntryFacts
  <2>4. \A e \in All : Behind1(e) => e.key < saved.key
    BY <1>4, <1>6, <2>3, EntryFacts DEF Behind1, Before
  <2>5. \A e \in All : Before(e, Current) => e.key < saved.key
    BY <1>4, <1>6, <2>3, EntryFacts DEF Before
  <2>6. Reaches
    BY <1>3, <2>5, AllFacts DEF Reaches
  <2>7. \A e \in All : Readable(e) /\ e.key < saved.key => Behind1(e)
    <3> SUFFICES ASSUME NEW e \in All, Readable(e), e.key < saved.key
                 PROVE  ~Before(Current, e)
      BY <1>6 DEF Behind1
    <3>1. PICK c \in Children : e \in entries[c]
      BY AllFacts
    <3>2. pos[c] \in Entry /\ ~Before(pos[c], e)
      BY <1>3, <3>1 DEF PlaceInv, Places
    <3>3. ~Before(Current, pos[c])
      BY <1>3, <1>6, <2>3, <3>2, CurrentFacts, EntryFacts, BeforeOrder DEF Leads
    <3> QED BY <1>4, <2>3, <3>2, <3>3, BeforeOrder
  <2>8. /\ \A j : Wanted(j)' <=> j < saved.key
        /\ \A e : Behind1(e)' <=> Behind1(e)
    BY <1>1, <1>3, <1>6, <2>1 DEF Wanted, Behind1
  <2>9. BackwardInv'
    BY <1>2, <1>3, <1>6, <2>1, <2>4, <2>7, <2>8, ShownFacts DEF BackwardInv
  <2>10. WayInv'
    BY <1>2, <1>3, <2>1, <2>6 DEF WayInv, Leads, Reaches
  <2> QED BY <1>1, <1>2, <1>6, <2>2, <2>9, <2>10 DEF IdleInv, ForwardInv, TurnInv
<1>7. CASE /\ cur # NoChild /\ Current.key >= saved.key /\ MergedPrev
           /\ UNCHANGED <<direction, valid, saved, deletion, pc, call>>
  <2> DEFINE p == [pos EXCEPT ![cur] = Ahead(cur, @)]
             B == {e \in All : Readable(e) /\ e.key < saved.key}
  <2>1. cur \in Children /\ Current = pos[cur] /\ Current \in Entry /\ Current.key \in Nat
    BY <1>7, CurrentFacts, EntryFacts
  <2>2. \A c \in Children : p[c] = IF c = cur THEN Ahead(c, Current) ELSE pos[c]
    BY <2>1 DEF PlaceInv, Places
  <2>3. Backwards(p)
    BY <1>7 DEF MergedPrev
  <2>4. Places(p)
    BY <2>1, ChildMoves DEF PlaceInv, Places, StoreInv
  <2>5. \A e \in All : e.key < saved.key => Before(e, Current)
    BY <1>4, <1>7, <2>1, BeforeOrder
  <2>6. \A c \in Children : \A e \in entries[c] : Readable(e) /\ e.key < saved.key =>
            p[c] # NoEntry /\ ~Before(p[c], e)
    BY <1>3, <2>1, <2>2, <2>5, AllFacts, ChildMoves
  <2>7. \A e : e \in B <=> e \in All /\ Readable(e) /\ e.key < saved.key
    OBVIOUS
  <2> HIDE DEF p, B
  <2>8. /\ PlaceInv' /\ Leads' /\ heading' = "reverse" /\ pos' = p
        /\ \A e \in B : Behind1(e)'
    BY <1>1, <2>3, <2>4, <2>6, <2>7, BackFrom
  <2>9. MarkInv'
    BY <1>1, <1>7, <2>8 DEF MarkInv
  <2>10. TurnInv'
    <3> SUFFICES ASSUME NEW c \in Children, NEW e \in entries[c], Readable(e),
                        e.key < saved.key
                 PROVE  cur' # NoChild /\ p[c] # NoEntry /\ ~Before(p[c], e)
      BY <1>1, <1>2, <1>3, <1>7, <2>8 DEF TurnInv
    <3>1. e \in B
      BY <2>7, AllFacts
    <3> QED BY <2>6, <2>8, <3>1 DEF Behind1
  <2> QED BY <1>1, <1>2, <1>7, <2>8, <2>9, <2>10 DEF WayInv, IdleInv, ForwardInv, BackwardInv
<1> QED BY <1>1, <1>5, <1>6, <1>7 DEF LeaveKey

LEMMA FindPrevKeeps == ASSUME IInv, FindPrevUserEntry PROVE IInv' /\ UNCHANGED store
<1> USE DEF IInv
<1> DEFINE e == Current
<1>1. pc = "backward" /\ UNCHANGED <<store, skipping, from>>
  BY DEF FindPrevUserEntry
<1>2. /\ StoreInv' /\ All' = All /\ Shown' = Shown /\ \A x : Readable(x)' <=> Readable(x)
      /\ entries' = entries
  BY <1>1, SameStore
<1>3. /\ heading = "reverse" /\ direction = "reverse" /\ Leads /\ Reaches
      /\ \A x \in All : Readable(x) /\ Behind1(x) => Wanted(x.key)
      /\ deletion => \A x \in Shown : Wanted(x.key) => Behind1(x)
      /\ ~deletion => \E f \in All : Saved(f)
      /\ call.op \in {"last", "prev"} /\ from[1] \in Nat
  BY <1>1, SavedNat DEF BackwardInv, WayInv, MarkInv
<1>4. e = NoEntry <=> cur = NoChild
  BY CurrentFacts, EntryFacts
<1>5. \A x \in All : x \in Entry /\ x.key \in Nat /\ x.key \in Keys
                     /\ x.seq \in Nat /\ x.seq \in 0..MaxSeq
  BY AllFacts, EntryFacts
<1>6. CASE e = NoEntry \/ PastKey(e)
  <2>1. /\ valid' = ~deletion /\ pc' = "idle"
        /\ call' = [call EXCEPT !.op = "none", !.key = 0]
        /\ IF deletion THEN saved' = NotSaved /\ direction' = "forward"
                       ELSE UNCHANGED <<saved, direction>>
        /\ UNCHANGED <<merged, deletion>>
    BY <1>1, <1>6 DEF FindPrevUserEntry, Return, PastKey
  <2>2. UNCHANGED <<pos, cur, heading, Current>>
    BY <2>1 DEF merged, Current
  <2>3. saved' \in [key : Keys \cup {0}, value : 0..MaxSeq]
    BY <2>1, IteratorAssumption DEF NotSaved, MarkInv
  <2>4. PlaceInv' /\ MarkInv'
    BY <1>1, <1>2, <2>1, <2>2, <2>3 DEF PlaceInv, Places, MarkInv
  <2>5. WayInv'
    BY <1>2, <1>3, <2>2 DEF WayInv, Leads, Reaches
  <2>6. IdleInv'
    <3> SUFFICES ASSUME ~deletion PROVE IdleInv'
      BY <2>1 DEF IdleInv
    <3>1. PICK f \in All : Saved(f)
      BY <1>3
    <3>2. saved.key = f.key /\ f.key \in Keys /\ f.key \in Nat /\ f.key > 0
      BY <3>1, <1>5, EntryFacts DEF Saved
    <3>3. Current.key < saved.key
      BY <1>4, <1>6, <3>2, EntryFacts DEF PastKey
    <3>4. ASSUME NEW x \in All, Readable(x), x.key < saved.key PROVE Behind1(x)
      <4>1. Wanted(x.key)
        BY <1>3, <1>5, <3>1, <3>2, <3>4 DEF Wanted, Saved
      <4>2. Before(x, f)
        BY <1>5, <3>2, <3>4, BeforeOrder
      <4> QED BY <3>1, <3>4, <4>1, <4>2 DEF Saved
    <3>5. UNCHANGED <<saved, direction>>
      BY <2>1
    <3>6. \A x : Behind1(x)' <=> Behind1(x)
      BY <2>2 DEF Behind1
    <3> QED BY <1>2, <1>3, <2>2, <3>2, <3>3, <3>4, <3>5, <3>6 DEF IdleInv
  <2> QED BY <1>1, <1>2, <2>1, <2>4, <2>5, <2>6 DEF ForwardInv, BackwardInv, TurnInv
<1>7. CASE e # NoEntry /\ ~PastKey(e)
  <2>1. /\ MergedPrev /\ UNCHANGED <<direction, valid, pc, call>>
        /\ IF Readable(e)
           THEN /\ deletion' = e.del
                /\ saved' = IF e.del THEN NotSaved ELSE [key |-> e.key, value |-> e.seq]
           ELSE UNCHANGED <<deletion, saved>>
    BY <1>1, <1>7 DEF FindPrevUserEntry
  <2>2. cur # NoChild /\ e \in All /\ e \in Entry /\ e.del \in BOOLEAN
    BY <1>4, <1>7, CurrentFacts, EntryFacts
  <2> HIDE DEF e
  <2>3. /\ PlaceInv' /\ Leads' /\ Reaches' /\ heading' = "reverse"
        /\ \A x \in All : Readable(x) => (Behind1(x)' <=> Behind1(x) /\ x # e)
    BY <1>1, <1>3, <2>1, <2>2, PrevMoves DEF e
  <2>4. saved' \in [key : Keys \cup {0}, value : 0..MaxSeq]
    BY <1>5, <2>1, <2>2, IteratorAssumption DEF MarkInv, NotSaved
  <2>5. MarkInv'
    BY <1>1, <2>1, <2>2, <2>3, <2>4 DEF MarkInv
  <2>6. \A j : Wanted(j)' <=> Wanted(j)
    BY <1>1, <2>1 DEF Wanted
  <2>7. Behind1(e) /\ \A x \in All : Behind1(x) /\ x # e => Before(x, e)
    BY <2>2, AllFacts, BeforeOrder DEF Behind1, e
  <2>8. \A x \in All : ~Behind1(x) => Before(e, x)
    BY <2>2 DEF Behind1, e
  <2>9. /\ \A x \in All : Readable(x) /\ Behind1(x)' => Wanted(x.key)'
        /\ \A x \in Shown : x \in All /\ Readable(x) /\ ~x.del
    BY <1>3, <2>3, <2>6, ShownFacts
  \* What was saved before is an older entry of e's key or not shown.
  <2>10. ASSUME Readable(e), NEW x \in Shown, Wanted(x.key), ~Behind1(x) PROVE FALSE
    <3>1. ~deletion
      BY <1>3, <2>10
    <3>2. PICK f \in All : Saved(f)
      BY <1>3, <3>1
    <3>3. x = f /\ saved.key = f.key
      BY <2>10, <3>2 DEF Saved
    <3>4. ~(e.key < f.key)
      BY <1>7, <2>10, <3>1, <3>3 DEF PastKey, e
    <3>5. Before(e, f)
      BY <2>8, <2>10, <3>3
    <3>6. e.key = f.key /\ f.seq < e.seq
      BY <1>5, <2>2, <3>4, <3>5 DEF Before
    <3>7. e.seq <= f.seq
      BY <2>2, <2>10, <3>3, <3>6, ShownFacts
    <3> QED BY <1>5, <2>2, <3>6, <3>7
  <2>11. CASE Readable(e) /\ e.del
    <3>1. deletion'
      BY <2>1, <2>11
    <3>2. \A x \in Shown : Wanted(x.key) => Behind1(x)'
      BY <2>3, <2>9, <2>10, <2>11
    <3>3. BackwardInv'
      BY <1>1, <1>2, <1>3, <2>1, <2>3, <2>6, <2>9, <3>1, <3>2 DEF BackwardInv
    <3> QED BY <1>1, <1>2, <2>1, <2>3, <2>5, <3>3 DEF WayInv, IdleInv, ForwardInv, TurnInv
  <2>12. CASE Readable(e) /\ ~e.del
    <3> PICK f : f = e
      OBVIOUS
    <3>1. ~deletion' /\ saved' = [key |-> f.key, value |-> f.seq]
      BY <2>1, <2>2, <2>12
    <3>2. f \in All /\ Readable(f) /\ ~f.del /\ Wanted(f.key) /\ ~Behind1(f)'
      BY <1>3, <2>2, <2>3, <2>7, <2>12
    <3>3. \A x \in All : Readable(x) /\ Wanted(x.key) /\ ~Behind1(x)' => ~Before(x, f)
      BY <1>5, <2>2, <2>3, <2>8, BeforeOrder
    <3>4. \A x \in Shown : Wanted(x.key) /\ ~Behind1(x)' => x = f
      BY <2>3, <2>9, <2>10, <2>12
    <3>5. Saved(f)'
      BY <1>1, <1>2, <2>2, <2>6, <2>12, <3>1, <3>2, <3>3, <3>4 DEF Saved
    <3>6. BackwardInv'
      BY <1>1, <1>2, <1>3, <2>1, <2>2, <2>3, <2>9, <3>1, <3>5 DEF BackwardInv
    <3> QED BY <1>1, <1>2, <2>1, <2>3, <2>5, <3>6 DEF WayInv, IdleInv, ForwardInv, TurnInv
  <2>13. CASE ~Readable(e)
    <3>1. UNCHANGED <<deletion, saved>>
      BY <2>1, <2>13
    <3>2. \A x \in All : Readable(x) => (Behind1(x)' <=> Behind1(x))
      BY <2>3, <2>13
    <3>3. \A f \in All : Saved(f) => Saved(f)'
      BY <1>2, <2>6, <2>9, <3>1, <3>2 DEF Saved
    <3>4. BackwardInv'
      BY <1>1, <1>2, <1>3, <2>1, <2>3, <2>6, <2>9, <3>1, <3>2, <3>3 DEF BackwardInv
    <3> QED BY <1>1, <1>2, <2>1, <2>3, <2>5, <3>4 DEF WayInv, IdleInv, ForwardInv, TurnInv
  <2> QED BY <2>11, <2>12, <2>13
<1> QED BY <1>1, <1>6, <1>7 DEF FindPrevUserEntry

LEMMA InitHolds == ASSUME Init PROVE IInv
<1>1. PICK w \in Written : \E where \in [DOMAIN w -> Children] :
          entries = Placed(w, where) /\ last = Cardinality(DOMAIN w)
  BY DEF Init
<1>2. PICK where \in [DOMAIN w -> Children] :
          entries = Placed(w, where) /\ last = Cardinality(DOMAIN w)
  BY <1>1
<1>3. PICK n \in 0..(MaxSeq - 1) : w \in [1..n -> [key : Keys, del : BOOLEAN]]
  BY DEF Written
<1>4. n \in Nat /\ MaxSeq \in Nat /\ 0 \in Nat /\ n < MaxSeq /\ DOMAIN w = 1..n
  BY <1>3, IteratorAssumption
<1>5. last = n
  <2>1. Cardinality(1..n) = IF 1 > n THEN 0 ELSE n - 1 + 1
    BY <1>4, FS_Interval
  <2> QED BY <1>2, <1>4, <2>1
<1>6. \A c \in Children : \A e \in entries[c] :
          /\ e.seq \in 1..n /\ e = [key |-> w[e.seq].key, seq |-> e.seq, del |-> w[e.seq].del]
          /\ where[e.seq] = c /\ w[e.seq] \in [key : Keys, del : BOOLEAN]
  BY <1>2, <1>3, <1>4 DEF Placed
<1>7. \A c \in Children : \A e \in entries[c] : e \in Entry
  BY <1>4, <1>6 DEF Entry
<1>8. StoreInv
  <2>1. entries \in [Children -> SUBSET Entry]
    <3>1. entries = [c \in Children |-> entries[c]]
      BY <1>2 DEF Placed
    <3> QED BY <1>7, <3>1
  <2>2. \A e \in All : e.seq <= last
    BY <1>4, <1>5, <1>6 DEF All
  <2>3. last \in 0..MaxSeq /\ sequence \in 0..last
    BY <1>4, <1>5 DEF Init
  <2>4. \A c, d \in Children : \A e \in entries[c], f \in entries[d] :
            e.seq = f.seq => e = f /\ c = d
    BY <1>6
  <2> QED BY <2>1, <2>2, <2>3, <2>4 DEF StoreInv
<1>9. PlaceInv
  BY DEF Init, PlaceInv, Places
<1>10. MarkInv
  <2>1. 0 \in 0..MaxSeq
    BY IteratorAssumption
  <2>2. NotSaved \in [key : Keys \cup {0}, value : 0..MaxSeq]
    BY <2>1 DEF NotSaved
  <2>3. <<0, 0>> \in (Keys \cup {0}) \X (0..MaxSeq)
    BY <2>1
  <2>4. [op |-> "none", key |-> 0] \in
            [op : {"none", "first", "last", "seek", "next", "prev"}, key : Keys \cup {0}]
    OBVIOUS
  <2> QED BY <2>2, <2>3, <2>4 DEF Init, MarkInv
<1>11. WayInv
  BY EntryFacts DEF Init, WayInv, Leads, Reaches
<1> QED BY <1>8, <1>9, <1>10, <1>11 DEF Init, IInv, IdleInv, ForwardInv, BackwardInv, TurnInv

LEMMA StutterKeeps ==
  ASSUME IInv, UNCHANGED vars
  PROVE  IInv' /\ UNCHANGED store
<1> USE DEF IInv
<1>1. UNCHANGED <<store, pos, cur, heading, direction, valid, saved, skipping,
                  deletion, pc, call, from>>
  BY DEF vars, merged, locals
<1>2. /\ StoreInv' /\ All' = All /\ View' = View /\ Shown' = Shown
      /\ entries' = entries /\ \A e : Readable(e)' <=> Readable(e)
  BY <1>1, SameStore
<1>3. Current' = Current
  BY <1>1 DEF Current
<1>4. /\ \A e : Ahead1(e)' <=> Ahead1(e)
      /\ \A e : Behind1(e)' <=> Behind1(e)
      /\ \A j : Wanted(j)' <=> Wanted(j)
      /\ \A e : Hidden(e)' <=> Hidden(e)
  BY <1>1, <1>3 DEF Ahead1, Behind1, Wanted, Hidden
<1>5. PlaceInv' /\ MarkInv'
  BY <1>1, <1>2 DEF PlaceInv, Places, MarkInv
<1>6. WayInv'
  BY <1>1, <1>2, <1>3 DEF WayInv, Leads, Reaches
<1>7. IdleInv'
  BY <1>1, <1>2, <1>3, <1>4 DEF IdleInv
<1>8. ForwardInv'
  BY <1>1, <1>2, <1>3, <1>4 DEF ForwardInv
<1>9. BackwardInv'
  <2>1. \A f \in All : Saved(f) => Saved(f)'
    BY <1>1, <1>2, <1>4 DEF Saved
  <2> QED BY <1>1, <1>2, <1>4, <2>1 DEF BackwardInv
<1>10. TurnInv'
  BY <1>1, <1>2, <1>3 DEF TurnInv
<1> QED BY <1>1, <1>2, <1>5, <1>6, <1>7, <1>8, <1>9, <1>10

LEMMA StepKeeps ==
  ASSUME IInv, [Next]_vars
  PROVE  IInv' /\ View' = View
<1>0. StoreInv /\ (UNCHANGED store => View' = View)
  BY SameStore DEF IInv
<1>1. CASE \E k \in Keys, del \in BOOLEAN : Insert(k, del)
  BY <1>1, InsertKeeps
<1>2. CASE \E k \in Keys : Seek(k)
  BY <1>0, <1>2, SeekKeeps
<1>3. CASE SeekToFirst \/ SeekToLast
  BY <1>0, <1>3, SeekToFirstKeeps, SeekToLastKeeps
<1>4. CASE DBNext \/ DBPrev
  BY <1>0, <1>4, NextKeeps, PrevKeeps
<1>5. CASE Turned \/ FindNextUserEntry
  BY <1>0, <1>5, TurnedKeeps, FindNextKeeps
<1>6. CASE LeaveKey \/ FindPrevUserEntry
  BY <1>0, <1>6, LeaveKeyKeeps, FindPrevKeeps
<1>7. CASE UNCHANGED vars
  BY <1>0, <1>7, StutterKeeps
<1> QED BY <1>1, <1>2, <1>3, <1>4, <1>5, <1>6, <1>7 DEF Next

-----------------------------------------------------------------------------
(* The theorems.                                                            *)

LEMMA InvariantHolds == Spec => []IInv
<1>1. Init => IInv
  BY InitHolds
<1>2. IInv /\ [Next]_vars => IInv'
  BY StepKeeps
<1> QED BY <1>1, <1>2, PTL DEF Spec

\* Type correctness: the current child is at one of its entries, and an
\* iterator that is valid forwards has a current child.
THEOREM TypeHolds == Spec => []TypeOK
<1>1. IInv => TypeOK
  <2> SUFFICES ASSUME IInv PROVE TypeOK
    OBVIOUS
  <2> USE DEF IInv
  <2>1. entries \in [Children -> SUBSET Entry] /\ last \in 0..MaxSeq /\ sequence \in 0..last
    BY DEF StoreInv
  <2>2. /\ pos \in [Children -> Entry \cup {NoEntry}] /\ cur \in Children \cup {NoChild}
        /\ cur # NoChild => pos[cur] # NoEntry
    BY DEF PlaceInv, Places
  <2>3. pc = "idle" /\ valid /\ direction = "forward" => cur # NoChild
    BY DEF IdleInv
  <2> QED BY <2>1, <2>2, <2>3 DEF MarkInv, TypeOK
<1> QED BY <1>1, InvariantHolds, PTL

\* In reverse the merging iterator rests just before all entries of the key
\* that is shown, with every readable entry of a smaller key ahead of it.
THEOREM JustBeforeHolds == Spec => []JustBefore
<1>1. IInv => JustBefore
  BY DEF IInv, IdleInv, Behind1, JustBefore
<1> QED BY <1>1, InvariantHolds, PTL

\* No entry that a reader may see is passed by: not by a direction change,
\* and not for what writers add meanwhile.
THEOREM NothingSkippedHolds == Spec => []NothingSkipped
<1>1. IInv => NothingSkipped
  BY DEF IInv, WayInv, Reaches, NothingSkipped
<1> QED BY <1>1, InvariantHolds, PTL

\* Whatever is written while an iterator is used, the map of which it is a
\* cursor stays as it was when the iterator was made.
THEOREM ViewStays == Spec => [][View' = View]_vars
<1>1. IInv /\ [Next]_vars => [View' = View]_vars
  BY StepKeeps
<1> QED BY <1>1, InvariantHolds, PTL DEF Spec

-----------------------------------------------------------------------------
(* An iterator implements Cursor: asking for an operation is a step of the  *)
(* abstract iterator, the turns of the loops are none, and the return is    *)
(* its answer.                                                              *)
LEMMA ResultOf ==
  ASSUME IInv, pc # "idle"
  PROVE  /\ (\A s \in Shown : ~Wanted(s.key)) => Promise!Result = <<0, 0>>
         /\ call.op \in {"first", "seek", "next"} =>
              \A s \in Shown :
                  Wanted(s.key) /\ (\A d \in Shown : Wanted(d.key) => s.key <= d.key)
                  => Promise!Result = <<s.key, s.seq>>
         /\ call.op \in {"last", "prev"} =>
              \A s \in Shown :
                  Wanted(s.key) /\ (\A d \in Shown : Wanted(d.key) => d.key <= s.key)
                  => Promise!Result = <<s.key, s.seq>>
<1> USE DEF IInv
<1> DEFINE S == DOMAIN View
           W == {k \in S : Wanted(k)}
<1>1. /\ \A k \in S : k \in Nat /\ \E s \in Shown : s.key = k
      /\ \A s \in Shown : s.key \in S /\ View[s.key] = s.seq
  BY ShownFacts, EntryFacts
<1>2. from[1] \in Nat /\ call.key \in Nat
      /\ call.op \in {"first", "last", "seek", "next", "prev"}
  <2>1. \A k \in Keys \cup {0} : k \in Nat
    BY IteratorAssumption
  <2> QED BY <2>1, SavedNat DEF MarkInv
<1>3. \A k \in W : k \in S /\ Wanted(k)
  OBVIOUS
<1>4. \A k \in S : Wanted(k) => k \in W
  OBVIOUS
<1>5. /\ call.op = "first" => Promise!Result = Promise!FirstOf(W)
      /\ call.op = "seek" => Promise!Result = Promise!FirstOf(W)
      /\ call.op = "next" => Promise!Result = Promise!FirstOf(W)
      /\ call.op = "last" => Promise!Result = Promise!LastOf(W)
      /\ call.op = "prev" => Promise!Result = Promise!LastOf(W)
  <2>1. call.op = "first" => W = S
    BY DEF Wanted
  <2>2. call.op = "last" => W = S
    BY DEF Wanted
  <2>3. call.op = "seek" => W = {k \in S : k >= call.key}
    BY <1>1, <1>2 DEF Wanted
  <2>4. call.op = "next" => W = {k \in S : k > from[1]}
    BY <1>1, <1>2 DEF Wanted
  <2>5. call.op = "prev" => W = {k \in S : k < from[1]}
    BY <1>1, <1>2 DEF Wanted
  <2> HIDE DEF W
  <2> QED BY <2>1, <2>2, <2>3, <2>4, <2>5 DEF Promise!Result
<1> HIDE DEF S, W
<1>6. ASSUME \A s \in Shown : ~Wanted(s.key) PROVE Promise!Result = <<0, 0>>
  <2>1. W = {}
    BY <1>1, <1>3, <1>6
  <2> QED BY <1>2, <1>5, <2>1 DEF Promise!FirstOf, Promise!LastOf, Promise!Nowhere
<1>7. ASSUME call.op \in {"first", "seek", "next"}, NEW s \in Shown, Wanted(s.key),
             \A d \in Shown : Wanted(d.key) => s.key <= d.key
      PROVE  Promise!Result = <<s.key, s.seq>>
  <2>1. s.key \in W /\ s.key \in Nat /\ \A j \in W : j \in Nat /\ s.key <= j
    BY <1>1, <1>3, <1>4, <1>7
  <2>2. \A k \in W : (\A j \in W : k <= j) => k = s.key
    BY <2>1
  <2>3. (CHOOSE k \in W : \A j \in W : k <= j) = s.key
    BY <2>1, <2>2
  <2>4. Promise!Result = Promise!FirstOf(W)
    BY <1>5, <1>7
  <2>5. Promise!FirstOf(W) = <<s.key, View[s.key]>>
    BY <2>1, <2>3 DEF Promise!FirstOf, Promise!Entry
  <2> QED BY <1>1, <2>4, <2>5
<1>8. ASSUME call.op \in {"last", "prev"}, NEW s \in Shown, Wanted(s.key),
             \A d \in Shown : Wanted(d.key) => d.key <= s.key
      PROVE  Promise!Result = <<s.key, s.seq>>
  <2>1. s.key \in W /\ s.key \in Nat /\ \A j \in W : j \in Nat /\ j <= s.key
    BY <1>1, <1>3, <1>4, <1>8
  <2>2. \A k \in W : (\A j \in W : j <= k) => k = s.key
    BY <2>1
  <2>3. (CHOOSE k \in W : \A j \in W : j <= k) = s.key
    BY <2>1, <2>2
  <2>4. Promise!Result = Promise!LastOf(W)
    BY <1>5, <1>8
  <2>5. Promise!LastOf(W) = <<s.key, View[s.key]>>
    BY <2>1, <2>3 DEF Promise!LastOf, Promise!Entry
  <2> QED BY <1>1, <2>4, <2>5
<1> QED BY <1>6, <1>7, <1>8

LEMMA CallIsQuiet == ASSUME MarkInv PROVE call = Promise!Quiet <=> pc = "idle"
<1>1. call \in [op : {"none", "first", "last", "seek", "next", "prev"},
                key : Keys \cup {0}]
      /\ (pc = "idle" <=> call.op = "none") /\ (pc = "idle" => call.key = 0)
  BY DEF MarkInv
<1> QED BY <1>1 DEF Promise!Quiet

LEMMA Asks ==
  ASSUME IInv, NEW op \in {"first", "last", "seek", "next", "prev"},
         NEW k \in Keys \cup {0}, Called(op, k), IInv', View' = View,
         op \in {"next", "prev"} => valid
  PROVE  Promise!Ask
<1> USE DEF IInv
<1>1. call'.op = op /\ from' = Position /\ pc = "idle"
  BY CalledMark
<1>2. pc' # "idle" /\ call = Promise!Quiet
  BY <1>1, CallIsQuiet DEF MarkInv
<1>3. op \in {"next", "prev"} => Position # <<0, 0>>
  BY <1>1, PositionFacts, IteratorAssumption
<1> QED BY <1>1, <1>2, <1>3 DEF Promise!Ask, Promise!Nowhere

LEMMA FindNextAnswers ==
  ASSUME IInv, FindNextUserEntry,
         Current = NoEntry \/ (Readable(Current) /\ ~Current.del /\ ~Hidden(Current))
  PROVE  pc' = "idle" /\ Position' = Promise!Result /\ pc # "idle"
<1> USE DEF IInv
<1> PICK e : e = Current
  OBVIOUS
<1>1. pc = "forward" /\ direction' = direction
  BY DEF FindNextUserEntry
<1>2. pc' = "idle" /\ valid' = (e # NoEntry) /\ UNCHANGED merged
  BY DEF FindNextUserEntry, Return
<1>3. Current' = e
  BY <1>2 DEF merged, Current
<1>4. /\ direction = "forward"
      /\ \A x \in All : Readable(x) /\ Wanted(x.key) /\ ~Ahead1(x) =>
            skipping /\ x.key <= saved.key
      /\ skipping => \A k \in DOMAIN View : Wanted(k) => saved.key < k
      /\ \A x \in All : Readable(x) /\ Ahead1(x) /\ ~Hidden(x) => Wanted(x.key)
      /\ call.op \in {"first", "seek", "next"}
  BY <1>1 DEF ForwardInv, MarkInv
<1>5. e = NoEntry <=> cur = NoChild
  BY CurrentFacts, EntryFacts
<1>6. /\ saved.key \in Nat
      /\ \A x \in All : x \in Entry /\ x.key \in Nat /\ x.seq \in Nat
  BY SavedNat, AllFacts, EntryFacts
\* What is to be shown, and wanted, has not been passed.
<1>7. ASSUME NEW s \in Shown, Wanted(s.key) PROVE Ahead1(s)
  <2>1. s \in All /\ Readable(s) /\ s.key \in DOMAIN View
    BY ShownFacts
  <2> QED BY <1>4, <1>6, <1>7, <2>1
<1>8. CASE e = NoEntry
  <2>1. \A s \in Shown : ~Wanted(s.key)
    BY <1>5, <1>7, <1>8 DEF Ahead1
  <2>2. Position' = <<0, 0>>
    BY <1>2, <1>8 DEF Position
  <2> QED BY <1>1, <1>2, <2>1, <2>2, ResultOf
<1>9. CASE e # NoEntry
  <2>1. Readable(e) /\ ~e.del /\ ~Hidden(e) /\ cur # NoChild /\ e \in All /\ e \in Entry
    BY <1>5, <1>9, CurrentFacts
  <2>2. Position' = <<e.key, e.seq>>
    BY <1>1, <1>2, <1>3, <1>4, <1>9 DEF Position
  <2>3. Ahead1(e)
    BY <2>1, BeforeOrder DEF Ahead1
  <2>4. Wanted(e.key)
    BY <1>4, <2>1, <2>3
  <2>5. ASSUME NEW d \in All, d.key = e.key, Readable(d) PROVE d.seq <= e.seq
    <3> SUFFICES ASSUME e.seq < d.seq PROVE FALSE
      BY <1>6, <2>1
    <3>1. ~Ahead1(d)
      BY <1>6, <2>1, <2>5, BeforeOrder DEF Ahead1
    <3> QED BY <1>4, <2>1, <2>4, <2>5, <3>1 DEF Hidden
  <2>6. e \in Shown
    BY <2>1, <2>5, ShownFacts
  <2>7. ASSUME NEW d \in Shown, Wanted(d.key) PROVE e.key <= d.key
    <3>1. ~Before(d, e) /\ d \in Entry
      BY <1>7, <2>7, ShownFacts DEF Ahead1
    <3> QED BY <2>1, <3>1, EntryFacts DEF Before
  <2> QED BY <1>1, <1>2, <1>4, <2>2, <2>4, <2>6, <2>7, ResultOf
<1> QED BY <1>8, <1>9

LEMMA FindPrevAnswers ==
  ASSUME IInv, FindPrevUserEntry, Current = NoEntry \/ PastKey(Current)
  PROVE  pc' = "idle" /\ Position' = Promise!Result /\ pc # "idle"
<1> USE DEF IInv
<1> PICK e : e = Current
  OBVIOUS
<1>1. pc = "backward"
  BY DEF FindPrevUserEntry
<1>2. /\ pc' = "idle" /\ valid' = ~deletion
      /\ ~deletion => UNCHANGED <<saved, direction>>
  BY DEF FindPrevUserEntry, Return
<1>3. /\ direction = "reverse"
      /\ deletion => \A s \in Shown : Wanted(s.key) => Behind1(s)
      /\ ~deletion => \E f \in All : Saved(f)
      /\ call.op \in {"last", "prev"}
  BY <1>1 DEF BackwardInv, MarkInv
<1>4. e = NoEntry <=> cur = NoChild
  BY CurrentFacts, EntryFacts
<1>5. \A x \in All : x \in Entry /\ x.key \in Nat /\ x.seq \in Nat
  BY AllFacts, EntryFacts
<1>6. CASE deletion
  <2>1. cur = NoChild
    BY <1>4, <1>6 DEF PastKey
  <2>2. \A s \in Shown : ~Wanted(s.key)
    BY <1>3, <1>6, <2>1 DEF Behind1
  <2>3. Position' = <<0, 0>>
    BY <1>2, <1>6 DEF Position
  <2> QED BY <1>1, <1>2, <2>2, <2>3, ResultOf
<1>7. CASE ~deletion
  <2>1. PICK f \in All : Saved(f)
    BY <1>3, <1>7
  <2>2. /\ Readable(f) /\ ~f.del /\ Wanted(f.key) /\ saved.key = f.key /\ saved.value = f.seq
        /\ \A x \in All : Readable(x) /\ Wanted(x.key) /\ ~Behind1(x) => ~Before(x, f)
        /\ \A s \in Shown : Wanted(s.key) /\ ~Behind1(s) => s = f
    BY <2>1 DEF Saved
  <2>3. deletion \in BOOLEAN /\ valid'
    BY <1>2, <1>7 DEF MarkInv
  <2>4. Position' = <<f.key, f.seq>>
    BY <1>2, <1>3, <1>7, <2>2, <2>3 DEF Position
  \* What is still to be met has a smaller key.
  <2>5. ASSUME NEW x \in All, Behind1(x) PROVE x.key < f.key
    <3>1. cur # NoChild /\ ~Before(e, x)
      BY <2>5 DEF Behind1
    <3>2. e.key < f.key /\ e \in Entry /\ e.key \in Nat
      BY <1>4, <2>2, <3>1, CurrentFacts, EntryFacts DEF PastKey
    <3>3. x.key <= e.key
      BY <1>5, <3>1, <3>2, EntryFacts DEF Before
    <3> QED BY <1>5, <3>2, <3>3
  <2>6. ASSUME NEW d \in All, d.key = f.key, Readable(d) PROVE d.seq <= f.seq
    <3>1. ~Behind1(d)
      BY <1>5, <2>1, <2>5, <2>6
    <3>2. ~Before(d, f)
      BY <2>2, <2>6, <3>1
    <3> QED BY <1>5, <2>1, <2>6, <3>2, BeforeOrder
  <2>7. f \in Shown
    BY <2>1, <2>2, <2>6, ShownFacts
  <2>8. ASSUME NEW d \in Shown, Wanted(d.key) PROVE d.key <= f.key
    BY <1>5, <2>1, <2>2, <2>5, <2>8, ShownFacts
  <2> QED BY <1>1, <1>2, <1>3, <2>2, <2>4, <2>7, <2>8, ResultOf
<1> QED BY <1>6, <1>7

LEMMA LeaveKeyAnswers ==
  ASSUME IInv, LeaveKey, cur = NoChild
  PROVE  pc' = "idle" /\ Position' = Promise!Result /\ pc # "idle"
<1> USE DEF IInv
<1>1. pc = "leave" /\ pc' = "idle" /\ valid' = FALSE
  BY DEF LeaveKey, Return
<1>2. /\ call.op = "prev" /\ saved.key = from[1]
      /\ \A c \in Children : \A e \in entries[c] :
            Readable(e) => ~(e.key < saved.key)
  BY <1>1 DEF TurnInv, MarkInv
<1>3. \A s \in Shown : ~Wanted(s.key)
  BY <1>2, ShownFacts, AllFacts DEF Wanted
<1>4. Position' = <<0, 0>>
  BY <1>1 DEF Position
<1> QED BY <1>1, <1>3, <1>4, ResultOf

LEMMA AnswerStep ==
  ASSUME MarkInv, MarkInv', View' = View, pc # "idle", pc' = "idle",
         Position' = Promise!Result
  PROVE  Promise!Answer
<1>1. call # Promise!Quiet
  BY CallIsQuiet
<1>2. call' = Promise!Quiet
  <2>1. call' \in [op : {"none", "first", "last", "seek", "next", "prev"},
                   key : Keys \cup {0}]
        /\ call'.op = "none" /\ call'.key = 0
    BY DEF MarkInv
  <2> QED BY <2>1 DEF Promise!Quiet
<1> QED BY <1>1, <1>2 DEF Promise!Answer

LEMMA LoopStutters ==
  ASSUME View' = View, pc # "idle", pc' # "idle", UNCHANGED <<call, from>>
  PROVE  UNCHANGED Promise!vars
BY DEF Promise!vars

LEMMA StepImplements ==
  ASSUME IInv, [Next]_vars
  PROVE  [Promise!Next]_(Promise!vars)
<1> USE DEF IInv
<1>0. IInv' /\ View' = View
  BY StepKeeps
<1>1. CASE (\E k \in Keys, del \in BOOLEAN : Insert(k, del)) \/ UNCHANGED vars
  <2>1. UNCHANGED <<pos, cur, direction, valid, saved, pc, call, from>>
    BY <1>1 DEF Insert, vars, merged
  <2>2. Position' = Position
    BY <2>1 DEF Position, Current
  <2> QED BY <1>0, <2>1, <2>2 DEF Promise!vars
<1>2. CASE SeekToFirst
  BY <1>0, <1>2, Asks DEF SeekToFirst, Promise!Next
<1>3. CASE SeekToLast
  BY <1>0, <1>3, Asks DEF SeekToLast, Promise!Next
<1>4. CASE \E k \in Keys : Seek(k)
  BY <1>0, <1>4, Asks DEF Seek, Promise!Next
<1>5. CASE DBNext
  BY <1>0, <1>5, Asks DEF DBNext, Promise!Next
<1>6. CASE DBPrev
  BY <1>0, <1>6, Asks DEF DBPrev, Promise!Next
<1>7. CASE Turned
  BY <1>0, <1>7, LoopStutters DEF Turned
<1>8. CASE FindNextUserEntry
  <2>1. CASE Current = NoEntry \/ (Readable(Current) /\ ~Current.del /\ ~Hidden(Current))
    BY <1>0, <1>8, <2>1, FindNextAnswers, AnswerStep DEF Promise!Next
  <2>2. CASE ~(Current = NoEntry \/ (Readable(Current) /\ ~Current.del /\ ~Hidden(Current)))
    <3>1. pc = "forward" /\ UNCHANGED <<pc, call, from>>
      BY <1>8, <2>2 DEF FindNextUserEntry
    <3> QED BY <1>0, <3>1, LoopStutters
  <2> QED BY <2>1, <2>2
<1>9. CASE LeaveKey
  <2>1. CASE cur = NoChild
    BY <1>0, <1>9, <2>1, LeaveKeyAnswers, AnswerStep DEF Promise!Next
  <2>2. CASE cur # NoChild
    <3>1. pc = "leave" /\ pc' # "idle" /\ UNCHANGED <<call, from>>
      BY <1>9, <2>2 DEF LeaveKey
    <3> QED BY <1>0, <3>1, LoopStutters
  <2> QED BY <2>1, <2>2
<1>10. CASE FindPrevUserEntry
  <2>1. CASE Current = NoEntry \/ PastKey(Current)
    BY <1>0, <1>10, <2>1, FindPrevAnswers, AnswerStep DEF Promise!Next
  <2>2. CASE ~(Current = NoEntry \/ PastKey(Current))
    <3>1. pc = "backward" /\ UNCHANGED <<pc, call, from>>
      BY <1>10, <2>2 DEF FindPrevUserEntry
    <3> QED BY <1>0, <3>1, LoopStutters
  <2> QED BY <2>1, <2>2
<1> QED BY <1>1, <1>2, <1>3, <1>4, <1>5, <1>6, <1>7, <1>8, <1>9, <1>10 DEF Next

\* Whatever is written while it is used, DBIter over MergingIterator moves as
\* a cursor on one map that does not change: each of its five operations
\* answers with the entry that include/leveldb/iterator.h promises.
THEOREM IteratorIsCursor == Spec => IsCursor
<1>1. Init => Promise!Init
  BY DEF Init, Promise!Init, Promise!Quiet, Promise!Nowhere, Position
<1>2. IInv /\ [Next]_vars => [Promise!Next]_(Promise!vars)
  BY StepImplements
<1> QED BY <1>1, <1>2, InvariantHolds, PTL DEF Spec, IsCursor, Promise!Spec
=============================================================================
