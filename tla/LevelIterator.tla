---------------------------- MODULE LevelIterator ----------------------------
(***************************************************************************)
(* An iterator of the storage engine (Pods/leveldb-library): DBIter, which *)
(* makes one entry for each user key of what it finds, on a                *)
(* MergingIterator, which walks the memtable and the tables in step.  One  *)
(* thread drives it.  Meanwhile writers add to the memtable, between any   *)
(* two operations on its skip list.                                        *)
(*                                                                         *)
(* A child is the set of its entries: a memtable, a table, or a level's    *)
(* concatenated tables.                                                    *)
(***************************************************************************)
EXTENDS Naturals, FiniteSets

CONSTANTS
    Keys,        \* user keys, in the comparator's order
    Tables,      \* MergingIterator's children but for the memtable
    MaxSeq       \* bound on sequence numbers

ASSUME IteratorAssumption ==
    Keys \subseteq Nat \ {0} /\ MaxSeq \in Nat /\ "none" \notin Tables

VARIABLES
    entries,     \* what each child holds
    last,        \* the last sequence number written
    sequence,    \* sequence_: what the iterator was made for
    pos,         \* where each child is
    cur,         \* current_, NoChild for NULL
    heading,     \* MergingIterator::direction_
    direction,   \* DBIter::direction_
    valid,       \* valid_
    saved,       \* saved_key_ and saved_value_
    skipping,    \* FindNextUserEntry's `skipping`, or Prev's first loop
    deletion,    \* FindPrevUserEntry's value_type = kTypeDeletion
    pc,          \* how far the operation has come
    call, from   \* the operation, and where it began

store  == <<entries, last, sequence>>
merged == <<pos, cur, heading>>
locals == <<skipping, deletion>>
vars == <<store, merged, direction, valid, saved, locals, pc, call, from>>

Memtable == "memtable"
Children == Tables \cup {Memtable}
NoChild == "none"
NoEntry == [key |-> 0, seq |-> 0, del |-> FALSE]
NotSaved == [key |-> 0, value |-> 0]
Entry == [key : Keys, seq : 1..MaxSeq, del : BOOLEAN]

(***************************************************************************)
(* One child.                                                              *)
(***************************************************************************)
\* InternalKeyComparator: a key's newer entries come first.
Before(a, b) == a.key < b.key \/ (a.key = b.key /\ a.seq > b.seq)

Least(S) == IF S = {} THEN NoEntry
            ELSE CHOOSE e \in S : \A d \in S \ {e} : Before(e, d)
Greatest(S) == IF S = {} THEN NoEntry
               ELSE CHOOSE e \in S : \A d \in S \ {e} : Before(d, e)

Sought(c, e) == Least({d \in entries[c] : ~Before(d, e)})
After(c, e)  == Least({d \in entries[c] : Before(e, d)})
Ahead(c, e)  == Greatest({d \in entries[c] : Before(d, e)})

(***************************************************************************)
(* MergingIterator.  FindSmallest and FindLargest look at the children     *)
(* that are somewhere.                                                     *)
(***************************************************************************)
Somewhere(p) == {c \in Children : p[c] # NoEntry}
FindSmallest(p) ==
    IF Somewhere(p) = {} THEN NoChild
    ELSE CHOOSE c \in Somewhere(p) :
            \A d \in Somewhere(p) \ {c} : Before(p[c], p[d])
FindLargest(p) ==
    IF Somewhere(p) = {} THEN NoChild
    ELSE CHOOSE c \in Somewhere(p) :
            \A d \in Somewhere(p) \ {c} : Before(p[d], p[c])

Current == IF cur = NoChild THEN NoEntry ELSE pos[cur]

Forwards_Stays(p) == pos' = p /\ UNCHANGED cur /\ heading' = "forward"
Forwards(p) == pos' = p /\ cur' = FindSmallest(p) /\ heading' = "forward"
Backwards(p) == pos' = p /\ cur' = FindLargest(p) /\ heading' = "reverse"

MergedNext == Forwards([pos EXCEPT ![cur] = After(cur, @)])
MergedPrev == Backwards([pos EXCEPT ![cur] = Ahead(cur, @)])

\* To change direction every other child is sought to the current entry,
\* then moved to the other side of it.
SeekOthers ==
    /\ pos' = [c \in Children |-> IF c = cur THEN pos[c] ELSE Sought(c, Current)]
    /\ UNCHANGED <<cur, heading>>
TurnNext ==
    Forwards([c \in Children |->
        IF c = cur \/ pos[c] = Current THEN After(c, pos[c]) ELSE pos[c]])
TurnPrev_NoEnd ==
    Backwards([c \in Children |->
        IF pos[c] = NoEntry THEN NoEntry ELSE Ahead(c, pos[c])])
TurnPrev ==
    Backwards([c \in Children |->
        IF pos[c] = NoEntry THEN Greatest(entries[c]) ELSE Ahead(c, pos[c])])

(***************************************************************************)
(* What the reader is to see: of each key the newest entry that is not     *)
(* beyond its sequence number, unless that is a deletion.                  *)
(***************************************************************************)
All == UNION {entries[c] : c \in Children}
Readable(e) == e.seq <= sequence
Newest(k) == {e \in All : e.key = k /\ Readable(e) /\
                 \A d \in All : d.key = k /\ Readable(d) => d.seq <= e.seq}
Shown == {e \in UNION {Newest(k) : k \in Keys} : ~e.del}
View == [k \in {e.key : e \in Shown} |-> (CHOOSE e \in Shown : e.key = k).seq]

\* key() and value(); the value of an entry is its sequence number.
Position ==
    IF ~valid THEN <<0, 0>>
    ELSE IF direction = "forward" THEN <<Current.key, Current.seq>>
    ELSE <<saved.key, saved.value>>

TypeOK ==
    /\ entries \in [Children -> SUBSET Entry]
    /\ last \in 0..MaxSeq /\ sequence \in 0..last
    /\ pos \in [Children -> Entry \cup {NoEntry}]
    /\ cur \in Children \cup {NoChild}
    /\ heading \in {"forward", "reverse"} /\ direction \in {"forward", "reverse"}
    /\ saved \in [key : Keys \cup {0}, value : 0..MaxSeq]
    /\ pc \in {"idle", "forward", "backward", "leave", "turnnext", "turnprev"}
    /\ {valid, skipping, deletion} \subseteq BOOLEAN
    /\ pc = "idle" <=> call.op = "none"
    /\ cur # NoChild => pos[cur] # NoEntry
    /\ pc = "idle" /\ valid /\ direction = "forward" => cur # NoChild

\* NewIterator: the memtable holds the newest writes, the tables the older
\* ones, of which compactions have dropped some that no reader needs.
Written == UNION {[1..n -> [key : Keys, del : BOOLEAN]] : n \in 0..(MaxSeq - 1)}
Placed(w, where) ==
    [c \in Children |-> {[key |-> w[i].key, seq |-> i, del |-> w[i].del] :
                            i \in {j \in DOMAIN w : where[j] = c}}]
Init ==
    /\ \E w \in Written : \E where \in [DOMAIN w -> Children] :
          /\ \A i, j \in DOMAIN w : i < j /\ where[i] = Memtable => where[j] = Memtable
          /\ entries = Placed(w, where)
          /\ last = Cardinality(DOMAIN w)
    /\ sequence \in 0..last
    /\ pos = [c \in Children |-> NoEntry] /\ cur = NoChild
    /\ heading = "forward" /\ direction = "forward"
    /\ valid = FALSE /\ saved = NotSaved
    /\ skipping = FALSE /\ deletion = TRUE
    /\ pc = "idle" /\ call = [op |-> "none", key |-> 0] /\ from = <<0, 0>>

(***************************************************************************)
(* A writer adds to the memtable.                                          *)
(***************************************************************************)
Insert(k, del) ==
    /\ last < MaxSeq
    /\ last' = last + 1
    /\ entries' = [entries EXCEPT ![Memtable] =
                      @ \cup {[key |-> k, seq |-> last', del |-> del]}]
    /\ UNCHANGED <<sequence, merged, direction, valid, saved, locals, pc, call, from>>

(***************************************************************************)
(* DBIter's operations, up to their first loop.                            *)
(***************************************************************************)
Called(op, k) ==
    /\ pc = "idle"
    /\ call' = [op |-> op, key |-> k]
    /\ from' = Position
    /\ UNCHANGED store

\* FindNextUserEntry(false, ...), if there is an entry to begin with.
FindFirst ==
    /\ direction' = "forward" /\ skipping' = FALSE
    /\ pc' = "forward"
    /\ UNCHANGED <<valid, deletion>>

SeekToFirst ==
    /\ Called("first", 0)
    /\ Forwards([c \in Children |-> Least(entries[c])])
    /\ FindFirst
    /\ saved' = [saved EXCEPT !.value = 0]

SeekTarget(k) == [key |-> k, seq |-> sequence]
Seek(k) ==
    /\ Called("seek", k)
    /\ Forwards([c \in Children |-> Sought(c, SeekTarget(k))])
    /\ FindFirst
    /\ saved' = NotSaved

SeekToLast ==
    /\ Called("last", 0)
    /\ Backwards([c \in Children |-> Greatest(entries[c])])
    /\ direction' = "reverse" /\ deletion' = TRUE
    /\ pc' = "backward"
    /\ saved' = [saved EXCEPT !.value = 0]
    /\ UNCHANGED <<valid, skipping>>

\* Next: forwards, the current key is to be skipped; in reverse, the merging
\* iterator stands before that key's entries.
DBNext ==
    /\ valid /\ Called("next", 0)
    /\ direction' = "forward" /\ skipping' = TRUE
    /\ IF direction = "forward"
       THEN /\ saved' = [saved EXCEPT !.key = Current.key]
            /\ pc' = "forward" /\ UNCHANGED merged
       ELSE /\ IF cur = NoChild
               THEN /\ Forwards([c \in Children |-> Least(entries[c])])
                    /\ pc' = "forward"
               ELSE SeekOthers /\ pc' = "turnnext"
            /\ UNCHANGED saved
    /\ UNCHANGED <<valid, deletion>>

Turned ==
    /\ \/ pc = "turnnext" /\ TurnNext /\ pc' = "forward"
       \/ pc = "turnprev" /\ TurnPrev /\ pc' = "leave"
    /\ UNCHANGED <<store, direction, valid, saved, locals, call, from>>

DBPrev ==
    /\ valid /\ Called("prev", 0)
    /\ IF direction = "forward"
       THEN /\ saved' = [saved EXCEPT !.key = Current.key]
            /\ SeekOthers
            /\ pc' = "turnprev" /\ UNCHANGED deletion
       ELSE /\ deletion' = TRUE
            /\ pc' = "backward" /\ UNCHANGED <<merged, saved>>
    /\ UNCHANGED <<direction, valid, skipping>>

(***************************************************************************)
(* One turn of their loops.                                                *)
(***************************************************************************)
Return(ok) == valid' = ok /\ pc' = "idle" /\ call' = [call EXCEPT !.op = "none", !.key = 0]

\* FindNextUserEntry: a deletion hides the key's entries that follow it,
\* and so does the key that Next leaves behind.
Hidden_Older(e) == skipping /\ e.key < saved.key
Hidden(e) == skipping /\ e.key <= saved.key
FindNextUserEntry ==
    /\ pc = "forward"
    /\ LET e == Current
       IN  \/ /\ e = NoEntry \/ (Readable(e) /\ ~e.del /\ ~Hidden(e))
              /\ Return(e # NoEntry)
              /\ saved' = [saved EXCEPT !.key = 0]
              /\ UNCHANGED <<merged, skipping, from>>
           \/ /\ e # NoEntry /\ ~(Readable(e) /\ ~e.del /\ ~Hidden(e))
              /\ IF Readable(e) /\ e.del
                 THEN saved' = [saved EXCEPT !.key = e.key] /\ skipping' = TRUE
                 ELSE UNCHANGED <<saved, skipping>>
              /\ MergedNext
              /\ UNCHANGED <<valid, pc, call, from>>
    /\ UNCHANGED <<store, direction, deletion>>

\* Prev, having turned: back over the entries of the current key.
LeaveKey ==
    /\ pc = "leave"
    /\ \/ /\ cur = NoChild
          /\ Return(FALSE) /\ saved' = NotSaved
          /\ UNCHANGED <<merged, direction, deletion>>
       \/ /\ cur # NoChild /\ Current.key < saved.key
          /\ direction' = "reverse" /\ deletion' = TRUE
          /\ pc' = "backward"
          /\ UNCHANGED <<merged, valid, saved, call>>
       \/ /\ cur # NoChild /\ Current.key >= saved.key
          /\ MergedPrev
          /\ UNCHANGED <<direction, valid, saved, deletion, pc, call>>
    /\ UNCHANGED <<store, skipping, from>>

\* FindPrevUserEntry: the last entry it meets of a key is the newest one.
\* It knows that it was the last from the next key's first entry.
PastKey_Same(e) == Readable(e) /\ ~deletion /\ e.key <= saved.key
PastKey(e) == Readable(e) /\ ~deletion /\ e.key < saved.key
FindPrevUserEntry ==
    /\ pc = "backward"
    /\ LET e == Current
       IN  \/ /\ e = NoEntry \/ PastKey(e)
              /\ Return(~deletion)
              /\ IF deletion THEN saved' = NotSaved /\ direction' = "forward"
                             ELSE UNCHANGED <<saved, direction>>
              /\ UNCHANGED <<merged, deletion>>
           \/ /\ e # NoEntry /\ ~PastKey(e)
              /\ IF Readable(e)
                 THEN /\ deletion' = e.del
                      /\ saved' = IF e.del THEN NotSaved
                                  ELSE [key |-> e.key, value |-> e.seq]
                 ELSE UNCHANGED <<deletion, saved>>
              /\ MergedPrev
              /\ UNCHANGED <<direction, valid, pc, call>>
    /\ UNCHANGED <<store, skipping, from>>

Next ==
    \/ \E k \in Keys, del \in BOOLEAN : Insert(k, del)
    \/ SeekToFirst \/ SeekToLast \/ \E k \in Keys : Seek(k)
    \/ DBNext \/ DBPrev
    \/ Turned \/ FindNextUserEntry \/ LeaveKey \/ FindPrevUserEntry

Spec == Init /\ [][Next]_vars

(***************************************************************************)
(* Properties.                                                             *)
(***************************************************************************)
\* The iterator is a cursor on the map that the reader's sequence number
\* shows, whatever is written meanwhile.
Promise == INSTANCE Cursor WITH
    view <- View,
    at   <- IF pc = "idle" THEN Position ELSE from
IsCursor == Promise!Spec

\* In reverse the merging iterator is "just before all entries whose user
\* key == this->key()" (db_iter.cc, DBIter::Direction): of those a reader may
\* see, none of that key is behind it and none of a smaller key ahead.
JustBefore ==
    pc = "idle" /\ valid /\ direction = "reverse" =>
        /\ Current.key < saved.key
        /\ \A e \in All : Readable(e) /\ e.key < saved.key =>
              cur # NoChild /\ ~Before(Current, e)

\* Nothing a reader may see is left out: whatever lies on the way of the
\* merging iterator is still on the way of the child that holds it.  (While
\* it turns back, an entry added between a child's Seek and its SeekToLast
\* puts it past the current one for a while: a reader never sees that one.)
NothingSkipped ==
    pc \notin {"turnnext", "turnprev", "leave"} =>
      \A c \in Children : \A e \in entries[c] :
        Readable(e) /\ cur # NoChild =>
          /\ heading = "forward" /\ Before(Current, e) =>
                pos[c] # NoEntry /\ ~Before(e, pos[c])
          /\ heading = "reverse" /\ Before(e, Current) =>
                pos[c] # NoEntry /\ ~Before(pos[c], e)
=============================================================================
