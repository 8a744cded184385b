------------------------------ MODULE LogFormat ------------------------------
(***************************************************************************)
(* The log of the storage engine (Pods/leveldb-library, db/log_writer.cc,  *)
(* db/log_reader.cc): how records are cut into the fragments of blocks,    *)
(* and which of them a reader returns of a file that was cut short and     *)
(* damaged.  A fragment is its place, its type and the piece of a record   *)
(* it holds; a damaged one is one whose checksum fails.                    *)
(***************************************************************************)
EXTENDS Naturals, Sequences, SequencesExt

CONSTANTS BlockSize, HeaderSize    \* kBlockSize, kHeaderSize

Shorter(a, b) == IF a < b THEN a ELSE b
NextBlock(o) == (o \div BlockSize + 1) * BlockSize

(***************************************************************************)
(* Writer::AddRecord.                                                      *)
(***************************************************************************)
FragmentType(begin, end) ==
    CASE begin /\ end -> "full"  [] begin /\ ~end -> "first"
      [] ~begin /\ end -> "last" [] OTHER -> "middle"

\* No header is split: a shorter rest of a block is filled up.
Start(o) == IF NextBlock(o) - o < HeaderSize THEN NextBlock(o) ELSE o

RECURSIVE Fragments(_, _, _, _)
Fragments(rec, o, piece, left) ==
    LET start == Start(o)
        n     == Shorter(left, NextBlock(start) - start - HeaderSize)
        f == [off |-> start, type |-> FragmentType(piece = 1, n = left),
              rec |-> rec, piece |-> piece, len |-> n]
    IN  <<f>> \o IF left = n THEN <<>>
                 ELSE Fragments(rec, start + HeaderSize + n, piece + 1, left - n)

EndOf(f) == f.off + HeaderSize + f.len
FileSize(log) == IF log = <<>> THEN 0 ELSE EndOf(Last(log))
AddRecord(log, length) ==
    LET rec == IF log = <<>> THEN 1 ELSE Last(log).rec + 1
    IN  log \o Fragments(rec, FileSize(log), 1, length)

\* The log of records of these lengths.
Log(lengths) == FoldLeft(AddRecord, <<>>, lengths)

(***************************************************************************)
(* Reader: what ReadPhysicalRecord returns from offset o on, and what      *)
(* ReadRecord makes of it.                                                 *)
(***************************************************************************)
Bad == [type |-> "bad"]

RECURSIVE Physical(_, _, _, _)
Physical(log, size, damaged, o) ==
    LET end  == Shorter(size, NextBlock(o))
        skip == IF size < NextBlock(o) THEN <<>>
                ELSE Physical(log, size, damaged, NextBlock(o))
        f == CHOOSE g \in Range(log) : g.off = o
    IN  IF end - o < HeaderSize THEN skip
        ELSE IF EndOf(f) > end THEN <<>>
        ELSE IF f \in damaged THEN <<Bad>> \o skip
        ELSE <<f>> \o Physical(log, size, damaged, EndOf(f))

Unread == [scratch |-> <<>>, fragmented |-> FALSE, records |-> <<>>]
Returns(s, record) ==
    [scratch |-> <<>>, fragmented |-> FALSE, records |-> Append(s.records, record)]

ReadRecord(s, r) ==
    CASE r.type = "full"  -> Returns(s, <<r>>)
      [] r.type = "first" -> [s EXCEPT !.scratch = <<r>>, !.fragmented = TRUE]
      [] r.type = "middle" /\ s.fragmented -> [s EXCEPT !.scratch = Append(@, r)]
      [] r.type = "last" /\ s.fragmented   -> Returns(s, Append(s.scratch, r))
      [] r.type = "bad" -> [s EXCEPT !.scratch = <<>>, !.fragmented = FALSE]
      [] OTHER -> s

ReadAll(log, size, damaged) ==
    FoldLeft(ReadRecord, Unread, Physical(log, size, damaged, 0)).records

(***************************************************************************)
(* What is to be expected of it.                                           *)
(***************************************************************************)
Block(f) == f.off \div BlockSize
Intact(log, size, damaged, f) ==
    /\ EndOf(f) <= size
    /\ \A d \in damaged : Block(d) = Block(f) => d.off > f.off

\* The records of which every fragment is in the file, undamaged and not
\* behind a damaged one in its block: whole, in the order of writing, and
\* nothing else.
Record(log, i) == SelectSeq(log, LAMBDA f : f.rec = i)
Readable(log, size, damaged) ==
    LET n == IF log = <<>> THEN 0 ELSE Last(log).rec
        whole == SelectSeq([i \in 1..n |-> i], LAMBDA i :
                    \A f \in Range(Record(log, i)) : Intact(log, size, damaged, f))
    IN  [i \in 1..Len(whole) |-> Record(log, whole[i])]
=============================================================================
