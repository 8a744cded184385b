---------------------------- MODULE MCLevelStore ----------------------------
(* LevelStore for TLC: an asynchronous write, a synchronous one and a       *)
(* forced flush, or several of a kind; and the log format below it, on      *)
(* short blocks.                                                            *)
EXTENDS LevelStore, TLC
CONSTANTS a1, s1, f1

\* Calls of a kind are alike.
Alike == Permutations(Calls \ (Sync \cup Forced)) \cup Permutations(Sync) \cup Permutations(Forced)

\* One client, one call after another, no reader, and a failure before the
\* first crash: a part of the behaviours, to find a counterexample in.
OneClient == Len(queue) <= 1 /\ pins = {} /\ (crashes > 0 => faults > 0)

Format == INSTANCE LogFormat WITH BlockSize <- 5, HeaderSize <- 2

\* Up to three records, empty, within a block and over several; a file cut
\* anywhere, with two damaged fragments.  log::Reader returns what is whole
\* and not hidden, which is what ReadLog takes for granted.
Lengths == UNION {[1..n -> {0, 1, 3, 7}] : n \in 1..3}
Damages(log) == {{}} \cup {{f, g} : f, g \in Range(log)}
ASSUME ReadsBack ==
    \A lengths \in Lengths :
      LET log == Format!Log(lengths)
      IN  \A size \in 0..Format!FileSize(log) : \A damaged \in Damages(log) :
            Format!ReadAll(log, size, damaged) =
            Format!Readable(log, size, damaged)
=============================================================================
