--------------------------- MODULE MCLevelIterator ---------------------------
(* LevelIterator for TLC: a memtable and one table. *)
EXTENDS LevelIterator, TLC
CONSTANTS table
=============================================================================
