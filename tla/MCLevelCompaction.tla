--------------------------- MODULE MCLevelCompaction ---------------------------
(* Instances of LevelCompaction: what CompactRange is called with. *)
EXTENDS LevelCompaction, TLC

LowKey == {<<1, 1>>}
AllKeys == {<<1, 3>>}
================================================================================
