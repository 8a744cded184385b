---------------------------- MODULE DurableStore ----------------------------
(***************************************************************************)
(* What the storage engine promises about writes, apart from how it keeps  *)
(* them (include/leveldb/db.h, options.h): a write is in limbo while its   *)
(* call runs, readers see the committed ones, a crash may take away those  *)
(* that are not yet safe and may bring in those that were in limbo, and a  *)
(* synchronous write is acknowledged only once it is safe.                 *)
(***************************************************************************)
CONSTANTS Batches,   \* the write calls that carry a batch
          Sync       \* those of them with WriteOptions::sync

VARIABLES present,   \* writes a reader sees, or would see after Open
          safe,      \* writes no crash can take away
          limbo,     \* writes whose call has begun and that are not present
          acked      \* writes whose call has returned ok

vars == <<present, safe, limbo, acked>>

TypeOK ==
    /\ present \subseteq Batches
    /\ safe \subseteq Batches
    /\ limbo \subseteq Batches
    /\ acked \subseteq Batches

Init ==
    /\ present = {}
    /\ safe = {}
    /\ limbo = {}
    /\ acked = {}

Submit(c) ==
    /\ c \notin present \cup limbo
    /\ limbo' = limbo \cup {c}
    /\ UNCHANGED <<present, safe, acked>>

\* A group of writes becomes visible at once and is acknowledged.
Commit(S) ==
    /\ S \subseteq limbo
    /\ present' = present \cup S
    /\ limbo' = limbo \ S
    /\ acked' = acked \cup S
    /\ S \cap Sync \subseteq safe'
    /\ safe \subseteq safe' /\ safe' \subseteq present' \cup limbo'

\* Writes become safe in the background (a synced log, a synced table).
Harden ==
    /\ safe \subseteq safe' /\ safe' \subseteq present \cup limbo
    /\ UNCHANGED <<present, limbo, acked>>

\* A crash of the process or of the machine, or an orderly close.
Crash ==
    /\ safe \subseteq present' /\ present' \subseteq present \cup limbo
    /\ safe \subseteq safe' /\ safe' \subseteq present'
    /\ limbo' = {}
    /\ UNCHANGED acked

Next ==
    \/ \E c \in Batches : Submit(c)
    \/ \E S \in SUBSET limbo : Commit(S)
    \/ Harden
    \/ Crash

Spec == Init /\ [][Next]_vars
=============================================================================
