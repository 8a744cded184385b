------------------------------- MODULE Cursor -------------------------------
(***************************************************************************)
(* What an iterator of the storage engine promises, apart from how it      *)
(* finds its way (include/leveldb/iterator.h): a position in one           *)
(* unchanging map, or none, that its five operations move.                 *)
(***************************************************************************)
EXTENDS Naturals

VARIABLES view,    \* the map: a function from keys to values
          call,    \* the operation that has been asked for, or Quiet
          at       \* <<key, value>>, or Nowhere

vars == <<view, call, at>>

Quiet == [op |-> "none", key |-> 0]
Nowhere == <<0, 0>>

\* The entry of the least, or of the greatest, of some keys.
Entry(k) == <<k, view[k]>>
FirstOf(S) ==
    IF S = {} THEN Nowhere ELSE Entry(CHOOSE k \in S : \A j \in S : k <= j)
LastOf(S) ==
    IF S = {} THEN Nowhere ELSE Entry(CHOOSE k \in S : \A j \in S : j <= k)

Result ==
    LET S == DOMAIN view
    IN  CASE call.op = "first" -> FirstOf(S)
          [] call.op = "last"  -> LastOf(S)
          [] call.op = "seek"  -> FirstOf({k \in S : k >= call.key})
          [] call.op = "next"  -> FirstOf({k \in S : k > at[1]})
          [] call.op = "prev"  -> LastOf({k \in S : k < at[1]})

Init == call = Quiet /\ at = Nowhere

\* Next and Prev require a position.
Ask ==
    /\ call = Quiet /\ call'.op \in {"first", "last", "seek", "next", "prev"}
    /\ call'.op \in {"next", "prev"} => at # Nowhere
    /\ UNCHANGED <<view, at>>

Answer ==
    /\ call # Quiet /\ call' = Quiet
    /\ at' = Result
    /\ UNCHANGED view

Next == Ask \/ Answer

Spec == Init /\ [][Next]_vars
=============================================================================
