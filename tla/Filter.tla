------------------------------- MODULE Filter -------------------------------
(* A sequence cut down to the members of a set, in their order: what        *)
(* SelectSeq returns, defined by places instead of recursion.               *)
EXTENDS Naturals, Sequences, FiniteSets

PlacesOf(s, S) == {i \in DOMAIN s : s[i] \in S}

(* The k-th number of a set of them.                                        *)
Nth(P, k) == CHOOSE i \in P : Cardinality({j \in P : j <= i}) = k

Only(s, S) == [k \in 1 .. Cardinality(PlacesOf(s, S)) |-> s[Nth(PlacesOf(s, S), k)]]
=============================================================================
