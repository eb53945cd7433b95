------------------------------- MODULE Sorting -------------------------------
(***************************************************************************)
(* Array.prototype.sort, which keeps elements of the same rank in their    *)
(* order: an element comes after those that are before it, and after those *)
(* of its rank that were in front of it.                                   *)
(***************************************************************************)
EXTENDS Integers, FiniteSets

\* The elements are those of a sequence, or of a part of one that keeps its places.
\* `before` holds the pairs of places of which the first has the lower rank.  Element i does
\* not come after element j, and the place at which an element ends up.
NotAfter(before, i, j) == <<i, j>> \in before \/ (i <= j /\ <<j, i>> \notin before)
Place(s, before, i) == Cardinality({j \in DOMAIN s : NotAfter(before, j, i)})

InOrder(s, before) ==
    [n \in 1 .. Cardinality(DOMAIN s) |-> s[CHOOSE i \in DOMAIN s : Place(s, before, i) = n]]
=============================================================================
