------------------------------- MODULE Sorted -------------------------------
(***************************************************************************)
(* Python's sorted() and the comprehensions that pass over some places of  *)
(* a list, as functions of the rank.  An order is a set of pairs; where it *)
(* is a strict total order on S, exactly one member has each rank.         *)
(***************************************************************************)
EXTENDS Integers, SequencesExt

(* The members of a finite set, those that come before the others first.   *)
InOrder(S, before) ==
    [n \in 1 .. Cardinality(S) |->
        CHOOSE x \in S : Cardinality({y \in S : <<y, x>> \in before}) = n - 1]

Ascending(S) ==
    [n \in 1 .. Cardinality(S) |->
        CHOOSE x \in S : Cardinality({y \in S : y < x}) = n - 1]

(* The elements of a sequence at some of its places.                       *)
At(seq, places) ==
    LET order == Ascending(places)
    IN  [n \in DOMAIN order |-> seq[order[n]]]
=============================================================================
