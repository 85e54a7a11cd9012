------------------------------ MODULE MCArchive ------------------------------
(* Model checking of Archive: any source may be the one of all articles,   *)
(* and runs are interchangeable.                                           *)
EXTENDS Archive, TLC

TheSource == [a \in Article |-> CHOOSE s \in Source : TRUE]

Symmetric == Permutations(Run)
=============================================================================
