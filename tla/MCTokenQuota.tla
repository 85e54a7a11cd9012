---------------------------- MODULE MCTokenQuota ----------------------------
(* Model checking of TokenQuota: calls are interchangeable.                *)
EXTENDS TokenQuota, TLC

Symmetric == Permutations(Call)
=============================================================================
