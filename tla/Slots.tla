------------------------------- MODULE Slots -------------------------------
(***************************************************************************)
(* What a quota promises: everyone who asks is told a limit and a bucket,  *)
(* and is then given at most one slot of that bucket, a number up to the   *)
(* limit that nobody else holds.  Slots are never taken back.              *)
(***************************************************************************)
EXTENDS Naturals

CONSTANTS Claim, Bucket

VARIABLES
    limit, bucket,   \* of each claim
    number           \* the slot it holds, or 0

Init ==
    /\ limit \in [Claim -> Nat]
    /\ bucket \in [Claim -> Bucket]
    /\ number = [k \in Claim |-> 0]

(* A claim without a slot may still get another limit or bucket.           *)
Ask(k) ==
    /\ number[k] = 0
    /\ limit' \in [Claim -> Nat] /\ bucket' \in [Claim -> Bucket]
    /\ \A j \in Claim \ {k} : limit'[j] = limit[j] /\ bucket'[j] = bucket[j]
    /\ UNCHANGED number

Take(k) ==
    /\ number[k] = 0
    /\ number' = [number EXCEPT ![k] = number'[k]]
    /\ number'[k] \in 1 .. limit[k]
    /\ \A j \in Claim \ {k} : bucket[j] = bucket[k] => number[j] # number'[k]
    /\ UNCHANGED <<limit, bucket>>

Next == \E k \in Claim : Ask(k) \/ Take(k)

Spec == Init /\ [][Next]_<<limit, bucket, number>>
=============================================================================
