----------------------------- MODULE MCDelivery -----------------------------
(* Three reports of one slot: the same evidence, except that the third     *)
(* found one source failing; the second differs only in its source_stats.  *)
EXTENDS Delivery, TLC

Reports ==
    {[articles |-> "a", failures |-> {}, stats |-> 1],
     [articles |-> "a", failures |-> {}, stats |-> 2],
     [articles |-> "a", failures |-> {"cisa"}, stats |-> 1]}

(* The second run of the slot starts when the first is over.               *)
OneAfterTheOther ==
    \A v, w \in Writer :
        v # w /\ at[v] # "idle" /\ at[w] # "idle" =>
            \E u \in {v, w} : task[u] \in Over \/ at[u] \in {"failed", "dead"}
=============================================================================
