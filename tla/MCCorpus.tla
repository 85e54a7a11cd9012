------------------------------ MODULE MCCorpus ------------------------------
(* Three collections of a slot: a full one, one that no longer reads the   *)
(* bodies, and one as large as the first with another value.               *)
EXTENDS Corpus

Collections ==
    {[articles |-> 2, values |-> {"a"}],
     [articles |-> 2, values |-> {}],
     [articles |-> 2, values |-> {"b"}]}

Full == CHOOSE e \in Collections : e.values = {"a"}
TwoCollections == {e \in Collections : e.values # {"b"}}
OneCollection == {e \in Collections : e.values = {"a"}}

(* Two ways through the slots: everything in two of them, or the host alone *)
(* in all of them, each run collecting the same.                           *)
TwoSlotsOrHostAlone ==
    \/ today <= 2 /\ runs <= 3
    \/ /\ run["ci"].phase = "idle"
       /\ \A d \in Day : {folder[d], stored[d]} \subseteq {Full, None}

(* No lookup overlaps a push. *)
LookupsAlone == lookup.open => \A s \in Site : run[s].phase # "execute"
=============================================================================
