------------------------- MODULE FeedExportProofs --------------------------
(***************************************************************************)
(* Proofs about FeedExport, for any lists, hours, caps and bounds: type    *)
(* correctness, what the tables hold, expiry, the next refresh, and that a *)
(* batch writes only what changes.                                         *)
(***************************************************************************)
EXTENDS FeedExport, TLAPS

(* Nothing is dated ahead of the clock, and a run's own batch is the first *)
(* of its hour, so that the hour tells whether an answer is of the last    *)
(* refresh.                                                                *)
Dated ==
    /\ pushed # None => pushed <= now
    /\ pc # "done" => pushed # now /\ \A s \in Sources : good[s] # None =>
                                         good[s].at # now
    /\ \A s \in Sources : good[s] # None =>
          pushed # None /\ good[s].at <= pushed
    /\ \A r \in table["et_compromised"] : r.seen <= now

(* What is in hand between the analyser's answer and the batch.  A list    *)
(* has one row a value, as a table does: what a batch writes is told from  *)
(* what the table shows by that.                                           *)
InHand ==
    /\ pc # "push" => \A s \in Sources : answer[s] = None
    /\ \A s \in Sources : answer[s] # None => OneRowAValue(answer[s])
    /\ answer["et_compromised"] # None =>
          \A r \in answer["et_compromised"] : r.seen = now

IInv ==
    /\ TypeOK
    /\ TablesHoldTheLastAnswers
    /\ DeadInfrastructureGoes
    /\ RefreshInTime
    /\ \A s \in Sources : OneRowAValue(table[s])
    /\ Dated
    /\ InHand

-----------------------------------------------------------------------------
(* The rows of an answer.                                                  *)

LEMMA KeptRows ==
    ASSUME TypeOK, NEW s \in Sources, NEW rows \in SUBSET RowsOf(s),
           NEW kept \in Kept(s, rows)
    PROVE  /\ kept \in SUBSET Rows(s)
           /\ OneRowAValue(kept)
           /\ s = "et_compromised" => \A r \in kept : r.seen = now
  <1> DEFINE newest == {Stamped(s, r) : r \in Newest(rows)}
  <1>1. kept \in SUBSET newest /\ OneRowAValue(kept)
    BY DEF Kept
  <1>2. 0 .. now \subseteq Hours /\ 0 \in Hours /\ now \in Hours
    BY HoursAssumption, BoundsAssumption DEF TypeOK, Hours
  <1>3. \A r \in RowsOf(s) : /\ r.val \in Values[s] /\ r.seen \in Hours
                             /\ r.by \in {"last", "first"}
                             /\ r.says \in OrNone(Says)
    BY <1>2 DEF RowsOf, OrNone
  <1>4. \A r \in RowsOf(s) : /\ Stamped(s, r) \in Rows(s)
                             /\ s = "et_compromised" => Stamped(s, r).seen = now
    BY <1>2, <1>3 DEF Stamped, Rows
  <1>5. Newest(rows) \subseteq RowsOf(s)
    BY DEF Newest
  <1> QED BY <1>1, <1>4, <1>5

LEMMA ResultRows ==
    ASSUME TypeOK, NEW s \in Sources, NEW a \in Results(s)
    PROVE  /\ a \in OrNone(SUBSET Rows(s))
           /\ a # None => OneRowAValue(a)
           /\ s = "et_compromised" /\ a # None => \A r \in a : r.seen = now
  <1>1. CASE a = None
    BY <1>1 DEF OrNone
  <1>2. CASE a # None
    <2>1. PICK kept \in UNION {Kept(s, rows) : rows \in Listed(s)} :
              a = Result(s, kept)
      BY <1>2 DEF Results
    <2>2. a = kept
      BY <1>2, <2>1 DEF Result
    <2>3. PICK rows \in Listed(s) : a \in Kept(s, rows)
      BY <2>1, <2>2
    <2>4. rows \in SUBSET RowsOf(s)
      <3>1. CASE rows = {}
        BY <3>1
      <3>2. CASE rows # {}
        <4>1. PICK list \in [1 .. MaxListed -> RowsOf(s)] : rows = Range(list)
          BY <3>2 DEF Listed
        <4>2. rows = {list[x] : x \in 1 .. MaxListed}
          BY <4>1 DEF Range
        <4> QED BY <4>2
      <3> QED BY <3>1, <3>2
    <2> QED BY <2>3, <2>4, KeptRows DEF OrNone
  <1> QED BY <1>1, <1>2

-----------------------------------------------------------------------------
(* The batch of each source.                                               *)

(* The value of r had a row without a last_seen that said the same, which  *)
(* is there still or past the retention.                                   *)
ItsDateIsKept(r, old, rows) ==
    /\ r.by = "first"
    /\ \E q \in old : /\ q.val = r.val /\ q.by = "first" /\ q.says = r.says
                      /\ q \in rows \/ q.seen + Retention < now

ThreatBatchShows(old, kept) ==
    LET b == ThreatBatch(old, kept)
    IN  /\ b.rows \in SUBSET Rows("threatfox")
        /\ OneRowAValue(b.rows)
        /\ Expired(b.rows) = {}
        /\ b.wrote \in SUBSET Values["threatfox"]
        /\ b.wrote = Vals((b.rows \ old) \cup (old \ b.rows))
        /\ kept = None => b.rows = old \ Expired(old)
        /\ kept # None => \A r \in kept \ Expired(kept) :
              r \in b.rows \/ ItsDateIsKept(r, old, b.rows)

LEMMA ThreatStep ==
    ASSUME TypeOK, NEW old \in SUBSET Rows("threatfox"),
           NEW kept \in OrNone(SUBSET Rows("threatfox")),
           OneRowAValue(old), kept # None => OneRowAValue(kept)
    PROVE  ThreatBatchShows(old, kept)
  <1> DEFINE rows == IF kept = None THEN {}
                     ELSE Upserted(old, kept \ Expired(kept))
             after == Replace(old, rows)
             shown == after \ Expired(after)
  <1>1. rows \in SUBSET Rows("threatfox") /\ OneRowAValue(rows)
    BY DEF OrNone, OneRowAValue, Upserted
  <1>o. rows \cap old = {}
    BY DEF Upserted, Differs
  <1>e. Expired(rows) = {}
    BY DEF Upserted, Expired
  <1>2. /\ ThreatBatch(old, kept).rows = shown
        /\ ThreatBatch(old, kept).wrote = Vals(rows) \cup Vals(Expired(after))
    BY DEF ThreatBatch
  <1>3. now \in Nat /\ Retention \in Nat
    BY HoursAssumption, BoundsAssumption DEF TypeOK, Hours
  <1>4. \A r \in Rows("threatfox") : r.seen \in Nat /\ r.val \in Values["threatfox"]
    BY BoundsAssumption DEF Rows, Hours
  <1>5. after \in SUBSET Rows("threatfox") /\ OneRowAValue(after)
    BY <1>1 DEF Replace, OneRowAValue, Vals
  <1>6. Expired(shown) = {}
    BY DEF Expired
  <1>7. rows \subseteq shown
    BY <1>e DEF Replace, Expired
  <1>8. shown \ old = rows
    BY <1>7, <1>o DEF Replace
  <1>9. Vals(rows) \cup Vals(Expired(after)) =
          Vals((shown \ old) \cup (old \ shown))
    <2>1. Expired(after) \subseteq old \ shown
      BY <1>7 DEF Replace, Expired
    <2>2. ASSUME NEW r \in old \ shown
          PROVE  r.val \in Vals(rows) \cup Vals(Expired(after))
      <3>1. CASE r.val \in Vals(rows)
        BY <3>1
      <3>2. CASE r.val \notin Vals(rows)
        <4>1. r \in after
          BY <3>2 DEF Replace
        <4>2. r \in Expired(after)
          BY <4>1 DEF Expired
        <4> QED BY <4>2 DEF Vals
      <3> QED BY <3>1, <3>2
    <2>3. Vals((shown \ old) \cup (old \ shown)) =
            Vals(rows) \cup Vals(old \ shown)
      BY <1>8 DEF Vals
    <2>4. Vals(Expired(after)) \subseteq Vals(old \ shown)
      BY <2>1 DEF Vals
    <2>5. Vals(old \ shown) \subseteq Vals(rows) \cup Vals(Expired(after))
      BY <2>2 DEF Vals
    <2> QED BY <2>3, <2>4, <2>5
  <1>10. Vals((shown \ old) \cup (old \ shown)) \in SUBSET Values["threatfox"]
    BY <1>4, <1>5 DEF Vals
  <1>11. kept = None => shown = old \ Expired(old)
    BY DEF Replace, Vals, Expired
  <1>12. OneRowAValue(shown)
    BY <1>5 DEF OneRowAValue
  <1>13. ASSUME kept # None, NEW r \in kept \ Expired(kept), r \notin shown
         PROVE  ItsDateIsKept(r, old, shown)
    <2>1. r \notin rows
      BY <1>7, <1>13
    <2>2. PICK q \in old : q.val = r.val /\ ~Differs(q, r)
      BY <1>13, <2>1 DEF Upserted
    <2>3. q \in Rows("threatfox") /\ r \in Rows("threatfox")
      BY <1>13 DEF OrNone
    <2>4. \A x \in rows : x.val # r.val
      <3> SUFFICES ASSUME NEW x \in rows, x.val = r.val PROVE FALSE
        OBVIOUS
      <3>1. x \in kept
        BY <1>13 DEF Upserted
      <3> QED BY <1>13, <2>1, <3>1 DEF OneRowAValue
    <2>5. q \in after
      BY <2>2, <2>4 DEF Replace, Vals
    <2>6. q \in shown \/ q.seen + Retention < now
      BY <2>5 DEF Expired
    <2>7. q.by = r.by /\ q.says = r.says /\ (r.by = "last" => q.seen = r.seen)
      BY <2>2 DEF Differs
    <2>8. r.by \in {"last", "first"}
      BY <2>3 DEF Rows
    <2>9. r.by # "last"
      <3> SUFFICES ASSUME r.by = "last" PROVE FALSE
        OBVIOUS
      <3>1. q = r
        BY <2>2, <2>3, <2>7 DEF Rows
      <3> QED BY <1>13, <2>6, <3>1 DEF Expired
    <2> QED BY <2>2, <2>6, <2>7, <2>8, <2>9 DEF ItsDateIsKept
  <1> QED BY <1>2, <1>5, <1>6, <1>9, <1>10, <1>11, <1>12, <1>13 DEF ThreatBatchShows

LEMMA FeodoStep ==
    ASSUME NEW old \in SUBSET Rows("feodo"),
           NEW kept \in OrNone(SUBSET Rows("feodo")),
           OneRowAValue(old), kept # None => OneRowAValue(kept)
    PROVE  LET b == FeodoBatch(old, kept)
           IN  /\ b.rows = IF kept = None THEN old ELSE kept
               /\ b.rows \in SUBSET Rows("feodo")
               /\ OneRowAValue(b.rows)
               /\ b.wrote \in SUBSET Values["feodo"]
  BY DEF FeodoBatch, OrNone, Vals, Rows

LEMMA EtStep ==
    ASSUME TypeOK, NEW old \in SUBSET Rows("et_compromised"),
           NEW kept \in OrNone(SUBSET Rows("et_compromised")),
           OneRowAValue(old), kept # None => OneRowAValue(kept),
           \A r \in old : r.seen <= now,
           kept # None => \A r \in kept : r.seen = now
    PROVE  LET b == EtBatch(old, kept)
           IN  /\ b.rows \in SUBSET Rows("et_compromised")
               /\ OneRowAValue(b.rows)
               /\ \A r \in b.rows : r.seen <= now
               /\ b.wrote \in SUBSET Values["et_compromised"]
               /\ b.wrote = Vals((b.rows \ old) \cup (old \ b.rows))
               /\ kept \in {None, {}} => b.rows = old
               /\ kept \notin {None, {}} => Vals(b.rows) = Vals(kept)
  <1>1. CASE kept = None \/ kept = {}
    BY <1>1 DEF EtBatch, Vals
  <1>2. CASE kept # None /\ kept # {}
    <2> DEFINE stay == {r \in old : r.val \in Vals(kept)}
               shown == Replace(kept, stay)
    <2>1. /\ EtBatch(old, kept).rows = shown
          /\ EtBatch(old, kept).wrote = (Vals(old) \ Vals(stay)) \cup
                                        (Vals(kept) \ Vals(stay))
      BY <1>2 DEF EtBatch
    <2>2. kept \in SUBSET Rows("et_compromised")
      BY <1>2 DEF OrNone
    <2>3. shown \in SUBSET Rows("et_compromised")
      BY <2>2 DEF Replace
    <2>4. OneRowAValue(shown)
      BY <1>2 DEF Replace, OneRowAValue, Vals
    <2>5. \A r \in shown : r.seen <= now
      BY <1>2, BoundsAssumption DEF Replace, TypeOK, Hours
    <2>6. Vals(shown) = Vals(kept)
      BY DEF Replace, Vals
    <2>7. \A r \in old : r \in shown <=> r.val \in Vals(kept)
      <3> TAKE r \in old
      <3>1. r.val \in Vals(kept) => r \in shown
        BY DEF Replace
      <3>2. r \in shown => r.val \in Vals(kept)
        BY <2>6 DEF Vals
      <3> QED BY <3>1, <3>2
    <2>8. Vals(old \ shown) = Vals(old) \ Vals(stay)
      BY <2>7 DEF Vals
    <2>9. Vals(shown \ old) = Vals(kept) \ Vals(stay)
      <3>1. shown \ old = {r \in kept : r.val \notin Vals(stay)} \ old
        BY DEF Replace
      <3>2. \A r \in kept : r.val \notin Vals(stay) => r \notin old
        BY DEF Vals
      <3> QED BY <3>1, <3>2 DEF Vals
    <2>10. Vals((shown \ old) \cup (old \ shown)) =
             Vals(shown \ old) \cup Vals(old \ shown)
      BY DEF Vals
    <2>11. Vals(old) \subseteq Values["et_compromised"] /\
           Vals(kept) \subseteq Values["et_compromised"]
      BY <2>2 DEF Vals, Rows
    <2> QED BY <1>2, <2>1, <2>3, <2>4, <2>5, <2>6, <2>8, <2>9, <2>10, <2>11
  <1> QED BY <1>1, <1>2

(* A batch leaves every source with rows of its type, one a value, and     *)
(* what its tables hold is what the properties say.                        *)
LEMMA BatchStep ==
    ASSUME IInv, pc = "push", Apply, UNCHANGED now
    PROVE  /\ \A s \in Sources :
                /\ table'[s] \in SUBSET Rows(s)
                /\ OneRowAValue(table'[s])
                /\ wrote'[s] \in SUBSET Values[s]
           /\ \A r \in table'["threatfox"] : r.seen + Retention >= now
           /\ \A r \in table'["et_compromised"] : r.seen <= now
           /\ \A s \in {"threatfox", "et_compromised"} :
                wrote'[s] = Vals((table'[s] \ table[s]) \cup
                                 (table[s] \ table'[s]))
           /\ answer["threatfox"] = None =>
                table'["threatfox"] = table["threatfox"] \ Expired(table["threatfox"])
           /\ answer["threatfox"] # None =>
                \A r \in answer["threatfox"] \ Expired(answer["threatfox"]) :
                   \/ r \in table'["threatfox"]
                   \/ ItsDateIsKept(r, table["threatfox"], table'["threatfox"])
           /\ table'["feodo"] = IF answer["feodo"] = None THEN table["feodo"]
                                ELSE answer["feodo"]
           /\ answer["et_compromised"] \in {None, {}} =>
                table'["et_compromised"] = table["et_compromised"]
           /\ answer["et_compromised"] \notin {None, {}} =>
                Vals(table'["et_compromised"]) = Vals(answer["et_compromised"])
  <1>1. \A s \in Sources : table'[s] = Batch(s).rows /\ wrote'[s] = Batch(s).wrote
    BY DEF Apply
  <1>2. \A s \in Sources : /\ table[s] \in SUBSET Rows(s) /\ OneRowAValue(table[s])
                           /\ answer[s] \in OrNone(SUBSET Rows(s))
                           /\ answer[s] # None => OneRowAValue(answer[s])
    BY DEF IInv, TypeOK, InHand
  <1>3. TypeOK /\ (\A r \in table["et_compromised"] : r.seen <= now)
        /\ (answer["et_compromised"] # None =>
              \A r \in answer["et_compromised"] : r.seen = now)
    BY DEF IInv, Dated, InHand
  <1>4. Sources = {"threatfox", "feodo", "et_compromised"}
    BY DEF Sources
  <1> DEFINE t == "threatfox"
             f == "feodo"
             e == "et_compromised"
  <1>5. /\ Batch(t) = ThreatBatch(table[t], answer[t])
        /\ Batch(f) = FeodoBatch(table[f], answer[f])
        /\ Batch(e) = EtBatch(table[e], answer[e])
    BY DEF Batch
  <1>6. /\ table'[t] \in SUBSET Rows(t) /\ OneRowAValue(table'[t])
        /\ \A r \in table'[t] : r.seen + Retention >= now
        /\ wrote'[t] \in SUBSET Values[t]
        /\ wrote'[t] = Vals((table'[t] \ table[t]) \cup (table[t] \ table'[t]))
        /\ answer[t] = None => table'[t] = table[t] \ Expired(table[t])
        /\ answer[t] # None => \A r \in answer[t] \ Expired(answer[t]) :
              r \in table'[t] \/ ItsDateIsKept(r, table[t], table'[t])
    <2> DEFINE b == ThreatBatch(table[t], answer[t])
    <2>1. /\ b.rows \in SUBSET Rows(t) /\ OneRowAValue(b.rows)
          /\ Expired(b.rows) = {}
          /\ b.wrote \in SUBSET Values[t]
          /\ b.wrote = Vals((b.rows \ table[t]) \cup (table[t] \ b.rows))
          /\ answer[t] = None => b.rows = table[t] \ Expired(table[t])
          /\ answer[t] # None => \A r \in answer[t] \ Expired(answer[t]) :
                r \in b.rows \/ ItsDateIsKept(r, table[t], b.rows)
      <3>1. TypeOK /\ table[t] \in SUBSET Rows(t) /\ OneRowAValue(table[t])
            /\ answer[t] \in OrNone(SUBSET Rows(t))
            /\ (answer[t] # None => OneRowAValue(answer[t]))
        BY <1>2, <1>3, <1>4
      <3>2. ThreatBatchShows(table[t], answer[t])
        BY ONLY <3>1, ThreatStep
      <3> QED BY ONLY <3>2 DEF ThreatBatchShows
    <2>2. table'[t] = b.rows /\ wrote'[t] = b.wrote
      BY <1>1, <1>4, <1>5
    <2>3. \A r \in table'[t] : r.seen + Retention >= now
      <3>1. now \in Nat /\ Retention \in Nat /\ \A r \in Rows(t) : r.seen \in Nat
        BY <1>3, HoursAssumption, BoundsAssumption DEF TypeOK, Hours, Rows
      <3>2. Expired(table'[t]) = {} /\ table'[t] \in SUBSET Rows(t)
        BY <2>1, <2>2
      <3> QED BY <3>1, <3>2 DEF Expired
    <2> QED BY <2>1, <2>2, <2>3
  <1>7. /\ table'[f] = IF answer[f] = None THEN table[f] ELSE answer[f]
        /\ table'[f] \in SUBSET Rows(f) /\ OneRowAValue(table'[f])
        /\ wrote'[f] \in SUBSET Values[f]
    <2> DEFINE b == FeodoBatch(table[f], answer[f])
    <2>1. /\ b.rows = IF answer[f] = None THEN table[f] ELSE answer[f]
          /\ b.rows \in SUBSET Rows(f) /\ OneRowAValue(b.rows)
          /\ b.wrote \in SUBSET Values[f]
      <3>1. table[f] \in SUBSET Rows(f) /\ OneRowAValue(table[f])
            /\ answer[f] \in OrNone(SUBSET Rows(f))
            /\ (answer[f] # None => OneRowAValue(answer[f]))
        BY <1>2, <1>4
      <3> QED BY ONLY <3>1, FeodoStep
    <2>2. table'[f] = b.rows /\ wrote'[f] = b.wrote
      BY <1>1, <1>4, <1>5
    <2> QED BY <2>1, <2>2
  <1>8. /\ table'[e] \in SUBSET Rows(e) /\ OneRowAValue(table'[e])
        /\ \A r \in table'[e] : r.seen <= now
        /\ wrote'[e] \in SUBSET Values[e]
        /\ wrote'[e] = Vals((table'[e] \ table[e]) \cup (table[e] \ table'[e]))
        /\ answer[e] \in {None, {}} => table'[e] = table[e]
        /\ answer[e] \notin {None, {}} => Vals(table'[e]) = Vals(answer[e])
    <2> DEFINE b == EtBatch(table[e], answer[e])
    <2>1. /\ b.rows \in SUBSET Rows(e) /\ OneRowAValue(b.rows)
          /\ \A r \in b.rows : r.seen <= now
          /\ b.wrote \in SUBSET Values[e]
          /\ b.wrote = Vals((b.rows \ table[e]) \cup (table[e] \ b.rows))
          /\ answer[e] \in {None, {}} => b.rows = table[e]
          /\ answer[e] \notin {None, {}} => Vals(b.rows) = Vals(answer[e])
      <3>1. TypeOK /\ table[e] \in SUBSET Rows(e) /\ OneRowAValue(table[e])
            /\ answer[e] \in OrNone(SUBSET Rows(e))
            /\ (answer[e] # None => OneRowAValue(answer[e]))
            /\ (\A r \in table[e] : r.seen <= now)
            /\ (answer[e] # None => \A r \in answer[e] : r.seen = now)
        BY <1>2, <1>3, <1>4
      <3> QED BY ONLY <3>1, EtStep
    <2>2. table'[e] = b.rows /\ wrote'[e] = b.wrote
      BY <1>1, <1>4, <1>5
    <2> QED BY <2>1, <2>2
  <1> QED BY <1>4, <1>6, <1>7, <1>8

LEMMA ApplyKeepsIInv ==
    ASSUME IInv, pc = "push", Apply, Ends, UNCHANGED now,
           faults' \in 0 .. MaxFaults, lost' \in BOOLEAN, mailed' \in OrNone(Hours)
    PROVE  IInv'
  <1> DEFINE t == "threatfox"
             f == "feodo"
             e == "et_compromised"
  <1> USE DEF IInv
  <1>1. now \in Hours /\ Hours \subseteq Nat /\ now \in Nat
        /\ Retention \in Nat /\ FeedHours \in Nat \ {0} /\ now # None
    BY HoursAssumption, BoundsAssumption, NoneAssumption DEF TypeOK, Hours
  <1>2. Sources = {t, f, e}
    BY DEF Sources
  <1>3. pushed' = now /\ now' = now /\ pc' = "done" /\ latest' = None
        /\ \A s \in Sources : answer'[s] = None
    BY DEF Apply, Ends, NoAnswer
  <1>4. \A s \in Sources :
          good'[s] = IF answer[s] = None THEN good[s]
                     ELSE [at |-> now, rows |-> answer[s]]
    BY DEF Apply
  <1>5. \A s \in Sources : answer[s] # None =>
          /\ good'[s] \in Answers(s) /\ good'[s] # None
          /\ good'[s].at = now /\ good'[s].rows = answer[s]
    <2>1. \A s \in Sources : answer[s] # None =>
            [at |-> now, rows |-> answer[s]] \in Answers(s)
      BY <1>1 DEF TypeOK, OrNone, Answers
    <2> SUFFICES ASSUME NEW s \in Sources, answer[s] # None
                 PROVE  /\ good'[s] \in Answers(s) /\ good'[s] # None
                        /\ good'[s].at = now /\ good'[s].rows = answer[s]
      OBVIOUS
    <2>2. good'[s] = [at |-> now, rows |-> answer[s]]
      BY <1>4
    <2>3. None \notin Answers(s)
      BY NoneAssumption
    <2> QED BY <2>1, <2>2, <2>3
  <1>6. feed' = [s \in Sources |-> FeedRow(s)]
    BY DEF Apply
  <1>7. \A s \in Sources : good[s] # None =>
          /\ good[s] \in Answers(s) /\ good[s].at \in Nat /\ good[s].at < now
          /\ pushed \in Nat /\ pushed <= now
    <2> SUFFICES ASSUME NEW s \in Sources, good[s] # None
                 PROVE  /\ good[s] \in Answers(s) /\ good[s].at \in Nat
                        /\ good[s].at < now /\ pushed \in Nat /\ pushed <= now
      OBVIOUS
    <2>1. good[s] \in Answers(s) /\ pushed \in OrNone(Hours)
      BY DEF TypeOK, OrNone
    <2>2. good[s].at \in Nat
      BY <1>1, <2>1 DEF Answers
    <2>3. pushed # None /\ pushed <= now /\ good[s].at <= pushed /\ good[s].at # now
      BY DEF Dated
    <2>4. pushed \in Nat
      BY <1>1, <2>1, <2>3 DEF OrNone
    <2> QED BY <1>1, <2>1, <2>2, <2>3, <2>4
  <1>8. TypeOK'
    <2>1. \A s \in Sources : /\ answer'[s] \in OrNone(SUBSET Rows(s))
                             /\ table'[s] \subseteq Rows(s)
                             /\ OneRowAValue(table'[s])
                             /\ wrote'[s] \subseteq Values[s]
                             /\ good'[s] \in OrNone(Answers(s))
      <3>1. \A s \in Sources : good[s] \in OrNone(Answers(s))
        BY DEF TypeOK
      <3> QED BY <1>3, <1>4, <1>5, <3>1, BatchStep DEF OrNone
    <2>2. feed' \in [Sources -> OrNone([at : Hours, ok : BOOLEAN])]
      BY <1>1, <1>6 DEF FeedRow, OrNone
    <2>3. met' \subseteq Rows(t)
      BY <1>2 DEF Apply, TypeOK
    <2> QED BY <1>1, <1>3, <2>1, <2>2, <2>3 DEF TypeOK, OrNone
  <1>9. TablesHoldTheLastAnswers'
    <2>1. \A s \in Sources : good'[s] = None => table'[s] = {}
      <3> SUFFICES ASSUME NEW s \in Sources, good'[s] = None PROVE table'[s] = {}
        OBVIOUS
      <3>1. answer[s] = None /\ table[s] = {}
        BY <1>4, <1>5 DEF TablesHoldTheLastAnswers
      <3> QED BY <1>2, <3>1, BatchStep
    <2>2. good'[f] # None => table'[f] = good'[f].rows
      BY <1>2, <1>4, <1>5, BatchStep DEF TablesHoldTheLastAnswers
    <2>3. good'[t] # None =>
            \A r \in good'[t].rows : r.seen + Retention >= now =>
              r \in table'[t] \/ ItsDateIsKept(r, met', table'[t])
      <3>1. CASE answer[t] # None
        <4>1. answer[t] \in SUBSET Rows(t) /\ met' = table[t] /\ good'[t].rows = answer[t]
          BY <1>2, <1>5, <3>1 DEF TypeOK, OrNone, Apply
        <4>2. SUFFICES ASSUME NEW r \in answer[t], r.seen + Retention >= now,
                              r \notin table'[t]
                       PROVE  ItsDateIsKept(r, met', table'[t])
          BY <4>1
        <4>3. r \notin Expired(answer[t])
          <5>1. r.seen \in Nat
            BY <1>1, <4>1 DEF Rows
          <5> QED BY <1>1, <4>2, <5>1 DEF Expired
        <4>4. ItsDateIsKept(r, table[t], table'[t])
          BY <3>1, <4>2, <4>3, BatchStep
        <4> QED BY <4>1, <4>4
      <3>2. CASE answer[t] = None /\ good[t] # None
        <4>1. /\ good'[t] = good[t] /\ table'[t] = table[t] \ Expired(table[t])
              /\ \A r \in good[t].rows : r.seen \in Nat
          BY <1>1, <1>2, <1>4, <1>7, <3>2, BatchStep DEF Answers, Rows
        <4>2. met' = met /\ \A q \in met : q.seen \in Nat
          BY <1>1, <1>2, <3>2 DEF Apply, TypeOK, Rows
        <4>3. SUFFICES ASSUME NEW r \in good[t].rows, r.seen + Retention >= now,
                              r \notin table'[t]
                       PROVE  ItsDateIsKept(r, met', table'[t])
          BY <4>1
        <4>4. r.seen + Retention >= pushed
          BY <1>1, <1>2, <1>7, <3>2, <4>1, <4>3
        <4>5. r \notin table[t]
          BY <1>1, <4>1, <4>3 DEF Expired
        <4>6. KeptItsDate(r)
          BY <3>2, <4>3, <4>4, <4>5 DEF TablesHoldTheLastAnswers
        <4>7. PICK q \in met : /\ q.val = r.val /\ q.by = "first" /\ q.says = r.says
                               /\ q \in table[t] \/ q.seen + Retention < pushed
          BY <4>6 DEF KeptItsDate
        <4>8. q \in table'[t] \/ q.seen + Retention < now
          <5>1. q.seen + Retention < pushed => q.seen + Retention < now
            BY <1>1, <1>2, <1>7, <3>2, <4>2
          <5>2. q \in table[t] => q \in table'[t] \/ q.seen + Retention < now
            BY <4>1 DEF Expired
          <5> QED BY <4>7, <5>1, <5>2
        <4> QED BY <4>2, <4>6, <4>7, <4>8 DEF KeptItsDate, ItsDateIsKept
      <3> QED BY <1>2, <1>4, <3>1, <3>2
    <2>4. good'[e] # None /\ good'[e].rows # {} =>
            /\ Vals(table'[e]) = Vals(good'[e].rows)
            /\ \A r \in table'[e] : r.seen <= good'[e].at
      <3>1. CASE answer[e] # None
        BY <1>2, <1>5, <3>1, BatchStep
      <3>2. CASE answer[e] = None
        <4>1. good'[e] = good[e] /\ table'[e] = table[e]
          BY <1>2, <1>4, <3>2, BatchStep
        <4> QED BY <4>1 DEF TablesHoldTheLastAnswers
      <3> QED BY <3>1, <3>2
    <2>5. \A s \in Sources : feed'[s] # None =>
            /\ feed'[s].at = now
            /\ feed'[s].ok <=> good'[s] # None /\ good'[s].at = now
      <3> SUFFICES ASSUME NEW s \in Sources
                   PROVE  /\ feed'[s].at = now
                          /\ feed'[s].ok <=> good'[s] # None /\ good'[s].at = now
        OBVIOUS
      <3>1. feed'[s].at = now /\ (feed'[s].ok <=> answer[s] # None)
        BY <1>6 DEF FeedRow
      <3>2. answer[s] # None <=> good'[s] # None /\ good'[s].at = now
        <4>1. CASE answer[s] # None
          BY <1>5, <4>1
        <4>2. CASE answer[s] = None
          <5>1. good'[s] = good[s]
            BY <1>4, <4>2
          <5>2. good[s] # None => good[s].at \in Nat /\ good[s].at < now
            BY <1>7
          <5> QED BY <1>1, <4>2, <5>1, <5>2
        <4> QED BY <4>1, <4>2
      <3> QED BY <3>1, <3>2
    <2> QED BY <1>3, <2>1, <2>2, <2>3, <2>4, <2>5
           DEF TablesHoldTheLastAnswers, KeptItsDate, ItsDateIsKept
  <1>10. DeadInfrastructureGoes'
    BY <1>3, BatchStep DEF DeadInfrastructureGoes
  <1>11. RefreshInTime'
    BY <1>1, <1>3 DEF RefreshInTime
  <1>12. (\A s \in Sources : OneRowAValue(table[s]))'
    BY BatchStep DEF OneRowAValue
  <1>13. Dated'
    <2>1. \A s \in Sources : good'[s] # None => good'[s].at <= now
      <3> TAKE s \in Sources
      <3>1. answer[s] = None => good'[s] = good[s]
        BY <1>4
      <3>2. good[s] # None => good[s].at \in Nat /\ good[s].at < now
        BY <1>7
      <3> QED BY <1>1, <1>5, <3>1, <3>2
    <2> QED BY <1>1, <1>3, <2>1, BatchStep DEF Dated
  <1>14. InHand'
    BY <1>2, <1>3 DEF InHand
  <1> QED BY <1>8, <1>9, <1>10, <1>11, <1>12, <1>13, <1>14

-----------------------------------------------------------------------------
(* The steps.                                                              *)

LEMMA InitOK == Init => IInv
  <1> SUFFICES ASSUME Init PROVE IInv
    OBVIOUS
  <1>1. TypeOK
    <2>1. now \in Hours
      BY BoundsAssumption DEF Init, Hours
    <2>2. \A s \in Sources : /\ answer[s] = None /\ table[s] = {}
                             /\ good[s] = None /\ wrote[s] = {}
      BY DEF Init, NoAnswer
    <2>3. feed \in [Sources -> OrNone([at : Hours, ok : BOOLEAN])]
      BY DEF Init, OrNone
    <2>4. faults \in 0 .. MaxFaults /\ lost \in BOOLEAN
      <3>1. faults = 0 /\ MaxFaults \in Nat
        BY BoundsAssumption DEF Init
      <3>2. lost \in BOOLEAN
        BY DEF Init
      <3> QED BY <3>1, <3>2
    <2>5. pc = "due" /\ latest = None /\ pushed = None /\ mailed = None
      BY DEF Init
    <2>6. met = {} /\ OneRowAValue({})
      BY DEF Init, OneRowAValue
    <2> QED BY <2>1, <2>2, <2>3, <2>4, <2>5, <2>6 DEF TypeOK, OrNone
  <1>2. TablesHoldTheLastAnswers /\ DeadInfrastructureGoes /\ RefreshInTime
    BY DEF Init, TablesHoldTheLastAnswers, DeadInfrastructureGoes,
           RefreshInTime, Sources
  <1>3. \A s \in Sources : OneRowAValue(table[s])
    BY DEF Init, OneRowAValue
  <1>4. Dated
    BY NoneAssumption DEF Init, Dated, Sources
  <1>5. InHand
    BY DEF Init, InHand, NoAnswer, Sources
  <1> QED BY <1>1, <1>2, <1>3, <1>4, <1>5 DEF IInv

(* Steps that leave D1 and what was pushed to it alone.                    *)
LEMMA DbUnchanged ==
    ASSUME IInv, UNCHANGED <<now, db>>
    PROVE  /\ TablesHoldTheLastAnswers'
           /\ DeadInfrastructureGoes'
           /\ (\A s \in Sources : OneRowAValue(table[s]))'
           /\ (pc' # "done" => pc # "done") => Dated'
  <1> USE DEF IInv, db
  <1>1. TablesHoldTheLastAnswers'
    BY DEF TablesHoldTheLastAnswers, KeptItsDate
  <1>2. DeadInfrastructureGoes'
    BY DEF DeadInfrastructureGoes
  <1>3. (\A s \in Sources : OneRowAValue(table[s]))'
    OBVIOUS
  <1>4. (pc' # "done" => pc # "done") => Dated'
    BY DEF Dated
  <1> QED BY <1>1, <1>2, <1>3, <1>4

(* So is a run that ends without having reached D1.                        *)
LEMMA LostKeepsIInv ==
    ASSUME IInv, Ends, UNCHANGED <<now, db>>,
           faults' \in 0 .. MaxFaults, lost' = TRUE, mailed' \in OrNone(Hours)
    PROVE  IInv'
  <1>n. \A s \in Sources : NoAnswer[s] = None
    BY DEF NoAnswer
  <1>1. TypeOK'
    BY <1>n DEF IInv, TypeOK, Ends, db, OrNone
  <1>2. RefreshInTime' /\ InHand'
    BY <1>n DEF RefreshInTime, InHand, Ends, Sources
  <1> QED BY <1>1, <1>2, DbUnchanged DEF IInv, Ends

(* A recent refresh is of the last batch, whichever sources it was of.     *)
LEMMA LatestIsPushed ==
    ASSUME IInv, Recent(LatestOk)
    PROVE  pushed # None /\ now - pushed < FeedHours
  <1> DEFINE ok == {x \in Sources : feed[x] # None /\ feed[x].ok}
             at == {feed[s].at : s \in ok}
  <1>1. at # {} /\ LatestOk = Max(at)
    BY DEF Recent, LatestOk
  <1>2. \A s \in ok : feed[s].at = pushed /\ pushed # None
    BY DEF IInv, TablesHoldTheLastAnswers, Dated
  <1>3. at = {pushed} /\ pushed # None
    BY <1>1, <1>2
  <1>4. pushed \in Nat
    BY <1>3, BoundsAssumption DEF IInv, TypeOK, OrNone, Hours
  <1>5. Max({pushed}) = pushed
    BY <1>4 DEF Max
  <1> QED BY <1>1, <1>3, <1>5 DEF Recent

LEMMA LatestType ==
    ASSUME IInv
    PROVE  LatestOk \in OrNone(Hours)
  <1> DEFINE ok == {x \in Sources : feed[x] # None /\ feed[x].ok}
             at == {feed[s].at : s \in ok}
  <1>1. CASE at = {}
    BY <1>1 DEF LatestOk, OrNone
  <1>2. CASE at # {}
    <2>1. \A s \in ok : feed[s].at = pushed /\ pushed # None
      BY DEF IInv, TablesHoldTheLastAnswers, Dated
    <2>2. at = {pushed} /\ pushed \in Hours
      BY <1>2, <2>1 DEF IInv, TypeOK, OrNone
    <2>3. Max({pushed}) = pushed
      BY <2>2, BoundsAssumption DEF Max, Hours
    <2> QED BY <1>2, <2>2, <2>3 DEF LatestOk, OrNone
  <1> QED BY <1>1, <1>2

LEMMA StepOK == IInv /\ [Next]_vars => IInv'
  <1> SUFFICES ASSUME IInv, [Next]_vars PROVE IInv'
    OBVIOUS
  <1>t. TypeOK
    BY DEF IInv
  <1>n. \A s \in Sources : NoAnswer[s] = None
    BY DEF NoAnswer
  <1>1. CASE Skip
    <2>1. UNCHANGED <<now, db, faults, lost, mailed>> /\ Ends
          /\ pc = "due" /\ Recent(LatestOk)
      BY <1>1 DEF Skip
    <2>2. TypeOK'
      BY <1>t, <1>n, <2>1 DEF TypeOK, Ends, db, OrNone
    <2>3. RefreshInTime'
      BY <2>1, LatestIsPushed DEF RefreshInTime, db
    <2>4. InHand'
      BY <1>n, <2>1 DEF InHand, Ends, Sources
    <2> QED BY <2>1, <2>2, <2>3, <2>4, DbUnchanged DEF IInv, Ends
  <1>2. CASE Check
    <2>1. UNCHANGED <<now, answer, db, faults, lost, mailed>>
          /\ pc = "due" /\ pc' = "collect" /\ latest' = LatestOk
      BY <1>2 DEF Check
    <2>2. TypeOK'
      BY <1>t, <2>1, LatestType DEF TypeOK, db
    <2>3. RefreshInTime' /\ InHand'
      BY <2>1 DEF RefreshInTime, InHand, IInv
    <2> QED BY <2>1, <2>2, <2>3, DbUnchanged DEF IInv
  <1>3. CASE Abandon
    <2>1. UNCHANGED <<now, db, mailed>> /\ Fault /\ Ends
          /\ pc \in {"due", "collect"}
      BY <1>3 DEF Abandon
    <2>2. faults' \in 0 .. MaxFaults /\ lost' = TRUE
      BY <1>t, <2>1, BoundsAssumption DEF TypeOK, Fault
    <2>3. mailed' \in OrNone(Hours)
      BY <1>t, <2>1 DEF TypeOK
    <2> QED BY <2>1, <2>2, <2>3, LostKeepsIInv
  <1>4. CASE Collect
    <2>1. UNCHANGED <<now, latest, db, faults, lost, mailed>>
          /\ pc = "collect" /\ pc' = "push"
      BY <1>4 DEF Collect
    <2>2. \A s \in Sources : answer'[s] \in Results(s)
      BY <1>4 DEF Collect, Sources
    <2>3. \A s \in Sources :
            /\ answer'[s] \in OrNone(SUBSET Rows(s))
            /\ answer'[s] # None => OneRowAValue(answer'[s])
            /\ s = "et_compromised" /\ answer'[s] # None =>
                  \A r \in answer'[s] : r.seen = now
      BY <1>t, <2>2, ResultRows
    <2>4. TypeOK'
      BY <1>t, <2>1, <2>3 DEF TypeOK, db
    <2>5. RefreshInTime' /\ InHand'
      BY <2>1, <2>3 DEF RefreshInTime, InHand, Sources
    <2> QED BY <2>1, <2>4, <2>5, DbUnchanged DEF IInv
  <1>5. CASE Push
    BY <1>5, <1>t, ApplyKeepsIInv DEF Push, TypeOK
  <1>6. CASE PushFails
    <2>1. UNCHANGED now /\ Fault /\ Ends /\ Alert /\ pc = "push"
          /\ (Apply \/ UNCHANGED db)
      BY <1>6 DEF PushFails
    <2>2. faults' \in 0 .. MaxFaults /\ lost' = TRUE
      BY <1>t, <2>1, BoundsAssumption DEF TypeOK, Fault
    <2>3. mailed' \in OrNone(Hours)
      BY <1>t, <2>1 DEF TypeOK, Alert, OrNone
    <2>4. CASE Apply
      BY <1>t, <2>1, <2>2, <2>3, <2>4, ApplyKeepsIInv
    <2>5. CASE UNCHANGED db
      BY <2>1, <2>2, <2>3, <2>5, LostKeepsIInv
    <2> QED BY <2>1, <2>4, <2>5
  <1>7. CASE AllFailed
    <2>1. mailed' \in OrNone(Hours) /\ Ends /\ UNCHANGED now /\ pc = "push"
      BY <1>t, <1>7 DEF TypeOK, AllFailed, Alert, OrNone
    <2>2. CASE Apply /\ UNCHANGED <<faults, lost>>
      BY <1>t, <2>1, <2>2, ApplyKeepsIInv DEF TypeOK
    <2>3. CASE Fault /\ UNCHANGED db
      <3>1. faults' \in 0 .. MaxFaults /\ lost' = TRUE
        BY <1>t, <2>3, BoundsAssumption DEF TypeOK, Fault
      <3> QED BY <2>1, <2>3, <3>1, LostKeepsIInv
    <2> QED BY <1>7, <2>2, <2>3 DEF AllFailed
  <1>8. CASE Tick
    <2>1. UNCHANGED <<latest, answer, db, faults, mailed>> /\ pc = "done"
          /\ now < MaxClock /\ now' = now + 1 /\ pc' = "due" /\ lost' = FALSE
      BY <1>8 DEF Tick
    <2>2. now \in Nat /\ now' \in Hours
      BY <1>t, <2>1, BoundsAssumption DEF TypeOK, Hours
    <2>3. TypeOK'
      BY <1>t, <2>1, <2>2 DEF TypeOK, db
    <2>4. TablesHoldTheLastAnswers' /\ DeadInfrastructureGoes' /\ RefreshInTime'
          /\ (\A s \in Sources : OneRowAValue(table[s]))'
      BY <2>1 DEF IInv, db, TablesHoldTheLastAnswers, KeptItsDate, DeadInfrastructureGoes,
                  RefreshInTime
    <2>5. Dated'
      <3>1. UNCHANGED <<pushed, good, table>>
        BY <2>1 DEF db
      <3>2. pushed # None => pushed \in Nat /\ pushed <= now
        BY <1>t, BoundsAssumption DEF IInv, Dated, TypeOK, OrNone, Hours
      <3>3. pushed # None => pushed <= now' /\ pushed # now'
        BY <2>1, <2>2, <3>2
      <3>4. \A s \in Sources : good[s] # None =>
              good[s].at \in Nat /\ good[s].at <= pushed /\ pushed # None
        BY <1>t, BoundsAssumption DEF IInv, Dated, TypeOK, OrNone, Answers, Hours
      <3>5. \A s \in Sources : good[s] # None => good[s].at # now'
        BY <2>1, <2>2, <3>2, <3>4
      <3>6. pushed # now'
        BY <2>1, <2>2, <3>3, NoneAssumption
      <3>7. \A r \in table["et_compromised"] : r.seen <= now'
        <4>1. \A r \in table["et_compromised"] : r.seen \in Nat /\ r.seen <= now
          BY <1>t, BoundsAssumption DEF IInv, Dated, TypeOK, Rows, Hours, Sources
        <4> QED BY <2>1, <2>2, <4>1
      <3> QED BY <3>1, <3>3, <3>4, <3>5, <3>6, <3>7 DEF Dated
    <2>6. InHand'
      <3>1. \A s \in Sources : answer[s] = None
        BY <2>1 DEF IInv, InHand
      <3> QED BY <2>1, <3>1 DEF InHand, Sources
    <2> QED BY <2>3, <2>4, <2>5, <2>6 DEF IInv
  <1>9. CASE UNCHANGED vars
    <2>1. UNCHANGED <<now, db>> /\ pc' = pc
      BY <1>9 DEF vars, db
    <2>2. TypeOK'
      BY <1>t, <1>9 DEF vars, TypeOK
    <2>3. RefreshInTime' /\ InHand'
      BY <1>9 DEF IInv, vars, RefreshInTime, InHand
    <2> QED BY <2>1, <2>2, <2>3, DbUnchanged DEF IInv
  <1> QED BY <1>1, <1>2, <1>3, <1>4, <1>5, <1>6, <1>7, <1>8, <1>9 DEF Next

LEMMA Inductive == Spec => []IInv
  BY InitOK, StepOK, PTL DEF Spec

-----------------------------------------------------------------------------

(* The types hold.  (run-feeds.sh and the batch of export-feeds.)          *)
THEOREM TypeCorrect == Spec => []TypeOK
  BY Inductive, PTL DEF IInv

(* For any lists and whatever fails, each table holds the last answer of   *)
(* its source that was pushed, but for ThreatFox's rows without a          *)
(* last_seen whose value the table had with another date, and            *)
(* feed_state says which answer is of the last refresh.  (render_sql and   *)
(* UPSERT_CLAUSE.)                                                         *)
THEOREM LastAnswersHeld == Spec => []TablesHoldTheLastAnswers
  BY Inductive, PTL DEF IInv

(* No batch leaves a ThreatFox row past the retention, whichever sources   *)
(* answered.  (render_sql's expiry.)                                       *)
THEOREM InfrastructureExpires == Spec => []DeadInfrastructureGoes
  BY Inductive, PTL DEF IInv

(* A run that D1 served leaves a batch no older than FEED_HOURS.           *)
(* (run-feeds.sh's guard on feed_state.)                                   *)
THEOREM RefreshesInTime == Spec => []RefreshInTime
  BY Inductive, PTL DEF IInv

(* A batch writes a value only if the table shows a difference afterwards: *)
(* since a table and a list have one row a value, what is upserted differs *)
(* from what it replaces.  (render_sql's upsert and expiry.)               *)
THEOREM WritesShow == Spec => EveryWriteShows
  <1> DEFINE Shows == \A s \in {"threatfox", "et_compromised"} :
                        wrote'[s] = Vals((table'[s] \ table[s]) \cup
                                         (table[s] \ table'[s]))
  <1>1. ASSUME IInv, [Next]_vars, pushed' # pushed PROVE Shows
    <2>1. Push \/ PushFails \/ AllFailed
      BY <1>1 DEF Next, vars, db, Skip, Check, Abandon, Collect, Tick
    <2>2. pc = "push" /\ Apply /\ UNCHANGED now
      BY <1>1, <2>1 DEF Push, PushFails, AllFailed, db
    <2> QED BY <1>1, <2>2, BatchStep
  <1>2. IInv /\ [Next]_vars => [pushed' # pushed => Shows]_vars
    BY <1>1
  <1> QED BY <1>2, Inductive, PTL DEF Spec, EveryWriteShows
=============================================================================
