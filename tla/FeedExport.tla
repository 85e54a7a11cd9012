----------------------------- MODULE FeedExport -----------------------------
(***************************************************************************)
(* The hourly refresh of the feed side of the corpus: deploy/run-feeds.sh  *)
(* and soc_news_parser/feed_export.py.  A run reads the newest successful  *)
(* refresh, stops if that is recent, asks the malware analyser for the     *)
(* three lists and pushes one batch to D1.  The clock counts hours and a   *)
(* run fits in one.                                                        *)
(***************************************************************************)
EXTENDS Naturals, FiniteSets, FiniteSetsExt, Functions

CONSTANTS
    ThreatValues, FeodoValues, EtValues,  \* what each list may hold
    Says,          \* what else a ThreatFox row says: malware, port, ...
    FeedHours,     \* FEED_HOURS: no refresh within it
    StallHours,    \* STALL_HOURS: alert beyond it
    Retention,     \* RETENTION_DAYS, in hours
    MaxEt,         \* ET_MAX_ADDRESSES
    MaxListed,     \* rows one list returns (bound of the model)
    MaxFaults,     \* calls of D1 that fail (bound of the model)
    MaxClock,      \* hours (bound of the model)
    None

ASSUME HoursAssumption ==
    /\ {FeedHours, StallHours, Retention} \subseteq Nat \ {0}
    /\ FeedHours <= StallHours

ASSUME BoundsAssumption ==
    {MaxEt, MaxListed, MaxFaults} \subseteq Nat /\ MaxClock \in Nat \ {0}

Sources == {"threatfox", "feodo", "et_compromised"}

VARIABLES
    now,     \* the hour
    pc,      \* "due", "collect", "push" or "done": this hour's run
    latest,  \* the newest ok refresh the run read from feed_state
    answer,  \* per source, what is kept of its rows, or None on its error
    table,   \* feed_indicators: per source, a set of [val, seen, by, says]
    feed,    \* feed_state: per source, [at, ok] or None
    wrote,   \* per source, the values the last batch wrote or deleted
    faults,  \* calls that failed so far
    \* what really happened, for the properties
    good,    \* per source, the hour and rows of its last pushed answer
    met,     \* the rows ThreatFox's last pushed answer found in the table
    pushed,  \* the hour of the last batch D1 applied
    lost,    \* this hour's run could not read or write D1
    mailed   \* the hour of the last alert

db == <<table, feed, wrote, good, met, pushed>>
vars == <<now, pc, latest, answer, table, feed, wrote, faults,
          good, met, pushed, lost, mailed>>

NoAnswer == [s \in Sources |-> None]

Init ==
    /\ now = 1 /\ pc = "due" /\ latest = None /\ faults = 0
    /\ answer = NoAnswer
    /\ table = [s \in Sources |-> {}]
    /\ feed = [s \in Sources |-> None]
    /\ wrote = [s \in Sources |-> {}]
    /\ good = [s \in Sources |-> None] /\ met = {}
    /\ pushed = None /\ lost = FALSE /\ mailed = None

-----------------------------------------------------------------------------
(* The analyser's answer and what is kept of it.                           *)

Values == [s \in Sources |-> CASE s = "threatfox" -> ThreatValues
                              [] s = "feodo" -> FeodoValues
                              [] OTHER -> EtValues]

\* A row as served.  Only ThreatFox dates its rows: `seen` is last_seen, or
\* first_seen where ThreatFox never saw the value again, and `by` says which.
\* `usable` is FALSE for one the filters drop (low confidence, a type or an
\* address that is not wanted, a stamp that does not parse).
RowsOf(s) ==
    IF s = "threatfox"
    THEN [val : Values[s], usable : BOOLEAN, by : {"last", "first"}, says : Says,
          seen : {h \in 0 .. now : now - h \in {0, Retention, Retention + 1}}]
    ELSE [val : Values[s], usable : BOOLEAN, by : {"first"}, says : {None},
          seen : {0}]

Vals(rows) == {r.val : r \in rows}
OneRowAValue(rows) == \A q, r \in rows : q.val = r.val => q = r

\* The most recent sightings of each value.
Newest(rows) ==
    {r \in rows : r.usable /\ \A q \in rows :
        q.usable /\ q.val = r.val => q.seen <= r.seen}

\* Emerging Threats' rows are dated by this run.
Stamped(s, r) ==
    [val |-> r.val, seen |-> IF s = "et_compromised" THEN now ELSE r.seen,
     by |-> r.by, says |-> r.says]

\* Mutant: every row listed is kept, not one a value.
KeptAll(s, rows) == {{Stamped(s, r) : r \in {q \in rows : q.usable}}}

\* threatfox_indicators, feodo_indicators, et_indicators: one row a value, of
\* several that are as recent the first of the list, which may be any.
Kept(s, rows) ==
    LET newest == {Stamped(s, r) : r \in Newest(rows)}
    IN  {kept \in SUBSET newest :
            OneRowAValue(kept) /\ Vals(kept) = Vals(newest)}

\* parse_watchlist: a source the analyser could not read, or does not serve,
\* is that source's error, and so is a list that is too long.
Result(s, kept) ==
    IF s = "et_compromised" /\ Cardinality(kept) > MaxEt THEN None ELSE kept

Listed(s) ==
    {{}} \cup {Range(list) : list \in [1 .. MaxListed -> RowsOf(s)]}

Results(s) ==
    {None} \cup {Result(s, kept) : kept \in
        UNION {Kept(s, rows) : rows \in Listed(s)}}

AnyOk == \E s \in Sources : answer[s] # None

-----------------------------------------------------------------------------
(* The batch render_sql writes for one source.                             *)

Expired(rows) == {r \in rows : r.seen + Retention < now}
Replace(old, new) == new \cup {r \in old : r.val \notin Vals(new)}

\* Mutant: the guard forgets what else a row says.
DiffersInDate(q, r) ==
    \/ q.by # r.by
    \/ r.by = "last" /\ q.seen # r.seen

\* The upsert's guard.  It compares last_seen and what else a row says, and
\* not first_seen.
Differs(q, r) ==
    \/ q.by # r.by
    \/ r.by = "last" /\ q.seen # r.seen
    \/ q.says # r.says

Upserted(old, rows) ==
    {r \in rows : \A q \in old : q.val = r.val => Differs(q, r)}

\* Mutants: rows expire only with the list that brings new ones; rows past
\* the retention are inserted, and expired in the same batch.
ThreatBatchIfRead(old, kept) ==
    IF kept = None THEN [rows |-> old, wrote |-> {}]
    ELSE LET rows == Replace(old, Upserted(old, kept \ Expired(kept)))
         IN  [rows |-> rows \ Expired(rows), wrote |-> Vals(kept)]

ThreatBatchOld(old, kept) ==
    LET new == IF kept = None THEN {} ELSE Upserted(old, kept)
        after == Replace(old, new)
    IN  [rows |-> after \ Expired(after),
         wrote |-> Vals(new) \cup Vals(Expired(after))]

\* The rows a source has after the batch, and the values it wrote: an upsert
\* of rows that changed and the expiry; a set replaced; a set mirrored.
ThreatBatch(old, kept) ==
    LET new == IF kept = None THEN {} ELSE Upserted(old, kept \ Expired(kept))
        after == Replace(old, new)
    IN  [rows |-> after \ Expired(after),
         wrote |-> Vals(new) \cup Vals(Expired(after))]

FeodoBatch(old, kept) ==
    IF kept = None THEN [rows |-> old, wrote |-> {}]
    ELSE [rows |-> kept, wrote |-> Vals(old) \cup Vals(kept)]

EtBatch(old, kept) ==
    IF kept = None \/ kept = {} THEN [rows |-> old, wrote |-> {}]
    ELSE LET stay == {r \in old : r.val \in Vals(kept)}
         IN  [rows |-> Replace(kept, stay),
              wrote |-> (Vals(old) \ Vals(stay)) \cup
                        (Vals(kept) \ Vals(stay))]

Batch(s) ==
    CASE s = "threatfox" -> ThreatBatch(table[s], answer[s])
      [] s = "feodo" -> FeodoBatch(table[s], answer[s])
      [] OTHER -> EtBatch(table[s], answer[s])

FeedRow(s) == [at |-> now, ok |-> answer[s] # None]

\* D1 applies the file as one batch; feed_state is replaced for every source.
Apply ==
    /\ table' = [s \in Sources |-> Batch(s).rows]
    /\ wrote' = [s \in Sources |-> Batch(s).wrote]
    /\ feed' = [s \in Sources |-> FeedRow(s)]
    /\ good' = [s \in Sources |->
                  IF answer[s] = None THEN good[s]
                  ELSE [at |-> now, rows |-> answer[s]]]
    /\ met' = IF answer["threatfox"] = None THEN met ELSE table["threatfox"]
    /\ pushed' = now

-----------------------------------------------------------------------------
(* One run of run-feeds.sh.                                                *)

\* max(exported_at) ... WHERE ok = 1; '' on none.
LatestOk ==
    LET at == {feed[s].at : s \in {x \in Sources : feed[x] # None /\
                                                   feed[x].ok}}
    IN  IF at = {} THEN None ELSE Max(at)

\* Mutant: an hour too long.
RecentOrJust(h) == h # None /\ now - h <= FeedHours

Recent(h) == h # None /\ now - h < FeedHours
Stalled(h) == h # None /\ now - h > StallHours

Alert == mailed' = IF Stalled(latest) THEN now ELSE mailed

Fault == faults < MaxFaults /\ faults' = faults + 1 /\ lost' = TRUE

Ends == pc' = "done" /\ latest' = None /\ answer' = NoAnswer

\* Refreshed recently; the quiet, common case.
Skip ==
    /\ pc = "due" /\ Recent(LatestOk)
    /\ Ends
    /\ UNCHANGED <<now, db, faults, lost, mailed>>

Check ==
    /\ pc = "due" /\ ~Recent(LatestOk)
    /\ latest' = LatestOk
    /\ pc' = "collect"
    /\ UNCHANGED <<now, answer, db, faults, lost, mailed>>

\* D1 cannot be read, or the run is killed before its push: it ends
\* quietly.
Abandon ==
    /\ pc \in {"due", "collect"} /\ Fault
    /\ Ends
    /\ UNCHANGED <<now, db, mailed>>

\* An unreachable analyser or an answer that is no watchlist is every
\* source's error.
Collect ==
    /\ pc = "collect"
    /\ \E t \in Results("threatfox"), f \in Results("feodo"),
          e \in Results("et_compromised") :
        answer' = [s \in Sources |-> CASE s = "threatfox" -> t
                                       [] s = "feodo" -> f
                                       [] OTHER -> e]
    /\ pc' = "push"
    /\ UNCHANGED <<now, latest, db, faults, lost, mailed>>

\* Some source answered: push, and alert only if the push fails.
Push ==
    /\ pc = "push" /\ AnyOk
    /\ Apply
    /\ Ends
    /\ UNCHANGED <<now, faults, lost, mailed>>

\* The push fails, before D1 ran the batch or after.
PushFails ==
    /\ pc = "push" /\ AnyOk /\ Fault
    /\ Apply \/ UNCHANGED db
    /\ Alert
    /\ Ends
    /\ UNCHANGED now

\* No source answered: export-feeds exits 1, the batch is pushed all the same,
\* and whether that succeeds is not looked at.
AllFailed ==
    /\ pc = "push" /\ ~AnyOk
    /\ \/ Apply /\ UNCHANGED <<faults, lost>>
       \/ Fault /\ UNCHANGED db
    /\ Alert
    /\ Ends
    /\ UNCHANGED now

\* The next hour's timer.
Tick ==
    /\ pc = "done" /\ now < MaxClock
    /\ now' = now + 1 /\ pc' = "due" /\ lost' = FALSE
    /\ UNCHANGED <<latest, answer, db, faults, mailed>>

Next ==
    \/ Skip \/ Check \/ Abandon \/ Collect
    \/ Push \/ PushFails \/ AllFailed
    \/ Tick

Spec == Init /\ [][Next]_vars

-----------------------------------------------------------------------------
(* Properties.                                                             *)

Hours == 0 .. MaxClock
OrNone(S) == S \cup {None}
Rows(s) == [val : Values[s], seen : Hours, by : {"last", "first"},
            says : OrNone(Says)]
Answers(s) == [at : Hours, rows : SUBSET Rows(s)]

ASSUME NoneAssumption ==
    None \notin Nat /\ \A s \in Sources : None \notin Answers(s)

\* The run's place, what it read and what the tables hold have their types;
\* a table has one row a value, its primary key.
TypeOK ==
    /\ now \in Hours /\ pc \in {"due", "collect", "push", "done"}
    /\ latest \in OrNone(Hours)
    /\ \A s \in Sources :
         /\ answer[s] \in OrNone(SUBSET Rows(s))
         /\ table[s] \subseteq Rows(s) /\ OneRowAValue(table[s])
         /\ good[s] \in OrNone(Answers(s))
         /\ wrote[s] \subseteq Values[s]
    /\ met \subseteq Rows("threatfox")
    /\ feed \in [Sources -> OrNone([at : Hours, ok : BOOLEAN])]
    /\ faults \in 0 .. MaxFaults
    /\ pushed \in OrNone(Hours) /\ lost \in BOOLEAN
    /\ mailed \in OrNone(Hours)

\* A young row of ThreatFox's last answer that is not in the table: the value
\* had a row without a last_seen there that said the same.  That row keeps its
\* date, and goes when that date is past the retention.
KeptItsDate(r) ==
    /\ r.by = "first"
    /\ \E q \in met :
          /\ q.val = r.val /\ q.by = "first" /\ q.says = r.says
          /\ q \in table["threatfox"] \/ q.seen + Retention < pushed

\* However many refreshes of a source failed, its rows are those of the last
\* answer that was pushed: Feodo's list is exactly that, never half of one and
\* never an empty set a failure left behind; ThreatFox has every row of it
\* that is still young, but for those KeptItsDate says; an empty Emerging
\* Threats list is not taken for one, and a row of it keeps the hour it was
\* first seen.  feed_state says of each source whether that answer is of the
\* last refresh.
TablesHoldTheLastAnswers ==
    /\ \A s \in Sources : good[s] = None => table[s] = {}
    /\ good["feodo"] # None => table["feodo"] = good["feodo"].rows
    /\ good["threatfox"] # None =>
          \A r \in good["threatfox"].rows : r.seen + Retention >= pushed =>
              r \in table["threatfox"] \/ KeptItsDate(r)
    /\ LET et == good["et_compromised"]
       IN  et # None /\ et.rows # {} =>
             /\ Vals(table["et_compromised"]) = Vals(et.rows)
             /\ \A r \in table["et_compromised"] : r.seen <= et.at
    /\ \A s \in Sources : feed[s] # None =>
          /\ feed[s].at = pushed
          /\ feed[s].ok <=> good[s] # None /\ good[s].at = pushed

\* Expiry does not depend on any source answering: no batch leaves a
\* ThreatFox row that was last seen longer than the retention ago
\* (feed_export.py: "a long outage cannot keep dead infrastructure").
DeadInfrastructureGoes ==
    pushed # None =>
        \A r \in table["threatfox"] : r.seen + Retention >= pushed

\* Rows cost writes: a batch writes a ThreatFox or Emerging Threats value only
\* if the table shows a difference afterwards, so nothing is rewritten and
\* nothing is inserted only to be expired by the same batch.
EveryWriteShows ==
    [][pushed' # pushed =>
        \A s \in {"threatfox", "et_compromised"} :
            wrote'[s] = Vals((table'[s] \ table[s]) \cup
                             (table[s] \ table'[s]))]_vars

\* A run that D1 served leaves a batch no older than FEED_HOURS, whichever
\* sources failed in the runs before: a source never waits longer than that
\* for its next chance.
RefreshInTime ==
    pc = "done" /\ ~lost => pushed # None /\ now - pushed < FeedHours

\* run-feeds.sh: it "alerts only when no source has refreshed for
\* STALL_HOURS", that is, once a source has refreshed and none has for that
\* long, the alert has been mailed by the end of the hour.
StallsAreMailed ==
    LET at == {good[s].at : s \in {x \in Sources : good[x] # None}}
    IN  pc = "done" /\ at # {} /\ now - Max(at) > StallHours =>
            mailed # None /\ mailed > Max(at)

=============================================================================
