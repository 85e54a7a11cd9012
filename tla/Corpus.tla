------------------------------- MODULE Corpus -------------------------------
(***************************************************************************)
(* How the days reach D1 and what the service says they are.  The host's   *)
(* daily run and the manually dispatched CI workflow each collect the      *)
(* current slot, compare it with what D1 holds, and replace the day's rows *)
(* in one batch.  The host's batch also replaces the one row of            *)
(* `corpus_state`, computed from all of its report folder; CI's does not.  *)
(* A lookup reads that row and the stored days first and the rows it needs *)
(* afterwards.  The Worker's daily heartbeat asks D1 for its newest day.   *)
(***************************************************************************)
EXTENDS Naturals, Sequences, FiniteSets, FiniteSetsExt

CONSTANTS
    Site,        \* who pushes: "host" runs run-daily.sh, "ci" the workflow
    Evidence,    \* what a run may collect: its articles and their values
    None,        \* no row, no file, no version
    LastDay,     \* bound: the last slot
    MaxRuns,     \* bound: runs of `run-daily.sh` and of the workflow
    MaxLookups   \* bound: lookups answered

ASSUME CorpusAssumption ==
    /\ Site \subseteq {"host", "ci"}
    /\ \A e \in Evidence : e.articles \in Nat /\ IsFiniteSet(e.values)
    /\ None \notin Evidence
    /\ LastDay \in Nat \ {0}
    /\ MaxRuns \in Nat /\ MaxLookups \in Nat

Day == 1 .. LastDay
Store == [Day -> Evidence \cup {None}]

VARIABLES
    today,     \* the slot `deliver` collects now
    folder,    \* the host's reports/
    stored,    \* D1: the rows of each day
    state,     \* D1: the folder `corpus_state` describes; no days if no row
    run,       \* the latest run of each site
    runs,      \* bound: runs so far
    lookup,    \* the lookup under way, and the version it will report
    answers,   \* the answers given: version and rows
    checked,   \* days whose heartbeat read D1, and mailed if it had to
    warned,    \* days whose heartbeat mailed
    ciPushed   \* history: has CI pushed a day?

d1 == <<stored, state, ciPushed>>
lookups == <<lookup, answers>>
heartbeat == <<checked, warned>>
vars == <<today, folder, d1, run, runs, lookups, heartbeat>>

Pushing == {"check", "render", "execute"}
Phase == {"idle", "skipped", "refused", "pushed", "stalled", "green", "failed"}
             \cup Pushing

(* The days a folder or the tables hold, and what a match can depend on.   *)
DaysOf(f) == {d \in Day : f[d] # None}
Content(f) == UNION {{d} \X f[d].values : d \in DaysOf(f)}

(* The last day and a hash of what a match can depend on. *)
CorpusVersion(f) == <<Max(DaysOf(f)), Content(f)>>

Contents == SUBSET (Day \X UNION {e.values : e \in Evidence})
Version == (Day \X Contents) \cup {None}

TypeOK ==
    /\ today \in Day
    /\ folder \in Store
    /\ stored \in Store
    /\ state \in Store
    /\ run \in [Site -> [phase : Phase, day : Day, force : BOOLEAN,
                         evidence : Evidence \cup {None}, raced : BOOLEAN]]
    /\ runs \in 0 .. MaxRuns
    /\ lookup \in [open : BOOLEAN, version : Version]
    /\ answers \in Seq([version : Version, rows : Contents])
    /\ checked \subseteq Day
    /\ warned \subseteq Day
    /\ ciPushed \in BOOLEAN

NoDays == [d \in Day |-> None]

Init ==
    /\ today = 1
    /\ folder = NoDays
    /\ stored = NoDays
    /\ state = NoDays
    /\ run = [s \in Site |-> [phase |-> "idle", day |-> 1, force |-> FALSE,
                              evidence |-> None, raced |-> FALSE]]
    /\ runs = 0
    /\ lookup = [open |-> FALSE, version |-> None]
    /\ answers = <<>>
    /\ checked = {}
    /\ warned = {}
    /\ ciPushed = FALSE

-----------------------------------------------------------------------------

Goto(s, phase) == run' = [run EXCEPT ![s].phase = phase]

Over(r, phase) == [r EXCEPT !.phase = phase, !.force = FALSE,
                            !.evidence = None, !.raced = FALSE]

End(s, phase) == run' = [run EXCEPT ![s] = Over(@, phase)]

(* How a run ends that should have pushed and did not: the host's mails an *)
(* alert; CI's push step may fail without failing its job, which stays     *)
(* green and says so in its log alone.                                     *)
Unpushed(s) == IF s = "host" THEN "stalled" ELSE "green"

(* The run's evidence replaces the slot's folder.  CI's folder is its own, *)
(* and nothing but the slot's file is read from it.                        *)
WriteEvidence(s, e) ==
    folder' = IF s = "host" THEN [folder EXCEPT ![today] = e] ELSE folder

(* A run collects the slot that closed last, any number of times, with     *)
(* whatever the feeds still carry.                                         *)
Deliver(s, e, force) ==
    /\ run[s].phase \notin Pushing
    /\ runs < MaxRuns
    /\ runs' = runs + 1
    /\ WriteEvidence(s, e)
    /\ run' = [run EXCEPT ![s] = [phase |-> "check", day |-> today,
                                  force |-> force, evidence |-> e,
                                  raced |-> FALSE]]
    /\ UNCHANGED <<today, d1, lookups, heartbeat>>

(* `deliver` exits non-zero, before or after it wrote the evidence: the    *)
(* host's script ends there and the unit's OnFailure alert is sent.  CI's  *)
(* step takes the status of `tee`, and its push finds no evidence named.   *)
DeliverFails(s, e) ==
    /\ run[s].phase \notin Pushing
    /\ runs < MaxRuns
    /\ runs' = runs + 1
    /\ WriteEvidence(s, e) \/ UNCHANGED folder
    /\ \/ End(s, "failed")
       \/ s = "ci" /\ End(s, Unpushed(s))
    /\ UNCHANGED <<today, d1, lookups, heartbeat>>

(* A dry run, or no Cloudflare credentials; or the evidence is not named.  *)
SkipPush(s) ==
    /\ run[s].phase = "check"
    /\ End(s, "skipped") \/ End(s, Unpushed(s))
    /\ UNCHANGED <<today, folder, d1, runs, lookups, heartbeat>>

(* Mutant: the articles alone are compared. *)
HasFewerArticles(e, row) == e.articles < row.articles

HasFewer(e, row) ==
    \/ e.articles < row.articles
    \/ Cardinality(e.values) < Cardinality(row.values)

(* The stored counts are read, then compared: FORCE_D1=1 skips both.       *)
Check(s) ==
    LET r == run[s]
        row == stored[r.day]
    IN  /\ r.phase = "check"
        /\ IF ~r.force /\ row # None /\ HasFewer(r.evidence, row)
           THEN End(s, "refused")
           ELSE run' = [run EXCEPT ![s].phase = "render", ![s].raced = FALSE]
        /\ UNCHANGED <<today, folder, d1, runs, lookups, heartbeat>>

(* The counts could not be read: not the same as nothing stored. *)
CheckFails(s) ==
    /\ run[s].phase = "check"
    /\ IF run[s].force THEN Goto(s, "render") ELSE End(s, Unpushed(s))
    /\ UNCHANGED <<today, folder, d1, runs, lookups, heartbeat>>

(* `export-d1` *)
Render(s) ==
    /\ run[s].phase = "render"
    /\ Goto(s, "execute") \/ End(s, Unpushed(s))
    /\ UNCHANGED <<today, folder, d1, runs, lookups, heartbeat>>

(* Mutant: without `--corpus-state-from` the row is written empty. *)
ReplacesState(s) ==
    /\ stored' = [stored EXCEPT ![run[s].day] = run[s].evidence]
    /\ state' = IF s = "host" THEN folder ELSE None
    /\ ciPushed' = (ciPushed \/ s = "ci")

(* D1 runs the file as one batch. *)
Replaces(s) ==
    /\ stored' = [stored EXCEPT ![run[s].day] = run[s].evidence]
    /\ state' = IF s = "host" THEN folder ELSE state
    /\ ciPushed' = (ciPushed \/ s = "ci")

(* The run ends; a run of the other site may hold counts it read before.   *)
Race(s, phase) ==
    run' = [t \in Site |->
               IF t = s THEN Over(run[s], phase)
               ELSE [run[t] EXCEPT !.raced =
                        \/ @
                        \/ /\ run[t].phase \in Pushing
                           /\ run[t].day = run[s].day]]

(* Mutant: wrangler's exit status is not looked at. *)
ExecuteUnchecked(s) ==
    /\ run[s].phase = "execute"
    /\ Replaces(s) \/ UNCHANGED d1
    /\ Race(s, "pushed")
    /\ UNCHANGED <<today, folder, runs, lookups, heartbeat>>

Execute(s) ==
    /\ run[s].phase = "execute"
    /\ Replaces(s)
    /\ Race(s, "pushed")
    /\ UNCHANGED <<today, folder, runs, lookups, heartbeat>>

(* `wrangler` fails, with the batch run or not. *)
ExecuteFails(s) ==
    /\ run[s].phase = "execute"
    /\ \/ Replaces(s) /\ Race(s, Unpushed(s))
       \/ UNCHANGED d1 /\ End(s, Unpushed(s))
    /\ UNCHANGED <<today, folder, runs, lookups, heartbeat>>

(* The unit's or the job's timeout, or the machine goes down. *)
Kill(s) ==
    /\ run[s].phase \in Pushing
    /\ \/ UNCHANGED d1 /\ End(s, "failed")
       \/ run[s].phase = "execute" /\ Replaces(s) /\ Race(s, "failed")
    /\ UNCHANGED <<today, folder, runs, lookups, heartbeat>>

-----------------------------------------------------------------------------

(* Mutant: the number of days is not compared. *)
SameEnds ==
    /\ DaysOf(state) # {} /\ DaysOf(stored) # {}
    /\ Min(DaysOf(state)) = Min(DaysOf(stored))
    /\ Max(DaysOf(state)) = Max(DaysOf(stored))

(* The service compares the count of days and both ends, not the days.     *)
Consistent ==
    /\ DaysOf(state) # {} /\ DaysOf(stored) # {}
    /\ Cardinality(DaysOf(state)) = Cardinality(DaysOf(stored))
    /\ Min(DaysOf(state)) = Min(DaysOf(stored))
    /\ Max(DaysOf(state)) = Max(DaysOf(stored))

(* `corpus()`: the state and the stored days, read in one batch. *)
LookupBegins ==
    /\ ~lookup.open
    /\ Len(answers) < MaxLookups
    /\ lookup' = [open |-> TRUE,
                  version |-> IF Consistent THEN CorpusVersion(state) ELSE None]
    /\ UNCHANGED <<today, folder, d1, run, runs, answers, heartbeat>>

(* The statements for the values asked about come after it. *)
LookupAnswers ==
    /\ lookup.open
    /\ lookup' = [lookup EXCEPT !.open = FALSE]
    /\ answers' = Append(answers, [version |-> lookup.version,
                                   rows |-> Content(stored)])
    /\ UNCHANGED <<today, folder, d1, run, runs, heartbeat>>

-----------------------------------------------------------------------------

(* Mutant: the second day without a report is the first to be told. *)
StaleSecondDay(newest) == newest + 1 < today

(* `assess`: one day behind is already the alarm. *)
Stale(newest) == newest < today

(* `runHeartbeat`: an empty table is stale; a check that cannot read D1,   *)
(* or whose mail is not sent, is only logged.                              *)
Heartbeat ==
    /\ today \notin checked
    /\ warned' = IF DaysOf(stored) = {} \/ Stale(Max(DaysOf(stored)))
                 THEN warned \cup {today} ELSE warned
    /\ checked' = checked \cup {today}
    /\ UNCHANGED <<today, folder, d1, run, runs, lookups>>

(* The next slot closes, whether or not the check of this one ran.         *)
NextSlot ==
    /\ today < LastDay
    /\ today' = today + 1
    /\ UNCHANGED <<folder, d1, run, runs, lookups, heartbeat>>

-----------------------------------------------------------------------------

Push(s) ==
    \/ \E e \in Evidence : \/ \E force \in BOOLEAN : Deliver(s, e, force)
                           \/ DeliverFails(s, e)
    \/ SkipPush(s)
    \/ Check(s) \/ CheckFails(s)
    \/ Render(s)
    \/ Execute(s) \/ ExecuteFails(s)
    \/ Kill(s)

Next ==
    \/ \E s \in Site : Push(s)
    \/ LookupBegins \/ LookupAnswers
    \/ Heartbeat
    \/ NextSlot

Spec == Init /\ [][Next]_vars

-----------------------------------------------------------------------------

(* While only the host pushes, a version is reported only when the days    *)
(* stored are the days it was computed from, though a count and two dates  *)
(* are all that is compared, pushes fail or lose their replies, and days   *)
(* that never reached D1 stay in the folder.                               *)
ReportedDaysExact ==
    Consistent /\ ~ciPushed => DaysOf(state) = DaysOf(stored)

(* A host run that ends without an alert and was not told to skip the push *)
(* has left its day in D1: its own rows or the fuller ones it met there.   *)
(* Of CI this holds only when its log says pushed or refused: its job may  *)
(* end "green" with the day not stored, and then nothing but the heartbeat *)
(* tells (MissedDaysWarned).                                               *)
QuietRunStored ==
    \A s \in Site :
        run[s].phase \in {"refused", "pushed"} => stored[run[s].day] # None

(* Without FORCE_D1=1 a day already stored never loses articles or values, *)
(* unless the other site replaced it after this run read the counts.       *)
AtLeast(new, old) ==
    /\ new.articles >= old.articles
    /\ Cardinality(new.values) >= Cardinality(old.values)

KeepsDay(r) ==
    /\ r.phase = "execute" /\ ~r.force /\ ~r.raced
    /\ stored[r.day] # None
    => AtLeast(stored'[r.day], stored[r.day])

GuardKeepsDay ==
    [][\A s \in Site :
          run'[s].phase # "execute" => KeepsDay(run[s])]_vars

(* A day that never reached D1 was mailed about on that day, if its check  *)
(* could read D1 and send: no later day hides it.                          *)
MissedDaysWarned == \A d \in checked : d \in warned \/ stored[d] # None

(* docs/enrich-observables-contract.md: "The same version gives the same   *)
(* answer for the same request".                                           *)
SameVersionSameAnswer ==
    \A i, j \in DOMAIN answers :
        /\ answers[i].version # None
        /\ answers[i].version = answers[j].version
        => answers[i].rows = answers[j].rows
=============================================================================
