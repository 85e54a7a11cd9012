------------------------------- MODULE Archive -------------------------------
(***************************************************************************)
(* What the daily reports collect, and what the archive of reports says of *)
(* it.  A run reads how far back the archive is unbroken, reads one feed   *)
(* after the other, and writes the report of its slot.  It takes the       *)
(* articles dated in the slot's window, and late ones, dated in a window   *)
(* of the unbroken chain, that no report of the chain has.  At the end it  *)
(* looks for sources that have failed for days.  Feeds change meanwhile,   *)
(* runs are repeated and overlap, and files of the archive may be lost.    *)
(*                                                                         *)
(* Windows are days: a day is a slot and the 24 hours before it.           *)
(***************************************************************************)
EXTENDS Naturals, FiniteSets, FiniteSetsExt

CONSTANTS
    Source,          \* feeds
    Article,         \* entries, by their canonical URL
    SourceOf,        \* the feed of an article
    Run,             \* `deliver` and its check, the timer's or by hand
    None,            \* no report
    LateLookback,    \* LATE_LOOKBACK, in days
    HealthLookback,  \* DEFAULT_LOOKBACK_DAYS
    LastDay,         \* bound: the last slot
    MaxRuns,         \* bound: runs
    MaxLost          \* bound: files lost

Day == 1 .. LastDay

ASSUME ArchiveAssumption ==
    /\ SourceOf \in [Article -> Source]
    /\ None \notin [articles : SUBSET Article, failed : SUBSET Source]
    /\ LateLookback \in Nat \ {0} /\ HealthLookback \in Nat \ {0}
    /\ LastDay \in Nat \ {0} /\ MaxRuns \in Nat /\ MaxLost \in Nat

VARIABLES
    today,    \* the slot that closed last
    dated,    \* the day an entry carries, 0 before it is published
    listed,   \* the entries the feeds carry
    report,   \* the report last written for each day
    lost,     \* days whose file cannot be read any more
    run,      \* where each run is, and what it has collected
    runs,     \* bound: runs so far
    losses,   \* bound: losses so far
    mailed,   \* <<source, day>>: reported as failing, on that report
    checked,  \* days whose check read the archive, and mailed if it had to
    seen,     \* history: what the feeds carried when a report was collected
    overdue   \* history: days written when the next slot had closed

feeds == <<dated, listed>>
archive == <<report, lost, seen, overdue>>
health == <<mailed, checked>>
vars == <<today, feeds, archive, run, runs, losses, health>>

Report == [articles : SUBSET Article, failed : SUBSET Source]

TypeOK ==
    /\ today \in Day
    /\ dated \in [Article -> 0 .. LastDay + 1]
    /\ listed \subseteq {a \in Article : dated[a] > 0}
    /\ report \in [Day -> Report \cup {None}]
    /\ lost \subseteq {d \in Day : report[d] # None}
    /\ run \in [Run -> [phase : {"idle", "collect", "check"}, day : Day,
                        chain : SUBSET Day,      \* windows taken from late
                        known : SUBSET Article,  \* what their reports have
                        unread : SUBSET Source,
                        articles : SUBSET Article,
                        failed : SUBSET Source,
                        seen : SUBSET Article]]
    /\ runs \in 0 .. MaxRuns
    /\ losses \in 0 .. MaxLost
    /\ mailed \subseteq Source \X Day
    /\ checked \subseteq {d \in Day : report[d] # None}
    /\ seen \in [Day -> SUBSET Article]
    /\ overdue \subseteq Day

Idle == [phase |-> "idle", day |-> 1, chain |-> {}, known |-> {},
         unread |-> {}, articles |-> {}, failed |-> {}, seen |-> {}]

Init ==
    /\ today = 1
    /\ dated = [a \in Article |-> 0]
    /\ listed = {}
    /\ report = [d \in Day |-> None]
    /\ lost = {}
    /\ run = [r \in Run |-> Idle]
    /\ runs = 0
    /\ losses = 0
    /\ mailed = {}
    /\ checked = {}
    /\ seen = [d \in Day |-> {}]
    /\ overdue = {}

Readable == {d \in Day : report[d] # None} \ lost

-----------------------------------------------------------------------------

(* A publisher lists an entry, dated today or a day that is over.          *)
Publish(a) ==
    /\ dated[a] = 0
    /\ \E d \in 1 .. today + 1 : dated' = [dated EXCEPT ![a] = d]
    /\ listed' = listed \cup {a}
    /\ UNCHANGED <<today, archive, run, runs, losses, health>>

(* Feeds carry their most recent entries only: one that is gone stays so.  *)
Drop(a) ==
    /\ a \in listed
    /\ listed' = listed \ {a}
    /\ UNCHANGED <<today, dated, archive, run, runs, losses, health>>

(* A file of the archive is damaged or deleted. *)
Lose(d) ==
    /\ d \in Readable
    /\ losses < MaxLost
    /\ losses' = losses + 1
    /\ lost' = lost \cup {d}
    /\ UNCHANGED <<today, feeds, report, seen, overdue, run, runs, health>>

NextSlot ==
    /\ today < LastDay
    /\ today' = today + 1
    /\ UNCHANGED <<feeds, archive, run, runs, losses, health>>

-----------------------------------------------------------------------------

(* Mutant: a gap in the archive is stepped over. *)
ChainOverGaps(d) == {e \in Readable : e < d /\ d - e <= LateLookback}

(* archived_before: the unbroken windows that end where the slot's begins. *)
Chain(d) ==
    {e \in Readable : /\ e < d
                      /\ d - e <= LateLookback
                      /\ e .. d - 1 \subseteq Readable}

(* Mutant: the slot's own report, of an earlier run, counts as collected.  *)
KnownWithOwn(d) ==
    UNION {report[e].articles : e \in Chain(d) \cup ({d} \cap Readable)}

Known(d) == UNION {report[e].articles : e \in Chain(d)}

Begin(r) ==
    /\ run[r].phase = "idle"
    /\ runs < MaxRuns
    /\ runs' = runs + 1
    /\ run' = [run EXCEPT ![r] =
                  [Idle EXCEPT !.phase = "collect", !.day = today,
                               !.chain = Chain(today), !.known = Known(today),
                               !.unread = Source]]
    /\ UNCHANGED <<today, feeds, archive, losses, health>>

(* parse_feed: the window's entries, and the late ones not collected yet.  *)
Taken(r, s) ==
    {a \in listed :
        /\ SourceOf[a] = s
        /\ \/ dated[a] = run[r].day
           \/ dated[a] \in run[r].chain /\ a \notin run[r].known}

ReadFeed(r, s) ==
    /\ run[r].phase = "collect"
    /\ s \in run[r].unread
    /\ run' = [run EXCEPT
                  ![r].unread = @ \ {s},
                  ![r].articles = @ \cup Taken(r, s),
                  ![r].seen = @ \cup {a \in listed : SourceOf[a] = s}]
    /\ UNCHANGED <<today, feeds, archive, runs, losses, health>>

(* A source that cannot be read is recorded, and the run goes on. *)
FeedFails(r, s) ==
    /\ run[r].phase = "collect"
    /\ s \in run[r].unread
    /\ run' = [run EXCEPT ![r].unread = @ \ {s}, ![r].failed = @ \cup {s}]
    /\ UNCHANGED <<today, feeds, archive, runs, losses, health>>

(* The report replaces its day's, whatever that one had. *)
Write(r) ==
    LET d == run[r].day IN
    /\ run[r].phase = "collect"
    /\ run[r].unread = {}
    /\ report' = [report EXCEPT ![d] = [articles |-> run[r].articles,
                                        failed |-> run[r].failed]]
    /\ lost' = lost \ {d}
    /\ checked' = checked \ {d}
    /\ seen' = [seen EXCEPT ![d] = run[r].seen]
    /\ overdue' = IF d < today THEN overdue \cup {d} ELSE overdue
    /\ run' = [run EXCEPT ![r] = [Idle EXCEPT !.phase = "check", !.day = d]]
    /\ UNCHANGED <<today, feeds, runs, losses, mailed>>

(* `deliver` ends with an error, before or after it wrote the pair, or the *)
(* run is killed.                                                          *)
Fail(r) ==
    /\ run[r].phase # "idle"
    /\ run' = [run EXCEPT ![r] = Idle]
    /\ UNCHANGED <<today, feeds, archive, runs, losses, health>>

-----------------------------------------------------------------------------

(* The newest reports, as many as the lookback. *)
DaysRead ==
    {d \in Readable :
        Cardinality({e \in Readable : e > d}) < HealthLookback}

(* source_streaks: reports without the failure end the streak.  Days that  *)
(* cannot be read are left out, and those around them are adjacent.        *)
Streak(s) ==
    {d \in DaysRead : \A e \in DaysRead : e >= d => s \in report[e].failed}

(* Mutant: the threshold itself is not a point. *)
NotifyPointLate(n) == n > 2 /\ \A q \in 3 .. n : n % q = 0 => q % 2 = 0

(* The threshold, 2, and each doubling of it: no odd divisor but 1.        *)
IsNotifyPoint(n) == n >= 2 /\ \A q \in 3 .. n : n % q = 0 => q % 2 = 0

(* Mutant: the check is taken for one of the day it runs on. *)
CheckToday(r) ==
    /\ run[r].phase = "check"
    /\ LET due == {s \in Source : IsNotifyPoint(Cardinality(Streak(s)))}
       IN  \/ /\ mailed' = mailed \cup (due \X {today})
              /\ checked' = checked \cup {today}
           \/ due # {} /\ UNCHANGED health
    /\ run' = [run EXCEPT ![r] = Idle]
    /\ UNCHANGED <<today, feeds, archive, runs, losses>>

(* `source-health --alert-only`, on what the archive holds by then.  A     *)
(* mail that is not sent is not tried again.                               *)
Check(r) ==
    /\ run[r].phase = "check"
    /\ IF Readable = {}
       THEN UNCHANGED health
       ELSE LET newest == Max(Readable)
                due == {s \in Source : IsNotifyPoint(Cardinality(Streak(s)))}
            IN  \/ /\ mailed' = mailed \cup (due \X {newest})
                   /\ checked' = checked \cup {newest}
                \/ due # {} /\ UNCHANGED health
    /\ run' = [run EXCEPT ![r] = Idle]
    /\ UNCHANGED <<today, feeds, archive, runs, losses>>

-----------------------------------------------------------------------------

Collect(r) ==
    \/ Begin(r)
    \/ \E s \in Source : ReadFeed(r, s) \/ FeedFails(r, s)
    \/ Write(r) \/ Fail(r) \/ Check(r)

Next ==
    \/ \E a \in Article : Publish(a) \/ Drop(a)
    \/ \E d \in Day : Lose(d)
    \/ NextSlot
    \/ \E r \in Run : Collect(r)

Spec == Init /\ [][Next]_vars

-----------------------------------------------------------------------------

ArticlesOf(d) == IF report[d] = None THEN {} ELSE report[d].articles

(* No article is in the reports of two days, even if one of their files    *)
(* was lost; unless a run wrote the earlier day after the next slot had    *)
(* closed, and so beside a run that may have read the archive before.      *)
CollectedOnce ==
    \A e \in Day \ overdue : \A d \in e + 1 .. LastDay :
        ArticlesOf(e) \cap ArticlesOf(d) = {}

(* A day's collection overlooks no entry its feeds carried: if the archive *)
(* is unbroken since the entry's day, no further back than the lookback,   *)
(* one of those reports has it.  That holds for an entry that is late, and *)
(* for one published while its source failed.                              *)
NoneOverlooked ==
    \A d \in Day : \A a \in seen[d] :
        LET since == dated[a] .. d
        IN  /\ dated[a] \in Day /\ dated[a] <= d
            /\ d - dated[a] <= LateLookback
            /\ since \subseteq Readable \ overdue
            => \E e \in since : a \in ArticlesOf(e)

(* The readable reports up to one in which a source kept failing.          *)
Outage(s, d) ==
    {x \in Readable :
        /\ x <= d
        /\ \A e \in Readable : x <= e /\ e <= d => s \in report[e].failed}

(* "With the default that is days 2, 4, 8, 16" *)
MailDays == {2, 4, 8, 16}

(* Every outage is mailed about on its second report, and on its fourth,   *)
(* eighth and sixteenth, as far as the lookback goes and if that report's  *)
(* check could send; unless a file was lost or a run was overdue.          *)
OutageMailed ==
    losses = 0 /\ overdue = {} =>
        \A s \in Source : \A d \in checked :
            LET n == Cardinality(Outage(s, d))
            IN  n \in MailDays /\ n <= HealthLookback => <<s, d>> \in mailed
=============================================================================
