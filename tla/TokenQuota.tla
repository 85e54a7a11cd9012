----------------------------- MODULE TokenQuota -----------------------------
(***************************************************************************)
(* The query service's per-token quotas.  Calls run concurrently: each     *)
(* reads its token's row, stamps its two time buckets, takes a slot in its *)
(* minute and then in its day with one conditional upsert each, and a      *)
(* refused call is recorded on the day's row.  A D1 statement may fail,    *)
(* before or after it took effect.  Meanwhile the operator changes limits  *)
(* and revokes tokens, and the daily check reads yesterday's rows, mails   *)
(* what is notable and deletes old rows.                                   *)
(***************************************************************************)
EXTENDS Integers, FiniteSets

CONSTANTS
    Token,            \* client tokens, keys of the tables `tokens`
    Bootstrap,        \* the caller with BOOTSTRAP_TOKEN, which has no row
    Call,             \* calls, each made at most once
    Limits,           \* limits the operator may set
    Null,             \* no limit set
    DefaultPerMinute,
    DefaultPerDay,
    RetentionDays,    \* USAGE_RETENTION_DAYS
    LastDay,          \* bound: the clock stops on this day
    LastMinute,       \* minutes of a day, from 0
    CronMinute        \* the minute the daily check is due (04:00 UTC)

Key == Token \cup {Bootstrap}
Day == 0 .. LastDay
Minute == 0 .. LastMinute

ASSUME TokenQuotaAssumption ==
    /\ Bootstrap \notin Token
    /\ Limits \subseteq Nat
    /\ Null \notin Nat
    /\ DefaultPerMinute \in Nat /\ DefaultPerDay \in Nat
    /\ RetentionDays \in Nat \ {0}
    /\ LastDay \in Nat /\ LastMinute \in Nat
    /\ CronMinute \in Minute

VARIABLES
    now,          \* UTC clock, to the minute
    tokens,       \* table `tokens`: active?, the two limits or Null
    minuteCount,  \* `m:` rows of token_usage; no row counts 0
    dayCount,     \* `d:` rows: count
    rejected,     \* `d:` rows: rejected
    pc,           \* where each call is
    caller,       \* who makes it
    limits,       \* the limits it read with the token's row
    stamp,        \* the minute and day it is counted in
    minuteSlot,   \* the count its minute take returned, 0 before
    daySlot,      \* the count its day take returned
    check,        \* the daily check: phase, day reported, keys to report
    lastCheck,    \* the day it last ran
    told,         \* the keys mailed about, with the day
    reported      \* history: the days whose check mailed all it had to

calls == <<pc, caller, limits, stamp, minuteSlot, daySlot>>
usage == <<minuteCount, dayCount, rejected>>
cron == <<check, lastCheck, told, reported>>
vars == <<now, tokens, usage, calls, cron>>

Counting == {"minute", "day", "reject"}
Answered == {"allowed", "refused", "unavailable", "unauthorized", "failed"}
Phase == {"idle", "authenticated"} \cup Counting \cup Answered
LimitPair == [perMinute : Nat, perDay : Nat]
Stamp == [day : Day, minute : Minute]
LimitValue == Limits \cup {Null}

TypeOK ==
    /\ now \in Stamp
    /\ tokens \in [Token -> [active : BOOLEAN, perMinute : LimitValue,
                             perDay : LimitValue]]
    /\ minuteCount \in [Key -> [Stamp -> Nat]]
    /\ dayCount \in [Key -> [Day -> Nat]]
    /\ rejected \in [Key -> [Day -> Nat]]
    /\ pc \in [Call -> Phase]
    /\ caller \in [Call -> Key]
    /\ limits \in [Call -> LimitPair]
    /\ stamp \in [Call -> Stamp]
    /\ minuteSlot \in [Call -> Nat]
    /\ daySlot \in [Call -> Nat]
    /\ check \in [phase : {"idle", "mail", "delete"}, day : Day \cup {-1},
                  notable : SUBSET Token]
    /\ lastCheck \in Day
    /\ told \subseteq Token \X Day
    /\ reported \subseteq Day

(* The clock starts after the first day's check; every token has a row.    *)
Init ==
    /\ now = [day |-> 0, minute |-> CronMinute]
    /\ tokens = [c \in Token |-> [active |-> TRUE, perMinute |-> Null,
                                  perDay |-> Null]]
    /\ minuteCount = [c \in Key |-> [t \in Stamp |-> 0]]
    /\ dayCount = [c \in Key |-> [d \in Day |-> 0]]
    /\ rejected = [c \in Key |-> [d \in Day |-> 0]]
    /\ pc = [k \in Call |-> "idle"]
    /\ caller = [k \in Call |-> Bootstrap]
    /\ limits = [k \in Call |-> [perMinute |-> 0, perDay |-> 0]]
    /\ stamp = [k \in Call |-> now]
    /\ minuteSlot = [k \in Call |-> 0]
    /\ daySlot = [k \in Call |-> 0]
    /\ check = [phase |-> "idle", day |-> -1, notable |-> {}]
    /\ lastCheck = 0
    /\ told = {}
    /\ reported = {}

Goto(k, phase) == pc' = [pc EXCEPT ![k] = phase]

(* Mutant: a limit that is not set is used as it is. *)
LimitsUnset(c) ==
    IF c = Bootstrap
    THEN [perMinute |-> DefaultPerMinute, perDay |-> DefaultPerDay]
    ELSE [perMinute |-> tokens[c].perMinute, perDay |-> tokens[c].perDay]

(* limitsFor: a limit that is not set is the default. *)
LimitsFor(c) ==
    LET pick(set, default) == IF set = Null THEN default ELSE set
    IN  IF c = Bootstrap
        THEN [perMinute |-> DefaultPerMinute, perDay |-> DefaultPerDay]
        ELSE [perMinute |-> pick(tokens[c].perMinute, DefaultPerMinute),
              perDay |-> pick(tokens[c].perDay, DefaultPerDay)]

-----------------------------------------------------------------------------

(* `authenticate` reads the row, and its limits, once. *)
Authenticate(k, c) ==
    /\ pc[k] = "idle"
    /\ caller' = [caller EXCEPT ![k] = c]
    /\ limits' = [limits EXCEPT ![k] = LimitsFor(c)]
    /\ \/ Goto(k, IF c = Bootstrap \/ tokens[c].active
                  THEN "authenticated" ELSE "unauthorized")
       \/ Goto(k, "failed")
    /\ UNCHANGED <<now, tokens, usage, stamp, minuteSlot, daySlot, cron>>

(* `checkQuota` stamps its buckets once, before any of its statements. A   *)
(* limit of 0 refuses without a take.                                      *)
CheckQuota(k) ==
    /\ pc[k] = "authenticated"
    /\ stamp' = [stamp EXCEPT ![k] = now]
    /\ Goto(k, IF limits[k].perMinute = 0 THEN "reject" ELSE "minute")
    /\ UNCHANGED <<now, tokens, usage, caller, limits, minuteSlot, daySlot,
                   cron>>

(* A statement that throws: 503, whether or not it took effect. *)
Unavailable(k) == Goto(k, "unavailable")

(* Mutant: the upsert counts up to and including the limit. *)
TakeMinutePast(k) ==
    LET n == minuteCount[caller[k]][stamp[k]] IN
    /\ pc[k] = "minute"
    /\ n <= limits[k].perMinute
    /\ minuteCount' = [minuteCount EXCEPT ![caller[k]][stamp[k]] = n + 1]
    /\ minuteSlot' = [minuteSlot EXCEPT ![k] = n + 1]
    /\ \/ Goto(k, IF limits[k].perDay = 0 THEN "reject" ELSE "day")
       \/ Unavailable(k)
    /\ UNCHANGED <<now, tokens, dayCount, rejected, caller, limits, stamp,
                   daySlot, cron>>

(* `take`, one statement: the row is made or incremented, or left alone.   *)
TakeMinute(k) ==
    LET n == minuteCount[caller[k]][stamp[k]] IN
    /\ pc[k] = "minute"
    /\ n < limits[k].perMinute
    /\ minuteCount' = [minuteCount EXCEPT ![caller[k]][stamp[k]] = n + 1]
    /\ minuteSlot' = [minuteSlot EXCEPT ![k] = n + 1]
    /\ \/ Goto(k, IF limits[k].perDay = 0 THEN "reject" ELSE "day")
       \/ Unavailable(k)
    /\ UNCHANGED <<now, tokens, dayCount, rejected, caller, limits, stamp,
                   daySlot, cron>>

MinuteIsFull(k) ==
    /\ pc[k] = "minute"
    /\ minuteCount[caller[k]][stamp[k]] >= limits[k].perMinute
    /\ Goto(k, "reject")
    /\ UNCHANGED <<now, tokens, usage, caller, limits, stamp, minuteSlot,
                   daySlot, cron>>

(* Mutant: the day's bucket is made when the statement runs. *)
TakeDayLate(k) ==
    LET n == dayCount[caller[k]][now.day] IN
    /\ pc[k] = "day"
    /\ n < limits[k].perDay
    /\ dayCount' = [dayCount EXCEPT ![caller[k]][now.day] = n + 1]
    /\ daySlot' = [daySlot EXCEPT ![k] = n + 1]
    /\ Goto(k, "allowed") \/ Unavailable(k)
    /\ UNCHANGED <<now, tokens, minuteCount, rejected, caller, limits, stamp,
                   minuteSlot, cron>>

TakeDay(k) ==
    LET n == dayCount[caller[k]][stamp[k].day] IN
    /\ pc[k] = "day"
    /\ n < limits[k].perDay
    /\ dayCount' = [dayCount EXCEPT ![caller[k]][stamp[k].day] = n + 1]
    /\ daySlot' = [daySlot EXCEPT ![k] = n + 1]
    /\ Goto(k, "allowed") \/ Unavailable(k)
    /\ UNCHANGED <<now, tokens, minuteCount, rejected, caller, limits, stamp,
                   minuteSlot, cron>>

DayIsFull(k) ==
    /\ pc[k] = "day"
    /\ dayCount[caller[k]][stamp[k].day] >= limits[k].perDay
    /\ Goto(k, "reject")
    /\ UNCHANGED <<now, tokens, usage, caller, limits, stamp, minuteSlot,
                   daySlot, cron>>

(* Mutant: a refusal is recorded on the day it is written. *)
RejectLate(k) ==
    /\ pc[k] = "reject"
    /\ rejected' = [rejected EXCEPT ![caller[k]][now.day] = @ + 1]
    /\ Goto(k, "refused") \/ Unavailable(k)
    /\ UNCHANGED <<now, tokens, minuteCount, dayCount, caller, limits, stamp,
                   minuteSlot, daySlot, cron>>

(* `reject`, on the day's row, then the 429. *)
Reject(k) ==
    /\ pc[k] = "reject"
    /\ rejected' = [rejected EXCEPT ![caller[k]][stamp[k].day] = @ + 1]
    /\ Goto(k, "refused") \/ Unavailable(k)
    /\ UNCHANGED <<now, tokens, minuteCount, dayCount, caller, limits, stamp,
                   minuteSlot, daySlot, cron>>

StatementFails(k) ==
    /\ pc[k] \in Counting
    /\ Unavailable(k)
    /\ UNCHANGED <<now, tokens, usage, caller, limits, stamp, minuteSlot,
                   daySlot, cron>>

-----------------------------------------------------------------------------

(* `token-admin.mjs limits`: one or both, of an active token. *)
SetLimits(c, m, d) ==
    /\ tokens[c].active
    /\ tokens' = [tokens EXCEPT ![c].perMinute = m, ![c].perDay = d]
    /\ UNCHANGED <<now, usage, calls, cron>>

(* `token-admin.mjs revoke` or `revoke-all`, or the token's expiry. *)
Revoke(c) ==
    /\ tokens[c].active
    /\ tokens' = [tokens EXCEPT ![c].active = FALSE]
    /\ UNCHANGED <<now, usage, calls, cron>>

Tick ==
    /\ now' = IF now.minute < LastMinute
              THEN [now EXCEPT !.minute = @ + 1]
              ELSE [day |-> now.day + 1, minute |-> 0]
    /\ now'.day <= LastDay
    /\ UNCHANGED <<tokens, usage, calls, cron>>

-----------------------------------------------------------------------------

(* renderUsageAlert: any refusal, or 80% of the daily limit in force now.  *)
Notable(c, d) ==
    LET perDay == LimitsFor(c).perDay IN
    \/ rejected[c][d] > 0
    \/ perDay > 0 /\ 10 * dayCount[c][d] >= 8 * perDay

(* Mutant: the check reports the day it runs on. *)
ReportToday(day) == day

ReportDay(day) == day - 1

(* A call is over long before the check of the next day, at 04:00 UTC.     *)
NoneLeftBehind == \A k \in Call : pc[k] \in Counting => stamp[k].day = now.day

(* `runUsageCheck`, from the cron: yesterday's rows joined with `tokens`,  *)
(* so the bootstrap caller is left out.  A failing read ends it.           *)
CheckReads ==
    /\ check.phase = "idle"
    /\ now.minute >= CronMinute
    /\ now.day > lastCheck
    /\ NoneLeftBehind
    /\ lastCheck' = now.day
    /\ \/ LET day == ReportDay(now.day) IN
          check' = [phase |-> "mail", day |-> day,
                    notable |-> {c \in Token : Notable(c, day)}]
       \/ UNCHANGED check
    /\ UNCHANGED <<now, tokens, usage, calls, told, reported>>

(* sendAlertMail never throws: the rows are cleaned up even if it failed.  *)
CheckMails ==
    /\ check.phase = "mail"
    /\ \/ /\ told' = told \cup {<<c, check.day>> : c \in check.notable}
          /\ reported' = reported \cup {lastCheck - 1}
       \/ check.notable # {} /\ UNCHANGED <<told, reported>>
    /\ check' = [check EXCEPT !.phase = "delete"]
    /\ UNCHANGED <<now, tokens, usage, calls, lastCheck>>

(* Mutant: the day of the check counts as over.                            *)
CheckDeletesToday ==
    /\ check.phase = "delete"
    /\ \/ /\ minuteCount' = [c \in Key |-> [t \in Stamp |->
                 IF t.day <= lastCheck THEN 0 ELSE minuteCount[c][t]]]
          /\ UNCHANGED <<dayCount, rejected>>
       \/ UNCHANGED usage
    /\ check' = [check EXCEPT !.phase = "idle", !.notable = {}]
    /\ UNCHANGED <<now, tokens, calls, lastCheck, told, reported>>

(* Minute rows of the days before, day rows older than the retention.      *)
CheckDeletes ==
    /\ check.phase = "delete"
    /\ \/ /\ minuteCount' = [c \in Key |-> [t \in Stamp |->
                 IF t.day < lastCheck THEN 0 ELSE minuteCount[c][t]]]
          /\ dayCount' = [c \in Key |-> [d \in Day |->
                 IF d < lastCheck - RetentionDays THEN 0 ELSE dayCount[c][d]]]
          /\ rejected' = [c \in Key |-> [d \in Day |->
                 IF d < lastCheck - RetentionDays THEN 0 ELSE rejected[c][d]]]
       \/ UNCHANGED usage
    /\ check' = [check EXCEPT !.phase = "idle", !.notable = {}]
    /\ UNCHANGED <<now, tokens, calls, lastCheck, told, reported>>

-----------------------------------------------------------------------------

Count(k) ==
    \/ \E c \in Key : Authenticate(k, c)
    \/ CheckQuota(k)
    \/ TakeMinute(k) \/ MinuteIsFull(k)
    \/ TakeDay(k) \/ DayIsFull(k)
    \/ Reject(k) \/ StatementFails(k)

Administer(c) ==
    \/ Revoke(c)
    \/ \E m, d \in LimitValue : SetLimits(c, m, d)

Next ==
    \/ \E k \in Call : Count(k)
    \/ \E c \in Token : Administer(c)
    \/ Tick
    \/ CheckReads \/ CheckMails \/ CheckDeletes

Spec == Init /\ [][Next]_vars

-----------------------------------------------------------------------------

SameMinute(j, k) == caller[j] = caller[k] /\ stamp[j] = stamp[k]
SameDay(j, k) == caller[j] = caller[k] /\ stamp[j].day = stamp[k].day

(* No more calls pass in a minute than the limit allows, however they      *)
(* interleave: each call that passed holds a slot no other call of its     *)
(* token and minute holds, within the limit it read.                       *)
MinuteQuota ==
    \A k \in Call :
        /\ pc[k] = "allowed" => minuteSlot[k] > 0
        /\ minuteSlot[k] <= limits[k].perMinute
        /\ \A j \in Call \ {k} :
               SameMinute(j, k) /\ minuteSlot[k] > 0
                   => minuteSlot[j] # minuteSlot[k]

(* The same for the UTC day, whatever limits were set and whatever the     *)
(* daily check deleted meanwhile.                                          *)
DayQuota ==
    \A k \in Call :
        /\ pc[k] = "allowed" => daySlot[k] > 0
        /\ daySlot[k] <= limits[k].perDay
        /\ \A j \in Call \ {k} :
               SameDay(j, k) /\ daySlot[k] > 0 => daySlot[j] # daySlot[k]

(* The day's row tells what happened, until it is past its retention: a    *)
(* call counts once if it got through its minute and its day, so calls     *)
(* refused by the minute do not spend the day; every 429 is on the row.    *)
DayRowTruthful ==
    \A c \in Key : \A d \in {e \in Day : e >= lastCheck - RetentionDays} :
        LET made(S) == {k \in Call : /\ caller[k] = c
                                     /\ stamp[k].day = d
                                     /\ pc[k] \in S}
            counted == {k \in made(Answered) : daySlot[k] > 0}
        IN  /\ dayCount[c][d] = Cardinality(counted)
            /\ \A k \in counted : minuteSlot[k] > 0
            /\ Cardinality(made({"refused"})) <= rejected[c][d]
            /\ rejected[c][d] <= Cardinality(made({"refused", "unavailable"}))

(* Once the check of a day has mailed what it read, every client token     *)
(* that was refused a call on that day has been reported.                  *)
RefusalsReported ==
    \A k \in Call :
        /\ pc[k] = "refused"
        /\ caller[k] \in Token
        /\ stamp[k].day \in reported
        => <<caller[k], stamp[k].day>> \in told

(* The two quotas as abstract ones: a call claims a slot of its minute and *)
(* one of its day.                                                         *)
MinuteSlots == INSTANCE Slots WITH
    Claim <- Call, Bucket <- Key \X Stamp,
    limit <- [k \in Call |-> limits[k].perMinute],
    bucket <- [k \in Call |-> <<caller[k], stamp[k]>>],
    number <- minuteSlot

DaySlots == INSTANCE Slots WITH
    Claim <- Call, Bucket <- Key \X Day,
    limit <- [k \in Call |-> limits[k].perDay],
    bucket <- [k \in Call |-> <<caller[k], stamp[k].day>>],
    number <- daySlot

(* Whatever tokens, operators, clocks, failing statements and the daily    *)
(* check do to the counters in D1, the two upserts implement quotas that   *)
(* never give a slot twice, above a limit, or take one back.  (checkQuota, *)
(* take.)                                                                  *)
QuotasAreKept == MinuteSlots!Spec /\ DaySlots!Spec
=============================================================================
