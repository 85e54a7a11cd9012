---------------------------- MODULE EnrichCache ----------------------------
(***************************************************************************)
(* The CVE enrichment of the daily run (enrich.py): CISA KEV, FIRST EPSS   *)
(* and NVD, asked through a cache on disk, under the rate limit of NVD and *)
(* a budget of seconds for the NVD loop.  A step is one request or one CVE *)
(* of that loop; lookups may fail and a run may be killed between any two. *)
(* Days measure the age of what is cached, seconds the time within a run.  *)
(***************************************************************************)
EXTENDS Integers, Sequences, FiniteSetsExt

CONSTANTS
    Cve,          \* numbers, in the order enrich_cves goes through them
    Worlds,       \* what KEV, NVD and EPSS may publish, day by day
    ScoredTtl, UnscoredTtl, KevTtl, EpssTtl,   \* in days
    EpssBatch,    \* CVEs of one EPSS request
    Allowance, Window,          \* requests NVD allows in so many seconds
    Budget,       \* seconds for the NVD loop
    MaxDelay,     \* bound: seconds a request takes
    LastDay, MaxRuns, MaxFailures,             \* bounds
    None

Day == 0 .. LastDay

(* What NVD says of a CVE: nothing, a record without a score, or a score.  *)
Score == {"low", "high"}
Nvd == {"unknown", "unscored"} \cup Score

(* What the three publish on each day.                                     *)
World == [kev : [Day -> SUBSET Cve], nvd : [Day -> [Cve -> Nvd]],
          epss : [Day -> SUBSET Cve]]

ASSUME EnrichAssumption ==
    /\ Cve \subseteq Nat /\ IsFiniteSet(Cve)
    /\ Worlds \subseteq World
    /\ {ScoredTtl, UnscoredTtl, KevTtl, EpssTtl} \subseteq Nat
    /\ {LastDay, MaxRuns, MaxFailures} \subseteq Nat
    /\ {EpssBatch, Allowance, Window, Budget, MaxDelay} \subseteq Nat \ {0}
    /\ None \notin Nvd

VARIABLES
    world, day,
    runs, failures,   \* counted against their bounds
    held,             \* the cache directory
    phase,            \* where the run is: idle, kev, epss, nvd, done
    wanted,           \* the CVEs of the run
    left,             \* those the phase has not come to
    kev, epss,        \* what the run knows of the two catalogues
    seconds,          \* since the NVD loop began
    calls,            \* _RateLimiter: its list of request times
    spent,            \* the budget was found used up
    stats, errors,    \* the report
    failed,           \* the CVEs whose NVD request failed
    intel,            \* the records that come out
    requests          \* when NVD requests went out (history)

cacheVars ==
    <<world, day, runs, failures, held, phase, wanted, left, kev, epss,
      seconds, calls, spent, stats, errors, failed, intel, requests>>

-----------------------------------------------------------------------------

NoStats == [hits |-> 0, lookups |-> 0, stale |-> 0, unqueried |-> 0]

(* A run before its first request.                                         *)
Fresh(w) ==
    /\ wanted' = w /\ left' = w
    /\ kev' = {} /\ epss' = {} /\ seconds' = 0 /\ calls' = <<>>
    /\ spent' = FALSE /\ stats' = NoStats /\ errors' = {} /\ failed' = {}
    /\ intel' = [c \in {} |-> None] /\ requests' = <<>>

CacheInit ==
    /\ world \in Worlds
    /\ day = 0 /\ runs = 0 /\ failures = 0
    /\ held = [kev |-> None, nvd |-> [c \in Cve |-> None],
               epss |-> [c \in Cve |-> None]]
    /\ phase = "idle"
    /\ wanted = {} /\ left = {} /\ kev = {} /\ epss = {} /\ seconds = 0
    /\ calls = <<>> /\ spent = FALSE /\ stats = NoStats /\ errors = {}
    /\ failed = {}
    /\ intel = [c \in {} |-> None] /\ requests = <<>>

BeginRun(w) ==
    /\ phase \in {"idle", "done"} /\ runs < MaxRuns
    /\ runs' = runs + 1
    /\ Fresh(w)
    /\ phase' = "kev"
    /\ UNCHANGED <<world, day, failures, held>>

NextDay ==
    /\ phase \in {"idle", "done"} /\ day < LastDay
    /\ day' = day + 1 /\ phase' = "idle"
    /\ Fresh({})
    /\ UNCHANGED <<world, runs, failures, held>>

(* The unit's time limit or a reboot: only the cache outlives the run.     *)
Kill ==
    /\ phase \in {"kev", "epss", "nvd"} /\ failures < MaxFailures
    /\ failures' = failures + 1
    /\ phase' = "idle"
    /\ Fresh({})
    /\ UNCHANGED <<world, day, runs, held>>

(* A lookup may fail, a bounded number of times. *)
Outcome(ok) ==
    /\ ok \/ failures < MaxFailures
    /\ failures' = IF ok THEN failures ELSE failures + 1

-----------------------------------------------------------------------------

Young(entry, ttl) == entry # None /\ day - entry.at <= ttl

(* _load_kev: the cached catalogue, or the one request for it.             *)
LoadKev(ok) ==
    /\ phase = "kev"
    /\ IF Young(held.kev, KevTtl)
       THEN /\ ok /\ kev' = held.kev.data
            /\ UNCHANGED <<failures, held, errors>>
       ELSE /\ Outcome(ok)
            /\ kev' = IF ok THEN world.kev[day] ELSE {}
            /\ errors' = IF ok THEN errors ELSE errors \cup {"kev"}
            /\ held' = IF ok THEN [held EXCEPT !.kev =
                                     [data |-> kev', at |-> day]]
                       ELSE held
    /\ phase' = "epss"
    /\ UNCHANGED <<world, day, runs, wanted, left, epss, seconds, calls,
                   spent, stats, failed, intel, requests>>

(* _load_epss: scores from the cache first, a cached miss included.        *)
EpssCached ==
    {c \in wanted : Young(held.epss[c], EpssTtl)}

(* What one batch answers; a CVE EPSS does not rate is cached as a miss.   *)
AskEpss(batch) ==
    LET rated == batch \cap world.epss[day]
    IN  /\ epss' = epss \cup rated
        /\ held' = [held EXCEPT !.epss = [c \in Cve |->
                       IF c \in batch THEN [data |-> c \in rated, at |-> day]
                       ELSE held.epss[c]]]

Batches ==
    {b \in SUBSET left : /\ Cardinality(b) <= EpssBatch
                         /\ Cardinality(b) = EpssBatch \/ b = left
                         /\ \A c \in b, d \in left \ b : c < d}

LoadEpss(ok) ==
    /\ phase = "epss"
    /\ \/ /\ left \cap EpssCached # {}
          /\ ok
          /\ left' = left \ EpssCached
          /\ epss' = {c \in EpssCached : held.epss[c].data}
          /\ UNCHANGED <<failures, held, errors, phase>>
       \/ /\ left \cap EpssCached = {} /\ left # {}
          /\ \E batch \in Batches :
               /\ left' = left \ batch
               /\ Outcome(ok)
               /\ IF ok THEN AskEpss(batch) ELSE UNCHANGED <<epss, held>>
          /\ errors' = IF ok THEN errors ELSE errors \cup {"epss"}
          /\ UNCHANGED phase
       \/ /\ left = {} /\ ok
          /\ phase' = "nvd" /\ left' = wanted
          /\ UNCHANGED <<failures, held, epss, errors>>
    /\ UNCHANGED <<world, day, runs, wanted, kev, seconds, calls, spent,
                   stats, failed, intel, requests>>

-----------------------------------------------------------------------------
(* The NVD loop of enrich_cves, one CVE a step.                            *)

(* The calls of the window.  Times only grow, so those are the last ones.  *)
Recent(at) ==
    LET oldest == Min({i \in 1 .. Len(calls) + 1 :
                          i \in DOMAIN calls => at - calls[i] < Window})
    IN  SubSeq(calls, oldest, Len(calls))

(* Mutant: the limiter does not sleep.                                     *)
NoWait == seconds

(* _RateLimiter.wait: when the next request may go out.                    *)
Wait ==
    IF Len(Recent(seconds)) < Allowance THEN seconds
    ELSE Head(Recent(seconds)) + Window

(* Mutant: an unscored record is kept as long as a scored one.             *)
TtlOfAny(data) == ScoredTtl

TtlOf(data) == IF data \in Score THEN ScoredTtl ELSE UnscoredTtl

CacheFresh(c) ==
    held.nvd[c] # None /\ Young(held.nvd[c], TtlOf(held.nvd[c].data))

(* Past the budget only what is on disk is served, whatever its age.       *)
IsSpent == spent \/ seconds >= Budget

Count(field) == stats' = [stats EXCEPT ![field] = @ + 1]

(* Mutant: a CVE NVD said nothing of is left out, listed by KEV or not.    *)
RecordOfNvd(c, nvd) ==
    intel' = IF nvd = None THEN intel
             ELSE [x \in DOMAIN intel \cup {c} |->
                     IF x # c THEN intel[x]
                     ELSE [kev |-> c \in kev, nvd |-> nvd,
                           epss |-> c \in epss]]

(* The CVE's record is put together from the three; one without any data   *)
(* is left out.                                                            *)
(* Of a CVE's record (CveIntel) the model keeps whether KEV lists it, what *)
(* NVD said (None: not known) and whether EPSS rates it.                   *)
Record(c, nvd) ==
    LET record == [kev |-> c \in kev, nvd |-> nvd, epss |-> c \in epss]
    IN  intel' = IF c \in kev \/ nvd # None \/ c \in epss
                 THEN [x \in DOMAIN intel \cup {c} |->
                          IF x = c THEN record ELSE intel[x]]
                 ELSE intel

Turn(c) ==
    /\ phase = "nvd" /\ left # {} /\ c = Min(left)
    /\ left' = left \ {c}
    /\ spent' = IsSpent
    /\ UNCHANGED <<world, day, runs, phase, wanted, kev, epss, errors>>

NoRequest == UNCHANGED <<failures, held, seconds, calls, requests, failed>>

CacheHit(c) ==
    /\ Turn(c) /\ CacheFresh(c)
    /\ Count("hits")
    /\ Record(c, held.nvd[c].data)
    /\ NoRequest

(* Mutant: past the budget nothing but a fresh record is served.           *)
PastBudgetNone(c) ==
    /\ Count("unqueried")
    /\ Record(c, None)

PastBudget(c) ==
    IF held.nvd[c] # None
    THEN Count("stale") /\ Record(c, held.nvd[c].data)
    ELSE Count("unqueried") /\ Record(c, None)

BudgetCut(c) ==
    /\ Turn(c) /\ ~CacheFresh(c) /\ IsSpent
    /\ PastBudget(c)
    /\ NoRequest

Lookup(c, delay, ok) ==
    /\ Turn(c) /\ ~CacheFresh(c) /\ ~IsSpent
    /\ Outcome(ok)
    /\ Count("lookups")
    /\ seconds' = Wait + delay
    /\ calls' = Append(Recent(Wait), Wait)
    /\ requests' = Append(requests, Wait)
    /\ IF ok
       THEN LET data == world.nvd[day][c]
            IN  /\ held' = [held EXCEPT !.nvd[c] =
                               [data |-> data, at |-> day]]
                /\ Record(c, data)
                /\ UNCHANGED failed
       ELSE /\ failed' = failed \cup {c}
            /\ Record(c, None)
            /\ UNCHANGED held

(* The report says where the budget cut the run.                           *)
Finish ==
    /\ phase = "nvd" /\ left = {}
    /\ phase' = "done"
    /\ errors' = IF spent THEN errors \cup {"budget"} ELSE errors
    /\ UNCHANGED <<world, day, runs, failures, held, wanted, left, kev, epss,
                   seconds, calls, spent, stats, failed, intel, requests>>

CacheNext ==
    \/ \E w \in SUBSET Cve \ {{}} : BeginRun(w)
    \/ NextDay
    \/ Kill
    \/ \E ok \in BOOLEAN : LoadKev(ok) \/ LoadEpss(ok)
    \/ \E c \in Cve :
         \/ CacheHit(c)
         \/ BudgetCut(c)
         \/ \E delay \in 1 .. MaxDelay, ok \in BOOLEAN : Lookup(c, delay, ok)
    \/ Finish

CacheSpec == CacheInit /\ [][CacheNext]_cacheVars

-----------------------------------------------------------------------------

(* What NVD said of a CVE within the age its record may have.              *)
WithinAge(c, nvd) ==
    LET ttl == IF nvd \in Score THEN ScoredTtl ELSE UnscoredTtl
    IN  \E d \in 0 .. day : day - d <= ttl /\ world.nvd[d][c] = nvd

(* Each CVE of a finished run went one way, and a run that leaves one      *)
(* without the score that is on disk says so: its lookup failed.  What the *)
(* budget cut is counted by whether anything was on disk, and is reported. *)
EveryCveAccounted ==
    phase = "done" =>
        /\ stats.hits + stats.lookups + stats.stale + stats.unqueried
               = Cardinality(wanted)
        /\ \A c \in wanted \ failed :
               held.nvd[c] # None /\ held.nvd[c].data \in Score =>
                   c \in DOMAIN intel /\ intel[c].nvd = held.nvd[c].data
        /\ stats.stale + stats.unqueried > 0 => "budget" \in errors
        /\ stats.unqueried + Cardinality(failed)
               = Cardinality({c \in wanted : c \notin DOMAIN intel
                                             \/ intel[c].nvd = None})

(* The rate limit holds for every window of a run, waits included, and the *)
(* NVD phase ends within the budget plus the one request it may have begun *)
(* (the run of 348 CVEs that overran its unit, enrich.py:35-40).           *)
NvdPaced ==
    /\ \A i, j \in DOMAIN requests :
           i < j /\ requests[j] - requests[i] < Window => j - i < Allowance
    /\ seconds < Budget + Window + MaxDelay

(* No record is invented and none is passed off as current: beyond the age *)
(* of its kind there are only the ones stale_cache_hits counts, which are  *)
(* older answers of NVD, whatever runs failed or were killed in between.   *)
AgeIsTold ==
    phase = "done" =>
        LET answered == {c \in DOMAIN intel : intel[c].nvd # None}
        IN  /\ \A c \in answered :
                   \E d \in 0 .. day : world.nvd[d][c] = intel[c].nvd
            /\ Cardinality({c \in answered : ~WithinAge(c, intel[c].nvd)})
                   <= stats.stale

(* The KEV catalogue and the EPSS scores reach every CVE, those behind the *)
(* cut of the budget included, unless their own request failed; a CVE EPSS *)
(* does not rate is no failure.                                            *)
CataloguesReachAll ==
    phase = "done" =>
        /\ "kev" \notin errors =>
              \E d \in 0 .. day :
                    /\ day - d <= KevTtl
                    /\ {c \in DOMAIN intel : intel[c].kev}
                           = world.kev[d] \cap wanted
        /\ "epss" \notin errors =>
              \A c \in wanted : \E d \in 0 .. day :
                    /\ day - d <= EpssTtl
                    /\ (c \in DOMAIN intel /\ intel[c].epss)
                           <=> c \in world.epss[d]
=============================================================================
