-------------------------- MODULE EnrichCacheProofs --------------------------
(***************************************************************************)
(* Proofs about EnrichCache, for any CVEs, any history of the catalogues,  *)
(* any lifetimes, rates, budget and bounds: that NVD is paced, that every  *)
(* CVE is accounted for, that a record's age is told, and that KEV and     *)
(* EPSS reach every CVE.                                                   *)
(*                                                                         *)
(* The invariant has one part per concern.  EnrichType, DiskTrue: what is  *)
(* on disk was published on the day it was stored.  PaceOK: the limiter's  *)
(* list is the tail of the run's requests, and what it has dropped is out  *)
(* of the window for good.  CataloguesOK, RunOK: what the phase has come   *)
(* to, CVE by CVE; the counters count the CVEs handled.                    *)
(***************************************************************************)
EXTENDS EnrichCache, FiniteSetTheorems, WellFoundedInduction, TLAPS

Phases == {"idle", "kev", "epss", "nvd", "done"}

Fields == {"hits", "lookups", "stale", "unqueried"}

(* What a directory of cached answers holds, each with its day.            *)
NvdEntry  == [data : Nvd, at : Nat]
KevEntry  == [data : SUBSET Cve, at : Nat]
EpssEntry == [data : BOOLEAN, at : Nat]

Cache ==
    [kev : {None} \cup KevEntry, nvd : [Cve -> {None} \cup NvdEntry],
     epss : [Cve -> {None} \cup EpssEntry]]

(* What the model's variables range over.                                  *)
EnrichType ==
    /\ world \in Worlds /\ day \in Day
    /\ held \in Cache
    /\ phase \in Phases
    /\ wanted \subseteq Cve /\ left \subseteq wanted
    /\ kev \subseteq Cve /\ epss \subseteq Cve
    /\ seconds \in Nat /\ calls \in Seq(Nat) /\ requests \in Seq(Nat)
    /\ spent \in BOOLEAN /\ stats \in [Fields -> Nat]
    /\ errors \subseteq {"kev", "epss", "budget"}
    /\ failed \subseteq wanted

(* Everything on disk was published on the day it was stored.              *)
DiskTrue ==
    /\ held.kev # None =>
         held.kev.at <= day /\ held.kev.data = world.kev[held.kev.at]
    /\ \A c \in Cve : held.nvd[c] # None =>
         /\ held.nvd[c].at <= day
         /\ held.nvd[c].data = world.nvd[held.nvd[c].at][c]
    /\ \A c \in Cve : held.epss[c] # None =>
         /\ held.epss[c].at <= day
         /\ held.epss[c].data <=> c \in world.epss[held.epss[c].at]

(* The limiter's calls are the latest requests of the run; the others are  *)
(* out of the window, now and later.                                       *)
PaceOK ==
    LET n == Len(requests)
        m == Len(calls)
    IN  /\ \A i \in 1 .. n : requests[i] <= seconds
        /\ \A i, j \in 1 .. n : i < j => requests[i] <= requests[j]
        /\ m <= n /\ m <= Allowance
        /\ \A i \in 1 .. m : calls[i] = requests[n - m + i]
        /\ \A i \in 1 .. n - m : seconds - requests[i] >= Window

(* What the run's records say of a CVE.                                    *)
NvdOf(c)  == IF c \in DOMAIN intel THEN intel[c].nvd ELSE None
KevOf(c)  == c \in DOMAIN intel /\ intel[c].kev
EpssOf(c) == c \in DOMAIN intel /\ intel[c].epss

Handled == wanted \ left

(* What a run knows of the catalogues once it has asked for them.          *)
KevKnown ==
    "kev" \notin errors =>
        \E d \in 0 .. day : day - d <= KevTtl /\ kev = world.kev[d]

EpssKnown(c) ==
    "epss" \notin errors =>
        \E d \in 0 .. day : /\ day - d <= EpssTtl
                            /\ c \in epss <=> c \in world.epss[d]

CataloguesOK ==
    /\ phase \in {"epss", "nvd", "done"} => KevKnown
    /\ phase = "epss" =>
         /\ left = wanted \/ left \cap EpssCached = {}
         /\ epss \subseteq Handled
         /\ \A c \in Handled : EpssKnown(c)
    /\ phase \in {"nvd", "done"} => \A c \in wanted : EpssKnown(c)

(* Before the NVD loop there are no records and nothing is counted.        *)
Unstarted ==
    /\ DOMAIN intel = {} /\ stats = NoStats /\ failed = {} /\ ~spent
    /\ seconds = 0 /\ calls = <<>> /\ requests = <<>>

(* In it, every CVE handled is counted once and has what it is due.        *)
NotKnown == {c \in Handled : NvdOf(c) = None}

PastAge == {c \in Handled : NvdOf(c) # None /\ ~WithinAge(c, NvdOf(c))}

LoopOK ==
    /\ DOMAIN intel \subseteq Handled /\ failed \subseteq Handled
    /\ stats.hits + stats.lookups + stats.stale + stats.unqueried
           = Cardinality(Handled)
    /\ \A c \in Handled \ failed :
           held.nvd[c] # None => NvdOf(c) = held.nvd[c].data
    /\ stats.stale + stats.unqueried > 0 => spent
    /\ stats.unqueried + Cardinality(failed) = Cardinality(NotKnown)
    /\ \A c \in Handled :
          /\ NvdOf(c) # None =>
                \E d \in 0 .. day : world.nvd[d][c] = NvdOf(c)
          /\ KevOf(c) <=> c \in kev
          /\ EpssOf(c) <=> c \in epss
    /\ Cardinality(PastAge) <= stats.stale

RunOK ==
    /\ phase \in {"idle", "kev", "epss"} => Unstarted
    /\ phase \in {"idle", "kev"} => left = wanted /\ epss = {}
    /\ phase \in {"nvd", "done"} => LoopOK
    /\ phase = "done" => left = {} /\ (spent => "budget" \in errors)

IInv == EnrichType /\ DiskTrue /\ PaceOK /\ NvdPaced /\ CataloguesOK /\ RunOK

-----------------------------------------------------------------------------

(* A nonempty set of numbers has a least one.                              *)
LEMMA LeastOf ==
    ASSUME NEW S \in SUBSET Nat, S # {}
    PROVE  Min(S) \in S /\ \A j \in S : Min(S) <= j
  <1> DEFINE R == OpToRel(<, Nat)
  <1>1. PICK x \in S : \A y \in S : ~ (<<y, x>> \in R)
    <2>1. IsWellFoundedOn(R, Nat)
      BY NatLessThanWellFounded
    <2> HIDE DEF R
    <2> QED BY <2>1, WFMin
  <1>2. ASSUME NEW y \in S PROVE x <= y
    <2>1. CASE y < x
      <3>1. <<y, x>> \in Nat \X Nat
        OBVIOUS
      <3>2. <<y, x>> \in R
        BY <2>1, <3>1 DEF OpToRel
      <3> QED BY <1>1, <3>2
    <2> HIDE DEF R
    <2> QED BY <2>1
  <1> QED BY <1>2 DEF Min

(* The lifetimes, rates and bounds are numbers.                            *)
LEMMA Numbers ==
    /\ ScoredTtl \in Nat /\ UnscoredTtl \in Nat /\ KevTtl \in Nat
    /\ EpssTtl \in Nat /\ LastDay \in Nat
    /\ Allowance \in Nat \ {0} /\ Window \in Nat \ {0}
    /\ Budget \in Nat \ {0} /\ MaxDelay \in Nat \ {0}
    /\ Cve \subseteq Nat /\ Day \subseteq Nat /\ Day = 0 .. LastDay
  BY EnrichAssumption DEF Day

LEMMA FiniteCves ==
    \A S \in SUBSET Cve : IsFiniteSet(S) /\ Cardinality(S) \in Nat
  BY EnrichAssumption, FS_Subset, FS_CardinalityType

LEMMA NoStatsIsTyped == NoStats \in [Fields -> Nat]
  BY DEF NoStats, Fields

LEMMA FreshIsTyped ==
    ASSUME NEW w \in SUBSET Cve, Fresh(w)
    PROVE  /\ wanted' \subseteq Cve /\ left' \subseteq wanted'
           /\ kev' \subseteq Cve /\ epss' \subseteq Cve
           /\ seconds' \in Nat /\ calls' \in Seq(Nat) /\ requests' \in Seq(Nat)
           /\ spent' \in BOOLEAN /\ stats' \in [Fields -> Nat]
           /\ errors' \subseteq {"kev", "epss", "budget"}
           /\ failed' \subseteq wanted'
  <1>1. stats' \in [Fields -> Nat]
    BY NoStatsIsTyped DEF Fresh
  <1>2. calls' \in Seq(Nat) /\ requests' \in Seq(Nat)
    BY DEF Fresh
  <1> QED BY <1>1, <1>2 DEF Fresh

LEMMA InitType == CacheInit => EnrichType
  <1> SUFFICES ASSUME CacheInit PROVE EnrichType
    OBVIOUS
  <1>1. held \in Cache
    BY DEF CacheInit, Cache
  <1>2. stats \in [Fields -> Nat]
    BY NoStatsIsTyped DEF CacheInit
  <1>3. calls \in Seq(Nat) /\ requests \in Seq(Nat)
    BY DEF CacheInit
  <1>4. day \in Day
    BY Numbers DEF CacheInit
  <1> QED BY <1>1, <1>2, <1>3, <1>4 DEF CacheInit, EnrichType, Phases

(* The turn of one CVE in the NVD loop, whichever way it goes: what it is  *)
(* counted as, and what its record says NVD said.                          *)
TakesUp(c) ==
    \/ CacheHit(c) \/ BudgetCut(c)
    \/ \E delay \in 1 .. MaxDelay, ok \in BOOLEAN : Lookup(c, delay, ok)

Answers(c) == {held.nvd[c].data, world.nvd[day][c], None}

Counted(field) == stats' = [stats EXCEPT ![field] = @ + 1]

Served(c) == held.nvd[c] # None /\ UNCHANGED <<held, failed>>

Went(c, field, nvd) ==
    \/ /\ field = "hits" /\ nvd = held.nvd[c].data
       /\ CacheFresh(c) /\ Served(c)
    \/ /\ field = "stale" /\ nvd = held.nvd[c].data
       /\ IsSpent /\ Served(c)
    \/ /\ field = "unqueried" /\ nvd = None /\ held.nvd[c] = None
       /\ IsSpent /\ UNCHANGED <<held, failed>>
    \/ /\ field = "lookups" /\ nvd = world.nvd[day][c]
       /\ held' = [held EXCEPT !.nvd[c] = [data |-> nvd, at |-> day]]
       /\ UNCHANGED failed
    \/ /\ field = "lookups" /\ nvd = None
       /\ failed' = failed \cup {c} /\ UNCHANGED held

LEMMA TurnGoes ==
    ASSUME NEW c \in Cve, TakesUp(c)
    PROVE  Turn(c) /\ \E field \in Fields, nvd \in Answers(c) :
               Counted(field) /\ Record(c, nvd) /\ Went(c, field, nvd)
  <1> DEFINE Gone == \E field \in Fields, nvd \in Answers(c) :
                        Counted(field) /\ Record(c, nvd) /\ Went(c, field, nvd)
  <1>1. CASE CacheHit(c)
    BY <1>1 DEF CacheHit, CacheFresh, Count, Counted, NoRequest, Went,
       Served, Fields, Answers
  <1>2. CASE BudgetCut(c)
    BY <1>2 DEF BudgetCut, PastBudget, Count, Counted, NoRequest, Went,
       Served, Fields, Answers
  <1>3. ASSUME NEW delay \in 1 .. MaxDelay, NEW ok \in BOOLEAN,
               Lookup(c, delay, ok)
        PROVE  Turn(c) /\ Gone
    <2>1. CASE ok
      BY <1>3, <2>1 DEF Lookup, Count, Counted, Went, Fields, Answers
    <2>2. CASE ~ok
      BY <1>3, <2>2 DEF Lookup, Count, Counted, Went, Fields, Answers
    <2> QED BY <2>1, <2>2
  <1> QED BY <1>1, <1>2, <1>3 DEF TakesUp

-----------------------------------------------------------------------------
(* The steps keep the types.                                               *)

LEMMA WorldIsTyped ==
    ASSUME EnrichType
    PROVE  /\ day \in Day /\ day \in Nat /\ 0 .. day \subseteq Day
           /\ \A d \in Day : /\ world.kev[d] \in SUBSET Cve
                             /\ world.nvd[d] \in [Cve -> Nvd]
                             /\ world.epss[d] \in SUBSET Cve
  <1>1. world \in World /\ day \in Day
    BY EnrichAssumption DEF EnrichType
  <1>2. day \in Nat /\ 0 .. day \subseteq Day
    BY <1>1, Numbers
  <1> QED BY <1>1, <1>2 DEF World

(* The limiter hands out a time, and keeps a tail of its calls.            *)
LEMMA RecentIsTail ==
    ASSUME calls \in Seq(Nat), NEW at \in Nat
    PROVE  \E k \in Nat :
              /\ 1 <= k /\ k <= Len(calls) + 1
              /\ Recent(at) = SubSeq(calls, k, Len(calls))
              /\ k \in DOMAIN calls => at - calls[k] < Window
              /\ \A i \in 1 .. k - 1 : at - calls[i] >= Window
  <1> DEFINE n == Len(calls)
             S == {i \in 1 .. n + 1 : i \in DOMAIN calls => at - calls[i] < Window}
             k == Min(S)
  <1>1. n \in Nat /\ DOMAIN calls = 1 .. n /\ \A i \in 1 .. n : calls[i] \in Nat
    OBVIOUS
  <1>2. n + 1 \in S /\ S \in SUBSET Nat
    BY <1>1
  <1>3. k \in S /\ \A j \in S : k <= j
    BY <1>2, LeastOf
  <1>4. Recent(at) = SubSeq(calls, k, n)
    BY DEF Recent
  <1> HIDE DEF k
  <1>5. ASSUME NEW i \in 1 .. k - 1 PROVE at - calls[i] >= Window
    <2>1. i \in 1 .. n /\ k \in 1 .. n + 1 /\ i < k
      BY <1>1, <1>3
    <2>2. i \notin S
      BY <1>3, <2>1
    <2>3. ~ (at - calls[i] < Window)
      BY <1>1, <2>1, <2>2
    <2>4. at - calls[i] \in Int /\ Window \in Nat
      BY <1>1, <2>1, Numbers
    <2> QED BY <2>3, <2>4
  <1>6. k \in Nat /\ 1 <= k /\ k <= n + 1
    BY <1>1, <1>3
  <1> QED BY <1>3, <1>4, <1>5, <1>6

LEMMA WaitIsTyped ==
    ASSUME calls \in Seq(Nat), seconds \in Nat
    PROVE  Wait \in Nat /\ Recent(Wait) \in Seq(Nat)
  <1>1. ASSUME NEW at \in Nat PROVE Recent(at) \in Seq(Nat)
    <2>1. PICK k \in Nat : /\ 1 <= k
                           /\ Recent(at) = SubSeq(calls, k, Len(calls))
      BY RecentIsTail
    <2> QED BY <2>1
  <1>2. Wait \in Nat
    <2>1. CASE Len(Recent(seconds)) < Allowance
      BY <2>1 DEF Wait
    <2>2. CASE ~ (Len(Recent(seconds)) < Allowance)
      <3>1. Recent(seconds) \in Seq(Nat) /\ Len(Recent(seconds)) >= 1
        BY <1>1, <2>2, Numbers
      <3>2. Head(Recent(seconds)) \in Nat
        BY <3>1
      <3> QED BY <2>2, <3>2, Numbers DEF Wait
    <2> QED BY <2>1, <2>2
  <1> QED BY <1>1, <1>2

LEMMA LookupTypes ==
    ASSUME EnrichType, NEW c \in Cve, NEW delay \in 1 .. MaxDelay,
           NEW ok \in BOOLEAN, Lookup(c, delay, ok)
    PROVE  seconds' \in Nat /\ calls' \in Seq(Nat) /\ requests' \in Seq(Nat)
  <1>1. Wait \in Nat /\ Recent(Wait) \in Seq(Nat) /\ requests \in Seq(Nat)
    BY WaitIsTyped DEF EnrichType
  <1>2. delay \in Nat
    BY Numbers
  <1> QED BY <1>1, <1>2 DEF Lookup

LEMMA TurnTypes ==
    ASSUME EnrichType, NEW c \in Cve, Turn(c), NEW field \in Fields,
           NEW nvd, Counted(field), Went(c, field, nvd)
    PROVE  /\ c \in left /\ left' = left \ {c} /\ wanted' = wanted
           /\ stats' \in [Fields -> Nat] /\ failed' \subseteq wanted'
           /\ spent' \in BOOLEAN
           /\ held' \in Cache
  <1>1. left # {} /\ c = Min(left) /\ left' = left \ {c} /\ wanted' = wanted
        /\ spent' = IsSpent
    BY DEF Turn
  <1>2. left \in SUBSET Nat
    BY Numbers DEF EnrichType
  <1>3. c \in left
    BY <1>1, <1>2, LeastOf
  <1>4. stats' \in [Fields -> Nat]
    BY DEF Counted, EnrichType
  <1>5. failed' \subseteq wanted'
    BY <1>1, <1>3 DEF Went, Served, EnrichType
  <1>6. spent' \in BOOLEAN
    BY <1>1 DEF IsSpent, EnrichType
  <1>7. CASE UNCHANGED held
    BY <1>1, <1>3, <1>4, <1>5, <1>6, <1>7 DEF EnrichType
  <1>8. CASE nvd = world.nvd[day][c]
             /\ held' = [held EXCEPT !.nvd[c] = [data |-> nvd, at |-> day]]
    <2>1. [data |-> nvd, at |-> day] \in NvdEntry
      BY <1>8, WorldIsTyped DEF NvdEntry
    <2>2. held.nvd \in [Cve -> {None} \cup NvdEntry]
      BY DEF EnrichType, Cache
    <2>3. [held.nvd EXCEPT ![c] = [data |-> nvd, at |-> day]]
            \in [Cve -> {None} \cup NvdEntry]
      BY <2>1, <2>2
    <2>4. held' = [held EXCEPT !.nvd =
                     [held.nvd EXCEPT ![c] = [data |-> nvd, at |-> day]]]
      BY <1>8
    <2>5. held' \in Cache
      BY <2>3, <2>4 DEF EnrichType, Cache
    <2> QED BY <1>1, <1>3, <1>4, <1>5, <1>6, <2>5
  <1> QED BY <1>7, <1>8 DEF Went, Served

LEMMA TypeStep == EnrichType /\ [CacheNext]_cacheVars => EnrichType'
  <1> SUFFICES ASSUME EnrichType, [CacheNext]_cacheVars PROVE EnrichType'
    OBVIOUS
  <1>0. /\ day \in Day /\ day \in Nat
        /\ world.kev[day] \in SUBSET Cve /\ world.epss[day] \in SUBSET Cve
    BY WorldIsTyped
  <1>1. ASSUME NEW w \in SUBSET Cve, BeginRun(w) PROVE EnrichType'
    BY <1>1, FreshIsTyped DEF BeginRun, EnrichType, Phases
  <1>2. CASE NextDay
    <2>1. /\ Fresh({}) /\ day' \in Day /\ phase' = "idle"
          /\ UNCHANGED <<world, held>>
      BY <1>0, <1>2, Numbers DEF NextDay
    <2> QED BY <2>1, FreshIsTyped DEF EnrichType, Phases
  <1>3. CASE Kill
    <2>1. Fresh({}) /\ UNCHANGED <<world, day, held>> /\ phase' = "idle"
      BY <1>3 DEF Kill
    <2> QED BY <2>1, FreshIsTyped DEF EnrichType, Phases
  <1>4. ASSUME NEW ok \in BOOLEAN, LoadKev(ok) PROVE EnrichType'
    <2>1. CASE Young(held.kev, KevTtl)
      BY <1>4, <2>1 DEF LoadKev, Young, EnrichType, Phases, Cache, KevEntry
    <2>2. CASE ~Young(held.kev, KevTtl) /\ ok
      <3>1. /\ kev' = world.kev[day] /\ errors' = errors
            /\ held' = [held EXCEPT !.kev = [data |-> kev', at |-> day]]
        BY <1>4, <2>2 DEF LoadKev
      <3>2. kev' \in SUBSET Cve /\ [data |-> kev', at |-> day] \in KevEntry
        BY <1>0, <3>1 DEF KevEntry
      <3> QED BY <1>4, <3>1, <3>2 DEF LoadKev, EnrichType, Phases, Cache
    <2>3. CASE ~Young(held.kev, KevTtl) /\ ~ok
      <3>1. kev' = {} /\ errors' = errors \cup {"kev"} /\ held' = held
        BY <1>4, <2>3 DEF LoadKev
      <3> QED BY <1>4, <3>1 DEF LoadKev, EnrichType, Phases
    <2> QED BY <2>1, <2>2, <2>3
  <1>5. ASSUME NEW ok \in BOOLEAN, LoadEpss(ok) PROVE EnrichType'
    <2>1. /\ UNCHANGED <<world, day, wanted, kev, seconds, calls, spent, stats,
                         failed, requests>>
          /\ phase' \in Phases /\ left' \subseteq wanted
          /\ errors' \subseteq {"kev", "epss", "budget"}
      BY <1>5 DEF LoadEpss, EnrichType, Phases
    <2>2. CASE UNCHANGED held /\ epss' \subseteq Cve
      BY <2>1, <2>2 DEF EnrichType
    <2>3. ASSUME NEW batch \in SUBSET Cve, AskEpss(batch)
          PROVE  EnrichType'
      <3>1. epss' \subseteq Cve
        BY <1>0, <2>3 DEF AskEpss, EnrichType
      <3> DEFINE e == [c \in Cve |->
                         IF c \in batch
                         THEN [data |-> c \in batch \cap world.epss[day], at |-> day]
                         ELSE held.epss[c]]
      <3>2. held' = [held EXCEPT !.epss = e]
        BY <2>3 DEF AskEpss
      <3>3. e \in [Cve -> {None} \cup EpssEntry]
        <4>1. \A c \in Cve : [data |-> c \in batch \cap world.epss[day], at |-> day]
                                \in EpssEntry
          BY <1>0 DEF EpssEntry
        <4>2. \A c \in Cve : held.epss[c] \in {None} \cup EpssEntry
          BY DEF EnrichType, Cache
        <4> QED BY <4>1, <4>2
      <3> HIDE DEF e
      <3>4. held' \in Cache
        BY <3>2, <3>3 DEF EnrichType, Cache
      <3> QED BY <2>1, <3>1, <3>4 DEF EnrichType
    <2>4. CASE left \cap EpssCached # {}
      BY <1>5, <2>2, <2>4 DEF LoadEpss, EpssCached, EnrichType
    <2>5. CASE left \cap EpssCached = {} /\ left # {}
      <3>1. PICK batch \in Batches :
                IF ok THEN AskEpss(batch) ELSE UNCHANGED <<epss, held>>
        BY <1>5, <2>5 DEF LoadEpss
      <3>2. batch \in SUBSET Cve
        BY DEF Batches, EnrichType
      <3> QED BY <2>2, <2>3, <3>1, <3>2 DEF EnrichType
    <2>6. CASE left = {}
      BY <1>5, <2>2, <2>6 DEF LoadEpss, EnrichType
    <2> QED BY <2>4, <2>5, <2>6
  <1>6. ASSUME NEW c \in Cve,
               TakesUp(c)
        PROVE  EnrichType'
    <2>1. PICK field \in Fields, nvd \in Answers(c) :
              Turn(c) /\ Counted(field) /\ Went(c, field, nvd)
      BY <1>6, TurnGoes
    <2>2. /\ left' \subseteq left /\ wanted' = wanted
          /\ stats' \in [Fields -> Nat] /\ failed' \subseteq wanted'
          /\ spent' \in BOOLEAN
          /\ held' \in Cache
      BY <2>1, TurnTypes
    <2>3. seconds' \in Nat /\ calls' \in Seq(Nat) /\ requests' \in Seq(Nat)
      <3>1. CASE CacheHit(c) \/ BudgetCut(c)
        BY <3>1 DEF CacheHit, BudgetCut, NoRequest, EnrichType
      <3> QED BY <1>6, <3>1, LookupTypes DEF TakesUp
    <2> QED BY <2>1, <2>2, <2>3 DEF Turn, EnrichType
  <1>7. CASE Finish
    BY <1>7 DEF Finish, EnrichType, Phases
  <1>8. CASE UNCHANGED cacheVars
    BY <1>8 DEF cacheVars, EnrichType
  <1> QED BY <1>1, <1>2, <1>3, <1>4, <1>5, <1>6, <1>7, <1>8 DEF CacheNext, TakesUp

-----------------------------------------------------------------------------
(* The pace of the requests.                                               *)

(* What is known of the two lists, at the sizes the proofs speak of.       *)
LEMMA PaceFacts ==
    ASSUME EnrichType, PaceOK, NEW m, NEW n,
           m = Len(calls), n = Len(requests)
    PROVE  /\ calls \in Seq(Nat) /\ requests \in Seq(Nat)
           /\ seconds \in Nat /\ m \in Nat /\ n \in Nat
           /\ m <= n /\ m <= Allowance
           /\ DOMAIN calls = 1 .. m /\ DOMAIN requests = 1 .. n
           /\ \A i \in 1 .. m : calls[i] \in Nat
           /\ \A i \in 1 .. n : requests[i] \in Nat /\ requests[i] <= seconds
           /\ \A i, j \in 1 .. n : i < j => requests[i] <= requests[j]
           /\ \A i \in 1 .. m : calls[i] = requests[n - m + i]
           /\ \A i \in 1 .. n - m : seconds - requests[i] >= Window
           /\ Allowance \in Nat /\ Allowance > 0
           /\ Window \in Nat /\ Window > 0
           /\ MaxDelay \in Nat /\ Budget \in Nat
  <1>1. calls \in Seq(Nat) /\ requests \in Seq(Nat) /\ seconds \in Nat
    BY DEF EnrichType
  <1>2. /\ m \in Nat /\ n \in Nat
        /\ DOMAIN calls = 1 .. m /\ DOMAIN requests = 1 .. n
        /\ \A i \in 1 .. m : calls[i] \in Nat
        /\ \A i \in 1 .. n : requests[i] \in Nat
    BY <1>1
  <1>3. /\ m <= n /\ m <= Allowance
        /\ \A i \in 1 .. n : requests[i] <= seconds
        /\ \A i, j \in 1 .. n : i < j => requests[i] <= requests[j]
        /\ \A i \in 1 .. m : calls[i] = requests[n - m + i]
        /\ \A i \in 1 .. n - m : seconds - requests[i] >= Window
    BY DEF PaceOK
  <1>4. /\ Allowance \in Nat /\ Allowance > 0
        /\ Window \in Nat /\ Window > 0
        /\ MaxDelay \in Nat /\ Budget \in Nat
    BY Numbers
  <1> QED BY <1>1, <1>2, <1>3, <1>4

(* The limiter waits until fewer than the allowance are in the window, and *)
(* no longer than a window.                                                *)
LEMMA WaitIsEnough ==
    ASSUME EnrichType, PaceOK
    PROVE  /\ Wait \in Nat /\ seconds <= Wait /\ Wait <= seconds + Window
           /\ \E k \in Nat :
                 /\ 1 <= k /\ k <= Len(calls) + 1
                 /\ Recent(Wait) = SubSeq(calls, k, Len(calls))
                 /\ Len(calls) - k + 1 < Allowance
                 /\ \A i \in 1 .. k - 1 : Wait - calls[i] >= Window
  <1>1. PICK m \in Nat, n \in Nat :
        /\ m = Len(calls) /\ n = Len(requests)
        /\ calls \in Seq(Nat) /\ requests \in Seq(Nat) /\ seconds \in Nat
        /\ m <= n /\ m <= Allowance
        /\ DOMAIN calls = 1 .. m /\ DOMAIN requests = 1 .. n
        /\ \A i \in 1 .. m : calls[i] \in Nat
        /\ \A i \in 1 .. n : requests[i] \in Nat /\ requests[i] <= seconds
        /\ \A i, j \in 1 .. n : i < j => requests[i] <= requests[j]
        /\ \A i \in 1 .. m : calls[i] = requests[n - m + i]
        /\ \A i \in 1 .. n - m : seconds - requests[i] >= Window
        /\ Allowance \in Nat /\ Allowance > 0
        /\ Window \in Nat /\ Window > 0
    BY PaceFacts
  <1>a. /\ seconds \in Nat /\ Window \in Nat /\ Window > 0
        /\ Allowance \in Nat /\ Allowance > 0
    BY <1>1
  <1>2. \A i \in 1 .. m : calls[i] \in Nat /\ calls[i] <= seconds
    <2> SUFFICES ASSUME NEW i \in 1 .. m
                 PROVE  calls[i] \in Nat /\ calls[i] <= seconds
      OBVIOUS
    <2>1. n - m + i \in 1 .. n
      BY <1>1
    <2> QED BY <1>1, <2>1
  <1>3. \A i, j \in 1 .. m : i <= j => calls[i] <= calls[j]
    <2> SUFFICES ASSUME NEW i \in 1 .. m, NEW j \in 1 .. m, i <= j
                 PROVE  calls[i] <= calls[j]
      OBVIOUS
    <2>1. n - m + i \in 1 .. n /\ n - m + j \in 1 .. n
      BY <1>1
    <2>2. CASE i = j
      BY <1>2, <2>2
    <2>3. CASE i < j
      <3>1. n - m + i < n - m + j
        BY <1>1, <2>3
      <3> QED BY <1>1, <2>1, <3>1
    <2> QED BY <2>2, <2>3
  <1>4. PICK s \in Nat :
            /\ 1 <= s /\ s <= m + 1
            /\ Recent(seconds) = SubSeq(calls, s, m)
            /\ s \in DOMAIN calls => seconds - calls[s] < Window
            /\ \A i \in 1 .. s - 1 : seconds - calls[i] >= Window
    BY <1>1, RecentIsTail
  <1>5. Len(Recent(seconds)) = m - s + 1
    BY <1>1, <1>4
  <1>6. CASE m - s + 1 < Allowance
    <2>1. Wait = seconds
      BY <1>5, <1>6 DEF Wait
    <2>2. Recent(Wait) = SubSeq(calls, s, m)
          /\ \A i \in 1 .. s - 1 : Wait - calls[i] >= Window
      BY <1>4, <2>1
    <2>3. seconds <= Wait /\ Wait <= seconds + Window /\ Wait \in Nat
      BY <1>1, <2>1
    <2> HIDE DEF Wait
    <2> QED BY <1>1, <1>4, <1>6, <2>2, <2>3
  <1>7. CASE ~ (m - s + 1 < Allowance)
    <2>1. s \in 1 .. m /\ Head(Recent(seconds)) = calls[s]
      BY <1>1, <1>4, <1>7, Numbers
    <2>2. Wait = calls[s] + Window
      BY <1>5, <1>7, <2>1 DEF Wait
    <2>3. Wait \in Nat /\ seconds <= Wait /\ Wait <= seconds + Window
      <3>1. calls[s] \in Nat /\ calls[s] <= seconds
        BY <1>2, <2>1
      <3>2. seconds - calls[s] < Window
        BY <1>1, <1>4, <2>1
      <3> QED BY <1>a, <2>2, <3>1, <3>2
    <2>4. PICK k \in Nat :
              /\ 1 <= k /\ k <= m + 1
              /\ Recent(Wait) = SubSeq(calls, k, m)
              /\ k \in DOMAIN calls => Wait - calls[k] < Window
              /\ \A i \in 1 .. k - 1 : Wait - calls[i] >= Window
      BY <1>1, <2>3, RecentIsTail
    <2>5. k > s
      <3> SUFFICES ASSUME k <= s PROVE FALSE
        BY <2>1, <2>4
      <3>0. k \in 1 .. m
        BY <1>1, <2>1, <2>4
      <3>1. calls[k] <= calls[s] /\ calls[k] \in Nat /\ calls[s] \in Nat
        BY <1>2, <1>3, <2>1, <3>0
      <3>2. Wait - calls[k] < Window
        BY <1>1, <2>4, <3>0
      <3> QED BY <1>a, <2>2, <3>1, <3>2
    <2>6. m - k + 1 < Allowance
      BY <1>1, <2>1, <2>4, <2>5
    <2> QED BY <1>1, <2>3, <2>4, <2>6
  <1> QED BY <1>6, <1>7

LEMMA PaceLookup ==
    ASSUME EnrichType, PaceOK, NvdPaced,
           NEW c \in Cve, NEW delay \in 1 .. MaxDelay, NEW ok \in BOOLEAN,
           Lookup(c, delay, ok)
    PROVE  PaceOK' /\ NvdPaced'
  <1> DEFINE t == Wait
  <1>0. MaxDelay \in Nat /\ Budget \in Nat /\ delay \in Nat /\ delay <= MaxDelay
    BY Numbers
  <1>1. PICK m \in Nat, n \in Nat :
        /\ m = Len(calls) /\ n = Len(requests)
        /\ calls \in Seq(Nat) /\ requests \in Seq(Nat) /\ seconds \in Nat
        /\ m <= n /\ m <= Allowance
        /\ DOMAIN calls = 1 .. m /\ DOMAIN requests = 1 .. n
        /\ \A i \in 1 .. m : calls[i] \in Nat
        /\ \A i \in 1 .. n : requests[i] \in Nat /\ requests[i] <= seconds
        /\ \A i, j \in 1 .. n : i < j => requests[i] <= requests[j]
        /\ \A i \in 1 .. m : calls[i] = requests[n - m + i]
        /\ \A i \in 1 .. n - m : seconds - requests[i] >= Window
        /\ Allowance \in Nat /\ Allowance > 0
        /\ Window \in Nat /\ Window > 0
    BY PaceFacts
  <1>a. /\ seconds \in Nat /\ Window \in Nat /\ Window > 0
        /\ Allowance \in Nat /\ Allowance > 0
    BY <1>1
  <1>2. /\ calls' = Append(Recent(t), t) /\ requests' = Append(requests, t)
        /\ seconds' = t + delay /\ seconds < Budget
    BY <1>0, <1>1 DEF Lookup, IsSpent
  <1>3. t \in Nat /\ seconds <= t /\ t <= seconds + Window
    BY WaitIsEnough
  <1>4. PICK k \in Nat :
            /\ 1 <= k /\ k <= m + 1
            /\ Recent(t) = SubSeq(calls, k, m)
            /\ m - k + 1 < Allowance
            /\ \A i \in 1 .. k - 1 : t - calls[i] >= Window
    BY <1>1, WaitIsEnough
  <1> HIDE DEF t
  <1> DEFINE tail == SubSeq(calls, k, m)
  <1>5. /\ tail \in Seq(Nat) /\ Len(tail) = m - k + 1
        /\ \A i \in 1 .. m - k + 1 : tail[i] = calls[k + i - 1]
    BY <1>1, <1>4
  <1>6. /\ Len(calls') = m - k + 2 /\ calls'[m - k + 2] = t
        /\ \A i \in 1 .. m - k + 1 : calls'[i] = calls[k + i - 1]
    BY <1>2, <1>3, <1>4, <1>5
  <1>7. /\ Len(requests') = n + 1 /\ requests'[n + 1] = t
        /\ \A i \in 1 .. n : requests'[i] = requests[i] /\ requests[i] \in Nat
        /\ DOMAIN requests' = 1 .. n + 1
    BY <1>1, <1>2, <1>3
  <1>8. ASSUME NEW i \in 1 .. n - m + k - 1
        PROVE  i \in 1 .. n /\ t - requests[i] >= Window
    <2>1. i \in 1 .. n
      BY <1>1, <1>4
    <2>2. CASE i <= n - m
      <3>1. seconds - requests[i] >= Window
        BY <1>1, <2>2
      <3> QED BY <1>1, <1>3, <1>7, <2>1, <3>1
    <2>3. CASE i > n - m
      <3>1. i - (n - m) \in 1 .. k - 1 /\ i - (n - m) \in 1 .. m
        BY <1>1, <1>4, <2>1, <2>3
      <3>2. calls[i - (n - m)] = requests[n - m + (i - (n - m))]
        BY <1>1, <3>1
      <3>3. n - m + (i - (n - m)) = i
        BY <1>1
      <3> QED BY <1>4, <2>1, <3>1, <3>2, <3>3
    <2> QED BY <1>1, <2>2, <2>3
  <1>9. \A i \in 1 .. n + 1 : requests'[i] <= t
    <2>1. \A i \in 1 .. n : requests[i] <= seconds
      BY <1>1
    <2> SUFFICES ASSUME NEW i \in 1 .. n + 1 PROVE requests'[i] <= t
      OBVIOUS
    <2>2. CASE i = n + 1
      BY <1>3, <1>7, <2>2
    <2>3. CASE i \in 1 .. n
      <3>1. requests'[i] = requests[i] /\ requests[i] \in Nat
            /\ requests[i] <= seconds
        BY <1>7, <2>1, <2>3
      <3> QED BY <1>a, <1>3, <3>1
    <2>4. i = n + 1 \/ i \in 1 .. n
      OBVIOUS
    <2> QED BY <2>2, <2>3, <2>4
  <1>10. PaceOK'
    <2>1. \A i \in 1 .. n + 1 : requests'[i] <= seconds'
      BY <1>1, <1>2, <1>3, <1>7, <1>9
    <2>2. ASSUME NEW i \in 1 .. n + 1, NEW j \in 1 .. n + 1, i < j
          PROVE  requests'[i] <= requests'[j]
      <3>1. CASE j = n + 1
        BY <1>7, <1>9, <3>1
      <3>2. CASE j \in 1 .. n
        <4>1. i \in 1 .. n
          BY <1>1, <2>2, <3>2
        <4> QED BY <1>1, <1>7, <2>2, <3>2, <4>1
      <3> QED BY <1>1, <3>1, <3>2
    <2>3. m - k + 2 <= n + 1 /\ m - k + 2 <= Allowance
      BY <1>1, <1>4
    <2>4. ASSUME NEW i \in 1 .. m - k + 2
          PROVE  calls'[i] = requests'[(n + 1) - (m - k + 2) + i]
      <3>1. CASE i = m - k + 2
        <4>1. (n + 1) - (m - k + 2) + i = n + 1
          BY <1>1, <1>4, <3>1
        <4> QED BY <1>6, <1>7, <3>1, <4>1
      <3>2. CASE i # m - k + 2
        <4>1. i \in 1 .. m - k + 1 /\ k + i - 1 \in 1 .. m
          BY <1>1, <1>4, <3>2
        <4>2. calls'[i] = calls[k + i - 1]
          BY <1>6, <4>1
        <4>3. calls[k + i - 1] = requests[n - m + (k + i - 1)]
          BY <1>1, <4>1
        <4>4. n - m + (k + i - 1) = (n + 1) - (m - k + 2) + i
              /\ n - m + (k + i - 1) \in 1 .. n
          BY <1>1, <4>1
        <4> QED BY <1>7, <4>2, <4>3, <4>4
      <3> QED BY <3>1, <3>2
    <2>5. ASSUME NEW i \in 1 .. (n + 1) - (m - k + 2)
          PROVE  seconds' - requests'[i] >= Window
      <3>1. i \in 1 .. n - m + k - 1
        BY <1>1, <1>4
      <3>2. i \in 1 .. n /\ t - requests[i] >= Window
        BY <1>8, <3>1
      <3>3. requests'[i] = requests[i] /\ requests[i] \in Nat
        BY <1>7, <3>2
      <3>4. seconds' = t + delay
        BY <1>2
      <3> QED BY <1>a, <1>0, <1>3, <3>2, <3>3, <3>4
    <2> QED BY <1>6, <1>7, <2>1, <2>2, <2>3, <2>4, <2>5 DEF PaceOK
  <1>11. ASSUME NEW i \in 1 .. n + 1, NEW j \in 1 .. n + 1,
                i < j, requests'[j] - requests'[i] < Window
         PROVE  j - i < Allowance
    <2>1. CASE j = n + 1
      <3>1. i \in 1 .. n
        BY <1>1, <1>11, <2>1
      <3>2. t - requests[i] < Window
        BY <1>7, <1>11, <2>1, <3>1
      <3>3. ~ (i <= n - m + k - 1)
        <4> SUFFICES ASSUME i <= n - m + k - 1 PROVE FALSE
          OBVIOUS
        <4>1. i \in 1 .. n - m + k - 1
          BY <1>1, <1>4, <3>1
        <4>2. t - requests[i] >= Window
          BY <1>8, <4>1
        <4> QED BY <1>1, <1>3, <1>7, <3>1, <3>2, <4>2
      <3> QED BY <1>1, <1>4, <2>1, <3>1, <3>3
    <2>2. CASE j \in 1 .. n
      <3>1. i \in 1 .. n
        BY <1>1, <1>11, <2>2
      <3>2. requests[j] - requests[i] < Window /\ DOMAIN requests = 1 .. n
        BY <1>1, <1>7, <1>11, <2>2, <3>1
      <3> QED BY <1>11, <2>2, <3>1, <3>2 DEF NvdPaced
    <2>3. j = n + 1 \/ j \in 1 .. n
      OBVIOUS
    <2> QED BY <2>1, <2>2, <2>3
  <1>12. seconds' < Budget + Window + MaxDelay
    BY <1>0, <1>1, <1>2, <1>3
  <1> QED BY <1>7, <1>10, <1>11, <1>12 DEF NvdPaced

LEMMA PaceStep ==
    ASSUME EnrichType, PaceOK, NvdPaced, [CacheNext]_cacheVars
    PROVE  PaceOK' /\ NvdPaced'
  <1>1. CASE seconds' = 0 /\ calls' = <<>> /\ requests' = <<>>
    BY <1>1, Numbers DEF PaceOK, NvdPaced
  <1>2. CASE UNCHANGED <<seconds, calls, requests>>
    BY <1>2 DEF PaceOK, NvdPaced
  <1>3. CASE \/ \E w \in SUBSET Cve : BeginRun(w)
             \/ NextDay \/ Kill
    BY <1>1, <1>3 DEF BeginRun, NextDay, Kill, Fresh
  <1>4. CASE \/ \E ok \in BOOLEAN : LoadKev(ok) \/ LoadEpss(ok)
             \/ \E c \in Cve : CacheHit(c) \/ BudgetCut(c)
             \/ Finish \/ UNCHANGED cacheVars
    BY <1>2, <1>4 DEF LoadKev, LoadEpss, CacheHit, BudgetCut, NoRequest,
       Finish, cacheVars
  <1>5. CASE \E c \in Cve : \E delay \in 1 .. MaxDelay, ok \in BOOLEAN :
                 Lookup(c, delay, ok)
    BY <1>5, PaceLookup
  <1> QED BY <1>3, <1>4, <1>5 DEF CacheNext

-----------------------------------------------------------------------------
(* What is on disk.                                                        *)

(* A step that leaves the disk alone leaves it true as the days go by.     *)
LEMMA DiskKept ==
    ASSUME EnrichType, DiskTrue, UNCHANGED <<world, held>>,
           day' \in Nat, day <= day'
    PROVE  DiskTrue'
  <1>1. day \in Nat
    BY WorldIsTyped
  <1>2. held.kev # None => held.kev.at \in Nat
    BY DEF EnrichType, Cache, KevEntry
  <1>3. \A c \in Cve : held.nvd[c] # None => held.nvd[c].at \in Nat
    BY DEF EnrichType, Cache, NvdEntry
  <1>4. \A c \in Cve : held.epss[c] # None => held.epss[c].at \in Nat
    BY DEF EnrichType, Cache, EpssEntry
  <1>5. \A a \in Nat : a <= day => a <= day'
    BY <1>1
  <1> QED BY <1>2, <1>3, <1>4, <1>5 DEF DiskTrue

LEMMA DiskStep == EnrichType /\ DiskTrue /\ [CacheNext]_cacheVars => DiskTrue'
  <1> SUFFICES ASSUME EnrichType, DiskTrue, [CacheNext]_cacheVars PROVE DiskTrue'
    OBVIOUS
  <1>0. day \in Nat /\ day <= day
    BY WorldIsTyped
  <1>1. CASE UNCHANGED <<world, day, held>>
    BY <1>0, <1>1, DiskKept
  <1>2. CASE NextDay
    BY <1>0, <1>2, DiskKept DEF NextDay
  <1>3. CASE \/ \E w \in SUBSET Cve : BeginRun(w)
             \/ Kill \/ Finish \/ UNCHANGED cacheVars
             \/ \E c \in Cve : CacheHit(c) \/ BudgetCut(c)
    BY <1>1, <1>3 DEF BeginRun, Kill, Finish, cacheVars, CacheHit, BudgetCut,
       NoRequest, Turn
  <1>4. ASSUME NEW ok \in BOOLEAN, LoadKev(ok) PROVE DiskTrue'
    <2>1. CASE ~Young(held.kev, KevTtl) /\ ok
      <3>1. /\ held' = [held EXCEPT !.kev =
                          [data |-> world.kev[day], at |-> day]]
            /\ UNCHANGED <<world, day>>
        BY <1>4, <2>1 DEF LoadKev
      <3>2. /\ held'.kev = [data |-> world.kev[day], at |-> day]
            /\ held'.nvd = held.nvd /\ held'.epss = held.epss
        BY <3>1 DEF EnrichType
      <3> QED BY <1>0, <3>1, <3>2 DEF DiskTrue
    <2>2. CASE Young(held.kev, KevTtl) \/ ~ok
      BY <1>1, <1>4, <2>2 DEF LoadKev
    <2> QED BY <2>1, <2>2
  <1>5. ASSUME NEW ok \in BOOLEAN, LoadEpss(ok) PROVE DiskTrue'
    <2>1. UNCHANGED <<world, day>>
      BY <1>5 DEF LoadEpss
    <2>2. CASE UNCHANGED held
      BY <1>1, <2>1, <2>2
    <2>3. ASSUME NEW batch \in SUBSET Cve, AskEpss(batch)
          PROVE  DiskTrue'
      <3>1. /\ held'.kev = held.kev /\ held'.nvd = held.nvd
            /\ \A c \in Cve : held'.epss[c] =
                   IF c \in batch
                   THEN [data |-> c \in batch \cap world.epss[day], at |-> day]
                   ELSE held.epss[c]
        BY <2>3 DEF AskEpss, EnrichType
      <3>2. ASSUME NEW c \in Cve, held'.epss[c] # None
            PROVE  /\ held'.epss[c].at <= day
                   /\ held'.epss[c].data <=> c \in world.epss[held'.epss[c].at]
        <4>1. CASE c \in batch
          <5>1. held'.epss[c] =
                  [data |-> c \in batch \cap world.epss[day], at |-> day]
            BY <3>1, <4>1
          <5>2. held'.epss[c].at = day
            BY <5>1
          <5>3. held'.epss[c].data = (c \in batch \cap world.epss[day])
            BY <5>1
          <5>4. held'.epss[c].data <=> c \in world.epss[day]
            BY <4>1, <5>3, Zenon
          <5> QED BY <1>0, <5>2, <5>4
        <4>2. CASE c \notin batch
          BY <3>1, <3>2, <4>2 DEF DiskTrue
        <4> QED BY <4>1, <4>2
      <3> QED BY <2>1, <3>1, <3>2 DEF DiskTrue
    <2>4. CASE left \cap EpssCached = {} /\ left # {}
      <3>1. PICK batch \in Batches :
                IF ok THEN AskEpss(batch) ELSE UNCHANGED <<epss, held>>
        BY <1>5, <2>4 DEF LoadEpss
      <3>2. batch \in SUBSET Cve
        BY DEF Batches, EnrichType
      <3> QED BY <2>2, <2>3, <3>1, <3>2
    <2>5. CASE left \cap EpssCached # {} \/ left = {}
      BY <1>5, <2>2, <2>5 DEF LoadEpss
    <2> QED BY <2>4, <2>5
  <1>6. ASSUME NEW c \in Cve, NEW delay \in 1 .. MaxDelay, NEW ok \in BOOLEAN,
               Lookup(c, delay, ok)
        PROVE  DiskTrue'
    <2>1. UNCHANGED <<world, day>>
      BY <1>6 DEF Lookup, Turn
    <2>2. CASE ~ok
      BY <1>1, <1>6, <2>1, <2>2 DEF Lookup
    <2>3. CASE ok
      <3>1. held' = [held EXCEPT !.nvd[c] =
                       [data |-> world.nvd[day][c], at |-> day]]
        BY <1>6, <2>3 DEF Lookup
      <3>2. /\ held'.kev = held.kev /\ held'.epss = held.epss
            /\ \A x \in Cve : held'.nvd[x] =
                   IF x = c THEN [data |-> world.nvd[day][c], at |-> day]
                   ELSE held.nvd[x]
        BY <3>1 DEF EnrichType, Cache
      <3>3. ASSUME NEW x \in Cve, held'.nvd[x] # None
            PROVE  /\ held'.nvd[x].at <= day
                   /\ held'.nvd[x].data = world.nvd[held'.nvd[x].at][x]
        <4>1. CASE x = c
          BY <1>0, <3>2, <4>1
        <4>2. CASE x # c
          BY <3>2, <3>3, <4>2 DEF DiskTrue
        <4> QED BY <4>1, <4>2
      <3> QED BY <2>1, <3>2, <3>3 DEF DiskTrue
    <2> QED BY <2>2, <2>3
  <1> QED BY <1>2, <1>3, <1>4, <1>5, <1>6 DEF CacheNext

-----------------------------------------------------------------------------
(* What is known of the catalogues.                                        *)

(* A catalogue's cached copy is young enough for what is asked of it.      *)
LEMMA CataloguesKept ==
    ASSUME CataloguesOK, UNCHANGED <<world, day, wanted, kev, epss>>,
           errors \subseteq errors', phase \in {"nvd", "done"},
           phase' \in {"nvd", "done"}
    PROVE  CataloguesOK'
  <1>1. KevKnown'
    BY DEF CataloguesOK, KevKnown
  <1>2. \A c \in wanted' : EpssKnown(c)'
    BY DEF CataloguesOK, EpssKnown
  <1> QED BY <1>1, <1>2 DEF CataloguesOK

LEMMA KevStep ==
    ASSUME EnrichType, DiskTrue, RunOK, NEW ok \in BOOLEAN, LoadKev(ok)
    PROVE  CataloguesOK'
  <1>1. /\ UNCHANGED <<world, day, wanted, left, epss>>
        /\ phase = "kev" /\ phase' = "epss"
    BY DEF LoadKev
  <1>2. left' = wanted' /\ epss' = {} /\ Handled' = {}
    BY <1>1 DEF RunOK, Handled
  <1>3. day \in Nat /\ day \in 0 .. day /\ day - day <= KevTtl
    BY WorldIsTyped, Numbers
  <1>4. CASE Young(held.kev, KevTtl)
    <2>1. held.kev # None /\ kev' = held.kev.data /\ day - held.kev.at <= KevTtl
      BY <1>4 DEF LoadKev, Young
    <2>2. held.kev.at \in Nat /\ held.kev.at <= day
          /\ held.kev.data = world.kev[held.kev.at]
      BY <2>1 DEF EnrichType, DiskTrue, Cache, KevEntry
    <2>3. held.kev.at \in 0 .. day
      BY <1>3, <2>2
    <2>4. KevKnown'
      BY <1>1, <2>1, <2>2, <2>3 DEF KevKnown
    <2> QED BY <1>1, <1>2, <2>4 DEF CataloguesOK
  <1>5. CASE ~Young(held.kev, KevTtl) /\ ok
    <2>1. KevKnown'
      BY <1>1, <1>3, <1>5 DEF LoadKev, KevKnown
    <2> QED BY <1>1, <1>2, <2>1 DEF CataloguesOK
  <1>6. CASE ~Young(held.kev, KevTtl) /\ ~ok
    <2>1. KevKnown'
      BY <1>6 DEF LoadKev, KevKnown
    <2> QED BY <1>1, <1>2, <2>1 DEF CataloguesOK
  <1> QED BY <1>4, <1>5, <1>6

LEMMA EpssStep ==
    ASSUME EnrichType, DiskTrue, CataloguesOK, NEW ok \in BOOLEAN, LoadEpss(ok)
    PROVE  CataloguesOK'
  <1>1. /\ UNCHANGED <<world, day, wanted, kev>> /\ phase = "epss"
        /\ errors \subseteq errors'
    BY DEF LoadEpss
  <1>2. KevKnown'
    <2>1. "kev" \notin errors' => "kev" \notin errors
      BY <1>1
    <2> QED BY <1>1, <2>1 DEF CataloguesOK, KevKnown
  <1>3. /\ left = wanted \/ left \cap EpssCached = {}
        /\ epss \subseteq Handled
        /\ \A c \in Handled : EpssKnown(c)
        /\ left \subseteq wanted /\ wanted \subseteq Cve
    BY <1>1 DEF CataloguesOK, EnrichType
  <1>4. day \in Nat /\ day \in 0 .. day /\ day - day <= EpssTtl
    BY WorldIsTyped, Numbers
  <1>5. CASE left \cap EpssCached # {}
    <2>1. /\ left = wanted /\ left' = left \ EpssCached
          /\ epss' = {c \in EpssCached : held.epss[c].data}
          /\ UNCHANGED <<held, errors, phase>>
      BY <1>3, <1>5 DEF LoadEpss
    <2>2. EpssCached' = EpssCached
      BY <1>1, <2>1 DEF EpssCached, Young
    <2>3. Handled' = EpssCached
      BY <1>1, <2>1 DEF Handled, EpssCached
    <2>4. ASSUME NEW c \in EpssCached PROVE EpssKnown(c)'
      <3>1. c \in Cve /\ held.epss[c] # None /\ day - held.epss[c].at <= EpssTtl
        BY <1>3 DEF EpssCached, Young
      <3>2. /\ held.epss[c].at \in Nat /\ held.epss[c].at <= day
            /\ held.epss[c].data <=> c \in world.epss[held.epss[c].at]
        BY <3>1 DEF EnrichType, DiskTrue, Cache, EpssEntry
      <3>3. held.epss[c].at \in 0 .. day
        BY <1>4, <3>2
      <3>4. c \in epss' <=> held.epss[c].data
        BY <2>1
      <3> QED BY <1>1, <3>1, <3>2, <3>3, <3>4 DEF EpssKnown
    <2>5. epss' \subseteq EpssCached /\ left' \cap EpssCached = {}
      BY <2>1
    <2> QED BY <1>1, <1>2, <2>1, <2>2, <2>3, <2>4, <2>5 DEF CataloguesOK
  <1>6. CASE left \cap EpssCached = {} /\ left # {}
    <2>1. PICK batch \in Batches :
              /\ left' = left \ batch
              /\ IF ok THEN AskEpss(batch) ELSE UNCHANGED <<epss, held>>
      BY <1>6 DEF LoadEpss
    <2>2. phase' = "epss" /\ errors' = IF ok THEN errors ELSE errors \cup {"epss"}
      BY <1>1, <1>6 DEF LoadEpss
    <2>3. batch \subseteq left /\ Handled' = Handled \cup batch
      BY <1>1, <1>3, <2>1 DEF Batches, Handled
    <2>4. CASE ok
      <3>1. /\ epss' = epss \cup (batch \cap world.epss[day])
            /\ \A c \in Cve \ batch : held'.epss[c] = held.epss[c]
        BY <2>1, <2>4 DEF AskEpss, EnrichType, Cache
      <3>2. left' \cap EpssCached' = {}
        BY <1>1, <1>3, <1>6, <2>1, <3>1 DEF EpssCached, Young
      <3>3. epss' \subseteq Handled'
        BY <1>3, <2>3, <3>1
      <3>4. ASSUME NEW c \in Handled' PROVE EpssKnown(c)'
        <4>1. CASE c \in batch
          <5>1. c \notin epss
            BY <1>3, <2>3, <4>1 DEF Handled
          <5>2. c \in epss' <=> c \in world.epss[day]
            BY <3>1, <4>1, <5>1
          <5> QED BY <1>1, <1>4, <5>2 DEF EpssKnown
        <4>2. CASE c \notin batch
          <5>1. EpssKnown(c) /\ (c \in epss' <=> c \in epss)
            BY <1>3, <2>3, <3>1, <4>2
          <5> QED BY <1>1, <2>2, <2>4, <5>1 DEF EpssKnown
        <4> QED BY <4>1, <4>2
      <3> QED BY <1>2, <2>2, <3>2, <3>3, <3>4 DEF CataloguesOK
    <2>5. CASE ~ok
      <3>1. "epss" \in errors' /\ UNCHANGED <<epss, held>>
        BY <2>1, <2>2, <2>5
      <3>2. EpssCached' = EpssCached
        BY <1>1, <3>1 DEF EpssCached, Young
      <3>3. \A c \in Handled' : EpssKnown(c)'
        BY <3>1 DEF EpssKnown
      <3> QED BY <1>2, <1>3, <1>6, <2>1, <2>2, <2>3, <3>1, <3>2,
         <3>3 DEF CataloguesOK
    <2> QED BY <2>4, <2>5
  <1>7. CASE left = {}
    <2>1. phase' = "nvd" /\ UNCHANGED <<epss, errors>>
      BY <1>5, <1>7 DEF LoadEpss
    <2>2. \A c \in wanted' : EpssKnown(c)'
      BY <1>1, <1>3, <1>7, <2>1 DEF Handled, EpssKnown
    <2> QED BY <1>2, <2>1, <2>2 DEF CataloguesOK
  <1> QED BY <1>5, <1>6, <1>7

LEMMA CataloguesStep ==
    EnrichType /\ DiskTrue /\ CataloguesOK /\ RunOK /\ [CacheNext]_cacheVars
        => CataloguesOK'
  <1> SUFFICES ASSUME EnrichType, DiskTrue, CataloguesOK, RunOK,
                      [CacheNext]_cacheVars
               PROVE  CataloguesOK'
    OBVIOUS
  <1>1. CASE (\E w \in SUBSET Cve : BeginRun(w)) \/ NextDay \/ Kill
    BY <1>1 DEF BeginRun, NextDay, Kill, CataloguesOK
  <1>2. CASE \E ok \in BOOLEAN : LoadKev(ok) \/ LoadEpss(ok)
    BY <1>2, KevStep, EpssStep
  <1>3. CASE \E c \in Cve :
               TakesUp(c)
    <2>1. \E c \in Cve : Turn(c)
      BY <1>3 DEF CacheHit, BudgetCut, Lookup, TakesUp
    <2> QED BY <2>1, CataloguesKept DEF Turn
  <1>4. CASE Finish
    BY <1>4, CataloguesKept DEF Finish
  <1>5. CASE UNCHANGED cacheVars
    BY <1>5 DEF cacheVars, CataloguesOK, KevKnown, EpssKnown, EpssCached, Young,
       Handled
  <1> QED BY <1>1, <1>2, <1>3, <1>4, <1>5 DEF CacheNext, TakesUp

-----------------------------------------------------------------------------
(* The account of the NVD loop.                                            *)

(* What putting a record together does to what the records say.            *)
LEMMA RecordEffect ==
    ASSUME NEW c, NEW nvd, Record(c, nvd), c \notin DOMAIN intel,
           kev' = kev, epss' = epss
    PROVE  /\ DOMAIN intel' \subseteq DOMAIN intel \cup {c}
           /\ NvdOf(c)' = nvd
           /\ KevOf(c)' <=> c \in kev
           /\ EpssOf(c)' <=> c \in epss
           /\ \A x : x # c => /\ NvdOf(x)' = NvdOf(x)
                              /\ KevOf(x)' <=> KevOf(x)
                              /\ EpssOf(x)' <=> EpssOf(x)
  <1>1. CASE c \in kev \/ nvd # None \/ c \in epss
    <2>1. intel' = [x \in DOMAIN intel \cup {c} |->
                       IF x = c THEN [kev |-> c \in kev, nvd |-> nvd,
                                      epss |-> c \in epss]
                       ELSE intel[x]]
      BY <1>1 DEF Record
    <2>2. /\ DOMAIN intel' = DOMAIN intel \cup {c}
          /\ intel'[c] = [kev |-> c \in kev, nvd |-> nvd, epss |-> c \in epss]
          /\ \A x \in DOMAIN intel : x # c => intel'[x] = intel[x]
      BY <2>1
    <2>3. /\ intel'[c].nvd = nvd /\ intel'[c].kev = (c \in kev)
          /\ intel'[c].epss = (c \in epss)
      BY <2>2
    <2>4. KevOf(c)' <=> c \in kev
      BY <2>2, <2>3, Zenon DEF KevOf
    <2>5. EpssOf(c)' <=> c \in epss
      BY <2>2, <2>3, Zenon DEF EpssOf
    <2>6. NvdOf(c)' = nvd
      BY <2>2, <2>3 DEF NvdOf
    <2>7. ASSUME NEW x, x # c
          PROVE  /\ NvdOf(x)' = NvdOf(x)
                 /\ KevOf(x)' <=> KevOf(x)
                 /\ EpssOf(x)' <=> EpssOf(x)
      <3>1. CASE x \in DOMAIN intel
        <4>1. x \in DOMAIN intel' /\ intel'[x] = intel[x]
          BY <2>2, <2>7, <3>1
        <4> QED BY <3>1, <4>1 DEF NvdOf, KevOf, EpssOf
      <3>2. CASE x \notin DOMAIN intel
        <4>1. x \notin DOMAIN intel'
          BY <2>2, <2>7, <3>2
        <4> QED BY <3>2, <4>1 DEF NvdOf, KevOf, EpssOf
      <3> QED BY <3>1, <3>2
    <2> QED BY <2>2, <2>4, <2>5, <2>6, <2>7
  <1>2. CASE ~ (c \in kev \/ nvd # None \/ c \in epss)
    <2>1. intel' = intel
      BY <1>2 DEF Record
    <2> QED BY <1>2, <2>1 DEF NvdOf, KevOf, EpssOf
  <1> QED BY <1>1, <1>2

(* One more of the CVEs of a run.                                          *)
LEMMA OneMore ==
    ASSUME NEW S \in SUBSET Cve, NEW c \in Cve, c \notin S
    PROVE  Cardinality(S \cup {c}) = Cardinality(S) + 1
  BY FiniteCves, FS_AddElement

LEMMA Fewer ==
    ASSUME NEW S \in SUBSET Cve, NEW T \in SUBSET S
    PROVE  /\ Cardinality(T) \in Nat /\ Cardinality(S) \in Nat
           /\ Cardinality(T) <= Cardinality(S)
  BY FiniteCves, FS_Subset

(* What the four counters become.                                          *)
LEMMA CountersMove ==
    ASSUME EnrichType, NEW field \in Fields, Counted(field)
    PROVE  /\ \A g \in Fields : /\ stats[g] \in Nat
                                /\ stats'[g] = IF g = field THEN stats[g] + 1
                                               ELSE stats[g]
           /\ stats'.hits + stats'.lookups + stats'.stale + stats'.unqueried
                = stats.hits + stats.lookups + stats.stale + stats.unqueried + 1
  <1>1. \A g \in Fields : /\ stats[g] \in Nat
                          /\ stats'[g] = IF g = field THEN stats[g] + 1
                                         ELSE stats[g]
    BY DEF Counted, EnrichType
  <1>2. /\ stats.hits \in Nat /\ stats.lookups \in Nat
        /\ stats.stale \in Nat /\ stats.unqueried \in Nat
    BY <1>1 DEF Fields
  <1>3. CASE field = "hits"
    <2>1. /\ stats'.hits = stats.hits + 1 /\ stats'.lookups = stats.lookups
          /\ stats'.stale = stats.stale /\ stats'.unqueried = stats.unqueried
      BY <1>1, <1>3 DEF Fields
    <2> QED BY <1>1, <1>2, <2>1
  <1>4. CASE field = "lookups"
    <2>1. /\ stats'.hits = stats.hits /\ stats'.lookups = stats.lookups + 1
          /\ stats'.stale = stats.stale /\ stats'.unqueried = stats.unqueried
      BY <1>1, <1>4 DEF Fields
    <2> QED BY <1>1, <1>2, <2>1
  <1>5. CASE field = "stale"
    <2>1. /\ stats'.hits = stats.hits /\ stats'.lookups = stats.lookups
          /\ stats'.stale = stats.stale + 1 /\ stats'.unqueried = stats.unqueried
      BY <1>1, <1>5 DEF Fields
    <2> QED BY <1>1, <1>2, <2>1
  <1>6. CASE field = "unqueried"
    <2>1. /\ stats'.hits = stats.hits /\ stats'.lookups = stats.lookups
          /\ stats'.stale = stats.stale /\ stats'.unqueried = stats.unqueried + 1
      BY <1>1, <1>6 DEF Fields
    <2>2. stats'.hits + stats'.lookups + stats'.stale + stats'.unqueried
            = stats.hits + stats.lookups + stats.stale + stats.unqueried + 1
      <3>1. \A h, l, a, u \in Nat : h + l + a + (u + 1) = h + l + a + u + 1
        OBVIOUS
      <3>2. stats'.hits + stats'.lookups + stats'.stale + stats'.unqueried
              = stats.hits + stats.lookups + stats.stale
                    + (stats.unqueried + 1)
        BY <2>1
      <3> QED BY <1>2, <3>1, <3>2
    <2> QED BY <1>1, <2>2
  <1> QED BY <1>1, <1>3, <1>4, <1>5, <1>6 DEF Fields

(* One turn of the loop keeps its account.                                 *)
LEMMA LoopTurn ==
    ASSUME EnrichType, DiskTrue, LoopOK, NEW c \in Cve, Turn(c),
           NEW field \in Fields,
           NEW nvd \in Answers(c),
           Counted(field), Record(c, nvd), Went(c, field, nvd)
    PROVE  LoopOK'
  <1>1. /\ UNCHANGED <<world, day, wanted, kev, epss>>
        /\ spent' = IsSpent /\ c \in left /\ left' = left \ {c}
    BY TurnTypes DEF Turn
  <1>2. /\ c \in wanted /\ c \notin Handled /\ Handled' = Handled \cup {c}
        /\ Handled \in SUBSET Cve /\ Handled' \in SUBSET Cve
    BY <1>1 DEF Handled, EnrichType
  <1>3. c \notin DOMAIN intel /\ c \notin failed
    BY <1>2 DEF LoopOK
  <1>4. /\ DOMAIN intel' \subseteq DOMAIN intel \cup {c}
        /\ NvdOf(c)' = nvd
        /\ KevOf(c)' <=> c \in kev
        /\ EpssOf(c)' <=> c \in epss
        /\ \A x : x # c => /\ NvdOf(x)' = NvdOf(x)
                           /\ KevOf(x)' <=> KevOf(x)
                           /\ EpssOf(x)' <=> EpssOf(x)
    BY <1>1, <1>3, RecordEffect
  <1>5. /\ \A g \in Fields : /\ stats[g] \in Nat
                             /\ stats'[g] = IF g = field THEN stats[g] + 1
                                            ELSE stats[g]
        /\ stats'.hits + stats'.lookups + stats'.stale + stats'.unqueried
             = stats.hits + stats.lookups + stats.stale + stats.unqueried + 1
    BY CountersMove
  <1>6. /\ failed' = failed \/ failed' = failed \cup {c}
        /\ \A x \in Cve : x # c => held'.nvd[x] = held.nvd[x]
    BY DEF Went, Served, EnrichType, Cache
  <1>7. /\ day \in Nat /\ day \in 0 .. day /\ None \notin Nvd
        /\ world.nvd[day][c] \in Nvd
    BY WorldIsTyped, EnrichAssumption
  <1>8. held.nvd[c] # None =>
           /\ held.nvd[c].data \in Nvd /\ held.nvd[c].at \in 0 .. day
           /\ held.nvd[c].data = world.nvd[held.nvd[c].at][c]
    BY <1>7 DEF EnrichType, DiskTrue, Cache, NvdEntry
  <1>9. DOMAIN intel' \subseteq Handled' /\ failed' \subseteq Handled'
    BY <1>2, <1>4, <1>6 DEF LoopOK
  <1>10. stats'.hits + stats'.lookups + stats'.stale + stats'.unqueried
           = Cardinality(Handled')
    BY <1>2, <1>5, OneMore DEF LoopOK
  <1>11. ASSUME NEW x \in Handled' \ failed', held'.nvd[x] # None
         PROVE  NvdOf(x)' = held'.nvd[x].data
    <2>1. CASE x = c
      <3>1. CASE Served(c) /\ nvd = held.nvd[c].data
        BY <1>4, <2>1, <3>1 DEF Served
      <3>2. CASE held.nvd[c] = None /\ UNCHANGED held
        BY <1>11, <2>1, <3>2
      <3>3. CASE held' = [held EXCEPT !.nvd[c] = [data |-> nvd, at |-> day]]
        <4>1. held'.nvd[c] = [data |-> nvd, at |-> day]
          BY <3>3 DEF EnrichType, Cache
        <4> QED BY <1>4, <2>1, <4>1
      <3>4. CASE failed' = failed \cup {c}
        BY <2>1, <3>4
      <3> QED BY <3>1, <3>2, <3>3, <3>4 DEF Went
    <2>2. CASE x # c
      <3>1. x \in Handled \ failed /\ held'.nvd[x] = held.nvd[x]
        BY <1>2, <1>6, <2>2
      <3> QED BY <1>4, <1>11, <2>2, <3>1 DEF LoopOK
    <2> QED BY <2>1, <2>2
  <1>12. stats'.stale + stats'.unqueried > 0 => spent'
    <2>1. CASE IsSpent
      BY <1>1, <2>1
    <2>2. CASE ~IsSpent
      <3>1. field \notin {"stale", "unqueried"}
        BY <2>2 DEF Went
      <3>2. stats'.stale = stats.stale /\ stats'.unqueried = stats.unqueried
        BY <1>5, <3>1 DEF Fields
      <3> QED BY <2>2, <3>2 DEF LoopOK, IsSpent
    <2> QED BY <2>1, <2>2
  <1>13. stats'.unqueried + Cardinality(failed') = Cardinality(NotKnown')
    <2>1. /\ NotKnown \in SUBSET Cve /\ c \notin NotKnown
          /\ failed \in SUBSET Cve
          /\ Cardinality(failed) \in Nat /\ Cardinality(NotKnown) \in Nat
          /\ stats.unqueried \in Nat
      BY <1>2, <1>5, FiniteCves DEF NotKnown, EnrichType, Fields
    <2>2. NotKnown' = IF nvd = None THEN NotKnown \cup {c} ELSE NotKnown
      BY <1>2, <1>4 DEF NotKnown
    <2>3. stats.unqueried + Cardinality(failed) = Cardinality(NotKnown)
      BY DEF LoopOK
    <2>4. CASE field \in {"hits", "stale"} \/ (field = "lookups" /\ nvd # None)
      <3>1. nvd # None /\ failed' = failed
        BY <1>7, <1>8, <2>4 DEF Went, Served
      <3>2. stats'.unqueried = stats.unqueried
        BY <1>5, <2>4 DEF Fields
      <3> QED BY <2>2, <2>3, <3>1, <3>2
    <2>5. CASE field = "unqueried"
      <3>1. nvd = None /\ failed' = failed
        BY <2>5 DEF Went
      <3>2. stats'.unqueried = stats.unqueried + 1
        BY <1>5, <2>5
      <3>3. Cardinality(NotKnown') = Cardinality(NotKnown) + 1
        BY <2>1, <2>2, <3>1, OneMore
      <3> QED BY <2>1, <2>3, <3>1, <3>2, <3>3
    <2>6. CASE field = "lookups" /\ nvd = None
      <3>1. failed' = failed \cup {c}
        BY <1>7, <2>6 DEF Went
      <3>2. stats'.unqueried = stats.unqueried
        BY <1>5, <2>6 DEF Fields
      <3>3. Cardinality(NotKnown') = Cardinality(NotKnown) + 1
        BY <2>1, <2>2, <2>6, OneMore
      <3>4. Cardinality(failed') = Cardinality(failed) + 1
        BY <1>3, <2>1, <3>1, OneMore
      <3> QED BY <2>1, <2>3, <3>2, <3>3, <3>4
    <2> QED BY <2>4, <2>5, <2>6 DEF Fields
  <1>14. ASSUME NEW x \in Handled'
         PROVE  /\ NvdOf(x)' # None =>
                      \E d \in 0 .. day' : world'.nvd[d][x] = NvdOf(x)'
                /\ KevOf(x)' <=> x \in kev'
                /\ EpssOf(x)' <=> x \in epss'
    <2>1. CASE x = c
      <3>1. CASE nvd = None
        BY <1>1, <1>4, <2>1, <3>1
      <3>2. CASE nvd = world.nvd[day][c]
        BY <1>1, <1>4, <1>7, <2>1, <3>2
      <3>3. CASE nvd = held.nvd[c].data /\ held.nvd[c] # None
        BY <1>1, <1>4, <1>8, <2>1, <3>3
      <3> QED BY <3>1, <3>2, <3>3 DEF Went, Served
    <2>2. CASE x # c
      BY <1>1, <1>2, <1>4, <2>2 DEF LoopOK
    <2> QED BY <2>1, <2>2
  <1>15. Cardinality(PastAge') <= stats'.stale
    <2>1. /\ PastAge \in SUBSET Cve /\ c \notin PastAge
          /\ PastAge' \in SUBSET Cve
          /\ Cardinality(PastAge) \in Nat /\ stats.stale \in Nat
          /\ Cardinality(PastAge) <= stats.stale
      BY <1>2, <1>5, FiniteCves DEF PastAge, LoopOK, Fields
    <2>2. \A x : WithinAge(x, NvdOf(x))' <=>
                   \E d \in 0 .. day :
                      /\ day - d <= TtlOf(NvdOf(x)')
                      /\ world.nvd[d][x] = NvdOf(x)'
      BY <1>1 DEF WithinAge, TtlOf
    <2>3. \A x : x # c => (WithinAge(x, NvdOf(x))' <=> WithinAge(x, NvdOf(x)))
      BY <1>4, <2>2 DEF WithinAge, TtlOf
    <2>4. PastAge' \subseteq PastAge \cup {c}
      BY <1>2, <1>4, <2>3 DEF PastAge
    <2>5. CASE field = "stale"
      <3>1. stats'.stale = stats.stale + 1
        BY <1>5, <2>5
      <3>2. /\ PastAge \cup {c} \in SUBSET Cve
            /\ PastAge' \in SUBSET (PastAge \cup {c})
        BY <2>1, <2>4
      <3>3. Cardinality(PastAge') <= Cardinality(PastAge \cup {c})
            /\ Cardinality(PastAge') \in Nat
        BY <3>2, Fewer
      <3>4. Cardinality(PastAge \cup {c}) = Cardinality(PastAge) + 1
        BY <2>1, OneMore
      <3> QED BY <2>1, <3>1, <3>3, <3>4
    <2>6. CASE field # "stale"
      <3>1. stats'.stale = stats.stale
        BY <1>5, <2>6 DEF Fields
      <3>2. c \notin PastAge'
        <4>1. CASE nvd = None
          BY <1>4, <4>1 DEF PastAge
        <4>2. CASE nvd = world.nvd[day][c]
          <5>1. day - day <= TtlOf(nvd)
            BY <1>7, Numbers DEF TtlOf
          <5>2. WithinAge(c, NvdOf(c))'
            BY <1>4, <1>7, <2>2, <4>2, <5>1
          <5> QED BY <5>2 DEF PastAge
        <4>3. CASE CacheFresh(c) /\ nvd = held.nvd[c].data
          <5>1. day - held.nvd[c].at <= TtlOf(nvd) /\ held.nvd[c] # None
            BY <4>3 DEF CacheFresh, Young
          <5>2. WithinAge(c, NvdOf(c))'
            BY <1>4, <1>8, <2>2, <4>3, <5>1
          <5> QED BY <5>2 DEF PastAge
        <4> QED BY <2>6, <4>1, <4>2, <4>3 DEF Went
      <3>3. PastAge' \in SUBSET PastAge
        BY <2>4, <3>2
      <3>4. Cardinality(PastAge') <= Cardinality(PastAge)
            /\ Cardinality(PastAge') \in Nat
        BY <2>1, <3>3, Fewer
      <3> QED BY <2>1, <3>1, <3>4
    <2> QED BY <2>5, <2>6
  <1> QED BY <1>9, <1>10, <1>11, <1>12, <1>13, <1>14, <1>15 DEF LoopOK

LEMMA RunStep ==
    EnrichType /\ DiskTrue /\ RunOK /\ [CacheNext]_cacheVars => RunOK'
  <1> SUFFICES ASSUME EnrichType, DiskTrue, RunOK, [CacheNext]_cacheVars PROVE RunOK'
    OBVIOUS
  <1>1. ASSUME NEW w \in SUBSET Cve, Fresh(w), phase' \in {"idle", "kev"}
        PROVE  RunOK'
    <2>1. Unstarted'
      BY <1>1 DEF Fresh, Unstarted
    <2> QED BY <1>1, <2>1 DEF Fresh, RunOK
  <1>2. CASE (\E w \in SUBSET Cve : BeginRun(w)) \/ NextDay \/ Kill
    BY <1>1, <1>2 DEF BeginRun, NextDay, Kill
  <1>3. ASSUME UNCHANGED <<intel, stats, failed, spent, seconds, calls,
                           requests>>,
               phase \in {"kev", "epss"}, phase' = "epss"
        PROVE  RunOK'
    <2>1. Unstarted'
      BY <1>3 DEF RunOK, Unstarted
    <2> QED BY <1>3, <2>1 DEF RunOK
  <1>4. ASSUME NEW ok \in BOOLEAN, LoadKev(ok) PROVE RunOK'
    BY <1>3, <1>4 DEF LoadKev
  <1>5. ASSUME NEW ok \in BOOLEAN, LoadEpss(ok) PROVE RunOK'
    <2>1. /\ UNCHANGED <<intel, stats, failed, spent, seconds, calls,
                         requests, wanted>>
          /\ phase = "epss"
      BY <1>5 DEF LoadEpss
    <2>2. CASE phase' = "epss"
      BY <1>3, <2>1, <2>2
    <2>3. CASE phase' = "nvd" /\ left' = wanted
      <3>1. Handled' = {} /\ NotKnown' = {} /\ PastAge' = {}
        BY <2>1, <2>3 DEF Handled, NotKnown, PastAge
      <3>2. /\ DOMAIN intel' = {} /\ failed' = {}
            /\ stats'.hits = 0 /\ stats'.lookups = 0
            /\ stats'.stale = 0 /\ stats'.unqueried = 0
        BY <2>1 DEF RunOK, Unstarted, NoStats
      <3>3. Cardinality({}) = 0
        BY FS_EmptySet
      <3>4. LoopOK'
        BY <3>1, <3>2, <3>3 DEF LoopOK
      <3> QED BY <2>3, <3>4 DEF RunOK
    <2> QED BY <1>5, <2>1, <2>2, <2>3 DEF LoadEpss
  <1>6. ASSUME NEW c \in Cve,
               TakesUp(c)
        PROVE  RunOK'
    <2>1. PICK field \in Fields, nvd \in Answers(c) :
              Turn(c) /\ Counted(field) /\ Record(c, nvd) /\ Went(c, field, nvd)
      BY <1>6, TurnGoes
    <2>2. phase = "nvd" /\ phase' = "nvd"
      BY <2>1 DEF Turn
    <2>3. LoopOK'
      BY <2>1, <2>2, LoopTurn DEF RunOK
    <2> QED BY <2>2, <2>3 DEF RunOK
  <1>7. ASSUME UNCHANGED <<world, day, held, wanted, left, kev, epss, spent,
                           stats, failed, intel>>, LoopOK
        PROVE  LoopOK'
    BY <1>7 DEF LoopOK, Handled, NotKnown, PastAge, NvdOf, KevOf, EpssOf,
       WithinAge
  <1>8. CASE Finish
    <2>1. LoopOK'
      BY <1>7, <1>8 DEF Finish, RunOK
    <2> QED BY <1>8, <2>1 DEF Finish, RunOK
  <1>9. CASE UNCHANGED cacheVars
    <2>1. LoopOK => LoopOK'
      BY <1>7, <1>9 DEF cacheVars
    <2> QED BY <1>9, <2>1 DEF cacheVars, RunOK, Unstarted
  <1> QED BY <1>2, <1>4, <1>5, <1>6, <1>8, <1>9 DEF CacheNext, TakesUp

LEMMA InitInv == CacheInit => IInv
  <1> SUFFICES ASSUME CacheInit PROVE IInv
    OBVIOUS
  <1>1. EnrichType
    BY InitType
  <1>2. DiskTrue
    BY DEF CacheInit, DiskTrue
  <1>3. PaceOK /\ NvdPaced
    BY Numbers DEF CacheInit, PaceOK, NvdPaced
  <1>4. CataloguesOK
    BY DEF CacheInit, CataloguesOK
  <1>5. RunOK
    BY DEF CacheInit, RunOK, Unstarted
  <1> QED BY <1>1, <1>2, <1>3, <1>4, <1>5 DEF IInv

LEMMA Invariant == CacheSpec => []IInv
  <1>1. IInv /\ [CacheNext]_cacheVars => IInv'
    BY TypeStep, DiskStep, PaceStep, CataloguesStep, RunStep DEF IInv
  <1> QED BY InitInv, <1>1, PTL DEF CacheSpec

(* The rate limit of NVD holds over every window of a run, and its loop    *)
(* ends within the budget, one wait and one request (_RateLimiter).        *)
THEOREM NvdIsPaced == CacheSpec => []NvdPaced
  <1>1. IInv => NvdPaced
    BY DEF IInv
  <1> QED BY Invariant, <1>1, PTL

(* A finished run accounts for every CVE it was asked about: the counters  *)
(* add up, a score on disk is handed out unless the lookup failed, and     *)
(* what the budget cut is counted and reported (enrich_cves).              *)
THEOREM CvesAreAccountedFor == CacheSpec => []EveryCveAccounted
  <1>1. IInv => EveryCveAccounted
    <2> SUFFICES ASSUME IInv, phase = "done" PROVE EveryCveAccounted
      BY DEF EveryCveAccounted
    <2>1. LoopOK /\ left = {} /\ (spent => "budget" \in errors)
      BY DEF IInv, RunOK
    <2>2. Handled = wanted
      BY <2>1 DEF Handled
    <2>3. ASSUME NEW c \in wanted \ failed,
                 held.nvd[c] # None, held.nvd[c].data \in Score
          PROVE  c \in DOMAIN intel /\ intel[c].nvd = held.nvd[c].data
      <3>1. NvdOf(c) = held.nvd[c].data
        BY <2>1, <2>2, <2>3 DEF LoopOK
      <3>2. None \notin Score
        BY EnrichAssumption DEF Nvd
      <3> QED BY <2>3, <3>1, <3>2 DEF NvdOf
    <2>4. NotKnown = {c \in wanted : c \notin DOMAIN intel \/ intel[c].nvd = None}
      BY <2>2 DEF NotKnown, NvdOf
    <2> QED BY <2>1, <2>2, <2>3, <2>4 DEF LoopOK, EveryCveAccounted
  <1> QED BY Invariant, <1>1, PTL

(* Every answer a finished run hands out was once NVD's, and those older   *)
(* than their kind may be are no more than it says it served (stale).      *)
THEOREM AgesAreTold == CacheSpec => []AgeIsTold
  <1>1. IInv => AgeIsTold
    <2> SUFFICES ASSUME IInv, phase = "done" PROVE AgeIsTold
      BY DEF AgeIsTold
    <2>1. LoopOK /\ left = {}
      BY DEF IInv, RunOK
    <2>2. Handled = wanted /\ DOMAIN intel \subseteq wanted
      BY <2>1 DEF Handled, LoopOK
    <2> DEFINE answered == {c \in DOMAIN intel : intel[c].nvd # None}
    <2>3. \A c \in answered : \E d \in 0 .. day : world.nvd[d][c] = intel[c].nvd
      BY <2>1, <2>2 DEF LoopOK, NvdOf
    <2>4. {c \in answered : ~WithinAge(c, intel[c].nvd)} = PastAge
      BY <2>2 DEF PastAge, NvdOf
    <2> HIDE DEF answered
    <2>5. Cardinality({c \in answered : ~WithinAge(c, intel[c].nvd)})
             <= stats.stale
      BY <2>1, <2>4 DEF LoopOK
    <2> QED BY <2>3, <2>5 DEF AgeIsTold, answered
  <1> QED BY Invariant, <1>1, PTL

(* KEV and EPSS reach every CVE of a finished run, cut by the budget or    *)
(* not, unless their own request failed, from a copy that is not too old.  *)
THEOREM CataloguesReachEveryCve == CacheSpec => []CataloguesReachAll
  <1>1. IInv => CataloguesReachAll
    <2> SUFFICES ASSUME IInv, phase = "done" PROVE CataloguesReachAll
      BY DEF CataloguesReachAll
    <2>1. LoopOK /\ left = {} /\ KevKnown /\ \A c \in wanted : EpssKnown(c)
      BY DEF IInv, RunOK, CataloguesOK
    <2>2. Handled = wanted /\ DOMAIN intel \subseteq wanted
      BY <2>1 DEF Handled, LoopOK
    <2>3. \A c \in wanted : (KevOf(c) <=> c \in kev) /\ (EpssOf(c) <=> c \in epss)
      BY <2>1, <2>2 DEF LoopOK
    <2>4. {c \in DOMAIN intel : intel[c].kev} = kev \cap wanted
      BY <2>2, <2>3 DEF KevOf
    <2>5. "kev" \notin errors =>
             \E d \in 0 .. day :
                /\ day - d <= KevTtl
                /\ {c \in DOMAIN intel : intel[c].kev} = world.kev[d] \cap wanted
      BY <2>1, <2>4 DEF KevKnown
    <2>6. "epss" \notin errors =>
             \A c \in wanted : \E d \in 0 .. day :
                /\ day - d <= EpssTtl
                /\ (c \in DOMAIN intel /\ intel[c].epss) <=> c \in world.epss[d]
      BY <2>1, <2>3 DEF EpssKnown, EpssOf
    <2> QED BY <2>5, <2>6 DEF CataloguesReachAll
  <1> QED BY Invariant, <1>1, PTL
=============================================================================
