---------------------------- MODULE ArchiveProofs ----------------------------
(***************************************************************************)
(* Proofs about Archive, for any feeds, articles, runs, lookbacks and      *)
(* bounds: type correctness, that no article is in two reports, that no    *)
(* entry is overlooked, and that every outage is mailed about.             *)
(***************************************************************************)
EXTENDS Archive, FiniteSetTheorems, WellFoundedInduction, TLAPS

State == [phase : {"idle", "collect", "check"}, day : Day, chain : SUBSET Day,
          known : SUBSET Article, unread : SUBSET Source,
          articles : SUBSET Article, failed : SUBSET Source,
          seen : SUBSET Article]

(* What every report and its history hold.                                 *)
ReportsOK ==
    /\ \A d \in Day : report[d] # None => d <= today
    /\ \A d \in Day : \A a \in ArticlesOf(d) : 0 < dated[a] /\ dated[a] <= d
    /\ \A d \in Day : \A a \in seen[d] : dated[a] > 0 /\ report[d] # None

(* The days before a run's own that it may rely on: they were readable     *)
(* when it began, for a day written since is overdue.                      *)
Unbroken(e, d) ==
    /\ e < d /\ d - e <= LateLookback
    /\ \A x \in Day : e <= x /\ x < d => x \in Readable /\ x \notin overdue

(* A run under way: its chain has no gap and leaves no unbroken day out,   *)
(* its known articles are those of the chain's reports but for the overdue *)
(* ones, and it has everything it saw unless that was known.               *)
ChainOK(s) ==
    /\ s.day <= today
    /\ \A e \in s.chain : /\ e < s.day
                          /\ \A x \in Day : e <= x /\ x < s.day => x \in s.chain
    /\ \A e \in Day : Unbroken(e, s.day) => e \in s.chain

KnownOK(s) ==
    /\ \A e \in s.chain \ overdue : ArticlesOf(e) \subseteq s.known
    /\ \A a \in s.known : 0 < dated[a] /\ \E e \in s.chain :
           dated[a] <= e /\ (e \in overdue \/ a \in ArticlesOf(e))

TakenOK(s) ==
    /\ \A a \in s.articles :
           dated[a] = s.day \/ (dated[a] \in s.chain /\ a \notin s.known)
    /\ \A a \in s.seen :
           /\ dated[a] > 0
           /\ dated[a] = s.day => a \in s.articles
           /\ dated[a] \in s.chain => a \in s.articles \cup s.known

RunOK(r) ==
    \A s \in {run[r]} :
        s.phase = "collect" => ChainOK(s) /\ KnownOK(s) /\ TakenOK(s)

IInv ==
    /\ TypeOK /\ ReportsOK /\ CollectedOnce /\ NoneOverlooked
    /\ \A r \in Run : RunOK(r)

-----------------------------------------------------------------------------

(* A nonempty set of days has a last one. *)
LEMMA LastDayOf ==
    ASSUME NEW S \in SUBSET Day, S # {}
    PROVE  Max(S) \in S /\ \A j \in S : j <= Max(S)
  <1> DEFINE Gap == {n \in Nat : LastDay - n \in S}
             R == OpToRel(<, Nat)
  <1>1. Gap \subseteq Nat /\ Gap # {}
    <2>1. PICK j \in S : TRUE
      OBVIOUS
    <2>2. j \in Int /\ LastDay \in Int /\ j <= LastDay
      BY <2>1, ArchiveAssumption DEF Day
    <2>3. LastDay - j \in Nat /\ LastDay - (LastDay - j) = j
      BY <2>2
    <2> QED BY <2>1, <2>3
  <1>2. PICK x \in Gap : \A y \in Gap : ~ (<<y, x>> \in R)
    <2>1. IsWellFoundedOn(R, Nat)
      BY NatLessThanWellFounded
    <2> HIDE DEF Gap, R
    <2> QED BY <1>1, <2>1, WFMin
  <1>3. ASSUME NEW y \in Gap PROVE x <= y
    <2>1. CASE y < x
      <3>1. <<y, x>> \in Nat \X Nat
        OBVIOUS
      <3>2. <<y, x>> \in R
        BY <2>1, <3>1 DEF OpToRel
      <3> QED BY <1>2, <1>3, <3>2
    <2>2. y \in Nat /\ x \in Nat
      OBVIOUS
    <2> HIDE DEF Gap, R
    <2> QED BY <2>1, <2>2
  <1>4. LastDay - x \in S
    OBVIOUS
  <1>5. ASSUME NEW j \in S PROVE LastDay - x >= j /\ j \in Int
    <2>1. j \in Int /\ LastDay \in Int /\ j <= LastDay
      BY ArchiveAssumption DEF Day
    <2>2. LastDay - j \in Gap
      BY <2>1
    <2>3. x <= LastDay - j /\ x \in Int
      BY <1>3, <2>2
    <2> QED BY <2>1, <2>3
  <1>6. LastDay - x \in Int
    BY <1>4, <1>5
  <1>7. Max(S) \in S /\ \A j \in S : Max(S) >= j
    BY <1>4, <1>5 DEF Max
  <1> QED BY <1>5, <1>7

LEMMA IdleIsState == Idle \in State /\ Idle.phase = "idle"
  <1>1. 1 \in Day
    BY ArchiveAssumption DEF Day
  <1> QED BY <1>1 DEF Idle, State

LEMMA InitInv == Init => IInv
  <1> SUFFICES ASSUME Init PROVE IInv
    OBVIOUS
  <1>1. 1 \in Day /\ 0 \in 0 .. LastDay + 1 /\ LastDay \in Nat
        /\ 0 \in 0 .. MaxRuns /\ 0 \in 0 .. MaxLost
    BY ArchiveAssumption DEF Day
  <1>2. run \in [Run -> State] /\ \A r \in Run : run[r].phase = "idle"
    BY IdleIsState DEF Init
  <1>3. TypeOK
    BY <1>1, <1>2 DEF Init, TypeOK, State
  <1>4. \A d \in Day : ArticlesOf(d) = {} /\ seen[d] = {} /\ report[d] = None
    BY DEF Init, ArticlesOf
  <1>5. ReportsOK
    BY <1>4 DEF ReportsOK
  <1>6. CollectedOnce
    <2> SUFFICES ASSUME NEW e \in Day PROVE ArticlesOf(e) = {}
      BY DEF CollectedOnce
    <2> QED BY <1>4
  <1>7. NoneOverlooked
    BY <1>4 DEF NoneOverlooked
  <1> QED BY <1>2, <1>3, <1>5, <1>6, <1>7 DEF IInv, RunOK

(* Runs and feeds come and go without touching the archive.                *)
LEMMA ArchiveSteady ==
    ASSUME IInv, UNCHANGED <<today, dated, report, lost, seen, overdue>>
    PROVE  /\ ReportsOK' /\ CollectedOnce' /\ NoneOverlooked'
           /\ \A r \in Run : run'[r] = run[r] => RunOK(r)'
  <1>1. ReportsOK /\ CollectedOnce /\ NoneOverlooked /\ \A r \in Run : RunOK(r)
    BY DEF IInv
  <1>2. ReportsOK'
    BY <1>1 DEF ReportsOK, ArticlesOf
  <1>3. CollectedOnce'
    BY <1>1 DEF CollectedOnce, ArticlesOf
  <1>4. NoneOverlooked'
    BY <1>1 DEF NoneOverlooked, ArticlesOf, Readable
  <1>5. ASSUME NEW r \in Run, run'[r] = run[r] PROVE RunOK(r)'
    BY <1>1, <1>5 DEF RunOK, ChainOK, KnownOK, TakenOK, Unbroken, Readable,
                      ArticlesOf
  <1> QED BY <1>2, <1>3, <1>4, <1>5

(* One run moves, and the archive does not.                                *)
LEMMA OneRunMoves ==
    ASSUME IInv, NEW r \in Run, NEW s \in State,
           run' = [run EXCEPT ![r] = s],
           UNCHANGED <<today, feeds, archive, losses>>,
           runs' \in 0 .. MaxRuns, mailed' \subseteq Source \X Day,
           checked' \subseteq {d \in Day : report[d] # None},
           s.phase = "collect" => ChainOK(s) /\ KnownOK(s) /\ TakenOK(s)
    PROVE  IInv'
  <1>1. UNCHANGED <<today, dated, listed, report, lost, seen, overdue, losses>>
    BY DEF feeds, archive
  <1>2. run \in [Run -> State]
    BY DEF IInv, TypeOK, State
  <1>3. run' \in [Run -> State] /\ run'[r] = s
        /\ \A t \in Run : t # r => run'[t] = run[t]
    BY <1>2
  <1>4. TypeOK'
    BY <1>1, <1>3 DEF IInv, TypeOK, State
  <1>5. /\ ReportsOK' /\ CollectedOnce' /\ NoneOverlooked'
        /\ \A t \in Run : run'[t] = run[t] => RunOK(t)'
    BY <1>1, ArchiveSteady
  <1>6. RunOK(r)'
    BY <1>1, <1>3 DEF RunOK, ChainOK, KnownOK, TakenOK, Unbroken, Readable,
                      ArticlesOf
  <1> QED BY <1>3, <1>4, <1>5, <1>6 DEF IInv

LEMMA PublishStep ==
    ASSUME IInv, NEW a \in Article, Publish(a)
    PROVE  IInv'
  <1>1. PICK d \in 1 .. today + 1 : dated' = [dated EXCEPT ![a] = d]
    BY DEF Publish
  <1>2. /\ dated[a] = 0 /\ listed' = listed \cup {a}
        /\ UNCHANGED <<today, report, lost, seen, overdue, run, runs, losses,
                       mailed, checked>>
    BY DEF Publish, archive, health
  <1>3. today \in Day /\ LastDay \in Nat /\ dated \in [Article -> 0 .. LastDay + 1]
    BY ArchiveAssumption DEF IInv, TypeOK
  <1>4. d \in 0 .. LastDay + 1 /\ d > 0
    BY <1>3 DEF Day
  <1>5. dated' \in [Article -> 0 .. LastDay + 1] /\ dated'[a] > 0
        /\ \A b \in Article : b # a => dated'[b] = dated[b]
    BY <1>1, <1>3, <1>4
  <1>6. TypeOK'
    BY <1>2, <1>5 DEF IInv, TypeOK
  <1>7. /\ \A x \in Day : ArticlesOf(x)' = ArticlesOf(x)
        /\ Readable' = Readable
    BY <1>2 DEF ArticlesOf, Readable
  <1>8. \A x \in Day : a \notin ArticlesOf(x) /\ a \notin seen[x]
    BY <1>2 DEF IInv, ReportsOK
  <1>9. \A x \in Day : ArticlesOf(x) \subseteq Article /\ seen[x] \subseteq Article
    BY DEF IInv, TypeOK, ArticlesOf, Report
  <1>10. ReportsOK'
    BY <1>2, <1>5, <1>7, <1>8, <1>9 DEF IInv, ReportsOK
  <1>11. CollectedOnce'
    BY <1>2 DEF IInv, CollectedOnce, ArticlesOf
  <1>12. NoneOverlooked'
    <2>1. \A x \in Day : \A b \in seen[x] : dated'[b] = dated[b]
      BY <1>5, <1>8, <1>9
    <2> QED BY <1>2, <1>7, <2>1 DEF IInv, NoneOverlooked, ArticlesOf
  <1>13. ASSUME NEW r \in Run PROVE RunOK(r)'
    <2> SUFFICES ASSUME NEW s \in State, s = run[r], s.phase = "collect"
                 PROVE  ChainOK(s)' /\ KnownOK(s)' /\ TakenOK(s)'
      BY <1>2 DEF RunOK, IInv, TypeOK, State
    <2>1. ChainOK(s) /\ KnownOK(s) /\ TakenOK(s)
      BY DEF IInv, RunOK
    <2>2. s.day \in Day /\ s.chain \subseteq Day /\ s.known \subseteq Article
          /\ s.articles \subseteq Article /\ s.seen \subseteq Article
      BY DEF State
    <2>3. ChainOK(s)'
      BY <1>2, <1>7, <2>1 DEF ChainOK, Unbroken
    <2>4. a \notin s.known /\ a \notin s.seen
      BY <1>2, <2>1, <2>2 DEF KnownOK, TakenOK
    <2>5. a \notin s.articles
      <3>1. 0 # s.day /\ 0 \notin s.chain
        BY <2>2 DEF Day
      <3> QED BY <1>2, <2>1, <3>1 DEF TakenOK
    <2>6. \A b \in s.known \cup s.articles \cup s.seen : dated'[b] = dated[b]
      BY <1>5, <2>2, <2>4, <2>5
    <2>7. KnownOK(s)'
      BY <1>2, <1>7, <2>1, <2>2, <2>6 DEF KnownOK
    <2>8. TakenOK(s)'
      BY <2>1, <2>6 DEF TakenOK
    <2> QED BY <2>3, <2>7, <2>8
  <1> QED BY <1>6, <1>10, <1>11, <1>12, <1>13 DEF IInv

LEMMA DropStep ==
    ASSUME IInv, NEW a \in Article, Drop(a)
    PROVE  IInv'
  <1>1. /\ listed' \subseteq listed
        /\ UNCHANGED <<today, dated, report, lost, seen, overdue, run, runs,
                       losses, mailed, checked>>
    BY DEF Drop, archive, health
  <1>2. TypeOK'
    BY <1>1 DEF IInv, TypeOK
  <1> QED BY <1>1, <1>2, ArchiveSteady DEF IInv

LEMMA LoseStep ==
    ASSUME IInv, NEW d \in Day, Lose(d)
    PROVE  IInv'
  <1>1. /\ d \in Readable /\ lost' = lost \cup {d} /\ losses < MaxLost
        /\ losses' = losses + 1
        /\ UNCHANGED <<today, dated, listed, report, seen, overdue, run, runs,
                       mailed, checked>>
    BY DEF Lose, feeds, health
  <1>2. Readable' \subseteq Readable
    BY <1>1 DEF Readable
  <1>3. losses' \in 0 .. MaxLost
    BY <1>1, ArchiveAssumption DEF IInv, TypeOK
  <1>4. lost' \subseteq {x \in Day : report[x] # None}
    BY <1>1 DEF IInv, TypeOK, Readable
  <1>5. TypeOK'
    BY <1>1, <1>3, <1>4 DEF IInv, TypeOK
  <1>6. ReportsOK' /\ CollectedOnce'
    BY <1>1 DEF IInv, ReportsOK, CollectedOnce, ArticlesOf
  <1>7. NoneOverlooked'
    BY <1>1, <1>2 DEF IInv, NoneOverlooked, ArticlesOf
  <1>8. ASSUME NEW r \in Run PROVE RunOK(r)'
    <2> SUFFICES ASSUME NEW s \in State, s = run[r], s.phase = "collect"
                 PROVE  ChainOK(s)' /\ KnownOK(s)' /\ TakenOK(s)'
      BY <1>1 DEF RunOK, IInv, TypeOK, State
    <2>1. ChainOK(s) /\ KnownOK(s) /\ TakenOK(s)
      BY DEF IInv, RunOK
    <2>2. ChainOK(s)'
      BY <1>1, <1>2, <2>1 DEF ChainOK, Unbroken
    <2>3. KnownOK(s)' /\ TakenOK(s)'
      BY <1>1, <2>1 DEF KnownOK, TakenOK, ArticlesOf
    <2> QED BY <2>2, <2>3
  <1> QED BY <1>5, <1>6, <1>7, <1>8 DEF IInv

LEMMA NextSlotStep ==
    ASSUME IInv, NextSlot
    PROVE  IInv'
  <1>1. /\ today' = today + 1 /\ today < LastDay
        /\ UNCHANGED <<dated, listed, report, lost, seen, overdue, run, runs,
                       losses, mailed, checked>>
    BY DEF NextSlot, feeds, archive, health
  <1>2. today' \in Day
    BY <1>1, ArchiveAssumption DEF IInv, TypeOK, Day
  <1>3. today \in Nat /\ Day \subseteq Nat
    BY DEF IInv, TypeOK, Day
  <1>4. TypeOK'
    BY <1>1, <1>2 DEF IInv, TypeOK
  <1>5. ReportsOK'
    BY <1>1, <1>3 DEF IInv, ReportsOK, ArticlesOf
  <1>6. CollectedOnce' /\ NoneOverlooked'
    BY <1>1 DEF IInv, CollectedOnce, NoneOverlooked, ArticlesOf, Readable
  <1>7. ASSUME NEW r \in Run PROVE RunOK(r)'
    <2> SUFFICES ASSUME NEW s \in State, s = run[r], s.phase = "collect"
                 PROVE  ChainOK(s)' /\ KnownOK(s)' /\ TakenOK(s)'
      BY <1>1 DEF RunOK, IInv, TypeOK, State
    <2>1. ChainOK(s) /\ KnownOK(s) /\ TakenOK(s)
      BY DEF IInv, RunOK
    <2>2. s.day \in Nat
      BY <1>3 DEF State
    <2>3. ChainOK(s)'
      <3>1. s.day <= today'
        BY <1>1, <1>3, <2>1, <2>2 DEF ChainOK
      <3>2. \A e \in Day : Unbroken(e, s.day)' = Unbroken(e, s.day)
        BY <1>1 DEF Unbroken, Readable
      <3> QED BY <2>1, <3>1, <3>2 DEF ChainOK
    <2>4. KnownOK(s)' /\ TakenOK(s)'
      BY <1>1, <2>1 DEF KnownOK, TakenOK, ArticlesOf
    <2> QED BY <2>3, <2>4
  <1> QED BY <1>4, <1>5, <1>6, <1>7 DEF IInv

-----------------------------------------------------------------------------

LEMMA BeginStep ==
    ASSUME IInv, NEW r \in Run, Begin(r)
    PROVE  IInv'
  <1> DEFINE s == [Idle EXCEPT !.phase = "collect", !.day = today,
                               !.chain = Chain(today), !.known = Known(today),
                               !.unread = Source]
  <1>1. /\ run' = [run EXCEPT ![r] = s] /\ runs < MaxRuns /\ runs' = runs + 1
        /\ UNCHANGED <<today, feeds, archive, losses, mailed, checked>>
    BY DEF Begin, health
  <1>2. today \in Day /\ Day \subseteq Nat /\ LateLookback \in Nat
    BY ArchiveAssumption DEF IInv, TypeOK, Day
  <1>3. Chain(today) \subseteq Readable /\ Readable \subseteq Day
    BY DEF Chain, Readable
  <1>4. \A e \in Readable : /\ ArticlesOf(e) = report[e].articles
                            /\ ArticlesOf(e) \subseteq Article
    BY DEF Readable, ArticlesOf, IInv, TypeOK, Report
  <1>5. Known(today) \subseteq Article
    BY <1>3, <1>4 DEF Known
  <1>6. s \in State
    BY <1>2, <1>3, <1>5 DEF State, Idle
  <1>7. /\ s.day = today /\ s.chain = Chain(today) /\ s.known = Known(today)
        /\ s.articles = {} /\ s.seen = {}
    BY DEF Idle
  <1> HIDE DEF s
  <1>8. ChainOK(s)
    <2>1. ASSUME NEW e \in Chain(today), NEW x \in Day, e <= x, x < today
          PROVE  x \in Chain(today)
      <3>1. e \in Nat /\ x \in Nat /\ today \in Nat /\ today - e <= LateLookback
            /\ e .. today - 1 \subseteq Readable
        BY <1>2, <1>3 DEF Chain
      <3>2. x \in e .. today - 1 /\ x .. today - 1 \subseteq e .. today - 1
            /\ today - x <= LateLookback
        BY <1>2, <2>1, <3>1
      <3> QED BY <2>1, <3>1, <3>2 DEF Chain
    <2>2. ASSUME NEW e \in Day, Unbroken(e, today) PROVE e \in Chain(today)
      <3>1. ASSUME NEW x \in e .. today - 1 PROVE x \in Day
        <4>1. /\ LastDay \in Nat /\ today \in Nat /\ today <= LastDay
              /\ e \in Nat /\ 1 <= e
          BY ArchiveAssumption DEF IInv, TypeOK, Day
        <4>2. x \in Nat /\ 1 <= x /\ x <= LastDay
          BY <4>1
        <4> QED BY <4>2 DEF Day
      <3>2. e .. today - 1 \subseteq Readable
        BY <1>2, <2>2, <3>1 DEF Unbroken
      <3>3. e \in Readable
        BY <1>2, <2>2 DEF Unbroken
      <3> QED BY <2>2, <3>2, <3>3 DEF Unbroken, Chain
    <2>3. \A e \in Chain(today) : e < today
      BY DEF Chain
    <2> QED BY <1>2, <1>7, <2>1, <2>2, <2>3 DEF ChainOK
  <1>9. KnownOK(s)
    <2>1. ASSUME NEW e \in Chain(today)
          PROVE  ArticlesOf(e) \subseteq Known(today)
      BY <1>3, <1>4 DEF Known
    <2>2. ASSUME NEW a \in Known(today)
          PROVE  0 < dated[a] /\ \E e \in Chain(today) :
                     dated[a] <= e /\ a \in ArticlesOf(e)
      <3>1. PICK e \in Chain(today) : a \in report[e].articles
        BY DEF Known
      <3>2. a \in ArticlesOf(e) /\ e \in Day
        BY <1>3, <1>4, <3>1
      <3> QED BY <3>2 DEF IInv, ReportsOK
    <2> QED BY <1>7, <2>1, <2>2 DEF KnownOK
  <1>10. TakenOK(s)
    BY <1>7 DEF TakenOK
  <1>11. runs' \in 0 .. MaxRuns
    BY <1>1, ArchiveAssumption DEF IInv, TypeOK
  <1>12. /\ mailed' \subseteq Source \X Day
         /\ checked' \subseteq {d \in Day : report[d] # None}
    BY <1>1 DEF IInv, TypeOK
  <1> QED BY <1>1, <1>6, <1>8, <1>9, <1>10, <1>11, <1>12, OneRunMoves

LEMMA ReadFeedStep ==
    ASSUME IInv, NEW r \in Run, NEW f \in Source, ReadFeed(r, f)
    PROVE  IInv'
  <1> DEFINE s == run[r]
             u == [s EXCEPT !.unread = @ \ {f},
                            !.articles = @ \cup Taken(r, f),
                            !.seen = @ \cup {a \in listed : SourceOf[a] = f}]
  <1>1. /\ s \in State /\ s.phase = "collect"
        /\ ChainOK(s) /\ KnownOK(s) /\ TakenOK(s)
    BY DEF ReadFeed, IInv, RunOK, TypeOK, State
  <1>2. run \in [Run -> State]
    BY DEF IInv, TypeOK, State
  <1>3. run' = [run EXCEPT ![r] = u]
    BY DEF ReadFeed
  <1>4. UNCHANGED <<today, feeds, archive, losses, runs, mailed, checked>>
    BY DEF ReadFeed, health
  <1>5. listed \subseteq Article /\ \A a \in listed : dated[a] > 0
    BY DEF IInv, TypeOK
  <1>6. Taken(r, f) \subseteq listed
    BY DEF Taken
  <1>7. u \in State
    BY <1>1, <1>5, <1>6 DEF State
  <1>8. /\ u.day = s.day /\ u.chain = s.chain /\ u.known = s.known
        /\ u.articles = s.articles \cup Taken(r, f)
        /\ u.seen = s.seen \cup {a \in listed : SourceOf[a] = f}
    BY <1>1 DEF State
  <1>9. \A a \in listed : SourceOf[a] = f =>
            (a \in Taken(r, f) <=>
                dated[a] = s.day \/ (dated[a] \in s.chain /\ a \notin s.known))
    BY DEF Taken
  <1>10. \A a \in Taken(r, f) : SourceOf[a] = f
    BY DEF Taken
  <1> HIDE DEF s, u
  <1>11. ChainOK(u) /\ KnownOK(u)
    BY <1>1, <1>8 DEF ChainOK, KnownOK
  <1>12. TakenOK(u)
    BY <1>1, <1>5, <1>6, <1>8, <1>9, <1>10 DEF TakenOK
  <1>13. /\ runs' \in 0 .. MaxRuns /\ mailed' \subseteq Source \X Day
         /\ checked' \subseteq {d \in Day : report[d] # None}
    BY <1>4 DEF IInv, TypeOK
  <1> QED BY <1>3, <1>4, <1>7, <1>11, <1>12, <1>13, OneRunMoves

LEMMA FeedFailsStep ==
    ASSUME IInv, NEW r \in Run, NEW f \in Source, FeedFails(r, f)
    PROVE  IInv'
  <1> DEFINE s == run[r]
             u == [s EXCEPT !.unread = @ \ {f}, !.failed = @ \cup {f}]
  <1>1. /\ s \in State /\ s.phase = "collect"
        /\ ChainOK(s) /\ KnownOK(s) /\ TakenOK(s)
    BY DEF FeedFails, IInv, RunOK, TypeOK, State
  <1>2. run' = [run EXCEPT ![r] = u]
    BY DEF FeedFails
  <1>3. UNCHANGED <<today, feeds, archive, losses, runs, mailed, checked>>
    BY DEF FeedFails, health
  <1>4. u \in State
    BY <1>1 DEF State
  <1>5. /\ u.day = s.day /\ u.chain = s.chain /\ u.known = s.known
        /\ u.articles = s.articles /\ u.seen = s.seen
    BY <1>1 DEF State
  <1> HIDE DEF s, u
  <1>6. ChainOK(u) /\ KnownOK(u) /\ TakenOK(u)
    BY <1>1, <1>5 DEF ChainOK, KnownOK, TakenOK
  <1>7. /\ runs' \in 0 .. MaxRuns /\ mailed' \subseteq Source \X Day
        /\ checked' \subseteq {d \in Day : report[d] # None}
    BY <1>3 DEF IInv, TypeOK
  <1> QED BY <1>2, <1>3, <1>4, <1>6, <1>7, OneRunMoves

LEMMA FailStep ==
    ASSUME IInv, NEW r \in Run, Fail(r)
    PROVE  IInv'
  <1>1. /\ run' = [run EXCEPT ![r] = Idle]
        /\ UNCHANGED <<today, feeds, archive, losses, runs, mailed, checked>>
    BY DEF Fail, health
  <1>2. /\ runs' \in 0 .. MaxRuns /\ mailed' \subseteq Source \X Day
        /\ checked' \subseteq {d \in Day : report[d] # None}
    BY <1>1 DEF IInv, TypeOK
  <1> QED BY <1>1, <1>2, IdleIsState, OneRunMoves

LEMMA CheckStep ==
    ASSUME IInv, NEW r \in Run, Check(r)
    PROVE  IInv'
  <1> DEFINE due == {s \in Source : IsNotifyPoint(Cardinality(Streak(s)))}
             newest == Max(Readable)
  <1>1. /\ run' = [run EXCEPT ![r] = Idle]
        /\ UNCHANGED <<today, feeds, archive, losses, runs>>
    BY DEF Check
  <1>2. /\ mailed \subseteq Source \X Day /\ runs \in 0 .. MaxRuns
        /\ checked \subseteq {d \in Day : report[d] # None}
    BY DEF IInv, TypeOK
  <1>3. \/ mailed' = mailed /\ checked' = checked
        \/ /\ Readable # {}
           /\ mailed' = mailed \cup (due \X {newest})
           /\ checked' = checked \cup {newest}
    BY DEF Check, health
  <1>4. Readable # {} => newest \in Readable
    BY LastDayOf DEF Readable
  <1>5. due \subseteq Source
    OBVIOUS
  <1> HIDE DEF due, newest
  <1>6. /\ mailed' \subseteq Source \X Day
        /\ checked' \subseteq {d \in Day : report[d] # None}
    BY <1>2, <1>3, <1>4, <1>5 DEF Readable
  <1> QED BY <1>1, <1>2, <1>6, IdleIsState, OneRunMoves

-----------------------------------------------------------------------------

(* A report takes nothing a report of its chain has, and a report written  *)
(* after the next slot had closed is relied on by nobody.                  *)
LEMMA WriteStep ==
    ASSUME IInv, NEW r \in Run, Write(r)
    PROVE  IInv'
  <1> SUFFICES ASSUME NEW s \in State, s = run[r], NEW d \in Day, d = s.day
               PROVE  IInv'
    BY DEF IInv, TypeOK, State
  <1> DEFINE new == [articles |-> s.articles, failed |-> s.failed]
             u == [Idle EXCEPT !.phase = "check", !.day = d]
  <1>1. /\ s \in State /\ s.phase = "collect"
        /\ ChainOK(s) /\ KnownOK(s) /\ TakenOK(s)
    BY DEF Write, IInv, RunOK, TypeOK, State
  <1>2. /\ report' = [report EXCEPT ![d] = new] /\ lost' = lost \ {d}
        /\ checked' = checked \ {d} /\ seen' = [seen EXCEPT ![d] = s.seen]
        /\ overdue' = IF d < today THEN overdue \cup {d} ELSE overdue
        /\ run' = [run EXCEPT ![r] = u]
        /\ UNCHANGED <<today, dated, listed, runs, losses, mailed>>
    BY DEF Write, feeds
  <1>3. run \in [Run -> State] /\ u \in State /\ u.phase = "check"
    BY <1>1, IdleIsState DEF IInv, TypeOK, State, Idle
  <1>4. run' \in [Run -> State] /\ run'[r] = u
        /\ \A t \in Run : t # r => run'[t] = run[t]
    BY <1>2, <1>3
  <1>5. new \in Report /\ new # None /\ new.articles = s.articles
    BY <1>1, ArchiveAssumption DEF State, Report
  <1>6. /\ d \in Day /\ s.seen \subseteq Article /\ s.articles \subseteq Article
        /\ s.chain \subseteq Day /\ s.known \subseteq Article
    BY <1>1 DEF State
  <1>7. today \in Nat /\ Day \subseteq Nat /\ d <= today
    BY <1>1 DEF IInv, TypeOK, Day, ChainOK
  <1> HIDE DEF new, u
  <1>8. report' \in [Day -> Report \cup {None}] /\ report'[d] = new
        /\ \A x \in Day \ {d} : report'[x] = report[x]
    BY <1>2, <1>5, <1>6 DEF IInv, TypeOK
  <1>9. seen' \in [Day -> SUBSET Article] /\ seen'[d] = s.seen
        /\ \A x \in Day \ {d} : seen'[x] = seen[x]
    BY <1>2, <1>6 DEF IInv, TypeOK
  <1>10. TypeOK'
    <2>1. /\ lost' \subseteq {x \in Day : report'[x] # None}
          /\ checked' \subseteq {x \in Day : report'[x] # None}
      BY <1>2, <1>5, <1>8 DEF IInv, TypeOK
    <2>2. overdue' \subseteq Day
      BY <1>2, <1>6 DEF IInv, TypeOK
    <2> QED BY <1>2, <1>4, <1>8, <1>9, <2>1, <2>2 DEF IInv, TypeOK, State
  <1>11. /\ ArticlesOf(d)' = s.articles
         /\ \A x \in Day \ {d} : ArticlesOf(x)' = ArticlesOf(x)
    BY <1>5, <1>8 DEF ArticlesOf
  <1>12. \A x \in Day \ {d} : x \in Readable' => x \in Readable
    BY <1>2, <1>8 DEF Readable
  <1>13. /\ overdue \subseteq overdue'
         /\ d < today => d \in overdue'
         /\ \A x \in overdue' : x \in overdue \/ x = d
    BY <1>2
  <1>14. \A x \in Day : x > today => ArticlesOf(x) = {} /\ report[x] = None
    BY <1>7 DEF IInv, ReportsOK, ArticlesOf
  <1>15. \A e \in s.chain : e < d
    BY <1>1 DEF ChainOK
  <1>16. \A a \in s.articles : 0 < dated[a] /\ dated[a] <= d
    BY <1>1, <1>6, <1>7, <1>15 DEF TakenOK, Day
  <1>17. ReportsOK'
    BY <1>1, <1>2, <1>5, <1>7, <1>8, <1>9, <1>11, <1>16
       DEF IInv, ReportsOK, TakenOK
  <1>18. dated \in [Article -> Nat]
    BY ArchiveAssumption DEF IInv, TypeOK
  <1>19. CollectedOnce'
    <2> SUFFICES ASSUME NEW e \in Day, e \notin overdue', NEW x \in Day, e < x,
                        NEW a, a \in ArticlesOf(e)', a \in ArticlesOf(x)'
                 PROVE  FALSE
      <3>1. \A e \in Day : \A x \in e + 1 .. LastDay : x \in Day /\ e < x
        BY ArchiveAssumption DEF Day
      <3> QED BY <3>1 DEF CollectedOnce
    <2>1. CASE e # d /\ x # d
      <3>1. x \in e + 1 .. LastDay
        BY ArchiveAssumption DEF Day
      <3> QED BY <1>11, <1>13, <2>1, <3>1 DEF IInv, CollectedOnce
    <2>2. CASE e = d
      <3>1. d = today
        BY <1>6, <1>7, <1>13, <2>2
      <3> QED BY <1>7, <1>11, <1>14, <2>2, <3>1
    <2>3. CASE x = d
      <3>1. a \in ArticlesOf(e) /\ a \in s.articles /\ e \notin overdue
        BY <1>11, <1>13, <2>3, <1>7
      <3>2. dated[a] <= e /\ dated[a] < d /\ dated[a] \in Nat
        BY <1>6, <1>7, <1>18, <2>3, <3>1 DEF IInv, ReportsOK
      <3>3. dated[a] \in s.chain /\ a \notin s.known
        BY <1>1, <1>7, <3>1, <3>2 DEF TakenOK
      <3>4. e \in s.chain
        BY <1>1, <2>3, <3>2, <3>3 DEF ChainOK
      <3> QED BY <1>1, <3>1, <3>3, <3>4 DEF KnownOK
    <2> QED BY <2>1, <2>2, <2>3
  <1>20. NoneOverlooked'
    <2> SUFFICES ASSUME NEW x \in Day, NEW a \in seen'[x],
                        dated[a] \in Day, dated[a] <= x,
                        x - dated[a] <= LateLookback,
                        \A y \in dated[a] .. x : y \in Readable' \ overdue'
                 PROVE  \E e \in dated[a] .. x : a \in ArticlesOf(e)'
      BY <1>2 DEF NoneOverlooked
    <2>1. CASE x # d
      <3>1. a \in seen[x] /\ x <= today
        BY <1>7, <1>9, <2>1 DEF IInv, ReportsOK
      <3>2. d \notin dated[a] .. x
        <4> SUFFICES ASSUME d \in dated[a] .. x PROVE FALSE
          OBVIOUS
        <4>1. d < today
          BY <1>6, <1>7, <2>1, <3>1
        <4> QED BY <1>13, <4>1
      <3>3. \A y \in dated[a] .. x : y \in Day
        BY ArchiveAssumption DEF Day
      <3>4. dated[a] .. x \subseteq Readable \ overdue
        BY <1>12, <1>13, <3>2, <3>3
      <3>5. PICK e \in dated[a] .. x : a \in ArticlesOf(e)
        BY <3>1, <3>4 DEF IInv, NoneOverlooked
      <3> QED BY <1>11, <3>2, <3>3, <3>5
    <2>2. CASE x = d
      <3>1. a \in s.seen
        BY <1>9, <2>2
      <3>2. CASE dated[a] = d
        <4>1. a \in ArticlesOf(d)' /\ d \in dated[a] .. x
          BY <1>1, <1>6, <1>7, <1>11, <2>2, <3>1, <3>2 DEF TakenOK
        <4> QED BY <4>1
      <3>3. CASE dated[a] # d
        <4>1. dated[a] < d
          BY <1>6, <1>7, <2>2, <3>3
        <4>2. ASSUME NEW y \in Day, dated[a] <= y, y < d
              PROVE  y \in Readable /\ y \notin overdue /\ y \in dated[a] .. x
          <5>1. y \in dated[a] .. x /\ y # d
            BY <1>6, <1>7, <2>2, <4>2
          <5> QED BY <1>12, <1>13, <5>1
        <4>3. Unbroken(dated[a], d)
          BY <2>2, <4>1, <4>2 DEF Unbroken
        <4>4. dated[a] \in s.chain
          BY <1>1, <4>3 DEF ChainOK
        <4>5. a \in s.articles \cup s.known
          BY <1>1, <3>1, <4>4 DEF TakenOK
        <4>6. CASE a \in s.articles
          <5>1. d \in dated[a] .. x
            BY <1>6, <1>7, <2>2, <4>1
          <5> QED BY <1>11, <4>6, <5>1
        <4>7. CASE a \in s.known
          <5>1. PICK e \in s.chain :
                    dated[a] <= e /\ (e \in overdue \/ a \in ArticlesOf(e))
            BY <1>1, <4>7 DEF KnownOK
          <5>2. e \in Day /\ e < d
            BY <1>6, <1>15
          <5>3. e \notin overdue /\ e \in dated[a] .. x /\ e # d
            BY <1>7, <4>2, <5>1, <5>2
          <5> QED BY <1>11, <5>1, <5>2, <5>3
        <4> QED BY <4>5, <4>6, <4>7
      <3> QED BY <3>2, <3>3
    <2> QED BY <2>1, <2>2
  <1>21. ASSUME NEW t \in Run PROVE RunOK(t)'
    <2>1. CASE t = r
      BY <1>3, <1>4, <2>1 DEF RunOK
    <2>2. CASE t # r
      <3> SUFFICES ASSUME NEW v \in State, v = run[t], v.phase = "collect"
                   PROVE  ChainOK(v)' /\ KnownOK(v)' /\ TakenOK(v)'
        BY <1>3, <1>4, <2>2 DEF RunOK
      <3>1. ChainOK(v) /\ KnownOK(v) /\ TakenOK(v)
        BY DEF IInv, RunOK
      <3>2. v.day \in Day /\ v.chain \subseteq Day /\ v.day <= today
        BY <3>1 DEF State, ChainOK
      <3>3. d < v.day => d \in overdue'
        BY <1>6, <1>7, <1>13, <3>2
      <3>4. ChainOK(v)'
        <4>1. ASSUME NEW e \in Day, Unbroken(e, v.day)'
              PROVE  Unbroken(e, v.day)
          <5>1. \A x \in Day : e <= x /\ x < v.day => x # d
            BY <3>3, <4>1 DEF Unbroken
          <5> QED BY <1>12, <1>13, <4>1, <5>1 DEF Unbroken
        <4> QED BY <1>2, <3>1, <4>1 DEF ChainOK
      <3>5. d \in v.chain => d \in overdue'
        BY <3>1, <3>3 DEF ChainOK
      <3>6. KnownOK(v)'
        BY <1>2, <1>11, <1>13, <3>1, <3>2, <3>5 DEF KnownOK
      <3>7. TakenOK(v)'
        BY <1>2, <3>1 DEF TakenOK
      <3> QED BY <3>4, <3>6, <3>7
    <2> QED BY <2>1, <2>2
  <1> QED BY <1>10, <1>17, <1>19, <1>20, <1>21 DEF IInv

-----------------------------------------------------------------------------

LEMMA NextInv == IInv /\ [Next]_vars => IInv'
  <1> SUFFICES ASSUME IInv, [Next]_vars PROVE IInv'
    OBVIOUS
  <1>1. CASE \E a \in Article : Publish(a) \/ Drop(a)
    BY <1>1, PublishStep, DropStep
  <1>2. CASE \E d \in Day : Lose(d)
    BY <1>2, LoseStep
  <1>3. CASE NextSlot
    BY <1>3, NextSlotStep
  <1>4. CASE \E r \in Run : Collect(r)
    BY <1>4, BeginStep, ReadFeedStep, FeedFailsStep, WriteStep, FailStep,
       CheckStep DEF Collect
  <1>5. CASE UNCHANGED vars
    <2>1. UNCHANGED <<today, dated, listed, report, lost, seen, overdue, run,
                      runs, losses, mailed, checked>>
      BY <1>5 DEF vars, feeds, archive, health
    <2>2. TypeOK'
      BY <2>1 DEF IInv, TypeOK
    <2> QED BY <2>1, <2>2, ArchiveSteady DEF IInv
  <1> QED BY <1>1, <1>2, <1>3, <1>4, <1>5 DEF Next

LEMMA InvHolds == Spec => []IInv
  BY InitInv, NextInv, PTL DEF Spec

(* Days, runs and bookkeeping keep to their ranges, for any feeds and any  *)
(* number of overlapping runs.                                             *)
THEOREM TypeCorrect == Spec => []TypeOK
  <1>1. IInv => TypeOK
    BY DEF IInv
  <1> QED BY <1>1, InvHolds, PTL

(* No article is in the reports of two days, whatever files are lost,      *)
(* unless a run was overdue on the earlier one.                            *)
THEOREM ArticlesOnce == Spec => []CollectedOnce
  <1>1. IInv => CollectedOnce
    BY DEF IInv
  <1> QED BY <1>1, InvHolds, PTL

(* An entry the feeds carried when a report was collected is in one of the *)
(* reports since its day, if the archive is unbroken since then.           *)
THEOREM NothingOverlooked == Spec => []NoneOverlooked
  <1>1. IInv => NoneOverlooked
    BY DEF IInv
  <1> QED BY <1>1, InvHolds, PTL

-----------------------------------------------------------------------------

(* The bounds are days: sets of them are finite.                           *)
LEMMA DaysAreFinite == \A S \in SUBSET Day : IsFiniteSet(S) /\ Cardinality(S) \in Nat
  <1>1. IsFiniteSet(Day)
    BY ArchiveAssumption, FS_Interval DEF Day
  <1> QED BY <1>1, FS_Subset, FS_CardinalityType

(* The points `_is_notify_point` documents are points.                     *)
LEMMA MailDaysNotify == \A n \in MailDays : IsNotifyPoint(n)
  <1>1. IsNotifyPoint(2)
    BY DEF IsNotifyPoint
  <1>2. IsNotifyPoint(4)
    <2>1. \A q \in 3 .. 4 : q = 3 \/ q = 4
      OBVIOUS
    <2> QED BY <2>1 DEF IsNotifyPoint
  <1>3. IsNotifyPoint(8)
    <2>1. \A q \in 3 .. 8 : q \in {3, 4, 5, 6, 7, 8}
      OBVIOUS
    <2> QED BY <2>1 DEF IsNotifyPoint
  <1>4. IsNotifyPoint(16)
    <2>1. \A q \in 3 .. 16 :
             q \in {3, 4, 5, 6, 7, 8, 9, 10, 11, 12, 13, 14, 15, 16}
      OBVIOUS
    <2> QED BY <2>1 DEF IsNotifyPoint
  <1> QED BY <1>1, <1>2, <1>3, <1>4 DEF MailDays

(* An outage that reaches the newest report and fits the lookback is the   *)
(* streak the check counts.                                                *)
LEMMA OutageIsStreak ==
    ASSUME NEW s \in Source, NEW d \in Readable, \A x \in Readable : x <= d,
           Cardinality(Outage(s, d)) <= HealthLookback
    PROVE  Streak(s) = Outage(s, d)
  <1> DEFINE Newer(x) == {e \in Readable : e > x}
             n == Cardinality(Outage(s, d))
  <1>1. Readable \subseteq Day /\ Day \subseteq Nat /\ Readable \subseteq Nat
    BY DEF Readable, Day
  <1>2. /\ \A x \in Readable : IsFiniteSet(Newer(x)) /\ Cardinality(Newer(x)) \in Nat
        /\ IsFiniteSet(Outage(s, d)) /\ n \in Nat /\ HealthLookback \in Nat
    <2>1. Outage(s, d) \in SUBSET Day /\ \A x \in Readable : Newer(x) \in SUBSET Day
      BY <1>1 DEF Outage
    <2> HIDE DEF Newer
    <2> QED BY <2>1, DaysAreFinite, ArchiveAssumption
  <1>3. ASSUME NEW x \in Outage(s, d) PROVE x \in DaysRead
    <2>1. x \in Readable /\ Newer(x) \subseteq Outage(s, d) \ {x}
      <3>1. x \in Readable /\ x \in Nat
        BY <1>1 DEF Outage
      <3>2. ASSUME NEW e \in Newer(x) PROVE e \in Outage(s, d) /\ e # x
        <4>1. e \in Readable /\ e \in Nat /\ e > x
          BY <1>1
        <4>2. \A y \in Readable : e <= y => x <= y
          BY <1>1, <3>1, <4>1
        <4> QED BY <3>1, <4>1, <4>2 DEF Outage
      <3> QED BY <3>1, <3>2
    <2>2. IsFiniteSet(Outage(s, d) \ {x})
          /\ Cardinality(Outage(s, d) \ {x}) = n - 1
      BY <1>2, <1>3, FS_RemoveElement
    <2>3. Cardinality(Newer(x)) <= n - 1
      BY <2>1, <2>2, FS_Subset
    <2>4. Cardinality(Newer(x)) < HealthLookback
      BY <1>2, <2>1, <2>3
    <2> QED BY <2>1, <2>4 DEF DaysRead
  <1>4. ASSUME NEW x \in DaysRead, NEW e \in Readable, x <= e
        PROVE  e \in DaysRead
    <2>1. x \in Readable /\ Cardinality(Newer(x)) < HealthLookback
      BY DEF DaysRead
    <2>2. Newer(e) \subseteq Newer(x)
      <3>1. x \in Nat /\ e \in Nat
        BY <1>1, <2>1
      <3>2. \A y \in Readable : y > e => y > x
        BY <1>1, <1>4, <3>1
      <3> QED BY <3>2
    <2>3. Cardinality(Newer(e)) <= Cardinality(Newer(x))
      BY <1>2, <2>1, <2>2, FS_Subset
    <2>4. Cardinality(Newer(e)) < HealthLookback
      BY <1>2, <2>1, <2>3
    <2> QED BY <2>4 DEF DaysRead
  <1>5. DaysRead \subseteq Readable
    BY DEF DaysRead
  <1>6. Outage(s, d) \subseteq Streak(s)
    BY <1>1, <1>3, <1>5 DEF Outage, Streak
  <1>7. Streak(s) \subseteq Outage(s, d)
    BY <1>1, <1>4, <1>5 DEF Outage, Streak
  <1> QED BY <1>6, <1>7

(* A step that leaves the archive and its mails alone.                     *)
LEMMA MailsSteady ==
    ASSUME OutageMailed, UNCHANGED <<report, lost, losses, overdue, mailed, checked>>
    PROVE  OutageMailed'
  BY DEF OutageMailed, Outage, Readable

(* A day that is not today is not written again without being overdue, so  *)
(* an outage that was mailed about stays as the check saw it.              *)
MailedInv == IInv /\ OutageMailed

LEMMA MailedCheck ==
    ASSUME MailedInv, NEW r \in Run, Check(r)
    PROVE  OutageMailed'
  <1> DEFINE due == {s \in Source : IsNotifyPoint(Cardinality(Streak(s)))}
             newest == Max(Readable)
  <1>1. /\ UNCHANGED <<report, lost, losses, overdue>>
        /\ \/ mailed' = mailed /\ checked' = checked
           \/ /\ Readable # {}
              /\ mailed' = mailed \cup (due \X {newest})
              /\ checked' = checked \cup {newest}
    BY DEF Check, health, archive
  <1>2. CASE mailed' = mailed /\ checked' = checked
    BY <1>1, <1>2, MailsSteady DEF MailedInv
  <1>3. CASE /\ Readable # {}
             /\ mailed' = mailed \cup (due \X {newest})
             /\ checked' = checked \cup {newest}
    <2> SUFFICES ASSUME losses = 0, overdue = {}, NEW s \in Source,
                        NEW d \in checked \cup {newest},
                        Cardinality(Outage(s, d)) \in MailDays,
                        Cardinality(Outage(s, d)) <= HealthLookback
                 PROVE  <<s, d>> \in mailed'
      BY <1>1, <1>3 DEF OutageMailed, Outage, Readable
    <2>1. CASE d \in checked
      <3>1. <<s, d>> \in mailed
        BY <2>1 DEF MailedInv, OutageMailed
      <3> QED BY <3>1, <1>3
    <2>2. CASE d = newest
      <3>1. Readable \in SUBSET Day
        BY DEF Readable
      <3>2. newest \in Readable /\ \A x \in Readable : x <= newest
        BY <1>3, <3>1, LastDayOf
      <3>3. Streak(s) = Outage(s, newest)
        BY <2>2, <3>2, OutageIsStreak
      <3>4. s \in due
        BY <2>2, <3>3, MailDaysNotify
      <3> QED BY <1>3, <2>2, <3>4
    <2> QED BY <2>1, <2>2
  <1> QED BY <1>1, <1>2, <1>3

LEMMA MailedWrite ==
    ASSUME MailedInv, NEW r \in Run, Write(r)
    PROVE  OutageMailed'
  <1> SUFFICES ASSUME losses' = 0, overdue' = {},
                      NEW s \in Source, NEW x \in checked',
                      Cardinality(Outage(s, x)') \in MailDays,
                      Cardinality(Outage(s, x)') <= HealthLookback
               PROVE  <<s, x>> \in mailed'
    BY DEF OutageMailed
  <1> SUFFICES ASSUME NEW d \in Day, d = run[r].day PROVE <<s, x>> \in mailed'
    BY DEF MailedInv, IInv, TypeOK
  <1>1. /\ \A e \in Day : e # d => report'[e] = report[e]
        /\ lost' = lost \ {d} /\ checked' = checked \ {d} /\ losses' = losses
        /\ overdue' = IF d < today THEN overdue \cup {d} ELSE overdue
        /\ mailed' = mailed
    BY DEF Write, MailedInv, IInv, TypeOK
  <1>2. ChainOK(run[r]) /\ today \in Nat /\ Day \subseteq Nat
    BY DEF Write, MailedInv, IInv, RunOK, TypeOK, Day
  <1>3. overdue = {} /\ d = today
    BY <1>1, <1>2 DEF ChainOK
  <1>4. \A e \in Day : report[e] # None => e <= today
    BY DEF MailedInv, IInv, ReportsOK
  <1>5. x \in checked /\ x \in Day /\ x < d
    BY <1>1, <1>2, <1>3, <1>4 DEF MailedInv, IInv, TypeOK
  <1>6. \A e \in Day : e <= x => e # d
    BY <1>2, <1>5
  <1>7. \A e \in Day : e <= x => /\ e \in Readable' <=> e \in Readable
                                 /\ report'[e] = report[e]
    BY <1>1, <1>6 DEF Readable
  <1>8. Readable \subseteq Day /\ Readable' \subseteq Day
    BY DEF Readable
  <1>9. Outage(s, x)' = Outage(s, x)
    BY <1>2, <1>5, <1>7, <1>8 DEF Outage
  <1> QED BY <1>1, <1>3, <1>5, <1>9 DEF MailedInv, OutageMailed

LEMMA MailedStep == MailedInv /\ [Next]_vars => OutageMailed'
  <1> SUFFICES ASSUME MailedInv, [Next]_vars PROVE OutageMailed'
    OBVIOUS
  <1>1. ASSUME NEW d \in Day, Lose(d) PROVE OutageMailed'
    <2>1. losses' # 0
      BY <1>1 DEF Lose, MailedInv, IInv, TypeOK
    <2> QED BY <2>1 DEF OutageMailed
  <1>2. CASE \/ NextSlot \/ UNCHANGED vars
             \/ \E a \in Article : Publish(a) \/ Drop(a)
             \/ \E r \in Run : \/ Begin(r) \/ Fail(r)
                               \/ \E s \in Source : ReadFeed(r, s) \/ FeedFails(r, s)
    <2>1. UNCHANGED <<report, lost, losses, overdue, mailed, checked>>
      BY <1>2 DEF NextSlot, Publish, Drop, Begin, Fail, ReadFeed, FeedFails,
         archive, health, vars
    <2> QED BY <2>1, MailsSteady DEF MailedInv
  <1>3. ASSUME NEW r \in Run, Write(r) PROVE OutageMailed'
    BY <1>3, MailedWrite
  <1>4. ASSUME NEW r \in Run, Check(r) PROVE OutageMailed'
    BY <1>4, MailedCheck
  <1> QED BY <1>1, <1>2, <1>3, <1>4 DEF Next, Collect

(* Every outage is mailed about on its second report, and on its fourth,   *)
(* eighth and sixteenth as far as the lookback goes, if that report's      *)
(* check could send, whatever runs repeat or overlap and whatever follows. *)
THEOREM OutagesAreMailed == Spec => []OutageMailed
  <1>1. Init => MailedInv
    BY InitInv DEF MailedInv, OutageMailed, Init
  <1>2. MailedInv /\ [Next]_vars => MailedInv'
    BY NextInv, MailedStep DEF MailedInv
  <1>3. MailedInv => OutageMailed
    BY DEF MailedInv
  <1> QED BY <1>1, <1>2, <1>3, PTL DEF Spec
=============================================================================
