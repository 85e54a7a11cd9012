------------------------- MODULE SampleExportProofs -------------------------
(***************************************************************************)
(* Proofs about SampleExport, for any runs, page size, cap and bounds:     *)
(* type correctness, and that the watermark passes no job by.              *)
(***************************************************************************)
EXTENDS SampleExport, WellFoundedInduction, TLAPS

State == [phase : Phase, since : 0 .. LastJob, offset : 0 .. LastJob,
          next : 0 .. LastJob, left : 0 .. PageSize, seen : 0 .. MaxSamples,
          batch : SUBSET Job, failed : SUBSET Job, omitted : SUBSET Job]

Kept == stored \cup unread \cup cut

(* What a run has read is a stretch of the feed without holes: from any    *)
(* job it read down to the one it is at, and no further than the watermark *)
(* it started from.  The pages only ever shift back, so that a page begins *)
(* at or above the end of the one before it.                               *)
Read(r) == run[r].batch \cup run[r].failed

NoHoles(r, low) ==
    \A k \in Read(r) : \A j \in Job :
        run[r].since < j /\ j <= k /\ j > low => j \in Read(r)

WalkOK(r) ==
    /\ run[r].phase # "idle" =>
         /\ run[r].offset <= finished
         /\ \A j \in Job : j <= run[r].since => j \in Kept
    /\ run[r].phase \in {"page", "item"} => run[r].seen < MaxSamples
    /\ run[r].phase = "page" => NoHoles(r, finished - run[r].offset)
    /\ run[r].phase = "item" =>
         /\ 1 <= run[r].left /\ run[r].left <= run[r].next
         /\ run[r].next - run[r].left <= finished - run[r].offset
         /\ NoHoles(r, run[r].next)
    /\ run[r].phase = "push" =>
         \A k \in Read(r) : \A j \in Job :
             run[r].since < j /\ j <= k => j \in Read(r) \cup run[r].omitted

IInv == TypeOK /\ WatermarkCovers /\ \A r \in Run : WalkOK(r)

-----------------------------------------------------------------------------

LEMMA SmallerOfTwo ==
    ASSUME NEW m \in Nat, NEW n \in Nat
    PROVE  /\ Min({m, n}) \in Nat /\ Min({m, n}) <= m /\ Min({m, n}) <= n
           /\ m # 0 /\ n # 0 => Min({m, n}) # 0
  <1>1. \E x \in {m, n} : \A y \in {m, n} : x <= y
    OBVIOUS
  <1>2. Min({m, n}) \in {m, n} /\ \A y \in {m, n} : Min({m, n}) <= y
    BY <1>1 DEF Min
  <1> QED BY <1>2

(* A nonempty set of jobs and watermarks has a greatest element. *)
LEMMA Greatest ==
    ASSUME NEW S \in SUBSET (0 .. LastJob), S # {}
    PROVE  Max(S) \in S /\ \A j \in S : j <= Max(S)
  <1> DEFINE Gap == {n \in Nat : LastJob - n \in S}
             R == OpToRel(<, Nat)
  <1>1. Gap \subseteq Nat /\ Gap # {}
    <2>1. PICK j \in S : TRUE
      OBVIOUS
    <2>2. j \in Int /\ LastJob \in Int /\ j <= LastJob
      BY <2>1, SampleExportAssumption
    <2>3. LastJob - j \in Nat /\ LastJob - (LastJob - j) = j
      BY <2>2
    <2> QED BY <2>1, <2>3
  <1>2. PICK x \in Gap : \A y \in Gap : ~ (<<y, x>> \in R)
    <2>1. IsWellFoundedOn(R, Nat)
      BY NatLessThanWellFounded
    <2> HIDE DEF Gap, R
    <2> QED BY <1>1, <2>1, WFMin
  <1>3. \A y \in Gap : x <= y
    <2>1. ASSUME NEW y \in Gap, y < x PROVE FALSE
      <3>1. <<y, x>> \in Nat \X Nat
        OBVIOUS
      <3>2. <<y, x>> \in R
        BY <2>1, <3>1 DEF OpToRel
      <3> QED BY <1>2, <3>2
    <2>2. \A y \in Gap : y \in Nat /\ x \in Nat
      OBVIOUS
    <2> HIDE DEF Gap, R
    <2> QED BY <2>1, <2>2
  <1>4. LastJob - x \in S
    OBVIOUS
  <1>5. ASSUME NEW j \in S PROVE LastJob - x >= j
    <2>1. j \in Int /\ LastJob \in Int /\ j <= LastJob
      BY SampleExportAssumption
    <2>2. LastJob - j \in Gap
      BY <2>1
    <2>3. x <= LastJob - j /\ x \in Int
      BY <1>3, <2>2
    <2> QED BY <2>1, <2>3
  <1>6. \E m \in S : \A j \in S : m >= j
    BY <1>4, <1>5
  <1>7. Max(S) \in S /\ \A j \in S : Max(S) >= j
    BY <1>6 DEF Max
  <1>8. \A j \in S : j \in Int
    OBVIOUS
  <1> QED BY <1>7, <1>8

LEMMA FreshIsState ==
    ASSUME NEW p \in Phase, NEW since \in 0 .. LastJob
    PROVE  /\ Fresh(p, since) \in State
           /\ Fresh(p, since).phase = p /\ Fresh(p, since).since = since
           /\ Fresh(p, since).offset = 0 /\ Fresh(p, since).seen = 0
           /\ Fresh(p, since).batch = {} /\ Fresh(p, since).failed = {}
  <1>1. 0 \in 0 .. LastJob /\ 0 \in 0 .. PageSize /\ 0 \in 0 .. MaxSamples
    BY SampleExportAssumption
  <1> QED BY <1>1 DEF Fresh, State

LEMMA InitInv == Init => IInv
  <1> SUFFICES ASSUME Init PROVE IInv
    OBVIOUS
  <1>1. "idle" \in Phase /\ 0 \in 0 .. LastJob /\ 0 \in 0 .. MaxFaults
    BY SampleExportAssumption DEF Phase
  <1>2. \A r \in Run : run[r] \in State /\ run[r].phase = "idle"
    BY <1>1, FreshIsState DEF Init
  <1>3. run \in [Run -> State]
    BY <1>2 DEF Init
  <1>4. TypeOK
    BY <1>1, <1>3 DEF Init, TypeOK, State
  <1>5. WatermarkCovers
    BY DEF Init, WatermarkCovers, Job
  <1> QED BY <1>2, <1>4, <1>5 DEF IInv, WalkOK

(* A run that ends, or a new one that starts, has nothing to show.         *)
LEMMA RestFollows ==
    ASSUME IInv, NEW r \in Run, NEW s \in State,
           run' = [run EXCEPT ![r] = s],
           Kept \subseteq Kept', finished' = finished,
           stored' \subseteq Job, unread' \subseteq Job, cut' \subseteq Job,
           highWater' \in 0 .. LastJob, faults' \in 0 .. MaxFaults,
           WatermarkCovers', WalkOK(r)'
    PROVE  IInv'
  <1>1. run \in [Run -> State]
    BY DEF IInv, TypeOK, State
  <1>2. run' \in [Run -> State]
    BY <1>1
  <1>3. TypeOK'
    BY <1>2 DEF IInv, TypeOK, State
  <1>4. ASSUME NEW t \in Run, t # r PROVE WalkOK(t)'
    <2>1. run'[t] = run[t]
      BY <1>1, <1>4
    <2>2. WalkOK(t)
      BY DEF IInv
    <2> QED BY <2>1, <2>2 DEF WalkOK, NoHoles, Read
  <1> QED BY <1>3, <1>4 DEF IInv

LEMMA FinishStep ==
    ASSUME IInv, Finish
    PROVE  IInv'
  <1>1. /\ finished' = finished + 1 /\ finished' \in 0 .. LastJob
        /\ UNCHANGED <<stored, highWater, unread, cut, run, faults>>
    BY SampleExportAssumption DEF Finish, d1, IInv, TypeOK
  <1>2. TypeOK' /\ WatermarkCovers'
    BY <1>1 DEF IInv, TypeOK, WatermarkCovers
  <1>3. ASSUME NEW r \in Run PROVE WalkOK(r)'
    <2>1. run \in [Run -> State] /\ finished \in Int
      BY DEF IInv, TypeOK, State
    <2>2. /\ run[r].offset \in Int /\ run[r].next \in Int
          /\ run[r].left \in Int
      BY <2>1, SampleExportAssumption DEF State
    <2>3. WalkOK(r)
      BY DEF IInv
    <2>4. Kept' = Kept /\ Read(r)' = Read(r) /\ run'[r] = run[r]
      BY <1>1 DEF Kept, Read
    <2>6. NoHoles(r, finished - run[r].offset)
            => NoHoles(r, (finished + 1) - run[r].offset)
      BY <2>1, <2>2 DEF NoHoles, Job
    <2>7. run'[r].phase = "page" => NoHoles(r, finished - run[r].offset)'
      <3>1. run[r].phase = "page"
              => NoHoles(r, (finished + 1) - run[r].offset)
        BY <2>3, <2>6 DEF WalkOK
      <3>2. finished' - run'[r].offset = (finished + 1) - run[r].offset
        <4>1. finished' = finished + 1
          BY <1>1
        <4>2. run'[r].offset = run[r].offset
          BY <2>4
        <4> QED BY <4>1, <4>2
      <3>3. NoHoles(r, (finished + 1) - run[r].offset)
              => NoHoles(r, finished - run[r].offset)'
        <4> DEFINE low == (finished + 1) - run[r].offset
        <4>1. finished' - run'[r].offset = low
          BY <3>2
        <4> HIDE DEF low
        <4>2. NoHoles(r, low) => NoHoles(r, finished - run[r].offset)'
          BY <2>4, <4>1 DEF NoHoles
        <4> QED BY <4>2 DEF low
      <3> QED BY <2>4, <3>1, <3>3
    <2>8. run'[r].phase = "item" => NoHoles(r, run[r].next)'
      BY <2>3, <2>4 DEF WalkOK, NoHoles
    <2>9. /\ run[r].offset <= finished => run[r].offset <= finished'
          /\ run[r].next - run[r].left <= finished - run[r].offset
               => run[r].next - run[r].left <= finished' - run[r].offset
      BY <1>1, <2>1, <2>2
    <2> QED BY <2>3, <2>4, <2>7, <2>8, <2>9 DEF WalkOK
  <1> QED BY <1>2, <1>3 DEF IInv

LEMMA BeginStep ==
    ASSUME IInv, NEW r \in Run, Begin(r)
    PROVE  IInv'
  <1> DEFINE s == Fresh("page", highWater)
  <1>1. highWater \in 0 .. LastJob /\ "page" \in Phase /\ finished \in Nat
    BY SampleExportAssumption DEF IInv, TypeOK, Phase
  <1>2. /\ s \in State /\ s.phase = "page" /\ s.since = highWater
        /\ s.offset = 0 /\ s.seen = 0 /\ s.batch = {} /\ s.failed = {}
    BY <1>1, FreshIsState
  <1>3. /\ run' = [run EXCEPT ![r] = s] /\ run[r] = run[r]
        /\ UNCHANGED <<finished, stored, highWater, unread, cut, faults>>
    BY DEF Begin, d1
  <1>4. run'[r] = s /\ Read(r)' = {}
    BY <1>2, <1>3 DEF IInv, TypeOK, Read
  <1>5. WalkOK(r)'
    <2>1. \A j \in Job : j <= highWater => j \in Kept
      BY DEF IInv, WatermarkCovers, Kept
    <2>2. Kept' = Kept
      BY <1>3 DEF Kept
    <2>3. 0 <= finished' /\ 0 < MaxSamples
      BY <1>1, <1>3, SampleExportAssumption
    <2> HIDE DEF s
    <2> QED BY <1>2, <1>3, <1>4, <2>1, <2>2, <2>3 DEF WalkOK, NoHoles
  <1>6. WatermarkCovers' /\ Kept' = Kept
    BY <1>3 DEF IInv, WatermarkCovers, Kept
  <1> HIDE DEF s
  <1> QED BY <1>2, <1>3, <1>5, <1>6, RestFollows DEF IInv, TypeOK

(* A run that ends takes nothing with it. *)
LEMMA EndStep ==
    ASSUME IInv, NEW r \in Run, Ends(r),
           Kept \subseteq Kept', finished' = finished,
           stored' \subseteq Job, unread' \subseteq Job, cut' \subseteq Job,
           highWater' \in 0 .. LastJob, faults' \in 0 .. MaxFaults,
           WatermarkCovers'
    PROVE  IInv'
  <1> DEFINE s == Fresh("idle", 0)
  <1>1. "idle" \in Phase /\ 0 \in 0 .. LastJob
    BY SampleExportAssumption DEF Phase
  <1>2. s \in State /\ s.phase = "idle"
    BY <1>1, FreshIsState
  <1>3. run' = [run EXCEPT ![r] = s]
    BY DEF Ends
  <1>4. run'[r] = s
    BY <1>3 DEF IInv, TypeOK
  <1>5. WalkOK(r)'
    BY <1>2, <1>4 DEF WalkOK
  <1> HIDE DEF s
  <1> QED BY <1>2, <1>3, <1>5, RestFollows

LEMMA ReadPageStep ==
    ASSUME IInv, NEW r \in Run, ReadPage(r)
    PROVE  IInv'
  <1> DEFINE n == finished - run[r].offset
             items == Min({PageSize, n})
             s == run'[r]
  <1>1. /\ run \in [Run -> State] /\ finished \in 0 .. LastJob
        /\ LastJob \in Nat /\ PageSize \in Nat \ {0}
        /\ Phase = {"idle", "page", "item", "push"}
    BY SampleExportAssumption DEF IInv, TypeOK, State, Phase
  <1>2. /\ run[r] \in State /\ run[r].phase = "page"
        /\ UNCHANGED <<finished, stored, highWater, unread, cut, faults>>
    BY <1>1 DEF ReadPage, d1
  <1>3. WalkOK(r)
    BY DEF IInv
  <1>4. run[r].offset <= finished /\ run[r].offset \in 0 .. LastJob
    BY <1>2, <1>3 DEF WalkOK, State
  <1>5. n \in 0 .. LastJob /\ n \in Nat
    BY <1>1, <1>4
  <1>6. /\ items \in Nat /\ items <= PageSize /\ items <= n
        /\ n # 0 => items # 0
    <2> HIDE DEF n
    <2> QED BY <1>1, <1>5, SmallerOfTwo
  <1>7. run[r].offset + items \in 0 .. LastJob
    <2>1. run[r].offset + items <= finished
      <3> HIDE DEF items
      <3> QED BY <1>1, <1>4, <1>6
    <2> HIDE DEF items, n
    <2> QED BY <1>1, <1>4, <1>6, <2>1
  <1>8. CASE n = 0
    <2>1. run' = [run EXCEPT ![r].phase = "push"]
      BY <1>8 DEF ReadPage
    <2>2. s = [run[r] EXCEPT !.phase = "push"]
      BY <1>1, <2>1
    <2>3. s \in State /\ run' = [run EXCEPT ![r] = s]
      BY <1>1, <1>2, <2>1, <2>2 DEF State
    <2>4. /\ s.phase = "push" /\ s.since = run[r].since
          /\ s.offset = run[r].offset /\ s.omitted = run[r].omitted
          /\ Read(r)' = Read(r) /\ Kept' = Kept
      BY <1>2, <2>2 DEF State, Read, Kept
    <2>5. \A k \in Read(r) : \A j \in Job :
              run[r].since < j /\ j <= k => j \in Read(r)
      <3>1. NoHoles(r, n)
        BY <1>2, <1>3 DEF WalkOK
      <3>2. NoHoles(r, 0)
        <4> HIDE DEF n
        <4> QED BY <1>8, <3>1
      <3> QED BY <3>2 DEF NoHoles, Job
    <2>6. WalkOK(r)'
      <3>1. s.offset <= finished' /\ \A j \in Job : j <= s.since => j \in Kept'
        BY <1>2, <1>3, <2>4 DEF WalkOK
      <3>2. \A k \in Read(r)' : \A j \in Job :
                s.since < j /\ j <= k => j \in Read(r)'
        BY <2>4, <2>5
      <3> HIDE DEF s
      <3>3. run'[r] = s
        BY DEF s
      <3> QED BY <2>4, <3>1, <3>2, <3>3 DEF WalkOK
    <2>7. WatermarkCovers'
      BY <1>2 DEF IInv, WatermarkCovers
    <2> HIDE DEF s
    <2> QED BY <1>2, <2>3, <2>4, <2>6, <2>7, RestFollows DEF IInv, TypeOK
  <1>9. CASE n # 0
    <2>1. run' = [run EXCEPT ![r].phase = "item", ![r].next = n,
                             ![r].left = items, ![r].offset = @ + items]
      BY <1>9 DEF ReadPage
    <2>2. s = [run[r] EXCEPT !.phase = "item", !.next = n, !.left = items,
                             !.offset = @ + items]
      <3> HIDE DEF n, items
      <3> QED BY <1>1, <2>1
    <2>3. s \in State
      <3>1. items \in 0 .. PageSize
        <4> HIDE DEF items
        <4> QED BY <1>1, <1>6
      <3> HIDE DEF n, items, s
      <3> QED BY <1>1, <1>2, <1>5, <1>7, <2>2, <3>1 DEF State
    <2>4. run' = [run EXCEPT ![r] = s]
      <3> HIDE DEF n, items
      <3> QED BY <1>1, <2>1
    <2>5. /\ s.phase = "item" /\ s.since = run[r].since
          /\ s.offset = run[r].offset + items /\ s.next = n
          /\ s.left = items /\ s.seen = run[r].seen
          /\ s.batch = run[r].batch /\ s.failed = run[r].failed
      <3> HIDE DEF n, items, s
      <3> QED BY <1>2, <2>2 DEF State
    <2>6. Read(r)' = Read(r) /\ Kept' = Kept
      BY <1>2, <2>5 DEF Read, Kept
    <2>7. NoHoles(r, n)
      BY <1>2, <1>3 DEF WalkOK
    <2>8. WalkOK(r)'
      <3>1. s.offset <= finished'
        <4> HIDE DEF items, s
        <4> QED BY <1>1, <1>2, <1>4, <1>6, <2>5
      <3>2. s.next - s.left <= finished' - s.offset
        <4>1. n - items = finished - (run[r].offset + items)
          <5> HIDE DEF items
          <5> QED BY <1>1, <1>4, <1>6
        <4>2. finished' = finished
          BY <1>2
        <4>3. n - items \in Int
          <5> HIDE DEF items, n
          <5> QED BY <1>5, <1>6
        <4> HIDE DEF items, n, s
        <4> QED BY <2>5, <4>1, <4>2, <4>3
      <3>3. 1 <= s.left /\ s.left <= s.next
        <4> HIDE DEF items, n, s
        <4> QED BY <1>5, <1>6, <1>9, <2>5
      <3>4. \A j \in Job : j <= s.since => j \in Kept'
        <4> HIDE DEF s
        <4> QED BY <1>2, <1>3, <2>5, <2>6 DEF WalkOK
      <3>5. \A k \in Read(r)' : \A j \in Job :
                s.since < j /\ j <= k /\ j > s.next => j \in Read(r)'
        <4> HIDE DEF n, items, s
        <4> QED BY <2>5, <2>6, <2>7 DEF NoHoles
      <3>6. s.seen < MaxSamples
        <4> HIDE DEF s
        <4> QED BY <1>2, <1>3, <2>5 DEF WalkOK
      <3>7. run'[r] = s
        OBVIOUS
      <3> HIDE DEF n, items, s
      <3> QED BY <2>5, <3>1, <3>2, <3>3, <3>4, <3>5, <3>6, <3>7
              DEF WalkOK, NoHoles
    <2>9. WatermarkCovers'
      BY <1>2 DEF IInv, WatermarkCovers
    <2> HIDE DEF n, items, s
    <2> QED BY <1>2, <2>3, <2>4, <2>6, <2>8, <2>9, RestFollows
            DEF IInv, TypeOK
  <1> QED BY <1>8, <1>9

LEMMA StopAtStep ==
    ASSUME IInv, NEW r \in Run, StopAt(r)
    PROVE  IInv'
  <1> DEFINE s == run'[r]
  <1>1. run \in [Run -> State] /\ run[r] \in State
    BY DEF IInv, TypeOK, State
  <1>2. /\ run[r].phase = "item" /\ run[r].next <= run[r].since
        /\ run' = [run EXCEPT ![r].phase = "push"]
        /\ UNCHANGED <<finished, stored, highWater, unread, cut, faults>>
    BY DEF StopAt, Reached, d1
  <1>3. s = [run[r] EXCEPT !.phase = "push"]
    BY <1>1, <1>2
  <1>4. s \in State /\ run' = [run EXCEPT ![r] = s]
    BY <1>1, <1>2, <1>3 DEF State, Phase
  <1>5. /\ s.phase = "push" /\ s.since = run[r].since
        /\ s.offset = run[r].offset
        /\ Read(r)' = Read(r) /\ Kept' = Kept
    BY <1>1, <1>2, <1>3 DEF State, Read, Kept
  <1>6. WalkOK(r)
    BY DEF IInv
  <1>7. \A k \in Read(r) : \A j \in Job :
            run[r].since < j /\ j <= k => j \in Read(r)
    <2>1. NoHoles(r, run[r].next)
      BY <1>2, <1>6 DEF WalkOK
    <2>2. \A j \in Job : run[r].since < j => j > run[r].next
      BY <1>1, <1>2, SampleExportAssumption DEF State, Job
    <2> QED BY <2>1, <2>2 DEF NoHoles
  <1>8. WalkOK(r)'
    <2>1. s.offset <= finished' /\ \A j \in Job : j <= s.since => j \in Kept'
      BY <1>2, <1>5, <1>6 DEF WalkOK
    <2>2. \A k \in Read(r)' : \A j \in Job :
              s.since < j /\ j <= k => j \in Read(r)'
      BY <1>5, <1>7
    <2>3. run'[r] = s
      OBVIOUS
    <2> HIDE DEF s
    <2> QED BY <1>5, <2>1, <2>2, <2>3 DEF WalkOK
  <1>9. WatermarkCovers'
    BY <1>2 DEF IInv, WatermarkCovers
  <1> HIDE DEF s
  <1> QED BY <1>2, <1>4, <1>5, <1>8, <1>9, RestFollows DEF IInv, TypeOK

(* An item read and an item passed over take the walk one job further.     *)
LEMMA CountStep ==
    ASSUME IInv, NEW r \in Run, run[r].phase = "item", ~Reached(r),
           NEW now \in State, Count(r, now),
           now.since = run[r].since, now.offset = run[r].offset,
           now.next = run[r].next, now.left = run[r].left,
           now.seen = run[r].seen,
           now.batch \cup now.failed = Read(r) \cup {run[r].next},
           UNCHANGED <<finished, stored, highWater, unread, cut>>,
           faults' \in 0 .. MaxFaults
    PROVE  IInv'
  <1> DEFINE s == run'[r]
             enough == now.seen + 1 >= MaxSamples
             next == now.next - 1
             phase == IF enough THEN "push"
                      ELSE IF now.left = 1 THEN "page" ELSE "item"
             omitted == IF enough THEN now.since + 1 .. next ELSE {}
             t == [now EXCEPT !.seen = @ + 1, !.next = next, !.left = @ - 1,
                              !.omitted = omitted, !.phase = phase]
  <1>1. /\ run \in [Run -> State] /\ finished \in Int /\ LastJob \in Nat
        /\ PageSize \in Nat /\ MaxSamples \in Nat
    BY SampleExportAssumption DEF IInv, TypeOK, State
  <1>2. run' = [run EXCEPT ![r] = t]
    BY DEF Count
  <1>3. s = t
    <2> HIDE DEF t
    <2> QED BY <1>1, <1>2
  <1>4. /\ now.since \in 0 .. LastJob /\ now.offset \in 0 .. LastJob
        /\ now.next \in 0 .. LastJob /\ now.left \in 0 .. PageSize
        /\ now.seen \in 0 .. MaxSamples
    BY DEF State
  <1>5. /\ run[r].offset <= finished
        /\ \A j \in Job : j <= run[r].since => j \in Kept
        /\ now.seen < MaxSamples
        /\ 1 <= now.left /\ now.left <= now.next
        /\ now.next - now.left <= finished - now.offset
        /\ NoHoles(r, now.next)
    BY DEF IInv, WalkOK
  <1>6. /\ s.phase = phase /\ s.since = now.since /\ s.offset = now.offset
        /\ s.next = next /\ s.left = now.left - 1 /\ s.seen = now.seen + 1
        /\ s.batch = now.batch /\ s.failed = now.failed
        /\ s.omitted = omitted
    <2> HIDE DEF phase, omitted, next
    <2> QED BY <1>3 DEF State
  <1>7. s \in State
    <2>1. /\ now.seen + 1 \in 0 .. MaxSamples /\ next \in 0 .. LastJob
          /\ now.left - 1 \in 0 .. PageSize
      BY <1>1, <1>4, <1>5
    <2>2. phase \in Phase
      BY DEF Phase
    <2>3. omitted \in SUBSET Job
      BY <1>1, <1>4, <1>5 DEF Job
    <2> HIDE DEF phase, omitted, next
    <2> QED BY <1>3, <2>1, <2>2, <2>3 DEF State
  <1>8. /\ Read(r)' = Read(r) \cup {now.next} /\ Kept' = Kept
        /\ run' = [run EXCEPT ![r] = s]
    <2> HIDE DEF t
    <2>1. Kept' = Kept /\ run' = [run EXCEPT ![r] = s]
      BY <1>2, <1>3 DEF Kept
    <2> HIDE DEF s
    <2>2. run'[r] = s
      BY DEF s
    <2>3. Read(r)' = s.batch \cup s.failed
      BY <2>2 DEF Read
    <2> QED BY <1>6, <2>1, <2>3
  <1>9. \A k \in Read(r)' : \A j \in Job :
            now.since < j /\ j <= k /\ j > next => j \in Read(r)'
    <2> SUFFICES ASSUME NEW k \in Read(r)', NEW j \in Job,
                        now.since < j, j <= k, j > next
                 PROVE  j \in Read(r) \cup {now.next}
      BY <1>8
    <2>1. j \in Int /\ now.next \in Int /\ next = now.next - 1
      BY <1>4 DEF Job
    <2>2. CASE j = now.next
      BY <2>2
    <2>3. CASE j # now.next
      <3>1. j > now.next
        <4> HIDE DEF next
        <4> QED BY <2>1, <2>3
      <3>2. k # now.next
        BY <2>1, <3>1
      <3>3. k \in Read(r)
        BY <1>8, <3>2
      <3> QED BY <1>5, <3>1, <3>3 DEF NoHoles
    <2> QED BY <2>2, <2>3
  <1>10. WalkOK(r)'
    <2>1. /\ s.offset <= finished'
          /\ \A j \in Job : j <= s.since => j \in Kept'
      <3> HIDE DEF s
      <3> QED BY <1>5, <1>6, <1>8
    <2>2. s.phase \in {"page", "item"} => s.seen < MaxSamples
      <3>1. ~enough => now.seen + 1 < MaxSamples
        BY <1>1, <1>4
      <3>2. phase \in {"page", "item"} => ~enough
        OBVIOUS
      <3> HIDE DEF s, enough, phase
      <3> QED BY <1>6, <3>1, <3>2
    <2>3. s.phase = "page" =>
            \A k \in Read(r)' : \A j \in Job :
              s.since < j /\ j <= k /\ j > finished' - s.offset
                => j \in Read(r)'
      <3> SUFFICES ASSUME s.phase = "page", NEW j \in Job,
                          j > finished - now.offset
                   PROVE  j > next
        <4> HIDE DEF s, next
        <4> QED BY <1>6, <1>9
      <3>1. now.left = 1
        BY <1>6
      <3>2. now.next - 1 <= finished - now.offset
        BY <1>5, <3>1
      <3>3. j \in Int /\ now.next - 1 \in Int /\ finished - now.offset \in Int
        BY <1>1, <1>4 DEF Job
      <3> QED BY <3>2, <3>3
    <2>4. s.phase = "item" =>
            /\ 1 <= s.left /\ s.left <= s.next
            /\ s.next - s.left <= finished' - s.offset
            /\ \A k \in Read(r)' : \A j \in Job :
                 s.since < j /\ j <= k /\ j > s.next => j \in Read(r)'
      <3> SUFFICES ASSUME s.phase = "item"
                   PROVE  /\ 1 <= now.left - 1 /\ now.left - 1 <= next
                          /\ next - (now.left - 1) <= finished - now.offset
        <4> HIDE DEF s, next
        <4> QED BY <1>6, <1>9
      <3>1. now.left # 1
        BY <1>6
      <3>2. now.next \in Int /\ now.left \in Int /\ next = now.next - 1
        BY <1>4
      <3>3. next - (now.left - 1) = now.next - now.left
        BY <3>2
      <3> QED BY <1>5, <3>1, <3>2, <3>3
    <2>5. s.phase = "push" =>
            \A k \in Read(r)' : \A j \in Job :
              s.since < j /\ j <= k => j \in Read(r)' \cup s.omitted
      <3> SUFFICES ASSUME s.phase = "push", NEW k \in Read(r)', NEW j \in Job,
                          now.since < j, j <= k, ~(j > next)
                   PROVE  j \in omitted
        <4> HIDE DEF s, next, omitted
        <4> QED BY <1>6, <1>9
      <3>1. omitted = now.since + 1 .. next
        BY <1>6
      <3>2. j \in Int /\ now.since \in Int /\ next \in Int
        BY <1>4 DEF Job
      <3> HIDE DEF next
      <3> QED BY <3>1, <3>2
    <2>6. s.phase # "idle" /\ run'[r] = s
      <3>1. phase # "idle"
        OBVIOUS
      <3> HIDE DEF phase
      <3> QED BY <1>6, <3>1
    <2> HIDE DEF s
    <2> QED BY <2>1, <2>2, <2>3, <2>4, <2>5, <2>6 DEF WalkOK, NoHoles
  <1>11. WatermarkCovers'
    BY DEF IInv, WatermarkCovers
  <1>12. /\ stored' \subseteq Job /\ unread' \subseteq Job
         /\ cut' \subseteq Job /\ highWater' \in 0 .. LastJob
    BY DEF IInv, TypeOK
  <1> HIDE DEF s
  <1> QED BY <1>7, <1>8, <1>10, <1>11, <1>12, RestFollows

LEMMA ItemStep ==
    ASSUME IInv, NEW r \in Run, ReadItem(r) \/ SkipItem(r)
    PROVE  IInv'
  <1>1. /\ run[r] \in State /\ faults \in 0 .. MaxFaults
        /\ run[r].phase = "item" /\ ~Reached(r)
    BY DEF IInv, TypeOK, State, ReadItem, SkipItem
  <1>2. run[r].next \in Job
    <2>1. /\ run[r].next \in 0 .. LastJob /\ run[r].since \in 0 .. LastJob
          /\ run[r].next > run[r].since
      BY <1>1, SampleExportAssumption DEF State, Reached
    <2> QED BY <2>1, SampleExportAssumption DEF Job
  <1>3. CASE ReadItem(r)
    <2> DEFINE now == [run[r] EXCEPT !.batch = @ \cup {run[r].next}]
    <2>1. now \in State /\ Count(r, now)
      BY <1>1, <1>2, <1>3 DEF ReadItem, State
    <2>2. UNCHANGED <<finished, stored, highWater, unread, cut, faults>>
      BY <1>3 DEF ReadItem, d1
    <2>3. /\ now.since = run[r].since /\ now.offset = run[r].offset
          /\ now.next = run[r].next /\ now.left = run[r].left
          /\ now.seen = run[r].seen
          /\ now.batch \cup now.failed = Read(r) \cup {run[r].next}
      BY <1>1 DEF State, Read
    <2> HIDE DEF now
    <2> QED BY <1>1, <2>1, <2>2, <2>3, CountStep
  <1>4. CASE SkipItem(r)
    <2> DEFINE now == [run[r] EXCEPT !.failed = @ \cup {run[r].next}]
    <2>1. now \in State /\ Count(r, now)
      BY <1>1, <1>2, <1>4 DEF SkipItem, State
    <2>2. /\ UNCHANGED <<finished, stored, highWater, unread, cut>>
          /\ faults' \in 0 .. MaxFaults
      BY <1>1, <1>4, SampleExportAssumption DEF SkipItem, d1
    <2>3. /\ now.since = run[r].since /\ now.offset = run[r].offset
          /\ now.next = run[r].next /\ now.left = run[r].left
          /\ now.seen = run[r].seen
          /\ now.batch \cup now.failed = Read(r) \cup {run[r].next}
      BY <1>1 DEF State, Read
    <2> HIDE DEF now
    <2> QED BY <1>1, <2>1, <2>2, <2>3, CountStep
  <1> QED BY <1>3, <1>4

(* The new watermark is the newest job read or the old one, and the walk   *)
(* left no hole between them.                                              *)
LEMMA PushStep ==
    ASSUME IInv, NEW r \in Run, Push(r)
    PROVE  IInv'
  <1> DEFINE S == run[r].batch \cup {run[r].since}
  <1>1. /\ run[r] \in State /\ stored \subseteq Job /\ unread \subseteq Job
        /\ cut \subseteq Job /\ faults \in 0 .. MaxFaults
    BY DEF IInv, TypeOK, State
  <1>2. /\ run[r].phase = "push"
        /\ stored' = stored \cup run[r].batch
        /\ highWater' = Max(S)
        /\ unread' = unread \cup run[r].failed
        /\ cut' = cut \cup run[r].omitted
        /\ Ends(r) /\ finished' = finished /\ faults' = faults
    BY DEF Push, HighWaterOf
  <1>3. S \in SUBSET (0 .. LastJob) /\ S # {}
    BY <1>1 DEF State, Job
  <1>4. highWater' \in S
    <2> HIDE DEF S
    <2> QED BY <1>2, <1>3, Greatest
  <1>5. /\ stored' \subseteq Job /\ unread' \subseteq Job /\ cut' \subseteq Job
        /\ highWater' \in 0 .. LastJob
    BY <1>1, <1>2, <1>3, <1>4 DEF State
  <1>6. Kept' = Kept \cup Read(r) \cup run[r].omitted
    BY <1>2 DEF Kept, Read
  <1>7. /\ \A j \in Job : j <= run[r].since => j \in Kept
        /\ \A k \in Read(r) : \A j \in Job :
             run[r].since < j /\ j <= k => j \in Read(r) \cup run[r].omitted
    BY <1>2 DEF IInv, WalkOK
  <1>8. WatermarkCovers'
    <2> SUFFICES ASSUME NEW j \in Job, j <= highWater'
                 PROVE  j \in Kept'
      BY DEF WatermarkCovers, Kept
    <2>1. CASE j <= run[r].since
      BY <1>6, <1>7, <2>1
    <2>2. CASE ~(j <= run[r].since)
      <3>1. highWater' \in Read(r)
        BY <1>4, <2>2 DEF Read
      <3>2. run[r].since < j
        BY <1>1, <2>2, SampleExportAssumption DEF State, Job
      <3> QED BY <1>6, <1>7, <3>1, <3>2
    <2> QED BY <2>1, <2>2
  <1>9. Kept \subseteq Kept' /\ faults' \in 0 .. MaxFaults
    BY <1>1, <1>2, <1>6
  <1> QED BY <1>2, <1>5, <1>8, <1>9, EndStep

LEMMA QuitStep ==
    ASSUME IInv, NEW r \in Run, NothingNew(r) \/ Abandon(r)
    PROVE  IInv'
  <1>1. /\ Ends(r) /\ faults' \in 0 .. MaxFaults
        /\ UNCHANGED <<finished, stored, highWater, unread, cut>>
    BY SampleExportAssumption DEF NothingNew, Abandon, d1, IInv, TypeOK
  <1>2. WatermarkCovers' /\ Kept' = Kept
    BY <1>1 DEF IInv, WatermarkCovers, Kept
  <1> QED BY <1>1, <1>2, EndStep DEF IInv, TypeOK

LEMMA NextInv == IInv /\ [Next]_vars => IInv'
  <1> SUFFICES ASSUME IInv, [Next]_vars PROVE IInv'
    OBVIOUS
  <1>1. CASE Finish
    BY <1>1, FinishStep
  <1>2. ASSUME NEW r \in Run, Advance(r) \/ SkipItem(r) \/ Abandon(r)
        PROVE  IInv'
    BY <1>2, BeginStep, ReadPageStep, StopAtStep, ItemStep, PushStep,
       QuitStep DEF Advance
  <1>3. CASE UNCHANGED vars
    BY <1>3 DEF vars, d1, IInv, TypeOK, WatermarkCovers, WalkOK, NoHoles,
                Read, Kept
  <1> QED BY <1>1, <1>2, <1>3 DEF Next

LEMMA Inductive == Spec => []IInv
  <1> QED BY InitInv, NextInv, PTL DEF Spec

(* Every run, whatever it meets and however runs overlap, stays within its *)
(* types: pages end where the feed does, counters keep to their bounds.    *)
THEOREM TypeCorrect == Spec => []TypeOK
  <1>1. IInv => TypeOK
    BY DEF IInv
  <1> QED BY <1>1, Inductive, PTL

(* The watermark passes no finished job by, for any number of overlapping  *)
(* runs, any page size and any cap.                                        *)
THEOREM NothingPassedBy == Spec => []WatermarkCovers
  <1>1. IInv => WatermarkCovers
    BY DEF IInv
  <1> QED BY <1>1, Inductive, PTL

=============================================================================
