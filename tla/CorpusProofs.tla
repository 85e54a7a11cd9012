---------------------------- MODULE CorpusProofs ----------------------------
(***************************************************************************)
(* Proofs about Corpus, for any sites, collections and bounds: type        *)
(* correctness, the days a reported version speaks of, the day a quiet run *)
(* leaves stored, the days the heartbeat tells of, and the guard.          *)
(***************************************************************************)
EXTENDS Corpus, FiniteSetTheorems, WellFoundedInduction, TLAPS

(* A nonempty set of days has a greatest one, which Max returns.           *)
LEMMA GreatestDay ==
    ASSUME NEW S \in SUBSET Day, S # {}
    PROVE  Max(S) \in S /\ \A d \in S : d <= Max(S)
  <1> DEFINE Gap == {n \in Nat : LastDay - n \in S}
             R == OpToRel(<, Nat)
  <1>1. Gap \subseteq Nat /\ Gap # {}
    <2>1. PICK d \in S : TRUE
      OBVIOUS
    <2>2. d \in Int /\ LastDay \in Int /\ d <= LastDay
      BY <2>1, CorpusAssumption DEF Day
    <2>3. LastDay - d \in Nat /\ LastDay - (LastDay - d) = d
      BY <2>2
    <2> QED BY <2>1, <2>3
  <1>2. IsWellFoundedOn(R, Nat)
    BY NatLessThanWellFounded
  <1>3. PICK x \in Gap : \A y \in Gap : ~ (<<y, x>> \in R)
    <2> HIDE DEF Gap, R
    <2> QED BY <1>1, <1>2, WFMin
  <1>4. \A y \in Gap : x <= y
    <2>1. ASSUME NEW y \in Gap, y < x PROVE FALSE
      <3>1. <<y, x>> \in Nat \X Nat
        OBVIOUS
      <3>2. <<y, x>> \in R
        BY <2>1, <3>1 DEF OpToRel
      <3> QED BY <1>3, <3>2
    <2>2. \A y \in Gap : y \in Nat /\ x \in Nat
      OBVIOUS
    <2> HIDE DEF Gap, R
    <2> QED BY <2>1, <2>2
  <1>5. LastDay - x \in S
    OBVIOUS
  <1>6. ASSUME NEW d \in S PROVE LastDay - x >= d
    <2>1. d \in Int /\ LastDay \in Int /\ d <= LastDay
      BY CorpusAssumption DEF Day
    <2>2. LastDay - d \in Gap
      BY <2>1
    <2>3. x <= LastDay - d /\ x \in Int
      BY <1>4, <2>2
    <2> QED BY <2>1, <2>3
  <1>7. \E m \in S : \A d \in S : m >= d
    BY <1>5, <1>6
  <1>8. Max(S) \in S /\ \A d \in S : Max(S) >= d
    BY <1>7 DEF Max
  <1>9. \A d \in S : d \in Int
    BY DEF Day
  <1> QED BY <1>8, <1>9

Run == [phase : Phase, day : Day, force : BOOLEAN,
        evidence : Evidence \cup {None}, raced : BOOLEAN]

(* What a push does to the rest of the state, by kind of step: it collects *)
(* evidence, goes on by itself, or has its batch run by D1.                *)
Collects(s) ==
    /\ run[s].phase \notin Pushing
    /\ \E e \in Evidence :
           /\ WriteEvidence(s, e) \/ UNCHANGED folder
           /\ \/ /\ run'[s].phase = "check" /\ run'[s].day = today
                 /\ run'[s].evidence = e /\ WriteEvidence(s, e)
              \/ /\ run'[s].phase \in {"green", "failed"}
                 /\ run'[s].day = run[s].day
    /\ \A t \in Site \ {s} : run'[t] = run[t]
    /\ UNCHANGED <<today, d1, lookups, heartbeat>>

GoesOn(s) ==
    /\ run[s].phase \in Pushing
    /\ run'[s].day = run[s].day
    /\ \/ run'[s].phase \in {"skipped", "stalled", "green", "failed"}
       \/ /\ run'[s].phase = "refused"
          /\ stored[run[s].day] # None
       \/ /\ run'[s].phase \in Pushing
          /\ run'[s].evidence = run[s].evidence
          /\ run'[s].force = run[s].force
          /\ \/ run[s].phase = "render" /\ run'[s].raced = run[s].raced
             \/ /\ run[s].phase = "check"
                /\ run[s].force \/ stored[run[s].day] = None
                    \/ ~HasFewer(run[s].evidence, stored[run[s].day])
    /\ \A t \in Site \ {s} : run'[t] = run[t]
    /\ UNCHANGED <<today, folder, d1, lookups, heartbeat>>

Lands(s) ==
    /\ run[s].phase = "execute"
    /\ Replaces(s)
    /\ \E phase \in {"pushed", "stalled", "green", "failed"} : Race(s, phase)
    /\ UNCHANGED <<today, folder, lookups, heartbeat>>

LEMMA UnpushedPhase ==
    ASSUME NEW s \in Site
    PROVE  Unpushed(s) \in {"stalled", "green"} /\ Unpushed(s) \in Phase
  BY DEF Unpushed, Phase

LEMMA EndEffect ==
    ASSUME run \in [Site -> Run], NEW s \in Site, NEW phase \in Phase,
           End(s, phase)
    PROVE  /\ run' \in [Site -> Run]
           /\ run'[s].phase = phase /\ run'[s].day = run[s].day
           /\ \A t \in Site \ {s} : run'[t] = run[t]
  <1>1. run[s] \in Run
    OBVIOUS
  <1>2. /\ Over(run[s], phase) \in Run
        /\ Over(run[s], phase).phase = phase
        /\ Over(run[s], phase).day = run[s].day
    BY <1>1 DEF Over, Run
  <1>3. run' = [run EXCEPT ![s] = Over(run[s], phase)]
    BY DEF End
  <1> HIDE DEF Over, Run
  <1> QED BY <1>2, <1>3

LEMMA GotoEffect ==
    ASSUME run \in [Site -> Run], NEW s \in Site, NEW phase \in Phase,
           Goto(s, phase)
    PROVE  /\ run' \in [Site -> Run]
           /\ run'[s].phase = phase /\ run'[s].day = run[s].day
           /\ run'[s].evidence = run[s].evidence
           /\ run'[s].force = run[s].force /\ run'[s].raced = run[s].raced
           /\ \A t \in Site \ {s} : run'[t] = run[t]
  <1>1. run[s] \in Run
    OBVIOUS
  <1>2. run' = [run EXCEPT ![s] = [run[s] EXCEPT !.phase = phase]]
    BY DEF Goto
  <1> QED BY <1>1, <1>2 DEF Run

LEMMA PushKinds ==
    ASSUME TypeOK, NEW s \in Site, Push(s)
    PROVE  /\ Collects(s) \/ GoesOn(s) \/ Lands(s)
           /\ run' \in [Site -> Run] /\ runs' \in 0 .. MaxRuns
  <1> USE DEF TypeOK, Run
  <1>0. /\ run \in [Site -> Run] /\ today \in Day
        /\ runs \in 0 .. MaxRuns
    OBVIOUS
  <1>1. ASSUME NEW e \in Evidence, NEW force \in BOOLEAN,
               Deliver(s, e, force)
        PROVE  /\ Collects(s)
               /\ run' \in [Site -> Run] /\ runs' \in 0 .. MaxRuns
    <2>1. runs' \in 0 .. MaxRuns
      BY <1>1, CorpusAssumption DEF Deliver
    <2>2. run' \in [Site -> Run]
      BY <1>1 DEF Deliver, Phase, Pushing
    <2>3. Collects(s)
      BY <1>1 DEF Deliver, Collects
    <2> QED BY <2>1, <2>2, <2>3
  <1>2. ASSUME NEW e \in Evidence, DeliverFails(s, e)
        PROVE  /\ Collects(s)
               /\ run' \in [Site -> Run] /\ runs' \in 0 .. MaxRuns
    <2>1. runs' \in 0 .. MaxRuns
      BY <1>2, CorpusAssumption DEF DeliverFails
    <2>2. PICK phase \in {"green", "failed"} : End(s, phase)
      BY <1>2 DEF DeliverFails, Unpushed
    <2>3. /\ run' \in [Site -> Run]
          /\ run'[s].phase = phase /\ run'[s].day = run[s].day
          /\ \A t \in Site \ {s} : run'[t] = run[t]
      <3> HIDE DEF TypeOK, Run
      <3> QED BY <1>0, <2>2, EndEffect DEF Phase
    <2>4. Collects(s)
      BY <1>2, <2>3 DEF DeliverFails, Collects
    <2> QED BY <2>1, <2>3, <2>4
  <1> HIDE DEF TypeOK, Run
  <1>3. CASE SkipPush(s)
    BY <1>0, <1>3, EndEffect, UnpushedPhase DEF SkipPush, GoesOn, Pushing, Phase
  <1>4. CASE Check(s)
    <2>1. CASE End(s, "refused") /\ stored[run[s].day] # None
      BY <1>0, <1>4, <2>1, EndEffect DEF Check, GoesOn, Pushing, Phase
    <2>2. CASE /\ run' = [run EXCEPT ![s].phase = "render",
                                     ![s].raced = FALSE]
               /\ run[s].force \/ stored[run[s].day] = None
                   \/ ~HasFewer(run[s].evidence, stored[run[s].day])
      <3>1. /\ run' \in [Site -> Run]
            /\ run'[s].phase = "render" /\ run'[s].day = run[s].day
            /\ run'[s].evidence = run[s].evidence
            /\ run'[s].force = run[s].force
            /\ \A t \in Site \ {s} : run'[t] = run[t]
        BY <1>0, <2>2 DEF Run, Phase, Pushing
      <3> QED BY <1>0, <1>4, <2>2, <3>1 DEF Check, GoesOn, Pushing
    <2> QED BY <1>0, <1>4, <2>1, <2>2 DEF Check
  <1>5. CASE CheckFails(s)
    <2>1. CASE run[s].force /\ Goto(s, "render")
      BY <1>0, <1>5, <2>1, GotoEffect DEF CheckFails, GoesOn, Pushing, Phase
    <2>2. CASE End(s, Unpushed(s))
      BY <1>0, <1>5, <2>2, EndEffect, UnpushedPhase
         DEF CheckFails, GoesOn, Pushing, Phase
    <2> QED BY <1>5, <2>1, <2>2 DEF CheckFails
  <1>6. CASE Render(s)
    <2>1. CASE Goto(s, "execute")
      BY <1>0, <1>6, <2>1, GotoEffect DEF Render, GoesOn, Pushing, Phase
    <2>2. CASE End(s, Unpushed(s))
      BY <1>0, <1>6, <2>2, EndEffect, UnpushedPhase
         DEF Render, GoesOn, Pushing, Phase
    <2> QED BY <1>6, <2>1, <2>2 DEF Render
  <1>7. ASSUME NEW phase \in {"pushed", "stalled", "green", "failed"},
               Race(s, phase)
        PROVE  run' \in [Site -> Run]
    <2>1. Over(run[s], phase) \in Run
      BY <1>0 DEF Over, Run, Phase
    <2>2. \A t \in Site, b \in BOOLEAN : [run[t] EXCEPT !.raced = b] \in Run
      BY <1>0 DEF Run
    <2>3. ASSUME NEW t \in Site
          PROVE  (\/ run[t].raced
                  \/ /\ run[t].phase \in Pushing
                     /\ run[t].day = run[s].day) \in BOOLEAN
      BY <1>0 DEF Run
    <2> HIDE DEF Over, Run
    <2> QED BY <1>7, <2>1, <2>2, <2>3 DEF Race
  <1>8. CASE Execute(s)
    BY <1>0, <1>7, <1>8 DEF Execute, Lands
  <1>9. CASE ExecuteFails(s)
    <2>1. CASE Replaces(s) /\ Race(s, Unpushed(s))
      BY <1>0, <1>7, <1>9, <2>1, UnpushedPhase DEF ExecuteFails, Lands
    <2>2. CASE UNCHANGED d1 /\ End(s, Unpushed(s))
      BY <1>0, <1>9, <2>2, EndEffect, UnpushedPhase
         DEF ExecuteFails, GoesOn, Pushing, Phase
    <2> QED BY <1>9, <2>1, <2>2 DEF ExecuteFails
  <1>10. CASE Kill(s)
    <2>1. CASE UNCHANGED d1 /\ End(s, "failed")
      BY <1>0, <1>10, <2>1, EndEffect
         DEF Kill, GoesOn, Pushing, Phase
    <2>2. CASE /\ run[s].phase = "execute"
               /\ Replaces(s) /\ Race(s, "failed")
      BY <1>0, <1>7, <1>10, <2>2 DEF Kill, Lands
    <2> QED BY <1>10, <2>1, <2>2 DEF Kill
  <1> QED BY <1>1, <1>2, <1>3, <1>4, <1>5, <1>6, <1>8, <1>9, <1>10 DEF Push

-----------------------------------------------------------------------------

LEMMA WithheldType == None \in Version
  BY DEF Version

LEMMA ContentType ==
    ASSUME NEW f \in Store
    PROVE  /\ Content(f) \in Contents
           /\ DaysOf(f) # {} => CorpusVersion(f) \in Version
  <1>1. ASSUME NEW d \in DaysOf(f)
        PROVE  d \in Day /\ f[d] \in Evidence
    BY DEF DaysOf, Store
  <1>2. ASSUME NEW d \in DaysOf(f)
        PROVE  {d} \X f[d].values
                   \subseteq Day \X UNION {e.values : e \in Evidence}
    BY <1>1
  <1>3. Content(f) \subseteq Day \X UNION {e.values : e \in Evidence}
    BY <1>2 DEF Content
  <1>4. Content(f) \in Contents
    BY <1>3 DEF Contents
  <1>5. ASSUME DaysOf(f) # {}
        PROVE  CorpusVersion(f) \in Version
    <2>1. DaysOf(f) \in SUBSET Day
      BY DEF DaysOf
    <2>2. Max(DaysOf(f)) \in Day
      BY <1>5, <2>1, GreatestDay
    <2> QED BY <1>4, <2>2 DEF CorpusVersion, Version
  <1> QED BY <1>4, <1>5

LEMMA InitType == Init => TypeOK
  <1> SUFFICES ASSUME Init PROVE TypeOK
    OBVIOUS
  <1>1. 1 \in Day /\ NoDays \in Store
    BY CorpusAssumption DEF Day, NoDays, Store
  <1>2. run \in [Site -> Run]
    BY <1>1 DEF Init, Run, Phase
  <1>3. runs \in 0 .. MaxRuns
    BY CorpusAssumption DEF Init
  <1>4. lookup \in [open : BOOLEAN, version : Version]
    <2>1. lookup = [open |-> FALSE, version |-> None]
      BY DEF Init
    <2> QED BY ONLY <2>1, WithheldType
  <1>5. answers \in Seq([version : Version, rows : Contents])
    BY DEF Init
  <1>6. today \in Day /\ folder \in Store /\ stored \in Store
        /\ state \in Store /\ checked \subseteq Day /\ warned \subseteq Day
        /\ ciPushed \in BOOLEAN
    BY <1>1 DEF Init
  <1> QED BY <1>2, <1>3, <1>4, <1>5, <1>6 DEF TypeOK, Run

(* The part of the invariant the properties rest on.                       *)
RunOK ==
    \A s \in Site :
        /\ run[s].day <= today
        /\ run[s].phase \in Pushing =>
               /\ run[s].evidence \in Evidence
               /\ s = "host" => folder[run[s].day] # None

Within ==
    /\ DaysOf(state) \subseteq DaysOf(folder)
    /\ ~ciPushed => DaysOf(stored) \subseteq DaysOf(state)

Past == \A d \in DaysOf(stored) : d <= today

Guarded ==
    \A s \in Site :
        /\ run[s].phase \in {"render", "execute"}
        /\ ~run[s].force /\ ~run[s].raced
        /\ stored[run[s].day] # None
        => ~HasFewer(run[s].evidence, stored[run[s].day])

IInv == /\ TypeOK /\ RunOK /\ Within /\ Past /\ Guarded
        /\ QuietRunStored /\ MissedDaysWarned

LEMMA InitInv == Init => IInv
  <1> SUFFICES ASSUME Init PROVE IInv
    OBVIOUS
  <1>1. DaysOf(NoDays) = {}
    BY DEF DaysOf, NoDays
  <1>2. RunOK /\ Guarded /\ QuietRunStored
    BY DEF Init, RunOK, Guarded, QuietRunStored, Pushing
  <1>3. Within /\ Past /\ MissedDaysWarned
    BY <1>1 DEF Init, Within, Past, MissedDaysWarned
  <1> QED BY <1>2, <1>3, InitType DEF IInv

LEMMA CollectStep ==
    ASSUME IInv, NEW s \in Site, Collects(s), run' \in [Site -> Run],
           runs' \in 0 .. MaxRuns
    PROVE  IInv'
  <1> USE DEF IInv
  <1>0. /\ today \in Day /\ folder \in Store /\ stored \in Store
        /\ run \in [Site -> Run]
    BY DEF TypeOK, Run
  <1>1. PICK e \in Evidence :
            /\ WriteEvidence(s, e) \/ UNCHANGED folder
            /\ \/ /\ run'[s].phase = "check" /\ run'[s].day = today
                  /\ run'[s].evidence = e /\ WriteEvidence(s, e)
               \/ /\ run'[s].phase \in {"green", "failed"}
                  /\ run'[s].day = run[s].day
    BY DEF Collects
  <1>2. /\ \A t \in Site \ {s} : run'[t] = run[t]
        /\ UNCHANGED <<today, stored, state, ciPushed, lookup, answers,
                       checked, warned>>
    BY DEF Collects, d1, lookups, heartbeat
  <1>3. e # None
    BY CorpusAssumption
  <1>4. /\ folder' \in Store
        /\ \A d \in Day : folder[d] # None => folder'[d] # None
    BY <1>0, <1>1, <1>3 DEF WriteEvidence, Store
  <1>5. TypeOK'
    BY <1>2, <1>4 DEF TypeOK, Run
  <1>6. RunOK'
    <2>1. ASSUME NEW t \in Site, t # s
          PROVE  /\ run'[t].day <= today'
                 /\ run'[t].phase \in Pushing =>
                        /\ run'[t].evidence \in Evidence
                        /\ t = "host" => folder'[run'[t].day] # None
      <3>1. run'[t] = run[t] /\ run[t].day \in Day
        BY <1>0, <1>2, <2>1 DEF Run
      <3> QED BY <1>2, <1>4, <3>1 DEF RunOK
    <2>2. CASE /\ run'[s].phase \in {"green", "failed"}
               /\ run'[s].day = run[s].day
      BY <1>2, <2>1, <2>2 DEF RunOK, Pushing
    <2>3. CASE /\ run'[s].phase = "check" /\ run'[s].day = today
               /\ run'[s].evidence = e /\ WriteEvidence(s, e)
      <3>1. s = "host" => folder'[today] # None
        BY <1>0, <1>3, <2>3 DEF WriteEvidence, Store
      <3>2. today <= today
        BY <1>0 DEF Day
      <3> QED BY <1>2, <2>1, <2>3, <3>1, <3>2 DEF RunOK
    <2> QED BY <1>1, <2>2, <2>3
  <1>7. Within'
    BY <1>2, <1>4 DEF Within, DaysOf
  <1>8. Past' /\ MissedDaysWarned'
    BY <1>2 DEF Past, MissedDaysWarned, DaysOf
  <1>9. Guarded' /\ QuietRunStored'
    <2>1. run'[s].phase \notin {"render", "execute", "refused", "pushed"}
      BY <1>1
    <2> QED BY <1>2, <2>1 DEF Guarded, QuietRunStored
  <1> QED BY <1>5, <1>6, <1>7, <1>8, <1>9

LEMMA GoOnStep ==
    ASSUME IInv, NEW s \in Site, GoesOn(s), run' \in [Site -> Run],
           runs' \in 0 .. MaxRuns
    PROVE  IInv'
  <1> USE DEF IInv
  <1>1. /\ \A t \in Site \ {s} : run'[t] = run[t]
        /\ UNCHANGED <<today, folder, stored, state, ciPushed, lookup,
                       answers, checked, warned>>
    BY DEF GoesOn, d1, lookups, heartbeat
  <1>2. TypeOK'
    BY <1>1 DEF TypeOK, Run
  <1>3. RunOK'
    BY <1>1 DEF RunOK, GoesOn, Pushing
  <1>4. Within' /\ Past' /\ MissedDaysWarned'
    BY <1>1 DEF Within, Past, MissedDaysWarned, DaysOf
  <1>5. QuietRunStored'
    BY <1>1 DEF QuietRunStored, GoesOn, Pushing
  <1>6. Guarded'
    <2>1. ASSUME /\ run'[s].phase \in {"render", "execute"}
                 /\ ~run'[s].force /\ ~run'[s].raced
                 /\ stored[run[s].day] # None
          PROVE  ~HasFewer(run'[s].evidence, stored[run[s].day])
      BY <2>1 DEF GoesOn, Guarded, Pushing
    <2>2. run'[s].day = run[s].day
      BY DEF GoesOn
    <2> QED BY <1>1, <2>1, <2>2 DEF Guarded
  <1> QED BY <1>2, <1>3, <1>4, <1>5, <1>6

LEMMA LandStep ==
    ASSUME IInv, NEW s \in Site, Lands(s), run' \in [Site -> Run],
           runs' \in 0 .. MaxRuns
    PROVE  IInv'
  <1> USE DEF IInv
  <1> DEFINE day == run[s].day
             e == run[s].evidence
  <1>0. /\ today \in Day /\ folder \in Store /\ stored \in Store
        /\ state \in Store /\ run \in [Site -> Run] /\ day \in Day
    BY DEF TypeOK, Run
  <1>1. PICK phase \in {"pushed", "stalled", "green", "failed"} : Race(s, phase)
    BY DEF Lands
  <1>2. /\ UNCHANGED <<today, folder, lookup, answers, checked, warned>>
        /\ stored' = [stored EXCEPT ![day] = e]
        /\ state' = IF s = "host" THEN folder ELSE state
        /\ ciPushed' = (ciPushed \/ s = "ci")
    BY DEF Lands, Replaces, lookups, heartbeat
  <1>3. e \in Evidence /\ e # None /\ day <= today
        /\ (s = "host" => folder[day] # None)
    BY CorpusAssumption DEF Lands, RunOK, Pushing
  <1>4. /\ stored' \in Store /\ state' \in Store /\ stored'[day] = e
        /\ \A d \in Day \ {day} : stored'[d] = stored[d]
        /\ \A d \in Day : stored[d] # None => stored'[d] # None
    BY <1>0, <1>2, <1>3 DEF Store
  <1>5. /\ run'[s].phase = phase /\ run'[s].day = day
        /\ \A t \in Site \ {s} :
               /\ run'[t].phase = run[t].phase /\ run'[t].day = run[t].day
               /\ run'[t].force = run[t].force
               /\ run'[t].evidence = run[t].evidence
               /\ run'[t].raced = \/ run[t].raced
                                  \/ /\ run[t].phase \in Pushing
                                     /\ run[t].day = day
    <2>1. run[s] \in Run /\ \A t \in Site : run[t] \in Run
      BY <1>0
    <2>2. Over(run[s], phase).phase = phase /\ Over(run[s], phase).day = day
      BY <2>1 DEF Over, Run
    <2> QED BY <1>1, <2>1, <2>2 DEF Race, Run
  <1>6. TypeOK'
    <2>1. ciPushed' \in BOOLEAN
      BY <1>2 DEF TypeOK
    <2> QED BY <1>2, <1>4, <2>1 DEF TypeOK, Run
  <1>7. RunOK'
    BY <1>1, <1>2, <1>3, <1>5 DEF RunOK, Pushing
  <1>8. Within'
    <2>1. CASE s = "host"
      BY <1>2, <1>3, <1>4, <2>1 DEF Within, DaysOf
    <2>2. CASE s # "host"
      BY <1>2, <2>2, CorpusAssumption DEF Within
    <2> QED BY <2>1, <2>2
  <1>9. Past' /\ MissedDaysWarned'
    <2>1. \A d \in DaysOf(stored') : d \in DaysOf(stored) \/ d = day
      BY <1>4 DEF DaysOf
    <2>2. Past'
      BY <1>2, <1>3, <2>1 DEF Past
    <2>3. checked \subseteq Day
      BY DEF TypeOK
    <2> QED BY <1>2, <1>4, <2>2, <2>3 DEF MissedDaysWarned
  <1>10. QuietRunStored'
    <2>1. \A t \in Site : run'[t].day = run[t].day /\ run[t].day \in Day
      BY <1>0, <1>5 DEF Run
    <2> QED BY <1>3, <1>4, <1>5, <2>1 DEF QuietRunStored
  <1>11. Guarded'
    <2>1. ASSUME NEW t \in Site, run'[t].phase \in {"render", "execute"},
                 ~run'[t].force, ~run'[t].raced,
                 stored'[run'[t].day] # None
          PROVE  ~HasFewer(run'[t].evidence, stored'[run'[t].day])
      <3>1. t # s
        BY <1>1, <1>5, <2>1
      <3>2. /\ run[t].phase \in {"render", "execute"} /\ ~run[t].force
            /\ ~run[t].raced /\ run[t].day # day
            /\ run'[t].day = run[t].day /\ run'[t].evidence = run[t].evidence
        BY <1>5, <2>1, <3>1 DEF Pushing
      <3>3. run[t].day \in Day /\ stored'[run[t].day] = stored[run[t].day]
        BY <1>0, <1>4, <3>2 DEF Run
      <3> QED BY <2>1, <3>2, <3>3 DEF Guarded
    <2> QED BY <2>1 DEF Guarded
  <1> QED BY <1>6, <1>7, <1>8, <1>9, <1>10, <1>11

LEMMA LookupStep ==
    ASSUME IInv, LookupBegins \/ LookupAnswers
    PROVE  IInv'
  <1> USE DEF IInv
  <1>1. UNCHANGED <<today, folder, stored, state, ciPushed, run, runs,
                    checked, warned>>
    BY DEF LookupBegins, LookupAnswers, d1, heartbeat
  <1>2. stored \in Store /\ state \in Store
    BY DEF TypeOK
  <1>3. /\ Content(stored) \in Contents
        /\ Consistent => CorpusVersion(state) \in Version
        /\ None \in Version
    BY <1>2, ContentType, WithheldType DEF Consistent
  <1>4. /\ lookup \in [open : BOOLEAN, version : Version]
        /\ answers \in Seq([version : Version, rows : Contents])
    BY DEF TypeOK
  <1>5. /\ lookup' \in [open : BOOLEAN, version : Version]
        /\ answers' \in Seq([version : Version, rows : Contents])
    <2>1. CASE LookupBegins
      BY <1>3, <1>4, <2>1 DEF LookupBegins
    <2>2. CASE LookupAnswers
      <3>1. [version |-> lookup.version, rows |-> Content(stored)]
                \in [version : Version, rows : Contents]
        BY <1>3, <1>4
      <3>2. /\ lookup' = [lookup EXCEPT !.open = FALSE]
            /\ answers' = Append(answers, [version |-> lookup.version,
                                           rows |-> Content(stored)])
        BY <2>2 DEF LookupAnswers
      <3>3. lookup' \in [open : BOOLEAN, version : Version]
        BY <1>4, <3>2
      <3> DEFINE Answer == [version : Version, rows : Contents]
      <3>4. answers' \in Seq(Answer)
        <4> HIDE DEF Answer
        <4> QED BY <1>4, <3>1, <3>2 DEF Answer
      <3> QED BY <3>3, <3>4
    <2> QED BY <2>1, <2>2
  <1>6. TypeOK'
    BY <1>1, <1>5 DEF TypeOK
  <1> QED BY <1>1, <1>6 DEF RunOK, Within, Past, Guarded, QuietRunStored,
             MissedDaysWarned, DaysOf

(* A heartbeat that does not mail has found today's rows: the newest       *)
(* stored day is not past today.                                           *)
LEMMA HeartbeatStep ==
    ASSUME IInv, Heartbeat
    PROVE  IInv'
  <1> USE DEF IInv
  <1>1. /\ UNCHANGED <<today, folder, stored, state, ciPushed, run, runs,
                       lookup, answers>>
        /\ checked' = checked \cup {today}
        /\ warned \subseteq warned' /\ warned' \subseteq warned \cup {today}
    BY DEF Heartbeat, d1, lookups
  <1>2. today \in Day
    BY DEF TypeOK
  <1>3. TypeOK'
    BY <1>1, <1>2 DEF TypeOK
  <1>4. today \in warned' \/ stored[today] # None
    <2>1. CASE DaysOf(stored) = {} \/ Stale(Max(DaysOf(stored)))
      BY <2>1 DEF Heartbeat
    <2>2. CASE DaysOf(stored) # {} /\ ~Stale(Max(DaysOf(stored)))
      <3>1. DaysOf(stored) \in SUBSET Day
        BY DEF DaysOf
      <3>2. Max(DaysOf(stored)) \in DaysOf(stored)
        BY <2>2, <3>1, GreatestDay
      <3>3. Max(DaysOf(stored)) <= today
        BY <3>2 DEF Past
      <3>4. Max(DaysOf(stored)) \in Day
        BY <3>1, <3>2
      <3>5. Max(DaysOf(stored)) = today
        <4> DEFINE m == Max(DaysOf(stored))
        <4>1. m \in Nat /\ today \in Nat /\ ~(m < today) /\ m <= today
          BY <1>2, <2>2, <3>3, <3>4 DEF Stale, Day
        <4> HIDE DEF m
        <4>2. m = today
          BY <4>1
        <4> QED BY <4>2 DEF m
      <3> QED BY <3>2, <3>5 DEF DaysOf
    <2> QED BY <2>1, <2>2
  <1>5. MissedDaysWarned'
    BY <1>1, <1>4 DEF MissedDaysWarned
  <1> QED BY <1>1, <1>3, <1>5 DEF RunOK, Within, Past, Guarded,
             QuietRunStored, DaysOf

LEMMA SlotStep ==
    ASSUME IInv, NextSlot
    PROVE  IInv'
  <1> USE DEF IInv
  <1>1. /\ UNCHANGED <<folder, stored, state, ciPushed, run, runs, lookup,
                       answers, checked, warned>>
        /\ today < LastDay /\ today' = today + 1
    BY DEF NextSlot, d1, lookups, heartbeat
  <1>2. today \in Nat /\ today' \in Day
    BY <1>1, CorpusAssumption DEF TypeOK, Day
  <1>3. TypeOK'
    BY <1>1, <1>2 DEF TypeOK
  <1>4. \A d \in Day : d <= today => d <= today'
    BY <1>1, <1>2 DEF Day
  <1>5. RunOK'
    <2>1. \A s \in Site : run[s].day \in Day
      BY DEF TypeOK
    <2> QED BY <1>1, <1>4, <2>1 DEF RunOK
  <1>6. Past'
    BY <1>1, <1>4 DEF Past, DaysOf
  <1> QED BY <1>1, <1>3, <1>5, <1>6 DEF Within, Guarded, QuietRunStored,
             MissedDaysWarned, DaysOf

LEMMA Inductive == IInv /\ [Next]_vars => IInv'
  <1> SUFFICES ASSUME IInv, [Next]_vars PROVE IInv'
    OBVIOUS
  <1>1. ASSUME NEW s \in Site, Push(s) PROVE IInv'
    <2>1. TypeOK
      BY DEF IInv
    <2> QED BY <1>1, <2>1, PushKinds, CollectStep, GoOnStep, LandStep
  <1>2. CASE UNCHANGED vars
    BY <1>2 DEF IInv, vars, d1, lookups, heartbeat, TypeOK, RunOK, Within,
       Past, Guarded, QuietRunStored, MissedDaysWarned, DaysOf
  <1> QED BY <1>1, <1>2, LookupStep, HeartbeatStep, SlotStep DEF Next

LEMMA Invariance == Spec => []IInv
  BY InitInv, Inductive, PTL DEF Spec

-----------------------------------------------------------------------------

(* Every variable keeps its type.                                          *)
THEOREM TypeCorrect == Spec => []TypeOK
  <1>1. IInv => TypeOK
    BY DEF IInv
  <1> QED BY <1>1, Invariance, PTL

(* While only the host pushes, a reported version speaks of the stored     *)
(* days: they are days of the folder it was computed from, and as many.    *)
THEOREM DaysExact == Spec => []ReportedDaysExact
  <1>1. IInv => ReportedDaysExact
    <2> SUFFICES ASSUME IInv, Consistent, ~ciPushed
                 PROVE  DaysOf(state) = DaysOf(stored)
      BY DEF ReportedDaysExact
    <2>1. DaysOf(stored) \subseteq DaysOf(state)
      BY DEF IInv, Within
    <2>2. IsFiniteSet(DaysOf(state))
      <3>1. IsFiniteSet(1 .. LastDay)
        BY FS_Interval, CorpusAssumption
      <3> QED BY <3>1, FS_Subset DEF DaysOf, Day
    <2>3. Cardinality(DaysOf(state)) = Cardinality(DaysOf(stored))
      BY DEF Consistent
    <2> QED BY <2>1, <2>2, <2>3, FS_Subset
  <1> QED BY <1>1, Invariance, PTL

(* A host run that ends neither alerting nor skipping has its day in D1,   *)
(* and so has a CI run whose log says pushed or refused.                   *)
THEOREM QuietRuns == Spec => []QuietRunStored
  <1>1. IInv => QuietRunStored
    BY DEF IInv
  <1> QED BY <1>1, Invariance, PTL

(* A checked day is stored or was mailed about.                            *)
THEOREM MissedDays == Spec => []MissedDaysWarned
  <1>1. IInv => MissedDaysWarned
    BY DEF IInv
  <1> QED BY <1>1, Invariance, PTL

(* A day is never replaced by less, without FORCE_D1=1 or a race: what the *)
(* run read of the counts still holds when its batch runs.                 *)
THEOREM DayKept == Spec => GuardKeepsDay
  <1>1. ASSUME IInv, [Next]_vars, NEW s \in Site, run'[s].phase # "execute",
               run[s].phase = "execute", ~run[s].force, ~run[s].raced,
               stored[run[s].day] # None
        PROVE  AtLeast(stored'[run[s].day], stored[run[s].day])
    <2> DEFINE day == run[s].day
               e == run[s].evidence
    <2>1. /\ TypeOK /\ run \in [Site -> Run] /\ stored \in Store /\ day \in Day
          /\ run[s].phase \in Pushing
      BY <1>1 DEF IInv, TypeOK, Run, Pushing
    <2>2. stored[day] \in Evidence /\ e \in Evidence
      BY <1>1, <2>1 DEF Store, IInv, RunOK
    <2>3. \A x \in Evidence : /\ x.articles \in Nat
                             /\ Cardinality(x.values) \in Nat
      BY CorpusAssumption, FS_CardinalityType
    <2>4. AtLeast(e, stored[day])
      <3>1. ~HasFewer(e, stored[day])
        BY <1>1 DEF IInv, Guarded
      <3> QED BY <2>2, <2>3, <3>1 DEF HasFewer, AtLeast
    <2>5. CASE UNCHANGED stored
      BY <2>2, <2>3, <2>5 DEF AtLeast
    <2>6. ASSUME NEW t \in Site, Push(t), ~UNCHANGED stored
          PROVE  AtLeast(stored'[day], stored[day])
      <3>1. Lands(t)
        BY <2>1, <2>6, PushKinds DEF Collects, GoesOn, d1
      <3>2. t = s
        <4>1. SUFFICES ASSUME t # s PROVE FALSE
          OBVIOUS
        <4>2. PICK phase : Race(t, phase)
          BY <3>1 DEF Lands
        <4>3. run[s] \in Run
          BY <2>1
        <4>4. run'[s].phase = run[s].phase
          BY <4>1, <4>2, <4>3 DEF Race, Run
        <4> QED BY <1>1, <4>4
      <3>3. stored'[day] = e
        BY <2>1, <3>1, <3>2 DEF Lands, Replaces, Store
      <3> QED BY <2>4, <3>3
    <2> QED BY <1>1, <2>5, <2>6 DEF Next, LookupBegins, LookupAnswers,
               Heartbeat, NextSlot, vars, d1
  <1>2. IInv /\ [Next]_vars =>
            [\A s \in Site :
                run'[s].phase # "execute" => KeepsDay(run[s])]_vars
    BY <1>1 DEF KeepsDay
  <1> QED BY <1>2, Invariance, PTL DEF Spec, GuardKeepsDay
=============================================================================
