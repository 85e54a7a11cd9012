-------------------------- MODULE DeliveryProofs ---------------------------
(***************************************************************************)
(* Proofs about ReportPair and about Delivery, which extends it, for any   *)
(* number of runs, reports and faults.                                     *)
(*                                                                         *)
(* ReportPair: CopiesAreSpare is inductive once PhaseOK says which         *)
(* destinations a writer has replaced at each phase: a copy is then only   *)
(* made of a destination outside `completed`, and only deleted of one      *)
(* inside it, whose own antecedent gives a version elsewhere.  NoFileLost  *)
(* follows step by step.                                                   *)
(*                                                                         *)
(* Delivery: a run only posts what it has read and checked, and reads      *)
(* nothing after, so the mailbox is a sequence of pairs under the keys     *)
(* their Report IDs make, no key twice.                                    *)
(***************************************************************************)
EXTENDS Delivery, TLAPS

IInv == TypeOK /\ PhaseOK /\ CopiesAreSpare

USE DEF Dest, Calls, Try, Finally, Ended, File, Replacing

(* The initial state satisfies the invariant.                              *)
LEMMA InitInv == Init => IInv
  <1> SUFFICES ASSUME Init PROVE IInv
    OBVIOUS
  <1>1. TypeOK
    BY DEF Init, TypeOK, NoFiles
  <1>2. PhaseOK
    BY DEF Init, PhaseOK, InPhase
  <1>3. CopiesAreSpare
    BY DEF Init, CopiesAreSpare, NoFiles
  <1> QED BY <1>1, <1>2, <1>3 DEF IInv

(* A failing call is added to the writer's history.                        *)
LEMMA FaultType ==
    ASSUME TypeOK, NEW w \in Writer, NEW c \in Calls, Fault(w, c)
    PROVE  faults' \in [Writer -> Seq(Calls \cup {"interrupt"})]
  BY DEF TypeOK, Fault

(* An OSError on its way to the handler moves the writer and nothing else. *)
LEMMA RaiseType ==
    ASSUME TypeOK, NEW w \in Writer, Raise(w)
    PROVE  /\ at' \in [Writer -> {"idle"} \cup Try \cup Finally \cup Ended]
           /\ cur' \in [Writer -> Dest]
           /\ raising' \in [Writer -> BOOLEAN]
  BY DEF TypeOK, Raise, Goto

(* Every step keeps each variable in its type.                             *)
LEMMA TypeStep == TypeOK /\ [Next]_vars => TypeOK'
  <1> SUFFICES ASSUME TypeOK, [Next]_vars PROVE TypeOK'
    OBVIOUS
  <1> USE ReportPairAssumption DEF TypeOK
  <1>1. ASSUME NEW w \in Writer, NEW r \in Report, Begin(w, r)
        PROVE  TypeOK'
    BY <1>1 DEF Begin, Goto, Running
  <1>2. ASSUME NEW w \in Writer, Step(w)
        PROVE  TypeOK'
    <2>1. CASE Stage(w)
      BY <2>1 DEF Stage, Forward, Goto
    <2>2. CASE StageFails(w)
      BY <2>2, FaultType, RaiseType DEF StageFails
    <2>3. CASE Probe(w)
      BY <2>3 DEF Probe, Goto
    <2>4. CASE Backup(w)
      BY <2>4 DEF Backup, Goto
    <2>5. CASE BackupFails(w)
      BY <2>5, FaultType, RaiseType DEF BackupFails
    <2>6. CASE Replace(w)
      <3>1. disk' \in [Dest -> File]
        BY <2>6 DEF Replace
      <3>2. tmp' \in [Writer -> [Dest -> File]]
        BY <2>6 DEF Replace
      <3>3. completed' \in [Writer -> SUBSET Dest]
        BY <2>6 DEF Replace
      <3>4. /\ at' \in [Writer -> {"idle"} \cup Try \cup Finally \cup Ended]
            /\ cur' \in [Writer -> Dest]
        BY <2>6 DEF Replace, Forward, Goto
      <3> QED BY <2>6, <3>1, <3>2, <3>3, <3>4 DEF Replace
    <2>7. CASE ReplaceFails(w)
      <3>1. /\ at' \in [Writer -> {"idle"} \cup Try \cup Finally \cup Ended]
            /\ cur' \in [Writer -> Dest]
            /\ raising' \in [Writer -> BOOLEAN]
        BY <2>7, RaiseType DEF ReplaceFails, Goto
      <3>2. faults' \in [Writer -> Seq(Calls \cup {"interrupt"})]
        BY <2>7, FaultType DEF ReplaceFails
      <3> QED BY <2>7, <3>1, <3>2 DEF ReplaceFails
    <2>8. CASE Restore(w)
      BY <2>8 DEF Restore, Raise, Goto
    <2>9. CASE RestoreFails(w)
      BY <2>9, FaultType, RaiseType DEF RestoreFails
    <2>10. CASE Unlink(w)
      BY <2>10 DEF Unlink, Forward, Goto
    <2>11. CASE UnlinkFails(w)
      BY <2>11, FaultType, RaiseType DEF UnlinkFails
    <2>12. CASE Rollback(w)
      <3>1. ASSUME MustRollBack(w)
            PROVE  disk' \in [Dest -> File] /\ bak' \in [Writer -> [Dest -> File]]
        <4>1. /\ disk' = [disk EXCEPT ![cur[w]] = bak[w][cur[w]]]
              /\ bak' = [bak EXCEPT ![w][cur[w]] = Absent]
          BY <2>12, <3>1 DEF Rollback
        <4> QED BY <4>1
      <3>2. ASSUME ~MustRollBack(w)
            PROVE  disk' \in [Dest -> File] /\ bak' \in [Writer -> [Dest -> File]]
        BY <2>12, <3>2 DEF Rollback
      <3>3. /\ at' \in [Writer -> {"idle"} \cup Try \cup Finally \cup Ended]
            /\ cur' \in [Writer -> Dest]
        BY <2>12 DEF Rollback, Backward, Goto
      <3>4. disk' \in [Dest -> File] /\ bak' \in [Writer -> [Dest -> File]]
        BY <3>1, <3>2
      <3> QED BY <2>12, <3>3, <3>4 DEF Rollback
    <2>13. CASE RollbackFails(w)
      BY <2>13 DEF RollbackFails, Fault, Goto
    <2>14. CASE CleanTmp(w)
      BY <2>14 DEF CleanTmp, Forward, Goto
    <2>15. CASE CleanBak(w)
      BY <2>15 DEF CleanBak, Forward, Goto
    <2>16. CASE CleanFails(w)
      BY <2>16 DEF CleanFails, Fault, Goto
    <2> QED
      BY <1>2, <2>1, <2>2, <2>3, <2>4, <2>5, <2>6, <2>7, <2>8, <2>9, <2>10,
         <2>11, <2>12, <2>13, <2>14, <2>15, <2>16 DEF Step
  <1>3. ASSUME NEW w \in Writer, Interrupt(w)
        PROVE  TypeOK'
    BY <1>3 DEF Interrupt, Goto
  <1>4. ASSUME NEW w \in Writer, Crash(w)
        PROVE  TypeOK'
    BY <1>4 DEF Crash, Goto
  <1>5. CASE UNCHANGED vars
    BY <1>5 DEF vars
  <1> QED BY <1>1, <1>2, <1>3, <1>4, <1>5 DEF Next

(* The steps of one writer leave the phase of every other as it was.       *)
LEMMA PhaseStep == TypeOK /\ PhaseOK /\ [Next]_vars => PhaseOK'
  <1> SUFFICES ASSUME TypeOK, PhaseOK, [Next]_vars, NEW v \in Writer
               PROVE  InPhase(v)'
    BY DEF PhaseOK
  <1>0. InPhase(v)
    BY DEF PhaseOK
  <1> USE <1>0 DEF InPhase, TypeOK
  <1>1. ASSUME NEW w \in Writer, NEW r \in Report, Begin(w, r)
        PROVE  InPhase(v)'
    <2>1. CASE v = w
      BY <1>1, <2>1 DEF Begin, Goto
    <2>2. CASE v # w
      BY <1>1, <2>2 DEF Begin, Goto
    <2> QED BY <2>1, <2>2
  <1>2. ASSUME NEW w \in Writer, Step(w)
        PROVE  InPhase(v)'
    <2>1. CASE Stage(w)
      BY <2>1 DEF Stage, Forward, Goto
    <2>2. CASE StageFails(w)
      BY <2>2 DEF StageFails, Raise, Goto
    <2>3. CASE Probe(w)
      BY <2>3 DEF Probe, Goto
    <2>4. CASE Backup(w)
      BY <2>4 DEF Backup, Goto
    <2>5. CASE BackupFails(w)
      BY <2>5 DEF BackupFails, Raise, Goto
    <2>6. CASE Replace(w)
      <3>1. CASE v # w
        BY <2>6, <3>1 DEF Replace, Forward, Goto
      <3>2. CASE v = w /\ cur[w] = "json"
        BY <2>6, <3>2 DEF Replace, Forward, Goto
      <3>3. CASE v = w /\ cur[w] = "md"
        BY <2>6, <3>3 DEF Replace, Forward, Goto
      <3> QED BY <3>1, <3>2, <3>3
    <2>7. CASE ReplaceFails(w)
      BY <2>7 DEF ReplaceFails, Raise, Goto
    <2>8. CASE Restore(w)
      BY <2>8 DEF Restore, Raise, Goto
    <2>9. CASE RestoreFails(w)
      BY <2>9 DEF RestoreFails, Raise, Goto
    <2>10. CASE Unlink(w)
      BY <2>10 DEF Unlink, Forward, Goto
    <2>11. CASE UnlinkFails(w)
      BY <2>11 DEF UnlinkFails, Raise, Goto
    <2>12. CASE Rollback(w)
      <3>1. UNCHANGED <<report, completed, tmp>>
        BY <2>12 DEF Rollback
      <3>2. IF v = w THEN at'[v] \notin {"idle", "stage", "unlink"} \cup Replacing
                     ELSE at'[v] = at[v] /\ cur'[v] = cur[v] /\ bak'[v] = bak[v]
        BY <2>12 DEF Rollback, Backward, Goto
      <3> QED BY <3>1, <3>2, <2>12 DEF Rollback
    <2>13. CASE RollbackFails(w)
      BY <2>13 DEF RollbackFails, Goto
    <2>14. CASE CleanTmp(w)
      BY <2>14 DEF CleanTmp, Forward, Goto
    <2>15. CASE CleanBak(w)
      BY <2>15 DEF CleanBak, Forward, Goto
    <2>16. CASE CleanFails(w)
      BY <2>16 DEF CleanFails, Goto
    <2> QED
      BY <1>2, <2>1, <2>2, <2>3, <2>4, <2>5, <2>6, <2>7, <2>8, <2>9, <2>10,
         <2>11, <2>12, <2>13, <2>14, <2>15, <2>16 DEF Step
  <1>3. ASSUME NEW w \in Writer, Interrupt(w)
        PROVE  InPhase(v)'
    BY <1>3 DEF Interrupt, Goto
  <1>4. ASSUME NEW w \in Writer, Crash(w)
        PROVE  InPhase(v)'
    BY <1>4 DEF Crash, Running, Goto
  <1>5. CASE UNCHANGED vars
    <2>1. UNCHANGED <<at, cur, tmp, bak, report, completed>>
      BY <1>5 DEF vars
    <2> QED BY <2>1
  <1> QED BY <1>1, <1>2, <1>3, <1>4, <1>5 DEF Next

(* A step that touches neither the files, the copies nor the lists.        *)
LEMMA SpareFrame ==
    ASSUME CopiesAreSpare, UNCHANGED <<disk, bak, completed>>
    PROVE  CopiesAreSpare'
  BY DEF CopiesAreSpare, SafelyHeld

(* Deleting a writer's copy of a destination it has replaced.              *)
LEMMA SpareDeleted ==
    ASSUME TypeOK, CopiesAreSpare, NEW w \in Writer, cur[w] \in completed[w],
           bak' = [bak EXCEPT ![w][cur[w]] = Absent],
           UNCHANGED <<disk, completed>>
    PROVE  CopiesAreSpare' /\ \A d \in Dest : Held(d) => Held(d)'
  <1> USE DEF TypeOK
  <1>1. ASSUME NEW d \in Dest, SafelyHeld(d) PROVE SafelyHeld(d)'
    <2>1. CASE disk[d] # Absent
      BY <2>1 DEF SafelyHeld
    <2>2. CASE \E v \in Writer : d \notin completed[v] /\ bak[v][d] # Absent
      <3>1. PICK v \in Writer : d \notin completed[v] /\ bak[v][d] # Absent
        BY <2>2
      <3>2. bak'[v][d] = bak[v][d]
        BY <3>1
      <3> QED BY <3>1, <3>2 DEF SafelyHeld
    <2> QED BY <1>1, <2>1, <2>2 DEF SafelyHeld
  <1>2. \A d \in Dest : \A v \in Writer : bak'[v][d] # Absent => bak[v][d] # Absent
    OBVIOUS
  <1>3. CopiesAreSpare'
    BY <1>1, <1>2 DEF CopiesAreSpare
  <1>4. ASSUME NEW d \in Dest, Held(d) PROVE Held(d)'
    <2>1. CASE d = cur[w]
      BY <2>1, <1>1 DEF CopiesAreSpare, SafelyHeld, Held
    <2>2. CASE d # cur[w]
      <3>1. \A v \in Writer : bak'[v][d] = bak[v][d]
        BY <2>2
      <3> QED BY <1>4, <3>1 DEF Held
    <2> QED BY <2>1, <2>2
  <1> QED BY <1>3, <1>4

(* Putting a version at a destination, from a staged file or from a copy.  *)
LEMMA SparePlaced ==
    ASSUME TypeOK, CopiesAreSpare, NEW c \in Dest, NEW f \in Report,
           disk' = [disk EXCEPT ![c] = f],
           \A v \in Writer : \A d \in Dest \ {c} :
               /\ bak'[v][d] = bak[v][d]
               /\ d \in completed'[v] <=> d \in completed[v]
    PROVE  CopiesAreSpare' /\ \A d \in Dest : Held(d) => Held(d)'
  <1> USE ReportPairAssumption DEF TypeOK
  <1>1. disk'[c] # Absent
    OBVIOUS
  <1>2. ASSUME NEW d \in Dest, d # c
        PROVE  /\ SafelyHeld(d)' <=> SafelyHeld(d)
               /\ Held(d)' <=> Held(d)
    <2>1. disk'[d] = disk[d]
      BY <1>2
    <2>2. \A v \in Writer : /\ bak'[v][d] = bak[v][d]
                            /\ d \in completed'[v] <=> d \in completed[v]
      BY <1>2
    <2> QED BY <2>1, <2>2 DEF SafelyHeld, Held
  <1>3. SafelyHeld(c)' /\ Held(c)'
    BY <1>1 DEF SafelyHeld, Held
  <1>4. ASSUME NEW d \in Dest,
               NEW v \in Writer, (bak[v][d] # Absent \/ d \in completed[v])'
        PROVE  SafelyHeld(d)'
    <2>1. CASE d = c
      BY <2>1, <1>3
    <2>2. CASE d # c
      <3>1. bak[v][d] # Absent \/ d \in completed[v]
        BY <1>4, <2>2
      <3> QED BY <1>2, <2>2, <3>1 DEF CopiesAreSpare
    <2> QED BY <2>1, <2>2
  <1> QED BY <1>2, <1>3, <1>4 DEF CopiesAreSpare

FilesKept == \A d \in Dest : Held(d) => Held(d)'

(* Moving a destination aside keeps it, in the writer's copy.              *)
LEMMA SpareBackup ==
    ASSUME TypeOK, PhaseOK, CopiesAreSpare, NEW w \in Writer, Backup(w)
    PROVE  CopiesAreSpare' /\ FilesKept
  <1> USE DEF TypeOK
  <1>1. cur[w] \in Dest /\ cur[w] \notin completed[w]
    BY DEF PhaseOK, InPhase, Backup
  <1>2. bak'[w][cur[w]] # Absent /\ completed' = completed
    BY DEF Backup
  <1>3. ASSUME NEW d \in Dest, d # cur[w]
        PROVE  /\ disk'[d] = disk[d]
               /\ \A v \in Writer : bak'[v][d] = bak[v][d]
    BY <1>3 DEF Backup
  <1>4. ASSUME NEW d \in Dest
        PROVE  /\ SafelyHeld(d) => SafelyHeld(d)'
               /\ Held(d) => Held(d)'
               /\ d = cur[w] => SafelyHeld(d)'
    <2>1. CASE d = cur[w]
      BY <1>1, <1>2, <2>1 DEF SafelyHeld, Held
    <2>2. CASE d # cur[w]
      BY <1>2, <1>3, <2>2 DEF SafelyHeld, Held
    <2> QED BY <2>1, <2>2
  <1>5. ASSUME NEW d \in Dest, d # cur[w], NEW v \in Writer,
               (bak[v][d] # Absent \/ d \in completed[v])'
        PROVE  bak[v][d] # Absent \/ d \in completed[v]
    BY <1>2, <1>3, <1>5
  <1>6. CopiesAreSpare'
    BY <1>4, <1>5 DEF CopiesAreSpare
  <1> QED BY <1>4, <1>6 DEF FilesKept

(* Every step keeps the copies spare, and loses no file.                   *)
LEMMA SpareStep ==
    IInv /\ [Next]_vars => CopiesAreSpare' /\ FilesKept
  <1> SUFFICES ASSUME TypeOK, PhaseOK, CopiesAreSpare, [Next]_vars
               PROVE  CopiesAreSpare' /\ FilesKept
    BY DEF IInv
  <1>0. ASSUME UNCHANGED <<disk, bak, completed>>
        PROVE  CopiesAreSpare' /\ FilesKept
    BY <1>0, SpareFrame DEF FilesKept, Held
  <1>1. ASSUME NEW w \in Writer, Step(w)
        PROVE  CopiesAreSpare' /\ FilesKept
    <2> USE DEF TypeOK
    <2>0. InPhase(w) /\ cur[w] \in Dest
      BY DEF PhaseOK
    <2>1. CASE \/ Stage(w) \/ StageFails(w) \/ Probe(w) \/ BackupFails(w)
               \/ ReplaceFails(w) \/ RestoreFails(w) \/ UnlinkFails(w)
               \/ RollbackFails(w) \/ CleanTmp(w) \/ CleanFails(w)
      BY <2>1, <1>0 DEF Stage, StageFails, Probe, BackupFails, ReplaceFails,
         RestoreFails, UnlinkFails, RollbackFails, CleanTmp, CleanFails
    <2>2. CASE Backup(w)
      BY <2>2, SpareBackup
    <2>3. CASE Replace(w)
      <3> DEFINE f == tmp[w][cur[w]]
      <3>1. f \in Report
        BY <2>0, <2>3 DEF Replace, InPhase
      <3>2. \A v \in Writer : \A d \in Dest \ {cur[w]} :
                /\ bak'[v][d] = bak[v][d]
                /\ d \in completed'[v] <=> d \in completed[v]
        BY <2>3 DEF Replace
      <3> QED BY <2>0, <2>3, <3>1, <3>2, SparePlaced DEF Replace, FilesKept
    <2>4. CASE Restore(w)
      <3> DEFINE f == bak[w][cur[w]]
      <3>1. f \in Report
        BY <2>0, <2>4 DEF Restore, InPhase
      <3>2. \A v \in Writer : \A d \in Dest \ {cur[w]} :
                /\ bak'[v][d] = bak[v][d]
                /\ d \in completed'[v] <=> d \in completed[v]
        BY <2>4 DEF Restore
      <3> QED BY <2>0, <2>4, <3>1, <3>2, SparePlaced DEF Restore, FilesKept
    <2>5. CASE Unlink(w)
      BY <2>0, <2>5, SpareDeleted DEF Unlink, InPhase, FilesKept
    <2>6. CASE Rollback(w) /\ MustRollBack(w)
      <3> DEFINE f == bak[w][cur[w]]
      <3>1. f \in Report
        BY <2>0, <2>6 DEF MustRollBack
      <3>2. \A v \in Writer : \A d \in Dest \ {cur[w]} :
                /\ bak'[v][d] = bak[v][d]
                /\ d \in completed'[v] <=> d \in completed[v]
        BY <2>6 DEF Rollback
      <3> QED BY <2>0, <2>6, <3>1, <3>2, SparePlaced DEF Rollback, FilesKept
    <2>7. CASE Rollback(w) /\ ~MustRollBack(w)
      BY <2>7, <1>0 DEF Rollback
    <2>8. CASE CleanBak(w)
      BY <2>8, <1>0, SpareDeleted DEF CleanBak, FilesKept
    <2> QED BY <1>1, <2>1, <2>2, <2>3, <2>4, <2>5, <2>6, <2>7, <2>8 DEF Step
  <1>2. ASSUME NEW w \in Writer,
               (\E r \in Report : Begin(w, r)) \/ Interrupt(w) \/ Crash(w)
        PROVE  CopiesAreSpare' /\ FilesKept
    BY <1>0, <1>2 DEF Begin, Interrupt, Crash
  <1>3. CASE UNCHANGED vars
    BY <1>0, <1>3 DEF vars
  <1> QED BY <1>1, <1>2, <1>3 DEF Next

(* The invariant the others follow from.                                   *)
LEMMA Inductive == Spec => []IInv
  <1>1. IInv /\ [Next]_vars => IInv'
    BY TypeStep, PhaseStep, SpareStep DEF IInv
  <1> QED BY InitInv, <1>1, PTL DEF Spec

(* Every variable of the writers and the folder keeps its type.            *)
THEOREM TypeCorrect == Spec => []TypeOK
  <1>1. IInv => TypeOK
    BY DEF IInv
  <1> QED BY Inductive, <1>1, PTL

(* Where a copy of a destination lies, or a destination was replaced, a    *)
(* version exists that no `finally` clause will delete.                    *)
THEOREM SpareCopies == Spec => []CopiesAreSpare
  <1>1. IInv => CopiesAreSpare
    BY DEF IInv
  <1> QED BY Inductive, <1>1, PTL

(* No sequence of failing calls, interrupts, kills and overlapping runs    *)
(* leaves a destination that held a report with no version of it on disk.  *)
THEOREM NothingLost == Spec => NoFileLost
  <1>1. IInv /\ [Next]_vars => [\A d \in Dest : Held(d) => Held(d)']_vars
    BY SpareStep DEF FilesKept
  <1> QED BY Inductive, <1>1, PTL DEF Spec, NoFileLost

-----------------------------------------------------------------------------
(* OldPairOrNewPair.  A run nobody overlaps finds each destination where   *)
(* its own last step left it; OneFault is the promise's hypothesis on how  *)
(* it failed.                                                              *)
OneFault(w) == \E c \in UndoableCalls : faults[w] = <<c>>

HadPair(w) == \A d \in Dest : before[w][d] # Absent

Untouched(w, d) == disk[d] = before[w][d] /\ bak[w][d] = Absent

(* A writer that has not begun has no copies and no faults.                *)
FreshOK ==
    \A w \in Writer :
        at[w] = "idle" =>
            faults[w] = <<>> /\ ~raising[w] /\ bak[w] = NoFiles

(* A run that is still alone shares its time with no other.                *)
AloneOK ==
    \A v, w \in Writer : alone[w] /\ Running(w) /\ Running(v) => v = w

(* Going forward: nothing failed; what is in `completed` is replaced and   *)
(* has its copy, what is not is as the run found it.                       *)
ForwardOK(w) ==
    /\ at[w] \in {"stage", "probe", "backup", "replace", "unlink"} =>
         faults[w] = <<>> /\ ~raising[w]
    /\ at[w] = "restore" => faults[w] = <<"replace">>
    /\ at[w] \in {"stage"} \cup Replacing =>
         \A d \in Dest :
            IF d \in completed[w]
            THEN disk[d] = report[w] /\ bak[w][d] = before[w][d]
            ELSE IF d = cur[w] /\ at[w] \in {"replace", "restore"}
            THEN bak[w][d] = before[w][d]
            ELSE Untouched(w, d)
    /\ at[w] = "unlink" => \A d \in Dest : disk[d] = report[w]

(* Going back: a destination is as it was, or waits for its turn in the    *)
(* rollback with its copy.                                                 *)
BackwardOK(w) ==
    /\ at[w] = "rollback" => raising[w]
    /\ at[w] = "rollback" /\ OneFault(w) /\ HadPair(w) =>
         \A d \in Dest :
            \/ Untouched(w, d)
            \/ /\ d \in completed[w] /\ bak[w][d] = before[w][d]
               /\ cur[w] = "md" \/ d = "json"
    /\ at[w] \in Finally /\ raising[w] /\ OneFault(w) /\ HadPair(w) =>
         disk = before[w]
    /\ at[w] \in Finally /\ ~raising[w] => disk = [d \in Dest |-> report[w]]

LoneOK ==
    \A w \in Writer : alone[w] /\ Running(w) => ForwardOK(w) /\ BackwardOK(w)

LoneInv == IInv /\ FreshOK /\ AloneOK /\ LoneOK

LEMMA LoneInit == Init => LoneInv
  <1> SUFFICES ASSUME Init PROVE LoneInv
    OBVIOUS
  <1>1. FreshOK
    BY DEF Init, FreshOK
  <1>2. \A w \in Writer : ~Running(w)
    BY DEF Init, Running
  <1>3. AloneOK /\ LoneOK
    BY <1>2 DEF AloneOK, LoneOK
  <1> QED BY <1>1, <1>3, InitInv DEF LoneInv

(* A writer moves itself and no other.                                     *)
LEMMA OthersStand ==
    ASSUME TypeOK, NEW w \in Writer, Step(w) \/ Interrupt(w) \/ Crash(w)
    PROVE  /\ UNCHANGED <<alone, report, before>>
           /\ Running(w) /\ at'[w] # "idle"
           /\ \A v \in Writer \ {w} :
                /\ at'[v] = at[v] /\ faults'[v] = faults[v]
                /\ raising'[v] = raising[v] /\ bak'[v] = bak[v]
  <1> USE DEF TypeOK, Running
  <1>1. CASE Stage(w)
    BY <1>1 DEF Stage, Forward, Goto
  <1>2. CASE StageFails(w)
    BY <1>2 DEF StageFails, Fault, Raise, Goto
  <1>3. CASE Probe(w)
    BY <1>3 DEF Probe, Goto
  <1>4. CASE Backup(w)
    BY <1>4 DEF Backup, Goto
  <1>5. CASE BackupFails(w)
    BY <1>5 DEF BackupFails, Fault, Raise, Goto
  <1>6. CASE Replace(w)
    BY <1>6 DEF Replace, Forward, Goto
  <1>7. CASE ReplaceFails(w)
    BY <1>7 DEF ReplaceFails, Fault, Raise, Goto
  <1>8. CASE Restore(w)
    BY <1>8 DEF Restore, Raise, Goto
  <1>9. CASE RestoreFails(w)
    BY <1>9 DEF RestoreFails, Fault, Raise, Goto
  <1>10. CASE Unlink(w)
    BY <1>10 DEF Unlink, Forward, Goto
  <1>11. CASE UnlinkFails(w)
    BY <1>11 DEF UnlinkFails, Fault, Raise, Goto
  <1>12. CASE Rollback(w)
    BY <1>12 DEF Rollback, Backward, Goto
  <1>13. CASE RollbackFails(w)
    BY <1>13 DEF RollbackFails, Fault, Goto
  <1>14. CASE CleanTmp(w)
    BY <1>14 DEF CleanTmp, Forward, Goto
  <1>15. CASE CleanBak(w)
    BY <1>15 DEF CleanBak, Forward, Goto
  <1>16. CASE CleanFails(w)
    BY <1>16 DEF CleanFails, Fault, Goto
  <1>17. CASE Interrupt(w)
    BY <1>17 DEF Interrupt, Goto
  <1>18. CASE Crash(w)
    BY <1>18 DEF Crash, Goto
  <1> QED
    BY <1>1, <1>2, <1>3, <1>4, <1>5, <1>6, <1>7, <1>8, <1>9, <1>10, <1>11,
       <1>12, <1>13, <1>14, <1>15, <1>16, <1>17, <1>18 DEF Step

(* A second fault, or a fault that is not undoable, voids the promise.     *)
LEMMA FaultCounts ==
    ASSUME TypeOK, NEW w \in Writer, NEW c \in Calls \cup {"interrupt"},
           faults' = [faults EXCEPT ![w] = Append(@, c)]
    PROVE  /\ OneFault(w)' <=> faults[w] = <<>> /\ c \in UndoableCalls
           /\ faults[w] = <<>> => faults'[w] = <<c>>
  <1>1. /\ faults[w] \in Seq(Calls \cup {"interrupt"})
        /\ faults'[w] = Append(faults[w], c)
    BY DEF TypeOK
  <1>2. ASSUME NEW e, Append(faults[w], c) = <<e>>
        PROVE  faults[w] = <<>> /\ c = e
    <2> DEFINE s == faults[w]
    <2>1. s \in Seq(Calls \cup {"interrupt"})
      BY <1>1
    <2>2. Len(Append(s, c)) = Len(s) + 1 /\ Append(s, c)[Len(s) + 1] = c
      BY <2>1
    <2>3. Len(<<e>>) = 1 /\ <<e>>[1] = e
      OBVIOUS
    <2>4. Len(s) = 0
      BY <1>2, <2>1, <2>2, <2>3
    <2> QED BY <1>2, <2>1, <2>2, <2>3, <2>4
  <1>3. faults[w] = <<>> => faults'[w] = <<c>>
    BY <1>1
  <1> QED BY <1>1, <1>2, <1>3 DEF OneFault

(* The steps of a run that is still alone.                                 *)
LEMMA LoneStep ==
    ASSUME LoneInv, TypeOK', NEW w \in Writer, alone[w],
           Step(w) \/ Interrupt(w), Running(w)'
    PROVE  ForwardOK(w)' /\ BackwardOK(w)'
  <1>0. /\ TypeOK /\ InPhase(w) /\ ForwardOK(w) /\ BackwardOK(w)
        /\ UNCHANGED <<report, before>>
    BY OthersStand DEF LoneInv, IInv, PhaseOK, LoneOK
  <1> USE <1>0
  <1>1. CASE Stage(w)
    <2>1. completed[w] = {} /\ at[w] = "stage"
      BY <1>1 DEF Stage, InPhase
    <2> QED BY <1>1, <2>1 DEF Stage, Forward, Goto, ForwardOK, BackwardOK,
       Untouched, TypeOK
  <1>3. CASE Probe(w)
    BY <1>3 DEF Probe, Goto, ForwardOK, BackwardOK, Untouched, TypeOK
  <1>4. CASE Backup(w)
    <2>1. /\ at[w] = "backup" /\ at'[w] = "replace" /\ cur'[w] = cur[w]
          /\ UNCHANGED <<completed, faults, raising>>
          /\ bak'[w][cur[w]] = disk[cur[w]]
          /\ \A d \in Dest \ {cur[w]} :
                disk'[d] = disk[d] /\ bak'[w][d] = bak[w][d]
      BY <1>4 DEF Backup, Goto, TypeOK
    <2>2. cur[w] \in Dest /\ cur[w] \notin completed[w]
      BY <2>1 DEF TypeOK, InPhase
    <2>3. ForwardOK(w)'
      BY <2>1, <2>2 DEF ForwardOK, Untouched
    <2> QED BY <2>1, <2>3 DEF BackwardOK
  <1>6. CASE Replace(w)
    BY <1>6 DEF Replace, Forward, Goto, ForwardOK, BackwardOK, Untouched,
       TypeOK, InPhase
  <1>8. CASE Restore(w)
    BY <1>8 DEF Restore, Raise, Goto, ForwardOK, BackwardOK, Untouched,
       TypeOK, InPhase
  <1>10. CASE Unlink(w)
    BY <1>10 DEF Unlink, Forward, Goto, ForwardOK, BackwardOK, Untouched,
       TypeOK, InPhase
  <1>12. CASE Rollback(w)
    <2>1. /\ at[w] = "rollback" /\ raising[w]
          /\ UNCHANGED <<completed, faults, raising>>
          /\ IF cur[w] = "md" THEN at'[w] = "rollback" /\ cur'[w] = "json"
                             ELSE at'[w] = "cleanTmp" /\ cur'[w] = "json"
      BY <1>12 DEF Rollback, Backward, Goto, TypeOK, BackwardOK
    <2>2. /\ IF MustRollBack(w)
             THEN disk'[cur[w]] = bak[w][cur[w]] /\ bak'[w][cur[w]] = Absent
             ELSE disk'[cur[w]] = disk[cur[w]] /\ bak'[w][cur[w]] = bak[w][cur[w]]
          /\ \A d \in Dest \ {cur[w]} :
                disk'[d] = disk[d] /\ bak'[w][d] = bak[w][d]
      BY <1>12 DEF Rollback, TypeOK
    <2>3. cur[w] \in Dest /\ (OneFault(w)' <=> OneFault(w))
          /\ (HadPair(w)' <=> HadPair(w))
      BY <2>1 DEF TypeOK, OneFault, HadPair
    <2>4. ASSUME OneFault(w), HadPair(w), NEW d \in Dest
          PROVE  \/ Untouched(w, d)'
                 \/ /\ cur[w] = "md" /\ d = "json" /\ d \in completed[w]
                    /\ bak'[w][d] = before[w][d]
      BY <2>1, <2>2, <2>3, <2>4 DEF BackwardOK, Untouched, MustRollBack,
         HadPair
    <2>5. disk' \in [Dest -> File] /\ before[w] \in [Dest -> File]
      BY DEF TypeOK
    <2>6. ForwardOK(w)'
      BY <2>1 DEF ForwardOK
    <2>7. OneFault(w) /\ HadPair(w) /\ at'[w] = "cleanTmp" => disk' = before[w]
      BY <2>1, <2>4, <2>5 DEF Untouched
    <2> QED
      BY <2>1, <2>3, <2>4, <2>6, <2>7 DEF BackwardOK
  <1>14. CASE CleanTmp(w)
    BY <1>14 DEF CleanTmp, Forward, Goto, ForwardOK, BackwardOK, TypeOK,
       OneFault, HadPair
  <1>15. CASE CleanBak(w)
    BY <1>15 DEF CleanBak, Forward, Goto, ForwardOK, BackwardOK, TypeOK,
       OneFault, HadPair
  <1>2. /\ at'[w] = "rollback" /\ cur'[w] = "md" /\ raising'[w]
        /\ UNCHANGED <<disk, bak, completed>>
        /\ \/ ~OneFault(w)'
           \/ at[w] \in {"stage", "probe", "backup"}
           \/ at[w] = "replace" /\ bak[w][cur[w]] = Absent
        => ForwardOK(w)' /\ BackwardOK(w)'
    <2> SUFFICES
          ASSUME at'[w] = "rollback", cur'[w] = "md", raising'[w],
                 UNCHANGED <<disk, bak, completed>>,
                 \/ ~OneFault(w)'
                 \/ at[w] \in {"stage", "probe", "backup"}
                 \/ at[w] = "replace" /\ bak[w][cur[w]] = Absent
          PROVE  ForwardOK(w)' /\ BackwardOK(w)'
      OBVIOUS
    <2>1. ASSUME OneFault(w)', HadPair(w)', NEW d \in Dest
          PROVE  \/ Untouched(w, d)'
                 \/ d \in completed[w] /\ bak[w][d] = before[w][d]
      BY <2>1 DEF ForwardOK, Untouched, HadPair, TypeOK
    <2> QED BY <2>1 DEF ForwardOK, BackwardOK
  <1>5. CASE StageFails(w)
    <2>1. /\ at'[w] = "rollback" /\ cur'[w] = "md" /\ raising'[w]
          /\ UNCHANGED <<disk, bak, completed>>
      BY <1>5 DEF StageFails, Raise, Goto, TypeOK
    <2>2. at[w] = "stage"
      BY <1>5 DEF StageFails
    <2> QED BY <2>1, <2>2, <1>2
  <1>7. CASE BackupFails(w)
    <2>1. /\ at'[w] = "rollback" /\ cur'[w] = "md" /\ raising'[w]
          /\ UNCHANGED <<disk, bak, completed>>
      BY <1>7 DEF BackupFails, Raise, Goto, TypeOK
    <2>2. at[w] = "backup"
      BY <1>7 DEF BackupFails
    <2> QED BY <2>1, <2>2, <1>2
  <1>9. CASE ReplaceFails(w)
    <2>1. CASE bak[w][cur[w]] = Absent
      BY <1>9, <1>2, <2>1 DEF ReplaceFails, Raise, Goto, TypeOK
    <2>2. CASE bak[w][cur[w]] # Absent
      <3>1. /\ at[w] = "replace" /\ at'[w] = "restore" /\ cur'[w] = cur[w]
            /\ UNCHANGED <<disk, bak, completed, raising>>
        BY <1>9, <2>2 DEF ReplaceFails, Goto, TypeOK
      <3>2. faults'[w] = <<"replace">>
        BY <1>9, <3>1, FaultCounts DEF ReplaceFails, Fault, ForwardOK
      <3>3. ForwardOK(w)'
        BY <3>1, <3>2 DEF ForwardOK, Untouched
      <3> QED BY <3>1, <3>3 DEF BackwardOK
    <2> QED BY <2>1, <2>2
  <1>11. CASE RestoreFails(w)
    <2>1. faults[w] = <<"replace">>
      BY <1>11 DEF RestoreFails, ForwardOK
    <2>2. ~OneFault(w)'
      <3>1. <<"replace">> # <<>>
        OBVIOUS
      <3> QED BY <1>11, <2>1, <3>1, FaultCounts DEF RestoreFails, Fault
    <2>3. /\ at'[w] = "rollback" /\ cur'[w] = "md" /\ raising'[w]
          /\ UNCHANGED <<disk, bak, completed>>
      BY <1>11 DEF RestoreFails, Raise, Goto, TypeOK
    <2> QED BY <2>2, <2>3, <1>2
  <1>13. CASE UnlinkFails(w)
    <2>1. ~OneFault(w)'
      BY <1>13, FaultCounts DEF UnlinkFails, Fault, UndoableCalls
    <2>3. /\ at'[w] = "rollback" /\ cur'[w] = "md" /\ raising'[w]
          /\ UNCHANGED <<disk, bak, completed>>
      BY <1>13 DEF UnlinkFails, Raise, Goto, TypeOK
    <2> QED BY <2>1, <2>3, <1>2
  <1>16. ASSUME at'[w] \in Finally, raising'[w], ~OneFault(w)'
         PROVE  ForwardOK(w)' /\ BackwardOK(w)'
    BY <1>16 DEF ForwardOK, BackwardOK
  <1>17. CASE RollbackFails(w)
    <2>1. ~OneFault(w)'
      BY <1>17, FaultCounts DEF RollbackFails, Fault, UndoableCalls
    <2> QED BY <1>17, <2>1, <1>16 DEF RollbackFails, Goto, TypeOK, BackwardOK
  <1>18. CASE Interrupt(w)
    <2>1. ~OneFault(w)'
      <3>1. faults' = [faults EXCEPT ![w] = Append(@, "interrupt")]
        BY <1>18 DEF Interrupt
      <3>2. "interrupt" \notin UndoableCalls
        BY DEF UndoableCalls
      <3> QED BY <3>1, <3>2, FaultCounts
    <2> QED BY <1>18, <2>1, <1>16 DEF Interrupt, Goto, TypeOK
  <1>19. CASE CleanFails(w)
    BY <1>19 DEF CleanFails, Goto, Running, TypeOK
  <1> QED
    BY <1>1, <1>3, <1>4, <1>5, <1>6, <1>7, <1>8, <1>9, <1>10, <1>11, <1>12,
       <1>13, <1>14, <1>15, <1>17, <1>18, <1>19 DEF Step

(* Every step keeps the invariant.                                         *)
LEMMA LoneInductive == LoneInv /\ [Next]_vars => LoneInv'
  <1> SUFFICES ASSUME LoneInv, [Next]_vars PROVE LoneInv'
    OBVIOUS
  <1>0. IInv' /\ TypeOK /\ TypeOK' /\ PhaseOK'
    BY TypeStep, PhaseStep, SpareStep DEF LoneInv, IInv
  <1> USE <1>0
  <1>1. ASSUME NEW w \in Writer, NEW r \in Report, Begin(w, r)
        PROVE  LoneInv'
    <2>1. /\ at[w] = "idle" /\ at'[w] = "stage"
          /\ UNCHANGED <<disk, bak, faults, raising>>
          /\ before'[w] = disk /\ Running(w)'
          /\ \A v \in Writer \ {w} :
                at'[v] = at[v] /\ (Running(v)' <=> Running(v))
      BY <1>1 DEF Begin, Goto, TypeOK, Running
    <2>2. \A v \in Writer :
             alone'[v] = IF v = w THEN {u \in Writer : Running(u)} = {}
                         ELSE alone[v] /\ ~Running(v)
      BY <1>1 DEF Begin
    <2>3. FreshOK'
      BY <2>1 DEF LoneInv, FreshOK
    <2>4. \A v \in Writer : alone'[v] /\ Running(v)' => v = w
      BY <2>1, <2>2
    <2>5. AloneOK'
      BY <2>1, <2>2, <2>4 DEF AloneOK
    <2>6. ForwardOK(w)' /\ BackwardOK(w)'
      <3>1. faults[w] = <<>> /\ ~raising[w] /\ \A d \in Dest : bak[w][d] = Absent
        BY <2>1 DEF LoneInv, FreshOK, NoFiles
      <3>2. completed'[w] = {}
        BY <2>1 DEF PhaseOK, InPhase
      <3> QED BY <2>1, <3>1, <3>2 DEF ForwardOK, BackwardOK, Untouched
    <2> QED BY <2>3, <2>4, <2>5, <2>6 DEF LoneInv, LoneOK
  <1>2. ASSUME NEW w \in Writer, Step(w) \/ Interrupt(w) \/ Crash(w)
        PROVE  LoneInv'
    <2>1. /\ UNCHANGED <<alone, report, before>>
          /\ Running(w) /\ at'[w] # "idle"
          /\ \A v \in Writer \ {w} :
                /\ at'[v] = at[v] /\ faults'[v] = faults[v]
                /\ raising'[v] = raising[v] /\ bak'[v] = bak[v]
      BY <1>2, OthersStand
    <2>2. FreshOK'
      BY <2>1 DEF LoneInv, FreshOK
    <2>3. \A v \in Writer : Running(v)' => Running(v)
      BY <2>1 DEF Running
    <2>4. AloneOK'
      BY <2>1, <2>3 DEF LoneInv, AloneOK
    <2>5. \A v \in Writer : alone'[v] /\ Running(v)' => v = w
      BY <2>1, <2>3 DEF LoneInv, AloneOK
    <2>6. ASSUME alone'[w], Running(w)' PROVE ForwardOK(w)' /\ BackwardOK(w)'
      <3>1. ~Crash(w)
        BY <2>6 DEF Crash, Goto, Running, TypeOK
      <3> QED BY <1>2, <2>1, <2>6, <3>1, LoneStep
    <2> QED BY <2>2, <2>4, <2>5, <2>6 DEF LoneInv, LoneOK
  <1>3. CASE UNCHANGED vars
    BY <1>3 DEF vars, LoneInv, FreshOK, AloneOK, LoneOK, ForwardOK, BackwardOK,
       Untouched, OneFault, HadPair, Running
  <1> QED BY <1>1, <1>2, <1>3 DEF Next

(* How a run that was alone ends.                                          *)
LEMMA LoneEnd ==
    ASSUME LoneInv, TypeOK', NEW w \in Writer, alone[w], Running(w), [Next]_vars
    PROVE  /\ at'[w] = "done" => disk' = [d \in Dest |-> report[w]]
           /\ at'[w] = "failed" /\ HadPair(w) /\ OneFault(w)' => disk' = before[w]
  <1>0. TypeOK /\ BackwardOK(w)
    BY DEF LoneInv, IInv, LoneOK
  <1> SUFFICES ASSUME at'[w] \in {"done", "failed"}
               PROVE  /\ at'[w] = "done" => disk' = [d \in Dest |-> report[w]]
                      /\ at'[w] = "failed" /\ HadPair(w) /\ OneFault(w)'
                           => disk' = before[w]
    OBVIOUS
  <1>1. ASSUME NEW v \in Writer, v # w,
               \/ Step(v) \/ Interrupt(v) \/ Crash(v)
               \/ \E r \in Report : Begin(v, r)
        PROVE  FALSE
    <2>1. at'[w] = at[w]
      BY <1>0, <1>1, OthersStand DEF Begin, Goto, TypeOK
    <2> QED BY <2>1 DEF Running
  <1>2. ~UNCHANGED vars
    BY DEF vars, Running
  <1>3. ~Interrupt(w) /\ ~Crash(w) /\ \A r \in Report : ~Begin(w, r)
    BY <1>0 DEF Interrupt, Crash, Begin, Goto, Running, TypeOK
  <1>4. Step(w)
    BY <1>1, <1>2, <1>3 DEF Next
  <1>5. CleanBak(w) \/ CleanFails(w)
    BY <1>0, <1>4 DEF Step, Stage, StageFails, Probe, Backup, BackupFails,
       Replace,
       ReplaceFails, Restore, RestoreFails, Unlink, UnlinkFails, Rollback,
       RollbackFails, CleanTmp, Forward, Backward, Raise, Goto, TypeOK
  <1>6. CASE CleanBak(w)
    BY <1>0, <1>6 DEF CleanBak, Forward, Goto, TypeOK, BackwardOK, OneFault
  <1>7. CASE CleanFails(w)
    <2>1. at'[w] = "failed"
      BY <1>0, <1>7 DEF CleanFails, Goto, TypeOK
    <2>2. ~OneFault(w)'
      <3>1. faults' = [faults EXCEPT ![w] = Append(@, "unlink")]
        BY <1>7 DEF CleanFails, Fault
      <3>2. "unlink" \in Calls \ UndoableCalls
        BY DEF UndoableCalls
      <3> QED BY <1>0, <3>1, <3>2, FaultCounts
    <2> QED BY <2>1, <2>2
  <1> QED BY <1>5, <1>6, <1>7

(* A run of `_write_report_pair` that nobody overlaps and that fails for   *)
(* one refused staging or rename leaves the previous pair; one that        *)
(* reports success has written both files.                                 *)
THEOREM OldOrNew == Spec => OldPairOrNewPair
  <1> DEFINE A ==
        \A w \in Writer :
          alone[w] /\ Running(w) =>
             /\ at'[w] = "done" => disk' = [d \in Dest |-> report[w]]
             /\ (/\ at'[w] = "failed"
                 /\ \A d \in Dest : before[w][d] # Absent
                 /\ \E c \in UndoableCalls : faults'[w] = <<c>>)
                => disk' = before[w]
  <1>1. LoneInv /\ [Next]_vars => [A]_vars
    <2> SUFFICES ASSUME LoneInv, [Next]_vars PROVE A
      OBVIOUS
    <2>1. TypeOK'
      BY LoneInductive DEF LoneInv, IInv
    <2> QED BY <2>1, LoneEnd DEF OneFault, HadPair
  <1> QED BY LoneInit, LoneInductive, <1>1, PTL DEF Spec, OldPairOrNewPair

-----------------------------------------------------------------------------

(* What a mail is: a report as JSON and a report as Markdown, under the key *)
(* Resend remembers.                                                        *)
Mail == [key : {ReportId(r) : r \in File}, json : File, md : File]

MailTypeOK ==
    /\ task \in [Run -> {"none"} \cup Open \cup Over]
    /\ got \in [Run -> [Dest -> File]]
    /\ mailbox \in Seq(Mail)

(* A run posts the pair it has checked, and nothing it reads changes after. *)
PostedIsOnePair ==
    \A p \in Run : task[p] = "post" => got[p]["json"] = got[p]["md"]

(* Each mail lies under the key its JSON makes.                             *)
MailIsKeyed ==
    \A i \in DOMAIN mailbox : mailbox[i].key = ReportId(mailbox[i].json)

MailInv ==
    /\ TypeOK
    /\ MailTypeOK
    /\ PostedIsOnePair
    /\ MailIsKeyed
    /\ MailIsOnePair
    /\ OneMailPerId
    /\ SentMeansMailed

LEMMA MailInit == DeliveryInit => MailInv
  <1> SUFFICES ASSUME DeliveryInit PROVE MailInv
    OBVIOUS
  <1>1. TypeOK
    <2>1. Init
      BY DEF DeliveryInit
    <2> QED BY <2>1, InitInv DEF IInv
  <1>2. MailTypeOK
    BY DEF DeliveryInit, MailTypeOK, NoFiles
  <1>3. mailbox = <<>> /\ DOMAIN mailbox = {} /\ ToSet(mailbox) = {}
    BY DEF DeliveryInit, ToSet
  <1>4. \A p \in Run : task[p] = "none"
    BY DEF DeliveryInit
  <1> QED
    BY <1>1, <1>2, <1>3, <1>4 DEF MailInv, PostedIsOnePair, MailIsKeyed,
       MailIsOnePair, OneMailPerId, SentMeansMailed

(* The folder changes as `_write_report_pair` changes it, or not at all.    *)
LEMMA PairOnly == DeliveryNext => [Next]_vars
  BY DEF DeliveryNext, WritePair, StartResend, Advance, Kill, StartCsv,
     WriteCsv, ReadFile, ReadJson, ReadMd, CheckDigest, PostAnswered,
     PostUnanswered, PostRejected

(* Resend's answer to one POST of a checked pair: the mailbox keeps its     *)
(* shape, and holds a mail of that Report ID afterwards.                    *)
LEMMA Accepted ==
    ASSUME MailInv, NEW p \in Run, task[p] = "post", Accept(p)
    PROVE  /\ mailbox' \in Seq(Mail)
           /\ MailIsKeyed' /\ MailIsOnePair' /\ OneMailPerId'
           /\ ToSet(mailbox) \subseteq ToSet(mailbox')
           /\ \E m \in ToSet(mailbox') :
                  ReportId(m.json) = ReportId(got[p]["json"])
  <1> DEFINE mail == [key  |-> IdempotencyKey(p),
                      json |-> got[p]["json"], md |-> got[p]["md"]]
  <1>0. /\ mailbox \in Seq(Mail) /\ got[p] \in [Dest -> File]
        /\ mail \in Mail /\ mail.key = ReportId(mail.json)
        /\ mail.json = mail.md /\ mail.json = got[p]["json"]
    <2>1. /\ mailbox \in Seq(Mail) /\ got[p] \in [Dest -> File]
          /\ got[p]["json"] = got[p]["md"]
      BY DEF MailInv, MailTypeOK, PostedIsOnePair
    <2>2. got[p]["json"] \in File /\ got[p]["md"] \in File
      BY <2>1
    <2>3. /\ mail.key = ReportId(mail.json) /\ mail.json = mail.md
          /\ mail.json = got[p]["json"]
      BY <2>1 DEF IdempotencyKey
    <2>4. mail \in Mail
      BY <2>2 DEF IdempotencyKey, Mail
    <2> QED BY <2>1, <2>3, <2>4
  <1> HIDE DEF mail
  <1>1. CASE \E m \in ToSet(mailbox) : m.key = mail.key
    <2>1. mailbox' = mailbox
      BY <1>1 DEF Accept, mail
    <2>2. PICK i \in DOMAIN mailbox : mailbox[i].key = mail.key
      BY <1>1 DEF ToSet
    <2>3. mailbox[i] \in ToSet(mailbox)
      BY <2>2 DEF ToSet
    <2>4. ReportId(mailbox[i].json) = ReportId(got[p]["json"])
      BY <1>0, <2>2 DEF MailInv, MailIsKeyed
    <2> QED
      BY <1>0, <2>1, <2>3, <2>4 DEF MailInv, MailIsKeyed, MailIsOnePair,
         OneMailPerId
  <1>2. CASE ~ \E m \in ToSet(mailbox) : m.key = mail.key
    <2>1. mailbox' = Append(mailbox, mail)
      BY <1>2 DEF Accept, mail
    <2> DEFINE n == Len(mailbox)
    <2>2. /\ mailbox' \in Seq(Mail) /\ n \in Nat
          /\ DOMAIN mailbox = 1..n /\ DOMAIN mailbox' = 1..(n + 1)
          /\ mailbox'[n + 1] = mail
          /\ \A i \in 1..n : mailbox'[i] = mailbox[i]
      BY <1>0, <2>1
    <2>3. \A i \in 1..n : mailbox[i].key # mail.key
      <3>1. ASSUME NEW i \in 1..n PROVE mailbox[i] \in ToSet(mailbox)
        BY <2>2 DEF ToSet
      <3> QED BY <1>2, <3>1
    <2>4. MailIsKeyed'
      BY <1>0, <2>2 DEF MailInv, MailIsKeyed
    <2>5. \A i \in 1..n : mailbox[i].json = mailbox[i].md
      BY <2>2 DEF MailInv, MailIsOnePair, ToSet
    <2>6. MailIsOnePair'
      <3>1. \A i \in 1..(n + 1) : mailbox'[i].json = mailbox'[i].md
        <4>1. ASSUME NEW i \in 1..(n + 1) PROVE i \in 1..n \/ i = n + 1
          BY <2>2
        <4> QED BY <1>0, <2>2, <2>5, <4>1
      <3> QED BY <2>2, <3>1 DEF MailIsOnePair, ToSet
    <2>7. \A i \in 1..n : ReportId(mailbox[i].json) # ReportId(mail.json)
      BY <1>0, <2>2, <2>3 DEF MailInv, MailIsKeyed
    <2>8. OneMailPerId'
      BY <2>2, <2>7 DEF MailInv, OneMailPerId
    <2>9. ToSet(mailbox) \subseteq ToSet(mailbox')
      BY <2>2 DEF ToSet
    <2>10. mailbox'[n + 1] \in ToSet(mailbox')
      BY <2>2 DEF ToSet
    <2> QED BY <1>0, <2>2, <2>4, <2>6, <2>8, <2>9, <2>10
  <1> QED BY <1>1, <1>2

(* A step that posts nothing: what it may change is where the runs stand   *)
(* and what they have read.                                                *)
LEMMA NotPosting ==
    ASSUME MailInv, TypeOK', MailTypeOK', UNCHANGED mailbox,
           \A p \in Run :
               /\ task'[p] = "post" => got'[p]["json"] = got'[p]["md"]
               /\ task'[p] = "sent" => task[p] = "sent" /\ got'[p] = got[p]
    PROVE  MailInv'
  <1>1. PostedIsOnePair'
    BY DEF PostedIsOnePair
  <1>2. MailIsKeyed' /\ MailIsOnePair' /\ OneMailPerId'
    BY DEF MailInv, MailIsKeyed, MailIsOnePair, OneMailPerId
  <1>3. SentMeansMailed'
    BY DEF MailInv, SentMeansMailed
  <1> QED BY <1>1, <1>2, <1>3 DEF MailInv

(* A POST: the run that made it may now claim a mail, and no other run's   *)
(* claim is withdrawn.                                                     *)
LEMMA Posting ==
    ASSUME MailInv, TypeOK', NEW p \in Run, task[p] = "post",
           Accept(p) \/ UNCHANGED mailbox,
           NEW next \in {"sent", "post", "error"}, Proceed(p, next),
           next = "sent" => Accept(p),
           UNCHANGED got
    PROVE  MailInv'
  <1>1. task' \in [Run -> {"none"} \cup Open \cup Over]
    BY DEF MailInv, MailTypeOK, Proceed, Open, Over
  <1>2. \A q \in Run : task'[q] = IF q = p THEN next ELSE task[q]
    BY DEF MailInv, MailTypeOK, Proceed
  <1>3. PostedIsOnePair'
    BY <1>2 DEF MailInv, PostedIsOnePair
  <1>4. /\ mailbox' \in Seq(Mail)
        /\ MailIsKeyed' /\ MailIsOnePair' /\ OneMailPerId'
        /\ ToSet(mailbox) \subseteq ToSet(mailbox')
    <2>1. CASE Accept(p)
      BY <2>1, Accepted
    <2>2. CASE UNCHANGED mailbox
      BY <2>2 DEF MailInv, MailTypeOK, MailIsKeyed, MailIsOnePair, OneMailPerId
    <2> QED BY <2>1, <2>2
  <1>5. ASSUME NEW q \in Run, task'[q] = "sent"
        PROVE  \E m \in ToSet(mailbox') :
                   ReportId(m.json) = ReportId(got'[q]["json"])
    <2>1. CASE q = p
      <3>1. Accept(p)
        BY <1>2, <1>5, <2>1
      <3> QED BY <3>1, <2>1, Accepted
    <2>2. CASE q # p
      <3>1. task[q] = "sent"
        BY <1>2, <1>5, <2>2
      <3>2. PICK m \in ToSet(mailbox) :
                ReportId(m.json) = ReportId(got[q]["json"])
        BY <3>1 DEF MailInv, SentMeansMailed
      <3> QED BY <3>2, <1>4
    <2> QED BY <2>1, <2>2
  <1>6. SentMeansMailed'
    BY <1>5 DEF SentMeansMailed
  <1>7. MailTypeOK'
    BY <1>1, <1>4 DEF MailInv, MailTypeOK
  <1> QED BY <1>3, <1>4, <1>6, <1>7 DEF MailInv

(* Every step keeps the invariant.                                         *)
LEMMA MailStep == MailInv /\ [DeliveryNext]_allVars => MailInv'
  <1> SUFFICES ASSUME MailInv, [DeliveryNext]_allVars PROVE MailInv'
    OBVIOUS
  <1>0. TypeOK'
    BY PairOnly, TypeStep DEF MailInv, allVars
  <1> USE <1>0
  <1> DEFINE Phases == {"none"} \cup Open \cup Over
  <1>t. /\ task \in [Run -> Phases] /\ got \in [Run -> [Dest -> File]]
        /\ disk \in [Dest -> File] /\ mailbox \in Seq(Mail)
    BY DEF MailInv, MailTypeOK, TypeOK
  <1>1. CASE WritePair \/ UNCHANGED allVars
    <2>1. UNCHANGED <<task, got, mailbox>>
      BY <1>1 DEF WritePair, mailVars, allVars
    <2>2. MailTypeOK'
      BY <1>t, <2>1 DEF MailTypeOK
    <2> QED BY <2>1, <2>2, NotPosting DEF MailInv, PostedIsOnePair
  <1>2. ASSUME NEW p \in Run, NEW next \in Phases \ {"post", "sent"},
               Proceed(p, next), UNCHANGED <<got, mailbox>>
        PROVE  MailInv'
    <2>1. \A q \in Run : task'[q] = IF q = p THEN next ELSE task[q]
      BY <1>t, <1>2 DEF Proceed
    <2>2. MailTypeOK'
      BY <1>t, <1>2 DEF MailTypeOK, Proceed
    <2>3. \A q \in Run : task'[q] = "post" => got'[q]["json"] = got'[q]["md"]
      BY <1>2, <2>1 DEF MailInv, PostedIsOnePair
    <2> QED BY <1>2, <2>1, <2>2, <2>3, NotPosting
  <1>3. ASSUME NEW p \in Run, NEW d \in Dest, NEW next \in {"readMd", "check"},
               ReadFile(p, d, next), task[p] \notin {"post", "sent"}
        PROVE  MailInv'
    <2>1. PICK to \in {next, "error"} : Proceed(p, to)
      BY <1>3 DEF ReadFile
    <2>2. \A q \in Run : task'[q] = IF q = p THEN to ELSE task[q]
      BY <1>t, <2>1 DEF Proceed
    <2>3. \A q \in Run : q # p => got'[q] = got[q]
      BY <1>t, <1>3 DEF ReadFile
    <2>4. MailTypeOK'
      <3>1. to \in Phases
        BY <2>1, <1>3 DEF Open, Over
      <3>2. task' \in [Run -> Phases]
        BY <1>t, <2>1, <3>1 DEF Proceed
      <3>3. got' \in [Run -> [Dest -> File]] /\ mailbox' = mailbox
        BY <1>t, <1>3 DEF ReadFile
      <3> QED BY <1>t, <3>2, <3>3 DEF MailTypeOK
    <2>5. \A q \in Run : task'[q] = "post" => got'[q]["json"] = got'[q]["md"]
      BY <1>3, <2>1, <2>2, <2>3 DEF MailInv, PostedIsOnePair
    <2>6. \A q \in Run : task'[q] = "sent" => task[q] = "sent" /\ got'[q] = got[q]
      BY <1>3, <2>1, <2>2, <2>3
    <2> QED BY <1>3, <2>4, <2>5, <2>6, NotPosting DEF ReadFile
  <1>4. ASSUME NEW p \in Run, CheckDigest(p)
        PROVE  MailInv'
    <2>1. CASE Proceed(p, "post") /\ got[p]["json"] = got[p]["md"]
      <3>1. \A q \in Run : task'[q] = IF q = p THEN "post" ELSE task[q]
        BY <1>t, <2>1 DEF Proceed
      <3>2. UNCHANGED <<got, mailbox>>
        BY <1>4 DEF CheckDigest
      <3>3. MailTypeOK'
        BY <1>t, <2>1, <3>2 DEF MailTypeOK, Proceed, Open
      <3>4. \A q \in Run : task'[q] = "post" => got'[q]["json"] = got'[q]["md"]
        BY <2>1, <3>1, <3>2 DEF MailInv, PostedIsOnePair
      <3> QED BY <3>1, <3>2, <3>3, <3>4, NotPosting
    <2>2. CASE Proceed(p, "dry") \/ Proceed(p, "error")
      BY <1>2, <1>4, <2>2 DEF CheckDigest, Over
    <2> QED BY <1>4, <2>1, <2>2 DEF CheckDigest
  <1>5. ASSUME NEW p \in Run,
               PostAnswered(p) \/ PostUnanswered(p) \/ PostRejected(p)
        PROVE  MailInv'
    <2>1. PICK next \in {"sent", "post", "error"} :
              Proceed(p, next) /\ (next = "sent" => Accept(p))
      <3>1. CASE PostAnswered(p)
        BY <3>1 DEF PostAnswered
      <3>2. CASE PostUnanswered(p)
        <4>1. Proceed(p, "post") \/ Proceed(p, "error")
          BY <3>2 DEF PostUnanswered, Retry
        <4> QED BY <4>1
      <3>3. CASE PostRejected(p)
        BY <3>3 DEF PostRejected
      <3> QED BY <1>5, <3>1, <3>2, <3>3
    <2> QED
      BY <1>5, <2>1, Posting DEF PostAnswered, PostUnanswered, PostRejected
  <1>6. ASSUME NEW p \in Run, StartResend(p) \/ Kill(p)
        PROVE  MailInv'
    BY <1>2, <1>6 DEF StartResend, Kill, Open, Over
  <1>7. ASSUME NEW p \in Run, p \in Writer, StartCsv(p) \/ WriteCsv(p)
        PROVE  MailInv'
    BY <1>2, <1>7 DEF StartCsv, WriteCsv, Open, Over
  <1>8. ASSUME NEW p \in Run, ReadJson(p) \/ ReadMd(p)
        PROVE  MailInv'
    BY <1>3, <1>8 DEF ReadJson, ReadMd
  <1>9. CASE DeliveryNext
    BY <1>9, <1>1, <1>4, <1>5, <1>6, <1>7, <1>8 DEF DeliveryNext, Advance
  <1> QED BY <1>1, <1>9

(* What the theorems about the mail read off.  FairSpec implies            *)
(* DeliverySpec: fairness takes no part in safety.                         *)
LEMMA MailInductive == DeliverySpec => []MailInv
  BY MailInit, MailStep, PTL DEF DeliverySpec

(* No mail mixes two reports: the JSON and the Markdown are read one after *)
(* the other, while another run may replace them, and `reader_digest`      *)
(* tells.                                                                  *)
THEOREM MailsAreOnePair == DeliverySpec => []MailIsOnePair
  <1>1. MailInv => MailIsOnePair
    BY DEF MailInv
  <1> QED BY MailInductive, <1>1, PTL

(* The Idempotency-Key makes one mail of a Report ID, whatever answers are *)
(* lost and however many runs of it retry.                                 *)
THEOREM OneMailOfAReport == DeliverySpec => []OneMailPerId
  <1>1. MailInv => OneMailPerId
    BY DEF MailInv
  <1> QED BY MailInductive, <1>1, PTL

(* No run reports an email id without a mail of the Report ID it read.     *)
THEOREM SentIsMailed == DeliverySpec => []SentMeansMailed
  <1>1. MailInv => SentMeansMailed
    BY DEF MailInv
  <1> QED BY MailInductive, <1>1, PTL

(* Whatever `deliver` and `send-report` do around it, the folder and its   *)
(* writers behave as ReportPair says: what is proved of Spec holds of the  *)
(* composition.                                                            *)
THEOREM DeliveryWritesPairs == DeliverySpec => Spec
  <1>1. DeliveryInit => Init
    BY DEF DeliveryInit
  <1>2. [DeliveryNext]_allVars => [Next]_vars
    BY PairOnly DEF allVars
  <1> QED BY <1>1, <1>2, PTL DEF DeliverySpec, Spec
=============================================================================
