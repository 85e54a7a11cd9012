----------------------------- MODULE ReportPair -----------------------------
(***************************************************************************)
(* The two-file write of one report, `_write_report_pair`: both files are  *)
(* staged beside their destinations, then each destination is moved aside  *)
(* and replaced, then the copies moved aside are removed.  An OSError puts *)
(* back what was already replaced.                                         *)
(*                                                                         *)
(* A writer is one process that runs the function once (its pid names its  *)
(* copies).  Any system call may fail, the process may be interrupted (the *)
(* `finally` clause runs) or killed (nothing runs), and a second process   *)
(* may write the same pair meanwhile: nothing locks the report folder.  An *)
(* interrupt of the `finally` clause itself ends the run as a kill does.   *)
(***************************************************************************)
EXTENDS Naturals, Sequences

CONSTANTS
    Writer,      \* processes that may write the pair, each at most once
    Report,      \* the reports they may hold: what one run collected
    Absent,      \* no such file
    MaxFaults    \* bound: OSErrors in one run

Calls == {"stage", "backup", "replace", "restore", "unlink"}

ASSUME ReportPairAssumption ==
    /\ Absent \notin Report
    /\ MaxFaults \in Nat

Dest == {"json", "md"}

VARIABLES
    disk,       \* the two destinations
    tmp,        \* each writer's staged files
    bak,        \* each writer's `.bak` copies
    at,         \* where each writer is in the function
    cur,        \* the destination its loop is at
    report,     \* what it writes
    staged,     \* its list `staged`
    completed,  \* its list `completed`
    raising,    \* is an exception on its way out?
    alone,      \* history: has no other run overlapped its own?
    faults,     \* history: the calls that failed in its run, in order
    before      \* history: the two destinations when its run began

vars == <<disk, tmp, bak, at, cur, report, staged, completed, raising, alone,
          faults, before>>

File == Report \cup {Absent}
Try == {"stage", "probe", "backup", "replace", "restore", "unlink", "rollback"}
Finally == {"cleanTmp", "cleanBak"}
Ended == {"done", "failed", "dead"}

TypeOK ==
    /\ disk \in [Dest -> File]
    /\ tmp \in [Writer -> [Dest -> File]]
    /\ bak \in [Writer -> [Dest -> File]]
    /\ at \in [Writer -> {"idle"} \cup Try \cup Finally \cup Ended]
    /\ cur \in [Writer -> Dest]
    /\ report \in [Writer -> File]
    /\ staged \in [Writer -> SUBSET Dest]
    /\ completed \in [Writer -> SUBSET Dest]
    /\ raising \in [Writer -> BOOLEAN]
    /\ alone \in [Writer -> BOOLEAN]
    /\ faults \in [Writer -> Seq(Calls \cup {"interrupt"})]
    /\ before \in [Writer -> [Dest -> File]]

NoFiles == [d \in Dest |-> Absent]

(* An earlier run of the day left a pair, or there is none yet. *)
Init ==
    /\ disk \in {NoFiles} \cup {[d \in Dest |-> r] : r \in Report}
    /\ tmp = [w \in Writer |-> NoFiles]
    /\ bak = [w \in Writer |-> NoFiles]
    /\ at = [w \in Writer |-> "idle"]
    /\ cur = [w \in Writer |-> "json"]
    /\ report = [w \in Writer |-> Absent]
    /\ staged = [w \in Writer |-> {}]
    /\ completed = [w \in Writer |-> {}]
    /\ raising = [w \in Writer |-> FALSE]
    /\ alone = [w \in Writer |-> TRUE]
    /\ faults = [w \in Writer |-> <<>>]
    /\ before = [w \in Writer |-> NoFiles]

Running(w) == at[w] \in Try \cup Finally

Goto(w, phase, d) ==
    /\ at' = [at EXCEPT ![w] = phase]
    /\ cur' = [cur EXCEPT ![w] = d]

(* The loops go over json, then md; the rollback goes the other way. *)
Forward(w, phase, next) ==
    IF cur[w] = "json" THEN Goto(w, phase, "md") ELSE Goto(w, next, "json")

Backward(w, phase, next) ==
    IF cur[w] = "md" THEN Goto(w, phase, "json") ELSE Goto(w, next, "json")

Fault(w, call) ==
    /\ Len(faults[w]) < MaxFaults
    /\ faults' = [faults EXCEPT ![w] = Append(@, call)]

(* Mutant: no `except OSError` clause. *)
RaiseStraight(w) ==
    /\ Goto(w, "cleanTmp", "json")
    /\ raising' = [raising EXCEPT ![w] = TRUE]

(* An OSError raised in the try clause is caught by `except OSError`. *)
Raise(w) ==
    /\ Goto(w, "rollback", "md")
    /\ raising' = [raising EXCEPT ![w] = TRUE]

-----------------------------------------------------------------------------

Begin(w, r) ==
    /\ at[w] = "idle"
    /\ LET others == {v \in Writer : Running(v)}
       IN  alone' = [v \in Writer |-> IF v = w THEN others = {}
                                     ELSE alone[v] /\ v \notin others]
    /\ report' = [report EXCEPT ![w] = r]
    /\ before' = [before EXCEPT ![w] = disk]
    /\ Goto(w, "stage", "json")
    /\ UNCHANGED <<disk, tmp, bak, staged, completed, raising, faults>>

Stage(w) ==
    /\ at[w] = "stage"
    /\ tmp' = [tmp EXCEPT ![w][cur[w]] = report[w]]
    /\ staged' = [staged EXCEPT ![w] = @ \cup {cur[w]}]
    /\ Forward(w, "stage", "probe")
    /\ UNCHANGED <<disk, bak, report, completed, raising, alone, faults,
                   before>>

(* The folder is missing, or the write or the fsync failed: the temporary  *)
(* file may exist by then, and it is not in `staged`.                      *)
StageFails(w) ==
    /\ at[w] = "stage"
    /\ Fault(w, "stage")
    /\ \E f \in {Absent, report[w]} : tmp' = [tmp EXCEPT ![w][cur[w]] = f]
    /\ Raise(w)
    /\ UNCHANGED <<disk, bak, report, staged, completed, alone, before>>

(* `if destination.exists()` *)
Probe(w) ==
    /\ at[w] = "probe"
    /\ Goto(w, IF disk[cur[w]] = Absent THEN "replace" ELSE "backup", cur[w])
    /\ UNCHANGED <<disk, tmp, bak, report, staged, completed, raising, alone,
                   faults, before>>

(* Mutant: the destination joins `completed` once it is moved aside. *)
BackupCompletes(w) ==
    /\ at[w] = "backup"
    /\ disk[cur[w]] # Absent
    /\ bak' = [bak EXCEPT ![w][cur[w]] = disk[cur[w]]]
    /\ disk' = [disk EXCEPT ![cur[w]] = Absent]
    /\ completed' = [completed EXCEPT ![w] = @ \cup {cur[w]}]
    /\ Goto(w, "replace", cur[w])
    /\ UNCHANGED <<tmp, report, staged, raising, alone, faults, before>>

Backup(w) ==
    /\ at[w] = "backup"
    /\ disk[cur[w]] # Absent
    /\ bak' = [bak EXCEPT ![w][cur[w]] = disk[cur[w]]]
    /\ disk' = [disk EXCEPT ![cur[w]] = Absent]
    /\ Goto(w, "replace", cur[w])
    /\ UNCHANGED <<tmp, report, staged, completed, raising, alone, faults,
                   before>>

(* The rename is refused, or another writer has just moved the file away. *)
BackupFails(w) ==
    /\ at[w] = "backup"
    /\ \/ Fault(w, "backup")
       \/ disk[cur[w]] = Absent /\ UNCHANGED faults
    /\ Raise(w)
    /\ UNCHANGED <<disk, tmp, bak, report, staged, completed, alone, before>>

(* Mutant: the pair in `staged` is unpacked the wrong way round. *)
ReplaceSwapped(w) ==
    /\ at[w] = "replace"
    /\ disk' = [disk EXCEPT ![cur[w]] = tmp[w][cur[w]]]
    /\ tmp' = [tmp EXCEPT ![w][cur[w]] = Absent]
    /\ completed' = [completed EXCEPT ![w] = @ \cup {tmp[w][cur[w]]}]
    /\ Forward(w, "probe", "unlink")
    /\ UNCHANGED <<bak, report, staged, raising, alone, faults, before>>

Replace(w) ==
    /\ at[w] = "replace"
    /\ disk' = [disk EXCEPT ![cur[w]] = tmp[w][cur[w]]]
    /\ tmp' = [tmp EXCEPT ![w][cur[w]] = Absent]
    /\ completed' = [completed EXCEPT ![w] = @ \cup {cur[w]}]
    /\ Forward(w, "probe", "unlink")
    /\ UNCHANGED <<bak, report, staged, raising, alone, faults, before>>

ReplaceFails(w) ==
    /\ at[w] = "replace"
    /\ Fault(w, "replace")
    /\ IF bak[w][cur[w]] # Absent
       THEN Goto(w, "restore", cur[w]) /\ UNCHANGED raising
       ELSE Raise(w)
    /\ UNCHANGED <<disk, tmp, bak, report, staged, completed, alone, before>>

(* The inner handler puts back the one destination it had moved aside. *)
Restore(w) ==
    /\ at[w] = "restore"
    /\ disk' = [disk EXCEPT ![cur[w]] = bak[w][cur[w]]]
    /\ bak' = [bak EXCEPT ![w][cur[w]] = Absent]
    /\ Raise(w)
    /\ UNCHANGED <<tmp, report, staged, completed, alone, faults, before>>

RestoreFails(w) ==
    /\ at[w] = "restore"
    /\ Fault(w, "restore")
    /\ Raise(w)
    /\ UNCHANGED <<disk, tmp, bak, report, staged, completed, alone, before>>

(* Both replaced: the copies moved aside are no longer needed. *)
Unlink(w) ==
    /\ at[w] = "unlink"
    /\ bak' = [bak EXCEPT ![w][cur[w]] = Absent]
    /\ Forward(w, "unlink", "cleanTmp")
    /\ UNCHANGED <<disk, tmp, report, staged, completed, raising, alone,
                   faults, before>>

UnlinkFails(w) ==
    /\ at[w] = "unlink"
    /\ bak[w][cur[w]] # Absent
    /\ Fault(w, "unlink")
    /\ Raise(w)
    /\ UNCHANGED <<disk, tmp, bak, report, staged, completed, alone, before>>

(* `except OSError`: the replaced destinations whose copy still exists. *)
MustRollBack(w) == cur[w] \in completed[w] /\ bak[w][cur[w]] # Absent

Rollback(w) ==
    /\ at[w] = "rollback"
    /\ IF MustRollBack(w)
       THEN /\ disk' = [disk EXCEPT ![cur[w]] = bak[w][cur[w]]]
            /\ bak' = [bak EXCEPT ![w][cur[w]] = Absent]
       ELSE UNCHANGED <<disk, bak>>
    /\ Backward(w, "rollback", "cleanTmp")
    /\ UNCHANGED <<tmp, report, staged, completed, raising, alone, faults,
                   before>>

RollbackFails(w) ==
    /\ at[w] = "rollback"
    /\ MustRollBack(w)
    /\ Fault(w, "restore")
    /\ Goto(w, "cleanTmp", "json")
    /\ UNCHANGED <<disk, tmp, bak, report, staged, completed, raising, alone,
                   before>>

(* `finally`: staged files that were not used, then copies still lying     *)
(* beside a replaced destination.                                          *)
CleanTmp(w) ==
    /\ at[w] = "cleanTmp"
    /\ tmp' = IF cur[w] \in staged[w]
              THEN [tmp EXCEPT ![w][cur[w]] = Absent] ELSE tmp
    /\ Forward(w, "cleanTmp", "cleanBak")
    /\ UNCHANGED <<disk, bak, report, staged, completed, raising, alone,
                   faults, before>>

(* Mutant: every copy is removed, whether or not its destination was       *)
(* replaced.                                                               *)
CleanEveryBak(w) ==
    /\ at[w] = "cleanBak"
    /\ bak' = [bak EXCEPT ![w][cur[w]] = Absent]
    /\ Forward(w, "cleanBak", IF raising[w] THEN "failed" ELSE "done")
    /\ UNCHANGED <<disk, tmp, report, staged, completed, raising, alone,
                   faults, before>>

CleanBak(w) ==
    /\ at[w] = "cleanBak"
    /\ bak' = IF cur[w] \in completed[w]
              THEN [bak EXCEPT ![w][cur[w]] = Absent] ELSE bak
    /\ Forward(w, "cleanBak", IF raising[w] THEN "failed" ELSE "done")
    /\ UNCHANGED <<disk, tmp, report, staged, completed, raising, alone,
                   faults, before>>

CleanFails(w) ==
    /\ \/ at[w] = "cleanTmp" /\ tmp[w][cur[w]] # Absent /\ cur[w] \in staged[w]
       \/ /\ at[w] = "cleanBak"
          /\ bak[w][cur[w]] # Absent
          /\ cur[w] \in completed[w]
    /\ Fault(w, "unlink")
    /\ Goto(w, "failed", "json")
    /\ raising' = [raising EXCEPT ![w] = TRUE]
    /\ UNCHANGED <<disk, tmp, bak, report, staged, completed, alone, before>>

(* KeyboardInterrupt is no OSError: only `finally` runs. *)
Interrupt(w) ==
    /\ at[w] \in Try
    /\ raising' = [raising EXCEPT ![w] = TRUE]
    /\ faults' = [faults EXCEPT ![w] = Append(@, "interrupt")]
    /\ Goto(w, "cleanTmp", "json")
    /\ UNCHANGED <<disk, tmp, bak, report, staged, completed, alone, before>>

(* SIGKILL, the unit's timeout, a power cut: nothing more runs. *)
Crash(w) ==
    /\ Running(w)
    /\ Goto(w, "dead", "json")
    /\ UNCHANGED <<disk, tmp, bak, report, staged, completed, raising, alone,
                   faults, before>>

(* The function going on, whatever its calls return. *)
Step(w) ==
    \/ Stage(w) \/ StageFails(w)
    \/ Probe(w)
    \/ Backup(w) \/ BackupFails(w)
    \/ Replace(w) \/ ReplaceFails(w)
    \/ Restore(w) \/ RestoreFails(w)
    \/ Unlink(w) \/ UnlinkFails(w)
    \/ Rollback(w) \/ RollbackFails(w)
    \/ CleanTmp(w) \/ CleanBak(w) \/ CleanFails(w)

Next ==
    \E w \in Writer :
        \/ \E r \in Report : Begin(w, r)
        \/ Step(w)
        \/ Interrupt(w)
        \/ Crash(w)

Spec == Init /\ [][Next]_vars

-----------------------------------------------------------------------------

(* A version of the file exists, under its name or moved aside. *)
Held(d) == disk[d] # Absent \/ \E w \in Writer : bak[w][d] # Absent

(* Once a destination has held a report, some version of it stays on disk, *)
(* at its name or in a `.bak` copy, through any sequence of failing calls, *)
(* interrupts, kills and overlapping runs of `_write_report_pair`.         *)
NoFileLost == [][\A d \in Dest : Held(d) => Held(d)']_vars

(* The copies `finally` may delete are those of replaced destinations, so  *)
(* wherever one exists or was used there must be a version elsewhere.      *)
SafelyHeld(d) ==
    \/ disk[d] # Absent
    \/ \E w \in Writer : d \notin completed[w] /\ bak[w][d] # Absent

CopiesAreSpare ==
    \A d \in Dest :
        (\E w \in Writer : bak[w][d] # Absent \/ d \in completed[w])
            => SafelyHeld(d)

(* Where each writer's lists and staged files stand at each phase: what the *)
(* proofs need beside CopiesAreSpare.                                      *)
Replacing == {"probe", "backup", "replace", "restore"}

InPhase(w) ==
    /\ at[w] # "idle" => report[w] \in Report
    /\ at[w] \in {"idle", "stage"} => completed[w] = {}
    /\ at[w] = "stage" /\ cur[w] = "md" => tmp[w]["json"] = report[w]
    /\ at[w] \in Replacing =>
         /\ completed[w] = IF cur[w] = "json" THEN {} ELSE {"json"}
         /\ \A d \in Dest \ completed[w] : tmp[w][d] = report[w]
    /\ at[w] = "restore" => bak[w][cur[w]] # Absent
    /\ at[w] = "unlink" => completed[w] = Dest

PhaseOK == \A w \in Writer : InPhase(w)

(* A run that fails because one staging or one rename was refused leaves   *)
(* the previous pair exactly as it was, and a run that reports success has *)
(* written both files: what the copies and both handlers are for.  It is   *)
(* promised to a run nobody overlaps, on a day that already has a pair.    *)
UndoableCalls == {"stage", "backup", "replace"}

OldPairOrNewPair ==
    [][\A w \in Writer :
          alone[w] /\ Running(w) =>
             /\ at'[w] = "done" => disk' = [d \in Dest |-> report[w]]
             /\ (/\ at'[w] = "failed"
                 /\ \A d \in Dest : before[w][d] # Absent
                 /\ \E c \in UndoableCalls : faults'[w] = <<c>>)
                => disk' = before[w]]_vars
=============================================================================
