---------------------------- MODULE SampleExport ----------------------------
(***************************************************************************)
(* The hourly export of the malware analyser's samples, run-samples.sh and *)
(* sample_export.py.  A run reads the watermark of the last export in D1,  *)
(* walks the analyser's feed from the newest finished job down to it, one  *)
(* page at a time, reads each job's indicators, and writes the samples and *)
(* the new watermark in one batch.  Jobs go on finishing meanwhile, which  *)
(* shifts the pages; the feed is read by offset.  A run may be started by  *)
(* hand while the timer's is under way.                                    *)
(*                                                                         *)
(* A job stands for its finished_at: jobs are numbered as they finish.     *)
(***************************************************************************)
EXTENDS Naturals, FiniteSetsExt

CONSTANTS
    Run,         \* runs that may be under way at once, each repeated
    PageSize,    \* items of a page of the feed
    MaxSamples,  \* `--max-samples`
    LastJob,     \* bound: jobs that finish
    MaxFaults    \* bound: calls and runs that fail

Job == 1 .. LastJob

ASSUME SampleExportAssumption ==
    /\ PageSize \in Nat \ {0} /\ MaxSamples \in Nat \ {0}
    /\ LastJob \in Nat /\ MaxFaults \in Nat

VARIABLES
    finished,   \* the analyser: the jobs 1 .. finished are in its feed
    stored,     \* D1: the jobs with rows in sample_analysis
    highWater,  \* D1: sample_state's high_water, 0 without a row
    run,        \* where each run is, and what it has read
    unread,     \* history: jobs a pushed run could not read
    cut,        \* history: jobs a pushed run left out, having enough
    faults      \* bound: failures so far

d1 == <<stored, highWater, unread, cut>>
vars == <<finished, d1, run, faults>>

Phase == {"idle", "page", "item", "push"}

TypeOK ==
    /\ finished \in 0 .. LastJob
    /\ stored \subseteq Job
    /\ highWater \in 0 .. LastJob
    /\ run \in [Run -> [phase : Phase,
                        since : 0 .. LastJob,   \* the watermark it read
                        offset : 0 .. LastJob,  \* of the next page
                        next : 0 .. LastJob,    \* the page's next item
                        left : 0 .. PageSize,   \* items left in the page
                        seen : 0 .. MaxSamples,
                        batch : SUBSET Job,     \* jobs read
                        failed : SUBSET Job,    \* jobs it could not read
                        omitted : SUBSET Job]]
    /\ unread \subseteq Job
    /\ cut \subseteq Job
    /\ faults \in 0 .. MaxFaults

Fresh(phase, since) ==
    [phase |-> phase, since |-> since, offset |-> 0, next |-> 0, left |-> 0,
     seen |-> 0, batch |-> {}, failed |-> {}, omitted |-> {}]

Ends(r) == run' = [run EXCEPT ![r] = Fresh("idle", 0)]

Init ==
    /\ finished = 0
    /\ stored = {}
    /\ highWater = 0
    /\ run = [r \in Run |-> Fresh("idle", 0)]
    /\ unread = {}
    /\ cut = {}
    /\ faults = 0

-----------------------------------------------------------------------------

(* The analyser finishes a public job: it is the first of the feed now.    *)
Finish ==
    /\ finished < LastJob
    /\ finished' = finished + 1
    /\ UNCHANGED <<d1, run, faults>>

(* The stored watermark is read; a run that cannot read it changes nothing.*)
Begin(r) ==
    /\ run[r].phase = "idle"
    /\ run' = [run EXCEPT ![r] = Fresh("page", highWater)]
    /\ UNCHANGED <<finished, d1, faults>>

(* `/api/feed/recent` from the offset: the newest job not skipped, and the *)
(* ones before it.                                                         *)
ReadPage(r) ==
    LET n == finished - run[r].offset
        items == Min({PageSize, n})
    IN  /\ run[r].phase = "page"
        /\ run' = IF n = 0
                  THEN [run EXCEPT ![r].phase = "push"]
                  ELSE [run EXCEPT ![r].phase = "item", ![r].next = n,
                                   ![r].left = items,
                                   ![r].offset = @ + items]
        /\ UNCHANGED <<finished, d1, faults>>

(* Mutant: off by one. *)
ReachedEarly(r) == run[r].next <= run[r].since + 1

(* `finished <= stop_at` *)
Reached(r) == run[r].next <= run[r].since

StopAt(r) ==
    /\ run[r].phase = "item"
    /\ Reached(r)
    /\ run' = [run EXCEPT ![r].phase = "push"]
    /\ UNCHANGED <<finished, d1, faults>>

(* Mutant: one item more than the cap. *)
CountPastCap(r, now) ==
    LET enough == now.seen + 1 > MaxSamples
        next == now.next - 1
    IN  run' = [run EXCEPT ![r] =
            [now EXCEPT !.seen = @ + 1,
                        !.next = next,
                        !.left = @ - 1,
                        !.omitted = IF enough THEN now.since + 1 .. next
                                              ELSE {},
                        !.phase = IF enough THEN "push"
                                  ELSE IF now.left = 1 THEN "page"
                                  ELSE "item"]]

(* The item is counted, whether or not its indicators could be read.       *)
Count(r, now) ==
    LET enough == now.seen + 1 >= MaxSamples
        next == now.next - 1
    IN  run' = [run EXCEPT ![r] =
            [now EXCEPT !.seen = @ + 1,
                        !.next = next,
                        !.left = @ - 1,
                        !.omitted = IF enough THEN now.since + 1 .. next
                                              ELSE {},
                        !.phase = IF enough THEN "push"
                                  ELSE IF now.left = 1 THEN "page"
                                  ELSE "item"]]

(* A summary or a sample record that cannot be read does not matter.       *)
ReadItem(r) ==
    /\ run[r].phase = "item"
    /\ ~Reached(r)
    /\ Count(r, [run[r] EXCEPT !.batch = @ \cup {run[r].next}])
    /\ UNCHANGED <<finished, d1, faults>>

(* The job's indicators cannot be read: it is left out. *)
SkipItem(r) ==
    /\ run[r].phase = "item"
    /\ ~Reached(r)
    /\ faults < MaxFaults
    /\ faults' = faults + 1
    /\ Count(r, [run[r] EXCEPT !.failed = @ \cup {run[r].next}])
    /\ UNCHANGED <<finished, d1>>

(* Mutant: the newest job of the feed when the batch is rendered. *)
HighWaterNow(r) == finished

(* high_water_of: the newest job read, or the watermark it started from.   *)
HighWaterOf(r) == Max(run[r].batch \cup {run[r].since})

(* D1 runs the file as one batch; `wrangler` may still report a failure.   *)
Push(r) ==
    /\ run[r].phase = "push"
    /\ run[r].batch # {}
    /\ stored' = stored \cup run[r].batch
    /\ highWater' = HighWaterOf(r)
    /\ unread' = unread \cup run[r].failed
    /\ cut' = cut \cup run[r].omitted
    /\ Ends(r)
    /\ UNCHANGED <<finished, faults>>

NothingNew(r) ==
    /\ run[r].phase = "push"
    /\ run[r].batch = {}
    /\ Ends(r)
    /\ UNCHANGED <<finished, d1, faults>>

(* A page that cannot be read and a push that fails end the run, and so do *)
(* the unit's timeout and the host.                                        *)
Abandon(r) ==
    /\ run[r].phase # "idle"
    /\ faults < MaxFaults
    /\ faults' = faults + 1
    /\ Ends(r)
    /\ UNCHANGED <<finished, d1>>

Advance(r) ==
    \/ Begin(r)
    \/ ReadPage(r)
    \/ StopAt(r) \/ ReadItem(r)
    \/ Push(r) \/ NothingNew(r)

Next ==
    \/ Finish
    \/ \E r \in Run : Advance(r) \/ SkipItem(r) \/ Abandon(r)

Spec == Init /\ [][Next]_vars

(* The timer starts a run every hour, and a started run goes on.           *)
FairSpec == Spec /\ \A r \in Run : WF_vars(Advance(r))

-----------------------------------------------------------------------------

(* The watermark never passes a job by: up to it every job is in D1, but   *)
(* for those a pushed run could not read or had no room for.  Jobs that    *)
(* finish while the pages are read shift them, and two runs may overlap.   *)
WatermarkCovers ==
    \A j \in Job : j <= highWater => j \in stored \cup unread \cup cut

(* Runs that fail, are killed or missed lose nothing: once they stop       *)
(* failing, every finished job reaches D1, with the same two exceptions.   *)
EventuallyExported ==
    \A j \in Job : j <= finished ~> j \in stored \cup unread \cup cut
=============================================================================
