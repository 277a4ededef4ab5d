---------------------------- MODULE ScalingQueue ----------------------------
(***************************************************************************)
(* Production executions in queue mode.  A main creates the row, adds a    *)
(* job to the Bull queue and watches it; a worker picks the job up, runs   *)
(* the workflow and saves the row; the leader's queue recovery marks rows  *)
(* without a job as crashed; a user may stop an execution from any main.   *)
(*                                                                         *)
(* An execution that waits is resumed as a new job of the same execution,  *)
(* on whichever main takes it up, so a job is an execution and the number  *)
(* of the run.  Every await is a boundary between two steps.  Each job     *)
(* has a worker process of its own: the jobs of one process that dies stop *)
(* one after the other.  Executions are kept when they end, whatever their *)
(* status, and their data can always be found.                             *)
(***************************************************************************)
EXTENDS Integers, FiniteSets

CONSTANTS
    Mains, NoMain,
    Execs,
    Origin,     \* Origin[e]: the main on which a trigger or a webhook starts it
    BatchSize,  \* how many ids a cycle of the queue recovery looks at
    MaxRuns,    \* bound: how often an execution is run, resumes included
    MaxFaults,  \* bound: crashes, lost job locks, failed queue commands
    MaxStops    \* bound: stop requests of users

ASSUME ScalingAssumption ==
    /\ IsFiniteSet(Mains) /\ Mains # {} /\ NoMain \notin Mains
    /\ IsFiniteSet(Execs) /\ Origin \in [Execs -> Mains]
    /\ BatchSize \in Nat \ {0} /\ MaxRuns \in Nat \ {0} /\ MaxFaults \in Nat /\ MaxStops \in Nat

Jobs == Execs \X (1..MaxRuns)

VARIABLES
    row,       \* row[e]: the status column, "none" before the insert
    runs,      \* runs[e]: how many runs have been taken up
    \* the mains
    entry,     \* entry[m][e]: the run of its ActiveExecutions entry, and the
               \* run whose PCancelable is attached to it (0: none)
    home,      \* home[j]: the main whose enqueueExecution made the job
    run,       \* run[j]: where that call stands
    stop,      \* stop[j]: where the onCancel handler of its PCancelable stands
    request,   \* the request of a user to stop an execution
    recovery,  \* where recoverFromQueue stands on the leader
    \* Redis and the workers
    queue,     \* queue[j]: the state of the job in Bull
    aborts,    \* abort-job messages on their way to the workers
    worker,    \* worker[j]: where processJob stands
    saves,     \* jobs whose engine's onCancel hook has yet to write the row
    faults, stops

mainVars == <<entry, home, run, stop>>
workerVars == <<worker, saves>>
boundVars == <<faults, stops>>
vars == <<row, runs, mainVars, request, recovery, queue, aborts, workerVars, boundVars>>

RowStates == {"none", "new", "running", "waiting", "success", "error", "canceled", "crashed"}
RunStates == {"none", "created", "added", "watching", "failing", "spared", "cancelled", "over"}
StopStates == {"none", "asked", "abort", "remove"}
JobStates == {"none", "waiting", "active", "completed", "failed", "cancelled", "removed"}
WorkerStates == {"idle", "picked", "read", "starting", "running", "aborted", "timedOut",
                 "saving", "saved", "done", "dead"}
Live == {"picked", "read", "starting", "running", "aborted", "timedOut", "saving", "saved"}
InProgress == {"new", "running"}

NoEntry == [run |-> 0, attached |-> 0]
NoRequest == [step |-> "idle", main |-> NoMain, exec |-> {}]
Idle == [step |-> "idle", ids |-> {}]

ScalingInit ==
    /\ row = [e \in Execs |-> "none"]
    /\ runs = [e \in Execs |-> 0]
    /\ entry = [m \in Mains |-> [e \in Execs |-> NoEntry]]
    /\ home = [j \in Jobs |-> NoMain]
    /\ run = [j \in Jobs |-> "none"]
    /\ stop = [j \in Jobs |-> "none"]
    /\ request = NoRequest
    /\ recovery = Idle
    /\ queue = [j \in Jobs |-> "none"]
    /\ aborts = {}
    /\ worker = [j \in Jobs |-> "idle"]
    /\ saves = {}
    /\ faults = 0
    /\ stops = 0

WriteRow(e, status) == row' = [row EXCEPT ![e] = status]
Fault == faults < MaxFaults /\ faults' = faults + 1 /\ UNCHANGED stops

-----------------------------------------------------------------------------
(* WorkflowRunner.run on a main, and its entry in ActiveExecutions *)

\* ActiveExecutions.add once the row is written: a new entry replaces an old one.
TakeUp(m, e) ==
    LET n == runs[e] + 1 IN
    /\ n <= MaxRuns
    /\ runs' = [runs EXCEPT ![e] = n]
    /\ entry' = [entry EXCEPT ![m][e] = [run |-> n, attached |-> 0]]
    /\ home' = [home EXCEPT ![<<e, n>>] = m]
    /\ run' = [run EXCEPT ![<<e, n>>] = "created"]
    /\ UNCHANGED <<stop, request, recovery, queue, aborts, workerVars, boundVars>>

\* A trigger or a webhook starts the execution.
Create(e) ==
    /\ row[e] = "none"
    /\ WriteRow(e, "new")
    /\ TakeUp(Origin[e], e)

\* Mutant: the update of the row does not require the status waiting.
ResumeAlways(m, e) ==
    /\ row[e] \in {"waiting", "running"}
    /\ WriteRow(e, "running")
    /\ TakeUp(m, e)

\* The wait is over: a timer or a webhook resumes the execution.
Resume(m, e) ==
    /\ row[e] = "waiting"
    /\ WriteRow(e, "running")
    /\ TakeUp(m, e)

\* Mutant: the promise of the entry is not resolved.
FinalizeNothing(m, e) == UNCHANGED entry

\* finalizeExecution and the finally handler: whatever entry the id has goes.
Finalize(m, e) == entry' = [entry EXCEPT ![m][e] = NoEntry]

\* enqueueExecution: addJob
AddJob(j) ==
    /\ run[j] = "created"
    /\ run' = [run EXCEPT ![j] = "added"]
    /\ queue' = [queue EXCEPT ![j] = "waiting"]
    /\ UNCHANGED <<row, runs, entry, home, stop, request, recovery, aborts, workerVars, boundVars>>

(***************************************************************************)
(* The PCancelable starts to watch the job and is attached to the entry    *)
(* the id has now.  Without an entry attaching fails, but the watch goes   *)
(* on.                                                                     *)
(***************************************************************************)
Attach(j) ==
    LET e == j[1]  m == home[j] IN
    /\ run[j] = "added"
    /\ run' = [run EXCEPT ![j] = "watching"]
    /\ entry' = IF entry[m][e] = NoEntry THEN entry
                ELSE [entry EXCEPT ![m][e] = [run |-> @.run, attached |-> j[2]]]
    /\ UNCHANGED <<row, runs, home, stop, request, recovery, queue, aborts, workerVars, boundVars>>

(***************************************************************************)
(* processError for an error that is no cancellation: an execution that    *)
(* was successful after all is left alone, entry included; otherwise the   *)
(* entry is finalized and the save hook starts.                            *)
(***************************************************************************)
ProcessError(j) ==
    LET e == j[1] IN
    IF row[e] = "success"
    THEN run' = [run EXCEPT ![j] = "spared"] /\ UNCHANGED entry
    ELSE run' = [run EXCEPT ![j] = "failing"] /\ Finalize(home[j], e)

\* Redis refuses the job, or the hook that runs once it is added fails: then the
\* job stays in the queue, and nobody watches it.
AddJobFails(j) ==
    /\ run[j] \in {"created", "added"}
    /\ Fault
    /\ ProcessError(j)
    /\ UNCHANGED <<row, runs, home, stop, request, recovery, queue, aborts, workerVars>>

\* job.finished() resolves.  What Bull keeps of an ended job is not looked at again.
JobCompleted(j) ==
    /\ run[j] = "watching" /\ queue[j] = "completed"
    /\ run' = [run EXCEPT ![j] = "over"]
    /\ queue' = [queue EXCEPT ![j] = "removed"]
    /\ Finalize(home[j], j[1])
    /\ UNCHANGED <<row, runs, home, stop, request, recovery, aborts, workerVars, boundVars>>

\* job.finished() rejects; an error that says "cancelled" is taken as handled.
JobFailed(j) ==
    /\ run[j] = "watching"
    /\ \/ queue[j] = "failed" /\ ProcessError(j)
       \/ /\ queue[j] = "cancelled"
          /\ run' = [run EXCEPT ![j] = "cancelled"]
          /\ UNCHANGED entry
    /\ queue' = [queue EXCEPT ![j] = "removed"]
    /\ UNCHANGED <<row, runs, home, stop, request, recovery, aborts, workerVars, boundVars>>

\* The save hook that processError runs; it looks at no status.
SaveError(j) ==
    /\ run[j] = "failing"
    /\ run' = [run EXCEPT ![j] = "over"]
    /\ WriteRow(j[1], "error")
    /\ UNCHANGED <<runs, entry, home, stop, request, recovery, queue, aborts, workerVars, boundVars>>

-----------------------------------------------------------------------------
(* Stopping: ExecutionService.stop on a main, ScalingService.stopJob *)

\* The row is read and may be stopped.
StopRequested(m, e) ==
    /\ request = NoRequest /\ stops < MaxStops
    /\ row[e] \in {"new", "waiting", "running"}
    /\ request' = [step |-> "found", main |-> m, exec |-> e]
    /\ stops' = stops + 1
    /\ UNCHANGED <<row, runs, mainVars, recovery, queue, aborts, workerVars, faults>>

(***************************************************************************)
(* ActiveExecutions.stopExecution: the attached PCancelable is cancelled   *)
(* and the entry goes.  The broadcast that follows reaches no worker: the  *)
(* execution of a job is in no ActiveExecutions but that of its main.      *)
(***************************************************************************)
StopExecution ==
    LET m == request.main  e == request.exec
        hit == {j \in {<<e, entry[m][e].attached>>} \cap Jobs :
                  run[j] \in {"watching", "failing"} /\ stop[j] = "none"}
    IN
    /\ request.step = "found"
    /\ stop' = [j \in Jobs |-> IF j \in hit THEN "asked" ELSE stop[j]]
    /\ entry' = [entry EXCEPT ![m][e] = NoEntry]
    /\ request' = [request EXCEPT !.step = "stopped"]
    /\ UNCHANGED <<row, runs, home, run, recovery, queue, aborts, workerVars, boundVars>>

\* stopDuringRun
StopDuringRun ==
    /\ request.step = "stopped"
    /\ WriteRow(request.exec, "canceled")
    /\ request' = NoRequest
    /\ UNCHANGED <<runs, mainVars, recovery, queue, aborts, workerVars, boundVars>>

\* stopJob asks whether the job is active,
CheckActive(j) ==
    /\ stop[j] = "asked"
    /\ stop' = [stop EXCEPT ![j] = IF queue[j] = "active" THEN "abort" ELSE "remove"]
    /\ UNCHANGED <<row, runs, entry, home, run, request, recovery, queue, aborts, workerVars, boundVars>>

\* Mutant: the job is removed whatever has become of it.
StopJobForced(j) ==
    /\ \/ stop[j] = "abort" /\ aborts' = aborts \cup {j} /\ UNCHANGED queue
       \/ /\ stop[j] = "remove"
          /\ queue' = [queue EXCEPT ![j] = "removed"]
          /\ UNCHANGED aborts
    /\ stop' = [stop EXCEPT ![j] = "none"]
    /\ UNCHANGED <<row, runs, entry, home, run, request, recovery, workerVars, boundVars>>

\* and then sends the worker a message or removes the job; a job that was picked
\* up meanwhile is locked, and the error is only logged.
StopJob(j) ==
    /\ \/ stop[j] = "abort" /\ aborts' = aborts \cup {j} /\ UNCHANGED queue
       \/ /\ stop[j] = "remove"
          /\ queue' = [queue EXCEPT ![j] = IF @ = "waiting" THEN "removed" ELSE @]
          /\ UNCHANGED aborts
    /\ stop' = [stop EXCEPT ![j] = "none"]
    /\ UNCHANGED <<row, runs, entry, home, run, request, recovery, workerVars, boundVars>>

-----------------------------------------------------------------------------
(* JobProcessor.processJob on a worker *)

WorkerStep(j, from, to) == worker[j] = from /\ worker' = [worker EXCEPT ![j] = to]

\* How the job ends in Bull, unless the worker has lost it.
EndJob(j, state) == queue' = [queue EXCEPT ![j] = IF @ = "active" THEN state ELSE @]

PickUp(j) ==
    /\ queue[j] = "waiting"
    /\ queue' = [queue EXCEPT ![j] = "active"]
    /\ WorkerStep(j, "idle", "picked")
    /\ UNCHANGED <<row, runs, mainVars, request, recovery, aborts, saves, boundVars>>

\* findSingleExecution: a crashed execution is refused, and no one is told.
ReadRow(j) ==
    /\ \/ row[j[1]] = "crashed" /\ WorkerStep(j, "picked", "done") /\ EndJob(j, "completed")
       \/ row[j[1]] # "crashed" /\ WorkerStep(j, "picked", "read") /\ UNCHANGED queue
    /\ UNCHANGED <<row, runs, mainVars, request, recovery, aborts, saves, boundVars>>

\* setRunning looks at no status.
SetRunning(j) ==
    /\ WorkerStep(j, "read", "starting")
    /\ WriteRow(j[1], "running")
    /\ UNCHANGED <<runs, mainVars, request, recovery, queue, aborts, saves, boundVars>>

\* The engine is started and the job noted in runningJobs.
StartRun(j) ==
    /\ WorkerStep(j, "starting", "running")
    /\ UNCHANGED <<row, runs, mainVars, request, recovery, queue, aborts, saves, boundVars>>

\* Loading what the run needs throws: reportJobProcessingError.
StartFails(j) ==
    /\ WorkerStep(j, "starting", "done")
    /\ EndJob(j, "failed")
    /\ Fault
    /\ UNCHANGED <<row, runs, mainVars, request, recovery, aborts, saves>>

\* saveExecutionProgress requires a row neither finished nor canceled.
SaveProgress(j) ==
    /\ worker[j] = "running"
    /\ row[j[1]] \notin {"success", "canceled"}
    /\ WriteRow(j[1], "running")
    /\ UNCHANGED <<runs, mainVars, request, recovery, queue, aborts, workerVars, boundVars>>

\* The workflow ends, or is put to wait: what is saved is settled.
EndRun(j) ==
    /\ WorkerStep(j, "running", "saving")
    /\ UNCHANGED <<row, runs, mainVars, request, recovery, queue, aborts, saves, boundVars>>

\* Mutant: only a row in progress takes the result.
SaveResultGuarded(j) ==
    /\ WorkerStep(j, "saving", "saved")
    /\ IF row[j[1]] \in InProgress
       THEN \E status \in {"success", "error", "waiting"} : WriteRow(j[1], status)
       ELSE UNCHANGED row
    /\ UNCHANGED <<runs, mainVars, request, recovery, queue, aborts, saves, boundVars>>

\* hookFunctionsSaveWorker; the update looks at no status.
SaveResult(j) ==
    /\ WorkerStep(j, "saving", "saved")
    /\ \E status \in {"success", "error", "waiting"} : WriteRow(j[1], status)
    /\ UNCHANGED <<runs, mainVars, request, recovery, queue, aborts, saves, boundVars>>

\* The workflow runs out of its time: the engine cancels it by itself.
TimeOut(j) ==
    /\ WorkerStep(j, "running", "timedOut")
    /\ WriteRow(j[1], "canceled")
    /\ UNCHANGED <<runs, mainVars, request, recovery, queue, aborts, saves, boundVars>>

\* The rest of processJob; a canceled run makes the job fail.  A node that
\* failed after the abort makes the run one with an error, not canceled.
FinishJob(j) ==
    /\ \/ WorkerStep(j, "saved", "done") /\ EndJob(j, "completed")
       \/ WorkerStep(j, "timedOut", "done") /\ EndJob(j, "cancelled")
       \/ /\ WorkerStep(j, "aborted", "done")
          /\ \E state \in {"cancelled", "completed"} : EndJob(j, state)
    /\ UNCHANGED <<row, runs, mainVars, request, recovery, aborts, saves, boundVars>>

\* JobProcessor.stopJob: without an entry in runningJobs the message is ignored.
\* An engine that is past its last node only runs its onCancel hook.
AbortJob(j) ==
    /\ j \in aborts
    /\ aborts' = aborts \ {j}
    /\ worker' = [worker EXCEPT ![j] = IF @ = "running" THEN "aborted" ELSE @]
    /\ saves' = IF worker[j] \in {"running", "saving", "saved", "timedOut"}
                THEN saves \cup {j} ELSE saves
    /\ UNCHANGED <<row, runs, mainVars, request, recovery, queue, boundVars>>

\* The onCancel hook of the engine saves the row.
SaveCanceled(j) ==
    /\ j \in saves
    /\ saves' = saves \ {j}
    /\ WriteRow(j[1], "canceled")
    /\ UNCHANGED <<runs, mainVars, request, recovery, queue, aborts, worker, boundVars>>

-----------------------------------------------------------------------------
(* Bull and the crashes *)

\* The stalled check with maxStalledCount 0: a job whose lock is gone fails.
Stalled(j) ==
    /\ queue[j] = "active"
    /\ \/ worker[j] = "dead" /\ UNCHANGED boundVars
       \/ worker[j] \in Live /\ Fault
    /\ queue' = [queue EXCEPT ![j] = "failed"]
    /\ worker' = [worker EXCEPT ![j] = IF @ = "dead" THEN "done" ELSE @]
    /\ UNCHANGED <<row, runs, mainVars, request, recovery, aborts, saves>>

WorkerCrash(j) ==
    /\ worker[j] \in Live
    /\ Fault
    /\ worker' = [worker EXCEPT ![j] = "dead"]
    /\ saves' = saves \ {j}
    /\ UNCHANGED <<row, runs, mainVars, request, recovery, queue, aborts>>

\* A main dies and starts again: what it had in memory is lost.
MainCrash(m) ==
    LET lost == {j \in Jobs : home[j] = m} IN
    /\ Fault
    /\ entry' = [entry EXCEPT ![m] = [e \in Execs |-> NoEntry]]
    /\ run' = [j \in Jobs |-> IF j \in lost /\ run[j] # "none" THEN "over" ELSE run[j]]
    /\ stop' = [j \in Jobs |-> IF j \in lost THEN "none" ELSE stop[j]]
    /\ request' = IF request.main = m THEN NoRequest ELSE request
    /\ recovery' \in {recovery, Idle}
    /\ UNCHANGED <<row, runs, home, queue, aborts, workerVars>>

-----------------------------------------------------------------------------
(* recoverFromQueue, whose cycles the leader repeats; one is modelled at a *)
(* time.  A main that crashes may have been the leader or not.             *)

\* At most BatchSize of the ids, and all of them if they are no more.
Batch(ids) ==
    {b \in SUBSET ids : Cardinality(b) <= BatchSize /\ (b = ids \/ Cardinality(b) = BatchSize)}

\* Mutant: rows that are new are not looked at.
GetInProgressIdsRunning == Batch({e \in Execs : row[e] = "running"})

\* The answers the query may give.  It takes the latest; when an execution was
\* started is not modelled, so any of them may be left out.
GetInProgressExecutionIds == Batch({e \in Execs : row[e] \in InProgress})

ReadStoredIds ==
    /\ recovery.step = "idle"
    /\ \E ids \in GetInProgressExecutionIds \ {{}} : recovery' = [step |-> "stored", ids |-> ids]
    /\ UNCHANGED <<row, runs, mainVars, request, queue, aborts, workerVars, boundVars>>

\* The stored ids that no job of the queue has
FindDangling ==
    LET queued == {e \in Execs : \E n \in 1..MaxRuns : queue[<<e, n>>] \in {"active", "waiting"}}
        dangling == recovery.ids \ queued
    IN
    /\ recovery.step = "stored"
    /\ recovery' = IF dangling = {} THEN Idle
                    ELSE [step |-> "dangling", ids |-> dangling]
    /\ UNCHANGED <<row, runs, mainVars, request, queue, aborts, workerVars, boundVars>>

\* The update requires a row in progress; what the queue holds is not read again.
MarkAsCrashed ==
    /\ recovery.step = "dangling"
    /\ row' = [e \in Execs |-> IF e \in recovery.ids /\ row[e] \in InProgress
                               THEN "crashed" ELSE row[e]]
    /\ recovery' = Idle
    /\ UNCHANGED <<runs, mainVars, request, queue, aborts, workerVars, boundVars>>

-----------------------------------------------------------------------------
Recover == ReadStoredIds \/ FindDangling \/ MarkAsCrashed
MainStep(j) == AddJob(j) \/ Attach(j) \/ JobCompleted(j) \/ JobFailed(j) \/ SaveError(j)
StopStep(j) == CheckActive(j) \/ StopJob(j)
ProcessJob(j) ==
    \/ PickUp(j) \/ ReadRow(j) \/ SetRunning(j) \/ StartRun(j)
    \/ EndRun(j) \/ SaveResult(j) \/ FinishJob(j)

ScalingNext ==
    \/ \E e \in Execs : Create(e)
    \/ \E m \in Mains, e \in Execs : Resume(m, e) \/ StopRequested(m, e)
    \/ StopExecution \/ StopDuringRun
    \/ \E j \in Jobs :
         \/ MainStep(j) \/ AddJobFails(j) \/ StopStep(j)
         \/ ProcessJob(j) \/ StartFails(j) \/ SaveProgress(j) \/ TimeOut(j)
         \/ AbortJob(j) \/ SaveCanceled(j) \/ Stalled(j) \/ WorkerCrash(j)
    \/ Recover
    \/ \E m \in Mains : MainCrash(m)

MainProgress ==
    StopExecution \/ StopDuringRun \/ \E j \in Jobs : MainStep(j) \/ StopStep(j)
WorkerProgress ==
    \E j \in Jobs : ProcessJob(j) \/ AbortJob(j) \/ SaveCanceled(j)

(***************************************************************************)
(* Fairness: mains and workers go on with what they have begun, workflows  *)
(* end, messages arrive, Bull checks for stalled jobs and some main is     *)
(* leader and repeats the recovery.  Without new faults and requests the   *)
(* steps of mains and workers are finitely many, so it is enough that some *)
(* step of theirs is taken as long as there is one.                        *)
(***************************************************************************)
ScalingSpec ==
    /\ ScalingInit /\ [][ScalingNext]_vars
    /\ WF_vars(MainProgress) /\ WF_vars(WorkerProgress)
    /\ WF_vars(\E j \in Jobs : worker[j] = "dead" /\ Stalled(j))
    /\ WF_vars(Recover)

-----------------------------------------------------------------------------
(* Properties *)

\* The types of the variables.
ShapeOK ==
    /\ row \in [Execs -> RowStates]
    /\ runs \in [Execs -> 0..MaxRuns]
    /\ entry \in [Mains -> [Execs -> [run : 0..MaxRuns, attached : 0..MaxRuns]]]
    /\ home \in [Jobs -> Mains \cup {NoMain}]
    /\ run \in [Jobs -> RunStates]
    /\ stop \in [Jobs -> StopStates]
    /\ queue \in [Jobs -> JobStates]
    /\ worker \in [Jobs -> WorkerStates]
    /\ aborts \subseteq Jobs /\ saves \subseteq Jobs
    /\ faults \in 0..MaxFaults /\ stops \in 0..MaxStops

\* What main, queue and worker know of the same run.
JobMatchesRun(j) ==
    /\ (run[j] = "none") <=> (j[2] > runs[j[1]])
    /\ queue[j] # "none" => run[j] \notin {"none", "created"}
    /\ worker[j] # "idle" => queue[j] \notin {"none", "waiting"}
    /\ queue[j] = "removed" => worker[j] = "idle" \/ run[j] \notin {"added", "watching"}

JobsMatchRuns == \A j \in Jobs : JobMatchesRun(j)

EntriesTakenUp == \A m \in Mains, e \in Execs : entry[m][e].run <= runs[e]

(***************************************************************************)
(* Type invariant, with what ties the pieces together: a job is in the     *)
(* queue only once it was added, a worker only has jobs that were picked   *)
(* up, a job that the main still watches is not removed under its worker,  *)
(* and only taken up runs have an entry.                                   *)
(***************************************************************************)
ScalingTypeOK ==
    /\ ShapeOK
    /\ JobsMatchRuns
    /\ EntriesTakenUp

(***************************************************************************)
(* No two workers run the same execution at the same time: a wait that is  *)
(* resumed while the job of the run before it is still being closed, or by *)
(* two mains at once, makes one new run, whose engine starts when the old  *)
(* one has ended (active-executions.ts:130).                               *)
(***************************************************************************)
OneEngine ==
    \A e \in Execs : \A k, n \in 1..MaxRuns :
        {worker[<<e, k>>], worker[<<e, n>>]} \subseteq
            {"starting", "running", "saving", "aborted"} => k = n

\* Where the worker of the last run of the execution stands
LastWorker(e, state) == \E n \in 1..MaxRuns : n = runs[e] /\ worker[<<e, n>>] = state

(***************************************************************************)
(* The recovery reads the rows, then the queue, then writes; a job added   *)
(* in between makes it mark an execution as crashed that a worker runs, as *)
(* does a lost job lock (scaling.service.ts:626).  Such a verdict does not *)
(* last: whatever was written meanwhile, how the engine ends reaches the   *)
(* row, unless the worker dies.                                            *)
(***************************************************************************)
OutcomeReachesRow ==
    \A e \in Execs :
        LastWorker(e, "running") ~>
            row[e] \notin InProgress \cup {"crashed"} \/ LastWorker(e, "dead")

(***************************************************************************)
(* Whatever crashes, an execution does not stay new or running for ever:   *)
(* its worker, the main that watches its job or the recovery settles the   *)
(* row (scaling.service.ts:610).                                           *)
(***************************************************************************)
InProgressSettles ==
    \A e \in Execs : row[e] \in InProgress ~> row[e] \notin InProgress

\* The entry of this run, which only the main that took it up can have
HasEntry(j) == home[j] # NoMain /\ entry[home[j]][j[1]].run = j[2]

(***************************************************************************)
(* The entry an execution has in ActiveExecutions goes in the end, except  *)
(* where processError returns early: the caller that waits for the         *)
(* execution gets its answer (workflow-runner.ts:653).                     *)
(***************************************************************************)
EntrySettles ==
    \A j \in Jobs : HasEntry(j) ~> (~HasEntry(j) \/ run[j] \in {"spared", "cancelled"})

=============================================================================
