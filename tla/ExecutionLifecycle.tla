------------------------- MODULE ExecutionLifecycle -------------------------
(***************************************************************************)
(* The life of executions in one main in regular mode: WorkflowRunner.run, *)
(* ActiveExecutions, the status column of the execution row, the           *)
(* WaitTracker, ExecutionService.stop, graceful shutdown and restart, over *)
(* the limiter of ConcurrencyControl.                                      *)
(*                                                                         *)
(* A run is one call of WorkflowRunner.run: the first run of an execution  *)
(* creates its row, the others resume it (or, after a restart, pick up a   *)
(* row that was still enqueued).  Each run is a caller of the limiter.     *)
(* The steps of a run are what the code does between two awaits: a write   *)
(* to the database is a step of its own, so anything may happen between    *)
(* the decision to write and the write, and between the write and the code *)
(* that follows it.                                                        *)
(***************************************************************************)
EXTENDS ConcurrencyControl

CONSTANTS
    FirstRuns,    \* the runs that create their execution
    WaitingRuns,  \* the runs whose workflow may reach a Wait node
    TimedRuns,    \* the runs whose workflow has an execution timeout
    ResponseRuns, \* the runs started with a responsePromise
    NoRun

ASSUME LifecycleAssumption ==
    /\ FirstRuns \subseteq Callers
    /\ WaitingRuns \subseteq Callers
    /\ TimedRuns \subseteq Callers
    /\ ResponseRuns \subseteq Callers
    /\ NoRun \notin Callers
    /\ \A r, s \in FirstRuns : ExecOf[r] = ExecOf[s] => r = s
    /\ \A r, s \in Callers : ExecOf[r] = ExecOf[s] => ModeOf[r] = ModeOf[s]
    /\ \A r \in Callers : ModeOf[r] # "evaluation"

VARIABLES
    db,          \* db[e]: the status of the row, "none" before it exists
    pc,          \* pc[r]: where run r stands
    engine,      \* engine[r]: its WorkflowExecute, and whether it is attached
    outcome,     \* outcome[r]: the status its workflow ended with
    cancelled,   \* the runs whose WorkflowExecute was cancelled
    cancelSaves, \* those whose onCancel hook has yet to write to the row
    owner,       \* owner[e]: the run of the entry activeExecutions[e]
    entryStatus, \* entryStatus[e]: the status field of that entry
    timers,      \* the executions that have a WaitTracker timer
    stopping,    \* stopping[e]: progress of ExecutionService.stop(e)
    phase,       \* of the process
    boot         \* enqueued executions found at startup, still to be run

runVars == <<pc, engine, outcome, cancelled, cancelSaves>>
entryVars == <<owner, entryStatus>>
procVars == <<timers, stopping, phase, boot>>
vars == <<ccVars, db, runVars, entryVars, procVars>>

Statuses == {"none", "new", "running", "waiting", "success", "error", "canceled"}
Steps == {"idle", "reserve", "reserving", "register", "precheck", "main",
          "start", "engine", "saving", "saved", "latesave", "done", "dead"}
Stoppable == {"new", "waiting", "running"}

LifecycleInit ==
    /\ CCInit
    /\ db = [e \in Execs |-> "none"]
    /\ pc = [r \in Callers |-> "idle"]
    /\ engine = [r \in Callers |-> "none"]
    /\ outcome = [r \in Callers |-> "none"]
    /\ cancelled = {}
    /\ cancelSaves = {}
    /\ owner = [e \in Execs |-> NoRun]
    /\ entryStatus = [e \in Execs |-> "running"]
    /\ timers = {}
    /\ stopping = [e \in Execs |-> "idle"]
    /\ phase = "up"
    /\ boot = {}

Goto(r, from, to) == pc[r] = from /\ pc' = [pc EXCEPT ![r] = to]
Accepting == phase \in {"up", "booted"}

-----------------------------------------------------------------------------
(* ExecutionRepository: what the writes do to the row *)

WriteStatus(e, status) == db' = [db EXCEPT ![e] = status]

\* updateExistingExecution with requireNotCanceled
SaveStatus(e, status) ==
    WriteStatus(e, IF db[e] = "canceled" THEN "canceled" ELSE status)

-----------------------------------------------------------------------------
(* ActiveExecutions: entries and their post-execution promises *)

\* Mutant: the settled entry is kept, as if it were waiting.
SettleKeeping(e) ==
    IF reservation[owner[e]] = "acquired"
    THEN Release(owner[e]) /\ UNCHANGED owner
    ELSE UNCHANGED <<ccVars, owner>>

(***************************************************************************)
(* The finally handler of the entry's promise: give the slot back, and     *)
(* drop the entry unless it is waiting.  A settled promise, recognised by  *)
(* its released reservation, settles no second time.                       *)
(***************************************************************************)
Settle(e) ==
    IF reservation[owner[e]] = "acquired"
    THEN /\ Release(owner[e])
         /\ owner' = IF entryStatus[e] = "waiting" THEN owner
                     ELSE [owner EXCEPT ![e] = NoRun]
    ELSE UNCHANGED <<ccVars, owner>>

\* finalizeExecution resolves the promise of the entry the id has now.
FinalizeExecution(e) ==
    IF owner[e] = NoRun THEN UNCHANGED <<ccVars, owner>> ELSE Settle(e)

\* Mutant: the onCancel hook starts although the workflow is not cancelled.
StopExecutionHookOnly(e) ==
    /\ owner[e] # NoRun /\ entryStatus[e] = "running"
    /\ cancelSaves' = cancelSaves \cup {owner[e]}
    /\ Settle(e)
    /\ UNCHANGED cancelled

(***************************************************************************)
(* stopExecution: a waiting entry is just dropped; otherwise the attached  *)
(* WorkflowExecute is cancelled, which starts its onCancel hook, and the   *)
(* promise is rejected.                                                    *)
(***************************************************************************)
StopExecution(e) ==
    \/ /\ owner[e] = NoRun
       /\ UNCHANGED <<ccVars, owner, cancelled, cancelSaves>>
    \/ /\ owner[e] # NoRun /\ entryStatus[e] = "waiting"
       /\ owner' = [owner EXCEPT ![e] = NoRun]
       /\ UNCHANGED <<ccVars, cancelled, cancelSaves>>
    \/ /\ owner[e] # NoRun /\ entryStatus[e] = "running"
       /\ LET hit == {r \in {owner[e]} \ cancelled :
                        engine[r] = "attached"
                        /\ pc[r] \in {"engine", "saving", "saved"}}
          IN /\ cancelled' = cancelled \cup hit
             /\ cancelSaves' = cancelSaves \cup hit
       /\ Settle(e)

-----------------------------------------------------------------------------
(* WorkflowRunner.run and ActiveExecutions.add *)

\* executionPersistence.create
Create(r) ==
    /\ Accepting /\ r \in FirstRuns
    /\ Goto(r, "idle", "reserve")
    /\ WriteStatus(ExecOf[r], "new")
    /\ UNCHANGED <<ccVars, engine, outcome, cancelled, cancelSaves, entryVars, procVars>>

\* A waiting webhook: any row but a waiting one is refused, here or by Claim.
ResumeByWebhook(r) ==
    /\ Accepting /\ r \notin FirstRuns
    /\ db[ExecOf[r]] = "waiting"
    /\ Goto(r, "idle", "reserve")
    /\ UNCHANGED <<ccVars, db, engine, outcome, cancelled, cancelSaves, entryVars, procVars>>

\* WaitTracker.startExecution: only a finished row is refused here.
ResumeByTimer(r) ==
    LET e == ExecOf[r] IN
    /\ phase # "draining" /\ r \notin FirstRuns
    /\ e \in timers
    /\ timers' = timers \ {e}
    /\ Goto(r, "idle", IF db[e] = "success" THEN "done" ELSE "reserve")
    /\ UNCHANGED <<ccVars, db, engine, outcome, cancelled, cancelSaves, entryVars,
                   stopping, phase, boot>>

\* Start.runEnqueuedExecutions
RunEnqueued(r) ==
    /\ r \notin FirstRuns
    /\ ExecOf[r] \in boot
    /\ boot' = boot \ {ExecOf[r]}
    /\ Goto(r, "idle", "reserve")
    /\ UNCHANGED <<ccVars, db, engine, outcome, cancelled, cancelSaves, entryVars,
                   timers, stopping, phase>>

Reserve(r) ==
    /\ Goto(r, "reserve", "reserving")
    /\ Throttle(r)
    /\ UNCHANGED <<db, engine, outcome, cancelled, cancelSaves, entryVars, procVars>>

\* Mutant: the new execution is registered without setRunning.
AddNewUnmarked(r) ==
    /\ r \in FirstRuns /\ reservation[r] = "acquired"
    /\ Goto(r, "reserving", "register")
    /\ UNCHANGED <<ccVars, db, engine, outcome, cancelled, cancelSaves, entryVars, procVars>>

\* A new execution: setRunning, whatever the row says.
AddNew(r) ==
    /\ r \in FirstRuns /\ reservation[r] = "acquired"
    /\ Goto(r, "reserving", "register")
    /\ WriteStatus(ExecOf[r], "running")
    /\ UNCHANGED <<ccVars, engine, outcome, cancelled, cancelSaves, entryVars, procVars>>

\* Mutant: the resume does not require the row to be waiting.
AddExistingAlways(r) ==
    /\ r \notin FirstRuns /\ reservation[r] = "acquired"
    /\ Goto(r, "reserving", "register")
    /\ WriteStatus(ExecOf[r], "running")
    /\ UNCHANGED <<ccVars, engine, outcome, cancelled, cancelSaves, entryVars, procVars>>

\* Mutant: the catch block does not give the slot back.
AddExistingKeepsSlot(r) ==
    /\ r \notin FirstRuns /\ reservation[r] = "acquired"
    /\ \/ /\ db[ExecOf[r]] = "waiting"
          /\ Goto(r, "reserving", "register")
          /\ WriteStatus(ExecOf[r], "running")
       \/ /\ db[ExecOf[r]] # "waiting"
          /\ Goto(r, "reserving", "done")
          /\ UNCHANGED db
    /\ UNCHANGED <<ccVars, engine, outcome, cancelled, cancelSaves, entryVars, procVars>>

(***************************************************************************)
(* An existing execution: the update requires the status waiting; when it  *)
(* touches no row, ExecutionAlreadyResumingError ends the run and the      *)
(* catch block gives the slot back.                                        *)
(***************************************************************************)
AddExisting(r) ==
    /\ r \notin FirstRuns /\ reservation[r] = "acquired"
    /\ \/ /\ db[ExecOf[r]] = "waiting"
          /\ Goto(r, "reserving", "register")
          /\ WriteStatus(ExecOf[r], "running")
          /\ UNCHANGED ccVars
       \/ /\ db[ExecOf[r]] # "waiting"
          /\ Goto(r, "reserving", "done")
          /\ Release(r)
          /\ UNCHANGED db
    /\ UNCHANGED <<engine, outcome, cancelled, cancelSaves, entryVars, procVars>>

\* The end of add(): the entry replaces one that a waiting run left behind.
Register(r) ==
    /\ Goto(r, "register", "precheck")
    /\ owner' = [owner EXCEPT ![ExecOf[r]] = r]
    /\ entryStatus' = [entryStatus EXCEPT ![ExecOf[r]] = "running"]
    /\ UNCHANGED <<ccVars, db, engine, outcome, cancelled, cancelSaves, procVars>>

\* The context or the credentials check failed: failExecution.
PreflightFails(r) ==
    /\ Goto(r, "precheck", "saving")
    /\ outcome' = [outcome EXCEPT ![r] = "error"]
    /\ UNCHANGED <<ccVars, db, engine, cancelled, cancelSaves, entryVars, procVars>>

\* attachResponsePromise throws when the entry is gone; run() rejects.
PreflightPasses(r) ==
    /\ Goto(r, "precheck",
            IF r \in ResponseRuns /\ owner[ExecOf[r]] = NoRun THEN "done" ELSE "main")
    /\ UNCHANGED <<ccVars, db, engine, outcome, cancelled, cancelSaves, entryVars, procVars>>

\* runMainProcess: setRunning again, whatever the row says.
SetRunning(r) ==
    /\ Goto(r, "main", "start")
    /\ WriteStatus(ExecOf[r], "running")
    /\ UNCHANGED <<ccVars, engine, outcome, cancelled, cancelSaves, entryVars, procVars>>

(***************************************************************************)
(* processRunExecutionData starts the workflow before it is attached to    *)
(* the entry; when the entry is gone, attachWorkflowExecution throws and   *)
(* the workflow goes on with nobody listening.                             *)
(***************************************************************************)
StartEngine(r) ==
    /\ Goto(r, "start", "engine")
    /\ engine' = [engine EXCEPT ![r] =
                    IF owner[ExecOf[r]] = NoRun THEN "detached" ELSE "attached"]
    /\ UNCHANGED <<ccVars, db, outcome, cancelled, cancelSaves, entryVars, procVars>>

\* Anything else in that block throws: processError finalizes, then saves.
StartFails(r) ==
    /\ Goto(r, "start", "latesave")
    /\ FinalizeExecution(ExecOf[r])
    /\ UNCHANGED <<db, engine, outcome, cancelled, cancelSaves, entryStatus, procVars>>

LateSave(r) ==
    /\ Goto(r, "latesave", "done")
    /\ SaveStatus(ExecOf[r], "error")
    /\ UNCHANGED <<ccVars, engine, outcome, cancelled, cancelSaves, entryVars, procVars>>

-----------------------------------------------------------------------------
(* The workflow itself, and the hooks around its end *)

\* processSuccessExecution; a cancelled workflow skips the save hook.
EngineEnds(r) ==
    \/ /\ r \notin cancelled
       /\ Goto(r, "engine", "saving")
       /\ \E s \in {"success", "error"} : outcome' = [outcome EXCEPT ![r] = s]
       /\ UNCHANGED <<ccVars, db, engine, cancelled, cancelSaves, entryVars, procVars>>
    \/ /\ r \in cancelled
       /\ Goto(r, "engine", "saved")
       /\ UNCHANGED <<ccVars, db, engine, outcome, cancelled, cancelSaves, entryVars, procVars>>

(***************************************************************************)
(* putExecutionToWait sets the status of the entry the id has now; without *)
(* an entry it throws and the workflow fails.                              *)
(***************************************************************************)
EngineWaits(r) ==
    /\ r \in WaitingRuns \ cancelled
    /\ Goto(r, "engine", "saving")
    /\ IF owner[ExecOf[r]] = NoRun
       THEN /\ outcome' = [outcome EXCEPT ![r] = "error"]
            /\ UNCHANGED entryStatus
       ELSE /\ outcome' = [outcome EXCEPT ![r] = "waiting"]
            /\ entryStatus' = [entryStatus EXCEPT ![ExecOf[r]] = "waiting"]
    /\ UNCHANGED <<ccVars, db, engine, cancelled, cancelSaves, owner, procVars>>

\* The workflowExecuteAfter hook of hookFunctionsSave
SaveHook(r) ==
    /\ Goto(r, "saving", "saved")
    /\ SaveStatus(ExecOf[r], outcome[r])
    /\ UNCHANGED <<ccVars, engine, outcome, cancelled, cancelSaves, entryVars, procVars>>

\* The same hook, fired and forgotten by onCancel
CancelSave(r) ==
    /\ r \in cancelSaves
    /\ cancelSaves' = cancelSaves \ {r}
    /\ SaveStatus(ExecOf[r], "canceled")
    /\ UNCHANGED <<ccVars, pc, engine, outcome, cancelled, entryVars, procVars>>

\* The then handler of the workflow, or the end of failExecution
Finalize(r) ==
    /\ Goto(r, "saved", "done")
    /\ IF engine[r] = "detached" THEN UNCHANGED <<ccVars, owner>>
       ELSE FinalizeExecution(ExecOf[r])
    /\ UNCHANGED <<db, engine, outcome, cancelled, cancelSaves, entryStatus, procVars>>

\* The execution timeout: armed once attached, cleared just before Finalize.
Timeout(r) ==
    /\ r \in TimedRuns /\ engine[r] = "attached"
    /\ pc[r] \in {"engine", "saving", "saved"}
    /\ StopExecution(ExecOf[r])
    /\ UNCHANGED <<db, pc, engine, outcome, entryStatus, procVars>>

-----------------------------------------------------------------------------
(* WaitTracker and ExecutionService.stop *)

\* getWaitingExecutions
TrackWaiting(e) ==
    /\ Accepting
    /\ db[e] = "waiting" /\ e \notin timers
    /\ timers' = timers \cup {e}
    /\ UNCHANGED <<ccVars, db, runVars, entryVars, stopping, phase, boot>>

ModeOfExec(e) == ModeOf[CHOOSE r \in Callers : ExecOf[r] = e]

\* stop() reads the row and checks that it is stoppable.
StopRead(e) ==
    /\ Accepting
    /\ stopping[e] = "idle" /\ db[e] \in Stoppable
    /\ stopping' = [stopping EXCEPT ![e] = "checked"]
    /\ UNCHANGED <<ccVars, db, runVars, entryVars, timers, phase, boot>>

\* stopInRegularMode up to its own write
StopApply(e) ==
    /\ stopping[e] = "checked"
    /\ stopping' = [stopping EXCEPT ![e] = "writing"]
    /\ \/ /\ Has(e)
          /\ RemoveQueued(e, ModeOfExec(e))
          /\ UNCHANGED <<cancelled, cancelSaves, owner, timers>>
       \/ /\ ~Has(e)
          /\ StopExecution(e)
          /\ timers' = timers \ {e}
    /\ UNCHANGED <<db, pc, engine, outcome, entryStatus, phase, boot>>

\* stopBeforeRun or stopDuringRun: canceled, whatever the row says
StopWrite(e) ==
    /\ stopping[e] = "writing"
    /\ stopping' = [stopping EXCEPT ![e] = "idle"]
    /\ WriteStatus(e, "canceled")
    /\ UNCHANGED <<ccVars, runVars, entryVars, timers, phase, boot>>

-----------------------------------------------------------------------------
(* Graceful shutdown and the next start of the process *)

\* WaitTracker.stopTracking, then ActiveExecutions.shutdown up to its loop
BeginShutdown ==
    /\ phase = "up"
    /\ phase' = "draining"
    /\ Disable
    /\ timers' = {}
    /\ owner' = [e \in Execs |-> IF entryStatus[e] = "waiting" THEN NoRun ELSE owner[e]]
    /\ UNCHANGED <<db, runVars, entryStatus, stopping, boot>>

(***************************************************************************)
(* The loop ends when there are no active executions: the process exits,   *)
(* and whatever was still in flight or queued is lost with its memory.     *)
(* Bound: one restart.                                                     *)
(***************************************************************************)
Restart ==
    /\ phase = "draining"
    /\ \A e \in Execs : owner[e] = NoRun
    /\ phase' = "booted"
    /\ CCReset
    /\ pc' = [r \in Callers |-> IF pc[r] = "idle" THEN "idle" ELSE "dead"]
    /\ engine' = [r \in Callers |-> "none"]
    /\ outcome' = [r \in Callers |-> "none"]
    /\ cancelled' = {}
    /\ cancelSaves' = {}
    /\ entryStatus' = [e \in Execs |-> "running"]
    /\ stopping' = [e \in Execs |-> "idle"]
    /\ boot' = {e \in Execs : db[e] = "new"}
    /\ UNCHANGED <<db, owner, timers>>

-----------------------------------------------------------------------------
Begins(r) ==
    Create(r) \/ ResumeByWebhook(r) \/ ResumeByTimer(r) \/ RunEnqueued(r)

Advances(r) ==
    \/ Reserve(r) \/ AddNew(r) \/ AddExisting(r) \/ Register(r)
    \/ PreflightFails(r) \/ PreflightPasses(r) \/ SetRunning(r)
    \/ StartEngine(r) \/ StartFails(r) \/ LateSave(r)
    \/ EngineEnds(r) \/ EngineWaits(r) \/ SaveHook(r) \/ Finalize(r)

Stops(e) == StopRead(e) \/ StopApply(e) \/ StopWrite(e)

LifecycleNext ==
    \/ \E r \in Callers : Begins(r) \/ Advances(r) \/ CancelSave(r) \/ Timeout(r)
    \/ \E e \in Execs : Stops(e) \/ TrackWaiting(e)
    \/ BeginShutdown
    \/ Restart

LifecycleSpec == LifecycleInit /\ [][LifecycleNext]_vars

(***************************************************************************)
(* What Node's event loop, the database and terminating workflows give: a  *)
(* run that can go on does, a fired hook or an accepted stop completes, a  *)
(* timer fires, and a draining process that may exit does.  Nobody has to  *)
(* start or stop an execution, or to shut the process down.                *)
(***************************************************************************)
Fairness ==
    /\ \A r \in Callers : WF_vars(Advances(r)) /\ WF_vars(CancelSave(r))
    /\ \A r \in Callers : WF_vars(ResumeByTimer(r)) /\ WF_vars(RunEnqueued(r))
    /\ \A e \in Execs : WF_vars(StopApply(e)) /\ WF_vars(StopWrite(e))
    /\ \A e \in Execs : WF_vars(TrackWaiting(e))
    /\ WF_vars(Restart)

FairLifecycleSpec == LifecycleSpec /\ Fairness
-----------------------------------------------------------------------------
(* Properties *)

\* Types, and that only a cancelled WorkflowExecute has its onCancel hook.
LifecycleTypeOK ==
    /\ TypeOK
    /\ db \in [Execs -> Statuses]
    /\ pc \in [Callers -> Steps]
    /\ engine \in [Callers -> {"none", "attached", "detached"}]
    /\ outcome \in [Callers -> {"none", "success", "error", "waiting"}]
    /\ cancelled \in SUBSET Callers
    /\ cancelSaves \in SUBSET cancelled
    /\ owner \in [Execs -> Callers \cup {NoRun}]
    /\ entryStatus \in [Execs -> {"running", "waiting"}]
    /\ timers \in SUBSET Execs
    /\ stopping \in [Execs -> {"idle", "checked", "writing"}]
    /\ phase \in {"up", "draining", "booted"}
    /\ boot \in SUBSET Execs

RunsOf(e) == {r \in Callers : ExecOf[r] = e}

\* The run has taken charge of its row and has not yet saved an outcome.
InCharge(r) ==
    pc[r] \in {"register", "precheck", "main", "start", "engine", "saving"}

(***************************************************************************)
(* However many webhooks, timers, stops and restarts race to resume an     *)
(* execution, at most one run is ever in charge of it: no workflow is      *)
(* executed twice at once from the same saved state.                       *)
(***************************************************************************)
OneRunInCharge ==
    \A e \in Execs : \A r, s \in RunsOf(e) : InCharge(r) /\ InCharge(s) => r = s

(***************************************************************************)
(* A row that says new, waiting, success or error tells the truth: no run  *)
(* of this process is then executing that workflow.  (A canceled row does  *)
(* not: the workflow may still be winding down.)                           *)
(***************************************************************************)
QuietRowIsQuiet ==
    \A r \in Callers :
        InCharge(r) => db[ExecOf[r]] \in {"running", "canceled"}

(***************************************************************************)
(* No zombie entries: an entry of activeExecutions with status running has *)
(* a promise that is still open and a run that has still to settle it, so  *)
(* the shutdown loop never waits for an entry nobody will remove.          *)
(***************************************************************************)
RunningEntryIsLive ==
    \A e \in Execs :
        owner[e] # NoRun /\ entryStatus[e] = "running" =>
            /\ reservation[owner[e]] = "acquired"
            /\ pc[owner[e]] \notin {"idle", "reserve", "reserving", "done", "dead"}

(***************************************************************************)
(* Until shutdown, a finished run holds no slot of the limiter: a slot it  *)
(* kept would be lost for good.  The comment in                            *)
(* stopExecution takes it for granted ("A waiting execution will not have  *)
(* a valid workflowExecution or postExecutePromise").                      *)
(***************************************************************************)
FinishedRunHoldsNoSlot ==
    ~disabled => \A r \in Callers : pc[r] = "done" => reservation[r] # "acquired"

Terminal == {"success", "error", "canceled"}

(***************************************************************************)
(* Every execution that is created ends, even if it has to queue, is       *)
(* stopped at any moment, times out or fails on the way, unless the        *)
(* process is shut down first.                                             *)
(***************************************************************************)
EveryExecutionEnds ==
    \A e \in Execs : db[e] = "new" ~> (db[e] \in Terminal \/ phase # "up")

(***************************************************************************)
(* A graceful shutdown gets through: the loop in ActiveExecutions.shutdown *)
(* sees the last active execution go.                                      *)
(***************************************************************************)
ShutdownCompletes == phase = "draining" ~> phase # "draining"
=============================================================================
