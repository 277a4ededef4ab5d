------------------------- MODULE ScalingQueue_proofs -------------------------
(***************************************************************************)
(* One engine per execution in queue mode, and rows that stay settled, for *)
(* any number of mains, executions, runs, stops and faults.                *)
(*                                                                         *)
(* OneEngine says nothing about a job that is still on its way to a        *)
(* worker, so it is not inductive.  LastRunPends is about every run that   *)
(* may yet start an engine: there is only the last one of an execution,    *)
(* and none while the row says that the execution waits or has succeeded.  *)
(* The conditional update of a resume rests on just that, and so does the  *)
(* unconditional one of setRunning.                                        *)
(***************************************************************************)
EXTENDS ScalingQueue, TLAPS

\* The run has an engine, or may still get one.
Pending(j) ==
    \/ run[j] = "created"
    \/ queue[j] = "waiting"
    \/ worker[j] \in {"picked", "read", "starting", "running", "saving", "aborted"}

LastRunPends ==
    \A j \in Jobs :
        Pending(j) => j[2] = runs[j[1]] /\ row[j[1]] \notin {"none", "waiting", "success"}

SQInv == ScalingTypeOK /\ LastRunPends

-----------------------------------------------------------------------------

\* What a job is.
LEMMA JobParts ==
    /\ \A j \in Jobs : j[1] \in Execs /\ j[2] \in 1..MaxRuns /\ j = <<j[1], j[2]>>
    /\ \A e \in Execs, n \in 1..MaxRuns : <<e, n>> \in Jobs /\ <<e, n>>[1] = e /\ <<e, n>>[2] = n
BY DEF Jobs

Entries == [run : 0..MaxRuns, attached : 0..MaxRuns]

\* An entry is replaced.
LEMMA EntrySet ==
    ASSUME NEW f \in [Mains -> [Execs -> Entries]], NEW m, NEW e, NEW x \in Entries
    PROVE  [f EXCEPT ![m][e] = x] \in [Mains -> [Execs -> Entries]]
OBVIOUS

\* An entry is removed.
LEMMA EntryGone ==
    ASSUME ShapeOK, NEW m, NEW e
    PROVE  [entry EXCEPT ![m][e] = NoEntry] \in [Mains -> [Execs -> [run : 0..MaxRuns, attached : 0..MaxRuns]]]
<1>1. NoEntry \in Entries
  BY ScalingAssumption DEF NoEntry, Entries
<1>2. QED
  BY <1>1, EntrySet DEF ShapeOK, Entries

\* Every step keeps the types.
LEMMA ShapeStep ==
    ASSUME ShapeOK, [ScalingNext]_vars
    PROVE  ShapeOK'
<1> USE ScalingAssumption DEF ShapeOK, RowStates, RunStates, StopStates, JobStates, WorkerStates, mainVars, workerVars, boundVars
<1>1. ASSUME NEW e \in Execs, Create(e) PROVE ShapeOK'
  <2>1. entry' \in [Mains -> [Execs -> Entries]]
    <3>1. [run |-> runs[e] + 1, attached |-> 0] \in Entries
      BY <1>1 DEF Create, TakeUp, Entries
    <3>2. QED
      BY <1>1, <3>1, EntrySet DEF Create, TakeUp, Entries
  <2>2. QED
    BY <1>1, <2>1 DEF Create, TakeUp, WriteRow, Entries
<1>2. ASSUME NEW m \in Mains, NEW e \in Execs, Resume(m, e) PROVE ShapeOK'
  <2>1. entry' \in [Mains -> [Execs -> Entries]]
    <3>1. [run |-> runs[e] + 1, attached |-> 0] \in Entries
      BY <1>2 DEF Resume, TakeUp, Entries
    <3>2. QED
      BY <1>2, <3>1, EntrySet DEF Resume, TakeUp, Entries
  <2>2. row' \in [Execs -> RowStates] /\ runs' \in [Execs -> 0..MaxRuns]
    BY <1>2 DEF Resume, TakeUp, WriteRow
  <2>3. home' \in [Jobs -> Mains \cup {NoMain}] /\ run' \in [Jobs -> RunStates]
    BY <1>2 DEF Resume, TakeUp
  <2>4. QED
    BY <1>2, <2>1, <2>2, <2>3 DEF Resume, TakeUp, Entries
<1>3. ASSUME NEW m \in Mains, NEW e \in Execs, StopRequested(m, e) PROVE ShapeOK'
  BY <1>3 DEF StopRequested
<1>4. ASSUME NEW j \in Jobs, AddJob(j) PROVE ShapeOK'
  BY <1>4 DEF AddJob
<1>5. ASSUME NEW j \in Jobs, Attach(j) PROVE ShapeOK'
  <2> DEFINE m == home[j]
             e == j[1]
             x == [run |-> entry[m][e].run, attached |-> j[2]]
  <2>1. entry' = entry \/ entry' = [entry EXCEPT ![m][e] = x]
    BY <1>5 DEF Attach
  <2>2. CASE m \in Mains
    <3>1. entry[m][e] \in Entries /\ j[2] \in 0..MaxRuns
      BY <2>2, JobParts DEF Entries
    <3>2. x \in Entries
      BY <3>1 DEF Entries
    <3>3. entry \in [Mains -> [Execs -> Entries]]
      BY DEF Entries
    <3> HIDE DEF x
    <3>4. [entry EXCEPT ![m][e] = x] \in [Mains -> [Execs -> Entries]]
      BY ONLY <3>2, <3>3, EntrySet
    <3>5. entry' \in [Mains -> [Execs -> Entries]]
      BY <2>1, <3>3, <3>4
    <3>6. QED
      BY <1>5, <3>5 DEF Attach, Entries
  <2>3. CASE m \notin Mains
    <3>1. entry' \in [Mains -> [Execs -> Entries]]
      BY <2>1, <2>3 DEF Entries
    <3>2. QED
      BY <1>5, <3>1 DEF Attach, Entries
  <2>4. QED
    BY <2>2, <2>3
<1>6. ASSUME NEW j \in Jobs, JobCompleted(j) PROVE ShapeOK'
  BY <1>6, EntryGone DEF JobCompleted, Finalize
<1>7. ASSUME NEW j \in Jobs, JobFailed(j) PROVE ShapeOK'
  BY <1>7, EntryGone DEF JobFailed, ProcessError, Finalize
<1>8. ASSUME NEW j \in Jobs, SaveError(j) PROVE ShapeOK'
  BY <1>8 DEF SaveError, WriteRow
<1>9. ASSUME NEW j \in Jobs, AddJobFails(j) PROVE ShapeOK'
  BY <1>9, EntryGone DEF AddJobFails, ProcessError, Finalize, Fault
<1>10. ASSUME NEW j \in Jobs, CheckActive(j) PROVE ShapeOK'
  BY <1>10 DEF CheckActive
<1>11. ASSUME NEW j \in Jobs, StopJob(j) PROVE ShapeOK'
  BY <1>11 DEF StopJob
<1>12. ASSUME NEW j \in Jobs, PickUp(j) PROVE ShapeOK'
  BY <1>12 DEF PickUp, WorkerStep
<1>13. ASSUME NEW j \in Jobs, ReadRow(j) PROVE ShapeOK'
  <2>1. CASE row[j[1]] = "crashed"
    BY <1>13, <2>1 DEF ReadRow, WorkerStep, EndJob
  <2>2. CASE row[j[1]] # "crashed"
    BY <1>13, <2>2 DEF ReadRow, WorkerStep
  <2>3. QED
    BY <2>1, <2>2
<1>14. ASSUME NEW j \in Jobs, SetRunning(j) PROVE ShapeOK'
  BY <1>14 DEF SetRunning, WorkerStep, WriteRow
<1>15. ASSUME NEW j \in Jobs, StartRun(j) PROVE ShapeOK'
  BY <1>15 DEF StartRun, WorkerStep
<1>15a. ASSUME NEW j \in Jobs, EndRun(j) PROVE ShapeOK'
  BY <1>15a DEF EndRun, WorkerStep
<1>16. ASSUME NEW j \in Jobs, SaveResult(j) PROVE ShapeOK'
  BY <1>16, JobParts DEF SaveResult, WorkerStep, WriteRow
<1>17. ASSUME NEW j \in Jobs, FinishJob(j) PROVE ShapeOK'
  <2>1. worker' \in [Jobs -> WorkerStates]
    BY <1>17 DEF FinishJob, WorkerStep
  <2>2. PICK state \in {"completed", "cancelled"} : EndJob(j, state)
    BY <1>17 DEF FinishJob
  <2>3. QED
    BY <1>17, <2>1, <2>2 DEF FinishJob, EndJob
<1>18. ASSUME NEW j \in Jobs, StartFails(j) PROVE ShapeOK'
  BY <1>18 DEF StartFails, WorkerStep, EndJob, Fault
<1>19. ASSUME NEW j \in Jobs, SaveProgress(j) PROVE ShapeOK'
  BY <1>19 DEF SaveProgress, WriteRow
<1>20. ASSUME NEW j \in Jobs, TimeOut(j) PROVE ShapeOK'
  BY <1>20 DEF TimeOut, WorkerStep, WriteRow
<1>21. ASSUME NEW j \in Jobs, AbortJob(j) PROVE ShapeOK'
  BY <1>21 DEF AbortJob
<1>22. ASSUME NEW j \in Jobs, SaveCanceled(j) PROVE ShapeOK'
  BY <1>22 DEF SaveCanceled, WriteRow
<1>23. ASSUME NEW j \in Jobs, Stalled(j) PROVE ShapeOK'
  BY <1>23 DEF Stalled, Fault, Live
<1>24. ASSUME NEW j \in Jobs, WorkerCrash(j) PROVE ShapeOK'
  BY <1>24 DEF WorkerCrash, Fault
<1>25. ASSUME StopExecution PROVE ShapeOK'
  <2>1. entry' \in [Mains -> [Execs -> [run : 0..MaxRuns, attached : 0..MaxRuns]]]
    BY <1>25, EntryGone DEF StopExecution
  <2>2. QED
    BY <1>25, <2>1 DEF StopExecution
<1>26. ASSUME StopDuringRun PROVE ShapeOK'
  BY <1>26 DEF StopDuringRun, WriteRow
<1>27. ASSUME ReadStoredIds PROVE ShapeOK'
  BY <1>27 DEF ReadStoredIds
<1>28. ASSUME FindDangling PROVE ShapeOK'
  BY <1>28 DEF FindDangling
<1>29. ASSUME MarkAsCrashed PROVE ShapeOK'
  BY <1>29 DEF MarkAsCrashed, InProgress
<1>30. ASSUME NEW m \in Mains, MainCrash(m) PROVE ShapeOK'
  BY <1>30 DEF MainCrash, Fault, NoEntry
<1>31. ASSUME UNCHANGED vars PROVE ShapeOK'
  BY <1>31 DEF vars
<1>32. QED
  BY <1>1, <1>2, <1>3, <1>4, <1>5, <1>6, <1>7, <1>8, <1>9, <1>10, <1>11, <1>12, <1>13, <1>14, <1>15, <1>15a, <1>16, <1>17, <1>18, <1>19, <1>20, <1>21, <1>22, <1>23, <1>24, <1>25, <1>26, <1>27, <1>28, <1>29, <1>30, <1>31 DEF ScalingNext, MainStep, StopStep, ProcessJob, Recover

\* A run that is taken up is known to its main and to no one else.
LEMMA TakeUpMatch ==
    ASSUME ShapeOK, JobsMatchRuns, NEW m \in Mains, NEW e \in Execs, TakeUp(m, e),
           NEW k \in Jobs
    PROVE  JobMatchesRun(k)'
<1> DEFINE n == runs[e] + 1
           new == <<e, n>>
<1>0. /\ n \in 1..MaxRuns /\ runs[e] \in 0..MaxRuns
      /\ runs' = [runs EXCEPT ![e] = n] /\ run' = [run EXCEPT ![new] = "created"]
      /\ queue' = queue /\ worker' = worker
  BY ScalingAssumption DEF TakeUp, ShapeOK, workerVars
<1>1. /\ k[1] \in Execs /\ k[2] \in 1..MaxRuns /\ k = <<k[1], k[2]>>
      /\ new \in Jobs /\ new[1] = e /\ new[2] = n
  BY <1>0, JobParts
<1>2. JobMatchesRun(k) /\ JobMatchesRun(new)
  BY <1>1 DEF JobsMatchRuns
<1>3. CASE k = new
  <2>1. run[k] = "none" /\ queue[k] = "none" /\ worker[k] = "idle"
    BY <1>0, <1>1, <1>2, <1>3 DEF JobMatchesRun
  <2>2. run'[k] = "created" /\ runs'[k[1]] = n /\ k[2] = n
    BY <1>0, <1>1, <1>3 DEF ShapeOK
  <2>3. QED
    BY <1>0, <2>1, <2>2 DEF JobMatchesRun
<1>4. CASE k # new
  <2>1. run'[k] = run[k]
    BY <1>0, <1>4 DEF ShapeOK
  <2>2. (k[2] > runs'[k[1]]) <=> (k[2] > runs[k[1]])
    <3>1. CASE k[1] = e
      <4>1. k[2] # n
        BY <1>1, <1>4, <3>1
      <4>2. runs'[k[1]] = n
        BY <1>0, <3>1 DEF ShapeOK
      <4>3. QED
        BY <1>0, <1>1, <3>1, <4>1, <4>2
    <3>2. CASE k[1] # e
      BY <1>0, <1>1, <3>2 DEF ShapeOK
    <3>3. QED
      BY <3>1, <3>2
  <2>3. QED
    BY <1>0, <1>2, <2>1, <2>2 DEF JobMatchesRun
<1>5. QED
  BY <1>3, <1>4

\* Every step keeps what main, queue and worker know of the same run.
LEMMA MatchStep ==
    ASSUME ShapeOK, JobsMatchRuns, [ScalingNext]_vars
    PROVE  JobsMatchRuns'
<1> SUFFICES ASSUME NEW k \in Jobs PROVE JobMatchesRun(k)'
  BY DEF JobsMatchRuns
<1>0. JobMatchesRun(k) /\ k[1] \in Execs /\ k[2] \in 1..MaxRuns /\ k = <<k[1], k[2]>>
  BY JobParts DEF JobsMatchRuns
<1> USE ScalingAssumption DEF ShapeOK, JobMatchesRun, mainVars, workerVars, boundVars
<1>1. ASSUME NEW e \in Execs, Create(e) PROVE JobMatchesRun(k)'
  BY <1>1, TakeUpMatch DEF Create
<1>2. ASSUME NEW m \in Mains, NEW e \in Execs, Resume(m, e) PROVE JobMatchesRun(k)'
  BY <1>2, TakeUpMatch DEF Resume
<1>3. ASSUME NEW m \in Mains, NEW e \in Execs, StopRequested(m, e) PROVE JobMatchesRun(k)'
  BY <1>3, <1>0 DEF StopRequested
<1>4. ASSUME NEW j \in Jobs, AddJob(j) PROVE JobMatchesRun(k)'
  BY <1>4, <1>0 DEF AddJob
<1>5. ASSUME NEW j \in Jobs, Attach(j) PROVE JobMatchesRun(k)'
  BY <1>5, <1>0 DEF Attach
<1>6. ASSUME NEW j \in Jobs, JobCompleted(j) PROVE JobMatchesRun(k)'
  BY <1>6, <1>0 DEF JobCompleted, Finalize
<1>7. ASSUME NEW j \in Jobs, JobFailed(j) PROVE JobMatchesRun(k)'
  BY <1>7, <1>0 DEF JobFailed, ProcessError, Finalize
<1>8. ASSUME NEW j \in Jobs, SaveError(j) PROVE JobMatchesRun(k)'
  BY <1>8, <1>0 DEF SaveError
<1>9. ASSUME NEW j \in Jobs, AddJobFails(j) PROVE JobMatchesRun(k)'
  BY <1>9, <1>0 DEF AddJobFails, ProcessError, Fault
<1>10. ASSUME NEW j \in Jobs, CheckActive(j) PROVE JobMatchesRun(k)'
  BY <1>10, <1>0 DEF CheckActive
<1>11. ASSUME NEW j \in Jobs, StopJob(j) PROVE JobMatchesRun(k)'
  BY <1>11, <1>0 DEF StopJob
<1>12. ASSUME NEW j \in Jobs, PickUp(j) PROVE JobMatchesRun(k)'
  BY <1>12, <1>0 DEF PickUp, WorkerStep
<1>13. ASSUME NEW j \in Jobs, ReadRow(j) PROVE JobMatchesRun(k)'
  BY <1>13, <1>0 DEF ReadRow, WorkerStep, EndJob
<1>14. ASSUME NEW j \in Jobs, SetRunning(j) PROVE JobMatchesRun(k)'
  BY <1>14, <1>0 DEF SetRunning, WorkerStep
<1>15. ASSUME NEW j \in Jobs, StartRun(j) PROVE JobMatchesRun(k)'
  BY <1>15, <1>0 DEF StartRun, WorkerStep
<1>15a. ASSUME NEW j \in Jobs, EndRun(j) PROVE JobMatchesRun(k)'
  BY <1>15a, <1>0 DEF EndRun, WorkerStep
<1>16. ASSUME NEW j \in Jobs, SaveResult(j) PROVE JobMatchesRun(k)'
  BY <1>16, <1>0 DEF SaveResult, WorkerStep
<1>17. ASSUME NEW j \in Jobs, FinishJob(j) PROVE JobMatchesRun(k)'
  BY <1>17, <1>0 DEF FinishJob, WorkerStep, EndJob
<1>18. ASSUME NEW j \in Jobs, StartFails(j) PROVE JobMatchesRun(k)'
  BY <1>18, <1>0 DEF StartFails, WorkerStep, EndJob, Fault
<1>19. ASSUME NEW j \in Jobs, SaveProgress(j) PROVE JobMatchesRun(k)'
  BY <1>19, <1>0 DEF SaveProgress
<1>20. ASSUME NEW j \in Jobs, TimeOut(j) PROVE JobMatchesRun(k)'
  BY <1>20, <1>0 DEF TimeOut, WorkerStep
<1>21. ASSUME NEW j \in Jobs, AbortJob(j) PROVE JobMatchesRun(k)'
  BY <1>21, <1>0 DEF AbortJob
<1>22. ASSUME NEW j \in Jobs, SaveCanceled(j) PROVE JobMatchesRun(k)'
  BY <1>22, <1>0 DEF SaveCanceled
<1>23. ASSUME NEW j \in Jobs, Stalled(j) PROVE JobMatchesRun(k)'
  BY <1>23, <1>0 DEF Stalled, Fault, Live
<1>24. ASSUME NEW j \in Jobs, WorkerCrash(j) PROVE JobMatchesRun(k)'
  BY <1>24, <1>0 DEF WorkerCrash, Fault, Live
<1>25. ASSUME StopExecution PROVE JobMatchesRun(k)'
  BY <1>25, <1>0 DEF StopExecution
<1>26. ASSUME StopDuringRun PROVE JobMatchesRun(k)'
  BY <1>26, <1>0 DEF StopDuringRun
<1>27. ASSUME ReadStoredIds PROVE JobMatchesRun(k)'
  BY <1>27, <1>0 DEF ReadStoredIds
<1>28. ASSUME FindDangling PROVE JobMatchesRun(k)'
  BY <1>28, <1>0 DEF FindDangling
<1>29. ASSUME MarkAsCrashed PROVE JobMatchesRun(k)'
  BY <1>29, <1>0 DEF MarkAsCrashed
<1>30. ASSUME NEW m \in Mains, MainCrash(m) PROVE JobMatchesRun(k)'
  BY <1>30, <1>0 DEF MainCrash
<1>31. ASSUME UNCHANGED vars PROVE JobMatchesRun(k)'
  BY <1>31, <1>0 DEF vars
<1>32. QED
  BY <1>1, <1>2, <1>3, <1>4, <1>5, <1>6, <1>7, <1>8, <1>9, <1>10, <1>11, <1>12, <1>13, <1>14, <1>15, <1>15a, <1>16, <1>17, <1>18, <1>19, <1>20, <1>21, <1>22, <1>23, <1>24, <1>25, <1>26, <1>27, <1>28, <1>29, <1>30, <1>31 DEF ScalingNext, MainStep, StopStep, ProcessJob, Recover

\* Entries that are kept or removed name a run that was taken up.
LEMMA EntriesKept ==
    ASSUME ShapeOK, EntriesTakenUp, runs' = runs,
           \A m \in Mains, e \in Execs : entry'[m][e].run \in {entry[m][e].run, 0}
    PROVE  EntriesTakenUp'
<1> SUFFICES ASSUME NEW m \in Mains, NEW e \in Execs PROVE entry'[m][e].run <= runs[e]
  BY DEF EntriesTakenUp
<1>1. entry[m][e].run <= runs[e] /\ 0 <= runs[e]
  BY ScalingAssumption DEF EntriesTakenUp, ShapeOK
<1>2. QED
  BY <1>1

\* An entry of a run that is taken up names that run.
LEMMA EntriesTakeUp ==
    ASSUME ShapeOK, EntriesTakenUp, NEW m \in Mains, NEW e \in Execs, TakeUp(m, e)
    PROVE  EntriesTakenUp'
<1> DEFINE n == runs[e] + 1
<1> SUFFICES ASSUME NEW a \in Mains, NEW b \in Execs PROVE entry'[a][b].run <= runs'[b]
  BY DEF EntriesTakenUp
<1>1. /\ n \in 1..MaxRuns /\ runs[e] \in 0..MaxRuns /\ runs[b] \in 0..MaxRuns
      /\ runs'[b] = IF b = e THEN n ELSE runs[b]
  BY ScalingAssumption DEF TakeUp, ShapeOK
<1>2. entry'[a][b].run = IF a = m /\ b = e THEN n ELSE entry[a][b].run
  BY DEF TakeUp, ShapeOK
<1>3. entry[a][b].run <= runs[b] /\ entry[a][b].run \in 0..MaxRuns
  BY DEF EntriesTakenUp, ShapeOK
<1>4. QED
  BY <1>1, <1>2, <1>3

\* Removing an entry changes no other.
LEMMA GoneOrKept ==
    ASSUME ShapeOK, NEW a, NEW b, entry' = entry \/ entry' = [entry EXCEPT ![a][b] = NoEntry]
    PROVE  \A m \in Mains, e \in Execs : entry'[m][e].run \in {entry[m][e].run, 0}
<1> SUFFICES ASSUME NEW m \in Mains, NEW e \in Execs
             PROVE  entry'[m][e].run \in {entry[m][e].run, 0}
  OBVIOUS
<1>1. CASE entry' = entry
  BY <1>1
<1>2. CASE entry' = [entry EXCEPT ![a][b] = NoEntry]
  BY <1>2 DEF ShapeOK, NoEntry
<1>3. QED
  BY <1>1, <1>2

\* Every step keeps the entries to runs that were taken up.
LEMMA EntriesStep ==
    ASSUME ShapeOK, EntriesTakenUp, [ScalingNext]_vars
    PROVE  EntriesTakenUp'
<1> USE DEF ShapeOK, NoEntry, mainVars
<1>1. ASSUME NEW e \in Execs, Create(e) PROVE EntriesTakenUp'
  BY <1>1, ScalingAssumption, EntriesTakeUp DEF Create
<1>2. ASSUME NEW m \in Mains, NEW e \in Execs, Resume(m, e) PROVE EntriesTakenUp'
  BY <1>2, EntriesTakeUp DEF Resume
<1>3. ASSUME NEW m \in Mains, NEW e \in Execs, StopRequested(m, e) PROVE EntriesTakenUp'
  BY <1>3, EntriesKept DEF StopRequested
<1>4. ASSUME NEW j \in Jobs, AddJob(j) PROVE EntriesTakenUp'
  BY <1>4, EntriesKept DEF AddJob
<1>5. ASSUME NEW j \in Jobs, Attach(j) PROVE EntriesTakenUp'
  BY <1>5, EntriesKept DEF Attach
<1>6. ASSUME NEW j \in Jobs, JobCompleted(j) PROVE EntriesTakenUp'
  BY <1>6, EntriesKept DEF JobCompleted, Finalize
<1>7. ASSUME NEW j \in Jobs, JobFailed(j) PROVE EntriesTakenUp'
  <2>1. entry' = entry \/ entry' = [entry EXCEPT ![home[j]][j[1]] = NoEntry]
    BY <1>7 DEF JobFailed, ProcessError, Finalize
  <2>2. \A m \in Mains, e \in Execs : entry'[m][e].run \in {entry[m][e].run, 0}
    BY <2>1, GoneOrKept
  <2>3. QED
    BY <1>7, <2>2, EntriesKept DEF JobFailed
<1>8. ASSUME NEW j \in Jobs, SaveError(j) PROVE EntriesTakenUp'
  BY <1>8, EntriesKept DEF SaveError
<1>9. ASSUME NEW j \in Jobs, AddJobFails(j) PROVE EntriesTakenUp'
  <2>1. entry' = entry \/ entry' = [entry EXCEPT ![home[j]][j[1]] = NoEntry]
    BY <1>9 DEF AddJobFails, ProcessError, Finalize
  <2>2. \A m \in Mains, e \in Execs : entry'[m][e].run \in {entry[m][e].run, 0}
    BY <2>1, GoneOrKept
  <2>3. QED
    BY <1>9, <2>2, EntriesKept DEF AddJobFails
<1>10. ASSUME NEW j \in Jobs, CheckActive(j) PROVE EntriesTakenUp'
  BY <1>10, EntriesKept DEF CheckActive
<1>11. ASSUME NEW j \in Jobs, StopJob(j) PROVE EntriesTakenUp'
  BY <1>11, EntriesKept DEF StopJob
<1>12. ASSUME NEW j \in Jobs, PickUp(j) PROVE EntriesTakenUp'
  BY <1>12, EntriesKept DEF PickUp
<1>13. ASSUME NEW j \in Jobs, ReadRow(j) PROVE EntriesTakenUp'
  BY <1>13, EntriesKept DEF ReadRow
<1>14. ASSUME NEW j \in Jobs, SetRunning(j) PROVE EntriesTakenUp'
  BY <1>14, EntriesKept DEF SetRunning
<1>15. ASSUME NEW j \in Jobs, StartRun(j) PROVE EntriesTakenUp'
  BY <1>15, EntriesKept DEF StartRun
<1>15a. ASSUME NEW j \in Jobs, EndRun(j) PROVE EntriesTakenUp'
  BY <1>15a, EntriesKept DEF EndRun
<1>16. ASSUME NEW j \in Jobs, SaveResult(j) PROVE EntriesTakenUp'
  BY <1>16, EntriesKept DEF SaveResult
<1>17. ASSUME NEW j \in Jobs, FinishJob(j) PROVE EntriesTakenUp'
  BY <1>17, EntriesKept DEF FinishJob
<1>18. ASSUME NEW j \in Jobs, StartFails(j) PROVE EntriesTakenUp'
  BY <1>18, EntriesKept DEF StartFails
<1>19. ASSUME NEW j \in Jobs, SaveProgress(j) PROVE EntriesTakenUp'
  BY <1>19, EntriesKept DEF SaveProgress
<1>20. ASSUME NEW j \in Jobs, TimeOut(j) PROVE EntriesTakenUp'
  BY <1>20, EntriesKept DEF TimeOut
<1>21. ASSUME NEW j \in Jobs, AbortJob(j) PROVE EntriesTakenUp'
  BY <1>21, EntriesKept DEF AbortJob
<1>22. ASSUME NEW j \in Jobs, SaveCanceled(j) PROVE EntriesTakenUp'
  BY <1>22, EntriesKept DEF SaveCanceled
<1>23. ASSUME NEW j \in Jobs, Stalled(j) PROVE EntriesTakenUp'
  BY <1>23, EntriesKept DEF Stalled
<1>24. ASSUME NEW j \in Jobs, WorkerCrash(j) PROVE EntriesTakenUp'
  BY <1>24, EntriesKept DEF WorkerCrash
<1>25. ASSUME StopExecution PROVE EntriesTakenUp'
  BY <1>25, EntriesKept DEF StopExecution
<1>26. ASSUME StopDuringRun PROVE EntriesTakenUp'
  BY <1>26, EntriesKept DEF StopDuringRun
<1>27. ASSUME ReadStoredIds PROVE EntriesTakenUp'
  BY <1>27, EntriesKept DEF ReadStoredIds
<1>28. ASSUME FindDangling PROVE EntriesTakenUp'
  BY <1>28, EntriesKept DEF FindDangling
<1>29. ASSUME MarkAsCrashed PROVE EntriesTakenUp'
  BY <1>29, EntriesKept DEF MarkAsCrashed
<1>30. ASSUME NEW m \in Mains, MainCrash(m) PROVE EntriesTakenUp'
  BY <1>30, EntriesKept DEF MainCrash
<1>31. ASSUME UNCHANGED vars PROVE EntriesTakenUp'
  BY <1>31, EntriesKept DEF vars
<1>32. QED
  BY <1>1, <1>2, <1>3, <1>4, <1>5, <1>6, <1>7, <1>8, <1>9, <1>10, <1>11, <1>12, <1>13, <1>14, <1>15, <1>15a, <1>16, <1>17, <1>18, <1>19, <1>20, <1>21, <1>22, <1>23, <1>24, <1>25, <1>26, <1>27, <1>28, <1>29, <1>30, <1>31 DEF ScalingNext, MainStep, StopStep, ProcessJob, Recover

-----------------------------------------------------------------------------

\* A step that makes no run pending, and puts no execution to wait or to success.
LEMMA QuietStep ==
    ASSUME LastRunPends, runs' = runs,
           \A j \in Jobs : Pending(j)' => Pending(j),
           \A e \in Execs : row'[e] \in {"none", "waiting", "success"} => row'[e] = row[e]
    PROVE  LastRunPends'
BY JobParts DEF LastRunPends

\* The run that is taken up is the only one pending: while an execution has
\* not begun or waits there is none.
LEMMA TakeUpStep ==
    ASSUME ShapeOK, LastRunPends, NEW m \in Mains, NEW e \in Execs, TakeUp(m, e),
           row[e] \in {"none", "waiting"},
           NEW status \in {"new", "running"}, WriteRow(e, status)
    PROVE  LastRunPends'
<1> DEFINE n == runs[e] + 1
<1> SUFFICES ASSUME NEW k \in Jobs, Pending(k)'
             PROVE  k[2] = runs'[k[1]] /\ row'[k[1]] \notin {"none", "waiting", "success"}
  BY DEF LastRunPends
<1>0. k[1] \in Execs /\ k = <<k[1], k[2]>>
  BY JobParts
<1>1. CASE k = <<e, n>>
  BY <1>0, <1>1 DEF TakeUp, WriteRow, ShapeOK
<1>2. CASE k # <<e, n>>
  <2>1. Pending(k)
    BY <1>2 DEF Pending, TakeUp, ShapeOK, workerVars
  <2>2. k[2] = runs[k[1]] /\ row[k[1]] \notin {"none", "waiting", "success"}
    BY <2>1 DEF LastRunPends
  <2>3. QED
    BY <1>0, <2>2 DEF TakeUp, WriteRow, ShapeOK
<1>3. QED
  BY <1>1, <1>2

\* The run whose result is saved was the only pending one of its execution.
LEMMA SaveResultStep ==
    ASSUME ShapeOK, JobsMatchRuns, LastRunPends, NEW j \in Jobs, SaveResult(j)
    PROVE  LastRunPends'
<1> SUFFICES ASSUME NEW k \in Jobs, Pending(k)'
             PROVE  k[2] = runs'[k[1]] /\ row'[k[1]] \notin {"none", "waiting", "success"}
  BY DEF LastRunPends
<1>0. /\ k[1] \in Execs /\ k = <<k[1], k[2]>> /\ j[1] \in Execs /\ j = <<j[1], j[2]>>
  BY JobParts
<1>1. /\ runs' = runs /\ run' = run /\ queue' = queue /\ worker[j] = "saving"
      /\ worker' = [worker EXCEPT ![j] = "saved"]
  BY DEF SaveResult, WorkerStep, mainVars
<1>2. k # j
  <2>1. queue[j] \notin {"none", "waiting"} /\ run[j] # "created"
    BY <1>1 DEF JobsMatchRuns, JobMatchesRun
  <2>2. QED
    BY <1>1, <2>1 DEF Pending, ShapeOK
<1>3. Pending(k) /\ Pending(j)
  BY <1>1, <1>2 DEF Pending, ShapeOK
<1>4. /\ k[2] = runs[k[1]] /\ row[k[1]] \notin {"none", "waiting", "success"} /\ j[2] = runs[j[1]]
  BY <1>3 DEF LastRunPends
<1>5. k[1] # j[1]
  BY <1>0, <1>2, <1>4
<1>6. row'[k[1]] = row[k[1]]
  BY <1>0, <1>5 DEF SaveResult, WriteRow, ShapeOK
<1>7. QED
  BY <1>1, <1>4, <1>6

\* Every step keeps the last run the only pending one.
LEMMA LastRunStep ==
    ASSUME ShapeOK, JobsMatchRuns, LastRunPends, [ScalingNext]_vars
    PROVE  LastRunPends'
<1> USE DEF ShapeOK, Pending, WriteRow, mainVars, workerVars
<1>1. ASSUME NEW e \in Execs, Create(e) PROVE LastRunPends'
  BY <1>1, ScalingAssumption, TakeUpStep DEF Create
<1>2. ASSUME NEW m \in Mains, NEW e \in Execs, Resume(m, e) PROVE LastRunPends'
  BY <1>2, TakeUpStep DEF Resume
<1>3. ASSUME NEW m \in Mains, NEW e \in Execs, StopRequested(m, e) PROVE LastRunPends'
  BY <1>3, QuietStep DEF StopRequested
<1>4. ASSUME NEW j \in Jobs, AddJob(j) PROVE LastRunPends'
  BY <1>4, QuietStep DEF AddJob
<1>5. ASSUME NEW j \in Jobs, Attach(j) PROVE LastRunPends'
  BY <1>5, QuietStep DEF Attach
<1>6. ASSUME NEW j \in Jobs, JobCompleted(j) PROVE LastRunPends'
  BY <1>6, QuietStep DEF JobCompleted
<1>7. ASSUME NEW j \in Jobs, JobFailed(j) PROVE LastRunPends'
  BY <1>7, QuietStep DEF JobFailed, ProcessError
<1>8. ASSUME NEW j \in Jobs, SaveError(j) PROVE LastRunPends'
  BY <1>8, QuietStep DEF SaveError
<1>9. ASSUME NEW j \in Jobs, AddJobFails(j) PROVE LastRunPends'
  BY <1>9, QuietStep DEF AddJobFails, ProcessError
<1>10. ASSUME NEW j \in Jobs, CheckActive(j) PROVE LastRunPends'
  BY <1>10, QuietStep DEF CheckActive
<1>11. ASSUME NEW j \in Jobs, StopJob(j) PROVE LastRunPends'
  BY <1>11, QuietStep DEF StopJob
<1>12. ASSUME NEW j \in Jobs, PickUp(j) PROVE LastRunPends'
  BY <1>12, QuietStep DEF PickUp, WorkerStep
<1>13. ASSUME NEW j \in Jobs, ReadRow(j) PROVE LastRunPends'
  BY <1>13, QuietStep DEF ReadRow, WorkerStep, EndJob
<1>14. ASSUME NEW j \in Jobs, SetRunning(j) PROVE LastRunPends'
  BY <1>14, QuietStep DEF SetRunning, WorkerStep
<1>15. ASSUME NEW j \in Jobs, StartRun(j) PROVE LastRunPends'
  BY <1>15, QuietStep DEF StartRun, WorkerStep
<1>15a. ASSUME NEW j \in Jobs, EndRun(j) PROVE LastRunPends'
  BY <1>15a, QuietStep DEF EndRun, WorkerStep
<1>16. ASSUME NEW j \in Jobs, SaveResult(j) PROVE LastRunPends'
  BY <1>16, SaveResultStep
<1>17. ASSUME NEW j \in Jobs, FinishJob(j) PROVE LastRunPends'
  BY <1>17, QuietStep DEF FinishJob, WorkerStep, EndJob
<1>18. ASSUME NEW j \in Jobs, StartFails(j) PROVE LastRunPends'
  BY <1>18, QuietStep DEF StartFails, WorkerStep, EndJob
<1>19. ASSUME NEW j \in Jobs, SaveProgress(j) PROVE LastRunPends'
  BY <1>19, QuietStep DEF SaveProgress
<1>20. ASSUME NEW j \in Jobs, TimeOut(j) PROVE LastRunPends'
  BY <1>20, QuietStep DEF TimeOut, WorkerStep
<1>21. ASSUME NEW j \in Jobs, AbortJob(j) PROVE LastRunPends'
  BY <1>21, QuietStep DEF AbortJob
<1>22. ASSUME NEW j \in Jobs, SaveCanceled(j) PROVE LastRunPends'
  BY <1>22, QuietStep DEF SaveCanceled
<1>23. ASSUME NEW j \in Jobs, Stalled(j) PROVE LastRunPends'
  BY <1>23, QuietStep DEF Stalled, Live
<1>24. ASSUME NEW j \in Jobs, WorkerCrash(j) PROVE LastRunPends'
  BY <1>24, QuietStep DEF WorkerCrash, Live
<1>25. ASSUME StopExecution PROVE LastRunPends'
  BY <1>25, QuietStep DEF StopExecution
<1>26. ASSUME StopDuringRun PROVE LastRunPends'
  BY <1>26, QuietStep DEF StopDuringRun
<1>27. ASSUME ReadStoredIds PROVE LastRunPends'
  BY <1>27, QuietStep DEF ReadStoredIds
<1>28. ASSUME FindDangling PROVE LastRunPends'
  BY <1>28, QuietStep DEF FindDangling
<1>29. ASSUME MarkAsCrashed PROVE LastRunPends'
  BY <1>29, QuietStep DEF MarkAsCrashed
<1>30. ASSUME NEW m \in Mains, MainCrash(m) PROVE LastRunPends'
  BY <1>30, QuietStep DEF MainCrash
<1>31. ASSUME UNCHANGED vars PROVE LastRunPends'
  BY <1>31, QuietStep DEF vars
<1>32. QED
  BY <1>1, <1>2, <1>3, <1>4, <1>5, <1>6, <1>7, <1>8, <1>9, <1>10, <1>11, <1>12, <1>13, <1>14, <1>15, <1>15a, <1>16, <1>17, <1>18, <1>19, <1>20, <1>21, <1>22, <1>23, <1>24, <1>25, <1>26, <1>27, <1>28, <1>29, <1>30, <1>31 DEF ScalingNext, MainStep, StopStep, ProcessJob, Recover

-----------------------------------------------------------------------------

\* At the start no run is taken up.
LEMMA SQInit == ScalingInit => SQInv
<1> SUFFICES ASSUME ScalingInit PROVE SQInv
  OBVIOUS
<1>1. ShapeOK
  BY ScalingAssumption
     DEF ScalingInit, ShapeOK, NoEntry, RowStates, RunStates, StopStates, JobStates, WorkerStates
<1>2. JobsMatchRuns /\ LastRunPends
  <2>1. SUFFICES ASSUME NEW j \in Jobs PROVE JobMatchesRun(j) /\ ~Pending(j)
    BY DEF JobsMatchRuns, LastRunPends
  <2>2. j[1] \in Execs /\ j[2] \in 1..MaxRuns
    BY JobParts
  <2>3. QED
    BY <2>2, ScalingAssumption DEF ScalingInit, JobMatchesRun, Pending
<1>3. EntriesTakenUp
  BY DEF ScalingInit, EntriesTakenUp, NoEntry
<1>4. QED
  BY <1>1, <1>2, <1>3 DEF SQInv, ScalingTypeOK

(***************************************************************************)
(* The inductive invariant: the states of main, queue and worker fit       *)
(* together, and only the last run of an execution that has begun, does    *)
(* not wait and has not succeeded may still get an engine.                 *)
(***************************************************************************)
THEOREM SQInvariant == ScalingSpec => []SQInv
<1>1. SQInv /\ [ScalingNext]_vars => SQInv'
  BY ShapeStep, MatchStep, EntriesStep, LastRunStep DEF SQInv, ScalingTypeOK
<1>2. QED
  BY SQInit, <1>1, PTL DEF ScalingSpec

(***************************************************************************)
(* Main, queue and workers agree on every run, whatever crashes and        *)
(* whichever stop requests, lost locks and refused jobs there are.         *)
(***************************************************************************)
THEOREM ScalingTypeCorrect == ScalingSpec => []ScalingTypeOK
<1>1. SQInv => ScalingTypeOK
  BY DEF SQInv
<1>2. QED
  BY <1>1, SQInvariant, PTL

(***************************************************************************)
(* No two workers ever run the same execution at the same time: the        *)
(* conditional update of a resume admits one run at a time, however many   *)
(* mains try (active-executions.ts:130).                                   *)
(***************************************************************************)
THEOREM OneEngineHolds == ScalingSpec => []OneEngine
<1>1. SQInv => OneEngine
  <2> SUFFICES ASSUME SQInv, NEW e \in Execs, NEW k \in 1..MaxRuns, NEW n \in 1..MaxRuns,
                      worker[<<e, k>>] \in {"starting", "running", "saving", "aborted"},
                      worker[<<e, n>>] \in {"starting", "running", "saving", "aborted"}
               PROVE  k = n
    BY DEF OneEngine
  <2>1. Pending(<<e, k>>) /\ Pending(<<e, n>>)
    BY DEF Pending
  <2>2. QED
    BY <2>1, JobParts DEF SQInv, LastRunPends
<1>2. QED
  BY <1>1, SQInvariant, PTL

(***************************************************************************)
(* setRunning and saveExecutionProgress look at no status, or not at all   *)
(* of them, and the recovery acts on ids it read earlier; yet a row that   *)
(* says success or waiting is put back in progress, or marked as crashed,  *)
(* by nothing but the resume that takes up the next run.                   *)
(***************************************************************************)
SettledStaysSettled ==
    [][\A e \in Execs :
         row[e] \in {"waiting", "success"} /\ row'[e] \in InProgress \cup {"crashed"}
             => row[e] = "waiting" /\ runs'[e] = runs[e] + 1]_vars

(***************************************************************************)
(* A row that waits or has succeeded stays so until a resume: the jobs     *)
(* that may still write to it look at no such status, but there are none   *)
(* (execution.repository.ts:376, job-processor.ts:120).                    *)
(***************************************************************************)
THEOREM SettledRowsStay == ScalingSpec => SettledStaysSettled
<1> DEFINE Kept(e) ==
             row[e] \in {"waiting", "success"} /\ row'[e] \in InProgress \cup {"crashed"}
                 => row[e] = "waiting" /\ runs'[e] = runs[e] + 1
<1>1. SQInv /\ [ScalingNext]_vars => [\A e \in Execs : Kept(e)]_vars
  <2> SUFFICES ASSUME SQInv, ScalingNext, NEW e \in Execs, row[e] \in {"waiting", "success"}
               PROVE  Kept(e)
    BY DEF vars
  <2>1. row \in [Execs -> RowStates] /\ runs \in [Execs -> 0..MaxRuns]
    BY DEF SQInv, ScalingTypeOK, ShapeOK
  <2>2. CASE MarkAsCrashed
    BY <2>1, <2>2 DEF MarkAsCrashed, InProgress
  <2>3. ASSUME NEW a, NEW status \in {"waiting", "success", "error", "canceled"},
               WriteRow(a, status)
        PROVE  Kept(e)
    BY <2>1, <2>3 DEF WriteRow, InProgress
  <2>4. CASE row' = row
    BY <2>4 DEF InProgress
  <2>5. ASSUME NEW j \in Jobs, Pending(j), NEW status, WriteRow(j[1], status)
        PROVE  Kept(e)
    <3>1. j[1] # e
      BY <2>5 DEF SQInv, LastRunPends
    <3>2. QED
      BY <2>1, <2>5, <3>1 DEF WriteRow, InProgress
  <2>6. ASSUME NEW a \in Execs, Create(a)
        PROVE  Kept(e)
    BY <2>1, <2>6 DEF Create, WriteRow, InProgress
  <2>7. ASSUME NEW m \in Mains, NEW a \in Execs, Resume(m, a)
        PROVE  Kept(e)
    BY <2>1, <2>7 DEF Resume, TakeUp, WriteRow, InProgress
  <2>8. ASSUME NEW m \in Mains, NEW a \in Execs, StopRequested(m, a) \/ MainCrash(m)
        PROVE  Kept(e)
    BY <2>4, <2>8 DEF StopRequested, MainCrash
  <2>9. ASSUME NEW j \in Jobs, MainStep(j) \/ AddJobFails(j) \/ StopStep(j)
        PROVE  Kept(e)
    BY <2>3, <2>4, <2>9
       DEF MainStep, AddJob, Attach, JobCompleted, JobFailed, SaveError, AddJobFails, StopStep,
           CheckActive, StopJob
  <2>10. ASSUME NEW j \in Jobs, SetRunning(j) \/ SaveProgress(j)
         PROVE  Kept(e)
    <3>1. Pending(j) /\ WriteRow(j[1], "running")
      BY <2>10 DEF SetRunning, SaveProgress, WorkerStep, Pending
    <3>2. QED
      BY <2>5, <3>1
  <2>11. ASSUME NEW j \in Jobs, ProcessJob(j)
         PROVE  Kept(e)
    BY <2>3, <2>4, <2>10, <2>11
       DEF ProcessJob, PickUp, ReadRow, StartRun, EndRun, SaveResult, FinishJob
  <2>12. ASSUME NEW j \in Jobs,
                \/ StartFails(j) \/ TimeOut(j)
                \/ AbortJob(j) \/ SaveCanceled(j) \/ Stalled(j) \/ WorkerCrash(j)
         PROVE  Kept(e)
    BY <2>3, <2>4, <2>12
       DEF StartFails, TimeOut, AbortJob, SaveCanceled, Stalled, WorkerCrash
  <2>13. CASE StopExecution \/ StopDuringRun \/ ReadStoredIds \/ FindDangling
    BY <2>3, <2>4, <2>13 DEF StopExecution, StopDuringRun, ReadStoredIds, FindDangling
  <2> HIDE DEF Kept
  <2>14. QED
    BY <2>2, <2>6, <2>7, <2>8, <2>9, <2>10, <2>11, <2>12, <2>13 DEF ScalingNext, Recover
<1>2. QED
  BY <1>1, SQInvariant, PTL DEF ScalingSpec, SettledStaysSettled

=============================================================================
