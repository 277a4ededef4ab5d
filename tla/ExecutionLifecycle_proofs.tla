---------------------- MODULE ExecutionLifecycle_proofs ----------------------
(***************************************************************************)
(* The life of executions proved for every set of runs, executions, limits *)
(* and modes: at most one run is in charge of an execution, the row tells  *)
(* the truth about it, and no entry of activeExecutions is left without a  *)
(* run that will settle it.                                                *)
(*                                                                         *)
(* The invariant LInv has five parts.  The limiter keeps the invariant of  *)
(* ConcurrencyControl_proofs, whatever the lifecycle calls it for.  Types. *)
(* SlotInv and EntryInv say where a run stands when it has a slot, or owns *)
(* an entry.  ChargeInv is about the row: from the moment a run has taken  *)
(* charge until its outcome is saved the row says running or canceled, so  *)
(* the conditional update of another run finds nothing to resume.          *)
(***************************************************************************)
EXTENDS ExecutionLifecycle, ConcurrencyControl_proofs

-----------------------------------------------------------------------------
(* The invariant *)

\* The steps of a run from taking charge of the row to saving an outcome.
Charged == {"register", "precheck", "main", "start", "engine", "saving", "latesave"}

InHand(r) == pc[r] \in Charged

SlotInv ==
    \A r \in Callers :
        /\ reservation[r] = "queued" => pc[r] = "reserving"
        /\ pc[r] \in {"idle", "reserve", "dead"} => reservation[r] = "idle"
        /\ pc[r] = "register" => reservation[r] = "acquired"

\* The steps a run goes through once its entry is registered.
Registered == {"precheck", "main", "start", "engine", "saving", "saved"}

OwnerInv(e) ==
    owner[e] # NoRun =>
        /\ ExecOf[owner[e]] = e
        /\ pc[owner[e]] \in Registered \cup {"latesave", "done"}
        /\ entryStatus[e] = "running" =>
              reservation[owner[e]] = "acquired" /\ pc[owner[e]] \in Registered

DetachedInv(r) ==
    engine[r] = "detached" =>
        owner[ExecOf[r]] # r /\ pc[r] \in {"engine", "saving", "saved", "done"}

EntryInv ==
    /\ \A e \in Execs : OwnerInv(e)
    /\ \A r \in Callers : DetachedInv(r)

\* The row of an execution that nobody has created yet.
UncreatedInv ==
    /\ \A e \in Execs : db[e] = "none" => e \notin timers \cup boot /\ stopping[e] = "idle"
    /\ \A r \in Callers : db[ExecOf[r]] = "none" => pc[r] = "idle"
    /\ \A r \in FirstRuns : pc[r] = "idle" => db[ExecOf[r]] = "none"
    /\ \A r \in cancelSaves : pc[r] # "idle"

\* Until the first run has taken charge there is no other.
FirstAlone ==
    \A r \in FirstRuns : pc[r] \in {"reserve", "reserving"} =>
        /\ db[ExecOf[r]] \in {"new", "canceled"}
        /\ ExecOf[r] \notin timers \cup boot
        /\ \A s \in Callers : ExecOf[s] = ExecOf[r] /\ s # r => pc[s] = "idle"

OneInHand ==
    \A r, s \in Callers : InHand(r) /\ InHand(s) /\ ExecOf[r] = ExecOf[s] => r = s

ChargeInv ==
    /\ \A r \in Callers : InHand(r) => db[ExecOf[r]] \in {"running", "canceled"}
    /\ \A r \in Callers : pc[r] = "saving" => outcome[r] # "none"
    /\ OneInHand
    /\ UncreatedInv
    /\ FirstAlone

LInv == IInv /\ LifecycleTypeOK /\ SlotInv /\ EntryInv /\ ChargeInv

-----------------------------------------------------------------------------
(* What the limiter does to the callers *)

\* A caller that an operation of the limiter is not about may at most leave
\* the queue.
Bystander(d) ==
    \/ reservation'[d] = reservation[d]
    \/ reservation[d] = "queued" /\ reservation'[d] \in {"acquired", "abandoned"}

\* resolveNext changes nobody but a caller that waits.
LEMMA ResolveNextEffect ==
    ASSUME TypeOK, NEW q \in QueueTypes, NEW items \in Seq(Callers),
           NEW res \in [Callers -> ReservationStates], ResolveNext(q, items, res),
           \A i \in 1..Len(items) : res[items[i]] = "queued"
    PROVE  \A d \in Callers : reservation'[d] = res[d]
                              \/ (res[d] = "queued" /\ reservation'[d] = "acquired")
<1>1. CASE items = <<>>
  BY <1>1 DEF ResolveNext
<1>2. CASE items # <<>>
  <2>1. /\ items[1] \in Callers /\ Len(items) > 0
        /\ reservation' = [res EXCEPT ![items[1]] = "acquired"]
    BY <1>2, ResolveNextStep
  <2>2. 1 \in 1..Len(items)
    BY <2>1, LenProperties
  <2>3. QED
    BY <2>1, <2>2
<1>3. QED
  BY <1>1, <1>2

\* throttle: the caller is admitted or parked.
LEMMA ThrottleEffect ==
    ASSUME IInv, NEW c \in Callers, Throttle(c)
    PROVE  /\ IInv'
           /\ reservation[c] = "idle" /\ reservation'[c] \in {"queued", "acquired"}
           /\ \A d \in Callers : d # c => reservation'[d] = reservation[d]
<1>1. IInv'
  BY NextIInv DEF CCNext
<1>2. reservation \in [Callers -> ReservationStates]
  BY DEF IInv, TypeOK
<1>3. QED
  BY <1>1, <1>2 DEF Throttle, Enqueue

\* release: the slot goes to the oldest caller that waits.
LEMMA ReleaseEffect ==
    ASSUME IInv, NEW c \in Callers, Release(c)
    PROVE  /\ IInv' /\ disabled' = disabled
           /\ reservation[c] = "acquired" /\ reservation'[c] = "idle"
           /\ \A d \in Callers : d # c => Bystander(d)
<1> DEFINE m == ModeOf[c]
           q == QueueTypeOf(m)
           res == [reservation EXCEPT ![c] = "idle"]
<1>1. IInv' /\ disabled' = disabled /\ reservation[c] = "acquired"
  BY NextIInv DEF CCNext, Release
<1>2. reservation \in [Callers -> ReservationStates] /\ TypeOK
  BY DEF IInv, TypeOK
<1>3. CASE ~Governed(m)
  BY <1>1, <1>2, <1>3 DEF Release, Bystander
<1>4. CASE Governed(m)
  <2>1. m \in Modes /\ m \notin UnlimitedModes /\ q \in QueueTypes
    BY <1>4, ConstantsAssumption, QueueTypeType DEF Governed, Limited
  <2>2. queue[q] \in Seq(Callers) /\ res \in [Callers -> ReservationStates]
    BY <1>2, <2>1 DEF TypeOK, ReservationStates
  <2>3. ResolveNext(q, queue[q], res)
    BY <1>4 DEF Release, Dequeue
  <2>4. ASSUME NEW i \in 1..Len(queue[q])
        PROVE  queue[q][i] \in Callers /\ reservation[queue[q][i]] = "queued"
    BY <2>1, ParkedFacts
  <2>5. \A i \in 1..Len(queue[q]) : res[queue[q][i]] = "queued"
    BY <1>1, <1>2, <2>4
  <2>6. \A d \in Callers : reservation'[d] = res[d]
                           \/ (res[d] = "queued" /\ reservation'[d] = "acquired")
    <3> HIDE DEF res, q, m
    <3>1. QED
      BY <1>2, <2>1, <2>2, <2>3, <2>5, ResolveNextEffect
  <2>7. QED
    BY <1>1, <1>2, <2>6 DEF Bystander
<1>5. QED
  BY <1>3, <1>4

\* remove: a caller that waits is abandoned, another may be admitted.
LEMMA RemoveEffect ==
    ASSUME IInv, NEW e, NEW m \in Modes, RemoveQueued(e, m)
    PROVE  /\ IInv' /\ disabled' = disabled
           /\ \A d \in Callers : Bystander(d)
<1> DEFINE q == QueueTypeOf(m)
<1>1. reservation \in [Callers -> ReservationStates] /\ TypeOK
  BY DEF IInv, TypeOK
<1>2. EnsureEvalQueueResolved(m) /\ UNCHANGED disabled
  BY DEF RemoveQueued
<1>3. CASE UNCHANGED <<capacity, queue, reservation>>
  BY <1>2, <1>3, IdleStep DEF Bystander
<1>4. ASSUME Governed(m), NEW i \in 1..Len(queue[q]), RemoveItem(q, i)
      PROVE  IInv' /\ \A d \in Callers : Bystander(d)
  <2> DEFINE c == queue[q][i]
             res == [reservation EXCEPT ![c] = "abandoned"]
             items == RemoveAt(queue[q], i)
  <2>1. m \notin UnlimitedModes /\ q \in QueueTypes
    BY <1>4, QueueTypeType DEF Governed, Limited
  <2>2. IInv'
    BY <1>2, <1>4, RemoveStep
  <2>3. queue[q] \in Seq(Callers) /\ Len(queue[q]) \in Nat
    BY <1>1, <2>1, LenProperties DEF TypeOK
  <2>4. ASSUME NEW j \in 1..Len(queue[q])
        PROVE  /\ queue[q][j] \in Callers /\ reservation[queue[q][j]] = "queued"
               /\ queue[q][j] = c => j = i
    BY <1>4, <2>1, ParkedFacts
  <2>5. res \in [Callers -> ReservationStates] /\ c \in Callers /\ reservation[c] = "queued"
    BY <1>1, <1>4, <2>4 DEF ReservationStates
  <2>6. /\ items \in Seq(Callers) /\ Len(items) = Len(queue[q]) - 1
        /\ \A j \in 1..(Len(queue[q]) - 1) :
              items[j] = IF j < i THEN queue[q][j] ELSE queue[q][j + 1]
    BY <1>4, <2>3, RemoveAtProperties
  <2>7. ASSUME NEW j \in 1..Len(items) PROVE res[items[j]] = "queued"
    <3> DEFINE k == IF j < i THEN j ELSE j + 1
    <3>1. k \in 1..Len(queue[q]) /\ k # i /\ items[j] = queue[q][k]
      BY <1>4, <2>3, <2>6, <2>7
    <3>2. queue[q][k] \in Callers /\ reservation[queue[q][k]] = "queued" /\ queue[q][k] # c
      BY <2>4, <3>1
    <3>3. QED
      BY <1>1, <3>1, <3>2
  <2>8. ResolveNext(q, items, res)
    BY <1>4 DEF RemoveItem
  <2>9. \A d \in Callers : reservation'[d] = res[d]
                           \/ (res[d] = "queued" /\ reservation'[d] = "acquired")
    <3> HIDE DEF res, items, q
    <3>1. QED
      BY <1>1, <2>1, <2>5, <2>6, <2>7, <2>8, ResolveNextEffect
  <2>10. QED
    BY <1>1, <2>2, <2>5, <2>9 DEF Bystander
<1>5. QED
  BY <1>2, <1>3, <1>4 DEF RemoveQueued

-----------------------------------------------------------------------------
(* What settling an entry does *)

SettleResult(e) ==
    \/ /\ owner[e] # NoRun => reservation[owner[e]] # "acquired"
       /\ reservation' = reservation /\ owner' = owner
    \/ /\ owner[e] \in Callers
       /\ reservation[owner[e]] = "acquired" /\ reservation'[owner[e]] = "idle"
       /\ \A d \in Callers : d # owner[e] => Bystander(d)
       /\ owner' = IF entryStatus[e] = "waiting" THEN owner ELSE [owner EXCEPT ![e] = NoRun]

\* The finally handler releases at most the slot of the run that owns the entry.
LEMMA SettleEffect ==
    ASSUME IInv, LifecycleTypeOK, NEW e \in Execs, owner[e] # NoRun, Settle(e)
    PROVE  IInv' /\ SettleResult(e)
<1>1. owner[e] \in Callers
  BY DEF LifecycleTypeOK
<1>2. CASE reservation[owner[e]] = "acquired"
  <2>1. Release(owner[e])
    BY <1>2 DEF Settle
  <2>2. /\ IInv' /\ reservation'[owner[e]] = "idle"
        /\ \A d \in Callers : d # owner[e] => Bystander(d)
    BY <1>1, <2>1, ReleaseEffect
  <2>3. QED
    BY <1>1, <1>2, <2>2 DEF Settle, SettleResult
<1>3. CASE reservation[owner[e]] # "acquired"
  <2>1. UNCHANGED <<ccVars, owner>>
    BY <1>3 DEF Settle
  <2>2. IInv'
    BY <2>1, NextIInv
  <2>3. QED
    BY <1>3, <2>1, <2>2 DEF SettleResult, ccVars
<1>4. QED
  BY <1>2, <1>3

\* finalizeExecution does nothing, or settles the entry.
LEMMA FinalizeEffect ==
    ASSUME IInv, LifecycleTypeOK, NEW e \in Execs, FinalizeExecution(e)
    PROVE  IInv' /\ SettleResult(e)
<1>1. CASE owner[e] = NoRun
  <2>1. UNCHANGED <<ccVars, owner>>
    BY <1>1 DEF FinalizeExecution
  <2>2. IInv'
    BY <2>1, NextIInv
  <2>3. QED
    BY <1>1, <2>1, <2>2 DEF SettleResult, ccVars
<1>2. CASE owner[e] # NoRun
  BY <1>2, SettleEffect DEF FinalizeExecution
<1>3. QED
  BY <1>1, <1>2

\* stopExecution drops a waiting entry, or settles a running one.
LEMMA StopEffect ==
    ASSUME IInv, LifecycleTypeOK, NEW e \in Execs, StopExecution(e)
    PROVE  /\ IInv'
           /\ \/ SettleResult(e)
              \/ /\ entryStatus[e] = "waiting" /\ reservation' = reservation
                 /\ owner' = [owner EXCEPT ![e] = NoRun]
           /\ cancelled' \in SUBSET Callers /\ cancelSaves' \in SUBSET cancelled'
<1>1. cancelled' \in SUBSET Callers /\ cancelSaves' \in SUBSET cancelled'
  BY DEF StopExecution, LifecycleTypeOK
<1>2. CASE owner[e] = NoRun
  <2>1. UNCHANGED <<ccVars, owner>>
    BY <1>2 DEF StopExecution
  <2>2. IInv'
    BY <2>1, NextIInv
  <2>3. QED
    BY <1>1, <1>2, <2>1, <2>2 DEF SettleResult, ccVars
<1>3. CASE owner[e] # NoRun /\ entryStatus[e] = "waiting"
  <2>1. UNCHANGED ccVars /\ owner' = [owner EXCEPT ![e] = NoRun]
    BY <1>3 DEF StopExecution
  <2>2. IInv'
    BY <2>1, NextIInv
  <2>3. QED
    BY <1>1, <1>3, <2>1, <2>2 DEF ccVars
<1>4. CASE owner[e] # NoRun /\ entryStatus[e] = "running"
  <2>1. Settle(e)
    BY <1>4 DEF StopExecution
  <2>2. QED
    BY <1>1, <1>4, <2>1, SettleEffect
<1>5. QED
  BY <1>2, <1>3, <1>4 DEF LifecycleTypeOK

\* The limiter of the next process starts afresh.
LEMMA ResetEffect == CCReset => IInv'
<1>1. CCReset => CCInit'
  BY DEF CCReset, CCInit
<1>2. QED
  BY <1>1, InitIInv, PTL

-----------------------------------------------------------------------------
(* The limiter under the lifecycle *)

\* stop() finds a queued execution in the queue, under its own mode.
LEMMA QueuedMode ==
    ASSUME IInv, NEW e \in Execs, Has(e)
    PROVE  /\ ModeOfExec(e) \in Modes
           /\ \E c \in Callers : /\ reservation[c] = "queued" /\ ExecOf[c] = e
                                 /\ ModeOfExec(e) = ModeOf[c]
<1>1. PICK q \in queues : \E i \in 1..Len(queue[q]) : ExecOf[queue[q][i]] = e
  BY DEF Has
<1>2. PICK i \in 1..Len(queue[q]) : ExecOf[queue[q][i]] = e
  BY <1>1
<1>3. q \in QueueTypes
  BY DEF IInv, TypeOK
<1>4. queue[q][i] \in Callers /\ reservation[queue[q][i]] = "queued"
  BY <1>3, ParkedFacts
<1>5. PICK s \in Callers : s = (CHOOSE r \in Callers : ExecOf[r] = e) /\ ExecOf[s] = e
  BY <1>2, <1>4
<1>6. ModeOfExec(e) = ModeOf[s] /\ ModeOf[s] \in Modes
  BY <1>5, ConstantsAssumption DEF ModeOfExec
<1>7. ModeOf[queue[q][i]] = ModeOf[s]
  BY <1>2, <1>4, <1>5, LifecycleAssumption
<1>8. QED
  BY <1>2, <1>4, <1>6, <1>7

\* Settling an entry calls release, or does not touch the limiter.
LEMMA SettleCalls ==
    ASSUME LInv, NEW e \in Execs, owner[e] # NoRun, Settle(e)
    PROVE  [CCNext \/ CCReset]_ccVars
BY DEF LInv, LifecycleTypeOK, Settle, CCNext

\* The lifecycle uses the limiter as ConcurrencyControl specifies it: every step
\* is one of its operations, none of them, or the start of a new process.
LEMMA LimiterCalls ==
    ASSUME LInv, [LifecycleNext]_vars
    PROVE  [CCNext \/ CCReset]_ccVars
<1>0. ExecOf \in [Callers -> Execs]
  BY ConstantsAssumption
<1>1. ASSUME NEW r \in Callers, Create(r) PROVE [CCNext \/ CCReset]_ccVars
  BY <1>1 DEF Create
<1>2. ASSUME NEW r \in Callers, ResumeByWebhook(r) PROVE [CCNext \/ CCReset]_ccVars
  BY <1>2 DEF ResumeByWebhook
<1>3. ASSUME NEW r \in Callers, ResumeByTimer(r) PROVE [CCNext \/ CCReset]_ccVars
  BY <1>3 DEF ResumeByTimer
<1>4. ASSUME NEW r \in Callers, RunEnqueued(r) PROVE [CCNext \/ CCReset]_ccVars
  BY <1>4 DEF RunEnqueued
<1>5. ASSUME NEW r \in Callers, Reserve(r) PROVE [CCNext \/ CCReset]_ccVars
  BY <1>5 DEF Reserve, CCNext
<1>6. ASSUME NEW r \in Callers, AddNew(r) PROVE [CCNext \/ CCReset]_ccVars
  BY <1>6 DEF AddNew
<1>7. ASSUME NEW r \in Callers, AddExisting(r) PROVE [CCNext \/ CCReset]_ccVars
  BY <1>7 DEF AddExisting, CCNext
<1>8. ASSUME NEW r \in Callers, Register(r) PROVE [CCNext \/ CCReset]_ccVars
  BY <1>8 DEF Register
<1>9. ASSUME NEW r \in Callers, PreflightFails(r) PROVE [CCNext \/ CCReset]_ccVars
  BY <1>9 DEF PreflightFails
<1>10. ASSUME NEW r \in Callers, PreflightPasses(r) PROVE [CCNext \/ CCReset]_ccVars
  BY <1>10 DEF PreflightPasses
<1>11. ASSUME NEW r \in Callers, SetRunning(r) PROVE [CCNext \/ CCReset]_ccVars
  BY <1>11 DEF SetRunning
<1>12. ASSUME NEW r \in Callers, StartEngine(r) PROVE [CCNext \/ CCReset]_ccVars
  BY <1>12 DEF StartEngine
<1>13. ASSUME NEW r \in Callers, StartFails(r) PROVE [CCNext \/ CCReset]_ccVars
  BY <1>13, <1>0, SettleCalls DEF StartFails, FinalizeExecution
<1>14. ASSUME NEW r \in Callers, LateSave(r) PROVE [CCNext \/ CCReset]_ccVars
  BY <1>14 DEF LateSave
<1>15. ASSUME NEW r \in Callers, EngineEnds(r) PROVE [CCNext \/ CCReset]_ccVars
  BY <1>15 DEF EngineEnds
<1>16. ASSUME NEW r \in Callers, EngineWaits(r) PROVE [CCNext \/ CCReset]_ccVars
  BY <1>16 DEF EngineWaits
<1>17. ASSUME NEW r \in Callers, SaveHook(r) PROVE [CCNext \/ CCReset]_ccVars
  BY <1>17 DEF SaveHook
<1>18. ASSUME NEW r \in Callers, Finalize(r) PROVE [CCNext \/ CCReset]_ccVars
  BY <1>18, <1>0, SettleCalls DEF Finalize, FinalizeExecution
<1>19. ASSUME NEW r \in Callers, CancelSave(r) PROVE [CCNext \/ CCReset]_ccVars
  BY <1>19 DEF CancelSave
<1>20. ASSUME NEW r \in Callers, Timeout(r) PROVE [CCNext \/ CCReset]_ccVars
  BY <1>20, <1>0, SettleCalls DEF Timeout, StopExecution
<1>21. ASSUME NEW e \in Execs, StopRead(e) PROVE [CCNext \/ CCReset]_ccVars
  BY <1>21 DEF StopRead
<1>22. ASSUME NEW e \in Execs, StopApply(e) PROVE [CCNext \/ CCReset]_ccVars
  <2>1. CASE Has(e) /\ RemoveQueued(e, ModeOfExec(e))
    <3>1. PICK c \in Callers : /\ reservation[c] = "queued" /\ ExecOf[c] = e
                              /\ ModeOfExec(e) = ModeOf[c]
      BY <2>1, QueuedMode DEF LInv
    <3>2. QED
      BY <2>1, <3>1 DEF StopQueued, CCNext
  <2>2. CASE StopExecution(e)
    BY <2>2, <1>0, SettleCalls DEF StopExecution
  <2>3. QED
    BY <1>22, <2>1, <2>2 DEF StopApply
<1>23. ASSUME NEW e \in Execs, StopWrite(e) PROVE [CCNext \/ CCReset]_ccVars
  BY <1>23 DEF StopWrite
<1>24. ASSUME NEW e \in Execs, TrackWaiting(e) PROVE [CCNext \/ CCReset]_ccVars
  BY <1>24 DEF TrackWaiting
<1>25. ASSUME BeginShutdown PROVE [CCNext \/ CCReset]_ccVars
  BY <1>25 DEF BeginShutdown, CCNext
<1>26. ASSUME Restart PROVE [CCNext \/ CCReset]_ccVars
  BY <1>26 DEF Restart
<1>27. ASSUME UNCHANGED vars PROVE [CCNext \/ CCReset]_ccVars
  BY <1>27 DEF vars
<1>28. QED
  BY <1>1, <1>2, <1>3, <1>4, <1>5, <1>6, <1>7, <1>8, <1>9,
     <1>10, <1>11, <1>12, <1>13, <1>14, <1>15, <1>16, <1>17, <1>18,
     <1>19, <1>20, <1>21, <1>22, <1>23, <1>24, <1>25, <1>26, <1>27
     DEF LifecycleNext, Begins, Advances, Stops

\* Whatever the lifecycle does, the limiter keeps its invariant.
LEMMA LimiterStep ==
    ASSUME LInv, [LifecycleNext]_vars
    PROVE  IInv'
BY LimiterCalls, ResetEffect, NextIInv DEF LInv

\* Every step keeps the types.
LEMMA TypesStep ==
    ASSUME LInv, [LifecycleNext]_vars
    PROVE  LifecycleTypeOK'
<1> USE DEF LifecycleTypeOK, Goto, WriteStatus, SaveStatus, runVars,
            entryVars, procVars, Statuses, Steps
<1>0. TypeOK' /\ LifecycleTypeOK /\ ExecOf \in [Callers -> Execs]
  BY LimiterStep, ConstantsAssumption DEF LInv, IInv
<1>1. ASSUME NEW r \in Callers, Create(r) PROVE LifecycleTypeOK'
  BY <1>0, <1>1 DEF Create
<1>2. ASSUME NEW r \in Callers, ResumeByWebhook(r) PROVE LifecycleTypeOK'
  BY <1>0, <1>2 DEF ResumeByWebhook
<1>3. ASSUME NEW r \in Callers, ResumeByTimer(r) PROVE LifecycleTypeOK'
  BY <1>0, <1>3 DEF ResumeByTimer
<1>4. ASSUME NEW r \in Callers, RunEnqueued(r) PROVE LifecycleTypeOK'
  BY <1>0, <1>4 DEF RunEnqueued
<1>5. ASSUME NEW r \in Callers, Reserve(r) PROVE LifecycleTypeOK'
  BY <1>0, <1>5 DEF Reserve
<1>6. ASSUME NEW r \in Callers, AddNew(r) PROVE LifecycleTypeOK'
  BY <1>0, <1>6 DEF AddNew
<1>7. ASSUME NEW r \in Callers, AddExisting(r) PROVE LifecycleTypeOK'
  BY <1>0, <1>7 DEF AddExisting
<1>8. ASSUME NEW r \in Callers, Register(r) PROVE LifecycleTypeOK'
  BY <1>0, <1>8 DEF Register
<1>9. ASSUME NEW r \in Callers, PreflightFails(r) PROVE LifecycleTypeOK'
  BY <1>0, <1>9 DEF PreflightFails
<1>10. ASSUME NEW r \in Callers, PreflightPasses(r) PROVE LifecycleTypeOK'
  BY <1>0, <1>10 DEF PreflightPasses
<1>11. ASSUME NEW r \in Callers, SetRunning(r) PROVE LifecycleTypeOK'
  BY <1>0, <1>11 DEF SetRunning
<1>12. ASSUME NEW r \in Callers, StartEngine(r) PROVE LifecycleTypeOK'
  BY <1>0, <1>12 DEF StartEngine
<1>13. ASSUME NEW r \in Callers, StartFails(r) PROVE LifecycleTypeOK'
  <2>1. owner' \in [Execs -> Callers \cup {NoRun}]
    BY <1>0, <1>0, <1>13, FinalizeEffect, ConstantsAssumption
       DEF StartFails, LInv, SettleResult
  <2>2. QED
    BY <1>0, <1>0, <1>13, <2>1 DEF StartFails
<1>14. ASSUME NEW r \in Callers, LateSave(r) PROVE LifecycleTypeOK'
  BY <1>0, <1>14 DEF LateSave
<1>15. ASSUME NEW r \in Callers, EngineEnds(r) PROVE LifecycleTypeOK'
  BY <1>0, <1>15 DEF EngineEnds
<1>16. ASSUME NEW r \in Callers, EngineWaits(r) PROVE LifecycleTypeOK'
  BY <1>0, <1>16 DEF EngineWaits
<1>17. ASSUME NEW r \in Callers, SaveHook(r) PROVE LifecycleTypeOK'
  BY <1>0, <1>17 DEF SaveHook
<1>18. ASSUME NEW r \in Callers, Finalize(r) PROVE LifecycleTypeOK'
  <2>1. owner' \in [Execs -> Callers \cup {NoRun}]
    BY <1>0, <1>0, <1>18, FinalizeEffect, ConstantsAssumption
       DEF Finalize, LInv, SettleResult
  <2>2. QED
    BY <1>0, <1>0, <1>18, <2>1 DEF Finalize
<1>19. ASSUME NEW r \in Callers, CancelSave(r) PROVE LifecycleTypeOK'
  BY <1>0, <1>19 DEF CancelSave
<1>20. ASSUME NEW r \in Callers, Timeout(r) PROVE LifecycleTypeOK'
  <2>1. /\ owner' \in [Execs -> Callers \cup {NoRun}]
        /\ cancelled' \in SUBSET Callers /\ cancelSaves' \in SUBSET cancelled'
    BY <1>0, <1>0, <1>20, StopEffect, ConstantsAssumption
       DEF Timeout, LInv, SettleResult
  <2>2. QED
    BY <1>0, <1>0, <1>20, <2>1 DEF Timeout
<1>21. ASSUME NEW e \in Execs, StopRead(e) PROVE LifecycleTypeOK'
  BY <1>0, <1>21 DEF StopRead
<1>22. ASSUME NEW e \in Execs, StopApply(e) PROVE LifecycleTypeOK'
  <2>1. /\ owner' \in [Execs -> Callers \cup {NoRun}]
        /\ cancelled' \in SUBSET Callers /\ cancelSaves' \in SUBSET cancelled'
    BY <1>0, <1>0, <1>22, StopEffect DEF StopApply, LInv, SettleResult
  <2>2. QED
    BY <1>0, <1>0, <1>22, <2>1 DEF StopApply
<1>23. ASSUME NEW e \in Execs, StopWrite(e) PROVE LifecycleTypeOK'
  BY <1>0, <1>23 DEF StopWrite
<1>24. ASSUME NEW e \in Execs, TrackWaiting(e) PROVE LifecycleTypeOK'
  BY <1>0, <1>24 DEF TrackWaiting
<1>25. ASSUME BeginShutdown PROVE LifecycleTypeOK'
  BY <1>0, <1>25 DEF BeginShutdown
<1>26. ASSUME Restart PROVE LifecycleTypeOK'
  BY <1>0, <1>26 DEF Restart
<1>27. ASSUME UNCHANGED vars PROVE LifecycleTypeOK'
  BY <1>0, <1>27 DEF vars
<1>28. QED
  BY <1>0, <1>1, <1>2, <1>3, <1>4, <1>5, <1>6, <1>7, <1>8, <1>9,
     <1>10, <1>11, <1>12, <1>13, <1>14, <1>15, <1>16, <1>17, <1>18,
     <1>19, <1>20, <1>21, <1>22, <1>23, <1>24, <1>25, <1>26, <1>27
     DEF LifecycleNext, Begins, Advances, Stops

-----------------------------------------------------------------------------
(* Runs and their slots *)

\* The slot of a run that is past registering may be given back.
SlotGoes(d) == Bystander(d) \/ (reservation'[d] = "idle" /\ pc[d] # "register"
                                /\ reservation[d] = "acquired")

\* Settling an entry takes no slot from a run that has yet to register.
LEMMA SettleSlots ==
    ASSUME EntryInv, LifecycleTypeOK, NEW e \in Execs, SettleResult(e)
    PROVE  \A d \in Callers : SlotGoes(d)
<1>1. owner[e] # NoRun => pc[owner[e]] # "register"
  BY DEF EntryInv, OwnerInv, Registered
<1>2. owner[e] \in Callers => owner[e] # NoRun
  BY LifecycleAssumption
<1>3. QED
  BY <1>1, <1>2 DEF SettleResult, SlotGoes, Bystander

\* Every step keeps the tie between a run and its slot.
LEMMA SlotStep ==
    ASSUME LInv, [LifecycleNext]_vars
    PROVE  SlotInv'
<1> USE DEF Goto, WriteStatus, SaveStatus, runVars, entryVars, procVars
<1>0. /\ IInv /\ LifecycleTypeOK /\ SlotInv /\ EntryInv /\ ExecOf \in [Callers -> Execs]
      /\ pc \in [Callers -> Steps] /\ reservation \in [Callers -> ReservationStates]
  BY ConstantsAssumption DEF LInv, LifecycleTypeOK, IInv, TypeOK
<1>1. ASSUME NEW r \in Callers, Create(r) PROVE SlotInv'
  BY <1>0, <1>1 DEF Create, SlotInv, ccVars
<1>2. ASSUME NEW r \in Callers, ResumeByWebhook(r) PROVE SlotInv'
  BY <1>0, <1>2 DEF ResumeByWebhook, SlotInv, ccVars
<1>3. ASSUME NEW r \in Callers, ResumeByTimer(r) PROVE SlotInv'
  BY <1>0, <1>3 DEF ResumeByTimer, SlotInv, ccVars
<1>4. ASSUME NEW r \in Callers, RunEnqueued(r) PROVE SlotInv'
  BY <1>0, <1>4 DEF RunEnqueued, SlotInv, ccVars
<1>5. ASSUME NEW r \in Callers, Reserve(r) PROVE SlotInv'
  BY <1>0, <1>5, ThrottleEffect DEF Reserve, SlotInv
<1>6. ASSUME NEW r \in Callers, AddNew(r) PROVE SlotInv'
  BY <1>0, <1>6 DEF AddNew, SlotInv, ccVars
<1>7. ASSUME NEW r \in Callers, AddExisting(r) PROVE SlotInv'
  <2>1. CASE UNCHANGED ccVars
    BY <1>0, <1>7, <2>1 DEF AddExisting, SlotInv, ccVars
  <2>2. CASE ~UNCHANGED ccVars
    <3>1. pc' = [pc EXCEPT ![r] = "done"] /\ Release(r)
      BY <1>7, <2>2 DEF AddExisting
    <3>2. reservation'[r] = "idle" /\ \A d \in Callers : d # r => Bystander(d)
      BY <1>0, <3>1, ReleaseEffect
    <3>3. QED
      BY <1>0, <1>7, <3>1, <3>2 DEF SlotInv, Bystander
  <2>3. QED
    BY <2>1, <2>2
<1>8. ASSUME NEW r \in Callers, Register(r) PROVE SlotInv'
  BY <1>0, <1>8 DEF Register, SlotInv, ccVars
<1>9. ASSUME NEW r \in Callers, PreflightFails(r) PROVE SlotInv'
  BY <1>0, <1>9 DEF PreflightFails, SlotInv, ccVars
<1>10. ASSUME NEW r \in Callers, PreflightPasses(r) PROVE SlotInv'
  BY <1>0, <1>10 DEF PreflightPasses, SlotInv, ccVars
<1>11. ASSUME NEW r \in Callers, SetRunning(r) PROVE SlotInv'
  BY <1>0, <1>11 DEF SetRunning, SlotInv, ccVars
<1>12. ASSUME NEW r \in Callers, StartEngine(r) PROVE SlotInv'
  BY <1>0, <1>12 DEF StartEngine, SlotInv, ccVars
<1>13. ASSUME NEW r \in Callers, StartFails(r) PROVE SlotInv'
  <2>1. FinalizeExecution(ExecOf[r]) /\ ExecOf[r] \in Execs
    BY <1>0, <1>13 DEF StartFails
  <2>2. \A d \in Callers : SlotGoes(d)
    BY <1>0, <2>1, FinalizeEffect, SettleSlots
  <2>3. QED
    BY <1>0, <1>13, <2>2 DEF StartFails, SlotGoes, SlotInv, Bystander
<1>14. ASSUME NEW r \in Callers, LateSave(r) PROVE SlotInv'
  BY <1>0, <1>14 DEF LateSave, SlotInv, ccVars
<1>15. ASSUME NEW r \in Callers, EngineEnds(r) PROVE SlotInv'
  BY <1>0, <1>15 DEF EngineEnds, SlotInv, ccVars
<1>16. ASSUME NEW r \in Callers, EngineWaits(r) PROVE SlotInv'
  BY <1>0, <1>16 DEF EngineWaits, SlotInv, ccVars
<1>17. ASSUME NEW r \in Callers, SaveHook(r) PROVE SlotInv'
  BY <1>0, <1>17 DEF SaveHook, SlotInv, ccVars
<1>18. ASSUME NEW r \in Callers, Finalize(r) PROVE SlotInv'
  <2>1. UNCHANGED ccVars \/ FinalizeExecution(ExecOf[r])
    BY <1>0, <1>18 DEF Finalize
  <2>2. ExecOf[r] \in Execs /\ (UNCHANGED ccVars => UNCHANGED reservation)
    BY <1>0 DEF ccVars
  <2>3. \A d \in Callers : SlotGoes(d)
    BY <1>0, <2>1, <2>2, FinalizeEffect, SettleSlots DEF SlotGoes, Bystander
  <2>4. QED
    BY <1>0, <1>18, <2>3 DEF Finalize, SlotGoes, SlotInv, Bystander
<1>19. ASSUME NEW r \in Callers, CancelSave(r) PROVE SlotInv'
  BY <1>0, <1>19 DEF CancelSave, SlotInv, ccVars
<1>20. ASSUME NEW r \in Callers, Timeout(r) PROVE SlotInv'
  <2>1. StopExecution(ExecOf[r]) /\ ExecOf[r] \in Execs
    BY <1>0, <1>20 DEF Timeout
  <2>2. \A d \in Callers : SlotGoes(d)
    BY <1>0, <2>1, StopEffect, SettleSlots DEF SlotGoes, Bystander
  <2>3. QED
    BY <1>0, <1>20, <2>2 DEF Timeout, SlotGoes, SlotInv, Bystander
<1>21. ASSUME NEW e \in Execs, StopRead(e) PROVE SlotInv'
  BY <1>0, <1>21 DEF StopRead, SlotInv, ccVars
<1>22. ASSUME NEW e \in Execs, StopApply(e) PROVE SlotInv'
  <2>1. ASSUME Has(e), RemoveQueued(e, ModeOfExec(e)) PROVE \A d \in Callers : SlotGoes(d)
    BY <1>0, <2>1, QueuedMode, RemoveEffect DEF SlotGoes
  <2>2. ASSUME StopExecution(e) PROVE \A d \in Callers : SlotGoes(d)
    BY <1>0, <2>2, StopEffect, SettleSlots DEF SlotGoes, Bystander
  <2>3. \A d \in Callers : SlotGoes(d)
    BY <1>22, <2>1, <2>2 DEF StopApply
  <2>4. QED
    BY <1>0, <1>22, <2>3 DEF StopApply, SlotGoes, SlotInv, Bystander
<1>23. ASSUME NEW e \in Execs, StopWrite(e) PROVE SlotInv'
  BY <1>0, <1>23 DEF StopWrite, SlotInv, ccVars
<1>24. ASSUME NEW e \in Execs, TrackWaiting(e) PROVE SlotInv'
  BY <1>0, <1>24 DEF TrackWaiting, SlotInv, ccVars
<1>25. ASSUME BeginShutdown PROVE SlotInv'
  BY <1>0, <1>25 DEF BeginShutdown, Disable, SlotInv
<1>26. ASSUME Restart PROVE SlotInv'
  BY <1>0, <1>26 DEF Restart, CCReset, SlotInv
<1>27. ASSUME UNCHANGED vars PROVE SlotInv'
  BY <1>0, <1>27 DEF vars, ccVars, SlotInv
<1>28. QED
  BY <1>1, <1>2, <1>3, <1>4, <1>5, <1>6, <1>7, <1>8, <1>9,
     <1>10, <1>11, <1>12, <1>13, <1>14, <1>15, <1>16, <1>17, <1>18,
     <1>19, <1>20, <1>21, <1>22, <1>23, <1>24, <1>25, <1>26, <1>27
     DEF LifecycleNext, Begins, Advances, Stops

-----------------------------------------------------------------------------
(* The entries of ActiveExecutions *)

\* stopExecution leaves no running entry whose promise is settled.
LEMMA StopKeepsEntries ==
    ASSUME LInv, NEW e \in Execs, StopExecution(e), UNCHANGED <<pc, engine, entryStatus>>
    PROVE  EntryInv'
<1>0. /\ IInv /\ LifecycleTypeOK /\ EntryInv /\ ExecOf \in [Callers -> Execs]
      /\ owner \in [Execs -> Callers \cup {NoRun}] /\ NoRun \notin Callers
  BY ConstantsAssumption, LifecycleAssumption DEF LInv, LifecycleTypeOK
<1>inv. (\A f \in Execs : OwnerInv(f)) /\ (\A d \in Callers : DetachedInv(d))
  BY <1>0 DEF EntryInv
<1>1. CASE SettleResult(e)
  <2>1. \A f \in Execs : OwnerInv(f)'
    BY <1>0, <1>inv, <1>1 DEF SettleResult, Bystander, OwnerInv, Registered
  <2>2. \A d \in Callers : DetachedInv(d)'
    BY <1>0, <1>inv, <1>1 DEF SettleResult, DetachedInv
  <2>3. QED
    BY <2>1, <2>2 DEF EntryInv
<1>2. CASE /\ reservation' = reservation
           /\ owner' = [owner EXCEPT ![e] = NoRun]
  BY <1>0, <1>inv, <1>2 DEF EntryInv, OwnerInv, DetachedInv
<1>3. QED
  BY <1>0, <1>1, <1>2, StopEffect

\* Every step keeps what the entries say.
LEMMA EntryStep ==
    ASSUME LInv, [LifecycleNext]_vars
    PROVE  EntryInv'
<1> USE DEF Goto, WriteStatus, SaveStatus, runVars, entryVars, procVars
<1>0. /\ IInv /\ LifecycleTypeOK /\ SlotInv /\ EntryInv /\ ExecOf \in [Callers -> Execs]
      /\ pc \in [Callers -> Steps] /\ reservation \in [Callers -> ReservationStates]
      /\ owner \in [Execs -> Callers \cup {NoRun}] /\ NoRun \notin Callers
      /\ engine \in [Callers -> {"none", "attached", "detached"}]
      /\ entryStatus \in [Execs -> {"running", "waiting"}]
  BY ConstantsAssumption, LifecycleAssumption DEF LInv, LifecycleTypeOK, IInv, TypeOK
<1>inv. (\A f \in Execs : OwnerInv(f)) /\ (\A d \in Callers : DetachedInv(d))
  BY <1>0 DEF EntryInv
<1>1. ASSUME NEW r \in Callers, Create(r) PROVE EntryInv'
  BY <1>0, <1>inv, <1>1 DEF Create, ccVars, EntryInv, OwnerInv, DetachedInv, Registered
<1>2. ASSUME NEW r \in Callers, ResumeByWebhook(r) PROVE EntryInv'
  BY <1>0, <1>inv, <1>2
     DEF ResumeByWebhook, ccVars, EntryInv, OwnerInv, DetachedInv, Registered
<1>3. ASSUME NEW r \in Callers, ResumeByTimer(r) PROVE EntryInv'
  BY <1>0, <1>inv, <1>3
     DEF ResumeByTimer, ccVars, EntryInv, OwnerInv, DetachedInv, Registered
<1>4. ASSUME NEW r \in Callers, RunEnqueued(r) PROVE EntryInv'
  BY <1>0, <1>inv, <1>4
     DEF RunEnqueued, ccVars, EntryInv, OwnerInv, DetachedInv, Registered
<1>5. ASSUME NEW r \in Callers, Reserve(r) PROVE EntryInv'
  BY <1>0, <1>inv, <1>5, ThrottleEffect
     DEF Reserve, EntryInv, OwnerInv, DetachedInv, Registered
<1>6. ASSUME NEW r \in Callers, AddNew(r) PROVE EntryInv'
  BY <1>0, <1>inv, <1>6 DEF AddNew, ccVars, EntryInv, OwnerInv, DetachedInv, Registered
<1>7. ASSUME NEW r \in Callers, AddExisting(r) PROVE EntryInv'
  <2>1. CASE UNCHANGED ccVars
    BY <1>0, <1>inv, <1>7, <2>1
       DEF AddExisting, ccVars, EntryInv, OwnerInv, DetachedInv, Registered
  <2>2. CASE ~UNCHANGED ccVars
    <3>1. /\ pc[r] = "reserving" /\ pc' = [pc EXCEPT ![r] = "done"] /\ Release(r)
          /\ UNCHANGED <<engine, owner, entryStatus>>
      BY <1>7, <2>2 DEF AddExisting
    <3>2. \A d \in Callers : d # r => Bystander(d)
      BY <1>0, <3>1, ReleaseEffect
    <3>3. QED
      BY <1>0, <1>inv, <3>1, <3>2
         DEF Bystander, EntryInv, OwnerInv, DetachedInv, Registered
  <2>3. QED
    BY <2>1, <2>2
<1>8. ASSUME NEW r \in Callers, Register(r) PROVE EntryInv'
  <2>1. reservation[r] = "acquired" /\ engine[r] # "detached" /\ UNCHANGED reservation
    BY <1>0, <1>inv, <1>8 DEF Register, ccVars, SlotInv, DetachedInv
  <2>2. QED
    BY <1>0, <1>inv, <1>8, <2>1
       DEF Register, EntryInv, OwnerInv, DetachedInv, Registered
<1>9. ASSUME NEW r \in Callers, PreflightFails(r) PROVE EntryInv'
  BY <1>0, <1>inv, <1>9
     DEF PreflightFails, ccVars, EntryInv, OwnerInv, DetachedInv, Registered
<1>10. ASSUME NEW r \in Callers, PreflightPasses(r) PROVE EntryInv'
  BY <1>0, <1>inv, <1>10
     DEF PreflightPasses, ccVars, EntryInv, OwnerInv, DetachedInv, Registered
<1>11. ASSUME NEW r \in Callers, SetRunning(r) PROVE EntryInv'
  BY <1>0, <1>inv, <1>11
     DEF SetRunning, ccVars, EntryInv, OwnerInv, DetachedInv, Registered
<1>12. ASSUME NEW r \in Callers, StartEngine(r) PROVE EntryInv'
  BY <1>0, <1>inv, <1>12
     DEF StartEngine, ccVars, EntryInv, OwnerInv, DetachedInv, Registered
<1>13. ASSUME NEW r \in Callers, StartFails(r) PROVE EntryInv'
  <2>1. FinalizeExecution(ExecOf[r]) /\ ExecOf[r] \in Execs
    BY <1>0, <1>13 DEF StartFails
  <2>2. SettleResult(ExecOf[r])
    BY <1>0, <2>1, FinalizeEffect
  <2>3. QED
    BY <1>0, <1>inv, <1>13, <2>1, <2>2
       DEF StartFails, SettleResult, Bystander, EntryInv, OwnerInv, DetachedInv, Registered
<1>14. ASSUME NEW r \in Callers, LateSave(r) PROVE EntryInv'
  BY <1>0, <1>inv, <1>14
     DEF LateSave, ccVars, EntryInv, OwnerInv, DetachedInv, Registered
<1>15. ASSUME NEW r \in Callers, EngineEnds(r) PROVE EntryInv'
  BY <1>0, <1>inv, <1>15
     DEF EngineEnds, ccVars, EntryInv, OwnerInv, DetachedInv, Registered
<1>16. ASSUME NEW r \in Callers, EngineWaits(r) PROVE EntryInv'
  BY <1>0, <1>inv, <1>16
     DEF EngineWaits, ccVars, EntryInv, OwnerInv, DetachedInv, Registered
<1>17. ASSUME NEW r \in Callers, SaveHook(r) PROVE EntryInv'
  BY <1>0, <1>inv, <1>17
     DEF SaveHook, ccVars, EntryInv, OwnerInv, DetachedInv, Registered
<1>18. ASSUME NEW r \in Callers, Finalize(r) PROVE EntryInv'
  <2>1. ExecOf[r] \in Execs
    BY <1>0
  <2>2. CASE engine[r] = "detached"
    BY <1>0, <1>inv, <1>18, <2>2
       DEF Finalize, ccVars, EntryInv, OwnerInv, DetachedInv, Registered
  <2>3. CASE engine[r] # "detached"
    <3>1. SettleResult(ExecOf[r])
      BY <1>0, <1>18, <2>1, <2>3, FinalizeEffect DEF Finalize
    <3>2. QED
      BY <1>0, <1>inv, <1>18, <2>1, <3>1
         DEF Finalize, SettleResult, Bystander, EntryInv, OwnerInv, DetachedInv, Registered
  <2>4. QED
    BY <2>2, <2>3
<1>19. ASSUME NEW r \in Callers, CancelSave(r) PROVE EntryInv'
  BY <1>0, <1>inv, <1>19
     DEF CancelSave, ccVars, EntryInv, OwnerInv, DetachedInv, Registered
<1>20. ASSUME NEW r \in Callers, Timeout(r) PROVE EntryInv'
  <2>1. ExecOf[r] \in Execs /\ StopExecution(ExecOf[r]) /\ UNCHANGED <<pc, engine, entryStatus>>
    BY <1>0, <1>20 DEF Timeout
  <2>2. QED
    BY <1>0, <2>1, StopKeepsEntries
<1>21. ASSUME NEW e \in Execs, StopRead(e) PROVE EntryInv'
  BY <1>0, <1>inv, <1>21
     DEF StopRead, ccVars, EntryInv, OwnerInv, DetachedInv, Registered
<1>22. ASSUME NEW e \in Execs, StopApply(e) PROVE EntryInv'
  <2>1. CASE Has(e) /\ RemoveQueued(e, ModeOfExec(e)) /\ UNCHANGED owner
    <3>1. \A d \in Callers : Bystander(d)
      BY <1>0, <2>1, QueuedMode, RemoveEffect
    <3>2. QED
      BY <1>0, <1>inv, <1>22, <2>1, <3>1
         DEF StopApply, Bystander, EntryInv, OwnerInv, DetachedInv, Registered
  <2>2. CASE StopExecution(e)
    BY <1>0, <1>22, <2>2, StopKeepsEntries DEF StopApply
  <2>3. QED
    BY <1>22, <2>1, <2>2 DEF StopApply
<1>23. ASSUME NEW e \in Execs, StopWrite(e) PROVE EntryInv'
  BY <1>0, <1>inv, <1>23
     DEF StopWrite, ccVars, EntryInv, OwnerInv, DetachedInv, Registered
<1>24. ASSUME NEW e \in Execs, TrackWaiting(e) PROVE EntryInv'
  BY <1>0, <1>inv, <1>24
     DEF TrackWaiting, ccVars, EntryInv, OwnerInv, DetachedInv, Registered
<1>25. ASSUME BeginShutdown PROVE EntryInv'
  BY <1>0, <1>inv, <1>25
     DEF BeginShutdown, Disable, EntryInv, OwnerInv, DetachedInv, Registered
<1>26. ASSUME Restart PROVE EntryInv'
  BY <1>0, <1>inv, <1>26 DEF Restart, EntryInv, OwnerInv, DetachedInv, Registered
<1>27. ASSUME UNCHANGED vars PROVE EntryInv'
  BY <1>0, <1>inv, <1>27 DEF vars, ccVars, EntryInv, OwnerInv, DetachedInv, Registered
<1>28. QED
  BY <1>1, <1>2, <1>3, <1>4, <1>5, <1>6, <1>7, <1>8, <1>9,
     <1>10, <1>11, <1>12, <1>13, <1>14, <1>15, <1>16, <1>17, <1>18,
     <1>19, <1>20, <1>21, <1>22, <1>23, <1>24, <1>25, <1>26, <1>27
     DEF LifecycleNext, Begins, Advances, Stops

-----------------------------------------------------------------------------
(* The row and the run in charge of it *)

\* Every step keeps the row true.
LEMMA ChargeStep ==
    ASSUME LInv, [LifecycleNext]_vars
    PROVE  ChargeInv'
<1> DEFINE Row == /\ \A r \in Callers : InHand(r) => db[ExecOf[r]] \in {"running", "canceled"}
                  /\ \A r \in Callers : pc[r] = "saving" => outcome[r] # "none"
<1> USE DEF Goto, WriteStatus, SaveStatus, runVars, entryVars, procVars,
            InHand, OneInHand, UncreatedInv, FirstAlone, Charged
<1>0. /\ ExecOf \in [Callers -> Execs] /\ FirstRuns \subseteq Callers
      /\ \A r, s \in FirstRuns : ExecOf[r] = ExecOf[s] => r = s
      /\ Row /\ OneInHand /\ UncreatedInv /\ FirstAlone
      /\ pc \in [Callers -> Steps] /\ db \in [Execs -> Statuses]
      /\ outcome \in [Callers -> {"none", "success", "error", "waiting"}]
      /\ cancelSaves \subseteq Callers /\ stopping \in [Execs -> {"idle", "checked", "writing"}]
      /\ timers \subseteq Execs /\ boot \subseteq Execs
  BY ConstantsAssumption, LifecycleAssumption DEF LInv, LifecycleTypeOK, ChargeInv
<1>1. ASSUME NEW r \in Callers, Create(r) PROVE ChargeInv'
  BY <1>0, <1>1 DEF Create, ChargeInv
<1>2. ASSUME NEW r \in Callers, ResumeByWebhook(r) PROVE ChargeInv'
  BY <1>0, <1>2 DEF ResumeByWebhook, ChargeInv
<1>3. ASSUME NEW r \in Callers, ResumeByTimer(r) PROVE ChargeInv'
  BY <1>0, <1>3 DEF ResumeByTimer, ChargeInv
<1>4. ASSUME NEW r \in Callers, RunEnqueued(r) PROVE ChargeInv'
  BY <1>0, <1>4 DEF RunEnqueued, ChargeInv
<1>5. ASSUME NEW r \in Callers, Reserve(r) PROVE ChargeInv'
  BY <1>0, <1>5 DEF Reserve, ChargeInv
<1>6. ASSUME NEW r \in Callers, AddNew(r) PROVE ChargeInv'
  BY <1>0, <1>6 DEF AddNew, ChargeInv
<1>7. ASSUME NEW r \in Callers, AddExisting(r) PROVE ChargeInv'
  BY <1>0, <1>7 DEF AddExisting, ChargeInv
<1>8. ASSUME NEW r \in Callers, Register(r) PROVE ChargeInv'
  BY <1>0, <1>8 DEF Register, ChargeInv
<1>9. ASSUME NEW r \in Callers, PreflightFails(r) PROVE ChargeInv'
  BY <1>0, <1>9 DEF PreflightFails, ChargeInv
<1>10. ASSUME NEW r \in Callers, PreflightPasses(r) PROVE ChargeInv'
  BY <1>0, <1>10 DEF PreflightPasses, ChargeInv
<1>11. ASSUME NEW r \in Callers, SetRunning(r) PROVE ChargeInv'
  BY <1>0, <1>11 DEF SetRunning, ChargeInv
<1>12. ASSUME NEW r \in Callers, StartEngine(r) PROVE ChargeInv'
  BY <1>0, <1>12 DEF StartEngine, ChargeInv
<1>13. ASSUME NEW r \in Callers, StartFails(r) PROVE ChargeInv'
  BY <1>0, <1>13 DEF StartFails, ChargeInv
<1>14. ASSUME NEW r \in Callers, LateSave(r) PROVE ChargeInv'
  BY <1>0, <1>14 DEF LateSave, ChargeInv
<1>15. ASSUME NEW r \in Callers, EngineEnds(r) PROVE ChargeInv'
  BY <1>0, <1>15 DEF EngineEnds, ChargeInv
<1>16. ASSUME NEW r \in Callers, EngineWaits(r) PROVE ChargeInv'
  BY <1>0, <1>16 DEF EngineWaits, ChargeInv
<1>17. ASSUME NEW r \in Callers, SaveHook(r) PROVE ChargeInv'
  BY <1>0, <1>17 DEF SaveHook, ChargeInv
<1>18. ASSUME NEW r \in Callers, Finalize(r) PROVE ChargeInv'
  BY <1>0, <1>18 DEF Finalize, ChargeInv
<1>19. ASSUME NEW r \in Callers, CancelSave(r) PROVE ChargeInv'
  BY <1>0, <1>19 DEF CancelSave, ChargeInv
<1>20. ASSUME NEW r \in Callers, Timeout(r) PROVE ChargeInv'
  <2>1. \A d \in cancelSaves' : pc[d] # "idle"
    BY <1>0, <1>20 DEF Timeout, StopExecution
  <2>2. QED
    BY <1>0, <1>20, <2>1 DEF Timeout, ChargeInv
<1>21. ASSUME NEW e \in Execs, StopRead(e) PROVE ChargeInv'
  BY <1>0, <1>21 DEF StopRead, ChargeInv, Stoppable
<1>22. ASSUME NEW e \in Execs, StopApply(e) PROVE ChargeInv'
  <2>1. \A d \in cancelSaves' : pc[d] # "idle"
    BY <1>0, <1>22 DEF StopApply, StopExecution
  <2>2. timers' \subseteq timers
    BY <1>0, <1>22 DEF StopApply
  <2>3. QED
    BY <1>0, <1>22, <2>1, <2>2 DEF StopApply, ChargeInv
<1>23. ASSUME NEW e \in Execs, StopWrite(e) PROVE ChargeInv'
  BY <1>0, <1>23 DEF StopWrite, ChargeInv
<1>24. ASSUME NEW e \in Execs, TrackWaiting(e) PROVE ChargeInv'
  BY <1>0, <1>24 DEF TrackWaiting, ChargeInv
<1>25. ASSUME BeginShutdown PROVE ChargeInv'
  BY <1>0, <1>25 DEF BeginShutdown, ChargeInv
<1>26. ASSUME Restart PROVE ChargeInv'
  BY <1>0, <1>26 DEF Restart, ChargeInv
<1>27. ASSUME UNCHANGED vars PROVE ChargeInv'
  BY <1>0, <1>27 DEF vars, ChargeInv
<1>28. QED
  BY <1>1, <1>2, <1>3, <1>4, <1>5, <1>6, <1>7, <1>8, <1>9,
     <1>10, <1>11, <1>12, <1>13, <1>14, <1>15, <1>16, <1>17, <1>18,
     <1>19, <1>20, <1>21, <1>22, <1>23, <1>24, <1>25, <1>26, <1>27
     DEF LifecycleNext, Begins, Advances, Stops

-----------------------------------------------------------------------------
(* The invariant holds *)

\* A process that has just started satisfies the invariant.
LEMMA InitLInv == LifecycleInit => LInv
<1> SUFFICES ASSUME LifecycleInit PROVE LInv
  OBVIOUS
<1> USE DEF LifecycleInit
<1>1. IInv /\ TypeOK
  BY InitIInv DEF IInv
<1>2. LifecycleTypeOK
  BY <1>1 DEF LifecycleTypeOK, Statuses, Steps
<1>3. SlotInv
  BY DEF SlotInv, CCInit
<1>4. EntryInv
  BY ConstantsAssumption DEF EntryInv, OwnerInv, DetachedInv
<1>5. ChargeInv
  BY ConstantsAssumption, LifecycleAssumption
     DEF ChargeInv, InHand, Charged, OneInHand, UncreatedInv, FirstAlone
<1>6. QED
  BY <1>1, <1>2, <1>3, <1>4, <1>5 DEF LInv

\* The invariant holds of every behaviour, for any runs, limits and modes.
THEOREM LifecycleInvariantHolds == LifecycleSpec => []LInv
<1>1. LInv /\ [LifecycleNext]_vars => LInv'
  BY LimiterStep, TypesStep, SlotStep, EntryStep, ChargeStep DEF LInv
<1>2. QED
  BY <1>1, InitLInv, PTL DEF LifecycleSpec

\* Every variable keeps its type, and only a cancelled workflow has an onCancel hook.
THEOREM LifecycleTypeCorrect == LifecycleSpec => []LifecycleTypeOK
<1>1. LInv => LifecycleTypeOK
  BY DEF LInv
<1>2. QED
  BY <1>1, LifecycleInvariantHolds, PTL

\* However many resumes race, at most one run is in charge of an execution.
THEOREM AtMostOneRunInCharge == LifecycleSpec => []OneRunInCharge
<1>1. LInv => OneRunInCharge
  BY DEF LInv, ChargeInv, OneInHand, InHand, Charged, OneRunInCharge, InCharge, RunsOf
<1>2. QED
  BY <1>1, LifecycleInvariantHolds, PTL

\* A row that says new, waiting, success or error belongs to a workflow that no
\* run of this process is executing.
THEOREM RowTellsTheTruth == LifecycleSpec => []QuietRowIsQuiet
<1>1. LInv => QuietRowIsQuiet
  BY DEF LInv, ChargeInv, InHand, Charged, QuietRowIsQuiet, InCharge
<1>2. QED
  BY <1>1, LifecycleInvariantHolds, PTL

\* Every running entry of activeExecutions has a run that will settle it.
THEOREM NoZombieEntries == LifecycleSpec => []RunningEntryIsLive
<1>1. LInv => RunningEntryIsLive
  BY DEF LInv, EntryInv, OwnerInv, Registered, RunningEntryIsLive
<1>2. QED
  BY <1>1, LifecycleInvariantHolds, PTL

-----------------------------------------------------------------------------
(* The limiter inside the lifecycle *)

\* Every step of the lifecycle is, for the limiter, a step that its own
\* specification allows, or the start of a new process.
THEOREM LimiterUsedAsSpecified == LifecycleSpec => [][CCNext \/ CCReset]_ccVars
<1>1. LInv /\ [LifecycleNext]_vars => [CCNext \/ CCReset]_ccVars
  BY LimiterCalls
<1>2. QED
  BY <1>1, LifecycleInvariantHolds, PTL DEF LifecycleSpec

\* With resumes, stops, timeouts and a restart no slot is lost or invented, no
\* wakeup is lost, and the limit is exceeded only by executions stopped while queued.
THEOREM LimiterHoldsInLifecycle ==
    LifecycleSpec => [](SlotAccounting /\ NoIdleSlotWhileQueued /\ OverAdmissionBounded)
<1>1. LInv => SlotAccounting /\ OverAdmissionBounded
  BY DEF LInv, IInv, CountInv, Counts, SlotAccounting, OverAdmissionBounded
<1>2. LInv => NoIdleSlotWhileQueued
  BY NobodyWaitsForAFreeSlot DEF LInv
<1>3. QED
  BY <1>1, <1>2, LifecycleInvariantHolds, PTL

\* Resumes, stops and restarts included, queued executions are admitted in order.
THEOREM LifecycleAdmitsInOrder == LifecycleSpec => AdmitsInOrder
<1>1. ASSUME IInv, CCReset PROVE InOrder
  <2>1. ASSUME NEW q \in QueueTypes, NEW j \in 1..Len(queue[q])
        PROVE  queue[q][j] \in Callers /\ reservation'[queue[q][j]] = "idle"
    BY <1>1, <2>1, ParkedFacts DEF CCReset
  <2>2. QED
    BY <2>1 DEF InOrder
<1>2. LInv /\ [LifecycleNext]_vars => [InOrder]_ccVars
  BY <1>1, LimiterCalls, NextInOrder DEF LInv
<1>3. QED
  BY <1>2, LifecycleInvariantHolds, PTL DEF LifecycleSpec, AdmitsInOrder, InOrder

-----------------------------------------------------------------------------
(* Workflows without a Wait node *)

\* Without a Wait node no row and no entry is waiting, only the first run of an
\* execution takes charge of it, and a run past registering that has a slot owns
\* the entry whose promise gives it back.
KeptSlot(r) ==
    reservation[r] = "acquired" /\ pc[r] \in Registered \cup {"latesave", "done"} =>
        owner[ExecOf[r]] = r /\ r \in FirstRuns

NoWaitInv ==
    /\ \A e \in Execs : db[e] # "waiting" /\ entryStatus[e] = "running"
    /\ \A r \in Callers : outcome[r] # "waiting"
    /\ \A r \in Callers : InHand(r) => r \in FirstRuns
    /\ \A r \in Callers : KeptSlot(r)

\* Every step of workflows without a Wait node keeps the invariant.
LEMMA NoWaitStep ==
    ASSUME WaitingRuns = {}, LInv, NoWaitInv, [LifecycleNext]_vars
    PROVE  NoWaitInv'
<1> USE DEF Goto, WriteStatus, SaveStatus, runVars, entryVars, procVars
<1>0. /\ IInv /\ LifecycleTypeOK /\ SlotInv /\ NoWaitInv /\ ExecOf \in [Callers -> Execs]
      /\ pc \in [Callers -> Steps] /\ reservation \in [Callers -> ReservationStates]
      /\ owner \in [Execs -> Callers \cup {NoRun}] /\ NoRun \notin Callers
      /\ db \in [Execs -> Statuses] /\ entryStatus \in [Execs -> {"running", "waiting"}]
      /\ outcome \in [Callers -> {"none", "success", "error", "waiting"}]
      /\ \A r, s \in FirstRuns : ExecOf[r] = ExecOf[s] => r = s
      /\ \A d \in Callers : DetachedInv(d)
      /\ WaitingRuns = {}
  BY ConstantsAssumption, LifecycleAssumption
     DEF LInv, LifecycleTypeOK, IInv, TypeOK, EntryInv
<1>1. ASSUME NEW r \in Callers, Create(r) PROVE NoWaitInv'
  BY <1>0, <1>1 DEF Create, ccVars, NoWaitInv, InHand, Charged, KeptSlot, Registered
<1>2. ASSUME NEW r \in Callers, ResumeByWebhook(r) PROVE NoWaitInv'
  BY <1>0, <1>2
     DEF ResumeByWebhook, ccVars, NoWaitInv, InHand, Charged, KeptSlot, Registered
<1>3. ASSUME NEW r \in Callers, ResumeByTimer(r) PROVE NoWaitInv'
  BY <1>0, <1>3
     DEF ResumeByTimer, ccVars, SlotInv, NoWaitInv, InHand, Charged, KeptSlot, Registered
<1>4. ASSUME NEW r \in Callers, RunEnqueued(r) PROVE NoWaitInv'
  BY <1>0, <1>4
     DEF RunEnqueued, ccVars, NoWaitInv, InHand, Charged, KeptSlot, Registered
<1>5. ASSUME NEW r \in Callers, Reserve(r) PROVE NoWaitInv'
  BY <1>0, <1>5, ThrottleEffect
     DEF Reserve, NoWaitInv, InHand, Charged, KeptSlot, Registered
<1>6. ASSUME NEW r \in Callers, AddNew(r) PROVE NoWaitInv'
  BY <1>0, <1>6 DEF AddNew, ccVars, NoWaitInv, InHand, Charged, KeptSlot, Registered
<1>7. ASSUME NEW r \in Callers, AddExisting(r) PROVE NoWaitInv'
  <2>1. /\ pc[r] = "reserving" /\ pc' = [pc EXCEPT ![r] = "done"] /\ Release(r)
        /\ UNCHANGED <<db, outcome, owner, entryStatus>>
    BY <1>0, <1>7 DEF AddExisting, NoWaitInv
  <2>2. reservation'[r] = "idle" /\ \A d \in Callers : d # r => Bystander(d)
    BY <1>0, <2>1, ReleaseEffect
  <2>3. QED
    BY <1>0, <2>1, <2>2
       DEF Bystander, SlotInv, NoWaitInv, InHand, Charged, KeptSlot, Registered
<1>8. ASSUME NEW r \in Callers, Register(r) PROVE NoWaitInv'
  BY <1>0, <1>8 DEF Register, ccVars, NoWaitInv, InHand, Charged, KeptSlot, Registered
<1>9. ASSUME NEW r \in Callers, PreflightFails(r) PROVE NoWaitInv'
  BY <1>0, <1>9
     DEF PreflightFails, ccVars, NoWaitInv, InHand, Charged, KeptSlot, Registered
<1>10. ASSUME NEW r \in Callers, PreflightPasses(r) PROVE NoWaitInv'
  BY <1>0, <1>10
     DEF PreflightPasses, ccVars, NoWaitInv, InHand, Charged, KeptSlot, Registered
<1>11. ASSUME NEW r \in Callers, SetRunning(r) PROVE NoWaitInv'
  BY <1>0, <1>11
     DEF SetRunning, ccVars, NoWaitInv, InHand, Charged, KeptSlot, Registered
<1>12. ASSUME NEW r \in Callers, StartEngine(r) PROVE NoWaitInv'
  BY <1>0, <1>12
     DEF StartEngine, ccVars, NoWaitInv, InHand, Charged, KeptSlot, Registered
<1>13. ASSUME NEW r \in Callers, StartFails(r) PROVE NoWaitInv'
  <2>1. SettleResult(ExecOf[r])
    BY <1>0, <1>13, FinalizeEffect DEF StartFails
  <2>2. QED
    BY <1>0, <1>13, <2>1
       DEF StartFails, SettleResult, Bystander, SlotInv, NoWaitInv, InHand, Charged, KeptSlot, Registered
<1>14. ASSUME NEW r \in Callers, LateSave(r) PROVE NoWaitInv'
  BY <1>0, <1>14 DEF LateSave, ccVars, NoWaitInv, InHand, Charged, KeptSlot, Registered
<1>15. ASSUME NEW r \in Callers, EngineEnds(r) PROVE NoWaitInv'
  BY <1>0, <1>15
     DEF EngineEnds, ccVars, NoWaitInv, InHand, Charged, KeptSlot, Registered
<1>16. ASSUME NEW r \in Callers, EngineWaits(r) PROVE NoWaitInv'
  BY <1>0, <1>16
     DEF EngineWaits, ccVars, NoWaitInv, InHand, Charged, KeptSlot, Registered
<1>17. ASSUME NEW r \in Callers, SaveHook(r) PROVE NoWaitInv'
  BY <1>0, <1>17 DEF SaveHook, ccVars, NoWaitInv, InHand, Charged, KeptSlot, Registered
<1>18. ASSUME NEW r \in Callers, Finalize(r) PROVE NoWaitInv'
  <2>1. CASE engine[r] = "detached"
    BY <1>0, <1>18, <2>1
       DEF DetachedInv, Finalize, ccVars, NoWaitInv, InHand, Charged, KeptSlot, Registered
  <2>2. CASE engine[r] # "detached"
    <3>1. SettleResult(ExecOf[r])
      BY <1>0, <1>18, <2>2, FinalizeEffect DEF Finalize
    <3>2. QED
      BY <1>0, <1>18, <3>1
         DEF Finalize, SettleResult, Bystander, SlotInv, NoWaitInv, InHand, Charged, KeptSlot, Registered
  <2>3. QED
    BY <2>1, <2>2
<1>19. ASSUME NEW r \in Callers, CancelSave(r) PROVE NoWaitInv'
  BY <1>0, <1>19
     DEF CancelSave, ccVars, NoWaitInv, InHand, Charged, KeptSlot, Registered
<1>20. ASSUME NEW r \in Callers, Timeout(r) PROVE NoWaitInv'
  <2>1. SettleResult(ExecOf[r])
    BY <1>0, <1>20, StopEffect DEF Timeout, NoWaitInv
  <2>2. QED
    BY <1>0, <1>20, <2>1
       DEF Timeout, SettleResult, Bystander, SlotInv, NoWaitInv, InHand, Charged, KeptSlot, Registered
<1>21. ASSUME NEW e \in Execs, StopRead(e) PROVE NoWaitInv'
  BY <1>0, <1>21 DEF StopRead, ccVars, NoWaitInv, InHand, Charged, KeptSlot, Registered
<1>22. ASSUME NEW e \in Execs, StopApply(e) PROVE NoWaitInv'
  <2>1. CASE Has(e) /\ RemoveQueued(e, ModeOfExec(e)) /\ UNCHANGED owner
    <3>1. \A d \in Callers : Bystander(d)
      BY <1>0, <2>1, QueuedMode, RemoveEffect
    <3>2. QED
      BY <1>0, <1>22, <2>1, <3>1
         DEF StopApply, Bystander, SlotInv, NoWaitInv, InHand, Charged, KeptSlot, Registered
  <2>2. CASE StopExecution(e)
    <3>1. SettleResult(e)
      BY <1>0, <2>2, StopEffect DEF NoWaitInv
    <3>2. QED
      BY <1>0, <1>22, <3>1
         DEF StopApply, SettleResult, Bystander, SlotInv, NoWaitInv, InHand, Charged, KeptSlot, Registered
  <2>3. QED
    BY <1>22, <2>1, <2>2 DEF StopApply
<1>23. ASSUME NEW e \in Execs, StopWrite(e) PROVE NoWaitInv'
  BY <1>0, <1>23 DEF StopWrite, ccVars, NoWaitInv, InHand, Charged, KeptSlot, Registered
<1>24. ASSUME NEW e \in Execs, TrackWaiting(e) PROVE NoWaitInv'
  BY <1>0, <1>24
     DEF TrackWaiting, ccVars, NoWaitInv, InHand, Charged, KeptSlot, Registered
<1>25. ASSUME BeginShutdown PROVE NoWaitInv'
  BY <1>0, <1>25
     DEF BeginShutdown, Disable, NoWaitInv, InHand, Charged, KeptSlot, Registered
<1>26. ASSUME Restart PROVE NoWaitInv'
  BY <1>0, <1>26 DEF Restart, CCReset, NoWaitInv, InHand, Charged, KeptSlot, Registered
<1>27. ASSUME UNCHANGED vars PROVE NoWaitInv'
  BY <1>0, <1>27 DEF vars, ccVars, NoWaitInv, InHand, Charged, KeptSlot, Registered
<1>28. QED
  BY <1>1, <1>2, <1>3, <1>4, <1>5, <1>6, <1>7, <1>8, <1>9,
     <1>10, <1>11, <1>12, <1>13, <1>14, <1>15, <1>16, <1>17, <1>18,
     <1>19, <1>20, <1>21, <1>22, <1>23, <1>24, <1>25, <1>26, <1>27
     DEF LifecycleNext, Begins, Advances, Stops

\* Where no workflow reaches a Wait node, a finished run keeps no slot of the
\* limiter, whatever stops, timeouts and failures it went through.
THEOREM FinishedRunsHoldNoSlot ==
    ASSUME WaitingRuns = {}
    PROVE  LifecycleSpec => []FinishedRunHoldsNoSlot
<1>1. LifecycleInit => NoWaitInv
  BY ConstantsAssumption
     DEF LifecycleInit, CCInit, NoWaitInv, InHand, Charged, KeptSlot, Registered
<1>2. LInv /\ NoWaitInv /\ [LifecycleNext]_vars => NoWaitInv'
  BY NoWaitStep
<1>3. LInv /\ NoWaitInv => FinishedRunHoldsNoSlot
  BY ConstantsAssumption, LifecycleAssumption
    
        DEF LInv, EntryInv, OwnerInv, NoWaitInv, KeptSlot, Registered, FinishedRunHoldsNoSlot
<1>4. QED
  BY <1>1, <1>2, <1>3, LifecycleInvariantHolds, PTL DEF LifecycleSpec
=============================================================================
