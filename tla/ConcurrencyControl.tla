------------------------- MODULE ConcurrencyControl -------------------------
(***************************************************************************)
(* The in-process concurrency limiter of a main in regular mode:           *)
(* ConcurrencyQueue, ConcurrencyControlService and the reservation object  *)
(* ConcurrencyCapacityReservation through which an execution holds a slot. *)
(*                                                                         *)
(* A caller is one call of throttle(): a reservation made by               *)
(* ActiveExecutions.add, or one case of an evaluation run.  Several        *)
(* callers may carry the same execution id (two resumes of one waiting     *)
(* execution), and the queue finds its items by that id.                   *)
(*                                                                         *)
(* JavaScript runs each of these functions to completion, and the          *)
(* continuation of a resolved throttle promise runs before the next        *)
(* macrotask, so every operation, the admission it causes included, is one *)
(* atomic action.                                                          *)
(***************************************************************************)
EXTENDS Integers, FiniteSets, SequencesExt

CONSTANTS
    Callers,          \* calls of throttle()
    Execs,            \* execution ids
    ExecOf,           \* ExecOf[c]: the execution id that caller c passes
    ModeOf,           \* ModeOf[c]: its WorkflowExecuteMode
    ExecutionsMode,   \* config executions.mode: "regular" or "queue"
    ProductionLimit,  \* config concurrency.productionLimit
    EvaluationLimit,  \* config concurrency.evaluationLimit, -1 when unset
    ResolvedLimit     \* what resolveEvaluationConcurrencyLimit returns later

UnlimitedModes == {"error", "integrated", "cli", "internal", "manual", "retry"}
ProductionModes == {"webhook", "trigger", "chat"}
Modes == UnlimitedModes \cup ProductionModes \cup {"evaluation"}
QueueTypes == {"production", "evaluation"}

\* A limit of 0 makes the constructor throw: such a process never starts.
ASSUME ConstantsAssumption ==
    /\ IsFiniteSet(Callers)
    /\ ExecOf \in [Callers -> Execs]
    /\ ModeOf \in [Callers -> Modes]
    /\ ExecutionsMode \in {"regular", "queue"}
    /\ ProductionLimit \in Int \ {0}
    /\ EvaluationLimit \in Int \ {0}
    /\ ResolvedLimit \in Int \ {0}

NormaliseLimit(limit) == IF limit < -1 THEN -1 ELSE limit

(***************************************************************************)
(* The limit a queue of each type has if it is ever created.               *)
(***************************************************************************)
LimitOf(q) ==
    NormaliseLimit(IF q = "production" THEN ProductionLimit
                   ELSE IF NormaliseLimit(EvaluationLimit) > 0
                        THEN EvaluationLimit ELSE ResolvedLimit)

VARIABLES
    isEnabled,
    evalQueueResolved,
    queues,      \* the queue types that have a ConcurrencyQueue
    capacity,    \* capacity[q]: may be negative, by the length of the queue
    queue,       \* queue[q]: the callers parked in it, oldest first
    reservation, \* reservation[c]: where caller c stands
    disabled     \* disable() has been called: the process is shutting down

ccVars == <<isEnabled, evalQueueResolved, queues, capacity, queue,
            reservation, disabled>>

(***************************************************************************)
(* idle: no call outstanding.  queued: its promise is parked in the queue. *)
(* acquired: throttle() has returned.  abandoned: removed from the queue;  *)
(* its promise is never settled, so the caller waits for ever.             *)
(***************************************************************************)
ReservationStates == {"idle", "queued", "acquired", "abandoned"}

-----------------------------------------------------------------------------
(* ConcurrencyControlService: configuration and dispatch *)

QueueTypeOf(mode) == IF mode \in ProductionModes THEN "production" ELSE mode

\* this.queues.get(...) finds a queue for the mode, i.e. not isUnlimited.
Limited(mode, qs) == mode \notin UnlimitedModes /\ QueueTypeOf(mode) \in qs

QueuesAtBoot == {q \in QueueTypes :
    /\ ExecutionsMode = "regular"
    /\ NormaliseLimit(IF q = "production" THEN ProductionLimit
                      ELSE EvaluationLimit) > 0}

CCInit ==
    /\ queues = QueuesAtBoot
    /\ isEnabled = (QueuesAtBoot # {})
    /\ evalQueueResolved = ("evaluation" \in QueuesAtBoot)
    /\ capacity = [q \in QueueTypes |-> LimitOf(q)]
    /\ queue = [q \in QueueTypes |-> <<>>]
    /\ reservation = [c \in Callers |-> "idle"]
    /\ disabled = FALSE

\* The service of the next process, after a restart.
CCReset ==
    /\ queues' = QueuesAtBoot
    /\ isEnabled' = (QueuesAtBoot # {})
    /\ evalQueueResolved' = ("evaluation" \in QueuesAtBoot)
    /\ capacity' = [q \in QueueTypes |-> LimitOf(q)]
    /\ queue' = [q \in QueueTypes |-> <<>>]
    /\ reservation' = [c \in Callers |-> "idle"]
    /\ disabled' = FALSE

(***************************************************************************)
(* The first use in evaluation mode creates the evaluation queue when the  *)
(* license grants a finite limit, and switches the service on.             *)
(***************************************************************************)
EnsureEvalQueueResolved(mode) ==
    IF mode = "evaluation" /\ ~evalQueueResolved
    THEN LET creates == ExecutionsMode = "regular" /\ LimitOf("evaluation") > 0
         IN /\ evalQueueResolved' = TRUE
            /\ queues' = IF creates THEN queues \cup {"evaluation"} ELSE queues
            /\ isEnabled' = (isEnabled \/ creates)
    ELSE UNCHANGED <<evalQueueResolved, queues, isEnabled>>

\* The guard of throttle, release and remove after the lazy resolution.
Governed(mode) == isEnabled' /\ Limited(mode, queues')

-----------------------------------------------------------------------------
(* ConcurrencyQueue *)

\* Mutant: the item pushed is the execution id, without its resolver.
EnqueueIdOnly(q, c) ==
    /\ capacity' = [capacity EXCEPT ![q] = @ - 1]
    /\ IF capacity[q] - 1 < 0
       THEN /\ queue' = [queue EXCEPT ![q] = Append(@, ExecOf[c])]
            /\ reservation' = [reservation EXCEPT ![c] = "queued"]
       ELSE /\ reservation' = [reservation EXCEPT ![c] = "acquired"]
            /\ UNCHANGED queue

\* Mutant: the capacity is tested before the decrement.
EnqueueOffByOne(q, c) ==
    /\ capacity' = [capacity EXCEPT ![q] = @ - 1]
    /\ IF capacity[q] < 0
       THEN /\ queue' = [queue EXCEPT ![q] = Append(@, c)]
            /\ reservation' = [reservation EXCEPT ![c] = "queued"]
       ELSE /\ reservation' = [reservation EXCEPT ![c] = "acquired"]
            /\ UNCHANGED queue

Enqueue(q, c) ==
    /\ capacity' = [capacity EXCEPT ![q] = @ - 1]
    /\ IF capacity[q] - 1 < 0
       THEN /\ queue' = [queue EXCEPT ![q] = Append(@, c)]
            /\ reservation' = [reservation EXCEPT ![c] = "queued"]
       ELSE /\ reservation' = [reservation EXCEPT ![c] = "acquired"]
            /\ UNCHANGED queue

\* Mutant: the newest parked caller is resolved instead of the oldest.
ResolveNextLifo(q, items, res) ==
    IF items = <<>>
    THEN /\ queue' = [queue EXCEPT ![q] = items]
         /\ reservation' = res
    ELSE /\ queue' = [queue EXCEPT ![q] = Front(items)]
         /\ reservation' = [res EXCEPT ![Last(items)] = "acquired"]

\* Mutant: the oldest item is resolved but not shifted out of the queue.
ResolveNextUnshifted(q, items, res) ==
    /\ queue' = [queue EXCEPT ![q] = items]
    /\ reservation' = IF items = <<>> THEN res
                      ELSE [res EXCEPT ![Head(items)] = "acquired"]

(***************************************************************************)
(* resolveNext on the parked items, with res the reservations so far.      *)
(***************************************************************************)
ResolveNext(q, items, res) ==
    IF items = <<>>
    THEN /\ queue' = [queue EXCEPT ![q] = items]
         /\ reservation' = res
    ELSE /\ queue' = [queue EXCEPT ![q] = Tail(items)]
         /\ reservation' = [res EXCEPT ![Head(items)] = "acquired"]

\* Mutant: the freed slot is returned but nobody is woken.
DequeueNoWakeup(q, res) ==
    /\ capacity' = [capacity EXCEPT ![q] = @ + 1]
    /\ reservation' = res
    /\ UNCHANGED queue

Dequeue(q, res) ==
    /\ capacity' = [capacity EXCEPT ![q] = @ + 1]
    /\ ResolveNext(q, queue[q], res)

\* The first item with that execution id (findIndex), which splice removes.
IsFirstOf(q, e, i) ==
    /\ i \in 1..Len(queue[q])
    /\ ExecOf[queue[q][i]] = e
    /\ \A j \in 1..(i-1) : ExecOf[queue[q][j]] # e

\* Mutant: splice without giving the capacity back.
RemoveItemNoCredit(q, i) ==
    /\ UNCHANGED capacity
    /\ ResolveNext(q, RemoveAt(queue[q], i),
                   [reservation EXCEPT ![queue[q][i]] = "abandoned"])

RemoveItem(q, i) ==
    /\ capacity' = [capacity EXCEPT ![q] = @ + 1]
    /\ ResolveNext(q, RemoveAt(queue[q], i),
                   [reservation EXCEPT ![queue[q][i]] = "abandoned"])

-----------------------------------------------------------------------------
(* ConcurrencyControlService: operations *)

\* has(executionId)
Has(e) ==
    /\ isEnabled
    /\ \E q \in queues : \E i \in 1..Len(queue[q]) : ExecOf[queue[q][i]] = e

\* ConcurrencyCapacityReservation.reserve -> throttle
Throttle(c) ==
    LET m == ModeOf[c] IN
    /\ reservation[c] = "idle"
    /\ EnsureEvalQueueResolved(m)
    /\ IF Governed(m)
       THEN Enqueue(QueueTypeOf(m), c)
       ELSE /\ reservation' = [reservation EXCEPT ![c] = "acquired"]
            /\ UNCHANGED <<capacity, queue>>
    /\ UNCHANGED disabled

\* ConcurrencyCapacityReservation.release -> release
Release(c) ==
    LET m == ModeOf[c]
        freed == [reservation EXCEPT ![c] = "idle"]
    IN
    /\ reservation[c] = "acquired"
    /\ EnsureEvalQueueResolved(m)
    /\ IF Governed(m)
       THEN Dequeue(QueueTypeOf(m), freed)
       ELSE /\ reservation' = freed
            /\ UNCHANGED <<capacity, queue>>
    /\ UNCHANGED disabled

\* remove({ mode, executionId }): a no-op unless an item has that id.
RemoveQueued(e, m) ==
    /\ EnsureEvalQueueResolved(m)
    /\ \/ /\ Governed(m)
          /\ \E i \in 1..Len(queue[QueueTypeOf(m)]) :
                /\ IsFirstOf(QueueTypeOf(m), e, i)
                /\ RemoveItem(QueueTypeOf(m), i)
       \/ /\ \/ ~Governed(m)
             \/ ~\E i \in 1..Len(queue[QueueTypeOf(m)]) :
                    IsFirstOf(QueueTypeOf(m), e, i)
          /\ UNCHANGED <<capacity, queue, reservation>>
    /\ UNCHANGED disabled

(***************************************************************************)
(* A user stops a queued execution, or an evaluation run is aborted while  *)
(* one of its cases is queued: both callers remove only their own id.      *)
(***************************************************************************)
StopQueued(c) == reservation[c] = "queued" /\ RemoveQueued(ExecOf[c], ModeOf[c])

(***************************************************************************)
(* ActiveExecutions.shutdown calls disable() and then, in the same turn,   *)
(* removeAll(), which returns at once because the service is disabled.     *)
(***************************************************************************)
Disable ==
    /\ isEnabled' = FALSE
    /\ disabled' = TRUE
    /\ UNCHANGED <<evalQueueResolved, queues, capacity, queue, reservation>>

CCNext ==
    \/ \E c \in Callers : Throttle(c) \/ Release(c) \/ StopQueued(c)
    \/ Disable

CCSpec == CCInit /\ [][CCNext]_ccVars

-----------------------------------------------------------------------------
(* Properties *)

\* Types of the service's fields, its queues and the reservations.
TypeOK ==
    /\ isEnabled \in BOOLEAN
    /\ evalQueueResolved \in BOOLEAN
    /\ queues \in SUBSET QueueTypes
    /\ capacity \in [QueueTypes -> Int]
    /\ queue \in [QueueTypes -> Seq(Callers)]
    /\ reservation \in [Callers -> ReservationStates]
    /\ disabled \in BOOLEAN

CallersOf(q) == {c \in Callers :
    ModeOf[c] \notin UnlimitedModes /\ QueueTypeOf(ModeOf[c]) = q}
Holders(q) == {c \in CallersOf(q) : reservation[c] = "acquired"}
Abandoned(q) == {c \in CallersOf(q) : reservation[c] = "abandoned"}

(***************************************************************************)
(* Until shutdown no slot is lost or invented: the capacity counter of     *)
(* concurrency-queue.ts is the limit minus the executions that run and the *)
(* executions that wait, whatever was stopped while waiting and however    *)
(* late the evaluation queue was created.                                  *)
(***************************************************************************)
SlotAccounting ==
    ~disabled => \A q \in queues :
        capacity[q] = LimitOf(q) - Cardinality(Holders(q)) - Len(queue[q])

(***************************************************************************)
(* No lost wakeup: until shutdown nobody is parked in a queue while a slot *)
(* of that queue is free.                                                  *)
(***************************************************************************)
NoIdleSlotWhileQueued ==
    ~disabled => \A q \in queues :
        queue[q] # <<>> => Cardinality(Holders(q)) >= LimitOf(q)

(***************************************************************************)
(* A queue parks exactly the callers that wait for it, each once: nobody   *)
(* who runs or was stopped stays parked, nobody waits without being parked *)
(* (the item would never be resolved).                                     *)
(***************************************************************************)
ParkedOnce ==
    /\ \A q \in QueueTypes : IsInjective(queue[q])
    /\ \A c \in Callers :
          (reservation[c] = "queued") <=>
          (\E q \in QueueTypes : c \in ToSet(queue[q]))

(***************************************************************************)
(* The bound the limiter really keeps: until shutdown, more executions     *)
(* than the limit run only by as many as were stopped while queued, since  *)
(* remove() admits the next one without a slot having been freed.          *)
(***************************************************************************)
OverAdmissionBounded ==
    ~disabled => \A q \in queues :
        Cardinality(Holders(q)) <= LimitOf(q) + Cardinality(Abandoned(q))

(***************************************************************************)
(* First come, first served: a step that admits a parked caller leaves no  *)
(* older one parked behind.                                                *)
(***************************************************************************)
AdmitsInOrder ==
    [][\A q \in QueueTypes : \A i, j \in 1..Len(queue[q]) :
          (i < j /\ reservation'[queue[q][j]] = "acquired")
             => reservation'[queue[q][i]] # "queued"]_ccVars
=============================================================================
