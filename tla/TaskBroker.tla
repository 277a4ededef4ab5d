----------------------------- MODULE TaskBroker -----------------------------
(***************************************************************************)
(* The task broker of a main, its in-process task requester and the task   *)
(* runners that execute Code nodes for it over websockets.                 *)
(*                                                                         *)
(* Runners offer slots; the broker matches offers with requests, asks the  *)
(* runner to accept, tells the requester that its task is ready, passes    *)
(* the settings on and brings the result back.  Broker and requester live  *)
(* in one process and call each other directly, so a handler of the broker *)
(* and the requester code it awakes are one step; runners see messages,    *)
(* in order per connection, at any later time.  The clock is abstracted:   *)
(* a timer that is armed may fire in any order with everything else.       *)
(***************************************************************************)
EXTENDS Positions, SequencesExt

CONSTANTS
    Requests,       \* calls of TaskRequester.startTask
    Runners,        \* runner processes, each of which connects once
    TypeOf,         \* TypeOf[x]: the task type of a request or a runner
    MaxConcurrency, \* of each runner
    RunnerMode,     \* config taskRunners.mode: "internal" or "external"
    MaxTasks,       \* bound: how many task ids the broker ever hands out
    Offers          \* bound: the offer ids a runner has, reused once forgotten

ASSUME BrokerAssumption ==
    /\ IsFiniteSet(Requests) /\ IsFiniteSet(Runners) /\ IsFiniteSet(Offers)
    /\ MaxConcurrency \in Nat \ {0}
    /\ MaxTasks \in Nat \ {0}
    /\ RunnerMode \in {"internal", "external"}

Tasks == 1..MaxTasks
NoTask == 0

VARIABLES
    \* the broker
    knownRunners, pendingTaskOffers, pendingTaskRequests, tasks, isDraining,
    acceptInProgress, \* the pending requests that have this flag set
    attempts,         \* attempts[t]: the call of acceptOffer with task id t
    \* the requester
    job,              \* job[r]: where startTask stands
    taskIdOf,         \* taskIdOf[r]: the task id it was given
    \* the runners
    process,          \* process[n]: new before it connects, then up, then gone
    canSendOffers, runnerDraining, openOffers,
    runningTasks,     \* runningTasks[n][t]: its TaskState, "none" if absent
    \* the connections, and the tasks whose code some runner has started
    toRunner, toBroker, executed

requesterVars == <<job, taskIdOf>>
matchVars == <<pendingTaskOffers, pendingTaskRequests, acceptInProgress, attempts>>
brokerVars == <<knownRunners, matchVars, tasks, isDraining>>
runnerVars == <<process, canSendOffers, runnerDraining, openOffers, runningTasks, executed>>
brokerAllVars == <<brokerVars, requesterVars>>
vars == <<brokerAllVars, runnerVars, toRunner, toBroker>>

AcceptStates == {"pending", "closed"}
JobStates == {"idle", "requested", "started", "expired", "done", "error", "cancelled"}
TaskStatuses == {"none", "waitingForSettings", "running",
                 "aborting:timeout", "aborting:cancelled"}

BrokerInit ==
    /\ knownRunners = {}
    /\ pendingTaskOffers = <<>>
    /\ pendingTaskRequests = <<>>
    /\ acceptInProgress = {}
    /\ attempts = <<>>
    /\ tasks = {}
    /\ isDraining = FALSE
    /\ job = [r \in Requests |-> "idle"]
    /\ taskIdOf = [r \in Requests |-> NoTask]
    /\ process = [n \in Runners |-> "new"]
    /\ canSendOffers = [n \in Runners |-> FALSE]
    /\ runnerDraining = [n \in Runners |-> FALSE]
    /\ openOffers = [n \in Runners |-> {}]
    /\ runningTasks = [n \in Runners |-> [t \in Tasks |-> "none"]]
    /\ toRunner = [n \in Runners |-> <<>>]
    /\ toBroker = [n \in Runners |-> <<>>]
    /\ executed = {}

Msg(type, t) == [type |-> type, task |-> t, offer |-> "none"]
OfferMsg(type, o, t) == [type |-> type, task |-> t, offer |-> o]

\* messageRunner: a message for a runner that is gone is lost.
ToRunner(n, m) ==
    IF n \in knownRunners /\ process[n] = "up"
    THEN [toRunner EXCEPT ![n] = Append(@, m)] ELSE toRunner

-----------------------------------------------------------------------------
(* TaskBroker: matching offers with requests *)

\* The positions of the offers that earlier turns of the loop have left for request j.
Fits(requests, offers, valid, took, j) ==
    {i \in valid : /\ TypeOf[offers[i].runner] = TypeOf[requests[j]]
                   /\ \A k \in 1 .. (j - 1) : took[k] # i}

\* The turn of request j in the loop of settleTasks: the first offer that fits,
\* or 0.  There are no turns left once the task ids are used up.
Turn(requests, offers, valid, took, j) ==
    LET fits == Fits(requests, offers, valid, took, j)
        used == Len(attempts) + Cardinality({k \in 1 .. (j - 1) : took[k] # 0})
    IN  IF requests[j] \in acceptInProgress \/ fits = {} \/ used >= MaxTasks
        THEN took[j] = 0
        ELSE took[j] \in fits /\ \A i \in fits : took[j] <= i

(***************************************************************************)
(* settleTasks: offers past their validity go, then every request that has *)
(* no acceptance in progress takes the first offer of its type, and the    *)
(* runner is asked to accept.  took[j] is the offer that request j takes.  *)
(***************************************************************************)
SettleTasks(requests, offers) ==
    \E valid \in SUBSET DOMAIN offers :
    \E took \in [DOMAIN requests -> valid \cup {0}] :
        LET matched == {j \in DOMAIN requests : took[j] # 0}
            runner(j) == offers[took[j]].runner
            task(j) == Len(attempts) + Cardinality({k \in matched : k <= j})
        IN  /\ \A j \in DOMAIN requests : Turn(requests, offers, valid, took, j)
            /\ pendingTaskRequests' = requests
            /\ pendingTaskOffers' = AtPositions(offers, valid \ {took[j] : j \in matched})
            /\ attempts' = attempts \o AtPositions(
                 [j \in DOMAIN requests |->
                    [request |-> requests[j], runner |-> runner(j), state |-> "pending"]], matched)
            /\ acceptInProgress' = acceptInProgress \cup {requests[j] : j \in matched}
            /\ toRunner' = [n \in Runners |-> IF process[n] # "up" THEN toRunner[n]
                 ELSE toRunner[n] \o AtPositions(
                    [j \in DOMAIN requests |->
                       OfferMsg("taskofferaccept", offers[took[j]].offer, task(j))],
                    {j \in matched : runner(j) = n})]

\* The catch block of acceptOffer: the request may be matched again.
GiveUp(t) ==
    /\ attempts' = [attempts EXCEPT ![t].state = "closed"]
    /\ acceptInProgress' = acceptInProgress \ {attempts[t].request}

\* failTask, taskDoneHandler and taskErrorHandler: what the requester does
Answer(ts, result) ==
    /\ tasks' = tasks \ ts
    /\ job' = [r \in Requests |->
                 IF job[r] = "started" /\ taskIdOf[r] \in ts THEN result ELSE job[r]]
    /\ UNCHANGED taskIdOf

\* These runner processes end, and their memory with them.
Exit(ns) ==
    /\ process' = [n \in Runners |-> IF n \in ns THEN "gone" ELSE process[n]]
    /\ canSendOffers' = [n \in Runners |-> canSendOffers[n] /\ n \notin ns]
    /\ runnerDraining' = [n \in Runners |-> runnerDraining[n] /\ n \notin ns]
    /\ openOffers' = [n \in Runners |-> IF n \in ns THEN {} ELSE openOffers[n]]
    /\ runningTasks' = [n \in Runners |->
         IF n \in ns THEN [t \in Tasks |-> "none"] ELSE runningTasks[n]]
    /\ toRunner' = [n \in Runners |-> IF n \in ns THEN <<>> ELSE toRunner[n]]

-----------------------------------------------------------------------------
(* TaskRequester, with the broker handlers that it calls *)

\* startTask -> taskRequested
StartTask(r) ==
    /\ job[r] = "idle"
    /\ \/ /\ isDraining
          /\ job' = [job EXCEPT ![r] = "expired"]
          /\ UNCHANGED <<brokerVars, toRunner>>
       \/ /\ ~isDraining
          /\ job' = [job EXCEPT ![r] = "requested"]
          /\ SettleTasks(Append(pendingTaskRequests, r), pendingTaskOffers)
          /\ UNCHANGED <<knownRunners, tasks, isDraining>>
    /\ UNCHANGED <<taskIdOf, runnerVars, toBroker>>

\* The request is spliced out of the pending ones.
Withdraw(r) ==
    \E i \in DOMAIN pendingTaskRequests :
        /\ pendingTaskRequests[i] = r
        /\ pendingTaskRequests' = RemoveAt(pendingTaskRequests, i)

\* handleRequestTimeout, also while an acceptance is in progress
RequestTimeout(r) ==
    /\ Withdraw(r)
    /\ acceptInProgress' = acceptInProgress \ {r}
    /\ job' = [job EXCEPT ![r] = IF @ = "requested" THEN "expired" ELSE @]
    /\ UNCHANGED <<knownRunners, pendingTaskOffers, attempts, tasks,
                   isDraining, taskIdOf, runnerVars, toRunner, toBroker>>

\* cancelTasks -> cancelTask; it finds no task while the request is pending.
CancelTask(r) ==
    LET t == taskIdOf[r] IN
    /\ job[r] = "started"
    /\ job' = [job EXCEPT ![r] = "cancelled"]
    /\ IF t \in tasks
       THEN /\ tasks' = tasks \ {t}
            /\ toRunner' = ToRunner(attempts[t].runner, Msg("taskcancel", t))
       ELSE UNCHANGED <<tasks, toRunner>>
    /\ UNCHANGED <<knownRunners, matchVars, isDraining, taskIdOf, runnerVars, toBroker>>

-----------------------------------------------------------------------------
(* TaskBroker: connections *)

\* add and registerRunner, once the runner has introduced itself
RegisterRunner(n) ==
    /\ process[n] = "new"
    /\ process' = [process EXCEPT ![n] = "up"]
    /\ knownRunners' = knownRunners \cup {n}
    /\ toRunner' = [toRunner EXCEPT ![n] = <<Msg("runnerregistered", NoTask)>>]
    /\ UNCHANGED <<matchVars, tasks, isDraining, requesterVars, canSendOffers,
                   runnerDraining, openOffers, runningTasks, executed, toBroker>>

ForgetOffers(n) ==
    pendingTaskOffers' = AtPositions(pendingTaskOffers,
        {i \in DOMAIN pendingTaskOffers : pendingTaskOffers[i].runner # n})

\* Mutant: the offers of the runner stay.
DeregisterRunnerKeepsOffers(n) ==
    /\ n \in knownRunners
    /\ knownRunners' = knownRunners \ {n}
    /\ Answer({t \in tasks : attempts[t].runner = n}, "error")
    /\ toBroker' = [toBroker EXCEPT ![n] = <<>>]
    /\ UNCHANGED <<matchVars, isDraining, runnerVars, toRunner>>

\* Mutant: the tasks of the runner are forgotten without telling the requester.
DeregisterRunnerSilently(n) ==
    /\ n \in knownRunners
    /\ knownRunners' = knownRunners \ {n}
    /\ ForgetOffers(n)
    /\ tasks' = {t \in tasks : attempts[t].runner # n}
    /\ toBroker' = [toBroker EXCEPT ![n] = <<>>]
    /\ UNCHANGED <<pendingTaskRequests, acceptInProgress, attempts, isDraining,
                   requesterVars, runnerVars, toRunner>>

(***************************************************************************)
(* removeConnection -> deregisterRunner: the connection closed, a          *)
(* heartbeat was missed, or the broker stops.  Acceptances in progress are *)
(* left to their timeout.                                                  *)
(***************************************************************************)
DeregisterRunner(n) ==
    /\ n \in knownRunners
    /\ knownRunners' = knownRunners \ {n}
    /\ ForgetOffers(n)
    /\ Answer({t \in tasks : attempts[t].runner = n}, "error")
    /\ toBroker' = [toBroker EXCEPT ![n] = <<>>]
    /\ UNCHANGED <<pendingTaskRequests, acceptInProgress, attempts, isDraining,
                   runnerVars, toRunner>>

\* drainActiveTasks: no new requests, and the runners are told.
StartDraining ==
    /\ ~isDraining
    /\ isDraining' = TRUE
    /\ toRunner' = [n \in Runners |-> ToRunner(n, Msg("drain", NoTask))[n]]
    /\ UNCHANGED <<knownRunners, matchVars, tasks, requesterVars, runnerVars, toBroker>>

-----------------------------------------------------------------------------
(* TaskBroker: onRunnerMessage *)

\* The next message from runner n has one of these types.
FromRunner(n, types) ==
    /\ toBroker[n] # <<>>
    /\ Head(toBroker[n]).type \in types
    /\ toBroker' = [toBroker EXCEPT ![n] = Tail(@)]

\* taskOffered
TaskOffered(n) ==
    /\ FromRunner(n, {"taskoffer"})
    /\ n \in knownRunners
    /\ SettleTasks(pendingTaskRequests,
          Append(pendingTaskOffers, [runner |-> n, offer |-> Head(toBroker[n]).offer]))
    /\ UNCHANGED <<knownRunners, tasks, isDraining, requesterVars, runnerVars>>

\* Mutant: every acceptance gets the settings, without looking at its promise
\* or for its request.
RunnerAcceptsAlways(n) ==
    LET t == Head(toBroker[n]).task
        r == attempts[t].request
    IN
    /\ FromRunner(n, {"taskaccepted"})
    /\ n \in knownRunners
    /\ attempts' = [attempts EXCEPT ![t].state = "closed"]
    /\ tasks' = tasks \cup {t}
    /\ pendingTaskRequests' = SelectSeq(pendingTaskRequests, LAMBDA q : q # r)
    /\ job' = [job EXCEPT ![r] = IF @ = "requested" THEN "started" ELSE @]
    /\ taskIdOf' = [taskIdOf EXCEPT ![r] = t]
    /\ toRunner' = ToRunner(n, Msg("tasksettings", t))
    /\ UNCHANGED <<knownRunners, pendingTaskOffers, acceptInProgress, isDraining, runnerVars>>

(***************************************************************************)
(* handleRunnerAccept, the rest of acceptOffer, taskReady and the          *)
(* continuation of startTask, which sends the settings that                *)
(* sendTaskSettings passes on.  When the request has expired meanwhile the *)
(* broker logs "This shouldn't happen" and keeps the task.                 *)
(***************************************************************************)
RunnerAccepts(n) ==
    LET t == Head(toBroker[n]).task
        r == attempts[t].request
    IN
    /\ FromRunner(n, {"taskaccepted"})
    /\ n \in knownRunners
    /\ attempts' = [attempts EXCEPT ![t].state = "closed"]
    /\ \/ /\ attempts[t].state # "pending"
          /\ UNCHANGED <<pendingTaskRequests, acceptInProgress, tasks, requesterVars, toRunner>>
       \/ /\ attempts[t].state = "pending" /\ r \notin ToSet(pendingTaskRequests)
          /\ tasks' = tasks \cup {t}
          /\ UNCHANGED <<pendingTaskRequests, acceptInProgress, requesterVars, toRunner>>
       \/ /\ attempts[t].state = "pending"
          /\ Withdraw(r)
          /\ tasks' = tasks \cup {t}
          /\ acceptInProgress' = acceptInProgress \ {r}
          /\ job' = [job EXCEPT ![r] = "started"]
          /\ taskIdOf' = [taskIdOf EXCEPT ![r] = t]
          /\ toRunner' = ToRunner(n, Msg("tasksettings", t))
    /\ UNCHANGED <<knownRunners, pendingTaskOffers, isDraining, runnerVars>>

\* handleRunnerReject and handleRunnerDeferred
RunnerRejects(n) ==
    LET t == Head(toBroker[n]).task IN
    /\ FromRunner(n, {"taskrejected"})
    /\ n \in knownRunners
    /\ IF attempts[t].state = "pending" THEN GiveUp(t)
       ELSE UNCHANGED <<attempts, acceptInProgress>>
    /\ UNCHANGED <<knownRunners, pendingTaskOffers, pendingTaskRequests, tasks, isDraining,
                   requesterVars, runnerVars, toRunner>>

\* taskDoneHandler and taskErrorHandler, which ignore a task they do not know
TaskResult(n) ==
    LET m == Head(toBroker[n]) IN
    /\ FromRunner(n, {"taskdone", "taskerror"})
    /\ n \in knownRunners
    /\ Answer({m.task} \cap tasks, IF m.type = "taskdone" THEN "done" ELSE "error")
    /\ UNCHANGED <<knownRunners, matchVars, isDraining, runnerVars, toRunner>>

\* Whatever a runner that is no longer known sends is ignored.
IgnoreMessage(n) ==
    /\ n \notin knownRunners
    /\ FromRunner(n, {"taskoffer", "taskaccepted", "taskrejected", "taskdone", "taskerror"})
    /\ UNCHANGED <<brokerAllVars, runnerVars, toRunner>>

\* The two seconds acceptOffer waits are over.
AcceptTimeout(t) ==
    /\ t \in DOMAIN attempts /\ attempts[t].state = "pending"
    /\ GiveUp(t)
    /\ UNCHANGED <<knownRunners, pendingTaskOffers, pendingTaskRequests, tasks, isDraining,
                   requesterVars, runnerVars, toRunner, toBroker>>

(***************************************************************************)
(* handleTaskTimeout, armed by sendTaskSettings and so for no task whose   *)
(* request had expired.  In internal mode every runner process listens to  *)
(* the event and is killed; in external mode the runner is told to cancel. *)
(***************************************************************************)
TaskTimeout(t) ==
    /\ t \in tasks /\ taskIdOf[attempts[t].request] = t
    /\ Answer({t}, "error")
    /\ IF RunnerMode = "internal"
       THEN Exit({n \in Runners : process[n] = "up"})
       ELSE /\ toRunner' = ToRunner(attempts[t].runner, Msg("taskcancel", t))
            /\ UNCHANGED <<process, canSendOffers, runnerDraining, openOffers, runningTasks>>
    /\ UNCHANGED <<knownRunners, matchVars, isDraining, executed, toBroker>>

-----------------------------------------------------------------------------
(* TaskRunner *)

RunningOn(n) == {t \in Tasks : runningTasks[n][t] # "none"}

\* The offer ids of n that nobody remembers: nanoid gives fresh ones.
FreshOffers(n) == Offers \ (openOffers[n]
    \cup {o.offer : o \in {p \in ToSet(pendingTaskOffers) : p.runner = n}}
    \cup {m.offer : m \in ToSet(toBroker[n]) \cup ToSet(toRunner[n])})

\* Mutant: the running tasks are not counted.
SendThenOfferUncounted(n, msgs, running) ==
    LET new == CHOOSE S \in SUBSET FreshOffers(n) :
                 Cardinality(S) = MaxConcurrency - Cardinality(openOffers[n])
        offers == SetToSeq(new)
    IN  /\ openOffers[n] = {} /\ Cardinality(FreshOffers(n)) >= MaxConcurrency
        /\ openOffers' = [openOffers EXCEPT ![n] = @ \cup new]
        /\ toBroker' = [toBroker EXCEPT ![n] = @ \o msgs \o
             [i \in DOMAIN offers |-> OfferMsg("taskoffer", offers[i], NoTask)]]

(***************************************************************************)
(* The messages msgs go out, then sendOffers runs: stale offers are        *)
(* forgotten, and every slot that neither an offer nor one of the running  *)
(* tasks takes is offered.                                                 *)
(***************************************************************************)
SendThenOffer(n, msgs, running) ==
    \E stale \in SUBSET openOffers[n], new \in SUBSET FreshOffers(n) :
        LET open == openOffers[n] \ stale
            slots == MaxConcurrency - (Cardinality(open) + Cardinality(running))
            offers == SetToSeq(new)
        IN  /\ IF canSendOffers[n] /\ slots > 0
               THEN Cardinality(new) = Min({slots, Cardinality(FreshOffers(n))})
               ELSE new = {}
            /\ openOffers' = [openOffers EXCEPT ![n] = open \cup new]
            /\ toBroker' = [toBroker EXCEPT ![n] = @ \o msgs \o
                 [i \in DOMAIN offers |-> OfferMsg("taskoffer", offers[i], NoTask)]]

\* finishTask, after the message that reports the end
FinishTask(n, t, msgs) ==
    /\ runningTasks' = [runningTasks EXCEPT ![n][t] = "none"]
    /\ SendThenOffer(n, msgs, RunningOn(n) \ {t})

\* The interval of startTaskOffers
SendOffers(n) ==
    /\ process[n] = "up" /\ canSendOffers[n]
    /\ SendThenOffer(n, <<>>, RunningOn(n))
    /\ openOffers' # openOffers
    /\ UNCHANGED <<brokerAllVars, process, canSendOffers, runnerDraining, runningTasks,
                   executed, toRunner>>

\* The next message to runner n has this type.
FromBroker(n, type) ==
    /\ process[n] = "up" /\ toRunner[n] # <<>>
    /\ Head(toRunner[n]).type = type
    /\ toRunner' = [toRunner EXCEPT ![n] = Tail(@)]

\* broker:runnerregistered
StartTaskOffers(n) ==
    /\ FromBroker(n, "runnerregistered")
    /\ canSendOffers' = [canSendOffers EXCEPT ![n] = TRUE]
    /\ UNCHANGED <<brokerAllVars, process, runnerDraining, openOffers, runningTasks,
                   executed, toBroker>>

\* offerAccepted
OfferAccepted(n) ==
    LET m == Head(toRunner[n])
        refused == runnerDraining[n] \/ Cardinality(RunningOn(n)) >= MaxConcurrency
                   \/ m.offer \notin openOffers[n]
    IN
    /\ FromBroker(n, "taskofferaccept")
    /\ openOffers' = [openOffers EXCEPT ![n] = IF runnerDraining[n] THEN @ ELSE @ \ {m.offer}]
    /\ runningTasks' = IF refused THEN runningTasks
                       ELSE [runningTasks EXCEPT ![n][m.task] = "waitingForSettings"]
    /\ toBroker' = [toBroker EXCEPT ![n] =
         Append(@, Msg(IF refused THEN "taskrejected" ELSE "taskaccepted", m.task))]
    /\ UNCHANGED <<brokerAllVars, process, canSendOffers, runnerDraining, executed>>

\* taskCancelled
TaskCancelled(n) ==
    LET t == Head(toRunner[n]).task
        status == runningTasks[n][t]
    IN
    /\ FromBroker(n, "taskcancel")
    /\ \/ status = "waitingForSettings" /\ FinishTask(n, t, <<>>)
       \/ /\ status = "running"
          /\ runningTasks' = [runningTasks EXCEPT ![n][t] = "aborting:cancelled"]
          /\ UNCHANGED <<openOffers, toBroker>>
       \/ /\ status \in {"none", "aborting:timeout", "aborting:cancelled"}
          /\ UNCHANGED <<runningTasks, openOffers, toBroker>>
    /\ UNCHANGED <<brokerAllVars, process, canSendOffers, runnerDraining, executed>>

\* receivedSettings
ReceivedSettings(n) ==
    LET t == Head(toRunner[n]).task IN
    /\ FromBroker(n, "tasksettings")
    /\ IF runningTasks[n][t] = "waitingForSettings"
       THEN /\ runningTasks' = [runningTasks EXCEPT ![n][t] = "running"]
            /\ executed' = executed \cup {t}
       ELSE UNCHANGED <<runningTasks, executed>>
    /\ UNCHANGED <<brokerAllVars, process, canSendOffers, runnerDraining, openOffers, toBroker>>

\* taskExecutionSucceeded and taskExecutionFailed
TaskEnds(n, t) ==
    /\ process[n] = "up"
    /\ \/ /\ runningTasks[n][t] \in {"running", "aborting:timeout"}
          /\ \E type \in {"taskdone", "taskerror"} : FinishTask(n, t, <<Msg(type, t)>>)
       \/ /\ runningTasks[n][t] = "aborting:cancelled"
          /\ FinishTask(n, t, <<>>)
    /\ UNCHANGED <<brokerAllVars, process, canSendOffers, runnerDraining, executed, toRunner>>

\* Mutant: a task that still waits for its settings ends without a word.
TaskTimedOutSilently(n, t) ==
    /\ process[n] = "up" /\ runningTasks[n][t] = "waitingForSettings"
    /\ FinishTask(n, t, <<>>)
    /\ UNCHANGED <<brokerAllVars, process, canSendOffers, runnerDraining, executed, toRunner>>

\* Mutant: a task that still waits for its settings is aborted but kept.
TaskTimedOutKept(n, t) ==
    /\ process[n] = "up" /\ runningTasks[n][t] \in {"waitingForSettings", "running"}
    /\ runningTasks' = [runningTasks EXCEPT ![n][t] = "aborting:timeout"]
    /\ UNCHANGED <<brokerAllVars, process, canSendOffers, runnerDraining, openOffers,
                   executed, toRunner, toBroker>>

\* Mutant: the timer is armed only when the execution starts.
TaskTimedOutRunningOnly(n, t) ==
    /\ process[n] = "up" /\ runningTasks[n][t] = "running"
    /\ runningTasks' = [runningTasks EXCEPT ![n][t] = "aborting:timeout"]
    /\ UNCHANGED <<brokerAllVars, process, canSendOffers, runnerDraining, openOffers,
                   executed, toRunner, toBroker>>

\* taskTimedOut
TaskTimedOut(n, t) ==
    /\ process[n] = "up"
    /\ \/ /\ runningTasks[n][t] = "waitingForSettings"
          /\ FinishTask(n, t, <<Msg("taskerror", t)>>)
       \/ /\ runningTasks[n][t] = "running"
          /\ runningTasks' = [runningTasks EXCEPT ![n][t] = "aborting:timeout"]
          /\ UNCHANGED <<openOffers, toBroker>>
    /\ UNCHANGED <<brokerAllVars, process, canSendOffers, runnerDraining, executed, toRunner>>

\* broker:drain
OnBrokerDrain(n) ==
    /\ FromBroker(n, "drain")
    /\ runnerDraining' = [runnerDraining EXCEPT ![n] = TRUE]
    /\ canSendOffers' = [canSendOffers EXCEPT ![n] = FALSE]
    /\ UNCHANGED <<brokerAllVars, process, openOffers, runningTasks, executed, toBroker>>

\* stop, once its grace wait is over
StopRunner(n) ==
    /\ process[n] = "up" /\ (~runnerDraining[n] \/ openOffers[n] # {})
    /\ runnerDraining' = [runnerDraining EXCEPT ![n] = TRUE]
    /\ canSendOffers' = [canSendOffers EXCEPT ![n] = FALSE]
    /\ openOffers' = [openOffers EXCEPT ![n] = {}]
    /\ UNCHANGED <<brokerAllVars, process, runningTasks, executed, toRunner, toBroker>>

\* The runner exits: stop has closed the connection, the broker has, or it crashed.
RunnerExits(n) ==
    /\ process[n] = "up"
    /\ Exit({n})
    /\ UNCHANGED <<brokerAllVars, executed, toBroker>>

-----------------------------------------------------------------------------
RequesterStep(r) == StartTask(r) \/ CancelTask(r) \/ RequestTimeout(r)

OnRunnerMessage(n) ==
    TaskOffered(n) \/ RunnerAccepts(n) \/ RunnerRejects(n) \/ TaskResult(n) \/ IgnoreMessage(n)

OnMessage(n) ==
    \/ StartTaskOffers(n) \/ OfferAccepted(n) \/ TaskCancelled(n)
    \/ ReceivedSettings(n) \/ OnBrokerDrain(n)

BrokerNext ==
    \/ \E r \in Requests : RequesterStep(r)
    \/ \E n \in Runners :
          \/ RegisterRunner(n) \/ DeregisterRunner(n) \/ OnRunnerMessage(n)
          \/ OnMessage(n) \/ SendOffers(n) \/ StopRunner(n) \/ RunnerExits(n)
          \/ \E t \in Tasks : TaskEnds(n, t) \/ TaskTimedOut(n, t)
    \/ \E t \in Tasks : AcceptTimeout(t) \/ TaskTimeout(t)
    \/ StartDraining

BrokerSpec == BrokerInit /\ [][BrokerNext]_vars

(***************************************************************************)
(* Timers that are armed fire, messages are handled, a connection whose    *)
(* runner is gone closes, and the code of a task ends or is aborted.       *)
(* Nobody has to request, offer, connect, cancel or stop.                  *)
(***************************************************************************)
BrokerFairness ==
    /\ \A r \in Requests : WF_vars(RequestTimeout(r))
    /\ \A t \in Tasks : WF_vars(AcceptTimeout(t)) /\ WF_vars(TaskTimeout(t))
    /\ \A n \in Runners :
          /\ WF_vars(OnRunnerMessage(n))
          /\ WF_vars(OnMessage(n))
          /\ WF_vars(process[n] = "gone" /\ DeregisterRunner(n))
          /\ \A t \in Tasks : WF_vars(TaskEnds(n, t)) /\ WF_vars(TaskTimedOut(n, t))

FairBrokerSpec == BrokerSpec /\ BrokerFairness

-----------------------------------------------------------------------------
(* Properties *)

\* Types, and that the broker keeps offers of connected runners only.
BrokerTypeOK ==
    /\ knownRunners \in SUBSET Runners
    /\ ToSet(pendingTaskOffers) \subseteq [runner : knownRunners, offer : Offers]
    /\ ToSet(pendingTaskRequests) \subseteq Requests
    /\ acceptInProgress \in SUBSET Requests
    /\ Len(attempts) <= MaxTasks
    /\ ToSet(attempts) \subseteq [request : Requests, runner : Runners,
                                  state : AcceptStates]
    /\ tasks \in SUBSET DOMAIN attempts
    /\ isDraining \in BOOLEAN
    /\ job \in [Requests -> JobStates]
    /\ taskIdOf \in [Requests -> Tasks \cup {NoTask}]
    /\ process \in [Runners -> {"new", "up", "gone"}]
    /\ canSendOffers \in [Runners -> BOOLEAN]
    /\ runnerDraining \in [Runners -> BOOLEAN]
    /\ openOffers \in [Runners -> SUBSET Offers]
    /\ runningTasks \in [Runners -> [Tasks -> TaskStatuses]]
    /\ executed \in SUBSET Tasks

(***************************************************************************)
(* A runner never promises more than it has: the offers it still honours   *)
(* and the tasks it runs fit in maxConcurrency, so accepting every open    *)
(* offer at once cannot overload it.                                       *)
(***************************************************************************)
RunnerWithinCapacity ==
    \A n \in Runners :
        Cardinality(openOffers[n]) + Cardinality(RunningOn(n)) <= MaxConcurrency

(***************************************************************************)
(* Every waiting caller of startTask is owed an answer: the broker still   *)
(* has its request, or tracks the task that it was given.                  *)
(***************************************************************************)
JobIsOwed ==
    \A r \in Requests :
        /\ job[r] = "requested" => r \in ToSet(pendingTaskRequests)
        /\ job[r] = "started" => taskIdOf[r] \in tasks

(***************************************************************************)
(* Broker and runner agree: a task the broker tracks on a runner that is   *)
(* up is in that runner's runningTasks and not cancelled there, or its     *)
(* result is already under way.                                            *)
(***************************************************************************)
BrokerTaskIsBacked ==
    \A t \in tasks :
        LET n == attempts[t].runner IN
        process[n] = "up" =>
            \/ runningTasks[n][t] \in {"waitingForSettings", "running", "aborting:timeout"}
            \/ \E m \in ToSet(toBroker[n]) : m.task = t /\ m.type \in {"taskdone", "taskerror"}

(***************************************************************************)
(* What receivedSettings says of the other states: "These states should    *)
(* never happen".  Settings reach a runner while the task still waits for  *)
(* them, or after the task is gone.                                        *)
(***************************************************************************)
SettingsExpected ==
    \A n \in Runners : \A m \in ToSet(toRunner[n]) :
        m.type = "tasksettings" => runningTasks[n][m.task] \in {"waitingForSettings", "none"}

(***************************************************************************)
(* Broker, requester and runners together keep the contract of startTask,  *)
(* whatever times out, is retried with another runner or answers late: the *)
(* caller sees job, and the runners have started the code of a request as  *)
(* often as there are executed tasks made for it.                          *)
(***************************************************************************)
Contract == INSTANCE TaskContract WITH
    status <- job,
    runs <- [r \in Requests |-> Cardinality({t \in executed : attempts[t].request = r})]

\* startTask keeps its contract in every step of broker, requester and runners.
KeepsContract == Contract!ContractSpec

(***************************************************************************)
(* Every call of startTask ends, whatever becomes of the runner.           *)
(***************************************************************************)
EveryJobSettles ==
    \A r \in Requests :
        job[r] = "requested" ~> job[r] \in {"expired", "done", "error", "cancelled"}

(***************************************************************************)
(* No slot of a runner is lost: a task it has taken leaves runningTasks,   *)
(* also when the broker has long forgotten it (its acceptance came too     *)
(* late, or its request had expired).                                      *)
(***************************************************************************)
RunnerSlotFreed ==
    \A n \in Runners, t \in Tasks :
        runningTasks[n][t] # "none" ~> runningTasks[n][t] = "none"
=============================================================================
