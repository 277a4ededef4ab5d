-------------------------- MODULE PublicationOutbox --------------------------
(***************************************************************************)
(* The workflow publication outbox: publishing a workflow writes its new   *)
(* version and a row of the outbox in one transaction; the leader claims   *)
(* rows and brings its in-memory triggers to the version of each.          *)
(*                                                                         *)
(* The leader's drain (claim, lock, apply, report), the teardown loop of   *)
(* leader-stepdown, the handler of leader-takeover and the recovery of a   *)
(* failed trigger run interleaved on one main; several mains share the     *)
(* tables.  At most one main leads (LeaderElection: as long as no lease    *)
(* lapses), and leadership changes at any moment.                          *)
(*                                                                         *)
(* Every version of a workflow has one trigger, the same node with other   *)
(* parameters, registered in the memory of a main.  Versions are numbered  *)
(* in the order of their publication, 0 is none.  Webhooks are rows of the *)
(* database and are left out.  Terminal rows of the outbox are dropped:    *)
(* nothing reads them.                                                     *)
(***************************************************************************)
EXTENDS Naturals, FiniteSets, SequencesExt

CONSTANTS
    Hosts,        \* main instances
    NoHost,
    Workflows,
    NoWorkflow,
    MaxChanges,   \* bound: how often users publish or unpublish
    MaxTerms,     \* bound: takeovers
    MaxFaults     \* bound: failures, overrun leases, timeouts and crashes

ASSUME OutboxAssumption ==
    /\ NoHost \notin Hosts
    /\ NoWorkflow \notin Workflows
    /\ {MaxChanges, MaxTerms, MaxFaults} \subseteq Nat

Versions == 0 .. MaxChanges
Terms == 1 .. MaxTerms

\* Who may hold the lifecycle lock of a workflow on a main: its drain, or the
\* teardown loop that the stepdown of a term has started.
Drain == 0
LockOwners == Terms \cup {Drain}

DrainSteps == {"idle", "claimed", "waiting", "resolve", "remove", "advance", "add",
               "removeAll", "unmap", "report"}
LoopSteps == {"idle", "locking", "forced"}

VARIABLES
    active,       \* active[w]: activeVersionId of workflow_entity
    latest,       \* latest[w]: the versions published so far
    published,    \* published[w]: workflow_published_version
    rows,         \* the pending and in-progress rows of the outbox
    nextId,       \* nextId[w]: rows are numbered per workflow
    leader,       \* the main that leads, or NoHost
    term,         \* number of takeovers so far
    led,          \* led[k]: the main that took over in term k
    taking,       \* taking[k]: the takeover handler of term k awaits its query
    polling,      \* polling[h]: isPolling
    drain,        \* drain[h]: the record its active drain works on
    lock,         \* lock[h][w]: holder and waiters of the lifecycle lock
    loop,         \* loop[k]: the teardown loop of the stepdown of term k
    registered,   \* registered[h][w]: the version whose trigger is registered
    recovering,   \* triggers that failed at run time and will be registered again
    changes,
    faults,
    amiss         \* history: what went wrong with a workflow on a main

tables == <<active, latest, published, rows, nextId, changes>>
leadership == <<leader, term, led, taking, polling>>
triggers == <<registered, recovering>>
poVars == <<tables, leadership, triggers, drain, lock, loop, faults, amiss>>

Row == [id : Nat, w : Workflows, v : Versions, status : {"pending", "in_progress"}]

NoDrain == [step |-> "idle", id |-> 0, w |-> NoWorkflow, v |-> 0, add |-> FALSE]
NoLoop == [step |-> "idle", at |-> NoWorkflow, todo |-> {}, second |-> FALSE]

(***************************************************************************)
(* failed: a trigger could not be removed or registered, which is reported *)
(* forced: a teardown that timed out went on without the lifecycle lock    *)
(* aborted: a teardown ended on the error of a trigger that did not close  *)
(* recovered: a trigger was registered again without the lifecycle lock    *)
(* regained: a teardown went on after its main had taken over again        *)
(* overrun: a row was claimed again while a main was still working on it   *)
(***************************************************************************)
Reasons == {"failed", "forced", "aborted", "recovered", "regained", "overrun"}

PubTypeOK ==
    /\ active \in [Workflows -> Versions]
    /\ latest \in [Workflows -> Versions]
    /\ published \in [Workflows -> Versions]
    /\ rows \subseteq Row
    /\ \A q, r \in rows : q.w = r.w /\ q.status = r.status => q = r
    /\ nextId \in [Workflows -> Nat]
    /\ leader \in Hosts \cup {NoHost}
    /\ term \in 0 .. MaxTerms
    /\ led \in [Terms -> Hosts \cup {NoHost}]
    /\ taking \in [Terms -> BOOLEAN]
    /\ polling \in [Hosts -> BOOLEAN]
    /\ drain \in [Hosts -> [step : DrainSteps, id : Nat, w : Workflows \cup {NoWorkflow},
                            v : Versions, add : BOOLEAN]]
    /\ lock \in [Hosts -> [Workflows -> Seq(LockOwners)]]
    /\ loop \in [Terms -> [step : LoopSteps, at : Workflows \cup {NoWorkflow},
                           todo : SUBSET Workflows, second : BOOLEAN]]
    /\ registered \in [Hosts -> [Workflows -> Versions]]
    /\ recovering \subseteq Hosts \X Workflows \X Versions
    /\ changes \in 0 .. MaxChanges
    /\ faults \in 0 .. MaxFaults
    /\ amiss \subseteq Hosts \X Workflows \X Reasons

PubInit ==
    /\ active = [w \in Workflows |-> 0]
    /\ latest = [w \in Workflows |-> 0]
    /\ published = [w \in Workflows |-> 0]
    /\ rows = {}
    /\ nextId = [w \in Workflows |-> 1]
    /\ leader = NoHost
    /\ term = 0
    /\ led = [k \in Terms |-> NoHost]
    /\ taking = [k \in Terms |-> FALSE]
    /\ polling = [h \in Hosts |-> FALSE]
    /\ drain = [h \in Hosts |-> NoDrain]
    /\ lock = [h \in Hosts |-> [w \in Workflows |-> <<>>]]
    /\ loop = [k \in Terms |-> NoLoop]
    /\ registered = [h \in Hosts |-> [w \in Workflows |-> 0]]
    /\ recovering = {}
    /\ changes = 0
    /\ faults = 0
    /\ amiss = {}

Fault == faults < MaxFaults /\ faults' = faults + 1

Blame(h, w, reason) == amiss' = amiss \cup {<<h, w, reason>>}

-----------------------------------------------------------------------------
(* The outbox table *)

RowsOf(w, s) == {r \in rows : r.w = w /\ r.status = s}

\* The upsert on the partial unique index: one pending row per workflow, whose
\* version is superseded in place.
Upserts(W, version) ==
    LET new == {w \in W : RowsOf(w, "pending") = {}}
    IN  /\ rows' = {IF r.status = "pending" /\ r.w \in W
                    THEN [r EXCEPT !.v = version[r.w]] ELSE r : r \in rows}
                   \cup {[id |-> nextId[w], w |-> w, v |-> version[w], status |-> "pending"]
                         : w \in new}
        /\ nextId' = [w \in Workflows |-> IF w \in new THEN nextId[w] + 1 ELSE nextId[w]]

Enqueue(w, v) == Upserts({w}, [x \in {w} |-> v])

EnqueueAllActive == Upserts({w \in Workflows : active[w] # 0}, active)

\* Mutant: a row is claimable although another one of its workflow is in progress.
UnblockedAlways == {r \in rows : r.status = "pending"}

\* Pending rows whose workflow has no row in progress.
Unblocked == {r \in rows : r.status = "pending" /\ RowsOf(r.w, "in_progress") = {}}

WorksOn(h, r) == drain[h].step # "idle" /\ drain[h].w = r.w /\ drain[h].id = r.id

\* Some main still works on the row.
Held(r) == \E h \in Hosts : WorksOn(h, r)

\* The row that h works on, if it is still in progress.
InProgressRow(h) == {r \in rows : WorksOn(h, r) /\ r.status = "in_progress"}

-----------------------------------------------------------------------------
(* Users *)

Change == changes < MaxChanges /\ changes' = changes + 1

\* _publishViaOutbox: the active version and the row, in one transaction.
Publish(w) ==
    /\ Change
    /\ latest' = [latest EXCEPT ![w] = @ + 1]
    /\ active' = [active EXCEPT ![w] = latest[w] + 1]
    /\ Enqueue(w, latest[w] + 1)
    /\ UNCHANGED <<published, leadership, triggers, drain, lock, loop, faults, amiss>>

\* _unpublishViaOutbox: the row names the version that was active.
Unpublish(w) ==
    /\ active[w] # 0
    /\ Change
    /\ active' = [active EXCEPT ![w] = 0]
    /\ Enqueue(w, active[w])
    /\ UNCHANGED <<latest, published, leadership, triggers, drain, lock, loop, faults, amiss>>

-----------------------------------------------------------------------------
(* Leadership *)

\* A loop goes on to its next workflow: those whose lock is free come first.
GoOn(k, h, todo, second, lk) ==
    LET free == {w \in todo : lk[w] = <<>>}
        next == IF free # {} /\ ~second THEN free ELSE todo
    IN  IF todo = {}
        THEN loop' = [loop EXCEPT ![k] = NoLoop] /\ lock' = [lock EXCEPT ![h] = lk]
        ELSE \E w \in next :
                /\ loop' = [loop EXCEPT ![k] =
                               [step |-> "locking", at |-> w, todo |-> todo \ {w},
                                second |-> second \/ free = {}]]
                /\ lock' = [lock EXCEPT ![h] = [lk EXCEPT ![w] = Append(@, k)]]

\* leader-takeover: enqueueOnLeaderTakeover sends its query.
Takeover(h) ==
    /\ leader = NoHost
    /\ term < MaxTerms
    /\ leader' = h
    /\ term' = term + 1
    /\ led' = [led EXCEPT ![term + 1] = h]
    /\ taking' = [taking EXCEPT ![term + 1] = TRUE]
    /\ UNCHANGED <<tables, triggers, polling, drain, lock, loop, faults, amiss>>

\* Mutant: the takeover enqueues, but does not start to poll.
EnqueueOnTakeoverOnly(k) ==
    /\ taking[k]
    /\ taking' = [taking EXCEPT ![k] = FALSE]
    /\ EnqueueAllActive
    /\ UNCHANGED <<active, latest, published, changes, leader, term, led, polling, triggers,
                   drain, lock, loop, faults, amiss>>

\* enqueueOnLeaderTakeover: the rows are written, polling starts, whoever leads now.
EnqueueOnTakeover(k) ==
    /\ taking[k]
    /\ taking' = [taking EXCEPT ![k] = FALSE]
    /\ EnqueueAllActive
    /\ polling' = [polling EXCEPT ![led[k]] = TRUE]
    /\ UNCHANGED <<active, latest, published, changes, leader, term, led, triggers,
                   drain, lock, loop, faults, amiss>>

\* The wake-up message, which only the leader acts on.
WakeUp(h) ==
    /\ leader = h
    /\ ~polling[h]
    /\ polling' = [polling EXCEPT ![h] = TRUE]
    /\ UNCHANGED <<tables, leader, term, led, taking, triggers, drain, lock, loop, faults, amiss>>

(***************************************************************************)
(* leader-stepdown: polling stops and deactivateAllNonWebhookTriggers runs *)
(* up to its first await.                                                  *)
(***************************************************************************)
Stepdown(h) ==
    /\ leader = h
    /\ leader' = NoHost
    /\ polling' = [polling EXCEPT ![h] = FALSE]
    /\ GoOn(term, h, {w \in Workflows : registered[h][w] # 0 \/ lock[h][w] # <<>>}, FALSE, lock[h])
    /\ UNCHANGED <<tables, term, led, taking, triggers, drain, faults, amiss>>

\* The timeout of runExclusiveOrTimeout: the waiter leaves the queue.
TeardownTimesOut(k) ==
    LET h == led[k]
        w == loop[k].at
    IN  /\ loop[k].step = "locking"
        /\ Head(lock[h][w]) # k
        /\ Fault
        /\ loop' = [loop EXCEPT ![k].step = "forced"]
        /\ \E i \in 2 .. Len(lock[h][w]) :
              /\ lock[h][w][i] = k
              /\ lock' = [lock EXCEPT ![h][w] = RemoveAt(@, i)]
        /\ Blame(h, w, "forced")
        /\ UNCHANGED <<tables, leadership, triggers, drain>>

\* remove() under the lock, or without it after the timeout; then the next workflow.
TeardownRemoves(k) ==
    LET h == led[k]
        w == loop[k].at
        locked == loop[k].step = "locking"
    IN  /\ loop[k].step # "idle"
        /\ locked => Head(lock[h][w]) = k
        /\ registered' = [registered EXCEPT ![h][w] = 0]
        /\ GoOn(k, h, loop[k].todo, loop[k].second,
                IF locked THEN [lock[h] EXCEPT ![w] = Tail(@)] ELSE lock[h])
        /\ IF leader = h THEN Blame(h, w, "regained") ELSE UNCHANGED amiss
        /\ UNCHANGED <<tables, leadership, recovering, drain, faults>>

(***************************************************************************)
(* A closeFunction throws anything but a TriggerCloseError: the trigger    *)
(* stays registered and the error leaves remove(), the lock, which is      *)
(* released, and the loop, which does not come to the workflows after it.  *)
(***************************************************************************)
TeardownFails(k) ==
    LET h == led[k]
        w == loop[k].at
        locked == loop[k].step = "locking"
    IN  /\ loop[k].step # "idle"
        /\ locked => Head(lock[h][w]) = k
        /\ registered[h][w] # 0
        /\ Fault
        /\ loop' = [loop EXCEPT ![k] = NoLoop]
        /\ lock' = IF locked THEN [lock EXCEPT ![h][w] = Tail(@)] ELSE lock
        /\ amiss' = amiss \cup {<<h, x, "aborted">> : x \in loop[k].todo \cup {w}}
        /\ UNCHANGED <<tables, leadership, triggers, drain>>

-----------------------------------------------------------------------------
(* The consumer *)

Go(h, step) == drain' = [drain EXCEPT ![h].step = step]

(***************************************************************************)
(* claimNextPendingRecord: a pending row whose workflow has none in        *)
(* progress, or a row in progress whose lease is over.  The lease of a row *)
(* that nobody works on runs out; that of a row at work only as a fault.   *)
(***************************************************************************)
ClaimNextPendingRecord(h) ==
    /\ polling[h]
    /\ drain[h].step = "idle"
    /\ \E r \in rows :
          /\ \/ /\ r \in Unblocked
                /\ UNCHANGED <<faults, amiss>>
             \/ /\ r.status = "in_progress"
                /\ ~Held(r)
                /\ UNCHANGED <<faults, amiss>>
             \/ /\ r.status = "in_progress"
                /\ Held(r)
                /\ Fault
                /\ amiss' = amiss \cup {<<i, r.w, "overrun">> : i \in Hosts}
          /\ rows' = (rows \ {r}) \cup {[r EXCEPT !.status = "in_progress"]}
          /\ drain' = [drain EXCEPT ![h] = [step |-> "claimed", id |-> r.id, w |-> r.w,
                                            v |-> r.v, add |-> FALSE]]
    /\ UNCHANGED <<active, latest, published, nextId, changes, leadership, triggers, lock, loop>>

\* processRecord asks for the lifecycle lock.
Acquire(h) ==
    /\ drain[h].step = "claimed"
    /\ Go(h, "waiting")
    /\ lock' = [lock EXCEPT ![h][drain[h].w] = Append(@, Drain)]
    /\ UNCHANGED <<tables, leadership, triggers, loop, faults, amiss>>

HasLock(h) == drain[h].step = "waiting" /\ Head(lock[h][drain[h].w]) = Drain

\* The drain is done with its record.
Release(h) ==
    /\ drain' = [drain EXCEPT ![h] = NoDrain]
    /\ lock' = [lock EXCEPT ![h][drain[h].w] = Tail(@)]

\* Mutant: leadership is not checked again under the lock.
EnterAlways(h) ==
    /\ HasLock(h)
    /\ Go(h, "resolve")
    /\ UNCHANGED <<tables, leadership, triggers, lock, loop, faults, amiss>>

\* The critical section of processRecord, on a main that still leads.
Enter(h) ==
    /\ HasLock(h)
    /\ leader = h
    /\ Go(h, "resolve")
    /\ UNCHANGED <<tables, leadership, triggers, lock, loop, faults, amiss>>

\* Mutant: the row is returned beside a newer pending one.
ReturnToPendingColliding(h) ==
    /\ HasLock(h)
    /\ leader # h
    /\ rows' = (rows \ InProgressRow(h)) \cup {[r EXCEPT !.status = "pending"] : r \in InProgressRow(h)}
    /\ Release(h)
    /\ UNCHANGED <<active, latest, published, nextId, changes, leadership, triggers, loop,
                   faults, amiss>>

\* Or no longer leads: the row goes back to the queue, unless a newer pending
\* row has taken its place.
ReturnToPending(h) ==
    /\ HasLock(h)
    /\ leader # h
    /\ rows' = (rows \ InProgressRow(h)) \cup
                  {[r EXCEPT !.status = "pending"] :
                      r \in {x \in InProgressRow(h) : RowsOf(x.w, "pending") = {}}}
    /\ Release(h)
    /\ UNCHANGED <<active, latest, published, nextId, changes, leadership, triggers, loop,
                   faults, amiss>>

\* Mutant: only what the diff lists is activated, registered or not.
ResolveDiffOnly(h) ==
    LET d == drain[h]
        old == published[d.w]
    IN  /\ d.step = "resolve"
        /\ drain' = [drain EXCEPT ![h] =
                        [d EXCEPT !.add = (old # d.v),
                                  !.step = IF active[d.w] = 0
                                           THEN IF old = 0 THEN "report" ELSE "removeAll"
                                           ELSE IF old \in {0, d.v} THEN "advance" ELSE "remove"]]
        /\ UNCHANGED <<tables, leadership, triggers, lock, loop, faults, amiss>>

(***************************************************************************)
(* apply: the versions are read, and the difference is taken between the   *)
(* published version and that of the record, plus what is missing locally. *)
(***************************************************************************)
Resolve(h) ==
    LET d == drain[h]
        old == published[d.w]
    IN  /\ d.step = "resolve"
        /\ drain' = [drain EXCEPT ![h] =
                        [d EXCEPT !.add = (old # d.v \/ registered[h][d.w] = 0),
                                  !.step = IF active[d.w] = 0
                                           THEN IF old = 0 THEN "report" ELSE "removeAll"
                                           ELSE IF old \in {0, d.v} THEN "advance" ELSE "remove"]]
        /\ UNCHANGED <<tables, leadership, triggers, lock, loop, faults, amiss>>

\* deactivate: the triggers of the published version.
Deactivate(h) ==
    /\ drain[h].step \in {"remove", "removeAll"}
    /\ registered' = [registered EXCEPT ![h][drain[h].w] = 0]
    /\ Go(h, IF drain[h].step = "remove" THEN "advance" ELSE "unmap")
    /\ UNCHANGED <<tables, leadership, recovering, lock, loop, faults, amiss>>

\* deactivate throws: the result is failed and the version is not advanced.
DeactivateFails(h) ==
    /\ drain[h].step \in {"remove", "removeAll"}
    /\ Fault
    /\ registered' \in {registered, [registered EXCEPT ![h][drain[h].w] = 0]}
    /\ Go(h, "report")
    /\ Blame(h, drain[h].w, "failed")
    /\ UNCHANGED <<tables, leadership, recovering, lock, loop>>

\* setPublishedVersion
AdvancePublishedVersion(h) ==
    /\ drain[h].step = "advance"
    /\ published' = [published EXCEPT ![drain[h].w] = drain[h].v]
    /\ Go(h, IF drain[h].add THEN "add" ELSE "report")
    /\ UNCHANGED <<active, latest, rows, nextId, changes, leadership, triggers, lock, loop,
                   faults, amiss>>

\* removePublishedVersion
RemovePublishedVersion(h) ==
    /\ drain[h].step = "unmap"
    /\ published' = [published EXCEPT ![drain[h].w] = 0]
    /\ Go(h, "report")
    /\ UNCHANGED <<active, latest, rows, nextId, changes, leadership, triggers, lock, loop,
                   faults, amiss>>

\* activate.  On the leader it makes up for what went wrong before.
Activate(h) ==
    LET w == drain[h].w
    IN  /\ drain[h].step = "add"
        /\ registered' = [registered EXCEPT ![h][w] = drain[h].v]
        /\ amiss' = IF leader # h THEN amiss
                    ELSE {a \in amiss : a[2] # w \/ a[3] = "overrun" \/ (a[1] # h /\ a[3] # "failed")}
        /\ Go(h, "report")
        /\ UNCHANGED <<tables, leadership, recovering, lock, loop, faults>>

\* activate gives up after its retries: failed, or partly successful.
ActivateFails(h) ==
    /\ drain[h].step = "add"
    /\ Fault
    /\ registered' = [registered EXCEPT ![h][drain[h].w] = 0]
    /\ Go(h, "report")
    /\ Blame(h, drain[h].w, "failed")
    /\ UNCHANGED <<tables, leadership, recovering, lock, loop>>

\* The terminal status of the row, if it is still in progress.
Report(h) ==
    /\ drain[h].step = "report"
    /\ rows' = rows \ InProgressRow(h)
    /\ Release(h)
    /\ UNCHANGED <<active, latest, published, nextId, changes, leadership, triggers, loop,
                   faults, amiss>>

\* The write fails: the row is left in progress for a later claim.
ReportFails(h) ==
    /\ drain[h].step = "report"
    /\ Fault
    /\ Release(h)
    /\ UNCHANGED <<tables, leadership, triggers, loop, amiss>>

-----------------------------------------------------------------------------
(* Triggers that fail, and mains that crash *)

\* onTriggerFailure: the trigger is deregistered and will be retried.
TriggerFails(h, w) ==
    /\ registered[h][w] # 0
    /\ Fault
    /\ recovering' = recovering \cup {<<h, w, registered[h][w]>>}
    /\ registered' = [registered EXCEPT ![h][w] = 0]
    /\ UNCHANGED <<tables, leadership, drain, lock, loop, amiss>>

\* recoverFromRuntimeTriggerFailure registers it again, without the lifecycle lock.
Reactivate(t) ==
    /\ t \in recovering
    /\ recovering' = recovering \ {t}
    /\ registered' = [registered EXCEPT ![t[1]][t[2]] = t[3]]
    /\ Blame(t[1], t[2], "recovered")
    /\ UNCHANGED <<tables, leadership, drain, lock, loop, faults>>

\* Or gives up after its retries.
ReactivateFails(t) ==
    /\ t \in recovering
    /\ recovering' = recovering \ {t}
    /\ Blame(t[1], t[2], "failed")
    /\ UNCHANGED <<tables, leadership, registered, drain, lock, loop, faults>>

\* The memory of a main is lost; it restarts as a follower.
Crash(h) ==
    /\ Fault
    /\ leader' = IF leader = h THEN NoHost ELSE leader
    /\ taking' = [k \in Terms |-> taking[k] /\ led[k] # h]
    /\ polling' = [polling EXCEPT ![h] = FALSE]
    /\ drain' = [drain EXCEPT ![h] = NoDrain]
    /\ lock' = [lock EXCEPT ![h] = [w \in Workflows |-> <<>>]]
    /\ loop' = [k \in Terms |-> IF led[k] = h THEN NoLoop ELSE loop[k]]
    /\ registered' = [registered EXCEPT ![h] = [w \in Workflows |-> 0]]
    /\ recovering' = {t \in recovering : t[1] # h}
    /\ amiss' = {a \in amiss : a[1] # h \/ a[3] \in {"failed", "overrun"}}
    /\ UNCHANGED <<tables, term, led>>

-----------------------------------------------------------------------------

DrainStep(h) ==
    \/ ClaimNextPendingRecord(h)
    \/ Acquire(h)
    \/ Enter(h)
    \/ ReturnToPending(h)
    \/ Resolve(h)
    \/ Deactivate(h)
    \/ AdvancePublishedVersion(h)
    \/ RemovePublishedVersion(h)
    \/ Activate(h)
    \/ Report(h)

FailStep(h) ==
    \/ DeactivateFails(h)
    \/ ActivateFails(h)
    \/ ReportFails(h)
    \/ Crash(h)
    \/ \E w \in Workflows : TriggerFails(h, w)

PubNext ==
    \/ \E w \in Workflows : Publish(w) \/ Unpublish(w)
    \/ \E h \in Hosts : Takeover(h) \/ WakeUp(h) \/ Stepdown(h) \/ DrainStep(h) \/ FailStep(h)
    \/ \E k \in Terms :
          EnqueueOnTakeover(k) \/ TeardownRemoves(k) \/ TeardownTimesOut(k) \/ TeardownFails(k)
    \/ \E t \in recovering : Reactivate(t) \/ ReactivateFails(t)

(***************************************************************************)
(* The database answers, timers poll, triggers close in the end and the    *)
(* retries of a failed trigger come to an end.  Nobody need publish, and   *)
(* leadership need not change.                                             *)
(***************************************************************************)
PubFairness ==
    /\ \A h \in Hosts : WF_poVars(DrainStep(h))
    /\ \A k \in Terms : WF_poVars(EnqueueOnTakeover(k)) /\ WF_poVars(TeardownRemoves(k))
    /\ WF_poVars(\E t \in recovering : Reactivate(t) \/ ReactivateFails(t))

PubSpec == PubInit /\ [][PubNext]_poVars /\ PubFairness

-----------------------------------------------------------------------------
(* Properties *)

\* A teardown loop of h has still to remove the triggers of w.
TeardownOwed(h, w) ==
    \E k \in Terms : led[k] = h /\ loop[k].step # "idle" /\ w \in loop[k].todo \cup {loop[k].at}

Excused(h, w, reasons) == \E x \in reasons : <<h, w, x>> \in amiss

(***************************************************************************)
(* The lifecycle lock does what its comment promises: a main that does not *)
(* lead has no trigger registered, except while its teardown has still to  *)
(* reach the workflow.  What can leave one behind is a teardown that timed *)
(* out, one that a trigger which did not close has ended before or at the  *)
(* workflow, and the recovery of a failed trigger, which does not take the *)
(* lock.                                                                   *)
(***************************************************************************)
DemotedIsQuiet ==
    \A h \in Hosts, w \in Workflows :
        leader # h /\ registered[h][w] # 0 =>
            TeardownOwed(h, w) \/ Excused(h, w, {"forced", "aborted", "recovered"})

\* Nothing is under way for w on the leader h.
Settled(h, w) ==
    /\ \A r \in rows : r.w # w
    /\ \A k \in Terms : led[k] = h => ~taking[k]
    /\ \A i \in Hosts : drain[i].step = "idle" \/ drain[i].w # w
    /\ ~TeardownOwed(h, w)
    /\ \A t \in recovering : t[1] # h \/ t[2] # w
    /\ \A a \in amiss : a[2] # w \/ (a[1] # h /\ a[3] \notin {"failed", "overrun"})

(***************************************************************************)
(* Whatever crashes, restarts, changes of leadership and superseded rows   *)
(* came before: when the queue is empty, the triggers of the leader, the   *)
(* published version and the version users asked for are the same.         *)
(***************************************************************************)
SettledIsPublished ==
    \A h \in Hosts, w \in Workflows :
        leader = h /\ Settled(h, w) =>
            registered[h][w] = active[w] /\ published[w] = active[w]

(***************************************************************************)
(* Records of a workflow are applied in the order of their publication,    *)
(* also when a row is returned, superseded, or claimed again after a crash *)
(* (but not when it is claimed again while a main is still at work on it). *)
(***************************************************************************)
PublishedInOrder ==
    [][\A w \in Workflows :
          published'[w] # 0 /\ (\A h \in Hosts : ~Excused(h, w, {"overrun"}))
              => published'[w] >= published[w]]_poVars

\* A main polls although it does not lead (its stepdown fell into the await of
\* its takeover handler): it claims rows and returns them, again and again.
FollowerPolls == \E h \in Hosts : polling[h] /\ leader # h

(***************************************************************************)
(* Nothing that was enqueued is forgotten: with a leader in charge the     *)
(* queue is drained in the end.  A follower that polls may keep a row from *)
(* the leader, one claim after the other.                                  *)
(***************************************************************************)
QueueDrains == <>[](leader # NoHost => rows = {} \/ FollowerPolls)

=============================================================================
