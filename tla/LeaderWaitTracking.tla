-------------------------- MODULE LeaderWaitTracking --------------------------
(***************************************************************************)
(* What leadership is for: the wait tracker of every main, driven by the   *)
(* leader-takeover and leader-stepdown events of MultiMainSetup.           *)
(*                                                                         *)
(* emit() calls the handlers in the turn in which the role changes, so the *)
(* reaction of the tracker is part of the election step.  An event that is *)
(* emitted before registerEventHandlers has run has no listener: start.ts  *)
(* runs MultiMainSetup.init, then WaitTracker.init (which looks at the     *)
(* role), and registers the handlers several awaits later.                 *)
(***************************************************************************)
EXTENDS LeaderElection

CONSTANT Execs    \* executions that use Wait nodes

VARIABLES
    boot,       \* boot[h]: how far start.ts has come on h
    interval,   \* interval[h]: the interval mainTimer refers to is running
    orphaned,   \* orphaned[h]: an earlier interval of h is still running
    query,      \* query[h]: the interval was stopped with a query unanswered
    tracked,    \* tracked[h]: the keys of waitingExecutions
    armed,      \* armed[h]: those of them whose timer is running
    deaf,       \* history: h took over unheard, after WaitTracker.init had looked
    row         \* row[e]: the status of the execution in the database

trackerVars == <<boot, interval, orphaned, query, tracked, armed, deaf>>
lwVars == <<leVars, trackerVars, row>>

LWTypeOK ==
    /\ LETypeOK
    /\ boot \in [Hosts -> {"orchestrated", "tracking", "registered"}]
    /\ interval \in [Hosts -> BOOLEAN]
    /\ orphaned \in [Hosts -> BOOLEAN]
    /\ query \in [Hosts -> BOOLEAN]
    /\ tracked \in [Hosts -> SUBSET Execs]
    /\ \A h \in Hosts : armed[h] \subseteq tracked[h]
    /\ deaf \in [Hosts -> BOOLEAN]
    /\ row \in [Execs -> {"running", "waiting"}]

LWInit ==
    /\ LEInit
    /\ boot = [h \in Hosts |-> "orchestrated"]
    /\ interval = [h \in Hosts |-> FALSE]
    /\ orphaned = [h \in Hosts |-> FALSE]
    /\ query = [h \in Hosts |-> FALSE]
    /\ tracked = [h \in Hosts |-> {}]
    /\ armed = [h \in Hosts |-> {}]
    /\ deaf = [h \in Hosts |-> FALSE]
    /\ row = [e \in Execs |-> "running"]

-----------------------------------------------------------------------------
(* The wait tracker *)

\* Mutant: the takeover starts no polling.
StartTrackingIdle(h) == UNCHANGED trackerVars

\* setInterval over whatever mainTimer held.  The first query, sent at once, is
\* one of those that WaitingFound answers.
StartTracking(h) ==
    /\ orphaned' = [orphaned EXCEPT ![h] = @ \/ interval[h]]
    /\ interval' = [interval EXCEPT ![h] = TRUE]
    /\ deaf' = [deaf EXCEPT ![h] = FALSE]
    /\ UNCHANGED <<boot, query, tracked, armed>>

\* Mutant: the entries go, their timers stay.
StopTrackingEntriesOnly(h) ==
    /\ interval' = [interval EXCEPT ![h] = FALSE]
    /\ tracked' = [tracked EXCEPT ![h] = {}]
    /\ UNCHANGED <<boot, orphaned, query, armed, deaf>>

\* The timers are cleared, the entries of waitingExecutions stay, and so does
\* a query that was sent and not answered yet.
StopTracking(h) ==
    /\ interval' = [interval EXCEPT ![h] = FALSE]
    /\ armed' = [armed EXCEPT ![h] = {}]
    /\ query' \in {query, [query EXCEPT ![h] = interval[h] \/ @]}
    /\ UNCHANGED <<boot, orphaned, tracked, deaf>>

\* The listeners, if there are any yet, of what the step of h emits.
OnLeaderEvent(h) ==
    LET takeover == role[h] # "leader" /\ role'[h] = "leader"
        stepdown == role[h] = "leader" /\ role'[h] = "follower"
    IN  \/ /\ boot[h] = "registered" /\ takeover
           /\ StartTracking(h)
        \/ /\ boot[h] = "registered" /\ stepdown
           /\ StopTracking(h)
        \/ /\ boot[h] # "registered" \/ ~(takeover \/ stepdown)
           /\ deaf' = [deaf EXCEPT ![h] = @ \/ (boot[h] = "tracking" /\ takeover)]
           /\ UNCHANGED <<boot, interval, orphaned, query, tracked, armed>>

\* WaitTracker.init
TrackerInit(h) ==
    /\ phase[h] = "up"
    /\ boot[h] = "orchestrated"
    /\ boot' = [boot EXCEPT ![h] = "tracking"]
    /\ interval' = [interval EXCEPT ![h] = (role[h] = "leader")]
    /\ UNCHANGED <<leVars, row, orphaned, query, tracked, armed, deaf>>

RegisterEventHandlers(h) ==
    /\ phase[h] = "up"
    /\ boot[h] = "tracking"
    /\ boot' = [boot EXCEPT ![h] = "registered"]
    /\ UNCHANGED <<leVars, row, interval, orphaned, query, tracked, armed, deaf>>

(***************************************************************************)
(* The answer to a getWaitingExecutions: a timer for each execution that   *)
(* has no entry.  A query is sent at every tick of an interval, also one   *)
(* that mainTimer no longer refers to; when it was sent matters only if    *)
(* the interval has been stopped since.                                    *)
(***************************************************************************)
WaitingFound(h) ==
    LET untracked == {e \in Execs : row[e] = "waiting"} \ tracked[h]
    IN  /\ interval[h] \/ orphaned[h] \/ query[h]
        /\ query' = [query EXCEPT ![h] = FALSE]
        /\ tracked' = [tracked EXCEPT ![h] = @ \cup untracked]
        /\ armed' = [armed EXCEPT ![h] = @ \cup untracked]
        /\ UNCHANGED <<leVars, row, boot, interval, orphaned, deaf>>

\* startExecution: the entry goes, a row that still waits is resumed.
StartExecution(h, e) ==
    /\ e \in armed[h]
    /\ tracked' = [tracked EXCEPT ![h] = @ \ {e}]
    /\ armed' = [armed EXCEPT ![h] = @ \ {e}]
    /\ row' = [row EXCEPT ![e] = "running"]
    /\ UNCHANGED <<leVars, boot, interval, orphaned, query, deaf>>

\* The execution, wherever it runs, reaches a Wait node and is saved.
ReachesWait(e) ==
    /\ row[e] = "running"
    /\ row' = [row EXCEPT ![e] = "waiting"]
    /\ UNCHANGED <<leVars, trackerVars>>

\* The process is gone, and the tracker with it.
TrackerGone(h) ==
    /\ boot' = [boot EXCEPT ![h] = "orchestrated"]
    /\ interval' = [interval EXCEPT ![h] = FALSE]
    /\ orphaned' = [orphaned EXCEPT ![h] = FALSE]
    /\ query' = [query EXCEPT ![h] = FALSE]
    /\ tracked' = [tracked EXCEPT ![h] = {}]
    /\ armed' = [armed EXCEPT ![h] = {}]
    /\ deaf' = [deaf EXCEPT ![h] = FALSE]

-----------------------------------------------------------------------------

\* An election step of h and what its tracker does in the same turn.
TrackedCheckStep(h) == CheckStep(h) /\ OnLeaderEvent(h) /\ UNCHANGED row

(***************************************************************************)
(* stopProcess stops the tracker before MultiMainSetup.shutdown.  The      *)
(* process is about to exit: its tracker is not followed any further, even *)
(* if a check that was under way still changes its role.                   *)
(***************************************************************************)
TrackedShutdown(h) == Shutdown(h) /\ TrackerGone(h) /\ UNCHANGED row

TrackedExit(h) == ExitStep(h) /\ TrackerGone(h) /\ UNCHANGED row

Elsewhere ==
    /\ RedisStep \/ \E h \in Hosts : Start(h) \/ CheckLeader(h)
    /\ UNCHANGED <<trackerVars, row>>

LWNext ==
    \/ Elsewhere
    \/ \E h \in Hosts :
          \/ TrackedCheckStep(h)
          \/ TrackedShutdown(h)
          \/ TrackedExit(h)
          \/ TrackerInit(h)
          \/ RegisterEventHandlers(h)
          \/ WaitingFound(h)
          \/ \E e \in Execs : StartExecution(h, e)
    \/ \E e \in Execs : ReachesWait(e)

(***************************************************************************)
(* Intervals tick, Redis and the database answer, timers fire and a boot   *)
(* goes on; an execution need not wait, a main need not start or stop.     *)
(* The election steps of one main follow one another, so that fairness of  *)
(* their disjunction is enough.                                            *)
(***************************************************************************)
ElectionGoesOn(h) ==
    \/ /\ Execute(h) \/ ExecuteLate(h) \/ ExecuteClear(h) \/ CheckLeader(h)
       /\ UNCHANGED <<trackerVars, row>>
    \/ answer[h] # "none" /\ TrackedCheckStep(h)
    \/ Destroy(h) /\ TrackerGone(h) /\ UNCHANGED row

LWFairness ==
    /\ WF_lwVars(Expire /\ UNCHANGED <<trackerVars, row>>)
    /\ \A h \in Hosts :
          /\ WF_lwVars(ElectionGoesOn(h))
          /\ WF_lwVars(TrackerInit(h) \/ RegisterEventHandlers(h))
          /\ WF_lwVars(WaitingFound(h))
          /\ \A e \in Execs : WF_lwVars(StartExecution(h, e))

LWSpec == LWInit /\ [][LWNext]_lwVars /\ LWFairness

-----------------------------------------------------------------------------
(* Properties *)

SomeoneUp == \E h \in Hosts : phase[h] = "up"

(***************************************************************************)
(* checkLeader on every main, with the lease that expires and the answers  *)
(* that get lost: after the last fault exactly one of the mains that are   *)
(* up leads, and it is the one the key in Redis names.  A main that was    *)
(* deposed without knowing it finds out and steps down.                    *)
(***************************************************************************)
OneLeaderEventually ==
    <>[](SomeoneUp => \E h \in Hosts : key = h /\ {i \in Hosts : Leads(i)} = {h})

\* A leader whose stale entry makes getWaitingExecutions skip e for ever.
DeadEntry(e) == \E h \in Hosts : Leads(h) /\ e \in tracked[h] \ armed[h]

\* A leader that took over before its handlers were registered.
DeafLeader == \E h \in Hosts : Leads(h) /\ deaf[h]

(***************************************************************************)
(* Failover of the wait tracker: whatever leaders crash, stop or are       *)
(* deposed, a waiting execution is resumed if some main is up, with two    *)
(* exceptions only: a leader that kept a dead entry from an earlier term   *)
(* (stopTracking), and one that took over while it was still booting.      *)
(***************************************************************************)
WaitsSurviveFailover ==
    \/ <>[]~SomeoneUp
    \/ \A e \in Execs :
          row[e] = "waiting" ~> (row[e] = "running" \/ DeadEntry(e) \/ DeafLeader)

(***************************************************************************)
(* What the comment on leader-takeover says: in response to it a main      *)
(* starts wait-tracking, so a waiting execution resumes, also on a main    *)
(* that led before.  Takeovers that nobody listens to are set aside.       *)
(***************************************************************************)
TakeoverStartsTracking ==
    \/ <>[]~SomeoneUp
    \/ \A e \in Execs : row[e] = "waiting" ~> (row[e] = "running" \/ DeafLeader)

=============================================================================
