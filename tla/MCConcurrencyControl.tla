------------------------ MODULE MCConcurrencyControl ------------------------
(***************************************************************************)
(* Four production callers over a limit of two, two of them resumes of the *)
(* same execution, and two evaluation cases over a limit of one that the   *)
(* license supplies after the process has started.                         *)
(***************************************************************************)
EXTENDS ConcurrencyControl

CONSTANTS p1, p2, p3, p4, v1, v2, x1, x2, x3, y1, y2

MCCallers == {p1, p2, p3, p4, v1, v2}
MCExecs == {x1, x2, x3, y1, y2}
\* evaluationLimit when N8N_CONCURRENCY_EVALUATION_LIMIT is not set
Unset == -1
MCExecOf == p1 :> x1 @@ p2 :> x2 @@ p3 :> x3 @@ p4 :> x3
         @@ v1 :> y1 @@ v2 :> y2
MCModeOf == [c \in MCCallers |->
    CASE c \in {p1, p2} -> "webhook"
      [] c \in {p3, p4} -> "trigger"
      [] c \in {v1, v2} -> "evaluation"]

(***************************************************************************)
(* Every admitted execution ends and releases its slot.  Nothing else is   *)
(* assumed: callers may never throttle, stop or shut down.                 *)
(***************************************************************************)
FairSpec == CCSpec /\ \A c \in Callers : WF_ccVars(Release(c))

(***************************************************************************)
(* No starvation: a parked execution is admitted, or stopped by its owner, *)
(* unless the process starts to shut down.                                 *)
(***************************************************************************)
QueuedIsServed ==
    \A c \in Callers :
        reservation[c] = "queued" ~> (reservation[c] # "queued" \/ disabled)
=============================================================================
