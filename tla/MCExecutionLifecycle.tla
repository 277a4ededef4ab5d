------------------------ MODULE MCExecutionLifecycle ------------------------
(***************************************************************************)
(* Small instances of ExecutionLifecycle: each cfg chooses the runs that   *)
(* take part, and which of them may wait, time out or answer a webhook.    *)
(***************************************************************************)
EXTENDS ExecutionLifecycle

CONSTANTS x, y,       \* executions
          x1, x2, x3, \* the run that creates x, and two that resume it
          y1, y2      \* the run that creates y, and one that resumes it

MCExecOf == [r \in Callers |-> IF r \in {x1, x2, x3} THEN x ELSE y]
MCModeOf == [r \in Callers |-> IF r \in {x1, x2, x3} THEN "webhook" ELSE "trigger"]

\* The two runs that resume x differ in nothing but their name.
ResumeSymmetry == Permutations({x2, x3})

\* evaluationLimit when N8N_CONCURRENCY_EVALUATION_LIMIT is not set
Unset == -1
=============================================================================
