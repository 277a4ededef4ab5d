---------------------------- MODULE TaskContract ----------------------------
(***************************************************************************)
(* What TaskRequester.startTask promises the node that calls it, with no   *)
(* broker, runner, offer or message in sight: a request is answered once,  *)
(* its code is started at most once and only after the request was given   *)
(* to a runner, a result comes only from code that ran, and a request that *)
(* was reported as expired is never run.                                   *)
(***************************************************************************)
EXTENDS Naturals

CONSTANT Requests

VARIABLES
    status,   \* status[r]: what the caller knows
    runs      \* runs[r]: how often its code was started

contractVars == <<status, runs>>

ContractInit ==
    /\ status = [r \in Requests |-> "idle"]
    /\ runs = [r \in Requests |-> 0]

Settle(S, from, to) ==
    /\ \A r \in S : status[r] = from
    /\ status' = [r \in Requests |-> IF r \in S THEN to ELSE status[r]]
    /\ UNCHANGED runs

\* The request is made, or refused at once.
MakeRequest(r) == Settle({r}, "idle", "requested") \/ Settle({r}, "idle", "expired")

\* No runner took it in time.
ExpireRequest(r) == Settle({r}, "requested", "expired")

GiveToRunner(r) == Settle({r}, "requested", "started")

\* The code starts, also when the caller has just been told that it failed.
RunCode(r) ==
    /\ status[r] \in {"started", "error", "cancelled"}
    /\ runs[r] = 0
    /\ runs' = [runs EXCEPT ![r] = 1]
    /\ UNCHANGED status

ReturnResult(r) == runs[r] = 1 /\ Settle({r}, "started", "done")

\* A runner that is lost fails all that it was given.
Fail(S) == Settle(S, "started", "error")

CancelRequest(r) == Settle({r}, "started", "cancelled")

ContractNext ==
    \/ \E r \in Requests :
          \/ MakeRequest(r) \/ ExpireRequest(r) \/ GiveToRunner(r)
          \/ RunCode(r) \/ ReturnResult(r) \/ CancelRequest(r)
    \/ \E S \in SUBSET Requests : Fail(S)

ContractSpec == ContractInit /\ [][ContractNext]_contractVars

=============================================================================
