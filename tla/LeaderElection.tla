---------------------------- MODULE LeaderElection ----------------------------
(***************************************************************************)
(* Leader election of a multi-main setup: MultiMainSetup on every main and *)
(* the LeaderElectionClient it talks to Redis with.                        *)
(*                                                                         *)
(* Redis holds one key with a time to live.  A main awaits one command at  *)
(* a time in its leader check; between sending a command and handling its  *)
(* answer anything may happen elsewhere, so sending, execution in Redis    *)
(* and handling are separate steps.  A command that times out on the       *)
(* client (commandTimeout) may have been executed, may be lost, or may     *)
(* still be in the client's queue and run late (maxRetriesPerRequest is    *)
(* null); commands of one connection stay in order.                        *)
(*                                                                         *)
(* The clock is abstract.  The key of a main that renews it expires only   *)
(* as a fault; a key that nobody renews expires in the end.                *)
(***************************************************************************)
EXTENDS Naturals, Sequences, FiniteSets

CONSTANTS
    Hosts,       \* main instances, by hostId
    NoHost,      \* the answer of GET when the key is absent
    MaxFaults    \* bound: lapsed leases, failed commands, crashes, shutdowns

ASSUME HostsAssumption ==
    /\ IsFiniteSet(Hosts)
    /\ NoHost \notin Hosts
    /\ MaxFaults \in Nat

Phases == {"down", "starting", "up", "stopping"}
Roles == {"unset", "leader", "follower"}

(***************************************************************************)
(* What a main awaits in init or in its leader check: "init", "reclaim"    *)
(* and "claim" are the three calls of setLeaderIfNotExists.                *)
(***************************************************************************)
Checks == {"idle", "init", "renew", "reclaim", "get", "claim"}
SetChecks == {"init", "reclaim", "claim"}
Answers == {"none", "set", "taken", "success", "missing", "own", "other", "vacant"}

\* The DEL of shutdown: "queued" behind the command the check awaits.
Clears == {"none", "queued", "sent", "done"}

VARIABLES
    key,       \* the leader key in Redis: a host or NoHost
    phase,     \* phase[h]: the life of the process
    role,      \* role[h]: instanceSettings.instanceRole
    check,     \* check[h]: the command its init or leader check awaits
    answer,    \* answer[h]: what Redis answered to it, "none" before that
    clear,     \* clear[h]: the DEL of shutdown
    late,      \* late[h]: commands that timed out on h and are still to run
    faults,
    lapsed     \* history: the key was removed under a main that relies on it

leVars == <<key, phase, role, check, answer, clear, late, faults, lapsed>>

LETypeOK ==
    /\ key \in Hosts \cup {NoHost}
    /\ phase \in [Hosts -> Phases]
    /\ role \in [Hosts -> Roles]
    /\ check \in [Hosts -> Checks]
    /\ answer \in [Hosts -> Answers]
    /\ clear \in [Hosts -> Clears]
    /\ late \in [Hosts -> Seq({"set", "del"})]
    /\ faults \in 0 .. MaxFaults
    /\ lapsed \in BOOLEAN

LEInit ==
    /\ key = NoHost
    /\ phase = [h \in Hosts |-> "down"]
    /\ role = [h \in Hosts |-> "unset"]
    /\ check = [h \in Hosts |-> "idle"]
    /\ answer = [h \in Hosts |-> "none"]
    /\ clear = [h \in Hosts |-> "none"]
    /\ late = [h \in Hosts |-> <<>>]
    /\ faults = 0
    /\ lapsed = FALSE

Leads(h) == phase[h] = "up" /\ role[h] = "leader"

\* A main that leads, or will when it handles the answer it was given.
Claims(h) == Leads(h) \/ (phase[h] \in {"starting", "up"} /\ answer[h] \in {"set", "own"})

Fault == faults < MaxFaults /\ faults' = faults + 1

(***************************************************************************)
(* The commands, as Redis executes them.                                   *)
(***************************************************************************)
SetIfNotExists(h) == IF key = NoHost THEN h ELSE key

Renewal(h) == IF key = NoHost THEN "missing" ELSE IF key = h THEN "success" ELSE "other"

LeaderKeyFor(h) == IF key = NoHost THEN "vacant" ELSE IF key = h THEN "own" ELSE "other"

RemoveKey ==
    /\ key' = NoHost
    /\ lapsed' = (lapsed \/ (key # NoHost /\ Claims(key)))

-----------------------------------------------------------------------------
(* Redis *)

\* The command ahead of a queued DEL is out of the way.
Unqueue(h) == clear' = [clear EXCEPT ![h] = IF @ = "queued" THEN "sent" ELSE @]

\* Redis executes the awaited command of h.
Execute(h) ==
    /\ check[h] # "idle"
    /\ answer[h] = "none"
    /\ late[h] = <<>>
    /\ clear[h] # "sent"
    /\ \/ /\ check[h] \in SetChecks
          /\ key' = SetIfNotExists(h)
          /\ answer' = [answer EXCEPT ![h] = IF key = NoHost THEN "set" ELSE "taken"]
       \/ /\ check[h] = "renew"
          /\ answer' = [answer EXCEPT ![h] = Renewal(h)]
          /\ key' = key
       \/ /\ check[h] = "get"
          /\ answer' = [answer EXCEPT ![h] = LeaderKeyFor(h)]
          /\ key' = key
    /\ Unqueue(h)
    /\ UNCHANGED <<phase, role, check, late, faults, lapsed>>

\* Redis executes the oldest command that h has given up on.
ExecuteLate(h) ==
    /\ late[h] # <<>>
    /\ late' = [late EXCEPT ![h] = Tail(@)]
    /\ \/ /\ Head(late[h]) = "set"
          /\ key' = SetIfNotExists(h)
          /\ UNCHANGED lapsed
       \/ /\ Head(late[h]) = "del"
          /\ RemoveKey
    /\ UNCHANGED <<phase, role, check, answer, clear, faults>>

ExecuteClear(h) ==
    /\ clear[h] = "sent"
    /\ late[h] = <<>>
    /\ RemoveKey
    /\ clear' = [clear EXCEPT ![h] = "done"]
    /\ UNCHANGED <<phase, role, check, answer, late, faults>>

\* The time to live runs out on a key that its owner does not renew.
Expire ==
    /\ key # NoHost
    /\ ~Claims(key)
    /\ RemoveKey
    /\ UNCHANGED <<phase, role, check, answer, clear, late, faults>>

\* The owner is too slow: blocked, partitioned, or its renewals failed.
LeaseLapses ==
    /\ key # NoHost
    /\ Claims(key)
    /\ Fault
    /\ RemoveKey
    /\ UNCHANGED <<phase, role, check, answer, clear, late>>

-----------------------------------------------------------------------------
(* A main *)

Await(h, c) ==
    /\ check' = [check EXCEPT ![h] = c]
    /\ answer' = [answer EXCEPT ![h] = "none"]

Done(h) == Await(h, "idle")

BecomeRole(h, r) == role' = [role EXCEPT ![h] = r]

(***************************************************************************)
(* init(): the first setLeaderIfNotExists.  What an earlier process of the *)
(* host had sent has reached Redis, or is lost, before the next one boots. *)
(***************************************************************************)
Start(h) ==
    /\ phase[h] = "down"
    /\ late[h] = <<>>
    /\ phase' = [phase EXCEPT ![h] = "starting"]
    /\ Await(h, "init")
    /\ UNCHANGED <<key, role, clear, late, faults, lapsed>>

InitDone(h) ==
    /\ check[h] = "init"
    /\ answer[h] # "none"
    /\ phase' = [phase EXCEPT ![h] = "up"]
    /\ BecomeRole(h, IF answer[h] = "set" THEN "leader" ELSE "follower")
    /\ Done(h)
    /\ UNCHANGED <<key, clear, late, faults, lapsed>>

\* A tick of the interval: checkLeader, unless a check is in progress.
CheckLeader(h) ==
    /\ phase[h] = "up"
    /\ check[h] = "idle"
    /\ Await(h, IF role[h] = "leader" THEN "renew" ELSE "get")
    /\ UNCHANGED <<key, phase, role, clear, late, faults, lapsed>>

\* Mutant: a renewal that finds another leader is not answered by a stepdown.
RenewDoneStaying(h) ==
    /\ check[h] = "renew"
    /\ answer[h] # "none"
    /\ IF answer[h] = "missing" THEN Await(h, "reclaim") ELSE Done(h)
    /\ UNCHANGED <<key, phase, role, clear, late, faults, lapsed>>

\* checkAreWeStillLeader, once the renewal is answered.
RenewDone(h) ==
    /\ check[h] = "renew"
    /\ \/ /\ answer[h] = "success"
          /\ Done(h)
          /\ UNCHANGED role
       \/ /\ answer[h] = "other"
          /\ BecomeRole(h, "follower")
          /\ Done(h)
       \/ /\ answer[h] = "missing"
          /\ Await(h, "reclaim")
          /\ UNCHANGED role
    /\ UNCHANGED <<key, phase, clear, late, faults, lapsed>>

\* checkAreWeStillLeader, once the key was found missing and set again.
ReclaimDone(h) ==
    /\ check[h] = "reclaim"
    /\ answer[h] # "none"
    /\ BecomeRole(h, IF answer[h] = "set" THEN "leader" ELSE "follower")
    /\ Done(h)
    /\ UNCHANGED <<key, phase, clear, late, faults, lapsed>>

\* checkCanBecomeLeader, once GET is answered.
GetDone(h) ==
    /\ check[h] = "get"
    /\ \/ /\ answer[h] = "own"
          /\ BecomeRole(h, "leader")
          /\ Done(h)
       \/ /\ answer[h] = "other"
          /\ Done(h)
          /\ UNCHANGED role
       \/ /\ answer[h] = "vacant"
          /\ Await(h, "claim")
          /\ UNCHANGED role
    /\ UNCHANGED <<key, phase, clear, late, faults, lapsed>>

\* Mutant: the answer of SET NX is not looked at.
ClaimDoneAlways(h) ==
    /\ check[h] = "claim"
    /\ answer[h] # "none"
    /\ BecomeRole(h, "leader")
    /\ Done(h)
    /\ UNCHANGED <<key, phase, clear, late, faults, lapsed>>

\* checkCanBecomeLeader, once the vacant key was claimed.
ClaimDone(h) ==
    /\ check[h] = "claim"
    /\ answer[h] # "none"
    /\ BecomeRole(h, IF answer[h] = "set" THEN "leader" ELSE role[h])
    /\ Done(h)
    /\ UNCHANGED <<key, phase, clear, late, faults, lapsed>>

(***************************************************************************)
(* The awaited command fails on the client.  A renewal that fails leaves   *)
(* the main a leader; a reclaim that fails makes it step down.  If Redis   *)
(* has not seen the command yet, it may still see it later.                *)
(***************************************************************************)
CommandFails(h) ==
    /\ check[h] # "idle"
    /\ Fault
    /\ role' = [role EXCEPT ![h] = IF check[h] \in {"init", "reclaim"} THEN "follower" ELSE @]
    /\ phase' = [phase EXCEPT ![h] = IF @ = "starting" THEN "up" ELSE @]
    /\ Done(h)
    /\ \/ late' = late
       \/ /\ check[h] \in SetChecks
          /\ answer[h] = "none"
          /\ clear[h] \in {"none", "queued"}  \* else it is lost with the connection
          /\ late' = [late EXCEPT ![h] = Append(@, "set")]
    /\ Unqueue(h)
    /\ UNCHANGED <<key, lapsed>>

\* The process is gone, with the state of its memory.
Gone(h) ==
    /\ phase' = [phase EXCEPT ![h] = "down"]
    /\ role' = [role EXCEPT ![h] = "unset"]
    /\ clear' = [clear EXCEPT ![h] = "none"]
    /\ Done(h)

\* shutdown() of a leader: no more checks, and DEL the key, whoever holds it.
Shutdown(h) ==
    /\ Leads(h)
    /\ Fault
    /\ phase' = [phase EXCEPT ![h] = "stopping"]
    /\ clear' = [clear EXCEPT ![h] =
                    IF check[h] # "idle" /\ answer[h] = "none" THEN "queued" ELSE "sent"]
    /\ UNCHANGED <<key, role, check, answer, late, lapsed>>

\* shutdown() of a follower awaits nothing: it disconnects at once.
ShutdownFollower(h) ==
    /\ phase[h] = "up"
    /\ role[h] = "follower"
    /\ Fault
    /\ Gone(h)
    /\ UNCHANGED <<key, late, lapsed>>

\* clearLeader was answered: destroy() and exit.
Destroy(h) ==
    /\ phase[h] = "stopping"
    /\ clear[h] = "done"
    /\ Gone(h)
    /\ UNCHANGED <<key, late, faults, lapsed>>

ClearFails(h) ==
    /\ clear[h] \in {"queued", "sent"}
    /\ Fault
    /\ Gone(h)
    /\ late' \in {late, [late EXCEPT ![h] = Append(@, "del")]}
    /\ UNCHANGED <<key, lapsed>>

Crash(h) ==
    /\ phase[h] # "down"
    /\ Fault
    /\ Gone(h)
    /\ UNCHANGED <<key, late, lapsed>>

-----------------------------------------------------------------------------

\* The steps of one main in which its role may change.
CheckStep(h) ==
    \/ InitDone(h)
    \/ RenewDone(h)
    \/ ReclaimDone(h)
    \/ GetDone(h)
    \/ ClaimDone(h)
    \/ CommandFails(h)

RedisStep ==
    \/ \E h \in Hosts : Execute(h) \/ ExecuteLate(h) \/ ExecuteClear(h)
    \/ Expire
    \/ LeaseLapses

ExitStep(h) == ShutdownFollower(h) \/ Destroy(h) \/ ClearFails(h) \/ Crash(h)

LENext ==
    \/ RedisStep
    \/ \E h \in Hosts :
          \/ Start(h)
          \/ CheckLeader(h)
          \/ CheckStep(h)
          \/ Shutdown(h)
          \/ ExitStep(h)

LESpec == LEInit /\ [][LENext]_leVars

-----------------------------------------------------------------------------
(* Properties *)

(***************************************************************************)
(* The asserts of takeOverAsLeader, stepDownToFollower and of both checks: *)
(* when a check handles an answer, the main still has the role it had when *)
(* the check began.                                                        *)
(***************************************************************************)
CheckMatchesRole ==
    \A h \in Hosts :
        /\ check[h] \in {"renew", "reclaim"} => role[h] = "leader"
        /\ check[h] \in {"get", "claim"} => role[h] = "follower"
        /\ check[h] = "init" => phase[h] = "starting" /\ role[h] = "unset"

(***************************************************************************)
(* Every main that leads or is about to holds the key, as long as the key  *)
(* was never removed under such a main: by a lapse of its lease, or by the *)
(* unguarded DEL of another main's shutdown (run on time or late).         *)
(***************************************************************************)
ClaimIsBacked == ~lapsed => \A h \in Hosts : Claims(h) => key = h

(***************************************************************************)
(* No split brain without a lost lease: failed and late commands, crashes, *)
(* restarts and orderly shutdowns alone never make two mains lead.         *)
(***************************************************************************)
SoleLeader ==
    ~lapsed => \A h, i \in Hosts : Leads(h) /\ Leads(i) => h = i

=============================================================================
