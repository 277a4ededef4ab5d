------------------------- MODULE LeaderElection_proofs -------------------------
(***************************************************************************)
(* No split brain without a lost lease, for any number of mains and of     *)
(* faults: the safety of LeaderElection, proved.                           *)
(*                                                                         *)
(* SoleLeader says nothing about an answer that is on its way to a main,   *)
(* and nothing about the role a boot or a check starts from, so it is not  *)
(* inductive.  LEInv adds ClaimIsBacked (a main that was told it won holds *)
(* the key already), CheckMatchesRole and LifeMatchesRole.                 *)
(*                                                                         *)
(* The second half is about the wait trackers of any number of mains:      *)
(* driven by the events of the election they do not disturb it, so what is *)
(* proved of the election holds of both; and whoever leads polls for       *)
(* waiting executions, unless it took over in the gap of the boot order    *)
(* that DeafLeader names.                                                  *)
(***************************************************************************)
EXTENDS LeaderWaitTracking, TLAPS

(***************************************************************************)
(* A process that is not up has no role, and one that is starting awaits   *)
(* the answer of init; once up it is leader or follower.                   *)
(***************************************************************************)
LifeMatchesRole ==
    \A h \in Hosts :
        /\ phase[h] = "down" => role[h] = "unset" /\ check[h] = "idle" /\ answer[h] = "none"
        /\ phase[h] = "starting" => role[h] = "unset" /\ check[h] = "init"
        /\ phase[h] \in {"up", "stopping"} => role[h] # "unset"

LEInv == LETypeOK /\ CheckMatchesRole /\ LifeMatchesRole /\ ClaimIsBacked

-----------------------------------------------------------------------------

\* What is queued behind a connection stays a sequence of commands.
LEMMA LateAppended ==
    ASSUME NEW f \in [Hosts -> Seq({"set", "del"})], NEW h \in Hosts, NEW c \in {"set", "del"}
    PROVE  [f EXCEPT ![h] = Append(@, c)] \in [Hosts -> Seq({"set", "del"})]
<1>1. Append(f[h], c) \in Seq({"set", "del"})
  OBVIOUS
<1>2. QED
  BY <1>1

LEMMA LateShifted ==
    ASSUME NEW f \in [Hosts -> Seq({"set", "del"})], NEW h \in Hosts, f[h] # <<>>
    PROVE  [f EXCEPT ![h] = Tail(@)] \in [Hosts -> Seq({"set", "del"})]
<1>1. Tail(f[h]) \in Seq({"set", "del"})
  OBVIOUS
<1>2. QED
  BY <1>1

\* Every step keeps the types.
LEMMA TypeStep == ASSUME LETypeOK, [LENext]_leVars PROVE LETypeOK'
<1>1. ASSUME NEW h \in Hosts, Execute(h) PROVE LETypeOK'
  BY <1>1, HostsAssumption DEF LETypeOK, Phases, Roles, Checks, Answers, Clears, Execute, SetIfNotExists, Renewal, LeaderKeyFor, Unqueue, SetChecks
<1>2. ASSUME NEW h \in Hosts, ExecuteLate(h) PROVE LETypeOK'
  <2>1. late' \in [Hosts -> Seq({"set", "del"})]
    BY <1>2, LateShifted DEF LETypeOK, ExecuteLate
  <2>2. key' \in Hosts \cup {NoHost} /\ lapsed' \in BOOLEAN
    BY <1>2 DEF LETypeOK, ExecuteLate, SetIfNotExists, RemoveKey
  <2>3. QED
    BY <1>2, <2>1, <2>2 DEF LETypeOK, ExecuteLate
<1>3. ASSUME NEW h \in Hosts, ExecuteClear(h) PROVE LETypeOK'
  BY <1>3, HostsAssumption DEF LETypeOK, Phases, Roles, Checks, Answers, Clears, ExecuteClear, RemoveKey
<1>4. ASSUME Expire PROVE LETypeOK'
  BY <1>4, HostsAssumption DEF LETypeOK, Phases, Roles, Checks, Answers, Clears, Expire, RemoveKey
<1>5. ASSUME LeaseLapses PROVE LETypeOK'
  BY <1>5, HostsAssumption DEF LETypeOK, Phases, Roles, Checks, Answers, Clears, LeaseLapses, RemoveKey, Fault
<1>6. ASSUME NEW h \in Hosts, Start(h) PROVE LETypeOK'
  BY <1>6, HostsAssumption DEF LETypeOK, Phases, Roles, Checks, Answers, Clears, Start, Await
<1>7. ASSUME NEW h \in Hosts, InitDone(h) PROVE LETypeOK'
  BY <1>7, HostsAssumption DEF LETypeOK, Phases, Roles, Checks, Answers, Clears, InitDone, Done, Await, BecomeRole
<1>8. ASSUME NEW h \in Hosts, CheckLeader(h) PROVE LETypeOK'
  BY <1>8, HostsAssumption DEF LETypeOK, Phases, Roles, Checks, Answers, Clears, CheckLeader, Await
<1>9. ASSUME NEW h \in Hosts, RenewDone(h) PROVE LETypeOK'
  BY <1>9, HostsAssumption DEF LETypeOK, Phases, Roles, Checks, Answers, Clears, RenewDone, Done, Await, BecomeRole
<1>10. ASSUME NEW h \in Hosts, ReclaimDone(h) PROVE LETypeOK'
  BY <1>10, HostsAssumption DEF LETypeOK, Phases, Roles, Checks, Answers, Clears, ReclaimDone, Done, Await, BecomeRole
<1>11. ASSUME NEW h \in Hosts, GetDone(h) PROVE LETypeOK'
  BY <1>11, HostsAssumption DEF LETypeOK, Phases, Roles, Checks, Answers, Clears, GetDone, Done, Await, BecomeRole
<1>12. ASSUME NEW h \in Hosts, ClaimDone(h) PROVE LETypeOK'
  BY <1>12, HostsAssumption DEF LETypeOK, Phases, Roles, Checks, Answers, Clears, ClaimDone, Done, Await, BecomeRole
<1>13. ASSUME NEW h \in Hosts, CommandFails(h) PROVE LETypeOK'
  <2>1. late' \in [Hosts -> Seq({"set", "del"})]
    <3>1. late' = late \/ late' = [late EXCEPT ![h] = Append(@, "set")]
      BY <1>13 DEF CommandFails
    <3>2. [late EXCEPT ![h] = Append(@, "set")] \in [Hosts -> Seq({"set", "del"})]
      BY LateAppended DEF LETypeOK
    <3>3. QED
      BY <3>1, <3>2 DEF LETypeOK
  <2>2. faults' \in 0 .. MaxFaults
    BY <1>13, HostsAssumption DEF LETypeOK, CommandFails, Fault
  <2>3. clear' \in [Hosts -> Clears]
    BY <1>13 DEF LETypeOK, CommandFails, Unqueue, Clears
  <2>4. /\ role' \in [Hosts -> Roles] /\ phase' \in [Hosts -> Phases]
        /\ check' \in [Hosts -> Checks] /\ answer' \in [Hosts -> Answers]
    BY <1>13 DEF LETypeOK, CommandFails, Done, Await, Phases, Roles, Checks, Answers
  <2>5. QED
    BY <1>13, <2>1, <2>2, <2>3, <2>4 DEF LETypeOK, CommandFails
<1>14. ASSUME NEW h \in Hosts, Shutdown(h) PROVE LETypeOK'
  BY <1>14, HostsAssumption DEF LETypeOK, Phases, Roles, Checks, Answers, Clears, Shutdown, Leads, Fault
<1>15. ASSUME NEW h \in Hosts, ShutdownFollower(h) PROVE LETypeOK'
  BY <1>15, HostsAssumption DEF LETypeOK, Phases, Roles, Checks, Answers, Clears, ShutdownFollower, Gone, Done, Await, Fault
<1>16. ASSUME NEW h \in Hosts, Destroy(h) PROVE LETypeOK'
  BY <1>16, HostsAssumption DEF LETypeOK, Phases, Roles, Checks, Answers, Clears, Destroy, Gone, Done, Await
<1>17. ASSUME NEW h \in Hosts, ClearFails(h) PROVE LETypeOK'
  <2>1. late' \in [Hosts -> Seq({"set", "del"})]
    <3>1. late' = late \/ late' = [late EXCEPT ![h] = Append(@, "del")]
      BY <1>17 DEF ClearFails
    <3>2. [late EXCEPT ![h] = Append(@, "del")] \in [Hosts -> Seq({"set", "del"})]
      BY LateAppended DEF LETypeOK
    <3>3. QED
      BY <3>1, <3>2 DEF LETypeOK
  <2>2. faults' \in 0 .. MaxFaults
    BY <1>17, HostsAssumption DEF LETypeOK, ClearFails, Fault
  <2>3. /\ role' \in [Hosts -> Roles] /\ phase' \in [Hosts -> Phases]
        /\ check' \in [Hosts -> Checks] /\ answer' \in [Hosts -> Answers]
        /\ clear' \in [Hosts -> Clears]
    BY <1>17 DEF LETypeOK, ClearFails, Gone, Done, Await, Phases, Roles, Checks, Answers, Clears
  <2>4. QED
    BY <1>17, <2>1, <2>2, <2>3 DEF LETypeOK, ClearFails
<1>18. ASSUME NEW h \in Hosts, Crash(h) PROVE LETypeOK'
  BY <1>18, HostsAssumption DEF LETypeOK, Phases, Roles, Checks, Answers, Clears, Crash, Gone, Done, Await, Fault
<1>19. CASE UNCHANGED leVars
  BY <1>19, HostsAssumption DEF LETypeOK, Phases, Roles, Checks, Answers, Clears, leVars
<1>20. QED
  BY <1>1, <1>2, <1>3, <1>4, <1>5, <1>6, <1>7, <1>8, <1>9, <1>10, <1>11, <1>12, <1>13, <1>14, <1>15, <1>16, <1>17, <1>18, <1>19
  DEF LENext, RedisStep, CheckStep, ExitStep

\* Every step keeps role, check and phase of each main in line.
LEMMA RoleStep == ASSUME LETypeOK, CheckMatchesRole, LifeMatchesRole, [LENext]_leVars PROVE (CheckMatchesRole /\ LifeMatchesRole)'
<1>1. ASSUME NEW h \in Hosts, Execute(h) PROVE (CheckMatchesRole /\ LifeMatchesRole)'
  BY <1>1 DEF LETypeOK, Phases, Roles, Checks, Answers, Clears, CheckMatchesRole, LifeMatchesRole, Execute, SetIfNotExists, Renewal, LeaderKeyFor, Unqueue, SetChecks
<1>2. ASSUME NEW h \in Hosts, ExecuteLate(h) PROVE (CheckMatchesRole /\ LifeMatchesRole)'
  BY <1>2 DEF LETypeOK, Phases, Roles, Checks, Answers, Clears, CheckMatchesRole, LifeMatchesRole, ExecuteLate, SetIfNotExists, RemoveKey
<1>3. ASSUME NEW h \in Hosts, ExecuteClear(h) PROVE (CheckMatchesRole /\ LifeMatchesRole)'
  BY <1>3 DEF LETypeOK, Phases, Roles, Checks, Answers, Clears, CheckMatchesRole, LifeMatchesRole, ExecuteClear, RemoveKey
<1>4. ASSUME Expire PROVE (CheckMatchesRole /\ LifeMatchesRole)'
  BY <1>4 DEF LETypeOK, Phases, Roles, Checks, Answers, Clears, CheckMatchesRole, LifeMatchesRole, Expire, RemoveKey
<1>5. ASSUME LeaseLapses PROVE (CheckMatchesRole /\ LifeMatchesRole)'
  BY <1>5 DEF LETypeOK, Phases, Roles, Checks, Answers, Clears, CheckMatchesRole, LifeMatchesRole, LeaseLapses, RemoveKey, Fault
<1>6. ASSUME NEW h \in Hosts, Start(h) PROVE (CheckMatchesRole /\ LifeMatchesRole)'
  BY <1>6 DEF LETypeOK, Phases, Roles, Checks, Answers, Clears, CheckMatchesRole, LifeMatchesRole, Start, Await
<1>7. ASSUME NEW h \in Hosts, InitDone(h) PROVE (CheckMatchesRole /\ LifeMatchesRole)'
  BY <1>7 DEF LETypeOK, Phases, Roles, Checks, Answers, Clears, CheckMatchesRole, LifeMatchesRole, InitDone, Done, Await, BecomeRole
<1>8. ASSUME NEW h \in Hosts, CheckLeader(h) PROVE (CheckMatchesRole /\ LifeMatchesRole)'
  BY <1>8 DEF LETypeOK, Phases, Roles, Checks, Answers, Clears, CheckMatchesRole, LifeMatchesRole, CheckLeader, Await
<1>9. ASSUME NEW h \in Hosts, RenewDone(h) PROVE (CheckMatchesRole /\ LifeMatchesRole)'
  BY <1>9 DEF LETypeOK, Phases, Roles, Checks, Answers, Clears, CheckMatchesRole, LifeMatchesRole, RenewDone, Done, Await, BecomeRole
<1>10. ASSUME NEW h \in Hosts, ReclaimDone(h) PROVE (CheckMatchesRole /\ LifeMatchesRole)'
  BY <1>10 DEF LETypeOK, Phases, Roles, Checks, Answers, Clears, CheckMatchesRole, LifeMatchesRole, ReclaimDone, Done, Await, BecomeRole
<1>11. ASSUME NEW h \in Hosts, GetDone(h) PROVE (CheckMatchesRole /\ LifeMatchesRole)'
  BY <1>11 DEF LETypeOK, Phases, Roles, Checks, Answers, Clears, CheckMatchesRole, LifeMatchesRole, GetDone, Done, Await, BecomeRole
<1>12. ASSUME NEW h \in Hosts, ClaimDone(h) PROVE (CheckMatchesRole /\ LifeMatchesRole)'
  BY <1>12 DEF LETypeOK, Phases, Roles, Checks, Answers, Clears, CheckMatchesRole, LifeMatchesRole, ClaimDone, Done, Await, BecomeRole
<1>13. ASSUME NEW h \in Hosts, CommandFails(h) PROVE (CheckMatchesRole /\ LifeMatchesRole)'
  BY <1>13 DEF LETypeOK, Phases, Roles, Checks, Answers, Clears, CheckMatchesRole, LifeMatchesRole, CommandFails, Done, Await, Fault, Unqueue, SetChecks
<1>14. ASSUME NEW h \in Hosts, Shutdown(h) PROVE (CheckMatchesRole /\ LifeMatchesRole)'
  BY <1>14 DEF LETypeOK, Phases, Roles, Checks, Answers, Clears, CheckMatchesRole, LifeMatchesRole, Shutdown, Leads, Fault
<1>15. ASSUME NEW h \in Hosts, ShutdownFollower(h) PROVE (CheckMatchesRole /\ LifeMatchesRole)'
  BY <1>15 DEF LETypeOK, Phases, Roles, Checks, Answers, Clears, CheckMatchesRole, LifeMatchesRole, ShutdownFollower, Gone, Done, Await, Fault
<1>16. ASSUME NEW h \in Hosts, Destroy(h) PROVE (CheckMatchesRole /\ LifeMatchesRole)'
  BY <1>16 DEF LETypeOK, Phases, Roles, Checks, Answers, Clears, CheckMatchesRole, LifeMatchesRole, Destroy, Gone, Done, Await
<1>17. ASSUME NEW h \in Hosts, ClearFails(h) PROVE (CheckMatchesRole /\ LifeMatchesRole)'
  BY <1>17 DEF LETypeOK, Phases, Roles, Checks, Answers, Clears, CheckMatchesRole, LifeMatchesRole, ClearFails, Gone, Done, Await, Fault
<1>18. ASSUME NEW h \in Hosts, Crash(h) PROVE (CheckMatchesRole /\ LifeMatchesRole)'
  BY <1>18 DEF LETypeOK, Phases, Roles, Checks, Answers, Clears, CheckMatchesRole, LifeMatchesRole, Crash, Gone, Done, Await, Fault
<1>19. CASE UNCHANGED leVars
  BY <1>19 DEF LETypeOK, Phases, Roles, Checks, Answers, Clears, CheckMatchesRole, LifeMatchesRole, leVars
<1>20. QED
  BY <1>1, <1>2, <1>3, <1>4, <1>5, <1>6, <1>7, <1>8, <1>9, <1>10, <1>11, <1>12, <1>13, <1>14, <1>15, <1>16, <1>17, <1>18, <1>19
  DEF LENext, RedisStep, CheckStep, ExitStep

\* Every step keeps each claim backed by the key, or records the lapse.
LEMMA ClaimStep == ASSUME LEInv, [LENext]_leVars PROVE ClaimIsBacked'
<1>1. ASSUME NEW h \in Hosts, Execute(h) PROVE ClaimIsBacked'
  BY <1>1, HostsAssumption
  DEF LEInv, LETypeOK, Phases, Roles, Checks, Answers, Clears, CheckMatchesRole, LifeMatchesRole, ClaimIsBacked, Claims, Leads, Execute, SetIfNotExists, Renewal, LeaderKeyFor, Unqueue, SetChecks
<1>2. ASSUME NEW h \in Hosts, ExecuteLate(h) PROVE ClaimIsBacked'
  <2>1. \A i \in Hosts : Claims(i)' = Claims(i)
    BY <1>2 DEF ExecuteLate, Claims, Leads
  <2>2. CASE key' = SetIfNotExists(h) /\ lapsed' = lapsed
    BY <2>1, <2>2, HostsAssumption DEF LEInv, ClaimIsBacked, SetIfNotExists
  <2>3. CASE RemoveKey
    BY <2>1, <2>3, HostsAssumption DEF LEInv, ClaimIsBacked, RemoveKey
  <2>4. QED
    BY <1>2, <2>2, <2>3 DEF ExecuteLate
<1>3. ASSUME NEW h \in Hosts, ExecuteClear(h) PROVE ClaimIsBacked'
  BY <1>3, HostsAssumption
  DEF LEInv, LETypeOK, Phases, Roles, Checks, Answers, Clears, CheckMatchesRole, LifeMatchesRole, ClaimIsBacked, Claims, Leads, ExecuteClear, RemoveKey
<1>4. ASSUME Expire PROVE ClaimIsBacked'
  BY <1>4, HostsAssumption
  DEF LEInv, LETypeOK, Phases, Roles, Checks, Answers, Clears, CheckMatchesRole, LifeMatchesRole, ClaimIsBacked, Claims, Leads, Expire, RemoveKey
<1>5. ASSUME LeaseLapses PROVE ClaimIsBacked'
  BY <1>5, HostsAssumption
  DEF LEInv, LETypeOK, Phases, Roles, Checks, Answers, Clears, CheckMatchesRole, LifeMatchesRole, ClaimIsBacked, Claims, Leads, LeaseLapses, RemoveKey, Fault
<1>6. ASSUME NEW h \in Hosts, Start(h) PROVE ClaimIsBacked'
  BY <1>6, HostsAssumption
  DEF LEInv, LETypeOK, Phases, Roles, Checks, Answers, Clears, CheckMatchesRole, LifeMatchesRole, ClaimIsBacked, Claims, Leads, Start, Await
<1>7. ASSUME NEW h \in Hosts, InitDone(h) PROVE ClaimIsBacked'
  BY <1>7, HostsAssumption
  DEF LEInv, LETypeOK, Phases, Roles, Checks, Answers, Clears, CheckMatchesRole, LifeMatchesRole, ClaimIsBacked, Claims, Leads, InitDone, Done, Await, BecomeRole
<1>8. ASSUME NEW h \in Hosts, CheckLeader(h) PROVE ClaimIsBacked'
  BY <1>8, HostsAssumption
  DEF LEInv, LETypeOK, Phases, Roles, Checks, Answers, Clears, CheckMatchesRole, LifeMatchesRole, ClaimIsBacked, Claims, Leads, CheckLeader, Await
<1>9. ASSUME NEW h \in Hosts, RenewDone(h) PROVE ClaimIsBacked'
  BY <1>9, HostsAssumption
  DEF LEInv, LETypeOK, Phases, Roles, Checks, Answers, Clears, CheckMatchesRole, LifeMatchesRole, ClaimIsBacked, Claims, Leads, RenewDone, Done, Await, BecomeRole
<1>10. ASSUME NEW h \in Hosts, ReclaimDone(h) PROVE ClaimIsBacked'
  BY <1>10, HostsAssumption
  DEF LEInv, LETypeOK, Phases, Roles, Checks, Answers, Clears, CheckMatchesRole, LifeMatchesRole, ClaimIsBacked, Claims, Leads, ReclaimDone, Done, Await, BecomeRole
<1>11. ASSUME NEW h \in Hosts, GetDone(h) PROVE ClaimIsBacked'
  BY <1>11, HostsAssumption
  DEF LEInv, LETypeOK, Phases, Roles, Checks, Answers, Clears, CheckMatchesRole, LifeMatchesRole, ClaimIsBacked, Claims, Leads, GetDone, Done, Await, BecomeRole
<1>12. ASSUME NEW h \in Hosts, ClaimDone(h) PROVE ClaimIsBacked'
  BY <1>12, HostsAssumption
  DEF LEInv, LETypeOK, Phases, Roles, Checks, Answers, Clears, CheckMatchesRole, LifeMatchesRole, ClaimIsBacked, Claims, Leads, ClaimDone, Done, Await, BecomeRole
<1>13. ASSUME NEW h \in Hosts, CommandFails(h) PROVE ClaimIsBacked'
  BY <1>13, HostsAssumption
  DEF LEInv, LETypeOK, Phases, Roles, Checks, Answers, Clears, CheckMatchesRole, LifeMatchesRole, ClaimIsBacked, Claims, Leads, CommandFails, Done, Await, Fault, Unqueue, SetChecks
<1>14. ASSUME NEW h \in Hosts, Shutdown(h) PROVE ClaimIsBacked'
  BY <1>14, HostsAssumption
  DEF LEInv, LETypeOK, Phases, Roles, Checks, Answers, Clears, CheckMatchesRole, LifeMatchesRole, ClaimIsBacked, Claims, Shutdown, Leads, Fault
<1>15. ASSUME NEW h \in Hosts, ShutdownFollower(h) PROVE ClaimIsBacked'
  BY <1>15, HostsAssumption
  DEF LEInv, LETypeOK, Phases, Roles, Checks, Answers, Clears, CheckMatchesRole, LifeMatchesRole, ClaimIsBacked, Claims, Leads, ShutdownFollower, Gone, Done, Await, Fault
<1>16. ASSUME NEW h \in Hosts, Destroy(h) PROVE ClaimIsBacked'
  BY <1>16, HostsAssumption
  DEF LEInv, LETypeOK, Phases, Roles, Checks, Answers, Clears, CheckMatchesRole, LifeMatchesRole, ClaimIsBacked, Claims, Leads, Destroy, Gone, Done, Await
<1>17. ASSUME NEW h \in Hosts, ClearFails(h) PROVE ClaimIsBacked'
  BY <1>17, HostsAssumption
  DEF LEInv, LETypeOK, Phases, Roles, Checks, Answers, Clears, CheckMatchesRole, LifeMatchesRole, ClaimIsBacked, Claims, Leads, ClearFails, Gone, Done, Await, Fault
<1>18. ASSUME NEW h \in Hosts, Crash(h) PROVE ClaimIsBacked'
  BY <1>18, HostsAssumption
  DEF LEInv, LETypeOK, Phases, Roles, Checks, Answers, Clears, CheckMatchesRole, LifeMatchesRole, ClaimIsBacked, Claims, Leads, Crash, Gone, Done, Await, Fault
<1>19. CASE UNCHANGED leVars
  BY <1>19, HostsAssumption
  DEF LEInv, LETypeOK, Phases, Roles, Checks, Answers, Clears, CheckMatchesRole, LifeMatchesRole, ClaimIsBacked, Claims, Leads, leVars
<1>20. QED
  BY <1>1, <1>2, <1>3, <1>4, <1>5, <1>6, <1>7, <1>8, <1>9, <1>10, <1>11, <1>12, <1>13, <1>14, <1>15, <1>16, <1>17, <1>18, <1>19
  DEF LENext, RedisStep, CheckStep, ExitStep

-----------------------------------------------------------------------------

\* A claim is exclusive because the key names one host.
LEMMA BackedImpliesSole == ClaimIsBacked => SoleLeader
BY DEF ClaimIsBacked, SoleLeader, Claims

\* No main is up at first.
LEMMA ElectionInitially == LEInit => LEInv
<1>1. SUFFICES ASSUME LEInit PROVE LEInv
  OBVIOUS
<1>2. late \in [Hosts -> Seq({"set", "del"})]
  <2>1. <<>> \in Seq({"set", "del"})
    OBVIOUS
  <2>2. QED
    BY <1>1, <2>1 DEF LEInit
<1>3. LETypeOK
  <2>1. faults \in 0 .. MaxFaults
    BY <1>1, HostsAssumption DEF LEInit
  <2>2. /\ phase \in [Hosts -> Phases] /\ role \in [Hosts -> Roles]
        /\ check \in [Hosts -> Checks] /\ answer \in [Hosts -> Answers]
        /\ clear \in [Hosts -> Clears]
    BY <1>1 DEF LEInit, Phases, Roles, Checks, Answers, Clears
  <2>3. QED
    BY <1>1, <1>2, <2>1, <2>2 DEF LEInit, LETypeOK
<1>4. QED
  BY <1>1, <1>3
  DEF LEInit, LEInv, CheckMatchesRole, LifeMatchesRole, ClaimIsBacked, Claims, Leads

(***************************************************************************)
(* The inductive invariant of the election, for every set of mains and     *)
(* every number of faults.                                                 *)
(***************************************************************************)
THEOREM ElectionInvariant == LESpec => []LEInv
<1>1. LEInit => LEInv
  BY ElectionInitially
<1>2. LEInv /\ [LENext]_leVars => LEInv'
  BY TypeStep, RoleStep, ClaimStep DEF LEInv
<1>3. QED
  BY <1>1, <1>2, PTL DEF LESpec

(***************************************************************************)
(* Mains, Redis and their commands keep their types.                       *)
(***************************************************************************)
THEOREM ElectionTypeCorrect == LESpec => []LETypeOK
<1>1. LEInv => LETypeOK
  BY DEF LEInv
<1>2. QED
  BY <1>1, ElectionInvariant, PTL

(***************************************************************************)
(* The asserts of checkAreWeStillLeader, checkCanBecomeLeader,             *)
(* takeOverAsLeader and stepDownToFollower never fail: no check outlives   *)
(* the role it was started in.                                             *)
(***************************************************************************)
THEOREM ChecksMatchRoles == LESpec => []CheckMatchesRole
<1>1. LEInv => CheckMatchesRole
  BY DEF LEInv
<1>2. QED
  BY <1>1, ElectionInvariant, PTL

(***************************************************************************)
(* Two mains lead at once only after the key was removed under a main that *)
(* relied on it: timeouts, late commands, crashes and restarts alone never *)
(* split the leadership.                                                   *)
(***************************************************************************)
THEOREM NoSplitBrain == LESpec => []SoleLeader
<1>1. LEInv => SoleLeader
  BY BackedImpliesSole DEF LEInv
<1>2. QED
  BY <1>1, ElectionInvariant, PTL

-----------------------------------------------------------------------------
(* The wait trackers *)

\* A step of the election, or none.
LEMMA ElectionStep == [LWNext]_lwVars => [LENext]_leVars
<1> SUFFICES ASSUME [LWNext]_lwVars PROVE [LENext]_leVars
  OBVIOUS
<1>1. CASE Elsewhere
  BY <1>1, Zenon DEF Elsewhere, LENext
<1>2. ASSUME NEW h \in Hosts, TrackedCheckStep(h) \/ TrackedShutdown(h) \/ TrackedExit(h)
      PROVE  LENext
  BY <1>2, Zenon DEF TrackedCheckStep, TrackedShutdown, TrackedExit, LENext
<1>3. ASSUME NEW h \in Hosts, TrackerInit(h) \/ RegisterEventHandlers(h) \/ WaitingFound(h)
      PROVE  UNCHANGED leVars
  BY <1>3, Zenon DEF TrackerInit, RegisterEventHandlers, WaitingFound
<1>4. ASSUME NEW h \in Hosts, NEW e \in Execs, StartExecution(h, e) PROVE UNCHANGED leVars
  BY <1>4, Zenon DEF StartExecution
<1>5. ASSUME NEW e \in Execs, ReachesWait(e) PROVE UNCHANGED leVars
  BY <1>5, Zenon DEF ReachesWait
<1>6. CASE UNCHANGED lwVars
  BY <1>6 DEF lwVars
<1>7. QED
  BY <1>1, <1>2, <1>3, <1>4, <1>5, <1>6, Zenon DEF LWNext

(***************************************************************************)
(* Nothing that the trackers do changes the course of the election.        *)
(***************************************************************************)
THEOREM ElectionUndisturbed == LWSpec => LESpec
<1>1. LWInit => LEInit
  BY DEF LWInit
<1>2. QED
  BY <1>1, ElectionStep, PTL DEF LWSpec, LESpec

-----------------------------------------------------------------------------
(* The trackers *)

\* The types of the trackers alone, with that of armed.
TrackerTypes ==
    /\ boot \in [Hosts -> {"orchestrated", "tracking", "registered"}]
    /\ interval \in [Hosts -> BOOLEAN]
    /\ orphaned \in [Hosts -> BOOLEAN]
    /\ query \in [Hosts -> BOOLEAN]
    /\ tracked \in [Hosts -> SUBSET Execs]
    /\ armed \in [Hosts -> SUBSET Execs]
    /\ deaf \in [Hosts -> BOOLEAN]
    /\ row \in [Execs -> {"running", "waiting"}]

ArmedIsTracked == \A h \in Hosts : armed[h] \subseteq tracked[h]

\* A tracker is initialised by a main that is up, and gone before the main is not.
TrackerNeedsMain == \A h \in Hosts : phase[h] # "up" => boot[h] = "orchestrated"

(***************************************************************************)
(* Whoever leads polls, through every order of boot steps, takeovers and   *)
(* stepdowns: once WaitTracker.init has run, a main that leads has its     *)
(* interval running, except when it took over after init had looked at the *)
(* role and before registerEventHandlers.  It is the safety part of        *)
(* WaitsSurviveFailover.                                                   *)
(***************************************************************************)
LeaderPolls ==
    \A h \in Hosts : Leads(h) /\ boot[h] # "orchestrated" /\ ~deaf[h] => interval[h]

LWInv == LEInv /\ TrackerTypes /\ ArmedIsTracked /\ TrackerNeedsMain /\ LeaderPolls

\* What a step of main h may do to the trackers: those of the others stay as they are.
OnlyOn(h) ==
    \A i \in Hosts : i # h =>
        /\ boot'[i] = boot[i] /\ interval'[i] = interval[i] /\ tracked'[i] = tracked[i]
        /\ armed'[i] = armed[i] /\ deaf'[i] = deaf[i]

\* The events of h start or stop its tracker, and keep the types.
LEMMA EventEffect ==
    ASSUME TrackerTypes, ArmedIsTracked, NEW h \in Hosts, OnLeaderEvent(h), UNCHANGED row
    PROVE  /\ TrackerTypes' /\ ArmedIsTracked' /\ OnlyOn(h) /\ boot' = boot
           /\ role[h] # "leader" /\ role'[h] = "leader" /\ boot[h] = "registered" => interval'[h]
           /\ role[h] # "leader" /\ role'[h] = "leader" /\ boot[h] = "tracking" => deaf'[h]
           /\ role[h] = "leader" /\ role'[h] = "leader" =>
                 interval'[h] = interval[h] /\ (deaf[h] => deaf'[h])
<1> USE DEF TrackerTypes
<1>1. CASE /\ boot[h] = "registered" /\ role[h] # "leader" /\ role'[h] = "leader"
           /\ StartTracking(h)
  BY <1>1 DEF StartTracking, ArmedIsTracked, OnlyOn
<1>2. CASE /\ boot[h] = "registered" /\ role[h] = "leader" /\ role'[h] = "follower"
           /\ StopTracking(h)
  <2>1. /\ interval' = [interval EXCEPT ![h] = FALSE]
        /\ armed' = [armed EXCEPT ![h] = {}]
        /\ query' \in {query, [query EXCEPT ![h] = interval[h] \/ query[h]]}
        /\ UNCHANGED <<boot, orphaned, tracked, deaf>>
    BY <1>2 DEF StopTracking
  <2>2. query' \in [Hosts -> BOOLEAN]
    <3>1. (interval[h] \/ query[h]) \in BOOLEAN
      OBVIOUS
    <3>2. QED
      BY <2>1, <3>1
  <2>3. TrackerTypes'
    BY <2>1, <2>2
  <2>4. ArmedIsTracked' /\ OnlyOn(h)
    BY <2>1 DEF ArmedIsTracked, OnlyOn
  <2>5. QED
    BY <1>2, <2>1, <2>3, <2>4
<1>3. CASE /\ \/ boot[h] # "registered"
              \/ ~(\/ role[h] # "leader" /\ role'[h] = "leader"
                   \/ role[h] = "leader" /\ role'[h] = "follower")
           /\ deaf' = [deaf EXCEPT ![h] =
                deaf[h] \/ (boot[h] = "tracking" /\ role[h] # "leader" /\ role'[h] = "leader")]
           /\ UNCHANGED <<boot, interval, orphaned, query, tracked, armed>>
  <2> DEFINE d == deaf[h] \/ (boot[h] = "tracking" /\ role[h] # "leader" /\ role'[h] = "leader")
  <2>1. d \in BOOLEAN
    OBVIOUS
  <2>2. deaf' = [deaf EXCEPT ![h] = d]
    BY <1>3
  <2>3. /\ deaf' \in [Hosts -> BOOLEAN] /\ deaf'[h] = d
        /\ \A i \in Hosts : i # h => deaf'[i] = deaf[i]
    <3> HIDE DEF d
    <3>1. QED
      BY <2>1, <2>2
  <2>4. TrackerTypes' /\ ArmedIsTracked' /\ OnlyOn(h)
    BY <1>3, <2>3 DEF ArmedIsTracked, OnlyOn
  <2>5. QED
    BY <1>3, <2>3, <2>4
<1>4. QED
  BY <1>1, <1>2, <1>3, Zenon DEF OnLeaderEvent

\* The tracker of h ends with its process.
LEMMA GoneEffect ==
    ASSUME TrackerTypes, ArmedIsTracked, NEW h \in Hosts, TrackerGone(h), UNCHANGED row
    PROVE  TrackerTypes' /\ ArmedIsTracked' /\ OnlyOn(h) /\ boot'[h] = "orchestrated"
BY DEF TrackerTypes, ArmedIsTracked, TrackerGone, OnlyOn

\* A step of one main leaves role and phase of the others alone.
OthersKeep(h) == \A i \in Hosts : i # h => role'[i] = role[i] /\ phase'[i] = phase[i]

\* The role of h may change, and its boot may end, in a step of its check.
LEMMA CheckEffect ==
    ASSUME LEInv, NEW h \in Hosts, CheckStep(h)
    PROVE  /\ OthersKeep(h) /\ phase[h] \in {"starting", "up", "stopping"}
           /\ phase'[h] = IF phase[h] = "starting" THEN "up" ELSE phase[h]
<1> USE DEF LEInv, LETypeOK, CheckMatchesRole, LifeMatchesRole, OthersKeep, BecomeRole
<1>1. CASE InitDone(h)
  BY <1>1 DEF InitDone
<1>2. CASE RenewDone(h)
  BY <1>2 DEF RenewDone, Phases
<1>3. CASE ReclaimDone(h)
  BY <1>3 DEF ReclaimDone, Phases
<1>4. CASE GetDone(h)
  BY <1>4 DEF GetDone, Phases
<1>5. CASE ClaimDone(h)
  BY <1>5 DEF ClaimDone, Phases
<1>6. CASE CommandFails(h)
  BY <1>6 DEF CommandFails, Phases, Checks
<1>7. QED
  BY <1>1, <1>2, <1>3, <1>4, <1>5, <1>6 DEF CheckStep

LEMMA ExitEffect ==
    ASSUME LETypeOK, NEW h \in Hosts, Shutdown(h) \/ ExitStep(h)
    PROVE  OthersKeep(h) /\ phase'[h] # "up"
BY DEF LETypeOK, OthersKeep, Shutdown, ExitStep, ShutdownFollower, Destroy, ClearFails, Crash, Gone

\* Redis steps and new checks change no role, and no main is up because of them.
LEMMA ElsewhereEffect ==
    ASSUME LETypeOK, Elsewhere
    PROVE  /\ role' = role
           /\ \A h \in Hosts : phase'[h] = phase[h] \/ (phase[h] = "down" /\ phase'[h] = "starting")
<1>1. CASE RedisStep
  BY <1>1 DEF RedisStep, Execute, ExecuteLate, ExecuteClear, Expire, LeaseLapses
<1>2. ASSUME NEW h \in Hosts, Start(h) \/ CheckLeader(h)
      PROVE  /\ role' = role
             /\ \A i \in Hosts : phase'[i] = phase[i] \/ (phase[i] = "down" /\ phase'[i] = "starting")
  BY <1>2 DEF LETypeOK, Start, CheckLeader
<1>3. QED
  BY <1>1, <1>2 DEF Elsewhere

\* Steps of the trackers proper leave the election alone.
LEMMA TrackerKeepsRoles == UNCHANGED leVars => role' = role /\ phase' = phase
BY DEF leVars

\* A step that leaves roles and phases alone keeps the invariant if it keeps every
\* tracker that was initialised polling.
LEMMA TrackerStep ==
    ASSUME LWInv, [LENext]_leVars, role' = role, phase' = phase, TrackerTypes', ArmedIsTracked',
           \A h \in Hosts :
              \/ boot'[h] = boot[h] /\ interval'[h] = interval[h] /\ deaf'[h] = deaf[h]
              \/ boot'[h] = "orchestrated"
              \/ phase[h] = "up" /\ (Leads(h) => interval'[h])
              \/ /\ phase[h] = "up" /\ boot[h] # "orchestrated"
                 /\ interval'[h] = interval[h] /\ deaf'[h] = deaf[h]
    PROVE  LWInv'
<1>1. LEInv'
  BY TypeStep, RoleStep, ClaimStep DEF LWInv, LEInv
<1>2. TrackerNeedsMain'
  BY DEF LWInv, TrackerNeedsMain
<1>3. LeaderPolls'
  BY DEF LWInv, LeaderPolls, Leads, TrackerNeedsMain
<1>4. QED
  BY <1>1, <1>2, <1>3 DEF LWInv

\* Every step of the mains keeps the invariant.
LEMMA LWStep == LWInv /\ [LWNext]_lwVars => LWInv'
<1> SUFFICES ASSUME LWInv, [LWNext]_lwVars PROVE LWInv'
  OBVIOUS
<1>0. /\ [LENext]_leVars /\ LEInv' /\ LETypeOK
      /\ LEInv /\ TrackerTypes /\ ArmedIsTracked /\ TrackerNeedsMain /\ LeaderPolls
  BY ElectionStep, TypeStep, RoleStep, ClaimStep DEF LWInv, LEInv
<1>1. CASE Elsewhere
  <2>1. UNCHANGED <<trackerVars, row>>
    BY <1>1 DEF Elsewhere
  <2>2. UNCHANGED <<boot, interval, orphaned, query, tracked, armed, deaf, row>>
    BY <2>1 DEF trackerVars
  <2>3. /\ role' = role
        /\ \A h \in Hosts : phase'[h] = phase[h] \/ (phase[h] = "down" /\ phase'[h] = "starting")
    BY <1>0, <1>1, ElsewhereEffect
  <2>4. TrackerTypes' /\ ArmedIsTracked'
    BY <1>0, <2>2 DEF TrackerTypes, ArmedIsTracked
  <2>5. TrackerNeedsMain' /\ LeaderPolls'
    BY <1>0, <2>2, <2>3 DEF TrackerNeedsMain, LeaderPolls, Leads
  <2>6. QED
    BY <1>0, <2>4, <2>5 DEF LWInv
<1>2. ASSUME NEW h \in Hosts, TrackedCheckStep(h) PROVE LWInv'
  <2>1. CheckStep(h) /\ OnLeaderEvent(h) /\ UNCHANGED row
    BY <1>2 DEF TrackedCheckStep
  <2>2. /\ TrackerTypes' /\ ArmedIsTracked' /\ OnlyOn(h) /\ boot' = boot
        /\ role[h] # "leader" /\ role'[h] = "leader" /\ boot[h] = "registered" => interval'[h]
        /\ role[h] # "leader" /\ role'[h] = "leader" /\ boot[h] = "tracking" => deaf'[h]
        /\ role[h] = "leader" /\ role'[h] = "leader" =>
              interval'[h] = interval[h] /\ (deaf[h] => deaf'[h])
    BY <1>0, <2>1, EventEffect
  <2>3. /\ OthersKeep(h) /\ phase[h] \in {"starting", "up", "stopping"}
        /\ phase'[h] = IF phase[h] = "starting" THEN "up" ELSE phase[h]
    BY <1>0, <2>1, CheckEffect
  <2>4. TrackerNeedsMain'
    BY <1>0, <2>2, <2>3 DEF TrackerNeedsMain, OthersKeep
  <2>5. ASSUME NEW i \in Hosts, Leads(i)', boot'[i] # "orchestrated", ~deaf'[i]
        PROVE  interval'[i]
    <3>1. CASE i # h
      BY <1>0, <2>2, <2>3, <2>5, <3>1 DEF LeaderPolls, Leads, OnlyOn, OthersKeep
    <3>2. CASE i = h
      <4>1. phase[h] = "up" /\ boot[h] \in {"tracking", "registered"}
        BY <1>0, <2>2, <2>3, <2>5, <3>2 DEF TrackerNeedsMain, Leads, TrackerTypes
      <4>2. CASE role[h] = "leader"
        BY <1>0, <2>2, <2>5, <3>2, <4>1, <4>2 DEF LeaderPolls, Leads
      <4>3. CASE role[h] # "leader"
        BY <2>2, <2>5, <3>2, <4>1, <4>3 DEF Leads
      <4>4. QED
        BY <4>2, <4>3
    <3>3. QED
      BY <3>1, <3>2
  <2>6. QED
    BY <1>0, <2>2, <2>4, <2>5 DEF LWInv, LeaderPolls
<1>3. ASSUME NEW h \in Hosts, TrackedShutdown(h) \/ TrackedExit(h) PROVE LWInv'
  <2>1. (Shutdown(h) \/ ExitStep(h)) /\ TrackerGone(h) /\ UNCHANGED row
    BY <1>3, Zenon DEF TrackedShutdown, TrackedExit
  <2>2. TrackerTypes' /\ ArmedIsTracked' /\ OnlyOn(h) /\ boot'[h] = "orchestrated"
    BY <1>0, <2>1, GoneEffect
  <2>3. OthersKeep(h)
    BY <1>0, <2>1, ExitEffect
  <2>4. TrackerNeedsMain' /\ LeaderPolls'
    BY <1>0, <2>2, <2>3 DEF TrackerNeedsMain, LeaderPolls, Leads, OnlyOn, OthersKeep
  <2>5. QED
    BY <1>0, <2>2, <2>4 DEF LWInv
<1>4. ASSUME NEW h \in Hosts, TrackerInit(h) PROVE LWInv'
  <2>1. role' = role /\ phase' = phase
    BY <1>4, TrackerKeepsRoles DEF TrackerInit
  <2>2. TrackerTypes' /\ ArmedIsTracked'
    BY <1>0, <1>4 DEF TrackerInit, TrackerTypes, ArmedIsTracked
  <2>3. ASSUME NEW i \in Hosts
        PROVE  \/ boot'[i] = boot[i] /\ interval'[i] = interval[i] /\ deaf'[i] = deaf[i]
               \/ phase[i] = "up" /\ (Leads(i) => interval'[i])
    BY <1>0, <1>4 DEF TrackerInit, TrackerTypes, Leads
  <2>4. QED
    BY <1>0, <2>1, <2>2, <2>3, TrackerStep
<1>5. ASSUME NEW h \in Hosts, RegisterEventHandlers(h) PROVE LWInv'
  <2>1. role' = role /\ phase' = phase
    BY <1>5, TrackerKeepsRoles DEF RegisterEventHandlers
  <2>2. TrackerTypes' /\ ArmedIsTracked'
    BY <1>0, <1>5 DEF RegisterEventHandlers, TrackerTypes, ArmedIsTracked
  <2>3. ASSUME NEW i \in Hosts
        PROVE  \/ boot'[i] = boot[i] /\ interval'[i] = interval[i] /\ deaf'[i] = deaf[i]
               \/ /\ phase[i] = "up" /\ boot[i] # "orchestrated"
                  /\ interval'[i] = interval[i] /\ deaf'[i] = deaf[i]
    BY <1>0, <1>5 DEF RegisterEventHandlers, TrackerTypes
  <2>4. QED
    BY <1>0, <2>1, <2>2, <2>3, TrackerStep
<1>6. ASSUME NEW h \in Hosts, WaitingFound(h) PROVE LWInv'
  <2>1. UNCHANGED <<row, boot, interval, orphaned, deaf>> /\ role' = role /\ phase' = phase
    BY <1>6, TrackerKeepsRoles DEF WaitingFound
  <2>2. TrackerTypes' /\ ArmedIsTracked'
    BY <1>0, <1>6 DEF WaitingFound, TrackerTypes, ArmedIsTracked
  <2>3. QED
    BY <1>0, <2>1, <2>2, TrackerStep
<1>7. ASSUME NEW h \in Hosts, NEW e \in Execs, StartExecution(h, e) PROVE LWInv'
  <2>1. UNCHANGED <<boot, interval, orphaned, query, deaf>> /\ role' = role /\ phase' = phase
    BY <1>7, TrackerKeepsRoles DEF StartExecution
  <2>2. TrackerTypes' /\ ArmedIsTracked'
    BY <1>0, <1>7 DEF StartExecution, TrackerTypes, ArmedIsTracked
  <2>3. QED
    BY <1>0, <2>1, <2>2, TrackerStep
<1>8. ASSUME (\E e \in Execs : ReachesWait(e)) \/ UNCHANGED lwVars PROVE LWInv'
  <2>1. /\ UNCHANGED <<boot, interval, orphaned, query, tracked, armed, deaf>>
        /\ role' = role /\ phase' = phase
    BY <1>8, TrackerKeepsRoles DEF ReachesWait, trackerVars, lwVars
  <2>2. row' \in [Execs -> {"running", "waiting"}]
    BY <1>0, <1>8 DEF ReachesWait, lwVars, TrackerTypes
  <2>3. TrackerTypes' /\ ArmedIsTracked'
    BY <1>0, <2>1, <2>2 DEF TrackerTypes, ArmedIsTracked
  <2>4. QED
    BY <1>0, <2>1, <2>3, TrackerStep
<1>9. QED
  BY <1>1, <1>2, <1>3, <1>4, <1>5, <1>6, <1>7, <1>8, Zenon DEF LWNext

\* LWInv holds in every state of the mains.
THEOREM TrackingInvariant == LWSpec => []LWInv
<1>1. LWInit => LWInv
  <2> SUFFICES ASSUME LWInit PROVE LWInv
    OBVIOUS
  <2>1. LEInit => LEInv
    BY ElectionInitially
  <2>2. TrackerTypes /\ ArmedIsTracked /\ TrackerNeedsMain /\ LeaderPolls
    BY DEF LWInit, TrackerTypes, ArmedIsTracked, TrackerNeedsMain, LeaderPolls
  <2>3. QED
    BY <2>1, <2>2 DEF LWInv, LWInit
<1>2. LWInv /\ [LWNext]_lwVars => LWInv'
  BY LWStep
<1>3. QED
  BY <1>1, <1>2, PTL DEF LWSpec

\* Mains, trackers and rows keep their types, and every running timer has its entry in
\* waitingExecutions.
THEOREM TrackingTypeCorrect == LWSpec => []LWTypeOK
<1>1. LWInv => LWTypeOK
  BY DEF LWInv, LEInv, TrackerTypes, ArmedIsTracked, LWTypeOK
<1>2. QED
  BY <1>1, TrackingInvariant, PTL

\* A leader polls for waiting executions, whatever takeovers and stepdowns met its boot,
\* unless it took over between WaitTracker.init and registerEventHandlers.
THEOREM LeadersPoll == LWSpec => []LeaderPolls
<1>1. LWInv => LeaderPolls
  BY DEF LWInv
<1>2. QED
  BY <1>1, TrackingInvariant, PTL

\* With their trackers running, too, two mains lead at once only after a lease was lost.
THEOREM TrackersHaveOneLeader == LWSpec => []SoleLeader
BY ElectionUndisturbed, NoSplitBrain, PTL

=============================================================================
