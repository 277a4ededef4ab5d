------------------------- MODULE TaskBroker_proofs -------------------------
(***************************************************************************)
(* The task broker proved for any number of requests, runners, task ids    *)
(* and offers: a runner is never over capacity, every waiting caller is    *)
(* owed an answer, broker and runner agree on the tasks they share, and    *)
(* broker, requester and runners together implement TaskContract.          *)
(*                                                                         *)
(* All of it rests on where a task id may turn up.  A task goes through    *)
(* the stations asked (the runner has to accept), replied, settings sent,  *)
(* executed, ended; TaskOK says which of them exclude each other, for      *)
(* messages that may wait in a connection for any time while timers fire   *)
(* on both sides.  OwnInv and ChannelInv say that a task id travels on one *)
(* connection only, where a station is announced once and in order.        *)
(* RequestOK ties the request to its task id.                              *)
(***************************************************************************)
EXTENDS TaskBroker, SequenceLemmas, FiniteSetTheorems

-----------------------------------------------------------------------------
(* The invariant *)

Attempt == [request : Requests, runner : Runners, state : AcceptStates]

ToRunnerMsg ==
    [type : {"runnerregistered", "drain"}, task : {NoTask}, offer : {"none"}]
    \cup [type : {"taskofferaccept"}, task : Tasks, offer : Offers]
    \cup [type : {"tasksettings", "taskcancel"}, task : Tasks, offer : {"none"}]

ToBrokerMsg ==
    [type : {"taskoffer"}, task : {NoTask}, offer : Offers]
    \cup [type : {"taskaccepted", "taskrejected", "taskdone", "taskerror"}, task : Tasks,
          offer : {"none"}]

\* The types of the broker's and of the requester's state.
BrokerTypes ==
    /\ knownRunners \in SUBSET Runners
    /\ pendingTaskOffers \in Seq([runner : knownRunners, offer : Offers])
    /\ pendingTaskRequests \in Seq(Requests)
    /\ acceptInProgress \in SUBSET Requests
    /\ attempts \in Seq(Attempt) /\ Len(attempts) <= MaxTasks
    /\ tasks \in SUBSET DOMAIN attempts
    /\ isDraining \in BOOLEAN
    /\ job \in [Requests -> JobStates]
    /\ taskIdOf \in [Requests -> Tasks \cup {NoTask}]

\* The types of the runners' state, and of the connections.
RunnerTypes ==
    /\ process \in [Runners -> {"new", "up", "gone"}]
    /\ canSendOffers \in [Runners -> BOOLEAN]
    /\ runnerDraining \in [Runners -> BOOLEAN]
    /\ openOffers \in [Runners -> SUBSET Offers]
    /\ runningTasks \in [Runners -> [Tasks -> TaskStatuses]]
    /\ executed \in SUBSET DOMAIN attempts

ChannelTypes ==
    /\ toRunner \in [Runners -> Seq(ToRunnerMsg)]
    /\ toBroker \in [Runners -> Seq(ToBrokerMsg)]

\* A message about task t, of one of these types, is in the connection.
Has(s, types, t) == \E i \in DOMAIN s : s[i].type \in types /\ s[i].task = t

Mentions(s, t) == \E i \in DOMAIN s : s[i].task = t

\* No two messages of these types are about the same task.
Once(s, types) ==
    \A i, j \in DOMAIN s :
        s[i].type \in types /\ s[i].type = s[j].type /\ s[i].task = s[j].task => i = j

EndTypes == {"taskdone", "taskerror"}

\* The end of a task is never announced before its acceptance.
InOrder(s) ==
    \A i, j \in DOMAIN s :
        s[i].type = "taskaccepted" /\ s[j].type \in EndTypes /\ s[i].task = s[j].task => i < j

RunnerOnce == {"taskofferaccept", "tasksettings"}
BrokerOnce == {"taskaccepted"}

ChannelInv ==
    \A n \in Runners :
        /\ Once(toRunner[n], RunnerOnce)
        /\ Once(toBroker[n], BrokerOnce) /\ InOrder(toBroker[n])

\* The stations of task t on runner n.
Asked(n, t) == Has(toRunner[n], {"taskofferaccept"}, t)
Replied(n, t) == Has(toBroker[n], {"taskaccepted"}, t)
SettingsSent(n, t) == Has(toRunner[n], {"tasksettings"}, t)
CancelSent(n, t) == Has(toRunner[n], {"taskcancel"}, t)
Ended(n, t) == Has(toBroker[n], EndTypes, t)
EndedWell(n, t) == Has(toBroker[n], {"taskdone"}, t)

Owns(n, t) == t \in DOMAIN attempts /\ attempts[t].runner = n

\* Only the runner that was asked ever hears or speaks of a task.
OwnInv ==
    \A n \in Runners, t \in Tasks :
        \/ Mentions(toRunner[n], t) \/ Mentions(toBroker[n], t) \/ runningTasks[n][t] # "none"
        => Owns(n, t)

AtWork == {"waitingForSettings", "running", "aborting:timeout"}

TaskOK(n, t) ==
    /\ process[n] # "new"
    /\ Asked(n, t) =>
          /\ ~Replied(n, t) /\ ~SettingsSent(n, t) /\ ~CancelSent(n, t) /\ ~Ended(n, t)
          /\ t \notin tasks /\ t \notin executed /\ runningTasks[n][t] = "none"
    /\ Replied(n, t) =>
          /\ ~SettingsSent(n, t) /\ ~CancelSent(n, t)
          /\ t \notin tasks /\ t \notin executed
          /\ runningTasks[n][t] \in {"none", "waitingForSettings"}
    /\ SettingsSent(n, t) =>
          t \notin executed /\ runningTasks[n][t] \in {"none", "waitingForSettings"}
    /\ CancelSent(n, t) \/ runningTasks[n][t] = "aborting:cancelled" => t \notin tasks
    /\ runningTasks[n][t] \notin {"none", "waitingForSettings"} => t \in executed
    /\ EndedWell(n, t) => t \in executed
    /\ t \in tasks => n \in knownRunners
    /\ process[n] = "up" /\ n \in knownRunners /\ Replied(n, t) =>
          runningTasks[n][t] = "waitingForSettings" \/ Ended(n, t)
    /\ process[n] = "up" /\ t \in tasks => runningTasks[n][t] \in AtWork \/ Ended(n, t)

TasksInv == \A n \in Runners, t \in Tasks : Owns(n, t) => TaskOK(n, t)

\* A request and the task id it was given.
RequestOK(r) ==
    /\ r \in ToSet(pendingTaskRequests) <=> job[r] = "requested"
    /\ job[r] \in {"idle", "requested", "expired"} => taskIdOf[r] = NoTask
    /\ job[r] = "started" => taskIdOf[r] \in tasks
    /\ job[r] = "done" => taskIdOf[r] \in executed
    /\ taskIdOf[r] # NoTask =>
          taskIdOf[r] \in DOMAIN attempts /\ attempts[taskIdOf[r]].request = r

RequestsInv ==
    /\ \A r \in Requests : RequestOK(r)
    /\ \A i, j \in DOMAIN pendingTaskRequests :
          pendingTaskRequests[i] = pendingTaskRequests[j] => i = j

\* Code runs only for the task id that the request was given.
GivenInv ==
    \A n \in Runners, t \in Tasks :
        Owns(n, t) /\ (SettingsSent(n, t) \/ t \in executed) => taskIdOf[attempts[t].request] = t

KnownInv == \A n \in knownRunners : process[n] # "new"

BInv ==
    /\ BrokerTypes /\ RunnerTypes /\ ChannelTypes
    /\ ChannelInv /\ OwnInv /\ TasksInv /\ RequestsInv /\ GivenInv /\ KnownInv
    /\ RunnerWithinCapacity

-----------------------------------------------------------------------------
(* Connections: what a message that is sent or received changes *)

\* An empty connection has no message.
LEMMA EmptyChannel ==
    /\ \A T, t : ~Has(<<>>, T, t)
    /\ \A t : ~Mentions(<<>>, t)
    /\ \A T : Once(<<>>, T)
    /\ InOrder(<<>>)
BY DEF Has, Mentions, Once, InOrder

\* What a message of the connection is about.
LEMMA HasMentions ==
    ASSUME NEW s, NEW T, NEW t, Has(s, T, t)
    PROVE  Mentions(s, t)
BY DEF Has, Mentions

\* The next message is received: the others stay, and it was the only one of
\* its type that is about its task.
LEMMA TailChannel ==
    ASSUME NEW S, NEW s \in Seq(S), s # <<>>
    PROVE  /\ Tail(s) \in Seq(S) /\ Head(s) \in S
           /\ \A T, t : Has(s, T, t)
                 <=> Has(Tail(s), T, t) \/ (Head(s).type \in T /\ Head(s).task = t)
           /\ \A t : Mentions(s, t) <=> Mentions(Tail(s), t) \/ Head(s).task = t
           /\ \A T : Once(s, T) =>
                 /\ Once(Tail(s), T)
                 /\ Head(s).type \in T => ~Has(Tail(s), {Head(s).type}, Head(s).task)
           /\ InOrder(s) =>
                 /\ InOrder(Tail(s))
                 /\ Head(s).type \in EndTypes => ~Has(Tail(s), {"taskaccepted"}, Head(s).task)
<1> DEFINE u == Tail(s)
<1>1. /\ u \in Seq(S) /\ Head(s) \in S /\ Head(s) = s[1]
      /\ Len(s) \in Nat \ {0} /\ Len(u) = Len(s) - 1
      /\ \A i \in 1..Len(u) : u[i] = s[i + 1]
  BY HeadTailProperties, EmptySeq, LenProperties
<1>2. DOMAIN s = 1..Len(s) /\ DOMAIN u = 1..Len(u)
  BY <1>1, LenProperties
<1> HIDE DEF u
<1>3. \A i \in DOMAIN u : i + 1 \in DOMAIN s /\ u[i] = s[i + 1] /\ i + 1 # 1 /\ 1 \in DOMAIN s
  BY <1>1, <1>2
<1>4. \A i \in DOMAIN s : i = 1 \/ (i - 1 \in DOMAIN u /\ u[i - 1] = s[i])
  <2>1. TAKE i \in DOMAIN s
  <2>2. CASE i # 1
    <3>1. i - 1 \in 1..Len(u) /\ (i - 1) + 1 = i
      BY <1>1, <1>2, <2>2
    <3>2. QED
      BY <1>1, <1>2, <3>1
  <2>3. QED
    BY <2>2
<1>5. 1 \in DOMAIN s
  BY <1>1, <1>2
<1>6. ASSUME NEW T, NEW t
      PROVE  Has(s, T, t) <=> Has(u, T, t) \/ (Head(s).type \in T /\ Head(s).task = t)
  BY <1>1, <1>3, <1>4, <1>5 DEF Has
<1>7. ASSUME NEW t
      PROVE  Mentions(s, t) <=> Mentions(u, t) \/ Head(s).task = t
  BY <1>1, <1>3, <1>4, <1>5 DEF Mentions
<1>8. ASSUME NEW T, Once(s, T)
      PROVE  /\ Once(u, T)
             /\ Head(s).type \in T => ~Has(u, {Head(s).type}, Head(s).task)
  <2>1. Once(u, T)
    <3>1. SUFFICES ASSUME NEW i \in DOMAIN u, NEW j \in DOMAIN u,
                          u[i].type \in T, u[i].type = u[j].type, u[i].task = u[j].task
                   PROVE  i = j
      BY DEF Once
    <3>2. i + 1 = j + 1
      BY <1>3, <1>8, <3>1 DEF Once
    <3>3. QED
      BY <1>1, <1>2, <3>2
  <2>2. ASSUME Head(s).type \in T, Has(u, {Head(s).type}, Head(s).task) PROVE FALSE
    <3>1. PICK i \in DOMAIN u : u[i].type = Head(s).type /\ u[i].task = Head(s).task
      BY <2>2 DEF Has
    <3>2. i + 1 = 1
      BY <1>1, <1>3, <1>5, <1>8, <2>2, <3>1 DEF Once
    <3>3. QED
      BY <1>3, <3>2
  <2>3. QED
    BY <2>1, <2>2
<1>9. ASSUME InOrder(s)
      PROVE  /\ InOrder(u)
             /\ Head(s).type \in EndTypes => ~Has(u, {"taskaccepted"}, Head(s).task)
  <2>1. InOrder(u)
    <3>1. SUFFICES ASSUME NEW i \in DOMAIN u, NEW j \in DOMAIN u, u[i].type = "taskaccepted",
                          u[j].type \in EndTypes, u[i].task = u[j].task
                   PROVE  i < j
      BY DEF InOrder
    <3>2. i + 1 < j + 1
      BY <1>3, <1>9, <3>1 DEF InOrder
    <3>3. QED
      BY <1>1, <1>2, <3>2
  <2>2. ASSUME Head(s).type \in EndTypes, Has(u, {"taskaccepted"}, Head(s).task) PROVE FALSE
    <3>1. PICK i \in DOMAIN u : u[i].type = "taskaccepted" /\ u[i].task = Head(s).task
      BY <2>2 DEF Has
    <3>2. i + 1 < 1
      BY <1>1, <1>3, <1>5, <1>9, <2>2, <3>1 DEF InOrder
    <3>3. QED
      BY <1>1, <1>2, <3>2
  <2>3. QED
    BY <2>1, <2>2
<1>10. QED
  BY <1>1, <1>6, <1>7, <1>8, <1>9 DEF u

\* More messages are sent.
LEMMA ConcatChannel ==
    ASSUME NEW S, NEW a \in Seq(S), NEW b \in Seq(S)
    PROVE  /\ a \o b \in Seq(S)
           /\ \A T, t : Has(a \o b, T, t) <=> Has(a, T, t) \/ Has(b, T, t)
           /\ \A t : Mentions(a \o b, t) <=> Mentions(a, t) \/ Mentions(b, t)
           /\ \A T : /\ Once(a, T) /\ Once(b, T)
                     /\ \A t : \A y \in T : ~(Has(a, {y}, t) /\ Has(b, {y}, t))
                     => Once(a \o b, T)
           /\ /\ InOrder(a) /\ InOrder(b)
              /\ \A t : ~(Has(a, EndTypes, t) /\ Has(b, {"taskaccepted"}, t))
              => InOrder(a \o b)
<1> DEFINE c == a \o b
           At(i, j) == j = i + Len(a)
<1>1. /\ c \in Seq(S) /\ Len(c) = Len(a) + Len(b)
      /\ Len(a) \in Nat /\ Len(b) \in Nat
      /\ DOMAIN a = 1..Len(a) /\ DOMAIN b = 1..Len(b)
      /\ \A i \in 1..(Len(a) + Len(b)) : c[i] = IF i <= Len(a) THEN a[i] ELSE b[i - Len(a)]
  BY ConcatProperties, LenProperties
<1>2. DOMAIN c = 1..(Len(a) + Len(b))
  BY <1>1, LenProperties
<1> HIDE DEF c
<1>3. \A i \in DOMAIN c : \/ i \in DOMAIN a /\ c[i] = a[i]
                          \/ i - Len(a) \in DOMAIN b /\ c[i] = b[i - Len(a)] /\ i > Len(a)
  BY <1>1, <1>2
<1>4. \A i \in DOMAIN a : i \in DOMAIN c /\ c[i] = a[i]
  BY <1>1, <1>2
<1>5. \A i \in DOMAIN b : i + Len(a) \in DOMAIN c /\ c[i + Len(a)] = b[i]
  <2>1. TAKE i \in DOMAIN b
  <2>2. i + Len(a) \in 1..(Len(a) + Len(b)) /\ ~(i + Len(a) <= Len(a)) /\ i + Len(a) - Len(a) = i
    BY <1>1
  <2>3. QED
    BY <1>1, <1>2, <2>2
<1>6. ASSUME NEW T, NEW t
      PROVE  Has(c, T, t) <=> Has(a, T, t) \/ Has(b, T, t)
  BY <1>3, <1>4, <1>5 DEF Has
<1>7. ASSUME NEW t
      PROVE  Mentions(c, t) <=> Mentions(a, t) \/ Mentions(b, t)
  BY <1>3, <1>4, <1>5 DEF Mentions
<1>8. ASSUME NEW T, Once(a, T), Once(b, T), \A t : \A y \in T : ~(Has(a, {y}, t) /\ Has(b, {y}, t))
      PROVE  Once(c, T)
  <2>1. SUFFICES ASSUME NEW i \in DOMAIN c, NEW j \in DOMAIN c,
                        c[i].type \in T, c[i].type = c[j].type, c[i].task = c[j].task
                 PROVE  i = j
    BY DEF Once
  <2>2. CASE i \in DOMAIN a /\ c[i] = a[i] /\ j \in DOMAIN a /\ c[j] = a[j]
    BY <1>8, <2>1, <2>2 DEF Once
  <2>3. CASE /\ i - Len(a) \in DOMAIN b /\ c[i] = b[i - Len(a)]
             /\ j - Len(a) \in DOMAIN b /\ c[j] = b[j - Len(a)]
    <3>1. i - Len(a) = j - Len(a)
      BY <1>8, <2>1, <2>3 DEF Once
    <3>2. QED
      BY <1>1, <1>2, <3>1
  <2>4. CASE i \in DOMAIN a /\ c[i] = a[i] /\ j - Len(a) \in DOMAIN b /\ c[j] = b[j - Len(a)]
    <3>1. Has(a, {c[i].type}, c[i].task) /\ Has(b, {c[i].type}, c[i].task)
      BY <2>1, <2>4 DEF Has
    <3>2. QED
      BY <1>8, <2>1, <3>1
  <2>5. CASE j \in DOMAIN a /\ c[j] = a[j] /\ i - Len(a) \in DOMAIN b /\ c[i] = b[i - Len(a)]
    <3>1. Has(a, {c[i].type}, c[i].task) /\ Has(b, {c[i].type}, c[i].task)
      BY <2>1, <2>5 DEF Has
    <3>2. QED
      BY <1>8, <2>1, <3>1
  <2>6. QED
    BY <1>3, <2>2, <2>3, <2>4, <2>5
<1>9. ASSUME InOrder(a), InOrder(b),
             \A t : ~(Has(a, EndTypes, t) /\ Has(b, {"taskaccepted"}, t))
      PROVE  InOrder(c)
  <2>1. SUFFICES ASSUME NEW i \in DOMAIN c, NEW j \in DOMAIN c, c[i].type = "taskaccepted",
                        c[j].type \in EndTypes, c[i].task = c[j].task
                 PROVE  i < j
    BY DEF InOrder
  <2>2. CASE i \in DOMAIN a /\ c[i] = a[i] /\ j \in DOMAIN a /\ c[j] = a[j]
    BY <1>9, <2>1, <2>2 DEF InOrder
  <2>3. CASE /\ i - Len(a) \in DOMAIN b /\ c[i] = b[i - Len(a)]
             /\ j - Len(a) \in DOMAIN b /\ c[j] = b[j - Len(a)]
    <3>1. i - Len(a) < j - Len(a)
      BY <1>9, <2>1, <2>3 DEF InOrder
    <3>2. QED
      BY <1>1, <1>2, <3>1
  <2>4. CASE i \in DOMAIN a /\ j - Len(a) \in DOMAIN b /\ j > Len(a)
    BY <1>1, <1>2, <2>4
  <2>5. CASE j \in DOMAIN a /\ c[j] = a[j] /\ i - Len(a) \in DOMAIN b /\ c[i] = b[i - Len(a)]
    <3>1. Has(a, EndTypes, c[i].task) /\ Has(b, {"taskaccepted"}, c[i].task)
      BY <2>1, <2>5 DEF Has
    <3>2. QED
      BY <1>9, <3>1
  <2>6. QED
    BY <1>3, <2>2, <2>3, <2>4, <2>5
<1>10. QED
  BY <1>1, <1>6, <1>7, <1>8, <1>9 DEF c

\* One more message is sent.
LEMMA AppendChannel ==
    ASSUME NEW S, NEW s \in Seq(S), NEW m \in S
    PROVE  /\ Append(s, m) \in Seq(S)
           /\ \A T, t : Has(Append(s, m), T, t)
                 <=> Has(s, T, t) \/ (m.type \in T /\ m.task = t)
           /\ \A t : Mentions(Append(s, m), t) <=> Mentions(s, t) \/ m.task = t
           /\ \A T : Once(s, T) /\ (m.type \in T => ~Has(s, {m.type}, m.task))
                 => Once(Append(s, m), T)
           /\ InOrder(s) /\ (m.type = "taskaccepted" => ~Has(s, EndTypes, m.task))
                 => InOrder(Append(s, m))
<1> DEFINE b == <<m>>
<1>1. /\ b \in Seq(S) /\ Append(s, m) = s \o b
      /\ DOMAIN b = {1} /\ b[1] = m
  BY AppendIsConcat
<1> HIDE DEF b
<1>0. \A T : /\ Once(s, T) /\ Once(b, T)
             /\ \A t : \A y \in T : ~(Has(s, {y}, t) /\ Has(b, {y}, t))
             => Once(s \o b, T)
  BY <1>1, ConcatChannel
<1>2. /\ \A T, t : Has(b, T, t) <=> (m.type \in T /\ m.task = t)
      /\ \A t : Mentions(b, t) <=> m.task = t
      /\ \A T : Once(b, T)
  BY <1>1 DEF Has, Mentions, Once
<1>3. InOrder(b)
  BY <1>1 DEF InOrder, EndTypes
<1>4. ASSUME NEW T, Once(s, T), m.type \in T => ~Has(s, {m.type}, m.task)
      PROVE  Once(s \o b, T)
  <2>1. \A t : \A y \in T : ~(Has(s, {y}, t) /\ Has(b, {y}, t))
    BY <1>2, <1>4
  <2>2. QED
    BY <1>0, <1>2, <1>4, <2>1
<1>5. ASSUME InOrder(s), m.type = "taskaccepted" => ~Has(s, EndTypes, m.task)
      PROVE  InOrder(s \o b)
  <2>1. \A t : ~(Has(s, EndTypes, t) /\ Has(b, {"taskaccepted"}, t))
    BY <1>2, <1>5
  <2>2. QED
    BY <1>1, <1>3, <1>5, <2>1, ConcatChannel
<1>6. /\ s \o b \in Seq(S)
      /\ \A T, t : Has(s \o b, T, t) <=> Has(s, T, t) \/ Has(b, T, t)
      /\ \A t : Mentions(s \o b, t) <=> Mentions(s, t) \/ Mentions(b, t)
  BY <1>1, ConcatChannel
<1>7. QED
  BY <1>1, <1>2, <1>4, <1>5, <1>6

-----------------------------------------------------------------------------
(* Messages *)

\* The messages of the broker are well typed, and say which task they are about.
LEMMA BrokerMessages ==
    /\ \A m \in ToRunnerMsg :
          /\ m.type \in {"runnerregistered", "drain", "taskofferaccept", "tasksettings",
                         "taskcancel"}
          /\ m.task \in Tasks \cup {NoTask}
          /\ m.type \in {"taskofferaccept", "tasksettings", "taskcancel"} => m.task \in Tasks
          /\ m.type \in {"runnerregistered", "drain"} => m.task = NoTask
          /\ m.type = "taskofferaccept" => m.offer \in Offers
    /\ \A t \in Tasks : Msg("tasksettings", t) \in ToRunnerMsg /\ Msg("taskcancel", t) \in ToRunnerMsg
    /\ \A t \in Tasks, o \in Offers : OfferMsg("taskofferaccept", o, t) \in ToRunnerMsg
    /\ Msg("runnerregistered", NoTask) \in ToRunnerMsg /\ Msg("drain", NoTask) \in ToRunnerMsg
BY DEF ToRunnerMsg, Msg, OfferMsg

\* So are the messages of the runners.
LEMMA RunnerMessages ==
    /\ \A m \in ToBrokerMsg :
          /\ m.type \in {"taskoffer", "taskaccepted", "taskrejected", "taskdone", "taskerror"}
          /\ m.task \in Tasks \cup {NoTask}
          /\ m.type # "taskoffer" => m.task \in Tasks
          /\ m.type = "taskoffer" => m.task = NoTask /\ m.offer \in Offers
    /\ \A t \in Tasks :
          /\ Msg("taskaccepted", t) \in ToBrokerMsg /\ Msg("taskrejected", t) \in ToBrokerMsg
          /\ Msg("taskdone", t) \in ToBrokerMsg /\ Msg("taskerror", t) \in ToBrokerMsg
    /\ \A o \in Offers : OfferMsg("taskoffer", o, NoTask) \in ToBrokerMsg
BY DEF ToBrokerMsg, Msg, OfferMsg

\* The fields of a message.
LEMMA MessageFields ==
    /\ \A y, t : Msg(y, t).type = y /\ Msg(y, t).task = t /\ Msg(y, t).offer = "none"
    /\ \A y, o, t : /\ OfferMsg(y, o, t).type = y /\ OfferMsg(y, o, t).task = t
                    /\ OfferMsg(y, o, t).offer = o
BY DEF Msg, OfferMsg

\* Task ids are numbers, and 0 is none of them.
LEMMA TaskIds ==
    /\ MaxTasks \in Nat \ {0} /\ NoTask \notin Tasks /\ Tasks \subseteq Nat
    /\ IsFiniteSet(Tasks)
<1>1. MaxTasks \in Nat \ {0}
  BY BrokerAssumption
<1>2. QED
  BY <1>1, FS_Interval DEF Tasks, NoTask

\* messageRunner: the message joins the connection of a live runner, or is lost.
LEMMA ToRunnerEffect ==
    ASSUME ChannelTypes, NEW n \in Runners, NEW m \in ToRunnerMsg, toRunner' = ToRunner(n, m)
    PROVE  /\ toRunner' \in [Runners -> Seq(ToRunnerMsg)]
           /\ \A k \in Runners, t \in Tasks :
                 /\ \A T : Has(toRunner[k], T, t)' <=>
                       \/ Has(toRunner[k], T, t)
                       \/ /\ k = n /\ n \in knownRunners /\ process[n] = "up"
                          /\ m.type \in T /\ m.task = t
                 /\ Mentions(toRunner[k], t)' =>
                       Mentions(toRunner[k], t) \/ (k = n /\ m.task = t)
           /\ \A k \in Runners :
                 Once(toRunner[k], RunnerOnce) /\ (m.type \in RunnerOnce => ~Has(toRunner[n], {m.type}, m.task))
                 => Once(toRunner[k], RunnerOnce)'
<1>1. toRunner \in [Runners -> Seq(ToRunnerMsg)]
  BY DEF ChannelTypes
<1>2. CASE n \in knownRunners /\ process[n] = "up"
  <2>1. toRunner' = [toRunner EXCEPT ![n] = Append(toRunner[n], m)]
    BY <1>2 DEF ToRunner
  <2>2. toRunner'[n] = Append(toRunner[n], m) /\ \A k \in Runners : k # n => toRunner'[k] = toRunner[k]
    BY <1>1, <2>1
  <2>3. toRunner[n] \in Seq(ToRunnerMsg)
    BY <1>1
  <2> DEFINE s == toRunner[n]
             u == Append(s, m)
  <2>4. /\ u \in Seq(ToRunnerMsg)
        /\ \A T, t : Has(u, T, t) <=> Has(s, T, t) \/ (m.type \in T /\ m.task = t)
        /\ \A t : Mentions(u, t) <=> Mentions(s, t) \/ m.task = t
        /\ \A T : Once(s, T) /\ (m.type \in T => ~Has(s, {m.type}, m.task)) => Once(u, T)
    <3> HIDE DEF s
    <3>1. QED
      BY <2>3, AppendChannel DEF s
  <2> HIDE DEF u
  <2>5. toRunner' \in [Runners -> Seq(ToRunnerMsg)]
    BY <1>1, <2>1, <2>2, <2>4 DEF u
  <2>6. toRunner'[n] = u
    BY <2>2 DEF u
  <2>7. QED
    BY <1>2, <2>2, <2>4, <2>5, <2>6
<1>3. CASE ~(n \in knownRunners /\ process[n] = "up")
  <2>1. toRunner' = toRunner
    BY <1>3 DEF ToRunner
  <2>2. QED
    BY <1>1, <1>3, <2>1
<1>4. QED
  BY <1>2, <1>3

\* The broker receives a message: it was the only reply to its task, and no reply
\* is behind a report that the task has ended.
LEMMA FromRunnerEffect ==
    ASSUME ChannelTypes, ChannelInv, NEW n \in Runners, NEW T0, FromRunner(n, T0)
    PROVE  LET m == Head(toBroker[n]) IN
           /\ toBroker' \in [Runners -> Seq(ToBrokerMsg)]
           /\ m \in ToBrokerMsg /\ m.type \in T0
           /\ Mentions(toBroker[n], m.task) /\ Has(toBroker[n], {m.type}, m.task)
           /\ \A k \in Runners, t \in Tasks :
                 /\ \A T : /\ Has(toBroker[k], T, t)' => Has(toBroker[k], T, t)
                           /\ Has(toBroker[k], T, t) =>
                                 Has(toBroker[k], T, t)' \/ (k = n /\ m.type \in T /\ m.task = t)
                 /\ Mentions(toBroker[k], t)' => Mentions(toBroker[k], t)
           /\ \A k \in Runners :
                 Once(toBroker[k], BrokerOnce)' /\ InOrder(toBroker[k])'
           /\ \A t \in Tasks : t = m.task /\ m.type \in EndTypes \cup {"taskaccepted"}
                 => ~Replied(n, t)'
<1> DEFINE m == Head(toBroker[n])
<1>1. /\ toBroker \in [Runners -> Seq(ToBrokerMsg)] /\ toBroker[n] \in Seq(ToBrokerMsg)
      /\ toBroker[n] # <<>> /\ m.type \in T0
      /\ toBroker' = [toBroker EXCEPT ![n] = Tail(toBroker[n])]
  BY DEF ChannelTypes, FromRunner
<1>2. toBroker'[n] = Tail(toBroker[n]) /\ \A k \in Runners : k # n => toBroker'[k] = toBroker[k]
  BY <1>1
<1>3. \A k \in Runners : Once(toBroker[k], BrokerOnce) /\ InOrder(toBroker[k])
  BY DEF ChannelInv
<1> DEFINE s == toBroker[n]
           u == Tail(s)
<1>4. /\ u \in Seq(ToBrokerMsg) /\ m \in ToBrokerMsg
      /\ \A T, t : Has(s, T, t)
            <=> Has(u, T, t) \/ (m.type \in T /\ m.task = t)
      /\ \A t : Mentions(s, t) <=> Mentions(u, t) \/ m.task = t
      /\ \A T : Once(s, T) =>
            /\ Once(u, T)
            /\ m.type \in T => ~Has(u, {m.type}, m.task)
      /\ InOrder(s) =>
            /\ InOrder(u)
            /\ m.type \in EndTypes => ~Has(u, {"taskaccepted"}, m.task)
  <2> HIDE DEF s
  <2>1. QED
    BY <1>1, TailChannel DEF s
<1> HIDE DEF u
<1> HIDE DEF m
<1>5. toBroker' \in [Runners -> Seq(ToBrokerMsg)] /\ toBroker'[n] = u
  BY <1>1, <1>2, <1>4 DEF u
<1>6. m.type = "taskaccepted" => ~Has(toBroker'[n], {"taskaccepted"}, m.task)
  BY <1>3, <1>4, <1>5 DEF BrokerOnce
<1>7. ASSUME NEW k \in Runners
      PROVE  /\ \A t \in Tasks :
                   /\ \A T : /\ Has(toBroker[k], T, t)' => Has(toBroker[k], T, t)
                             /\ Has(toBroker[k], T, t) =>
                                   Has(toBroker[k], T, t)' \/ (k = n /\ m.type \in T /\ m.task = t)
                   /\ Mentions(toBroker[k], t)' => Mentions(toBroker[k], t)
             /\ Once(toBroker[k], BrokerOnce)' /\ InOrder(toBroker[k])'
  BY <1>2, <1>3, <1>4, <1>5
<1>8. ASSUME NEW t \in Tasks, t = m.task, m.type \in EndTypes \cup {"taskaccepted"}
      PROVE  ~Replied(n, t)'
  BY <1>3, <1>4, <1>5, <1>6, <1>8 DEF Replied
<1>9. Mentions(toBroker[n], m.task) /\ Has(toBroker[n], {m.type}, m.task)
  BY <1>4
<1>10. QED
  BY <1>1, <1>4, <1>5, <1>7, <1>8, <1>9 DEF m

\* A runner receives a message: it was the only one of its kind about its task.
LEMMA FromBrokerEffect ==
    ASSUME ChannelTypes, ChannelInv, NEW n \in Runners, NEW type, FromBroker(n, type)
    PROVE  LET m == Head(toRunner[n]) IN
           /\ toRunner' \in [Runners -> Seq(ToRunnerMsg)]
           /\ m \in ToRunnerMsg /\ m.type = type /\ process[n] = "up"
           /\ Mentions(toRunner[n], m.task) /\ Has(toRunner[n], {m.type}, m.task)
           /\ \A k \in Runners, t \in Tasks :
                 /\ \A T : /\ Has(toRunner[k], T, t)' => Has(toRunner[k], T, t)
                           /\ Has(toRunner[k], T, t) =>
                                 Has(toRunner[k], T, t)' \/ (k = n /\ m.type \in T /\ m.task = t)
                 /\ Mentions(toRunner[k], t)' => Mentions(toRunner[k], t)
           /\ \A k \in Runners : Once(toRunner[k], RunnerOnce)'
           /\ \A t \in Tasks :
                 /\ t = m.task /\ m.type = "taskofferaccept" => ~Asked(n, t)'
                 /\ t = m.task /\ m.type = "tasksettings" => ~SettingsSent(n, t)'
<1> DEFINE m == Head(toRunner[n])
<1>1. /\ toRunner \in [Runners -> Seq(ToRunnerMsg)] /\ toRunner[n] \in Seq(ToRunnerMsg)
      /\ toRunner[n] # <<>> /\ m.type = type /\ process[n] = "up"
      /\ toRunner' = [toRunner EXCEPT ![n] = Tail(toRunner[n])]
  BY DEF ChannelTypes, FromBroker
<1>2. toRunner'[n] = Tail(toRunner[n]) /\ \A k \in Runners : k # n => toRunner'[k] = toRunner[k]
  BY <1>1
<1>3. \A k \in Runners : Once(toRunner[k], RunnerOnce)
  BY DEF ChannelInv
<1> DEFINE s == toRunner[n]
           u == Tail(s)
<1>4. /\ u \in Seq(ToRunnerMsg) /\ m \in ToRunnerMsg
      /\ \A T, t : Has(s, T, t)
            <=> Has(u, T, t) \/ (m.type \in T /\ m.task = t)
      /\ \A t : Mentions(s, t) <=> Mentions(u, t) \/ m.task = t
      /\ \A T : Once(s, T) =>
            /\ Once(u, T)
            /\ m.type \in T => ~Has(u, {m.type}, m.task)
  <2> HIDE DEF s
  <2>1. QED
    BY <1>1, TailChannel DEF s
<1> HIDE DEF u
<1> HIDE DEF m
<1>5. toRunner' \in [Runners -> Seq(ToRunnerMsg)] /\ toRunner'[n] = u
  BY <1>1, <1>2, <1>4 DEF u
<1>6. /\ m.type = "taskofferaccept" => ~Has(toRunner'[n], {"taskofferaccept"}, m.task)
      /\ m.type = "tasksettings" => ~Has(toRunner'[n], {"tasksettings"}, m.task)
  BY <1>3, <1>4, <1>5 DEF RunnerOnce
<1>7. ASSUME NEW k \in Runners
      PROVE  /\ \A t \in Tasks :
                   /\ \A T : /\ Has(toRunner[k], T, t)' => Has(toRunner[k], T, t)
                             /\ Has(toRunner[k], T, t) =>
                                   Has(toRunner[k], T, t)' \/ (k = n /\ m.type \in T /\ m.task = t)
                   /\ Mentions(toRunner[k], t)' => Mentions(toRunner[k], t)
             /\ Once(toRunner[k], RunnerOnce)'
  BY <1>2, <1>3, <1>4, <1>5
<1>8. ASSUME NEW t \in Tasks, t = m.task
      PROVE  /\ m.type = "taskofferaccept" => ~Asked(n, t)'
             /\ m.type = "tasksettings" => ~SettingsSent(n, t)'
  BY <1>6, <1>8 DEF Asked, SettingsSent
<1>9. Mentions(toRunner[n], m.task) /\ Has(toRunner[n], {m.type}, m.task)
  BY <1>4
<1>10. QED
  BY <1>1, <1>4, <1>5, <1>7, <1>8, <1>9 DEF m

-----------------------------------------------------------------------------
(* Tasks: the moves that a task may make *)

(***************************************************************************)
(* What most steps do to a task: what is known of it only goes away.  The  *)
(* broker may drop it with a cancel message, the runner may report its     *)
(* end, and the report is consumed only with the task or after its runner. *)
(***************************************************************************)
Fades(n, t) ==
    /\ Asked(n, t)' => Asked(n, t)
    /\ Replied(n, t)' => Replied(n, t)
    /\ SettingsSent(n, t)' => SettingsSent(n, t)
    /\ CancelSent(n, t)' => CancelSent(n, t) \/ (t \in tasks /\ t \notin tasks')
    /\ Ended(n, t)' => Ended(n, t) \/ runningTasks[n][t] # "none"
    /\ EndedWell(n, t)' => EndedWell(n, t) \/ t \in executed
    /\ Ended(n, t) =>
          Ended(n, t)' \/ (t \notin tasks' /\ (~Replied(n, t)' \/ n \notin knownRunners'))
    /\ process'[n] = process[n] \/ process'[n] = "gone"
    /\ t \in tasks' => t \in tasks /\ n \in knownRunners'
    /\ n \in knownRunners' => n \in knownRunners
    /\ t \in executed' <=> t \in executed
    /\ \/ runningTasks'[n][t] = runningTasks[n][t]
       \/ /\ runningTasks'[n][t] = "none"
          /\ process'[n] = "gone" \/ Ended(n, t)' \/ (t \notin tasks' /\ ~Replied(n, t)')
       \/ /\ runningTasks[n][t] = "running"
          /\ \/ runningTasks'[n][t] = "aborting:timeout"
             \/ runningTasks'[n][t] = "aborting:cancelled" /\ t \notin tasks

\* A task that fades stays in order.
LEMMA FadingTask ==
    ASSUME NEW n \in Runners, NEW t \in Tasks, TaskOK(n, t), Fades(n, t)
    PROVE  TaskOK(n, t)'
<1>1. process'[n] # "new"
  BY DEF TaskOK, Fades
<1>2. Asked(n, t)' =>
         /\ ~Replied(n, t)' /\ ~SettingsSent(n, t)' /\ ~CancelSent(n, t)' /\ ~Ended(n, t)'
         /\ t \notin tasks' /\ t \notin executed' /\ runningTasks'[n][t] = "none"
  BY DEF TaskOK, Fades
<1>3. Replied(n, t)' =>
         /\ ~SettingsSent(n, t)' /\ ~CancelSent(n, t)'
         /\ t \notin tasks' /\ t \notin executed'
         /\ runningTasks'[n][t] \in {"none", "waitingForSettings"}
  BY DEF TaskOK, Fades
<1>4. SettingsSent(n, t)' =>
         t \notin executed' /\ runningTasks'[n][t] \in {"none", "waitingForSettings"}
  BY DEF TaskOK, Fades
<1>5. CancelSent(n, t)' \/ runningTasks'[n][t] = "aborting:cancelled" => t \notin tasks'
  BY DEF TaskOK, Fades
<1>6. /\ runningTasks'[n][t] \notin {"none", "waitingForSettings"} => t \in executed'
      /\ EndedWell(n, t)' => t \in executed'
      /\ t \in tasks' => n \in knownRunners'
  BY DEF TaskOK, Fades
<1>7. process'[n] = "up" /\ n \in knownRunners' /\ Replied(n, t)' =>
         runningTasks'[n][t] = "waitingForSettings" \/ Ended(n, t)'
  BY DEF TaskOK, Fades
<1>8. process'[n] = "up" /\ t \in tasks' => runningTasks'[n][t] \in AtWork \/ Ended(n, t)'
  BY DEF TaskOK, Fades, AtWork
<1>9. QED
  BY <1>1, <1>2, <1>3, <1>4, <1>5, <1>6, <1>7, <1>8 DEF TaskOK

\* The runner accepts: it has a slot for the task and says so.
LEMMA AcceptingTask ==
    ASSUME NEW n \in Runners, NEW t \in Tasks, TaskOK(n, t), Asked(n, t),
           ~Asked(n, t)', SettingsSent(n, t)' = SettingsSent(n, t),
           CancelSent(n, t)' = CancelSent(n, t), Ended(n, t)' = Ended(n, t),
           EndedWell(n, t)' = EndedWell(n, t),
           UNCHANGED <<process, tasks, executed, knownRunners>>,
           runningTasks'[n][t] = "waitingForSettings"
    PROVE  TaskOK(n, t)'
BY DEF TaskOK, AtWork

\* The broker receives the acceptance in time: the task is its own from now on.
LEMMA AcceptedTask ==
    ASSUME NEW n \in Runners, NEW t \in Tasks, TaskOK(n, t), Replied(n, t), ~Replied(n, t)',
           n \in knownRunners, Asked(n, t)' = Asked(n, t), CancelSent(n, t)' = CancelSent(n, t),
           Ended(n, t)' = Ended(n, t), EndedWell(n, t)' = EndedWell(n, t),
           UNCHANGED <<process, executed, knownRunners, runningTasks>>
    PROVE  TaskOK(n, t)'
<1>1. /\ ~Asked(n, t)' /\ ~CancelSent(n, t)' /\ t \notin executed'
      /\ runningTasks'[n][t] \in {"none", "waitingForSettings"}
      /\ process'[n] # "new" /\ n \in knownRunners'
      /\ EndedWell(n, t)' => t \in executed'
  BY DEF TaskOK
<1>2. process'[n] = "up" => runningTasks'[n][t] = "waitingForSettings" \/ Ended(n, t)'
  BY DEF TaskOK
<1>3. QED
  BY <1>1, <1>2 DEF TaskOK, AtWork

\* The settings arrive and the code is started.
LEMMA StartingTask ==
    ASSUME NEW n \in Runners, NEW t \in Tasks, TaskOK(n, t), SettingsSent(n, t),
           ~SettingsSent(n, t)', runningTasks[n][t] = "waitingForSettings",
           runningTasks'[n][t] = "running", t \in executed',
           Asked(n, t)' = Asked(n, t), Replied(n, t)' = Replied(n, t),
           CancelSent(n, t)' = CancelSent(n, t), Ended(n, t)' = Ended(n, t),
           EndedWell(n, t)' = EndedWell(n, t), UNCHANGED <<process, tasks, knownRunners>>
    PROVE  TaskOK(n, t)'
<1>1. /\ ~Asked(n, t)' /\ ~Replied(n, t)' /\ process'[n] # "new"
      /\ CancelSent(n, t)' => t \notin tasks'
      /\ t \in tasks' => n \in knownRunners'
  BY DEF TaskOK
<1>2. QED
  BY <1>1 DEF TaskOK, AtWork

-----------------------------------------------------------------------------
(* Frames: the parts of the invariant that most steps leave alone *)

\* The tasks keep their requests and runners.
AttemptsKept ==
    /\ DOMAIN attempts' = DOMAIN attempts
    /\ \A t \in DOMAIN attempts : /\ attempts'[t].request = attempts[t].request
                                  /\ attempts'[t].runner = attempts[t].runner

\* A task keeps its runner.
LEMMA OwnerKept ==
    ASSUME AttemptsKept, NEW n \in Runners, NEW t \in Tasks
    PROVE  Owns(n, t)' <=> Owns(n, t)
BY DEF AttemptsKept, Owns

\* Nobody but its runner starts to speak of a task.
LEMMA OwnKept ==
    ASSUME OwnInv, AttemptsKept,
           \A n \in Runners, t \in Tasks :
              /\ Mentions(toRunner[n], t)' => Mentions(toRunner[n], t) \/ Owns(n, t)
              /\ Mentions(toBroker[n], t)' => Mentions(toBroker[n], t) \/ Owns(n, t)
              /\ runningTasks'[n][t] # "none" => runningTasks[n][t] # "none" \/ Owns(n, t)
    PROVE  OwnInv'
BY OwnerKept DEF OwnInv

\* Every task makes one of its moves.
LEMMA TasksKept ==
    ASSUME TasksInv, AttemptsKept,
           \A n \in Runners, t \in Tasks : Owns(n, t) /\ TaskOK(n, t) => TaskOK(n, t)'
    PROVE  TasksInv'
BY OwnerKept DEF TasksInv

\* Code is started for a task only after the settings were sent.
LEMMA GivenKept ==
    ASSUME GivenInv, AttemptsKept, UNCHANGED taskIdOf,
           \A n \in Runners, t \in Tasks : Owns(n, t) =>
              /\ SettingsSent(n, t)' => SettingsSent(n, t)
              /\ t \in executed' => t \in executed \/ SettingsSent(n, t)
    PROVE  GivenInv'
<1>1. SUFFICES ASSUME NEW n \in Runners, NEW t \in Tasks, Owns(n, t)',
                      SettingsSent(n, t)' \/ t \in executed'
               PROVE  taskIdOf'[attempts'[t].request] = t
  BY DEF GivenInv
<1>2. Owns(n, t) /\ (SettingsSent(n, t) \/ t \in executed)
  BY <1>1, OwnerKept
<1>3. attempts'[t].request = attempts[t].request
  BY <1>2 DEF AttemptsKept, Owns
<1>4. QED
  BY <1>2, <1>3 DEF GivenInv

\* The connection of a live runner is in order when nothing is sent on it.
LEMMA ChannelsUnchanged ==
    /\ ChannelInv /\ ChannelTypes /\ UNCHANGED <<toRunner, toBroker>> => ChannelInv' /\ ChannelTypes'
    /\ \A n \in Runners, t \in Tasks : UNCHANGED toRunner =>
          /\ Asked(n, t)' = Asked(n, t) /\ SettingsSent(n, t)' = SettingsSent(n, t)
          /\ CancelSent(n, t)' = CancelSent(n, t)
          /\ Mentions(toRunner[n], t)' = Mentions(toRunner[n], t)
    /\ \A n \in Runners, t \in Tasks : UNCHANGED toBroker =>
          /\ Replied(n, t)' = Replied(n, t) /\ Ended(n, t)' = Ended(n, t)
          /\ EndedWell(n, t)' = EndedWell(n, t)
          /\ Mentions(toBroker[n], t)' = Mentions(toBroker[n], t)
BY DEF ChannelInv, ChannelTypes, Asked, SettingsSent, CancelSent, Replied, Ended, EndedWell

\* Steps of the requester and of timers that touch neither tasks nor connections.
LEMMA TasksUntouched ==
    ASSUME BInv, AttemptsKept,
           UNCHANGED <<knownRunners, tasks, taskIdOf, process, runningTasks, executed, toRunner, toBroker>>
    PROVE  ChannelInv' /\ ChannelTypes' /\ OwnInv' /\ TasksInv' /\ GivenInv' /\ KnownInv'
<1>1. ChannelInv' /\ ChannelTypes'
  BY ChannelsUnchanged DEF BInv
<1>2. OwnInv'
  BY OwnKept, ChannelsUnchanged DEF BInv
<1>3. TasksInv'
  <2>1. ASSUME NEW n \in Runners, NEW t \in Tasks, TaskOK(n, t) PROVE TaskOK(n, t)'
    <3>1. Fades(n, t)
      BY <2>1, ChannelsUnchanged DEF Fades, TaskOK
    <3>2. QED
      BY <2>1, <3>1, FadingTask
  <2>2. QED
    BY <2>1, TasksKept DEF BInv
<1>4. GivenInv'
  BY GivenKept, ChannelsUnchanged DEF BInv
<1>5. KnownInv'
  BY DEF BInv, KnownInv
<1>6. QED
  BY <1>1, <1>2, <1>3, <1>4, <1>5

\* A sequence keeps its type when the type grows.
LEMMA SeqGrows ==
    ASSUME NEW S, NEW T, S \subseteq T, NEW s \in Seq(S)
    PROVE  s \in Seq(T)
<1>1. Len(s) \in Nat /\ s \in [1..Len(s) -> S]
  BY LenProperties
<1>2. s = [i \in 1..Len(s) |-> s[i]] /\ \A i \in 1..Len(s) : s[i] \in T
  BY <1>1
<1>3. [i \in 1..Len(s) |-> s[i]] \in Seq(T)
  BY <1>1, <1>2, IsASeq
<1>4. QED
  BY <1>2, <1>3

\* An acceptance is over: the task keeps its request and its runner.
LEMMA CloseAttempt ==
    ASSUME BrokerTypes, NEW t \in DOMAIN attempts,
           attempts' = [attempts EXCEPT ![t].state = "closed"]
    PROVE  attempts' \in Seq(Attempt) /\ Len(attempts') = Len(attempts) /\ AttemptsKept
<1>1. /\ attempts \in Seq(Attempt) /\ DOMAIN attempts = 1..Len(attempts) /\ Len(attempts) \in Nat
      /\ attempts[t] \in Attempt
  BY LenProperties, ElementOfSeq DEF BrokerTypes
<1> DEFINE e == [attempts[t] EXCEPT !.state = "closed"]
<1>2. e \in Attempt /\ e.request = attempts[t].request /\ e.runner = attempts[t].runner
  BY <1>1 DEF Attempt, AcceptStates
<1>3. attempts' = [attempts EXCEPT ![t] = e]
  OBVIOUS
<1> HIDE DEF e
<1>4. attempts' \in Seq(Attempt) /\ Len(attempts') = Len(attempts)
  BY <1>1, <1>2, <1>3, ExceptSeq
<1>5. /\ DOMAIN attempts' = DOMAIN attempts
      /\ \A k \in DOMAIN attempts : attempts'[k] = IF k = t THEN e ELSE attempts[k]
  BY <1>1, <1>3
<1>6. QED
  BY <1>2, <1>4, <1>5 DEF AttemptsKept

\* The task ids handed out are task ids.
LEMMA AttemptTypes ==
    ASSUME BrokerTypes
    PROVE  /\ DOMAIN attempts = 1..Len(attempts) /\ Len(attempts) \in Nat
           /\ DOMAIN attempts \subseteq Tasks
           /\ \A t \in DOMAIN attempts : /\ attempts[t] \in Attempt
                                         /\ attempts[t].request \in Requests
                                         /\ attempts[t].runner \in Runners
                                         /\ Owns(attempts[t].runner, t)
<1>1. DOMAIN attempts = 1..Len(attempts) /\ Len(attempts) \in Nat
  BY LenProperties DEF BrokerTypes
<1>2. DOMAIN attempts \subseteq Tasks
  BY <1>1, TaskIds DEF BrokerTypes, Tasks
<1>3. \A t \in DOMAIN attempts : attempts[t] \in Attempt
  BY <1>1, ElementOfSeq DEF BrokerTypes
<1>4. QED
  BY <1>1, <1>2, <1>3 DEF Attempt, Owns

\* Requests whose state does not change, while their tasks are kept.
LEMMA RequestsKept ==
    ASSUME BInv, AttemptsKept, UNCHANGED <<pendingTaskRequests, job, taskIdOf>>,
           executed \subseteq executed',
           \A r \in Requests : job[r] = "started" => taskIdOf[r] \in tasks'
    PROVE  RequestsInv'
<1>1. ASSUME NEW r \in Requests PROVE RequestOK(r)'
  <2>1. RequestOK(r)
    BY DEF BInv, RequestsInv
  <2>2. QED
    BY <2>1 DEF RequestOK, AttemptsKept
<1>2. QED
  BY <1>1 DEF BInv, RequestsInv

\* Requests are answered: those whose task is dropped, and a result needs code that ran.
LEMMA RequestsAnswered ==
    ASSUME BInv, AttemptsKept, UNCHANGED <<pendingTaskRequests, executed>>,
           NEW ts \in SUBSET Tasks, NEW result \in {"done", "error"}, Answer(ts, result),
           result = "done" => ts \subseteq executed
    PROVE  RequestsInv' /\ job' \in [Requests -> JobStates] /\ tasks' = tasks \ ts /\ taskIdOf' = taskIdOf
<1>1. /\ tasks' = tasks \ ts /\ taskIdOf' = taskIdOf
      /\ job' = [r \in Requests |->
                   IF job[r] = "started" /\ taskIdOf[r] \in ts THEN result ELSE job[r]]
  BY DEF Answer
<1>2. job' \in [Requests -> JobStates]
  BY <1>1 DEF BInv, BrokerTypes, JobStates
<1>3. ASSUME NEW r \in Requests PROVE RequestOK(r)'
  <2>1. RequestOK(r)
    BY DEF BInv, RequestsInv
  <2>2. job'[r] = IF job[r] = "started" /\ taskIdOf[r] \in ts THEN result ELSE job[r]
    BY <1>1
  <2>3. QED
    BY <1>1, <2>1, <2>2 DEF RequestOK, AttemptsKept
<1>4. QED
  BY <1>1, <1>2, <1>3 DEF BInv, RequestsInv

\* A request is withdrawn: it was pending, and no other goes.
LEMMA WithdrawEffect ==
    ASSUME BInv, NEW r, Withdraw(r)
    PROVE  /\ pendingTaskRequests' \in Seq(Requests)
           /\ r \in ToSet(pendingTaskRequests) /\ r \in Requests
           /\ \A q \in Requests : q \in ToSet(pendingTaskRequests)'
                 <=> q \in ToSet(pendingTaskRequests) /\ q # r
           /\ \A i, j \in DOMAIN pendingTaskRequests' :
                 pendingTaskRequests'[i] = pendingTaskRequests'[j] => i = j
<1> DEFINE s == pendingTaskRequests
<1>1. PICK i \in DOMAIN s : s[i] = r /\ pendingTaskRequests' = RemoveAt(s, i)
  BY DEF Withdraw
<1>2. s \in Seq(Requests) /\ \A a, b \in DOMAIN s : s[a] = s[b] => a = b
  BY DEF BInv, BrokerTypes, RequestsInv
<1> DEFINE u == RemoveAt(s, i)
<1> HIDE DEF s
<1>3. DOMAIN s = 1..Len(s) /\ Len(s) \in Nat /\ i \in 1..Len(s)
  BY <1>2, LenProperties
<1>4. /\ u \in Seq(Requests) /\ Len(u) = Len(s) - 1
      /\ \A j \in 1..(Len(s) - 1) : u[j] = IF j < i THEN s[j] ELSE s[j + 1]
  <2>1. s \in Seq(Requests) /\ i \in 1..Len(s)
    BY <1>2, <1>3
  <2>2. QED
    BY <2>1, RemoveAtProperties
<1>5. /\ ToSet(u) \subseteq ToSet(s) /\ ToSet(s) \ {s[i]} \subseteq ToSet(u)
  BY <1>2, <1>3, ToSetRemoveAt
<1> HIDE DEF u
<1>6. DOMAIN u = 1..Len(u)
  BY <1>4, LenProperties
<1>7. ASSUME NEW a \in DOMAIN u, NEW b \in DOMAIN u, u[a] = u[b] PROVE a = b
  <2> DEFINE at(j) == IF j < i THEN j ELSE j + 1
  <2>1. ASSUME NEW j \in DOMAIN u PROVE at(j) \in DOMAIN s /\ s[at(j)] = u[j]
    BY <1>3, <1>4, <1>6
  <2>2. at(a) = at(b)
    BY <1>2, <1>7, <2>1
  <2>3. QED
    BY <1>3, <1>6, <1>4, <2>2
<1>8. r \notin ToSet(u)
  <2>1. SUFFICES ASSUME NEW j \in 1..Len(u), u[j] = r PROVE FALSE
    BY <1>4, ToSetMember
  <2>2. CASE j < i
    BY <1>1, <1>2, <1>3, <1>4, <2>1, <2>2
  <2>3. CASE ~(j < i)
    <3>1. j + 1 \in DOMAIN s /\ s[j + 1] = r
      BY <1>3, <1>4, <2>1, <2>3
    <3>2. j + 1 = i
      BY <1>1, <1>2, <3>1
    <3>3. QED
      BY <1>3, <2>1, <2>3, <3>2
  <2>4. QED
    BY <2>2, <2>3
<1>9. r \in ToSet(s) /\ r \in Requests
  BY <1>1, <1>2, <1>3, ToSetMember, ToSetType
<1>10. pendingTaskRequests' = u
  BY <1>1 DEF u
<1>11. QED
  BY <1>1, <1>4, <1>5, <1>7, <1>8, <1>9, <1>10 DEF s

\* Runners that make no new promises stay within their capacity.
LEMMA CapacityKept ==
    ASSUME BInv,
           \A n \in Runners : /\ openOffers'[n] \subseteq openOffers[n]
                              /\ \A t \in Tasks : runningTasks'[n][t] # "none" => runningTasks[n][t] # "none"
    PROVE  RunnerWithinCapacity'
<1>1. SUFFICES ASSUME NEW n \in Runners
               PROVE  Cardinality(openOffers'[n]) + Cardinality(RunningOn(n)') <= MaxConcurrency
  BY DEF RunnerWithinCapacity
<1>2. /\ IsFiniteSet(openOffers[n]) /\ IsFiniteSet(RunningOn(n))
  <2>1. openOffers[n] \in SUBSET Offers /\ RunningOn(n) \in SUBSET Tasks /\ IsFiniteSet(Offers)
    BY BrokerAssumption DEF BInv, RunnerTypes, RunningOn
  <2>2. QED
    BY <2>1, TaskIds, FS_Subset
<1>3. openOffers'[n] \in SUBSET openOffers[n] /\ RunningOn(n)' \in SUBSET RunningOn(n)
  BY DEF RunningOn
<1>4. /\ Cardinality(openOffers'[n]) <= Cardinality(openOffers[n]) /\ IsFiniteSet(openOffers'[n])
      /\ Cardinality(RunningOn(n)') <= Cardinality(RunningOn(n)) /\ IsFiniteSet(RunningOn(n)')
  BY <1>2, <1>3, FS_Subset
<1>5. Cardinality(openOffers[n]) + Cardinality(RunningOn(n)) <= MaxConcurrency
  BY DEF BInv, RunnerWithinCapacity
<1>6. /\ Cardinality(openOffers'[n]) \in Nat /\ Cardinality(openOffers[n]) \in Nat
      /\ Cardinality(RunningOn(n)') \in Nat /\ Cardinality(RunningOn(n)) \in Nat
      /\ MaxConcurrency \in Nat
  BY <1>2, <1>4, FS_CardinalityType, BrokerAssumption
<1>7. QED
  BY <1>4, <1>5, <1>6

\* A sequence has the type of its elements.
LEMMA SeqOfElements ==
    ASSUME NEW S, NEW T, NEW s \in Seq(S), \A i \in 1..Len(s) : s[i] \in T
    PROVE  s \in Seq(T)
<1>1. Len(s) \in Nat /\ s = [i \in 1..Len(s) |-> s[i]]
  BY LenProperties
<1>2. [i \in 1..Len(s) |-> s[i]] \in Seq(T)
  BY <1>1, IsASeq
<1>3. QED
  BY <1>1, <1>2

\* A task id in a message or in runningTasks is one that the broker gave this runner.
LEMMA OwnedTask ==
    ASSUME BInv, NEW n \in Runners, NEW t \in Tasks,
           Mentions(toRunner[n], t) \/ Mentions(toBroker[n], t) \/ runningTasks[n][t] # "none"
    PROVE  Owns(n, t) /\ TaskOK(n, t) /\ t \in DOMAIN attempts /\ attempts[t].runner = n
BY DEF BInv, OwnInv, TasksInv, Owns

\* A step that leaves the runners alone.
LEMMA RunnersUntouched ==
    ASSUME BInv, UNCHANGED runnerVars, DOMAIN attempts \subseteq DOMAIN attempts'
    PROVE  RunnerTypes' /\ RunnerWithinCapacity'
<1>1. RunnerTypes'
  BY DEF BInv, RunnerTypes, runnerVars
<1>2. RunnerWithinCapacity'
  BY DEF BInv, RunnerWithinCapacity, RunningOn, runnerVars
<1>3. QED
  BY <1>1, <1>2

\* What the broker's side of a received message means for the tasks.
LEMMA BrokerReceives ==
    ASSUME BInv, NEW n \in Runners, NEW T0, FromRunner(n, T0)
    PROVE  LET m == Head(toBroker[n]) IN
           /\ toBroker' \in [Runners -> Seq(ToBrokerMsg)]
           /\ m \in ToBrokerMsg /\ m.type \in T0
           /\ m.type # "taskoffer" =>
                 /\ m.task \in Tasks /\ m.task \in DOMAIN attempts
                 /\ Owns(n, m.task) /\ attempts[m.task].runner = n /\ TaskOK(n, m.task)
                 /\ m.type = "taskaccepted" => Replied(n, m.task)
                 /\ m.type = "taskdone" => EndedWell(n, m.task)
           /\ \A k \in Runners : Once(toBroker[k], BrokerOnce)' /\ InOrder(toBroker[k])'
           /\ \A k \in Runners, t \in Tasks :
                 /\ Mentions(toBroker[k], t)' => Mentions(toBroker[k], t)
                 /\ Replied(k, t)' => Replied(k, t)
                 /\ Ended(k, t)' => Ended(k, t)
                 /\ EndedWell(k, t)' => EndedWell(k, t)
                 /\ Ended(k, t) => Ended(k, t)' \/ (k = n /\ m.type \in EndTypes /\ m.task = t)
                 /\ EndedWell(k, t) => EndedWell(k, t)' \/ (k = n /\ m.type \in EndTypes /\ m.task = t)
                 /\ Replied(k, t) => Replied(k, t)' \/ (k = n /\ m.type = "taskaccepted" /\ m.task = t)
                 /\ k = n /\ t = m.task /\ m.type \in EndTypes \cup {"taskaccepted"} => ~Replied(k, t)'
<1> DEFINE m == Head(toBroker[n])
<1>1. ChannelTypes /\ ChannelInv
  BY DEF BInv
<1>2. /\ toBroker' \in [Runners -> Seq(ToBrokerMsg)]
      /\ m \in ToBrokerMsg /\ m.type \in T0
      /\ Mentions(toBroker[n], m.task) /\ Has(toBroker[n], {m.type}, m.task)
      /\ \A k \in Runners, t \in Tasks :
            /\ \A T : /\ Has(toBroker[k], T, t)' => Has(toBroker[k], T, t)
                      /\ Has(toBroker[k], T, t) =>
                            Has(toBroker[k], T, t)' \/ (k = n /\ m.type \in T /\ m.task = t)
            /\ Mentions(toBroker[k], t)' => Mentions(toBroker[k], t)
      /\ \A k \in Runners :
            Once(toBroker[k], BrokerOnce)' /\ InOrder(toBroker[k])'
      /\ \A t \in Tasks : t = m.task /\ m.type \in EndTypes \cup {"taskaccepted"}
            => ~Replied(n, t)'
  BY <1>1, FromRunnerEffect
<1> HIDE DEF m
<1>3. ASSUME m.type # "taskoffer"
      PROVE  /\ m.task \in Tasks /\ m.task \in DOMAIN attempts
             /\ Owns(n, m.task) /\ attempts[m.task].runner = n /\ TaskOK(n, m.task)
             /\ m.type = "taskaccepted" => Replied(n, m.task)
             /\ m.type = "taskdone" => EndedWell(n, m.task)
  <2>1. m.task \in Tasks
    BY <1>2, <1>3, RunnerMessages
  <2>2. /\ m.task \in DOMAIN attempts
        /\ Owns(n, m.task) /\ attempts[m.task].runner = n /\ TaskOK(n, m.task)
    BY <1>2, <2>1, OwnedTask
  <2>3. QED
    BY <1>2, <2>1, <2>2 DEF Replied, EndedWell
<1>4. ASSUME NEW k \in Runners, NEW t \in Tasks
      PROVE  /\ Replied(k, t)' => Replied(k, t)
             /\ Ended(k, t)' => Ended(k, t)
             /\ EndedWell(k, t)' => EndedWell(k, t)
             /\ Ended(k, t) => Ended(k, t)' \/ (k = n /\ m.type \in EndTypes /\ m.task = t)
             /\ EndedWell(k, t) => EndedWell(k, t)' \/ (k = n /\ m.type \in EndTypes /\ m.task = t)
             /\ Replied(k, t) => Replied(k, t)' \/ (k = n /\ m.type = "taskaccepted" /\ m.task = t)
  <2>1. \A T : /\ Has(toBroker[k], T, t)' => Has(toBroker[k], T, t)
               /\ Has(toBroker[k], T, t) =>
                     Has(toBroker[k], T, t)' \/ (k = n /\ m.type \in T /\ m.task = t)
    BY <1>2
  <2>2. QED
    BY <2>1 DEF Replied, Ended, EndedWell, EndTypes
<1>5. QED
  BY <1>2, <1>3, <1>4 DEF m

\* What the runner's side of a received message means for the tasks.
LEMMA RunnerReceives ==
    ASSUME BInv, NEW n \in Runners, NEW type, FromBroker(n, type)
    PROVE  LET m == Head(toRunner[n]) IN
           /\ toRunner' \in [Runners -> Seq(ToRunnerMsg)]
           /\ m \in ToRunnerMsg /\ m.type = type /\ process[n] = "up"
           /\ type \in {"taskofferaccept", "tasksettings", "taskcancel"} =>
                 /\ m.task \in Tasks /\ m.task \in DOMAIN attempts
                 /\ Owns(n, m.task) /\ TaskOK(n, m.task)
                 /\ type = "taskofferaccept" => Asked(n, m.task) /\ m.offer \in Offers
                 /\ type = "tasksettings" => SettingsSent(n, m.task)
                 /\ type = "taskcancel" => CancelSent(n, m.task)
           /\ \A k \in Runners : Once(toRunner[k], RunnerOnce)'
           /\ \A k \in Runners, t \in Tasks :
                 /\ Mentions(toRunner[k], t)' => Mentions(toRunner[k], t)
                 /\ Asked(k, t)' => Asked(k, t)
                 /\ SettingsSent(k, t)' => SettingsSent(k, t)
                 /\ CancelSent(k, t)' => CancelSent(k, t)
                 /\ type # "taskofferaccept" => Asked(k, t)' = Asked(k, t)
                 /\ type # "tasksettings" => SettingsSent(k, t)' = SettingsSent(k, t)
                 /\ type # "taskcancel" => CancelSent(k, t)' = CancelSent(k, t)
                 /\ k = n /\ t = m.task /\ type = "taskofferaccept" => ~Asked(k, t)'
                 /\ k = n /\ t = m.task /\ type = "tasksettings" => ~SettingsSent(k, t)'
<1> DEFINE m == Head(toRunner[n])
<1>1. ChannelTypes /\ ChannelInv
  BY DEF BInv
<1>2. /\ toRunner' \in [Runners -> Seq(ToRunnerMsg)]
      /\ m \in ToRunnerMsg /\ m.type = type /\ process[n] = "up"
      /\ Mentions(toRunner[n], m.task) /\ Has(toRunner[n], {m.type}, m.task)
      /\ \A k \in Runners, t \in Tasks :
            /\ \A T : /\ Has(toRunner[k], T, t)' => Has(toRunner[k], T, t)
                      /\ Has(toRunner[k], T, t) =>
                            Has(toRunner[k], T, t)' \/ (k = n /\ m.type \in T /\ m.task = t)
            /\ Mentions(toRunner[k], t)' => Mentions(toRunner[k], t)
      /\ \A k \in Runners : Once(toRunner[k], RunnerOnce)'
      /\ \A t \in Tasks :
            /\ t = m.task /\ m.type = "taskofferaccept" => ~Asked(n, t)'
            /\ t = m.task /\ m.type = "tasksettings" => ~SettingsSent(n, t)'
  BY <1>1, FromBrokerEffect
<1> HIDE DEF m
<1>3. ASSUME type \in {"taskofferaccept", "tasksettings", "taskcancel"}
      PROVE  /\ m.task \in Tasks /\ m.task \in DOMAIN attempts
             /\ Owns(n, m.task) /\ TaskOK(n, m.task)
             /\ type = "taskofferaccept" => Asked(n, m.task) /\ m.offer \in Offers
             /\ type = "tasksettings" => SettingsSent(n, m.task)
             /\ type = "taskcancel" => CancelSent(n, m.task)
  <2>1. m.task \in Tasks /\ (type = "taskofferaccept" => m.offer \in Offers)
    BY <1>2, <1>3, BrokerMessages
  <2>2. /\ m.task \in DOMAIN attempts
        /\ Owns(n, m.task) /\ TaskOK(n, m.task)
    BY <1>2, <2>1, OwnedTask
  <2>3. QED
    BY <1>2, <2>1, <2>2 DEF Asked, SettingsSent, CancelSent
<1>4. ASSUME NEW k \in Runners, NEW t \in Tasks
      PROVE  /\ Asked(k, t)' => Asked(k, t)
             /\ SettingsSent(k, t)' => SettingsSent(k, t)
             /\ CancelSent(k, t)' => CancelSent(k, t)
             /\ type # "taskofferaccept" => Asked(k, t)' = Asked(k, t)
             /\ type # "tasksettings" => SettingsSent(k, t)' = SettingsSent(k, t)
             /\ type # "taskcancel" => CancelSent(k, t)' = CancelSent(k, t)
  <2>1. \A T : /\ Has(toRunner[k], T, t)' => Has(toRunner[k], T, t)
               /\ Has(toRunner[k], T, t) =>
                     Has(toRunner[k], T, t)' \/ (k = n /\ m.type \in T /\ m.task = t)
    BY <1>2
  <2>2. /\ Asked(k, t)' => Asked(k, t)
        /\ SettingsSent(k, t)' => SettingsSent(k, t)
        /\ CancelSent(k, t)' => CancelSent(k, t)
        /\ Asked(k, t) => Asked(k, t)' \/ type = "taskofferaccept"
        /\ SettingsSent(k, t) => SettingsSent(k, t)' \/ type = "tasksettings"
        /\ CancelSent(k, t) => CancelSent(k, t)' \/ type = "taskcancel"
    BY <1>2, <2>1 DEF Asked, SettingsSent, CancelSent
  <2>3. QED
    BY <2>2, Zenon DEF Asked, SettingsSent, CancelSent, Has
<1>5. QED
  BY <1>2, <1>3, <1>4 DEF m

\* The tasks, when the broker has received a message and sent nothing about them.
LEMMA FadeOnReceipt ==
    ASSUME BInv, NEW n \in Runners, NEW T0, FromRunner(n, T0),
           UNCHANGED <<process, runningTasks, executed, knownRunners>>, tasks' \subseteq tasks,
           \A k \in Runners, t \in Tasks : Owns(k, t) =>
              /\ Asked(k, t)' => Asked(k, t)
              /\ SettingsSent(k, t)' => SettingsSent(k, t)
              /\ CancelSent(k, t)' => CancelSent(k, t),
           Head(toBroker[n]).type \in EndTypes => Head(toBroker[n]).task \notin tasks',
           NEW k \in Runners, NEW t \in Tasks, Owns(k, t)
    PROVE  TaskOK(k, t)'
<1> DEFINE m == Head(toBroker[n])
<1>1. /\ Replied(k, t)' => Replied(k, t)
      /\ Ended(k, t)' => Ended(k, t)
      /\ EndedWell(k, t)' => EndedWell(k, t)
      /\ Ended(k, t) => Ended(k, t)' \/ (k = n /\ m.type \in EndTypes /\ m.task = t)
      /\ k = n /\ t = m.task /\ m.type \in EndTypes \cup {"taskaccepted"} => ~Replied(k, t)'
  BY BrokerReceives
<1>2. TaskOK(k, t)
  BY DEF BInv, TasksInv
<1> HIDE DEF m
<1>3. /\ t \in tasks' => t \in tasks /\ k \in knownRunners'
      /\ m.type \in EndTypes /\ m.task = t => t \notin tasks'
  BY <1>2 DEF TaskOK, m
<1>4. Fades(k, t)
  BY <1>1, <1>3 DEF Fades
<1>5. QED
  BY <1>2, <1>4, FadingTask

-----------------------------------------------------------------------------
(* Steps of the broker and the requester *)

\* handleRequestTimeout keeps the invariant: the pending request was the caller's.
LEMMA RequestTimeoutStep ==
    ASSUME BInv, NEW r \in Requests, RequestTimeout(r)
    PROVE  BInv'
<1> USE DEF BInv
<1>1. /\ UNCHANGED <<knownRunners, pendingTaskOffers, attempts, tasks, isDraining, taskIdOf,
                     runnerVars, toRunner, toBroker>>
      /\ Withdraw(r) /\ acceptInProgress' = acceptInProgress \ {r}
      /\ job' = [job EXCEPT ![r] = IF job[r] = "requested" THEN "expired" ELSE job[r]]
  BY DEF RequestTimeout
<1>2. /\ pendingTaskRequests' \in Seq(Requests)
      /\ r \in ToSet(pendingTaskRequests)
      /\ \A q \in Requests : q \in ToSet(pendingTaskRequests)'
            <=> q \in ToSet(pendingTaskRequests) /\ q # r
      /\ \A i, j \in DOMAIN pendingTaskRequests' :
            pendingTaskRequests'[i] = pendingTaskRequests'[j] => i = j
  BY <1>1, WithdrawEffect
<1>3. AttemptsKept
  BY <1>1 DEF AttemptsKept
<1>4. ChannelInv' /\ ChannelTypes' /\ OwnInv' /\ TasksInv' /\ GivenInv' /\ KnownInv'
  BY <1>1, <1>3, TasksUntouched DEF runnerVars
<1>5. RunnerTypes' /\ RunnerWithinCapacity'
  BY <1>1, RunnersUntouched
<1>6. BrokerTypes'
  BY <1>1, <1>2 DEF BrokerTypes, JobStates
<1>7. ASSUME NEW q \in Requests PROVE RequestOK(q)'
  <2>1. RequestOK(q) /\ RequestOK(r)
    BY DEF RequestsInv
  <2>2. job'[q] = IF q = r THEN "expired" ELSE job[q]
    BY <1>1, <1>2, <2>1 DEF RequestOK, BrokerTypes
  <2>3. QED
    BY <1>1, <1>2, <2>1, <2>2 DEF RequestOK, runnerVars
<1>8. RequestsInv'
  BY <1>2, <1>7 DEF RequestsInv
<1>9. QED
  BY <1>4, <1>5, <1>6, <1>8

\* An acceptance that is given up only opens the request again.
LEMMA GiveUpStep ==
    ASSUME BInv, NEW t \in DOMAIN attempts, GiveUp(t),
           UNCHANGED <<knownRunners, pendingTaskOffers, pendingTaskRequests, tasks, isDraining,
                       requesterVars, runnerVars>>
    PROVE  BrokerTypes' /\ RunnerTypes' /\ RunnerWithinCapacity' /\ RequestsInv' /\ KnownInv' /\ AttemptsKept
<1> USE DEF BInv
<1>1. /\ attempts' = [attempts EXCEPT ![t].state = "closed"]
      /\ acceptInProgress' \subseteq acceptInProgress
  BY DEF GiveUp
<1>2. attempts' \in Seq(Attempt) /\ Len(attempts') = Len(attempts) /\ AttemptsKept
  BY <1>1, CloseAttempt
<1>3. DOMAIN attempts' = DOMAIN attempts
  BY <1>2 DEF AttemptsKept
<1>4. BrokerTypes'
  BY <1>1, <1>2, <1>3 DEF BrokerTypes, requesterVars
<1>5. RunnerTypes' /\ RunnerWithinCapacity'
  BY <1>3, RunnersUntouched
<1>6. RequestsInv'
  <2>1. \A r \in Requests : job[r] = "started" => taskIdOf[r] \in tasks'
    BY DEF RequestsInv, RequestOK
  <2>2. QED
    BY <1>2, <2>1, RequestsKept DEF requesterVars, runnerVars
<1>7. KnownInv'
  BY DEF KnownInv, runnerVars
<1>8. QED
  BY <1>2, <1>4, <1>5, <1>6, <1>7

\* The timeout of acceptOffer keeps the invariant.
LEMMA AcceptTimeoutStep ==
    ASSUME BInv, NEW t \in Tasks, AcceptTimeout(t)
    PROVE  BInv'
<1>1. /\ t \in DOMAIN attempts /\ GiveUp(t)
      /\ UNCHANGED <<knownRunners, pendingTaskOffers, pendingTaskRequests, tasks, isDraining,
                     requesterVars, runnerVars>>
      /\ UNCHANGED <<toRunner, toBroker>>
  BY DEF AcceptTimeout
<1>2. BrokerTypes' /\ RunnerTypes' /\ RunnerWithinCapacity' /\ RequestsInv' /\ KnownInv' /\ AttemptsKept
  BY <1>1, GiveUpStep
<1>3. ChannelInv' /\ ChannelTypes' /\ OwnInv' /\ TasksInv' /\ GivenInv'
  BY <1>1, <1>2, TasksUntouched DEF requesterVars, runnerVars
<1>4. QED
  BY <1>2, <1>3 DEF BInv

\* The connections and tasks after the broker has received a message and sent none.
LEMMA ReceiptKeeps ==
    ASSUME BInv, NEW n \in Runners, NEW T0, FromRunner(n, T0), AttemptsKept,
           UNCHANGED <<process, runningTasks, executed, knownRunners, taskIdOf, toRunner>>,
           tasks' \subseteq tasks,
           Head(toBroker[n]).type \in EndTypes => Head(toBroker[n]).task \notin tasks'
    PROVE  ChannelTypes' /\ ChannelInv' /\ OwnInv' /\ TasksInv' /\ GivenInv' /\ KnownInv'
<1> USE DEF BInv
<1>1. /\ toBroker' \in [Runners -> Seq(ToBrokerMsg)]
      /\ \A k \in Runners : Once(toBroker[k], BrokerOnce)' /\ InOrder(toBroker[k])'
      /\ \A k \in Runners, t \in Tasks : Mentions(toBroker[k], t)' => Mentions(toBroker[k], t)
  BY BrokerReceives
<1>2. ChannelTypes' /\ ChannelInv'
  BY <1>1 DEF ChannelTypes, ChannelInv
<1>3. OwnInv'
  BY <1>1, OwnKept, ChannelsUnchanged
<1>4. TasksInv'
  <2>1. \A k \in Runners, t \in Tasks : Owns(k, t) =>
           /\ Asked(k, t)' => Asked(k, t)
           /\ SettingsSent(k, t)' => SettingsSent(k, t)
           /\ CancelSent(k, t)' => CancelSent(k, t)
    BY ChannelsUnchanged
  <2>2. ASSUME NEW k \in Runners, NEW t \in Tasks, Owns(k, t)
        PROVE  TaskOK(k, t)'
    BY <2>1, <2>2, FadeOnReceipt
  <2>3. QED
    BY <2>2, TasksKept
<1>5. GivenInv'
  BY GivenKept, ChannelsUnchanged
<1>6. KnownInv'
  BY DEF KnownInv
<1>7. QED
  BY <1>2, <1>3, <1>4, <1>5, <1>6

\* handleRunnerReject and handleRunnerDeferred keep the invariant.
LEMMA RunnerRejectsStep ==
    ASSUME BInv, NEW n \in Runners, RunnerRejects(n)
    PROVE  BInv'
<1> DEFINE m == Head(toBroker[n])
<1>1. /\ FromRunner(n, {"taskrejected"})
      /\ IF attempts[m.task].state = "pending" THEN GiveUp(m.task)
         ELSE UNCHANGED <<attempts, acceptInProgress>>
      /\ UNCHANGED <<knownRunners, pendingTaskOffers, pendingTaskRequests, tasks, isDraining,
                     requesterVars, runnerVars, toRunner>>
  BY DEF RunnerRejects
<1>2. m.type = "taskrejected" /\ m.task \in DOMAIN attempts
  BY <1>1, BrokerReceives
<1> HIDE DEF m
<1>3. BrokerTypes' /\ RunnerTypes' /\ RunnerWithinCapacity' /\ RequestsInv' /\ AttemptsKept
  <2>1. CASE GiveUp(m.task)
    BY <1>1, <1>2, <2>1, GiveUpStep
  <2>2. CASE UNCHANGED <<attempts, acceptInProgress>>
    <3>1. AttemptsKept
      BY <2>2 DEF AttemptsKept
    <3>2. BrokerTypes'
      BY <1>1, <2>2 DEF BInv, BrokerTypes, requesterVars
    <3>3. RunnerTypes' /\ RunnerWithinCapacity'
      BY <1>1, <2>2, RunnersUntouched
    <3>4. RequestsInv'
      BY <1>1, <2>2 DEF BInv, RequestsInv, RequestOK, requesterVars, runnerVars
    <3>5. QED
      BY <3>1, <3>2, <3>3, <3>4
  <2>3. QED
    BY <1>1, <2>1, <2>2
<1>4. ChannelTypes' /\ ChannelInv' /\ OwnInv' /\ TasksInv' /\ GivenInv' /\ KnownInv'
  <2>1. ~(Head(toBroker[n]).type \in EndTypes)
    BY <1>2 DEF m, EndTypes
  <2>2. QED
    BY <1>1, <1>3, <2>1, ReceiptKeeps DEF requesterVars, runnerVars
<1>5. QED
  BY <1>3, <1>4 DEF BInv

\* A message of a runner that is no longer known changes nothing but the connection.
LEMMA IgnoreMessageStep ==
    ASSUME BInv, NEW n \in Runners, IgnoreMessage(n)
    PROVE  BInv'
<1> DEFINE m == Head(toBroker[n])
           T0 == {"taskoffer", "taskaccepted", "taskrejected", "taskdone", "taskerror"}
<1>1. /\ FromRunner(n, T0) /\ n \notin knownRunners
      /\ UNCHANGED <<brokerAllVars, runnerVars, toRunner>>
  BY DEF IgnoreMessage
<1>2. m.type # "taskoffer" => TaskOK(n, m.task)
  BY <1>1, BrokerReceives
<1>3. m.type \in EndTypes => m.task \notin tasks
  BY <1>1, <1>2 DEF EndTypes, TaskOK
<1> HIDE DEF m, T0
<1>4. AttemptsKept
  BY <1>1 DEF AttemptsKept, brokerAllVars, brokerVars, matchVars
<1>5. ChannelTypes' /\ ChannelInv' /\ OwnInv' /\ TasksInv' /\ GivenInv' /\ KnownInv'
  BY <1>1, <1>3, <1>4, ReceiptKeeps
     DEF m, brokerAllVars, brokerVars, requesterVars, runnerVars
<1>6. RunnerTypes' /\ RunnerWithinCapacity'
  BY <1>1, RunnersUntouched DEF brokerAllVars, brokerVars, matchVars
<1>7. BrokerTypes' /\ RequestsInv'
  BY <1>1 DEF BInv, BrokerTypes, RequestsInv, RequestOK, brokerAllVars, brokerVars, matchVars,
              requesterVars, runnerVars
<1>8. QED
  BY <1>5, <1>6, <1>7 DEF BInv

\* taskDoneHandler and taskErrorHandler keep the invariant: only code that ran is done,
\* and no acceptance of the task can still be on its way.
LEMMA TaskResultStep ==
    ASSUME BInv, NEW n \in Runners, TaskResult(n)
    PROVE  BInv'
<1> DEFINE m == Head(toBroker[n])
           result == IF m.type = "taskdone" THEN "done" ELSE "error"
           ts == {m.task} \cap tasks
<1>1. /\ FromRunner(n, {"taskdone", "taskerror"}) /\ Answer(ts, result)
      /\ UNCHANGED <<knownRunners, matchVars, isDraining, runnerVars, toRunner>>
  BY DEF TaskResult
<1>2. /\ m.task \in Tasks /\ TaskOK(n, m.task)
      /\ m.type = "taskdone" => EndedWell(n, m.task)
  BY <1>1, BrokerReceives
<1>3. m.type = "taskdone" => m.task \in executed
  BY <1>2 DEF TaskOK
<1>4. AttemptsKept /\ pendingTaskRequests' = pendingTaskRequests /\ executed' = executed
  BY <1>1 DEF AttemptsKept, matchVars, runnerVars
<1>5. ts \in SUBSET Tasks /\ result \in {"done", "error"} /\ (result = "done" => ts \subseteq executed)
  BY <1>2, <1>3
<1> HIDE DEF result
<1>6. RequestsInv' /\ job' \in [Requests -> JobStates] /\ tasks' = tasks \ ts /\ taskIdOf' = taskIdOf
  BY <1>1, <1>4, <1>5, RequestsAnswered
<1>7. ChannelTypes' /\ ChannelInv' /\ OwnInv' /\ TasksInv' /\ GivenInv' /\ KnownInv'
  BY <1>1, <1>4, <1>6, ReceiptKeeps DEF runnerVars
<1>8. RunnerTypes' /\ RunnerWithinCapacity'
  BY <1>1, RunnersUntouched DEF matchVars
<1>9. BrokerTypes'
  BY <1>1, <1>6 DEF BInv, BrokerTypes, matchVars
<1>10. QED
  BY <1>6, <1>7, <1>8, <1>9 DEF BInv

\* handleRunnerAccept and what follows keep the invariant: whatever the task waited
\* for, it has been asked once, so neither settings nor a cancel are under way, and
\* the request, when it still pends, has no task id yet.
LEMMA RunnerAcceptsStep ==
    ASSUME BInv, NEW n \in Runners, RunnerAccepts(n)
    PROVE  BInv'
<1> DEFINE t0 == Head(toBroker[n]).task
           r == attempts[t0].request
<1>1. /\ FromRunner(n, {"taskaccepted"}) /\ n \in knownRunners
      /\ attempts' = [attempts EXCEPT ![t0].state = "closed"]
      /\ UNCHANGED <<knownRunners, pendingTaskOffers, isDraining, runnerVars>>
  BY DEF RunnerAccepts
<1>a. \/ /\ attempts[t0].state # "pending"
         /\ UNCHANGED <<pendingTaskRequests, acceptInProgress, tasks, requesterVars, toRunner>>
      \/ /\ tasks' = tasks \cup {t0}
         /\ UNCHANGED <<pendingTaskRequests, acceptInProgress, requesterVars, toRunner>>
      \/ /\ Withdraw(r) /\ tasks' = tasks \cup {t0}
         /\ acceptInProgress' = acceptInProgress \ {r}
         /\ job' = [job EXCEPT ![r] = "started"]
         /\ taskIdOf' = [taskIdOf EXCEPT ![r] = t0]
         /\ toRunner' = ToRunner(n, Msg("tasksettings", t0))
  BY Zenon DEF RunnerAccepts
<1>2. /\ toBroker' \in [Runners -> Seq(ToBrokerMsg)] /\ Head(toBroker[n]).type = "taskaccepted"
      /\ t0 \in Tasks /\ t0 \in DOMAIN attempts
      /\ Owns(n, t0) /\ attempts[t0].runner = n /\ TaskOK(n, t0) /\ Replied(n, t0)
      /\ \A k \in Runners : Once(toBroker[k], BrokerOnce)' /\ InOrder(toBroker[k])'
      /\ \A k \in Runners, t \in Tasks :
            /\ Mentions(toBroker[k], t)' => Mentions(toBroker[k], t)
            /\ Replied(k, t)' => Replied(k, t)
            /\ Ended(k, t)' <=> Ended(k, t)
            /\ EndedWell(k, t)' <=> EndedWell(k, t)
            /\ k = n /\ t = t0 => ~Replied(k, t)'
  <2>1. "taskaccepted" \notin EndTypes
    BY DEF EndTypes
  <2>2. Head(toBroker[n]).type = "taskaccepted"
    BY <1>1, BrokerReceives
  <2>3. QED
    BY <1>1, <2>1, <2>2, BrokerReceives
<1> HIDE DEF t0
<1>3. attempts' \in Seq(Attempt) /\ Len(attempts') = Len(attempts) /\ AttemptsKept
  BY <1>1, <1>2, CloseAttempt DEF BInv
<1>4. /\ DOMAIN attempts' = DOMAIN attempts /\ r \in Requests /\ DOMAIN attempts \subseteq Tasks
  BY <1>2, <1>3, AttemptTypes DEF AttemptsKept, BInv
<1>5. RunnerTypes' /\ RunnerWithinCapacity' /\ KnownInv'
  BY <1>1, <1>4, RunnersUntouched DEF BInv, KnownInv, runnerVars
<1>6. ASSUME NEW k \in Runners, NEW t \in Tasks, Owns(k, t), t # t0 \/ k # n
      PROVE  t # t0 /\ TaskOK(k, t)
  BY <1>2, <1>6 DEF Owns, BInv, TasksInv
<1>7. CASE /\ attempts[t0].state # "pending"
           /\ UNCHANGED <<pendingTaskRequests, acceptInProgress, tasks, requesterVars, toRunner>>
  <2>1. Head(toBroker[n]).type \notin EndTypes
    BY <1>2 DEF EndTypes
  <2>2. ChannelTypes' /\ ChannelInv' /\ OwnInv' /\ TasksInv' /\ GivenInv'
    BY <1>1, <1>3, <1>7, <2>1, ReceiptKeeps DEF requesterVars, runnerVars
  <2>3. BrokerTypes'
    BY <1>1, <1>3, <1>4, <1>7 DEF BInv, BrokerTypes, requesterVars
  <2>4. \A q \in Requests : job[q] = "started" => taskIdOf[q] \in tasks'
    BY <1>7 DEF BInv, RequestsInv, RequestOK
  <2>5. RequestsInv'
    BY <1>1, <1>3, <1>7, <2>4, RequestsKept DEF requesterVars, runnerVars
  <2>6. QED
    BY <1>5, <2>2, <2>3, <2>5 DEF BInv
<1>8. ASSUME tasks' = tasks \cup {t0},
             \A k \in Runners, t \in Tasks :
                /\ Asked(k, t)' <=> Asked(k, t)
                /\ CancelSent(k, t)' <=> CancelSent(k, t)
                /\ t # t0 => (SettingsSent(k, t)' <=> SettingsSent(k, t))
      PROVE  TasksInv'
  <2>1. ASSUME NEW k \in Runners, NEW t \in Tasks, Owns(k, t), t # t0 \/ k # n
        PROVE  TaskOK(k, t)'
    <3>1. t # t0 /\ TaskOK(k, t)
      BY <1>6, <2>1
    <3>2. t \in tasks' => t \in tasks /\ k \in knownRunners'
      BY <1>1, <1>8, <3>1 DEF TaskOK
    <3>3. Fades(k, t)
      BY <1>1, <1>2, <1>8, <3>1, <3>2 DEF Fades, runnerVars
    <3>4. QED
      BY <3>1, <3>3, FadingTask
  <2>2. ASSUME NEW t \in Tasks, t = t0 PROVE TaskOK(n, t)'
    <3>1. /\ ~Replied(n, t)' /\ (Asked(n, t)' <=> Asked(n, t))
          /\ (CancelSent(n, t)' <=> CancelSent(n, t))
          /\ (Ended(n, t)' <=> Ended(n, t)) /\ (EndedWell(n, t)' <=> EndedWell(n, t))
          /\ UNCHANGED <<process, executed, knownRunners, runningTasks>>
      BY <1>1, <1>2, <1>8, <2>2 DEF runnerVars
    <3>2. /\ Asked(n, t)' = Asked(n, t) /\ CancelSent(n, t)' = CancelSent(n, t)
          /\ Ended(n, t)' = Ended(n, t) /\ EndedWell(n, t)' = EndedWell(n, t)
      BY <3>1, Zenon DEF Asked, CancelSent, Ended, EndedWell, Has
    <3>3. QED
      BY <1>1, <1>2, <2>2, <3>1, <3>2, AcceptedTask
  <2>3. QED
    BY <1>3, <2>1, <2>2, TasksKept DEF BInv
<1>9. CASE /\ tasks' = tasks \cup {t0}
           /\ UNCHANGED <<pendingTaskRequests, acceptInProgress, requesterVars, toRunner>>
  <2>1. TasksInv'
    BY <1>8, <1>9, ChannelsUnchanged
  <2>2. ChannelTypes' /\ ChannelInv'
    BY <1>2, <1>9 DEF BInv, ChannelTypes, ChannelInv
  <2>3. OwnInv'
    BY <1>1, <1>2, <1>3, <1>9, OwnKept, ChannelsUnchanged DEF BInv, runnerVars
  <2>4. GivenInv'
    BY <1>1, <1>3, <1>9, GivenKept, ChannelsUnchanged DEF BInv, requesterVars, runnerVars
  <2>5. BrokerTypes'
    BY <1>1, <1>2, <1>3, <1>4, <1>9 DEF BInv, BrokerTypes, requesterVars
  <2>6. \A q \in Requests : job[q] = "started" => taskIdOf[q] \in tasks'
    BY <1>9 DEF BInv, RequestsInv, RequestOK
  <2>7. RequestsInv'
    BY <1>1, <1>3, <1>9, <2>6, RequestsKept DEF requesterVars, runnerVars
  <2>8. QED
    BY <1>5, <2>1, <2>2, <2>3, <2>4, <2>5, <2>7 DEF BInv
<1>10. CASE /\ Withdraw(r) /\ tasks' = tasks \cup {t0}
            /\ acceptInProgress' = acceptInProgress \ {r}
            /\ job' = [job EXCEPT ![r] = "started"]
            /\ taskIdOf' = [taskIdOf EXCEPT ![r] = t0]
            /\ toRunner' = ToRunner(n, Msg("tasksettings", t0))
  <2> DEFINE m == Msg("tasksettings", t0)
  <2>1. m \in ToRunnerMsg /\ m.type = "tasksettings" /\ m.task = t0
    BY <1>2, BrokerMessages, MessageFields
  <2>2. /\ toRunner' \in [Runners -> Seq(ToRunnerMsg)]
        /\ \A k \in Runners, t \in Tasks :
              /\ \A T : Has(toRunner[k], T, t)' <=>
                    \/ Has(toRunner[k], T, t)
                    \/ /\ k = n /\ n \in knownRunners /\ process[n] = "up"
                       /\ m.type \in T /\ m.task = t
              /\ Mentions(toRunner[k], t)' =>
                    Mentions(toRunner[k], t) \/ (k = n /\ m.task = t)
        /\ \A k \in Runners :
              Once(toRunner[k], RunnerOnce) /\ (m.type \in RunnerOnce => ~Has(toRunner[n], {m.type}, m.task))
              => Once(toRunner[k], RunnerOnce)'
    BY <1>10, <2>1, ToRunnerEffect DEF BInv
  <2> HIDE DEF m
  <2>3. ASSUME NEW k \in Runners, NEW t \in Tasks
        PROVE  /\ Asked(k, t)' <=> Asked(k, t)
               /\ CancelSent(k, t)' <=> CancelSent(k, t)
               /\ t # t0 => (SettingsSent(k, t)' <=> SettingsSent(k, t))
    <3>1. \A T : Has(toRunner[k], T, t)' <=>
                    \/ Has(toRunner[k], T, t)
                    \/ /\ k = n /\ n \in knownRunners /\ process[n] = "up"
                       /\ m.type \in T /\ m.task = t
      BY <2>2
    <3>2. QED
      BY <2>1, <3>1 DEF Asked, CancelSent, SettingsSent
  <2>4. TasksInv'
    BY <1>8, <1>10, <2>3
  <2>5. ~Has(toRunner[n], {"tasksettings"}, t0)
    BY <1>2 DEF TaskOK, SettingsSent
  <2>6. ChannelTypes' /\ ChannelInv'
    BY <1>2, <2>1, <2>2, <2>5 DEF BInv, ChannelTypes, ChannelInv
  <2>7. OwnInv'
    BY <1>1, <1>2, <1>3, <2>1, <2>2, OwnKept DEF BInv, runnerVars
  <2>8. /\ pendingTaskRequests' \in Seq(Requests)
        /\ r \in ToSet(pendingTaskRequests) /\ r \in Requests
        /\ \A q \in Requests : q \in ToSet(pendingTaskRequests)'
              <=> q \in ToSet(pendingTaskRequests) /\ q # r
        /\ \A i, j \in DOMAIN pendingTaskRequests' :
              pendingTaskRequests'[i] = pendingTaskRequests'[j] => i = j
    BY <1>10, WithdrawEffect
  <2>9. taskIdOf[r] = NoTask /\ NoTask \notin Tasks
    BY <2>8, TaskIds DEF BInv, RequestsInv, RequestOK
  <2>10. \A q \in Requests : /\ taskIdOf'[q] = IF q = r THEN t0 ELSE taskIdOf[q]
                             /\ job'[q] = IF q = r THEN "started" ELSE job[q]
    BY <1>10, <2>8 DEF BInv, BrokerTypes
  <2>11. BrokerTypes'
    BY <1>1, <1>2, <1>3, <1>4, <1>10, <2>8 DEF BInv, BrokerTypes, JobStates
  <2>12. ASSUME NEW k \in Runners, NEW t \in Tasks, Owns(k, t)', SettingsSent(k, t)' \/ t \in executed'
         PROVE  taskIdOf'[attempts'[t].request] = t
    <3>1. Owns(k, t) /\ t \in DOMAIN attempts /\ attempts'[t].request = attempts[t].request
      BY <1>3, <2>12, OwnerKept DEF AttemptsKept, Owns
    <3>2. CASE t = t0
      BY <2>10, <1>4, <3>1, <3>2
    <3>3. CASE t # t0
      <4>1. SettingsSent(k, t) \/ t \in executed
        BY <1>1, <2>3, <2>12, <3>3 DEF runnerVars
      <4>2. taskIdOf[attempts[t].request] = t
        BY <3>1, <4>1 DEF BInv, GivenInv
      <4>3. attempts[t].request \in Requests /\ attempts[t].request # r
        BY <2>9, <3>1, <4>2, AttemptTypes DEF BInv
      <4>4. QED
        BY <2>10, <3>1, <4>2, <4>3
    <3>4. QED
      BY <3>2, <3>3
  <2>13. GivenInv'
    BY <2>12 DEF GivenInv
  <2>14. ASSUME NEW q \in Requests PROVE RequestOK(q)'
    <3>1. RequestOK(q)
      BY DEF BInv, RequestsInv
    <3>2. CASE q = r
      BY <1>2, <1>3, <1>4, <1>10, <2>8, <2>9, <2>10, <3>2 DEF RequestOK, AttemptsKept
    <3>3. CASE q # r
      BY <1>1, <1>3, <1>10, <2>8, <2>10, <3>1, <3>3 DEF RequestOK, AttemptsKept, runnerVars
    <3>4. QED
      BY <3>2, <3>3
  <2>15. RequestsInv'
    BY <2>8, <2>14 DEF RequestsInv
  <2>16. QED
    BY <1>5, <2>4, <2>6, <2>7, <2>11, <2>13, <2>15 DEF BInv
<1>11. QED
  BY <1>a, <1>7, <1>9, <1>10

\* A task that the broker drops with a cancel message: it was accepted long ago, so
\* neither the question nor the reply can still be under way.
LEMMA CancelKeeps ==
    ASSUME BInv, NEW t0 \in tasks, tasks' = tasks \ {t0},
           toRunner' = ToRunner(attempts[t0].runner, Msg("taskcancel", t0)),
           UNCHANGED <<attempts, knownRunners, process, runningTasks, executed, toBroker, taskIdOf>>
    PROVE  ChannelTypes' /\ ChannelInv' /\ OwnInv' /\ TasksInv' /\ GivenInv' /\ KnownInv'
<1> DEFINE n == attempts[t0].runner
           m == Msg("taskcancel", t0)
<1>1. t0 \in DOMAIN attempts /\ t0 \in Tasks /\ n \in Runners /\ Owns(n, t0)
  BY AttemptTypes DEF BInv, BrokerTypes
<1>2. m \in ToRunnerMsg /\ m.type = "taskcancel" /\ m.task = t0
  BY <1>1, BrokerMessages, MessageFields
<1>3. AttemptsKept
  BY DEF AttemptsKept
<1>4. /\ toRunner' \in [Runners -> Seq(ToRunnerMsg)]
      /\ \A k \in Runners, t \in Tasks :
            /\ \A T : Has(toRunner[k], T, t)' <=>
                  \/ Has(toRunner[k], T, t)
                  \/ /\ k = n /\ n \in knownRunners /\ process[n] = "up"
                     /\ m.type \in T /\ m.task = t
            /\ Mentions(toRunner[k], t)' =>
                  Mentions(toRunner[k], t) \/ (k = n /\ m.task = t)
      /\ \A k \in Runners :
            Once(toRunner[k], RunnerOnce) /\ (m.type \in RunnerOnce => ~Has(toRunner[n], {m.type}, m.task))
            => Once(toRunner[k], RunnerOnce)'
  <2> HIDE DEF n, m
  <2>1. toRunner' = ToRunner(n, m)
    BY DEF n, m
  <2>2. QED
    BY <1>1, <1>2, <2>1, ToRunnerEffect DEF BInv
<1> HIDE DEF m, n
<1>5. ASSUME NEW k \in Runners, NEW t \in Tasks
      PROVE  /\ Asked(k, t)' <=> Asked(k, t)
             /\ SettingsSent(k, t)' <=> SettingsSent(k, t)
             /\ CancelSent(k, t)' => CancelSent(k, t) \/ t = t0
  <2>1. \A T : Has(toRunner[k], T, t)' <=>
                  \/ Has(toRunner[k], T, t)
                  \/ /\ k = n /\ n \in knownRunners /\ process[n] = "up"
                     /\ m.type \in T /\ m.task = t
    BY <1>4
  <2>2. QED
    BY <1>2, <2>1 DEF Asked, CancelSent, SettingsSent
<1>6. ChannelTypes' /\ ChannelInv'
  <2>1. "taskcancel" \notin RunnerOnce
    BY DEF RunnerOnce
  <2>2. QED
    BY <1>2, <1>4, <2>1 DEF BInv, ChannelTypes, ChannelInv
<1>7. OwnInv'
  BY <1>1, <1>2, <1>3, <1>4, OwnKept, ChannelsUnchanged DEF BInv
<1>8. ASSUME NEW k \in Runners, NEW t \in Tasks, TaskOK(k, t)
      PROVE  TaskOK(k, t)'
  <2>1. Fades(k, t)
    BY <1>5, <1>8, ChannelsUnchanged DEF Fades, TaskOK
  <2>2. QED
    BY <1>8, <2>1, FadingTask
<1>9. TasksInv'
  BY <1>3, <1>8, TasksKept DEF BInv
<1>10. GivenInv'
  BY <1>3, <1>5, GivenKept DEF BInv
<1>11. KnownInv'
  BY DEF BInv, KnownInv
<1>12. QED
  BY <1>6, <1>7, <1>9, <1>10, <1>11

\* cancelTask keeps the invariant: the request that is cancelled has this task alone.
LEMMA CancelTaskStep ==
    ASSUME BInv, NEW r \in Requests, CancelTask(r)
    PROVE  BInv'
<1> DEFINE t0 == taskIdOf[r]
<1>1. /\ job[r] = "started" /\ job' = [job EXCEPT ![r] = "cancelled"]
      /\ UNCHANGED <<knownRunners, matchVars, isDraining, taskIdOf, runnerVars, toBroker>>
  BY DEF CancelTask
<1>2. t0 \in tasks
  BY <1>1 DEF BInv, RequestsInv, RequestOK
<1>3. tasks' = tasks \ {t0} /\ toRunner' = ToRunner(attempts[t0].runner, Msg("taskcancel", t0))
  BY <1>2 DEF CancelTask
<1> HIDE DEF t0
<1>4. ChannelTypes' /\ ChannelInv' /\ OwnInv' /\ TasksInv' /\ GivenInv' /\ KnownInv'
  BY <1>1, <1>2, <1>3, CancelKeeps DEF matchVars, runnerVars
<1>5. RunnerTypes' /\ RunnerWithinCapacity'
  BY <1>1, RunnersUntouched DEF matchVars
<1>6. BrokerTypes'
  BY <1>1, <1>3 DEF BInv, BrokerTypes, matchVars, JobStates
<1>7. ASSUME NEW q \in Requests PROVE RequestOK(q)'
  <2>1. RequestOK(q) /\ RequestOK(r)
    BY DEF BInv, RequestsInv
  <2>2. job'[q] = IF q = r THEN "cancelled" ELSE job[q]
    BY <1>1 DEF BInv, BrokerTypes
  <2>3. q # r /\ taskIdOf[q] # NoTask => taskIdOf[q] # t0
    BY <2>1 DEF RequestOK, t0
  <2>4. NoTask \notin tasks
    BY AttemptTypes, TaskIds DEF BInv, BrokerTypes
  <2>5. QED
    BY <1>1, <1>3, <2>1, <2>2, <2>3, <2>4 DEF RequestOK, matchVars, runnerVars
<1>8. RequestsInv'
  BY <1>1, <1>7 DEF BInv, RequestsInv, matchVars
<1>9. QED
  BY <1>4, <1>5, <1>6, <1>8 DEF BInv

\* Runner processes that end take their promises with them.
LEMMA ExitKeeps ==
    ASSUME BInv, NEW ns \in SUBSET Runners, Exit(ns), \A k \in ns : process[k] = "up",
           tasks' \subseteq tasks,
           UNCHANGED <<attempts, knownRunners, executed, toBroker, taskIdOf>>
    PROVE  /\ RunnerTypes' /\ ChannelTypes' /\ ChannelInv' /\ OwnInv' /\ TasksInv' /\ GivenInv'
           /\ KnownInv' /\ RunnerWithinCapacity'
<1>1. /\ process' = [k \in Runners |-> IF k \in ns THEN "gone" ELSE process[k]]
      /\ canSendOffers' = [k \in Runners |-> canSendOffers[k] /\ k \notin ns]
      /\ runnerDraining' = [k \in Runners |-> runnerDraining[k] /\ k \notin ns]
      /\ openOffers' = [k \in Runners |-> IF k \in ns THEN {} ELSE openOffers[k]]
      /\ runningTasks' = [k \in Runners |->
           IF k \in ns THEN [t \in Tasks |-> "none"] ELSE runningTasks[k]]
      /\ toRunner' = [k \in Runners |-> IF k \in ns THEN <<>> ELSE toRunner[k]]
  BY DEF Exit
<1>2. AttemptsKept
  BY DEF AttemptsKept
<1>3. RunnerTypes'
  <2>1. canSendOffers' \in [Runners -> BOOLEAN] /\ runnerDraining' \in [Runners -> BOOLEAN]
    BY <1>1
  <2>2. /\ process' \in [Runners -> {"new", "up", "gone"}]
        /\ openOffers' \in [Runners -> SUBSET Offers]
        /\ runningTasks' \in [Runners -> [Tasks -> TaskStatuses]]
    BY <1>1 DEF BInv, RunnerTypes, TaskStatuses
  <2>3. QED
    BY <2>1, <2>2 DEF BInv, RunnerTypes
<1>4. ASSUME NEW k \in Runners
      PROVE  /\ toRunner'[k] = IF k \in ns THEN <<>> ELSE toRunner[k]
             /\ process'[k] = IF k \in ns THEN "gone" ELSE process[k]
             /\ \A t \in Tasks : runningTasks'[k][t] = IF k \in ns THEN "none" ELSE runningTasks[k][t]
             /\ openOffers'[k] \subseteq openOffers[k]
  BY <1>1
<1>5. ASSUME NEW k \in Runners, NEW t \in Tasks
      PROVE  /\ Asked(k, t)' => Asked(k, t)
             /\ SettingsSent(k, t)' => SettingsSent(k, t)
             /\ CancelSent(k, t)' => CancelSent(k, t)
             /\ Mentions(toRunner[k], t)' => Mentions(toRunner[k], t)
  BY <1>4, EmptyChannel DEF Asked, SettingsSent, CancelSent
<1>6. ChannelTypes'
  <2>1. toRunner' \in [Runners -> Seq(ToRunnerMsg)]
    BY <1>1, EmptySeq DEF BInv, ChannelTypes
  <2>2. QED
    BY <2>1 DEF BInv, ChannelTypes
<1>7. ChannelInv'
  BY <1>4, EmptyChannel DEF BInv, ChannelInv
<1>8. OwnInv'
  BY <1>2, <1>4, <1>5, OwnKept, ChannelsUnchanged DEF BInv
<1>9. ASSUME NEW k \in Runners, NEW t \in Tasks, TaskOK(k, t)
      PROVE  TaskOK(k, t)'
  <2>1. t \in tasks' => t \in tasks /\ k \in knownRunners'
    BY <1>9 DEF TaskOK
  <2>2. Fades(k, t)
    BY <1>4, <1>5, <2>1, ChannelsUnchanged DEF Fades
  <2>3. QED
    BY <1>9, <2>2, FadingTask
<1>10. TasksInv'
  BY <1>2, <1>9, TasksKept DEF BInv
<1>11. GivenInv'
  BY <1>2, <1>5, GivenKept DEF BInv
<1>12. KnownInv'
  BY <1>4 DEF BInv, KnownInv, BrokerTypes
<1>13. RunnerWithinCapacity'
  BY <1>4, CapacityKept
<1>14. QED
  BY <1>3, <1>6, <1>7, <1>8, <1>10, <1>11, <1>12, <1>13

\* handleTaskTimeout keeps the invariant in both modes.
LEMMA TaskTimeoutStep ==
    ASSUME BInv, NEW t0 \in Tasks, TaskTimeout(t0)
    PROVE  BInv'
<1>1. /\ t0 \in tasks /\ Answer({t0}, "error")
      /\ UNCHANGED <<knownRunners, matchVars, isDraining, executed, toBroker>>
  BY DEF TaskTimeout
<1>2. \/ Exit({n \in Runners : process[n] = "up"})
      \/ /\ toRunner' = ToRunner(attempts[t0].runner, Msg("taskcancel", t0))
         /\ UNCHANGED <<process, canSendOffers, runnerDraining, openOffers, runningTasks>>
  BY DEF TaskTimeout
<1>3. AttemptsKept /\ UNCHANGED <<pendingTaskRequests, executed>>
  BY <1>1 DEF AttemptsKept, matchVars
<1>4. RequestsInv' /\ job' \in [Requests -> JobStates] /\ tasks' = tasks \ {t0} /\ taskIdOf' = taskIdOf
  BY <1>1, <1>3, RequestsAnswered
<1>5. BrokerTypes'
  BY <1>1, <1>4 DEF BInv, BrokerTypes, matchVars
<1>6. CASE Exit({n \in Runners : process[n] = "up"})
  <2> DEFINE ns == {n \in Runners : process[n] = "up"}
  <2>1. ns \in SUBSET Runners /\ \A k \in ns : process[k] = "up"
    OBVIOUS
  <2> HIDE DEF ns
  <2>2. /\ Exit(ns) /\ tasks' \subseteq tasks
        /\ UNCHANGED <<attempts, knownRunners, executed, toBroker, taskIdOf>>
    BY <1>1, <1>4, <1>6 DEF ns, matchVars
  <2>3. /\ RunnerTypes' /\ ChannelTypes' /\ ChannelInv' /\ OwnInv' /\ TasksInv' /\ GivenInv'
        /\ KnownInv' /\ RunnerWithinCapacity'
    BY <2>1, <2>2, ExitKeeps
  <2>4. QED
    BY <1>4, <1>5, <2>3 DEF BInv
<1>7. CASE /\ toRunner' = ToRunner(attempts[t0].runner, Msg("taskcancel", t0))
           /\ UNCHANGED <<process, canSendOffers, runnerDraining, openOffers, runningTasks>>
  <2>1. ChannelTypes' /\ ChannelInv' /\ OwnInv' /\ TasksInv' /\ GivenInv' /\ KnownInv'
    BY <1>1, <1>4, <1>7, CancelKeeps DEF matchVars
  <2>2. RunnerTypes' /\ RunnerWithinCapacity'
    BY <1>1, <1>7, RunnersUntouched DEF matchVars, runnerVars
  <2>3. QED
    BY <1>4, <1>5, <2>1, <2>2 DEF BInv
<1>8. QED
  BY <1>2, <1>6, <1>7

\* registerRunner keeps the invariant: nobody has asked a runner that is not connected.
LEMMA RegisterRunnerStep ==
    ASSUME BInv, NEW n \in Runners, RegisterRunner(n)
    PROVE  BInv'
<1> DEFINE m == Msg("runnerregistered", NoTask)
<1>1. /\ process[n] = "new" /\ process' = [process EXCEPT ![n] = "up"]
      /\ knownRunners' = knownRunners \cup {n}
      /\ toRunner' = [toRunner EXCEPT ![n] = <<m>>]
      /\ UNCHANGED <<matchVars, tasks, isDraining, requesterVars, canSendOffers,
                     runnerDraining, openOffers, runningTasks, executed, toBroker>>
  BY DEF RegisterRunner
<1>2. m \in ToRunnerMsg /\ m.task = NoTask /\ m.type = "runnerregistered"
  BY BrokerMessages, MessageFields
<1>3. AttemptsKept
  BY <1>1 DEF AttemptsKept, matchVars
<1>4. /\ <<m>> \in Seq(ToRunnerMsg)
      /\ \A t \in Tasks : ~Mentions(<<m>>, t)
      /\ Once(<<m>>, RunnerOnce)
  <2>1. \A t \in Tasks : m.task # t
    BY <1>2, TaskIds
  <2> HIDE DEF m
  <2>2. QED
    BY <1>2, <2>1 DEF Mentions, Once
<1> HIDE DEF m
<1>5. ASSUME NEW k \in Runners, k # n
      PROVE  toRunner'[k] = toRunner[k] /\ process'[k] = process[k]
  BY <1>1, <1>5 DEF BInv, ChannelTypes, RunnerTypes
<1>6. toRunner'[n] = <<m>> /\ process'[n] = "up"
  BY <1>1 DEF BInv, ChannelTypes, RunnerTypes
<1>7. ChannelTypes'
  BY <1>1, <1>4 DEF BInv, ChannelTypes
<1>8. ChannelInv'
  BY <1>1, <1>4, <1>5, <1>6 DEF BInv, ChannelInv
<1>9. OwnInv'
  <2>1. ASSUME NEW k \in Runners, NEW t \in Tasks
        PROVE  Mentions(toRunner[k], t)' => Mentions(toRunner[k], t)
    BY <1>4, <1>5, <1>6
  <2>2. QED
    BY <1>1, <1>3, <2>1, OwnKept, ChannelsUnchanged DEF BInv
<1>10. ASSUME NEW k \in Runners, NEW t \in Tasks, TaskOK(k, t)
       PROVE  /\ k # n /\ TaskOK(k, t)'
              /\ SettingsSent(k, t)' => SettingsSent(k, t)
  <2>1. k # n
    BY <1>1, <1>10 DEF TaskOK
  <2>2. /\ Asked(k, t)' => Asked(k, t)
        /\ SettingsSent(k, t)' => SettingsSent(k, t)
        /\ CancelSent(k, t)' => CancelSent(k, t)
    BY <1>5, <2>1 DEF Asked, SettingsSent, CancelSent
  <2>3. (t \in tasks' => t \in tasks /\ k \in knownRunners') /\ (k \in knownRunners' => k \in knownRunners)
    BY <1>1, <1>10, <2>1 DEF TaskOK
  <2>4. Fades(k, t)
    BY <1>1, <1>5, <2>1, <2>2, <2>3, ChannelsUnchanged DEF Fades
  <2>5. QED
    BY <1>10, <2>1, <2>2, <2>4, FadingTask
<1>11. TasksInv'
  BY <1>3, <1>10, TasksKept DEF BInv
<1>12. GivenInv'
  BY <1>1, <1>3, <1>10, GivenKept DEF BInv, TasksInv, requesterVars
<1>13. KnownInv'
  BY <1>1, <1>5, <1>6 DEF BInv, KnownInv, BrokerTypes
<1>14. RunnerTypes'
  BY <1>1 DEF BInv, RunnerTypes, matchVars
<1>15. RunnerWithinCapacity'
  BY <1>1, CapacityKept
<1>16. BrokerTypes'
  <2>1. pendingTaskOffers' \in Seq([runner : knownRunners', offer : Offers])
    <3>1. [runner : knownRunners, offer : Offers] \subseteq [runner : knownRunners', offer : Offers]
      BY <1>1
    <3>2. /\ pendingTaskOffers \in Seq([runner : knownRunners, offer : Offers])
          /\ pendingTaskOffers' = pendingTaskOffers
      BY <1>1 DEF BInv, BrokerTypes, matchVars
    <3> DEFINE S == [runner : knownRunners, offer : Offers]
               T == [runner : knownRunners', offer : Offers]
    <3>3. pendingTaskOffers \in Seq(T)
      <4>1. S \subseteq T /\ pendingTaskOffers \in Seq(S)
        BY <3>1, <3>2
      <4> HIDE DEF S, T
      <4>2. QED
        BY <4>1, SeqGrows
    <3>4. QED
      BY <3>2, <3>3
  <2>2. QED
    BY <1>1, <2>1 DEF BInv, BrokerTypes, matchVars, requesterVars
<1>17. RequestsInv'
  BY <1>1 DEF BInv, RequestsInv, RequestOK, matchVars, requesterVars
<1>18. QED
  BY <1>7, <1>8, <1>9, <1>11, <1>12, <1>13, <1>14, <1>15, <1>16, <1>17 DEF BInv

\* deregisterRunner keeps the invariant: what the broker forgets of the runner is all
\* that it had of it, and every caller that waits for it is told.
LEMMA DeregisterRunnerStep ==
    ASSUME BInv, NEW n \in Runners, DeregisterRunner(n)
    PROVE  BInv'
<1> DEFINE ts == {t \in tasks : attempts[t].runner = n}
<1>1. /\ n \in knownRunners /\ knownRunners' = knownRunners \ {n}
      /\ ForgetOffers(n) /\ Answer(ts, "error")
      /\ toBroker' = [toBroker EXCEPT ![n] = <<>>]
      /\ UNCHANGED <<pendingTaskRequests, acceptInProgress, attempts, isDraining,
                     runnerVars, toRunner>>
  BY DEF DeregisterRunner
<1>2. AttemptsKept
  BY <1>1 DEF AttemptsKept
<1>3. ts \in SUBSET Tasks /\ ts \subseteq tasks
  BY AttemptTypes DEF BInv, BrokerTypes
<1>4. RequestsInv' /\ job' \in [Requests -> JobStates] /\ tasks' = tasks \ ts /\ taskIdOf' = taskIdOf
  BY <1>1, <1>2, <1>3, RequestsAnswered DEF runnerVars
<1>5. \A k \in Runners : toBroker'[k] = IF k = n THEN <<>> ELSE toBroker[k]
  BY <1>1 DEF BInv, ChannelTypes
<1>6. ChannelTypes' /\ ChannelInv'
  <2>1. toBroker' \in [Runners -> Seq(ToBrokerMsg)]
    BY <1>1, EmptySeq DEF BInv, ChannelTypes
  <2>2. QED
    BY <1>1, <1>5, <2>1, EmptyChannel DEF BInv, ChannelTypes, ChannelInv
<1>7. ASSUME NEW k \in Runners, NEW t \in Tasks
      PROVE  /\ Replied(k, t)' <=> Replied(k, t) /\ k # n
             /\ Ended(k, t)' <=> Ended(k, t) /\ k # n
             /\ EndedWell(k, t)' <=> EndedWell(k, t) /\ k # n
             /\ Mentions(toBroker[k], t)' => Mentions(toBroker[k], t)
  BY <1>5, EmptyChannel DEF Replied, Ended, EndedWell
<1>8. OwnInv'
  BY <1>1, <1>2, <1>7, OwnKept, ChannelsUnchanged DEF BInv, runnerVars
<1>9. ASSUME NEW k \in Runners, NEW t \in Tasks, Owns(k, t), TaskOK(k, t)
      PROVE  TaskOK(k, t)'
  <2>1. t \in tasks' => t \in tasks /\ k # n /\ k \in knownRunners'
    BY <1>1, <1>4, <1>9 DEF TaskOK, Owns
  <2>2. Fades(k, t)
    BY <1>1, <1>7, <2>1, ChannelsUnchanged DEF Fades, runnerVars
  <2>3. QED
    BY <1>9, <2>2, FadingTask
<1>10. TasksInv'
  BY <1>2, <1>9, TasksKept DEF BInv
<1>11. GivenInv'
  BY <1>1, <1>2, <1>4, GivenKept, ChannelsUnchanged DEF BInv, runnerVars
<1>12. KnownInv'
  BY <1>1 DEF BInv, KnownInv, runnerVars
<1>13. RunnerTypes' /\ RunnerWithinCapacity'
  BY <1>1, RunnersUntouched
<1>14. pendingTaskOffers' \in Seq([runner : knownRunners', offer : Offers])
  <2> DEFINE s == pendingTaskOffers
             I == {i \in DOMAIN s : s[i].runner # n}
             S == [runner : knownRunners, offer : Offers]
             u == AtPositions(s, I)
  <2>1. s \in Seq(S) /\ I \in SUBSET DOMAIN s
    BY DEF BInv, BrokerTypes
  <2>2. DOMAIN s = 1..Len(s) /\ \A i \in DOMAIN s : s[i] \in S
    BY <2>1, LenProperties, ElementOfSeq
  <2>3. /\ u \in Seq(S) /\ Len(u) = Cardinality(I)
        /\ \A i \in I : u[Rank(I, i)] = s[i]
        /\ \A k \in 1..Cardinality(I) : \E i \in I : Rank(I, i) = k
    <3> HIDE DEF I, S, s
    <3>1. QED
      BY <2>1, AtPositionsProperties
  <2>4. \A i \in I : s[i] \in [runner : knownRunners', offer : Offers]
    BY <1>1, <2>2
  <2>5. pendingTaskOffers' = u
    BY <1>1 DEF ForgetOffers
  <2> HIDE DEF u, I, S, s
  <2>6. \A k \in 1..Len(u) : u[k] \in [runner : knownRunners', offer : Offers]
    BY <2>3, <2>4
  <2>7. QED
    BY <2>3, <2>5, <2>6, SeqOfElements
<1>15. BrokerTypes'
  BY <1>1, <1>4, <1>14 DEF BInv, BrokerTypes
<1>16. QED
  BY <1>4, <1>6, <1>8, <1>10, <1>11, <1>12, <1>13, <1>15 DEF BInv

\* drainActiveTasks keeps the invariant: the message is about no task.
LEMMA StartDrainingStep ==
    ASSUME BInv, StartDraining
    PROVE  BInv'
<1> DEFINE m == Msg("drain", NoTask)
<1>1. /\ isDraining' = TRUE /\ toRunner' = [n \in Runners |-> ToRunner(n, m)[n]]
      /\ UNCHANGED <<knownRunners, matchVars, tasks, requesterVars, runnerVars, toBroker>>
  BY DEF StartDraining
<1>2. m \in ToRunnerMsg /\ m.task = NoTask /\ m.type = "drain"
  BY BrokerMessages, MessageFields
<1> HIDE DEF m
<1>3. AttemptsKept
  BY <1>1 DEF AttemptsKept, matchVars
<1>4. toRunner \in [Runners -> Seq(ToRunnerMsg)]
  BY DEF BInv, ChannelTypes
<1>5. ASSUME NEW k \in Runners
      PROVE  toRunner'[k] = toRunner[k] \/ toRunner'[k] = Append(toRunner[k], m)
  BY <1>1, <1>4 DEF ToRunner
<1>6. ASSUME NEW k \in Runners
      PROVE  /\ toRunner'[k] \in Seq(ToRunnerMsg)
             /\ \A t \in Tasks : /\ \A T : Has(toRunner[k], T, t)' <=> Has(toRunner[k], T, t)
                                 /\ Mentions(toRunner[k], t)' => Mentions(toRunner[k], t)
             /\ Once(toRunner[k], RunnerOnce) => Once(toRunner[k], RunnerOnce)'
  <2>1. CASE toRunner'[k] = toRunner[k]
    BY <1>4, <2>1
  <2>2. CASE toRunner'[k] = Append(toRunner[k], m)
    <3> DEFINE s == toRunner[k]
               u == Append(s, m)
    <3>1. s \in Seq(ToRunnerMsg)
      BY <1>4
    <3>2. /\ u \in Seq(ToRunnerMsg)
          /\ \A T, t : Has(u, T, t) <=> Has(s, T, t) \/ (m.type \in T /\ m.task = t)
          /\ \A t : Mentions(u, t) <=> Mentions(s, t) \/ m.task = t
          /\ \A T : Once(s, T) /\ (m.type \in T => ~Has(s, {m.type}, m.task)) => Once(u, T)
      <4> HIDE DEF s
      <4>1. QED
        BY <1>2, <3>1, AppendChannel
    <3>3. (\A t \in Tasks : m.task # t) /\ m.type \notin RunnerOnce
      BY <1>2, TaskIds DEF RunnerOnce
    <3>4. toRunner'[k] = u
      BY <2>2
    <3> HIDE DEF u
    <3>5. QED
      BY <3>2, <3>3, <3>4
  <2>3. QED
    BY <1>5, <2>1, <2>2
<1>7. toRunner' \in [Runners -> Seq(ToRunnerMsg)]
  <2>1. toRunner' = [k \in Runners |-> toRunner'[k]]
    BY <1>1
  <2>2. QED
    BY <1>6, <2>1
<1>8. ChannelTypes' /\ ChannelInv'
  BY <1>1, <1>6, <1>7 DEF BInv, ChannelTypes, ChannelInv
<1>9. OwnInv'
  BY <1>1, <1>3, <1>6, OwnKept, ChannelsUnchanged DEF BInv, runnerVars
<1>10. ASSUME NEW k \in Runners, NEW t \in Tasks
       PROVE  /\ Asked(k, t)' <=> Asked(k, t)
              /\ SettingsSent(k, t)' <=> SettingsSent(k, t)
              /\ CancelSent(k, t)' <=> CancelSent(k, t)
  BY <1>6 DEF Asked, SettingsSent, CancelSent
<1>11. ASSUME NEW k \in Runners, NEW t \in Tasks, TaskOK(k, t)
       PROVE  TaskOK(k, t)'
  <2>1. Fades(k, t)
    BY <1>1, <1>10, <1>11, ChannelsUnchanged DEF Fades, TaskOK, runnerVars
  <2>2. QED
    BY <1>11, <2>1, FadingTask
<1>12. TasksInv'
  BY <1>3, <1>11, TasksKept DEF BInv
<1>13. GivenInv'
  BY <1>1, <1>3, <1>10, GivenKept DEF BInv, requesterVars, runnerVars
<1>14. RunnerTypes' /\ RunnerWithinCapacity' /\ KnownInv'
  BY <1>1, RunnersUntouched DEF BInv, KnownInv, matchVars, runnerVars
<1>15. BrokerTypes' /\ RequestsInv'
  BY <1>1 DEF BInv, BrokerTypes, RequestsInv, RequestOK, matchVars, requesterVars, runnerVars
<1>16. QED
  BY <1>8, <1>9, <1>12, <1>13, <1>14, <1>15 DEF BInv

-----------------------------------------------------------------------------
(* Steps of the runners *)

\* A step that leaves broker and requester alone.
LEMMA BrokerUntouched ==
    ASSUME BInv, UNCHANGED brokerAllVars, executed \subseteq executed'
    PROVE  /\ BrokerTypes' /\ RequestsInv' /\ AttemptsKept
           /\ UNCHANGED <<knownRunners, tasks, taskIdOf, attempts>>
<1>1. /\ UNCHANGED <<knownRunners, pendingTaskOffers, pendingTaskRequests, acceptInProgress, attempts>>
      /\ UNCHANGED <<tasks, isDraining, job, taskIdOf>>
  BY DEF brokerAllVars, brokerVars, matchVars, requesterVars
<1>2. AttemptsKept
  BY <1>1 DEF AttemptsKept
<1>3. BrokerTypes'
  BY <1>1 DEF BInv, BrokerTypes
<1>4. \A r \in Requests : job[r] = "started" => taskIdOf[r] \in tasks'
  BY <1>1 DEF BInv, RequestsInv, RequestOK
<1>5. RequestsInv'
  BY <1>1, <1>2, <1>4, RequestsKept
<1>6. QED
  BY <1>1, <1>2, <1>3, <1>5

\* A runner that reads a message and does nothing about a task.
LEMMA ReadKeeps ==
    ASSUME BInv, NEW n \in Runners, NEW type, FromBroker(n, type),
           UNCHANGED <<brokerAllVars, process, runningTasks, executed, toBroker>>
    PROVE  /\ BrokerTypes' /\ ChannelTypes' /\ ChannelInv' /\ OwnInv' /\ TasksInv' /\ RequestsInv'
           /\ GivenInv' /\ KnownInv'
<1>1. /\ BrokerTypes' /\ RequestsInv' /\ AttemptsKept
      /\ UNCHANGED <<knownRunners, tasks, taskIdOf, attempts>>
  BY BrokerUntouched
<1>2. /\ toRunner' \in [Runners -> Seq(ToRunnerMsg)]
      /\ \A k \in Runners : Once(toRunner[k], RunnerOnce)'
      /\ \A k \in Runners, t \in Tasks :
            /\ Mentions(toRunner[k], t)' => Mentions(toRunner[k], t)
            /\ Asked(k, t)' => Asked(k, t)
            /\ SettingsSent(k, t)' => SettingsSent(k, t)
            /\ CancelSent(k, t)' => CancelSent(k, t)
  BY RunnerReceives
<1>3. ChannelTypes' /\ ChannelInv'
  BY <1>2 DEF BInv, ChannelTypes, ChannelInv
<1>4. OwnInv'
  BY <1>1, <1>2, OwnKept, ChannelsUnchanged DEF BInv
<1>5. ASSUME NEW k \in Runners, NEW t \in Tasks, TaskOK(k, t)
      PROVE  TaskOK(k, t)'
  <2>1. Fades(k, t)
    BY <1>1, <1>2, <1>5, ChannelsUnchanged DEF Fades, TaskOK
  <2>2. QED
    BY <1>5, <2>1, FadingTask
<1>6. TasksInv'
  BY <1>1, <1>5, TasksKept DEF BInv
<1>7. GivenInv'
  BY <1>1, <1>2, GivenKept DEF BInv
<1>8. KnownInv'
  BY <1>1 DEF BInv, KnownInv
<1>9. QED
  BY <1>1, <1>3, <1>4, <1>6, <1>7, <1>8

\* broker:runnerregistered keeps the invariant.
LEMMA StartTaskOffersStep ==
    ASSUME BInv, NEW n \in Runners, StartTaskOffers(n)
    PROVE  BInv'
<1>1. /\ FromBroker(n, "runnerregistered") /\ canSendOffers' = [canSendOffers EXCEPT ![n] = TRUE]
      /\ UNCHANGED <<brokerAllVars, process, runningTasks, executed, toBroker>>
      /\ UNCHANGED <<runnerDraining, openOffers>>
  BY DEF StartTaskOffers
<1>2. /\ BrokerTypes' /\ ChannelTypes' /\ ChannelInv' /\ OwnInv' /\ TasksInv' /\ RequestsInv'
      /\ GivenInv' /\ KnownInv'
  BY <1>1, ReadKeeps
<1>3. RunnerTypes'
  BY <1>1 DEF BInv, RunnerTypes, brokerAllVars, brokerVars, matchVars
<1>4. RunnerWithinCapacity'
  BY <1>1, CapacityKept
<1>5. QED
  BY <1>2, <1>3, <1>4 DEF BInv

\* broker:drain keeps the invariant.
LEMMA OnBrokerDrainStep ==
    ASSUME BInv, NEW n \in Runners, OnBrokerDrain(n)
    PROVE  BInv'
<1>1. /\ FromBroker(n, "drain") /\ canSendOffers' = [canSendOffers EXCEPT ![n] = FALSE]
      /\ runnerDraining' = [runnerDraining EXCEPT ![n] = TRUE]
      /\ UNCHANGED <<brokerAllVars, process, runningTasks, executed, toBroker>>
      /\ UNCHANGED openOffers
  BY DEF OnBrokerDrain
<1>2. /\ BrokerTypes' /\ ChannelTypes' /\ ChannelInv' /\ OwnInv' /\ TasksInv' /\ RequestsInv'
      /\ GivenInv' /\ KnownInv'
  BY <1>1, ReadKeeps
<1>3. RunnerTypes'
  BY <1>1 DEF BInv, RunnerTypes, brokerAllVars, brokerVars, matchVars
<1>4. RunnerWithinCapacity'
  BY <1>1, CapacityKept
<1>5. QED
  BY <1>2, <1>3, <1>4 DEF BInv

\* stop keeps the invariant: it only takes back offers.
LEMMA StopRunnerStep ==
    ASSUME BInv, NEW n \in Runners, StopRunner(n)
    PROVE  BInv'
<1>1. /\ canSendOffers' = [canSendOffers EXCEPT ![n] = FALSE]
      /\ runnerDraining' = [runnerDraining EXCEPT ![n] = TRUE]
      /\ openOffers' = [openOffers EXCEPT ![n] = {}]
      /\ UNCHANGED <<brokerAllVars, process, runningTasks, executed, toRunner, toBroker>>
  BY DEF StopRunner
<1>2. /\ BrokerTypes' /\ RequestsInv' /\ AttemptsKept
      /\ UNCHANGED <<knownRunners, tasks, taskIdOf, attempts>>
  BY <1>1, BrokerUntouched
<1>3. ChannelInv' /\ ChannelTypes' /\ OwnInv' /\ TasksInv' /\ GivenInv' /\ KnownInv'
  BY <1>1, <1>2, TasksUntouched
<1>4. RunnerTypes'
  BY <1>1, <1>2 DEF BInv, RunnerTypes
<1>5. RunnerWithinCapacity'
  BY <1>1, CapacityKept DEF BInv, RunnerTypes
<1>6. QED
  BY <1>2, <1>3, <1>4, <1>5 DEF BInv

\* The end of a runner process keeps the invariant.
LEMMA RunnerExitsStep ==
    ASSUME BInv, NEW n \in Runners, RunnerExits(n)
    PROVE  BInv'
<1>1. process[n] = "up" /\ Exit({n}) /\ UNCHANGED <<brokerAllVars, executed, toBroker>>
  BY DEF RunnerExits
<1>2. /\ BrokerTypes' /\ RequestsInv' /\ AttemptsKept
      /\ UNCHANGED <<knownRunners, tasks, taskIdOf, attempts>>
  BY <1>1, BrokerUntouched
<1>3. {n} \in SUBSET Runners /\ (\A k \in {n} : process[k] = "up") /\ tasks' \subseteq tasks
  BY <1>1, <1>2
<1>4. /\ RunnerTypes' /\ ChannelTypes' /\ ChannelInv' /\ OwnInv' /\ TasksInv' /\ GivenInv'
      /\ KnownInv' /\ RunnerWithinCapacity'
  BY <1>1, <1>2, <1>3, ExitKeeps
<1>5. QED
  BY <1>2, <1>4 DEF BInv

\* receivedSettings keeps the invariant: the code of a task is started at most once,
\* and for the task id that the request was given.
LEMMA ReceivedSettingsStep ==
    ASSUME BInv, NEW n \in Runners, ReceivedSettings(n)
    PROVE  BInv'
<1> DEFINE t0 == Head(toRunner[n]).task
<1>1. /\ FromBroker(n, "tasksettings")
      /\ UNCHANGED <<brokerAllVars, process, canSendOffers, runnerDraining, openOffers, toBroker>>
  BY DEF ReceivedSettings
<1>2. CASE UNCHANGED <<runningTasks, executed>>
  <2>1. /\ BrokerTypes' /\ ChannelTypes' /\ ChannelInv' /\ OwnInv' /\ TasksInv' /\ RequestsInv'
        /\ GivenInv' /\ KnownInv'
    BY <1>1, <1>2, ReadKeeps
  <2>2. RunnerTypes'
    BY <1>1, <1>2 DEF BInv, RunnerTypes, brokerAllVars, brokerVars, matchVars
  <2>3. RunnerWithinCapacity'
    BY <1>1, <1>2, CapacityKept
  <2>4. QED
    BY <2>1, <2>2, <2>3 DEF BInv
<1>3. CASE /\ runningTasks[n][t0] = "waitingForSettings"
           /\ runningTasks' = [runningTasks EXCEPT ![n][t0] = "running"]
           /\ executed' = executed \cup {t0}
  <2>1. /\ BrokerTypes' /\ RequestsInv' /\ AttemptsKept
        /\ UNCHANGED <<knownRunners, tasks, taskIdOf, attempts>>
    BY <1>1, <1>3, BrokerUntouched
  <2>2. /\ toRunner' \in [Runners -> Seq(ToRunnerMsg)]
        /\ t0 \in Tasks /\ t0 \in DOMAIN attempts /\ Owns(n, t0) /\ TaskOK(n, t0) /\ SettingsSent(n, t0)
        /\ \A k \in Runners : Once(toRunner[k], RunnerOnce)'
        /\ \A k \in Runners, t \in Tasks :
              /\ Mentions(toRunner[k], t)' => Mentions(toRunner[k], t)
              /\ SettingsSent(k, t)' => SettingsSent(k, t)
              /\ Asked(k, t)' = Asked(k, t)
              /\ CancelSent(k, t)' = CancelSent(k, t)
              /\ k = n /\ t = t0 => ~SettingsSent(k, t)'
    BY <1>1, RunnerReceives
  <2> HIDE DEF t0
  <2>3. \A k \in Runners, t \in Tasks :
           runningTasks'[k][t] = IF k = n /\ t = t0 THEN "running" ELSE runningTasks[k][t]
    BY <1>3, <2>2 DEF BInv, RunnerTypes
  <2>4. ChannelTypes' /\ ChannelInv'
    BY <1>1, <2>2 DEF BInv, ChannelTypes, ChannelInv
  <2>5. OwnInv'
    BY <1>1, <2>1, <2>2, <2>3, OwnKept, ChannelsUnchanged DEF BInv
  <2>6. ASSUME NEW k \in Runners, NEW t \in Tasks, Owns(k, t), TaskOK(k, t)
        PROVE  TaskOK(k, t)'
    <3>1. CASE t = t0
      <4>1. k = n
        BY <2>2, <2>6, <3>1 DEF Owns
      <4>2. /\ ~SettingsSent(n, t)' /\ SettingsSent(n, t) /\ runningTasks[n][t] = "waitingForSettings"
            /\ runningTasks'[n][t] = "running" /\ t \in executed'
            /\ Asked(n, t)' = Asked(n, t) /\ CancelSent(n, t)' = CancelSent(n, t)
            /\ UNCHANGED <<process, tasks, knownRunners>>
        BY <1>1, <1>3, <2>1, <2>2, <2>3, <3>1
      <4>3. /\ Replied(n, t)' = Replied(n, t) /\ Ended(n, t)' = Ended(n, t)
            /\ EndedWell(n, t)' = EndedWell(n, t)
        BY <1>1, ChannelsUnchanged
      <4>4. QED
        BY <2>6, <4>1, <4>2, <4>3, StartingTask
    <3>2. CASE t # t0
      <4>1. Fades(k, t)
        BY <1>1, <1>3, <2>1, <2>2, <2>3, <2>6, <3>2, ChannelsUnchanged DEF Fades, TaskOK
      <4>2. QED
        BY <2>6, <4>1, FadingTask
    <3>3. QED
      BY <3>1, <3>2
  <2>7. TasksInv'
    BY <2>1, <2>6, TasksKept DEF BInv
  <2>8. GivenInv'
    <3>1. ASSUME NEW k \in Runners, NEW t \in Tasks, Owns(k, t)
          PROVE  /\ SettingsSent(k, t)' => SettingsSent(k, t)
                 /\ t \in executed' => t \in executed \/ SettingsSent(k, t)
      BY <1>3, <2>2, <3>1 DEF Owns
    <3>2. QED
      BY <2>1, <3>1, GivenKept DEF BInv
  <2>9. KnownInv'
    BY <1>1, <2>1 DEF BInv, KnownInv
  <2>10. RunnerTypes'
    BY <1>1, <1>3, <2>1, <2>2 DEF BInv, RunnerTypes, TaskStatuses
  <2>11. RunnerWithinCapacity'
    BY <1>1, <1>3, <2>3, CapacityKept
  <2>12. QED
    BY <2>1, <2>4, <2>5, <2>7, <2>8, <2>9, <2>10, <2>11 DEF BInv
<1>4. QED
  BY <1>2, <1>3 DEF ReceivedSettings

\* SetToSeq lists the elements of a finite set.
LEMMA SetToSeqType ==
    ASSUME NEW S, IsFiniteSet(S)
    PROVE  SetToSeq(S) \in Seq(S)
<1>1. Cardinality(S) \in Nat /\ ExistsBijection(1..Cardinality(S), S)
  BY FS_CardinalityType
<1>2. PICK f \in Bijection(1..Cardinality(S), S) : TRUE
  BY <1>1 DEF ExistsBijection
<1>3. f \in [1..Cardinality(S) -> S] /\ IsInjective(f)
  BY <1>2 DEF Bijection, Injection
<1>4. SetToSeq(S) \in [1..Cardinality(S) -> S]
  BY <1>3 DEF SetToSeq
<1>5. QED
  BY <1>1, <1>4

\* sendOffers: the messages go out with offers behind them, which are about no task,
\* and the offers fit in the slots that are free.
LEMMA SendEffect ==
    ASSUME BInv, NEW n \in Runners, NEW msgs \in Seq(ToBrokerMsg),
           \A t : ~Has(msgs, {"taskaccepted"}, t),
           NEW running \in SUBSET RunningOn(n), SendThenOffer(n, msgs, running)
    PROVE  /\ toBroker' \in [Runners -> Seq(ToBrokerMsg)]
           /\ \A k \in Runners : Once(toBroker[k], BrokerOnce)' /\ InOrder(toBroker[k])'
           /\ \A k \in Runners, t \in Tasks :
                 /\ \A T : Has(toBroker[k], T, t)' <=>
                       Has(toBroker[k], T, t) \/ (k = n /\ Has(msgs, T, t))
                 /\ Mentions(toBroker[k], t)' =>
                       Mentions(toBroker[k], t) \/ (k = n /\ Mentions(msgs, t))
           /\ openOffers' \in [Runners -> SUBSET Offers]
           /\ \A k \in Runners : k # n => openOffers'[k] = openOffers[k]
           /\ Cardinality(openOffers'[n]) + Cardinality(running) <= MaxConcurrency
<1> DEFINE open(stale) == openOffers[n] \ stale
           slots(stale) == MaxConcurrency - (Cardinality(open(stale)) + Cardinality(running))
           offers(new) == SetToSeq(new)
           sent(new) == [i \in DOMAIN offers(new) |-> OfferMsg("taskoffer", offers(new)[i], NoTask)]
<1>1. PICK stale \in SUBSET openOffers[n], new \in SUBSET FreshOffers(n) :
         /\ IF canSendOffers[n] /\ slots(stale) > 0
            THEN Cardinality(new) = Min({slots(stale), Cardinality(FreshOffers(n))})
            ELSE new = {}
         /\ openOffers' = [openOffers EXCEPT ![n] = open(stale) \cup new]
         /\ toBroker' = [toBroker EXCEPT ![n] = toBroker[n] \o msgs \o sent(new)]
  BY DEF SendThenOffer
<1>2. /\ IsFiniteSet(Offers) /\ openOffers \in [Runners -> SUBSET Offers]
      /\ toBroker \in [Runners -> Seq(ToBrokerMsg)] /\ MaxConcurrency \in Nat
  BY BrokerAssumption DEF BInv, RunnerTypes, ChannelTypes
<1>3. FreshOffers(n) \in SUBSET Offers
  BY DEF FreshOffers
<1>4. IsFiniteSet(new) /\ new \subseteq Offers /\ IsFiniteSet(FreshOffers(n))
  BY <1>2, <1>3, FS_Subset
<1>5. IsFiniteSet(openOffers[n]) /\ IsFiniteSet(open(stale))
  BY <1>2, FS_Subset
<1>6. IsFiniteSet(running) /\ IsFiniteSet(RunningOn(n))
  <2>1. RunningOn(n) \in SUBSET Tasks
    BY DEF RunningOn
  <2>2. QED
    BY <2>1, TaskIds, FS_Subset
<1>7. /\ Cardinality(new) \in Nat /\ Cardinality(open(stale)) \in Nat /\ Cardinality(running) \in Nat
      /\ Cardinality(openOffers[n]) \in Nat /\ Cardinality(FreshOffers(n)) \in Nat
      /\ Cardinality(RunningOn(n)) \in Nat
  BY <1>4, <1>5, <1>6, FS_CardinalityType
<1>8. openOffers' \in [Runners -> SUBSET Offers] /\ openOffers'[n] = open(stale) \cup new
      /\ \A k \in Runners : k # n => openOffers'[k] = openOffers[k]
  BY <1>1, <1>2, <1>4
<1>9. Cardinality(openOffers'[n]) + Cardinality(running) <= MaxConcurrency
  <2>1. CASE canSendOffers[n] /\ slots(stale) > 0
    <3>1. slots(stale) \in Int
      BY <1>2, <1>7
    <3>2. Cardinality(new) <= slots(stale)
      <4> DEFINE a == slots(stale)
                 b == Cardinality(FreshOffers(n))
      <4>1. a \in Int /\ b \in Int /\ Cardinality(new) = Min({a, b})
        BY <1>1, <1>7, <2>1, <3>1
      <4> HIDE DEF a, b
      <4>2. \E x \in {a, b} : \A y \in {a, b} : x <= y
        BY <4>1
      <4>3. Min({a, b}) <= a
        BY <4>2 DEF Min
      <4>4. QED
        BY <4>1, <4>3 DEF a
    <3>3. /\ Cardinality(open(stale) \cup new)
                = Cardinality(open(stale)) + Cardinality(new) - Cardinality(open(stale) \cap new)
          /\ Cardinality(open(stale) \cap new) \in Nat
      BY <1>4, <1>5, FS_Union, FS_Intersection, FS_CardinalityType
    <3> DEFINE a == Cardinality(open(stale))
               b == Cardinality(new)
               c == Cardinality(open(stale) \cap new)
               d == Cardinality(running)
    <3>4. /\ a \in Nat /\ b \in Nat /\ c \in Nat /\ d \in Nat /\ MaxConcurrency \in Nat
          /\ b <= MaxConcurrency - (a + d) /\ Cardinality(openOffers'[n]) = a + b - c
      BY <1>2, <1>7, <1>8, <3>2, <3>3
    <3> HIDE DEF a, b, c, d
    <3>5. Cardinality(openOffers'[n]) + d <= MaxConcurrency
      BY <3>4
    <3>6. QED
      BY <3>5 DEF d
  <2>2. CASE ~(canSendOffers[n] /\ slots(stale) > 0)
    <3>1. new = {}
      BY <1>1, <2>2
    <3>2. openOffers'[n] \in SUBSET openOffers[n]
      BY <1>8, <3>1
    <3>3. /\ Cardinality(openOffers'[n]) <= Cardinality(openOffers[n])
          /\ Cardinality(openOffers'[n]) \in Nat
      BY <1>5, <3>2, FS_Subset, FS_CardinalityType
    <3>4. Cardinality(running) <= Cardinality(RunningOn(n))
      BY <1>6, FS_Subset
    <3>5. Cardinality(openOffers[n]) + Cardinality(RunningOn(n)) <= MaxConcurrency
      BY DEF BInv, RunnerWithinCapacity
    <3> DEFINE a == Cardinality(openOffers'[n])
               b == Cardinality(openOffers[n])
               c == Cardinality(running)
               d == Cardinality(RunningOn(n))
    <3>6. /\ a \in Nat /\ b \in Nat /\ c \in Nat /\ d \in Nat /\ MaxConcurrency \in Nat
          /\ a <= b /\ c <= d /\ b + d <= MaxConcurrency
      BY <1>2, <1>7, <3>3, <3>4, <3>5
    <3> HIDE DEF a, b, c, d
    <3>7. a + c <= MaxConcurrency
      BY <3>6
    <3>8. QED
      BY <3>7 DEF a, c
  <2>3. QED
    BY <2>1, <2>2
<1>10. sent(new) \in Seq(ToBrokerMsg) /\ DOMAIN sent(new) = DOMAIN offers(new)
       /\ \A i \in DOMAIN sent(new) : sent(new)[i].type = "taskoffer" /\ sent(new)[i].task = NoTask
  <2>1. offers(new) \in Seq(new)
    BY <1>4, SetToSeqType
  <2> HIDE DEF offers
  <2>2. /\ DOMAIN offers(new) = 1..Len(offers(new)) /\ Len(offers(new)) \in Nat
        /\ \A i \in DOMAIN offers(new) : offers(new)[i] \in new
    BY <2>1, LenProperties, ElementOfSeq
  <2>3. \A i \in 1..Len(offers(new)) : OfferMsg("taskoffer", offers(new)[i], NoTask) \in ToBrokerMsg
    BY <1>4, <2>2, RunnerMessages
  <2>4. sent(new) \in Seq(ToBrokerMsg)
    BY <2>2, <2>3, IsASeq
  <2>5. QED
    BY <2>4, MessageFields
<1> DEFINE s == toBroker[n]
           z == sent(new)
           u == (s \o msgs) \o z
<1>11. toBroker' = [toBroker EXCEPT ![n] = u]
  BY <1>1
<1>12. s \in Seq(ToBrokerMsg) /\ Once(s, BrokerOnce) /\ InOrder(s)
  BY <1>2 DEF BInv, ChannelInv
<1>13. z \in Seq(ToBrokerMsg) /\ \A i \in DOMAIN z : z[i].type = "taskoffer" /\ z[i].task = NoTask
  BY <1>10
<1> HIDE DEF z, s
<1>14. /\ \A t \in Tasks : ~Mentions(z, t) /\ \A T : ~Has(z, T, t)
       /\ \A t : ~Has(z, {"taskaccepted"}, t)
       /\ Once(z, BrokerOnce) /\ InOrder(z)
  BY <1>13, TaskIds DEF Mentions, Has, Once, InOrder, BrokerOnce
<1>15. Once(msgs, BrokerOnce) /\ InOrder(msgs)
  <2>1. \A i \in DOMAIN msgs : msgs[i].type # "taskaccepted"
    BY DEF Has
  <2>2. QED
    BY <2>1 DEF Once, InOrder, BrokerOnce
<1>16. /\ s \o msgs \in Seq(ToBrokerMsg)
       /\ \A T, t : Has(s \o msgs, T, t) <=> Has(s, T, t) \/ Has(msgs, T, t)
       /\ \A t : Mentions(s \o msgs, t) <=> Mentions(s, t) \/ Mentions(msgs, t)
       /\ \A T : /\ Once(s, T) /\ Once(msgs, T)
                 /\ \A t : \A y \in T : ~(Has(s, {y}, t) /\ Has(msgs, {y}, t))
                 => Once(s \o msgs, T)
       /\ /\ InOrder(s) /\ InOrder(msgs)
          /\ \A t : ~(Has(s, EndTypes, t) /\ Has(msgs, {"taskaccepted"}, t))
          => InOrder(s \o msgs)
  BY <1>12, ConcatChannel
<1> DEFINE v == s \o msgs
<1>17. Once(v, BrokerOnce) /\ InOrder(v)
  BY <1>12, <1>15, <1>16 DEF BrokerOnce
<1>18. v \in Seq(ToBrokerMsg)
  BY <1>16
<1> HIDE DEF v
<1>19. /\ v \o z \in Seq(ToBrokerMsg)
       /\ \A T, t : Has(v \o z, T, t) <=> Has(v, T, t) \/ Has(z, T, t)
       /\ \A t : Mentions(v \o z, t) <=> Mentions(v, t) \/ Mentions(z, t)
       /\ \A T : /\ Once(v, T) /\ Once(z, T)
                 /\ \A t : \A y \in T : ~(Has(v, {y}, t) /\ Has(z, {y}, t))
                 => Once(v \o z, T)
       /\ /\ InOrder(v) /\ InOrder(z)
          /\ \A t : ~(Has(v, EndTypes, t) /\ Has(z, {"taskaccepted"}, t))
          => InOrder(v \o z)
  BY <1>13, <1>18, ConcatChannel
<1>20. u = v \o z
  BY DEF v
<1> HIDE DEF u
<1>21. Once(u, BrokerOnce) /\ InOrder(u) /\ u \in Seq(ToBrokerMsg)
  BY <1>14, <1>17, <1>19, <1>20 DEF BrokerOnce
<1>22. \A t \in Tasks : /\ \A T : Has(u, T, t) <=> Has(s, T, t) \/ Has(msgs, T, t)
                        /\ Mentions(u, t) <=> Mentions(s, t) \/ Mentions(msgs, t)
  BY <1>14, <1>16, <1>19, <1>20 DEF v
<1>23. toBroker'[n] = u /\ \A k \in Runners : k # n => toBroker'[k] = toBroker[k]
  BY <1>2, <1>11
<1>24. toBroker' \in [Runners -> Seq(ToBrokerMsg)]
  BY <1>2, <1>11, <1>21
<1>25. ASSUME NEW k \in Runners
       PROVE  /\ Once(toBroker[k], BrokerOnce)' /\ InOrder(toBroker[k])'
              /\ \A t \in Tasks :
                    /\ \A T : Has(toBroker[k], T, t)' <=>
                          Has(toBroker[k], T, t) \/ (k = n /\ Has(msgs, T, t))
                    /\ Mentions(toBroker[k], t)' =>
                          Mentions(toBroker[k], t) \/ (k = n /\ Mentions(msgs, t))
  <2>1. CASE k = n
    BY <1>21, <1>22, <1>23, <2>1 DEF s
  <2>2. CASE k # n
    BY <1>23, <2>2 DEF BInv, ChannelInv
  <2>3. QED
    BY <2>1, <2>2
<1>26. QED
  BY <1>8, <1>9, <1>24, <1>25

\* One runner makes promises, within its capacity.
LEMMA CapacityAt ==
    ASSUME BInv, NEW n \in Runners, NEW running,
           \A k \in Runners : k # n => openOffers'[k] = openOffers[k] /\ runningTasks'[k] = runningTasks[k],
           \A t \in Tasks : runningTasks'[n][t] # "none" <=> t \in running, running \subseteq Tasks,
           Cardinality(openOffers'[n]) + Cardinality(running) <= MaxConcurrency
    PROVE  RunnerWithinCapacity'
<1>1. RunningOn(n)' = running
  BY DEF RunningOn
<1>2. \A k \in Runners : k # n => RunningOn(k)' = RunningOn(k)
  BY DEF RunningOn
<1>3. \A k \in Runners : Cardinality(openOffers[k]) + Cardinality(RunningOn(k)) <= MaxConcurrency
  BY DEF BInv, RunnerWithinCapacity
<1>4. ASSUME NEW k \in Runners
      PROVE  Cardinality(openOffers'[k]) + Cardinality(RunningOn(k)') <= MaxConcurrency
  <2>1. CASE k = n
    BY <1>1, <2>1
  <2>2. CASE k # n
    BY <1>2, <1>3, <2>2
  <2>3. QED
    BY <2>1, <2>2
<1>5. QED
  BY <1>4 DEF RunnerWithinCapacity

\* The interval of startTaskOffers keeps the invariant.
LEMMA SendOffersStep ==
    ASSUME BInv, NEW n \in Runners, SendOffers(n)
    PROVE  BInv'
<1>1. /\ SendThenOffer(n, <<>>, RunningOn(n))
      /\ UNCHANGED <<brokerAllVars, process, canSendOffers, runnerDraining, runningTasks,
                     executed, toRunner>>
  BY DEF SendOffers
<1>2. /\ BrokerTypes' /\ RequestsInv' /\ AttemptsKept
      /\ UNCHANGED <<knownRunners, tasks, taskIdOf, attempts>>
  BY <1>1, BrokerUntouched
<1>3. <<>> \in Seq(ToBrokerMsg) /\ RunningOn(n) \in SUBSET RunningOn(n)
  BY EmptySeq
<1>4. (\A T, t : ~Has(<<>>, T, t)) /\ (\A t : ~Mentions(<<>>, t))
  BY EmptyChannel
<1>5. /\ toBroker' \in [Runners -> Seq(ToBrokerMsg)]
      /\ \A k \in Runners : Once(toBroker[k], BrokerOnce)' /\ InOrder(toBroker[k])'
      /\ \A k \in Runners, t \in Tasks :
            /\ \A T : Has(toBroker[k], T, t)' <=>
                  Has(toBroker[k], T, t) \/ (k = n /\ Has(<<>>, T, t))
            /\ Mentions(toBroker[k], t)' =>
                  Mentions(toBroker[k], t) \/ (k = n /\ Mentions(<<>>, t))
      /\ openOffers' \in [Runners -> SUBSET Offers]
      /\ \A k \in Runners : k # n => openOffers'[k] = openOffers[k]
      /\ Cardinality(openOffers'[n]) + Cardinality(RunningOn(n)) <= MaxConcurrency
  BY <1>1, <1>3, <1>4, SendEffect
<1>6. ASSUME NEW k \in Runners, NEW t \in Tasks
      PROVE  /\ Replied(k, t)' <=> Replied(k, t)
             /\ Ended(k, t)' <=> Ended(k, t)
             /\ EndedWell(k, t)' <=> EndedWell(k, t)
             /\ Mentions(toBroker[k], t)' => Mentions(toBroker[k], t)
  <2>1. \A T : Has(toBroker[k], T, t)' <=> Has(toBroker[k], T, t)
    BY <1>4, <1>5
  <2>2. QED
    BY <1>4, <1>5, <2>1 DEF Replied, Ended, EndedWell
<1>7. ChannelTypes' /\ ChannelInv'
  BY <1>1, <1>5 DEF BInv, ChannelTypes, ChannelInv
<1>8. OwnInv'
  BY <1>1, <1>2, <1>6, OwnKept, ChannelsUnchanged DEF BInv
<1>9. ASSUME NEW k \in Runners, NEW t \in Tasks, TaskOK(k, t)
      PROVE  TaskOK(k, t)'
  <2>1. Fades(k, t)
    BY <1>1, <1>2, <1>6, <1>9, ChannelsUnchanged DEF Fades, TaskOK
  <2>2. QED
    BY <1>9, <2>1, FadingTask
<1>10. TasksInv'
  BY <1>2, <1>9, TasksKept DEF BInv
<1>11. GivenInv'
  BY <1>1, <1>2, GivenKept, ChannelsUnchanged DEF BInv
<1>12. KnownInv' /\ RunnerTypes'
  BY <1>1, <1>2, <1>5 DEF BInv, KnownInv, RunnerTypes
<1>13. RunnerWithinCapacity'
  BY <1>1, <1>5, CapacityAt DEF RunningOn
<1>14. QED
  BY <1>2, <1>7, <1>8, <1>10, <1>11, <1>12, <1>13 DEF BInv

\* finishTask keeps the invariant, when it reports the end or the broker has dropped
\* the task; only code that ran is reported as done.
LEMMA FinishKeeps ==
    ASSUME BInv, NEW n \in Runners, NEW t0 \in Tasks, NEW msgs,
           runningTasks[n][t0] # "none", FinishTask(n, t0, msgs),
           \/ msgs = <<>> /\ t0 \notin tasks /\ ~Replied(n, t0)
           \/ msgs = <<Msg("taskdone", t0)>> /\ t0 \in executed
           \/ msgs = <<Msg("taskerror", t0)>>,
           UNCHANGED <<brokerAllVars, process, canSendOffers, runnerDraining, executed>>,
           toRunner' \in [Runners -> Seq(ToRunnerMsg)],
           \A k \in Runners : Once(toRunner[k], RunnerOnce)',
           \A k \in Runners, t \in Tasks :
              /\ Mentions(toRunner[k], t)' => Mentions(toRunner[k], t)
              /\ Asked(k, t)' => Asked(k, t)
              /\ SettingsSent(k, t)' => SettingsSent(k, t)
              /\ CancelSent(k, t)' => CancelSent(k, t)
    PROVE  BInv'
<1> DEFINE running == RunningOn(n) \ {t0}
<1>1. /\ runningTasks' = [runningTasks EXCEPT ![n][t0] = "none"]
      /\ SendThenOffer(n, msgs, running)
  BY DEF FinishTask
<1>2. /\ BrokerTypes' /\ RequestsInv' /\ AttemptsKept
      /\ UNCHANGED <<knownRunners, tasks, taskIdOf, attempts>>
  BY BrokerUntouched
<1>3. /\ msgs \in Seq(ToBrokerMsg)
      /\ \A t : ~Has(msgs, {"taskaccepted"}, t)
      /\ \A T, t : t # t0 => ~Has(msgs, T, t) /\ ~Mentions(msgs, t)
      /\ Has(msgs, {"taskdone"}, t0) => t0 \in executed
      /\ msgs # <<>> => Has(msgs, EndTypes, t0)
  <2>1. CASE msgs = <<>>
    BY <2>1, EmptySeq, EmptyChannel
  <2>2. ASSUME NEW y \in EndTypes, msgs = <<Msg(y, t0)>>, y = "taskdone" => t0 \in executed
        PROVE  <1>3!1 /\ <1>3!2 /\ <1>3!3 /\ <1>3!4 /\ <1>3!5
    <3> DEFINE m == Msg(y, t0)
    <3>1. m \in ToBrokerMsg /\ m.type = y /\ m.task = t0
      BY RunnerMessages, MessageFields DEF EndTypes
    <3> HIDE DEF m
    <3>2. msgs = <<m>> /\ y # "taskaccepted"
      BY <2>2 DEF m, EndTypes
    <3>3. msgs \in Seq(ToBrokerMsg) /\ DOMAIN msgs = {1} /\ msgs[1] = m
      BY <3>1, <3>2
    <3>4. QED
      BY <2>2, <3>1, <3>2, <3>3 DEF Has, Mentions
  <2>3. QED
    BY <2>1, <2>2 DEF EndTypes
<1>a. msgs = <<>> => t0 \notin tasks /\ ~Replied(n, t0)
  <2>1. \A x : <<x>> # <<>>
    OBVIOUS
  <2>2. QED
    BY <2>1
<1>4. running \in SUBSET RunningOn(n) /\ running \subseteq Tasks
  BY DEF RunningOn
<1> HIDE DEF running
<1>5. /\ toBroker' \in [Runners -> Seq(ToBrokerMsg)]
      /\ \A k \in Runners : Once(toBroker[k], BrokerOnce)' /\ InOrder(toBroker[k])'
      /\ \A k \in Runners, t \in Tasks :
            /\ \A T : Has(toBroker[k], T, t)' <=>
                  Has(toBroker[k], T, t) \/ (k = n /\ Has(msgs, T, t))
            /\ Mentions(toBroker[k], t)' =>
                  Mentions(toBroker[k], t) \/ (k = n /\ Mentions(msgs, t))
      /\ openOffers' \in [Runners -> SUBSET Offers]
      /\ \A k \in Runners : k # n => openOffers'[k] = openOffers[k]
      /\ Cardinality(openOffers'[n]) + Cardinality(running) <= MaxConcurrency
  BY <1>1, <1>3, <1>4, SendEffect
<1>6. ASSUME NEW k \in Runners, NEW t \in Tasks
      PROVE  /\ Replied(k, t)' <=> Replied(k, t)
             /\ Ended(k, t) => Ended(k, t)'
             /\ Ended(k, t)' => Ended(k, t) \/ (k = n /\ t = t0)
             /\ EndedWell(k, t)' => EndedWell(k, t) \/ (k = n /\ t = t0 /\ t0 \in executed)
             /\ Mentions(toBroker[k], t)' => Mentions(toBroker[k], t) \/ (k = n /\ t = t0)
             /\ k = n /\ t = t0 /\ msgs # <<>> => Ended(k, t)'
  <2>1. \A T : Has(toBroker[k], T, t)' <=>
                  Has(toBroker[k], T, t) \/ (k = n /\ Has(msgs, T, t))
    BY <1>5
  <2>2. QED
    BY <1>3, <1>5, <2>1 DEF Replied, Ended, EndedWell
<1>7. \A k \in Runners, t \in Tasks :
         runningTasks'[k][t] = IF k = n /\ t = t0 THEN "none" ELSE runningTasks[k][t]
  BY <1>1 DEF BInv, RunnerTypes
<1>8. ChannelTypes' /\ ChannelInv'
  BY <1>5 DEF BInv, ChannelTypes, ChannelInv
<1>9. Owns(n, t0)
  BY DEF BInv, OwnInv
<1>10. OwnInv'
  BY <1>2, <1>6, <1>7, <1>9, OwnKept DEF BInv
<1>11. ASSUME NEW k \in Runners, NEW t \in Tasks, TaskOK(k, t)
       PROVE  TaskOK(k, t)'
  <2>1. t \in tasks' => t \in tasks /\ k \in knownRunners'
    BY <1>2, <1>11 DEF TaskOK
  <2>2. CASE k = n /\ t = t0
    <3>1. Ended(k, t)' \/ (t \notin tasks' /\ ~Replied(k, t)')
      BY <1>a, <1>2, <1>6, <2>2
    <3>2. runningTasks'[k][t] = "none" /\ runningTasks[k][t] # "none"
      BY <1>7, <2>2
    <3>3. Fades(k, t)
      BY <1>2, <1>6, <2>1, <2>2, <3>1, <3>2 DEF Fades
    <3>4. QED
      BY <1>11, <3>3, FadingTask
  <2>3. CASE ~(k = n /\ t = t0)
    <3>1. Fades(k, t)
      BY <1>2, <1>6, <1>7, <2>1, <2>3 DEF Fades
    <3>2. QED
      BY <1>11, <3>1, FadingTask
  <2>4. QED
    BY <2>2, <2>3
<1>12. TasksInv'
  BY <1>2, <1>11, TasksKept DEF BInv
<1>13. GivenInv'
  BY <1>2, GivenKept DEF BInv
<1>14. KnownInv'
  BY <1>2 DEF BInv, KnownInv
<1>15. RunnerTypes'
  BY <1>1, <1>2, <1>5 DEF BInv, RunnerTypes, TaskStatuses
<1>16. RunnerWithinCapacity'
  <2>1. \A k \in Runners : k # n => runningTasks'[k] = runningTasks[k]
    BY <1>1 DEF BInv, RunnerTypes
  <2>2. \A t \in Tasks : runningTasks'[n][t] # "none" <=> t \in running
    BY <1>7 DEF running, RunningOn
  <2>3. QED
    BY <1>4, <1>5, <2>1, <2>2, CapacityAt
<1>17. QED
  BY <1>2, <1>8, <1>10, <1>12, <1>13, <1>14, <1>15, <1>16 DEF BInv

\* taskExecutionSucceeded and taskExecutionFailed keep the invariant.
LEMMA TaskEndsStep ==
    ASSUME BInv, NEW n \in Runners, NEW t \in Tasks, TaskEnds(n, t)
    PROVE  BInv'
<1>1. UNCHANGED <<brokerAllVars, process, canSendOffers, runnerDraining, executed, toRunner>>
  BY DEF TaskEnds
<1>2. /\ toRunner' \in [Runners -> Seq(ToRunnerMsg)]
      /\ \A k \in Runners : Once(toRunner[k], RunnerOnce)'
      /\ \A k \in Runners, x \in Tasks :
            /\ Mentions(toRunner[k], x)' => Mentions(toRunner[k], x)
            /\ Asked(k, x)' => Asked(k, x)
            /\ SettingsSent(k, x)' => SettingsSent(k, x)
            /\ CancelSent(k, x)' => CancelSent(k, x)
  BY <1>1, ChannelsUnchanged DEF BInv, ChannelTypes, ChannelInv
<1>3. ASSUME runningTasks[n][t] # "none" PROVE TaskOK(n, t)
  BY <1>3, OwnedTask
<1>4. CASE /\ runningTasks[n][t] \in {"running", "aborting:timeout"}
           /\ \E type \in {"taskdone", "taskerror"} : FinishTask(n, t, <<Msg(type, t)>>)
  <2>1. runningTasks[n][t] # "none" /\ t \in executed
    BY <1>3, <1>4 DEF TaskOK
  <2>2. CASE FinishTask(n, t, <<Msg("taskdone", t)>>)
    BY <1>1, <1>2, <2>1, <2>2, FinishKeeps
  <2>3. CASE FinishTask(n, t, <<Msg("taskerror", t)>>)
    BY <1>1, <1>2, <2>1, <2>3, FinishKeeps
  <2>4. QED
    BY <1>4, <2>2, <2>3
<1>5. CASE runningTasks[n][t] = "aborting:cancelled" /\ FinishTask(n, t, <<>>)
  <2>1. runningTasks[n][t] # "none" /\ t \notin tasks /\ ~Replied(n, t)
    BY <1>3, <1>5 DEF TaskOK
  <2>2. QED
    BY <1>1, <1>2, <1>5, <2>1, FinishKeeps
<1>6. QED
  BY <1>4, <1>5 DEF TaskEnds

\* A task that changes its state on the runner while its code is at work.
LEMMA AbortKeeps ==
    ASSUME BInv, NEW n \in Runners, NEW t0 \in Tasks, NEW status,
           runningTasks[n][t0] = "running",
           runningTasks' = [runningTasks EXCEPT ![n][t0] = status],
           status = "aborting:timeout" \/ (status = "aborting:cancelled" /\ t0 \notin tasks),
           UNCHANGED <<brokerAllVars, process, canSendOffers, runnerDraining, executed, openOffers, toBroker>>,
           toRunner' \in [Runners -> Seq(ToRunnerMsg)],
           \A k \in Runners : Once(toRunner[k], RunnerOnce)',
           \A k \in Runners, t \in Tasks :
              /\ Mentions(toRunner[k], t)' => Mentions(toRunner[k], t)
              /\ Asked(k, t)' => Asked(k, t)
              /\ SettingsSent(k, t)' => SettingsSent(k, t)
              /\ CancelSent(k, t)' => CancelSent(k, t)
    PROVE  BInv'
<1>1. /\ BrokerTypes' /\ RequestsInv' /\ AttemptsKept
      /\ UNCHANGED <<knownRunners, tasks, taskIdOf, attempts>>
  BY BrokerUntouched
<1>2. \A k \in Runners, t \in Tasks :
         runningTasks'[k][t] = IF k = n /\ t = t0 THEN status ELSE runningTasks[k][t]
  BY DEF BInv, RunnerTypes
<1>3. ChannelTypes' /\ ChannelInv'
  BY DEF BInv, ChannelTypes, ChannelInv
<1>4. OwnInv'
  BY <1>1, <1>2, OwnKept, ChannelsUnchanged DEF BInv
<1>5. ASSUME NEW k \in Runners, NEW t \in Tasks, TaskOK(k, t)
      PROVE  TaskOK(k, t)'
  <2>1. t \in tasks' => t \in tasks /\ k \in knownRunners'
    BY <1>1, <1>5 DEF TaskOK
  <2>2. /\ Replied(k, t)' => Replied(k, t)
        /\ Ended(k, t)' <=> Ended(k, t)
        /\ EndedWell(k, t)' => EndedWell(k, t)
    BY ChannelsUnchanged
  <2>3. \/ runningTasks'[k][t] = runningTasks[k][t]
        \/ /\ runningTasks[k][t] = "running"
           /\ \/ runningTasks'[k][t] = "aborting:timeout"
              \/ runningTasks'[k][t] = "aborting:cancelled" /\ t \notin tasks
    BY <1>2
  <2>4. Fades(k, t)
    BY <1>1, <2>1, <2>2, <2>3 DEF Fades
  <2>5. QED
    BY <1>5, <2>4, FadingTask
<1>6. TasksInv'
  BY <1>1, <1>5, TasksKept DEF BInv
<1>7. GivenInv'
  BY <1>1, GivenKept DEF BInv
<1>8. KnownInv'
  BY <1>1 DEF BInv, KnownInv
<1>9. RunnerTypes'
  BY <1>1 DEF BInv, RunnerTypes, TaskStatuses
<1>10. RunnerWithinCapacity'
  BY <1>2, CapacityKept
<1>11. QED
  BY <1>1, <1>3, <1>4, <1>6, <1>7, <1>8, <1>9, <1>10 DEF BInv

\* taskTimedOut keeps the invariant: a task that waits for its settings is reported.
LEMMA TaskTimedOutStep ==
    ASSUME BInv, NEW n \in Runners, NEW t \in Tasks, TaskTimedOut(n, t)
    PROVE  BInv'
<1>1. UNCHANGED <<brokerAllVars, process, canSendOffers, runnerDraining, executed, toRunner>>
  BY DEF TaskTimedOut
<1>2. /\ toRunner' \in [Runners -> Seq(ToRunnerMsg)]
      /\ \A k \in Runners : Once(toRunner[k], RunnerOnce)'
      /\ \A k \in Runners, x \in Tasks :
            /\ Mentions(toRunner[k], x)' => Mentions(toRunner[k], x)
            /\ Asked(k, x)' => Asked(k, x)
            /\ SettingsSent(k, x)' => SettingsSent(k, x)
            /\ CancelSent(k, x)' => CancelSent(k, x)
  BY <1>1, ChannelsUnchanged DEF BInv, ChannelTypes, ChannelInv
<1>3. CASE /\ runningTasks[n][t] = "waitingForSettings"
           /\ FinishTask(n, t, <<Msg("taskerror", t)>>)
  BY <1>1, <1>2, <1>3, FinishKeeps
<1>4. CASE /\ runningTasks[n][t] = "running"
           /\ runningTasks' = [runningTasks EXCEPT ![n][t] = "aborting:timeout"]
           /\ UNCHANGED <<openOffers, toBroker>>
  BY <1>1, <1>2, <1>4, AbortKeeps
<1>5. QED
  BY <1>3, <1>4 DEF TaskTimedOut

\* taskCancelled keeps the invariant: the broker dropped the task before it cancelled.
LEMMA TaskCancelledStep ==
    ASSUME BInv, NEW n \in Runners, TaskCancelled(n)
    PROVE  BInv'
<1> DEFINE t == Head(toRunner[n]).task
<1>1. /\ FromBroker(n, "taskcancel")
      /\ UNCHANGED <<brokerAllVars, process, canSendOffers, runnerDraining, executed>>
  BY DEF TaskCancelled
<1>2. /\ t \in Tasks /\ TaskOK(n, t) /\ CancelSent(n, t)
      /\ toRunner' \in [Runners -> Seq(ToRunnerMsg)]
      /\ \A k \in Runners : Once(toRunner[k], RunnerOnce)'
      /\ \A k \in Runners, x \in Tasks :
            /\ Mentions(toRunner[k], x)' => Mentions(toRunner[k], x)
            /\ Asked(k, x)' => Asked(k, x)
            /\ SettingsSent(k, x)' => SettingsSent(k, x)
            /\ CancelSent(k, x)' => CancelSent(k, x)
  BY <1>1, RunnerReceives
<1>3. t \notin tasks /\ ~Replied(n, t)
  BY <1>2 DEF TaskOK
<1>4. \/ runningTasks[n][t] = "waitingForSettings" /\ FinishTask(n, t, <<>>)
      \/ /\ runningTasks[n][t] = "running"
         /\ runningTasks' = [runningTasks EXCEPT ![n][t] = "aborting:cancelled"]
         /\ UNCHANGED <<openOffers, toBroker>>
      \/ UNCHANGED <<runningTasks, openOffers, toBroker>>
  BY Zenon DEF TaskCancelled
<1> HIDE DEF t
<1>5. CASE runningTasks[n][t] = "waitingForSettings" /\ FinishTask(n, t, <<>>)
  BY <1>1, <1>2, <1>3, <1>5, FinishKeeps
<1>6. CASE /\ runningTasks[n][t] = "running"
           /\ runningTasks' = [runningTasks EXCEPT ![n][t] = "aborting:cancelled"]
           /\ UNCHANGED <<openOffers, toBroker>>
  BY <1>1, <1>2, <1>3, <1>6, AbortKeeps
<1>7. CASE UNCHANGED <<runningTasks, openOffers, toBroker>>
  <2>1. /\ BrokerTypes' /\ ChannelTypes' /\ ChannelInv' /\ OwnInv' /\ TasksInv' /\ RequestsInv'
        /\ GivenInv' /\ KnownInv'
    BY <1>1, <1>7, ReadKeeps
  <2>2. RunnerTypes'
    BY <1>1, <1>7 DEF BInv, RunnerTypes, brokerAllVars, brokerVars, matchVars
  <2>3. RunnerWithinCapacity'
    BY <1>7, CapacityKept
  <2>4. QED
    BY <2>1, <2>2, <2>3 DEF BInv
<1>8. QED
  BY <1>4, <1>5, <1>6, <1>7

\* offerAccepted keeps the invariant: the offer's slot becomes the task's, and the
\* task has been heard of nowhere else.
LEMMA OfferAcceptedStep ==
    ASSUME BInv, NEW n \in Runners, OfferAccepted(n)
    PROVE  BInv'
<1> DEFINE m0 == Head(toRunner[n])
           t0 == m0.task
           refused == \/ runnerDraining[n] \/ Cardinality(RunningOn(n)) >= MaxConcurrency
                      \/ m0.offer \notin openOffers[n]
           y == IF refused THEN "taskrejected" ELSE "taskaccepted"
           m == Msg(y, t0)
<1>1. /\ FromBroker(n, "taskofferaccept")
      /\ openOffers' = [openOffers EXCEPT ![n] =
            IF runnerDraining[n] THEN openOffers[n] ELSE openOffers[n] \ {m0.offer}]
      /\ runningTasks' = IF refused THEN runningTasks
                         ELSE [runningTasks EXCEPT ![n][t0] = "waitingForSettings"]
      /\ toBroker' = [toBroker EXCEPT ![n] = Append(toBroker[n], m)]
      /\ UNCHANGED <<brokerAllVars, process, canSendOffers, runnerDraining, executed>>
  BY DEF OfferAccepted
<1>2. /\ toRunner' \in [Runners -> Seq(ToRunnerMsg)]
      /\ t0 \in Tasks /\ t0 \in DOMAIN attempts
      /\ Owns(n, t0) /\ TaskOK(n, t0) /\ Asked(n, t0) /\ process[n] = "up"
      /\ \A k \in Runners : Once(toRunner[k], RunnerOnce)'
      /\ \A k \in Runners, t \in Tasks :
            /\ Mentions(toRunner[k], t)' => Mentions(toRunner[k], t)
            /\ Asked(k, t)' => Asked(k, t)
            /\ SettingsSent(k, t)' = SettingsSent(k, t)
            /\ CancelSent(k, t)' = CancelSent(k, t)
            /\ k = n /\ t = t0 => ~Asked(k, t)'
  BY <1>1, RunnerReceives
<1>3. y \in {"taskrejected", "taskaccepted"} /\ (y = "taskaccepted" <=> ~refused)
  OBVIOUS
<1> HIDE DEF refused, y
<1>4. m \in ToBrokerMsg /\ m.type = y /\ m.task = t0
  BY <1>2, <1>3, RunnerMessages, MessageFields
<1> HIDE DEF m, t0
<1>5. /\ ~Replied(n, t0) /\ ~SettingsSent(n, t0) /\ ~CancelSent(n, t0) /\ ~Ended(n, t0)
      /\ t0 \notin tasks /\ t0 \notin executed /\ runningTasks[n][t0] = "none"
  BY <1>2 DEF TaskOK
<1>6. /\ BrokerTypes' /\ RequestsInv' /\ AttemptsKept
      /\ UNCHANGED <<knownRunners, tasks, taskIdOf, attempts>>
  BY <1>1, BrokerUntouched
<1>7. /\ toBroker' \in [Runners -> Seq(ToBrokerMsg)]
      /\ \A k \in Runners : Once(toBroker[k], BrokerOnce)' /\ InOrder(toBroker[k])'
      /\ \A k \in Runners, t \in Tasks :
            /\ \A T : Has(toBroker[k], T, t)' <=>
                  Has(toBroker[k], T, t) \/ (k = n /\ y \in T /\ t = t0)
            /\ Mentions(toBroker[k], t)' => Mentions(toBroker[k], t) \/ (k = n /\ t = t0)
  <2> DEFINE s == toBroker[n]
             u == Append(s, m)
  <2>1. toBroker \in [Runners -> Seq(ToBrokerMsg)] /\ s \in Seq(ToBrokerMsg)
    BY DEF BInv, ChannelTypes
  <2>2. \A k \in Runners : Once(toBroker[k], BrokerOnce) /\ InOrder(toBroker[k])
    BY DEF BInv, ChannelInv
  <2>3. toBroker'[n] = u /\ \A k \in Runners : k # n => toBroker'[k] = toBroker[k]
    BY <1>1, <2>1
  <2>4. /\ u \in Seq(ToBrokerMsg)
        /\ \A T, t : Has(u, T, t) <=> Has(s, T, t) \/ (m.type \in T /\ m.task = t)
        /\ \A t : Mentions(u, t) <=> Mentions(s, t) \/ m.task = t
        /\ \A T : Once(s, T) /\ (m.type \in T => ~Has(s, {m.type}, m.task)) => Once(u, T)
        /\ InOrder(s) /\ (m.type = "taskaccepted" => ~Has(s, EndTypes, m.task)) => InOrder(u)
    <3> HIDE DEF s
    <3>1. QED
      BY <1>4, <2>1, AppendChannel
  <2>5. ~Has(s, {"taskaccepted"}, t0) /\ ~Has(s, EndTypes, t0)
    BY <1>5 DEF Replied, Ended
  <2> HIDE DEF u
  <2>6. Once(u, BrokerOnce) /\ InOrder(u)
    BY <1>4, <2>2, <2>4, <2>5 DEF BrokerOnce
  <2>7. toBroker' \in [Runners -> Seq(ToBrokerMsg)]
    BY <1>1, <2>1, <2>4 DEF u
  <2>8. QED
    BY <1>4, <2>2, <2>3, <2>4, <2>6, <2>7
<1>8. ASSUME NEW k \in Runners, NEW t \in Tasks
      PROVE  /\ Replied(k, t)' => Replied(k, t) \/ (k = n /\ t = t0 /\ ~refused)
             /\ Ended(k, t)' <=> Ended(k, t)
             /\ EndedWell(k, t)' <=> EndedWell(k, t)
  <2>1. \A T : Has(toBroker[k], T, t)' <=> Has(toBroker[k], T, t) \/ (k = n /\ y \in T /\ t = t0)
    BY <1>7
  <2>2. QED
    BY <1>3, <2>1 DEF Replied, Ended, EndedWell, EndTypes
<1>9. \A k \in Runners, t \in Tasks :
         runningTasks'[k][t] = IF k = n /\ t = t0 /\ ~refused THEN "waitingForSettings"
                               ELSE runningTasks[k][t]
  BY <1>1, <1>2 DEF BInv, RunnerTypes
<1>10. ChannelTypes' /\ ChannelInv'
  BY <1>2, <1>7 DEF BInv, ChannelTypes, ChannelInv
<1>11. OwnInv'
  BY <1>2, <1>6, <1>7, <1>9, OwnKept DEF BInv
<1>12. ASSUME NEW k \in Runners, NEW t \in Tasks, TaskOK(k, t)
       PROVE  TaskOK(k, t)'
  <2>1. CASE k = n /\ t = t0 /\ ~refused
    <3>1. /\ Asked(n, t) /\ ~Asked(n, t)' /\ SettingsSent(n, t)' = SettingsSent(n, t)
          /\ CancelSent(n, t)' = CancelSent(n, t) /\ runningTasks'[n][t] = "waitingForSettings"
          /\ UNCHANGED <<process, tasks, executed, knownRunners>>
      BY <1>1, <1>2, <1>6, <1>9, <2>1
    <3>2. (Ended(n, t)' <=> Ended(n, t)) /\ (EndedWell(n, t)' <=> EndedWell(n, t))
      BY <1>8
    <3>3. Ended(n, t)' = Ended(n, t) /\ EndedWell(n, t)' = EndedWell(n, t)
      BY <3>2, Zenon DEF Ended, EndedWell, Has
    <3>4. QED
      BY <1>12, <2>1, <3>1, <3>3, AcceptingTask
  <2>2. CASE ~(k = n /\ t = t0 /\ ~refused)
    <3>1. Fades(k, t)
      BY <1>1, <1>2, <1>6, <1>8, <1>9, <1>12, <2>2 DEF Fades, TaskOK
    <3>2. QED
      BY <1>12, <3>1, FadingTask
  <2>3. QED
    BY <2>1, <2>2
<1>13. TasksInv'
  BY <1>6, <1>12, TasksKept DEF BInv
<1>14. GivenInv'
  BY <1>1, <1>2, <1>6, GivenKept DEF BInv
<1>15. KnownInv' /\ RunnerTypes'
  <2>1. runningTasks' \in [Runners -> [Tasks -> TaskStatuses]]
    BY <1>1, <1>2 DEF BInv, RunnerTypes, TaskStatuses
  <2>2. QED
    BY <1>1, <1>6, <2>1 DEF BInv, KnownInv, RunnerTypes
<1>16. RunnerWithinCapacity'
  <2>1. CASE refused
    BY <1>1, <2>1, CapacityKept DEF BInv, RunnerTypes
  <2>2. CASE ~refused
    <3> DEFINE o == m0.offer
               running == RunningOn(n) \cup {t0}
    <3>1. o \in openOffers[n] /\ ~runnerDraining[n]
      BY <2>2 DEF refused
    <3> HIDE DEF o, m0
    <3>2. openOffers' = [openOffers EXCEPT ![n] = openOffers[n] \ {o}]
      BY <1>1, <3>1 DEF o
    <3>3. /\ openOffers'[n] = openOffers[n] \ {o}
          /\ \A k \in Runners : k # n => openOffers'[k] = openOffers[k]
      BY <3>2 DEF BInv, RunnerTypes
    <3>4. IsFiniteSet(openOffers[n]) /\ IsFiniteSet(RunningOn(n)) /\ t0 \notin RunningOn(n)
      <4>1. openOffers[n] \in SUBSET Offers /\ RunningOn(n) \in SUBSET Tasks /\ IsFiniteSet(Offers)
        BY BrokerAssumption DEF BInv, RunnerTypes, RunningOn
      <4>2. QED
        BY <1>5, <4>1, TaskIds, FS_Subset DEF RunningOn
    <3> DEFINE a == Cardinality(openOffers[n])
               b == Cardinality(RunningOn(n))
    <3>5. /\ Cardinality(openOffers[n] \ {o}) = a - 1 /\ Cardinality(running) = b + 1
          /\ a \in Nat /\ b \in Nat /\ a + b <= MaxConcurrency /\ MaxConcurrency \in Nat
      BY <3>1, <3>4, FS_RemoveElement, FS_AddElement, FS_CardinalityType, BrokerAssumption
         DEF BInv, RunnerWithinCapacity
    <3> HIDE DEF a, b, running
    <3>6. Cardinality(openOffers'[n]) + Cardinality(running) <= MaxConcurrency
      BY <3>3, <3>5
    <3>7. \A k \in Runners : k # n => runningTasks'[k] = runningTasks[k]
      BY <1>1, <2>2 DEF BInv, RunnerTypes
    <3>8. running \subseteq Tasks /\ \A t \in Tasks : runningTasks'[n][t] # "none" <=> t \in running
      BY <1>2, <1>9, <2>2 DEF running, RunningOn
    <3>9. QED
      BY <3>3, <3>6, <3>7, <3>8, CapacityAt
  <2>3. QED
    BY <2>1, <2>2
<1>17. QED
  BY <1>6, <1>10, <1>11, <1>13, <1>14, <1>15, <1>16 DEF BInv

-----------------------------------------------------------------------------
(* settleTasks *)

\* The task ids that settleTasks hands out are new, each goes to the runner whose offer
\* it takes, and there are never more of them than ids are left.
LEMMA SettleEffect ==
    ASSUME BInv, NEW requests \in Seq(Requests),
           NEW offers \in Seq([runner : knownRunners, offer : Offers]),
           SettleTasks(requests, offers)
    PROVE  /\ pendingTaskRequests' = requests
           /\ pendingTaskOffers' \in Seq([runner : knownRunners, offer : Offers])
           /\ acceptInProgress' \in SUBSET Requests
           /\ attempts' \in Seq(Attempt) /\ Len(attempts') <= MaxTasks
           /\ DOMAIN attempts \subseteq DOMAIN attempts'
           /\ \A t \in DOMAIN attempts : attempts'[t] = attempts[t]
           /\ \A t \in DOMAIN attempts' : t \notin DOMAIN attempts => attempts'[t].runner \in knownRunners
           /\ toRunner' \in [Runners -> Seq(ToRunnerMsg)]
           /\ \A k \in Runners : Once(toRunner[k], RunnerOnce)'
           /\ \A k \in Runners, t \in Tasks :
                 /\ t \in DOMAIN attempts =>
                       /\ \A T : Has(toRunner[k], T, t)' <=> Has(toRunner[k], T, t)
                       /\ Mentions(toRunner[k], t)' => Mentions(toRunner[k], t)
                 /\ t \notin DOMAIN attempts =>
                       /\ \A T : Has(toRunner[k], T, t)' => "taskofferaccept" \in T
                       /\ Mentions(toRunner[k], t)' => t \in DOMAIN attempts' /\ attempts'[t].runner = k
<1> DEFINE matchedBy(took) == {j \in DOMAIN requests : took[j] # 0}
           task0(took, j) == Len(attempts) + Cardinality({k \in matchedBy(took) : k <= j})
<1>1. PICK valid \in SUBSET DOMAIN offers :
         \E took \in [DOMAIN requests -> valid \cup {0}] :
            /\ \A j \in DOMAIN requests : Turn(requests, offers, valid, took, j)
            /\ pendingTaskRequests' = requests
            /\ pendingTaskOffers' = AtPositions(offers, valid \ {took[j] : j \in matchedBy(took)})
            /\ attempts' = attempts \o AtPositions(
                 [j \in DOMAIN requests |->
                    [request |-> requests[j], runner |-> offers[took[j]].runner, state |-> "pending"]],
                 matchedBy(took))
            /\ acceptInProgress' = acceptInProgress \cup {requests[j] : j \in matchedBy(took)}
            /\ toRunner' = [n \in Runners |-> IF process[n] # "up" THEN toRunner[n]
                 ELSE toRunner[n] \o AtPositions(
                    [j \in DOMAIN requests |->
                       OfferMsg("taskofferaccept", offers[took[j]].offer, task0(took, j))],
                    {j \in matchedBy(took) : offers[took[j]].runner = n})]
  BY Zenon DEF SettleTasks
<1>2. PICK took \in [DOMAIN requests -> valid \cup {0}] :
            /\ \A j \in DOMAIN requests : Turn(requests, offers, valid, took, j)
            /\ pendingTaskRequests' = requests
            /\ pendingTaskOffers' = AtPositions(offers, valid \ {took[j] : j \in matchedBy(took)})
            /\ attempts' = attempts \o AtPositions(
                 [j \in DOMAIN requests |->
                    [request |-> requests[j], runner |-> offers[took[j]].runner, state |-> "pending"]],
                 matchedBy(took))
            /\ acceptInProgress' = acceptInProgress \cup {requests[j] : j \in matchedBy(took)}
            /\ toRunner' = [n \in Runners |-> IF process[n] # "up" THEN toRunner[n]
                 ELSE toRunner[n] \o AtPositions(
                    [j \in DOMAIN requests |->
                       OfferMsg("taskofferaccept", offers[took[j]].offer, task0(took, j))],
                    {j \in matchedBy(took) : offers[took[j]].runner = n})]
  BY <1>1
<1> DEFINE matched == matchedBy(took)
           task(j) == Len(attempts) + Rank(matched, j)
           runner(j) == offers[took[j]].runner
           attempt(j) == [request |-> requests[j], runner |-> runner(j), state |-> "pending"]
           message(j) == OfferMsg("taskofferaccept", offers[took[j]].offer, task(j))
           new == AtPositions([j \in DOMAIN requests |-> attempt(j)], matched)
           for(n) == {j \in matched : runner(j) = n}
           sent(n) == AtPositions([j \in DOMAIN requests |-> message(j)], for(n))
<1>3. /\ pendingTaskOffers' = AtPositions(offers, valid \ {took[j] : j \in matched})
      /\ attempts' = attempts \o new
      /\ toRunner' = [n \in Runners |-> IF process[n] # "up" THEN toRunner[n]
                                        ELSE toRunner[n] \o sent(n)]
  BY <1>2 DEF Rank
<1>4. acceptInProgress' = acceptInProgress \cup {requests[j] : j \in matched}
  BY <1>2
<1>5. \A j \in matched : j \in DOMAIN requests /\ took[j] # 0 /\ took[j] \in valid
  OBVIOUS
<1>6. \A j \in DOMAIN requests : took[j] # 0 <=> j \in matched
  OBVIOUS
<1>7. matched \in SUBSET DOMAIN requests
  OBVIOUS
<1>8. /\ DOMAIN requests = 1..Len(requests) /\ Len(requests) \in Nat
      /\ \A j \in DOMAIN requests : requests[j] \in Requests
  BY LenProperties, ElementOfSeq
<1>9. \A i \in valid : offers[i].runner \in knownRunners /\ offers[i].offer \in Offers
  <2>1. /\ DOMAIN offers = 1..Len(offers)
        /\ \A i \in 1..Len(offers) : offers[i] \in [runner : knownRunners, offer : Offers]
    BY LenProperties, ElementOfSeq
  <2>2. QED
    BY <2>1
<1> HIDE DEF matchedBy, matched, task, runner, new, for, sent
<1>10. /\ IsFiniteSet(matched) /\ matched \subseteq Int /\ Cardinality(matched) \in Nat
       /\ \A j \in matched : Rank(matched, j) \in 1..Cardinality(matched)
       /\ \A i, j \in matched : Rank(matched, i) = Rank(matched, j) => i = j
       /\ \A k \in 1..Cardinality(matched) : \E j \in matched : Rank(matched, j) = k
  <2>1. IsFiniteSet(matched) /\ matched \subseteq Int /\ Cardinality(matched) \in Nat
    BY <1>7, PositionsFinite
  <2>2. QED
    BY <2>1, RankProperties
<1>11. DOMAIN attempts = 1..Len(attempts) /\ Len(attempts) \in Nat /\ attempts \in Seq(Attempt)
       /\ Len(attempts) <= MaxTasks /\ MaxTasks \in Nat /\ DOMAIN attempts \subseteq Tasks
  BY AttemptTypes, TaskIds DEF BInv, BrokerTypes
\* The task ids suffice: the last request that took an offer still found one.
<1>12. Len(attempts) + Cardinality(matched) <= MaxTasks
  <2>1. CASE Cardinality(matched) = 0
    BY <1>11, <2>1
  <2>2. CASE Cardinality(matched) # 0
    <3>1. PICK j \in matched : Rank(matched, j) = Cardinality(matched)
      BY <1>10, <2>2
    <3> DEFINE before == {k \in 1..(j - 1) : took[k] # 0}
    <3>2. j \in DOMAIN requests /\ took[j] # 0
      BY <1>5
    <3>3. Turn(requests, offers, valid, took, j)
      BY <1>2, <3>2
    <3>4. ~(Len(attempts) + Cardinality(before) >= MaxTasks)
      BY <3>2, <3>3 DEF Turn
    <3>5. {k \in matched : k <= j} = before \cup {j}
      <4>1. \A k \in Int : k \in 1..Len(requests) /\ k <= j <=> k \in 1..(j - 1) \/ k = j
        BY <1>8, <3>2
      <4>2. QED
        BY <1>5, <1>6, <1>8, <3>2, <4>1
    <3>6. IsFiniteSet(before) /\ j \notin before
      <4>1. IsFiniteSet(1..(j - 1)) /\ j \notin 1..(j - 1)
        <5>1. j \in Int /\ 1 \in Int /\ j - 1 \in Int
          BY <1>8, <3>2
        <5>2. IsFiniteSet(1..(j - 1))
          BY <5>1, FS_Interval
        <5>3. QED
          BY <5>1, <5>2
      <4>2. before \in SUBSET (1..(j - 1))
        OBVIOUS
      <4> HIDE DEF before
      <4>3. QED
        BY <4>1, <4>2, FS_Subset
    <3> HIDE DEF before
    <3>7. Cardinality(before) \in Nat /\ Cardinality(before \cup {j}) = Cardinality(before) + 1
      BY <3>6, FS_AddElement, FS_CardinalityType
    <3>8. Cardinality(matched) = Cardinality(before) + 1
      BY <3>1, <3>5, <3>7 DEF Rank
    <3>9. QED
      BY <1>11, <3>4, <3>7, <3>8
  <2>3. QED
    BY <2>1, <2>2
<1>13. ASSUME NEW j \in matched
       PROVE  /\ task(j) \in Tasks /\ task(j) > Len(attempts)
              /\ task(j) \in 1..(Len(attempts) + Cardinality(matched))
              /\ task(j) - Len(attempts) = Rank(matched, j) /\ task(j) \in Nat
              /\ runner(j) \in knownRunners /\ runner(j) \in Runners
              /\ offers[took[j]].offer \in Offers
              /\ attempt(j) \in Attempt /\ message(j) \in ToRunnerMsg
              /\ message(j).type = "taskofferaccept" /\ message(j).task = task(j)
  <2>1. /\ task(j) \in Tasks /\ task(j) > Len(attempts)
        /\ task(j) \in 1..(Len(attempts) + Cardinality(matched))
        /\ task(j) - Len(attempts) = Rank(matched, j) /\ task(j) \in Nat
    BY <1>10, <1>11, <1>12 DEF task, Tasks
  <2>2. /\ runner(j) \in knownRunners /\ runner(j) \in Runners
        /\ offers[took[j]].offer \in Offers
    BY <1>5, <1>9 DEF runner, BInv, BrokerTypes
  <2>3. attempt(j) \in Attempt
    BY <1>5, <1>8, <2>2 DEF Attempt, AcceptStates
  <2>4. message(j) \in ToRunnerMsg
    BY <2>1, <2>2, BrokerMessages
  <2>5. QED
    BY <2>1, <2>2, <2>3, <2>4, MessageFields
<1> HIDE DEF attempt, message
\* The new attempts.
<1>14. /\ new \in Seq(Attempt) /\ Len(new) = Cardinality(matched)
       /\ \A j \in matched : new[Rank(matched, j)] = attempt(j)
  <2> DEFINE s == [j \in DOMAIN requests |-> attempt(j)]
             S == {attempt(j) : j \in DOMAIN requests}
  <2>1. s \in Seq(S) /\ matched \in SUBSET DOMAIN s
    <3>1. \A j \in 1..Len(requests) : attempt(j) \in S
      BY <1>8
    <3> HIDE DEF S
    <3>2. QED
      BY <1>7, <1>8, <3>1, IsASeq
  <2>2. \A j \in matched : s[j] = attempt(j)
    BY <1>7
  <2> HIDE DEF s, S
  <2>3. /\ AtPositions(s, matched) \in Seq(S)
        /\ Len(AtPositions(s, matched)) = Cardinality(matched)
        /\ \A i \in matched : AtPositions(s, matched)[Rank(matched, i)] = s[i]
    BY <2>1, AtPositionsProperties
  <2>4. new = AtPositions(s, matched)
    BY DEF new, s
  <2>5. \A i \in 1..Len(new) : new[i] \in Attempt
    BY <1>10, <1>13, <2>2, <2>3, <2>4
  <2>6. new \in Seq(Attempt)
    BY <2>3, <2>4, <2>5, SeqOfElements
  <2>7. QED
    BY <2>2, <2>3, <2>4, <2>6
<1>15. /\ attempts' \in Seq(Attempt) /\ Len(attempts') = Len(attempts) + Cardinality(matched)
       /\ \A i \in 1..(Len(attempts) + Cardinality(matched)) :
             attempts'[i] = IF i <= Len(attempts) THEN attempts[i] ELSE new[i - Len(attempts)]
  BY <1>3, <1>11, <1>14, ConcatProperties
<1>16. DOMAIN attempts' = 1..(Len(attempts) + Cardinality(matched))
  BY <1>15, LenProperties
<1>17. DOMAIN attempts \subseteq DOMAIN attempts' /\ \A t \in DOMAIN attempts : attempts'[t] = attempts[t]
  BY <1>10, <1>11, <1>15, <1>16
<1>18. ASSUME NEW j \in matched
       PROVE  task(j) \in DOMAIN attempts' /\ task(j) \notin DOMAIN attempts /\ attempts'[task(j)].runner = runner(j)
  <2>1. task(j) \in DOMAIN attempts' /\ task(j) \notin DOMAIN attempts /\ ~(task(j) <= Len(attempts))
    BY <1>11, <1>13, <1>16
  <2>2. attempts'[task(j)] = attempt(j)
    BY <1>13, <1>14, <1>15, <1>16, <2>1
  <2>3. QED
    BY <2>1, <2>2 DEF attempt
<1>19. ASSUME NEW t \in DOMAIN attempts', t \notin DOMAIN attempts
       PROVE  attempts'[t].runner \in knownRunners
  <2>1. t - Len(attempts) \in 1..Cardinality(matched)
    BY <1>10, <1>11, <1>16, <1>19
  <2>2. PICK j \in matched : Rank(matched, j) = t - Len(attempts)
    BY <1>10, <2>1
  <2>3. task(j) = t
    BY <1>11, <1>16, <2>2 DEF task
  <2>4. QED
    BY <1>13, <1>18, <2>3
<1>20. pendingTaskOffers' \in Seq([runner : knownRunners, offer : Offers])
  <2> DEFINE I == valid \ {took[j] : j \in matched}
             S == [runner : knownRunners, offer : Offers]
  <2>1. I \in SUBSET DOMAIN offers /\ offers \in Seq(S)
    OBVIOUS
  <2>2. pendingTaskOffers' = AtPositions(offers, I)
    BY <1>3
  <2> HIDE DEF I, S
  <2>3. AtPositions(offers, I) \in Seq(S)
    BY <2>1, AtPositionsProperties
  <2>4. QED
    BY <2>2, <2>3 DEF S
<1>21. acceptInProgress' \in SUBSET Requests
  BY <1>4, <1>5, <1>8 DEF BInv, BrokerTypes
\* The messages to one runner.
<1>22. ASSUME NEW n \in Runners
       PROVE  /\ sent(n) \in Seq(ToRunnerMsg)
              /\ \A k \in DOMAIN sent(n) : \E j \in for(n) : Rank(for(n), j) = k /\ sent(n)[k] = message(j)
  <2> DEFINE s == [j \in DOMAIN requests |-> message(j)]
             S == {message(j) : j \in DOMAIN requests}
             I == for(n)
  <2>1. I \in SUBSET matched
    BY DEF for
  <2>2. s \in Seq(S) /\ I \in SUBSET DOMAIN s
    <3>1. \A j \in 1..Len(requests) : message(j) \in S
      BY <1>8
    <3> HIDE DEF S
    <3>2. QED
      BY <1>7, <1>8, <2>1, <3>1, IsASeq
  <2>3. \A j \in I : s[j] = message(j)
    BY <1>7, <2>1
  <2>4. sent(n) = AtPositions(s, I)
    BY DEF sent
  <2> HIDE DEF s, S, I
  <2>5. /\ AtPositions(s, I) \in Seq(S)
        /\ Len(AtPositions(s, I)) = Cardinality(I)
        /\ \A i \in I : AtPositions(s, I)[Rank(I, i)] = s[i]
        /\ \A k \in 1..Cardinality(I) : \E i \in I : Rank(I, i) = k
    BY <2>2, AtPositionsProperties
  <2>6. DOMAIN sent(n) = 1..Len(sent(n))
    BY <2>4, <2>5, LenProperties
  <2>7. \A k \in DOMAIN sent(n) : \E j \in I : Rank(I, j) = k /\ sent(n)[k] = message(j)
    BY <2>3, <2>4, <2>5, <2>6
  <2>8. \A k \in 1..Len(sent(n)) : sent(n)[k] \in ToRunnerMsg
    BY <1>13, <2>1, <2>6, <2>7
  <2>9. sent(n) \in Seq(ToRunnerMsg)
    BY <2>4, <2>5, <2>8, SeqOfElements
  <2>10. QED
    BY <2>7, <2>9 DEF I
<1>23. ASSUME NEW n \in Runners
       PROVE  /\ \A t : Mentions(sent(n), t) => /\ t \in DOMAIN attempts' /\ t \notin DOMAIN attempts
                                                /\ t \in Tasks /\ attempts'[t].runner = n
              /\ \A T, t : Has(sent(n), T, t) => "taskofferaccept" \in T
              /\ Once(sent(n), RunnerOnce)
  <2>1. \A k \in DOMAIN sent(n) : \E j \in matched : /\ Rank(for(n), j) = k /\ runner(j) = n
                                                     /\ sent(n)[k].type = "taskofferaccept"
                                                     /\ sent(n)[k].task = task(j)
    BY <1>13, <1>22 DEF for
  <2>2. ASSUME NEW t, Mentions(sent(n), t)
        PROVE  /\ t \in DOMAIN attempts' /\ t \notin DOMAIN attempts
               /\ t \in Tasks /\ attempts'[t].runner = n
    <3>1. PICK k \in DOMAIN sent(n) : sent(n)[k].task = t
      BY <2>2 DEF Mentions
    <3>2. PICK j \in matched : runner(j) = n /\ task(j) = t
      BY <2>1, <3>1
    <3>3. QED
      BY <1>13, <1>18, <3>2
  <2>3. ASSUME NEW T, NEW t, Has(sent(n), T, t) PROVE "taskofferaccept" \in T
    BY <2>1, <2>3 DEF Has
  <2>4. ASSUME NEW a \in DOMAIN sent(n), NEW b \in DOMAIN sent(n), sent(n)[a].task = sent(n)[b].task
        PROVE  a = b
    <3>1. PICK i \in matched : Rank(for(n), i) = a /\ sent(n)[a].task = task(i)
      BY <2>1
    <3>2. PICK j \in matched : Rank(for(n), j) = b /\ sent(n)[b].task = task(j)
      BY <2>1
    <3>3. Rank(matched, i) = Rank(matched, j)
      <4>1. task(i) - Len(attempts) = task(j) - Len(attempts)
        BY <2>4, <3>1, <3>2
      <4>2. QED
        BY <1>13, <4>1
    <3>4. QED
      BY <1>10, <3>1, <3>2, <3>3
  <2>5. Once(sent(n), RunnerOnce)
    BY <2>4 DEF Once
  <2>6. QED
    BY <2>2, <2>3, <2>5
<1> HIDE DEF matched, sent, for
<1>24. ASSUME NEW n \in Runners
       PROVE  /\ toRunner'[n] \in Seq(ToRunnerMsg) /\ Once(toRunner[n], RunnerOnce)'
              /\ \A t \in Tasks :
                    /\ t \in DOMAIN attempts =>
                          /\ \A T : Has(toRunner[n], T, t)' <=> Has(toRunner[n], T, t)
                          /\ Mentions(toRunner[n], t)' => Mentions(toRunner[n], t)
                    /\ t \notin DOMAIN attempts =>
                          /\ \A T : Has(toRunner[n], T, t)' => "taskofferaccept" \in T
                          /\ Mentions(toRunner[n], t)' => t \in DOMAIN attempts' /\ attempts'[t].runner = n
  <2> DEFINE c == toRunner[n]
  <2>1. c \in Seq(ToRunnerMsg) /\ Once(c, RunnerOnce)
    BY DEF BInv, ChannelTypes, ChannelInv
  <2>2. \A t \in Tasks : Mentions(c, t) => t \in DOMAIN attempts
    BY DEF BInv, OwnInv, Owns
  <2>3. \A T, t : Has(c, T, t) => Mentions(c, t)
    BY HasMentions
  <2>4. CASE process[n] # "up"
    <3>1. toRunner'[n] = toRunner[n]
      BY <1>3, <2>4
    <3>2. QED
      BY <2>1, <2>2, <2>3, <3>1
  <2>5. CASE process[n] = "up"
    <3>1. toRunner'[n] = c \o sent(n)
      BY <1>3, <2>5
    <3>2. sent(n) \in Seq(ToRunnerMsg)
      BY <1>22
    <3> DEFINE d == sent(n)
    <3> HIDE DEF c, d
    <3>3. /\ c \o d \in Seq(ToRunnerMsg)
          /\ \A T, t : Has(c \o d, T, t) <=> Has(c, T, t) \/ Has(d, T, t)
          /\ \A t : Mentions(c \o d, t) <=> Mentions(c, t) \/ Mentions(d, t)
          /\ \A T : /\ Once(c, T) /\ Once(d, T)
                    /\ \A t : \A y \in T : ~(Has(c, {y}, t) /\ Has(d, {y}, t))
                    => Once(c \o d, T)
      BY <2>1, <3>2, ConcatChannel DEF d
    <3>4. /\ \A t : Mentions(d, t) => /\ t \in DOMAIN attempts' /\ t \notin DOMAIN attempts
                                      /\ t \in Tasks /\ attempts'[t].runner = n
          /\ \A T, t : Has(d, T, t) => "taskofferaccept" \in T
          /\ Once(d, RunnerOnce)
      BY <1>23 DEF d
    <3>5. \A T, t : Has(d, T, t) => Mentions(d, t)
      BY HasMentions
    <3>6. Once(c \o d, RunnerOnce)
      BY <2>1, <2>2, <2>3, <3>3, <3>4, <3>5
    <3>7. toRunner'[n] = c \o d
      BY <3>1 DEF d
    <3>8. ASSUME NEW t \in Tasks
          PROVE  /\ t \in DOMAIN attempts =>
                       /\ \A T : Has(c \o d, T, t) <=> Has(c, T, t)
                       /\ Mentions(c \o d, t) => Mentions(c, t)
                 /\ t \notin DOMAIN attempts =>
                       /\ \A T : Has(c \o d, T, t) => "taskofferaccept" \in T
                       /\ Mentions(c \o d, t) => t \in DOMAIN attempts' /\ attempts'[t].runner = n
      BY <2>2, <2>3, <3>3, <3>4, <3>5
    <3>9. QED
      BY <3>3, <3>6, <3>7, <3>8 DEF c
  <2>6. QED
    BY <2>4, <2>5
<1>25. toRunner' \in [Runners -> Seq(ToRunnerMsg)]
  <2>1. toRunner' = [n \in Runners |-> toRunner'[n]]
    BY <1>3
  <2>2. QED
    BY <1>24, <2>1
<1>26. Len(attempts') <= MaxTasks
  BY <1>12, <1>15
<1>27. QED
  BY <1>2, <1>15, <1>17, <1>19, <1>20, <1>21, <1>24, <1>25, <1>26

\* What settleTasks does to the tasks: the ones handed out before are left alone, a new
\* one is asked for and nothing else is known of it.
LEMMA SettleKeeps ==
    ASSUME BInv, NEW requests \in Seq(Requests),
           NEW offers \in Seq([runner : knownRunners, offer : Offers]),
           SettleTasks(requests, offers),
           UNCHANGED <<knownRunners, tasks, isDraining, taskIdOf, runnerVars>>,
           toBroker' \in [Runners -> Seq(ToBrokerMsg)],
           \A k \in Runners : Once(toBroker[k], BrokerOnce)' /\ InOrder(toBroker[k])',
           \A k \in Runners, t \in Tasks :
              /\ Mentions(toBroker[k], t)' => Mentions(toBroker[k], t)
              /\ Replied(k, t)' => Replied(k, t)
              /\ Ended(k, t)' <=> Ended(k, t)
              /\ EndedWell(k, t)' => EndedWell(k, t),
           job' \in [Requests -> JobStates],
           \A r \in Requests :
              /\ r \in ToSet(requests) <=> job'[r] = "requested"
              /\ job'[r] = job[r] \/ (job[r] = "idle" /\ job'[r] = "requested"),
           \A i, j \in DOMAIN requests : requests[i] = requests[j] => i = j
    PROVE  BInv'
<1> USE DEF BInv
<1>1. UNCHANGED <<knownRunners, tasks, isDraining, taskIdOf, process, runningTasks, executed>>
  BY DEF runnerVars
<1>2. /\ pendingTaskRequests' = requests
      /\ pendingTaskOffers' \in Seq([runner : knownRunners, offer : Offers])
      /\ acceptInProgress' \in SUBSET Requests
      /\ attempts' \in Seq(Attempt) /\ Len(attempts') <= MaxTasks
      /\ DOMAIN attempts \subseteq DOMAIN attempts'
      /\ \A t \in DOMAIN attempts : attempts'[t] = attempts[t]
      /\ \A t \in DOMAIN attempts' : t \notin DOMAIN attempts => attempts'[t].runner \in knownRunners
      /\ toRunner' \in [Runners -> Seq(ToRunnerMsg)]
      /\ \A k \in Runners : Once(toRunner[k], RunnerOnce)'
      /\ \A k \in Runners, t \in Tasks :
            /\ t \in DOMAIN attempts =>
                  /\ \A T : Has(toRunner[k], T, t)' <=> Has(toRunner[k], T, t)
                  /\ Mentions(toRunner[k], t)' => Mentions(toRunner[k], t)
            /\ t \notin DOMAIN attempts =>
                  /\ \A T : Has(toRunner[k], T, t)' => "taskofferaccept" \in T
                  /\ Mentions(toRunner[k], t)' => t \in DOMAIN attempts' /\ attempts'[t].runner = k
  BY SettleEffect
<1>3. ASSUME NEW k \in Runners, NEW t \in Tasks, t \in DOMAIN attempts
      PROVE  /\ Asked(k, t)' <=> Asked(k, t)
             /\ SettingsSent(k, t)' <=> SettingsSent(k, t)
             /\ CancelSent(k, t)' <=> CancelSent(k, t)
             /\ Owns(k, t)' <=> Owns(k, t)
  <2>1. \A T : Has(toRunner[k], T, t)' <=> Has(toRunner[k], T, t)
    BY <1>2, <1>3
  <2>2. /\ Asked(k, t)' <=> Asked(k, t)
        /\ SettingsSent(k, t)' <=> SettingsSent(k, t)
        /\ CancelSent(k, t)' <=> CancelSent(k, t)
    BY <2>1 DEF Asked, SettingsSent, CancelSent
  <2>3. Owns(k, t)' <=> Owns(k, t)
    BY <1>2, <1>3 DEF Owns
  <2>4. QED
    BY <2>2, <2>3
<1>4. ASSUME NEW k \in Runners, NEW t \in Tasks, t \notin DOMAIN attempts
      PROVE  /\ ~SettingsSent(k, t)' /\ ~CancelSent(k, t)'
             /\ ~Mentions(toBroker[k], t) /\ runningTasks[k][t] = "none"
             /\ ~Replied(k, t)' /\ ~Ended(k, t)' /\ ~EndedWell(k, t)'
             /\ t \notin tasks /\ t \notin executed
  <2>1. \A T : Has(toRunner[k], T, t)' => "taskofferaccept" \in T
    BY <1>2, <1>4
  <2>2. ~SettingsSent(k, t)' /\ ~CancelSent(k, t)'
    BY <2>1 DEF SettingsSent, CancelSent
  <2>3. ~Mentions(toBroker[k], t) /\ runningTasks[k][t] = "none"
    BY <1>4, OwnedTask
  <2>4. ~Replied(k, t) /\ ~Ended(k, t) /\ ~EndedWell(k, t)
    BY <2>3 DEF Mentions, Replied, Ended, EndedWell, Has
  <2>5. t \notin tasks /\ t \notin executed
    BY <1>4 DEF BrokerTypes, RunnerTypes
  <2>6. QED
    BY <2>2, <2>3, <2>4, <2>5
<1>5. BrokerTypes'
  BY <1>1, <1>2 DEF BrokerTypes
<1>6. RunnerTypes' /\ RunnerWithinCapacity'
  BY <1>2, RunnersUntouched
<1>7. ChannelTypes' /\ ChannelInv' /\ KnownInv'
  BY <1>1, <1>2 DEF ChannelTypes, ChannelInv, KnownInv
<1>8. OwnInv'
  <2>1. ASSUME NEW n \in Runners, NEW t \in Tasks,
               Mentions(toRunner[n], t)' \/ Mentions(toBroker[n], t)' \/ runningTasks'[n][t] # "none"
        PROVE  Owns(n, t)'
    <3>1. CASE t \in DOMAIN attempts
      <4>1. Mentions(toRunner[n], t) \/ Mentions(toBroker[n], t) \/ runningTasks[n][t] # "none"
        BY <1>1, <1>2, <2>1, <3>1
      <4>2. Owns(n, t)
        BY <4>1, OwnedTask
      <4>3. QED
        BY <1>3, <3>1, <4>2
    <3>2. CASE t \notin DOMAIN attempts
      <4>1. ~Mentions(toBroker[n], t)' /\ runningTasks'[n][t] = "none"
        BY <1>1, <1>4, <3>2
      <4>2. t \in DOMAIN attempts' /\ attempts'[t].runner = n
        BY <1>2, <2>1, <3>2, <4>1
      <4>3. QED
        BY <4>2 DEF Owns
    <3>3. QED
      BY <3>1, <3>2
  <2>2. QED
    BY <2>1 DEF OwnInv
<1>9. TasksInv'
  <2>1. ASSUME NEW n \in Runners, NEW t \in Tasks, Owns(n, t)'
        PROVE  TaskOK(n, t)'
    <3>1. CASE t \in DOMAIN attempts
      <4>1. Owns(n, t) /\ TaskOK(n, t)
        BY <1>3, <2>1, <3>1 DEF TasksInv
      <4>2. t \in tasks => n \in knownRunners
        BY <4>1 DEF TaskOK
      <4>3. Fades(n, t)
        BY <1>1, <1>3, <3>1, <4>2 DEF Fades
      <4>4. QED
        BY <4>1, <4>3, FadingTask
    <3>2. CASE t \notin DOMAIN attempts
      <4>1. n \in knownRunners
        BY <1>2, <2>1, <3>2 DEF Owns
      <4>2. process'[n] # "new"
        BY <1>1, <4>1 DEF KnownInv
      <4>3. /\ ~SettingsSent(n, t)' /\ ~CancelSent(n, t)'
            /\ ~Replied(n, t)' /\ ~Ended(n, t)' /\ ~EndedWell(n, t)'
            /\ t \notin tasks' /\ t \notin executed' /\ runningTasks'[n][t] = "none"
        BY <1>1, <1>4, <3>2
      <4>4. QED
        BY <4>2, <4>3 DEF TaskOK
    <3>3. QED
      BY <3>1, <3>2
  <2>2. QED
    BY <2>1 DEF TasksInv
<1>10. GivenInv'
  <2>1. ASSUME NEW n \in Runners, NEW t \in Tasks, Owns(n, t)',
               SettingsSent(n, t)' \/ t \in executed'
        PROVE  taskIdOf'[attempts'[t].request] = t
    <3>1. t \in DOMAIN attempts
      BY <1>1, <1>4, <2>1
    <3>2. Owns(n, t) /\ (SettingsSent(n, t) \/ t \in executed) /\ attempts'[t] = attempts[t]
      BY <1>1, <1>2, <1>3, <2>1, <3>1
    <3>3. QED
      BY <1>1, <3>2 DEF GivenInv
  <2>2. QED
    BY <2>1 DEF GivenInv
<1>11. RequestsInv'
  <2>1. ASSUME NEW r \in Requests PROVE RequestOK(r)'
    <3>1. RequestOK(r)
      BY DEF RequestsInv
    <3>2. /\ r \in ToSet(pendingTaskRequests)' <=> job'[r] = "requested"
          /\ job'[r] = job[r] \/ (job[r] = "idle" /\ job'[r] = "requested")
      BY <1>2
    <3>3. taskIdOf'[r] # NoTask =>
             taskIdOf'[r] \in DOMAIN attempts' /\ attempts'[taskIdOf'[r]].request = r
      BY <1>1, <1>2, <3>1 DEF RequestOK
    <3>4. QED
      BY <1>1, <3>1, <3>2, <3>3 DEF RequestOK
  <2>2. QED
    BY <1>2, <2>1 DEF RequestsInv
<1>12. QED
  BY <1>5, <1>6, <1>7, <1>8, <1>9, <1>10, <1>11

\* startTask keeps the invariant: the new request is pending once, or refused.
LEMMA StartTaskStep ==
    ASSUME BInv, NEW r \in Requests, StartTask(r)
    PROVE  BInv'
<1> USE DEF BInv
<1>1. job[r] = "idle" /\ UNCHANGED <<taskIdOf, runnerVars, toBroker>>
  BY DEF StartTask
<1>2. RequestOK(r) /\ r \notin ToSet(pendingTaskRequests)
  BY <1>1 DEF RequestsInv, RequestOK
<1>3. CASE job' = [job EXCEPT ![r] = "expired"] /\ UNCHANGED <<brokerVars, toRunner>>
  <2>1. UNCHANGED <<knownRunners, pendingTaskOffers, pendingTaskRequests, acceptInProgress,
                    attempts, tasks, isDraining, toRunner>>
    BY <1>3 DEF brokerVars, matchVars
  <2>2. AttemptsKept
    BY <2>1 DEF AttemptsKept
  <2>3. ChannelInv' /\ ChannelTypes' /\ OwnInv' /\ TasksInv' /\ GivenInv' /\ KnownInv'
    BY <1>1, <2>1, <2>2, TasksUntouched DEF runnerVars
  <2>4. RunnerTypes' /\ RunnerWithinCapacity'
    BY <1>1, <2>1, RunnersUntouched
  <2>5. BrokerTypes'
    BY <1>1, <1>3, <2>1 DEF BrokerTypes, JobStates
  <2>6. ASSUME NEW q \in Requests PROVE RequestOK(q)'
    <3>1. RequestOK(q)
      BY DEF RequestsInv
    <3>2. job'[q] = IF q = r THEN "expired" ELSE job[q]
      BY <1>3 DEF BrokerTypes
    <3>3. QED
      BY <1>1, <1>2, <2>1, <3>1, <3>2 DEF RequestOK, runnerVars
  <2>7. RequestsInv'
    BY <2>1, <2>6 DEF RequestsInv
  <2>8. QED
    BY <2>3, <2>4, <2>5, <2>7
<1>4. CASE /\ job' = [job EXCEPT ![r] = "requested"]
           /\ SettleTasks(Append(pendingTaskRequests, r), pendingTaskOffers)
           /\ UNCHANGED <<knownRunners, tasks, isDraining>>
  <2> DEFINE s == pendingTaskRequests
             requests == Append(s, r)
  <2>1. s \in Seq(Requests) /\ \A i, j \in DOMAIN s : s[i] = s[j] => i = j
    BY DEF BrokerTypes, RequestsInv
  <2>2. requests \in Seq(Requests) /\ ToSet(requests) = ToSet(s) \cup {r}
    BY <2>1, ToSetAppend
  <2>3. \A i, j \in DOMAIN requests : requests[i] = requests[j] => i = j
    <3>1. r \notin ToSet(s)
      BY <1>2
    <3> HIDE DEF s
    <3>2. /\ DOMAIN s = 1..Len(s) /\ Len(s) \in Nat
          /\ DOMAIN requests = 1..(Len(s) + 1) /\ requests[Len(s) + 1] = r
          /\ \A i \in 1..Len(s) : requests[i] = s[i]
      BY <2>1, <2>2, LenProperties, AppendProperties
    <3>3. \A i \in 1..Len(s) : requests[i] # r
      BY <2>1, <3>1, <3>2, ToSetMember
    <3> HIDE DEF requests
    <3>4. QED
      BY <2>1, <3>2, <3>3
  <2>4. /\ job' \in [Requests -> JobStates]
        /\ \A q \in Requests : job'[q] = IF q = r THEN "requested" ELSE job[q]
    BY <1>4 DEF BrokerTypes, JobStates
  <2>5. \A q \in Requests :
           /\ q \in ToSet(requests) <=> job'[q] = "requested"
           /\ job'[q] = job[q] \/ (job[q] = "idle" /\ job'[q] = "requested")
    <3>1. \A q \in Requests : q \in ToSet(s) <=> job[q] = "requested"
      BY DEF RequestsInv, RequestOK
    <3> HIDE DEF s, requests
    <3>2. QED
      BY <1>1, <2>2, <2>4, <3>1
  <2>6. /\ toBroker' \in [Runners -> Seq(ToBrokerMsg)]
        /\ \A k \in Runners : Once(toBroker[k], BrokerOnce)' /\ InOrder(toBroker[k])'
    BY <1>1 DEF ChannelTypes, ChannelInv
  <2>7. \A k \in Runners, t \in Tasks :
              /\ Mentions(toBroker[k], t)' => Mentions(toBroker[k], t)
              /\ Replied(k, t)' => Replied(k, t)
              /\ Ended(k, t)' <=> Ended(k, t)
              /\ EndedWell(k, t)' => EndedWell(k, t)
    BY <1>1, ChannelsUnchanged
  <2>8. /\ pendingTaskOffers \in Seq([runner : knownRunners, offer : Offers])
        /\ SettleTasks(requests, pendingTaskOffers)
        /\ UNCHANGED <<knownRunners, tasks, isDraining, taskIdOf, runnerVars>>
    BY <1>1, <1>4 DEF BrokerTypes
  <2> HIDE DEF requests, s, BInv
  <2>9. QED
    BY <2>2, <2>3, <2>4, <2>5, <2>6, <2>7, <2>8, SettleKeeps
<1>5. QED
  BY <1>3, <1>4 DEF StartTask

\* taskOffered keeps the invariant.
LEMMA TaskOfferedStep ==
    ASSUME BInv, NEW n \in Runners, TaskOffered(n)
    PROVE  BInv'
<1> DEFINE m == Head(toBroker[n])
           o == [runner |-> n, offer |-> m.offer]
           offers == Append(pendingTaskOffers, o)
<1>1. /\ FromRunner(n, {"taskoffer"}) /\ n \in knownRunners
      /\ SettleTasks(pendingTaskRequests, offers)
      /\ UNCHANGED <<knownRunners, tasks, isDraining, requesterVars, runnerVars>>
  BY DEF TaskOffered
<1>2. /\ toBroker' \in [Runners -> Seq(ToBrokerMsg)]
      /\ m \in ToBrokerMsg /\ m.type \in {"taskoffer"}
      /\ \A k \in Runners : Once(toBroker[k], BrokerOnce)' /\ InOrder(toBroker[k])'
      /\ \A k \in Runners, t \in Tasks :
            /\ Mentions(toBroker[k], t)' => Mentions(toBroker[k], t)
            /\ Replied(k, t)' => Replied(k, t)
            /\ Ended(k, t)' => Ended(k, t)
            /\ EndedWell(k, t)' => EndedWell(k, t)
            /\ Ended(k, t) => Ended(k, t)' \/ (k = n /\ m.type \in EndTypes /\ m.task = t)
  BY <1>1, BrokerReceives
<1> HIDE DEF m
<1>3. m.type = "taskoffer" /\ m.type \notin EndTypes
  BY <1>2 DEF EndTypes
<1>4. m.offer \in Offers
  BY <1>2, <1>3 DEF ToBrokerMsg
<1>5. offers \in Seq([runner : knownRunners, offer : Offers])
  <2>1. o \in [runner : knownRunners, offer : Offers]
    BY <1>1, <1>4
  <2> HIDE DEF o
  <2>2. pendingTaskOffers \in Seq([runner : knownRunners, offer : Offers])
    BY DEF BInv, BrokerTypes
  <2>3. QED
    BY <2>1, <2>2, ToSetAppend
<1> HIDE DEF offers
<1>6. /\ pendingTaskRequests \in Seq(Requests)
      /\ \A i, j \in DOMAIN pendingTaskRequests :
            pendingTaskRequests[i] = pendingTaskRequests[j] => i = j
      /\ job \in [Requests -> JobStates]
      /\ \A r \in Requests : r \in ToSet(pendingTaskRequests) <=> job[r] = "requested"
  BY DEF BInv, BrokerTypes, RequestsInv, RequestOK
<1>7. UNCHANGED <<knownRunners, tasks, isDraining, taskIdOf, runnerVars>> /\ job' = job
  BY <1>1 DEF requesterVars
<1>8. \A k \in Runners, t \in Tasks :
         /\ Mentions(toBroker[k], t)' => Mentions(toBroker[k], t)
         /\ Replied(k, t)' => Replied(k, t)
         /\ Ended(k, t)' <=> Ended(k, t)
         /\ EndedWell(k, t)' => EndedWell(k, t)
  BY <1>2, <1>3
<1>9. /\ job' \in [Requests -> JobStates]
      /\ \A r \in Requests :
            /\ r \in ToSet(pendingTaskRequests) <=> job'[r] = "requested"
            /\ job'[r] = job[r] \/ (job[r] = "idle" /\ job'[r] = "requested")
  BY <1>6, <1>7
<1>10. QED
  BY <1>1, <1>2, <1>5, <1>6, <1>7, <1>8, <1>9, SettleKeeps

-----------------------------------------------------------------------------
(* The invariant *)

\* Nothing is asked, offered or running when broker and runners start.
LEMMA BrokerInitially == BrokerInit => BInv
<1> SUFFICES ASSUME BrokerInit PROVE BInv
  OBVIOUS
<1> USE DEF BrokerInit
<1>1. /\ \A S : <<>> \in Seq(S)
      /\ DOMAIN attempts = {} /\ Len(attempts) = 0
      /\ ToSet(pendingTaskRequests) = {} /\ DOMAIN pendingTaskRequests = {}
  <2>1. <<>> \in Seq({}) /\ \A S : <<>> \in Seq(S)
    OBVIOUS
  <2>2. ToSet(<<>>) = {}
    BY <2>1, ToSetType
  <2>3. QED
    BY <2>1, <2>2
<1>2. BrokerTypes
  <2>1. /\ pendingTaskOffers \in Seq([runner : knownRunners, offer : Offers])
        /\ pendingTaskRequests \in Seq(Requests) /\ attempts \in Seq(Attempt)
    BY <1>1
  <2>2. Len(attempts) <= MaxTasks
    BY <1>1, BrokerAssumption
  <2>3. job \in [Requests -> JobStates] /\ taskIdOf \in [Requests -> Tasks \cup {NoTask}]
    BY DEF JobStates
  <2>4. QED
    BY <2>1, <2>2, <2>3 DEF BrokerTypes
<1>3. RunnerTypes
  BY <1>1 DEF RunnerTypes, TaskStatuses
<1>4. ChannelTypes
  BY <1>1 DEF ChannelTypes
<1>5. \A n \in Runners : DOMAIN toRunner[n] = {} /\ DOMAIN toBroker[n] = {}
  OBVIOUS
<1>6. ChannelInv
  BY <1>5 DEF ChannelInv, Once, InOrder
<1>7. \A n \in Runners, t \in Tasks :
         /\ ~Mentions(toRunner[n], t) /\ ~Mentions(toBroker[n], t) /\ runningTasks[n][t] = "none"
         /\ ~Owns(n, t)
  BY <1>1, <1>5 DEF Mentions, Owns
<1>8. OwnInv /\ TasksInv /\ GivenInv
  BY <1>7 DEF OwnInv, TasksInv, GivenInv
<1>9. RequestsInv
  BY <1>1 DEF RequestsInv, RequestOK
<1>10. KnownInv
  BY DEF KnownInv
<1>11. RunnerWithinCapacity
  <2>1. ASSUME NEW n \in Runners
        PROVE  Cardinality(openOffers[n]) + Cardinality(RunningOn(n)) <= MaxConcurrency
    <3>1. openOffers[n] = {} /\ RunningOn(n) = {}
      BY DEF RunningOn
    <3>2. QED
      BY <3>1, FS_EmptySet, BrokerAssumption
  <2>2. QED
    BY <2>1 DEF RunnerWithinCapacity
<1>12. QED
  BY <1>2, <1>3, <1>4, <1>6, <1>8, <1>9, <1>10, <1>11 DEF BInv

\* A step that changes nothing.
LEMMA BrokerStutters == BInv /\ UNCHANGED vars => BInv'
<1> SUFFICES ASSUME BInv, UNCHANGED vars PROVE BInv'
  OBVIOUS
<1> USE DEF BInv, vars, brokerAllVars, brokerVars, matchVars, requesterVars
<1>1. AttemptsKept
  BY DEF AttemptsKept
<1>2. ChannelInv' /\ ChannelTypes' /\ OwnInv' /\ TasksInv' /\ GivenInv' /\ KnownInv'
  BY <1>1, TasksUntouched DEF runnerVars
<1>3. RunnerTypes' /\ RunnerWithinCapacity'
  BY RunnersUntouched
<1>4. BrokerTypes'
  BY DEF BrokerTypes
<1>5. \A r \in Requests : job[r] = "started" => taskIdOf[r] \in tasks'
  BY DEF RequestsInv, RequestOK
<1>6. RequestsInv'
  BY <1>1, <1>5, RequestsKept DEF runnerVars
<1>7. QED
  BY <1>2, <1>3, <1>4, <1>6

\* Every step of broker, requester or runner keeps the invariant.
LEMMA BrokerStep == BInv /\ [BrokerNext]_vars => BInv'
<1> SUFFICES ASSUME BInv, [BrokerNext]_vars PROVE BInv'
  OBVIOUS
<1>1. ASSUME NEW r \in Requests, RequesterStep(r) PROVE BInv'
  BY <1>1, StartTaskStep, CancelTaskStep, RequestTimeoutStep, Zenon DEF RequesterStep
<1>2. ASSUME NEW n \in Runners, OnRunnerMessage(n) PROVE BInv'
  BY <1>2, TaskOfferedStep, RunnerAcceptsStep, RunnerRejectsStep, TaskResultStep,
     IgnoreMessageStep, Zenon DEF OnRunnerMessage
<1>3. ASSUME NEW n \in Runners, OnMessage(n) PROVE BInv'
  BY <1>3, StartTaskOffersStep, OfferAcceptedStep, TaskCancelledStep, ReceivedSettingsStep,
     OnBrokerDrainStep, Zenon DEF OnMessage
<1>4. ASSUME NEW n \in Runners,
             RegisterRunner(n) \/ DeregisterRunner(n) \/ SendOffers(n) \/ StopRunner(n) \/ RunnerExits(n)
      PROVE  BInv'
  BY <1>4, RegisterRunnerStep, DeregisterRunnerStep, SendOffersStep, StopRunnerStep,
     RunnerExitsStep, Zenon
<1>5. ASSUME NEW n \in Runners, NEW t \in Tasks, TaskEnds(n, t) \/ TaskTimedOut(n, t) PROVE BInv'
  BY <1>5, TaskEndsStep, TaskTimedOutStep, Zenon
<1>6. ASSUME NEW t \in Tasks, AcceptTimeout(t) \/ TaskTimeout(t) PROVE BInv'
  BY <1>6, AcceptTimeoutStep, TaskTimeoutStep, Zenon
<1>7. ASSUME StartDraining PROVE BInv'
  BY <1>7, StartDrainingStep, Zenon
<1>8. ASSUME UNCHANGED vars PROVE BInv'
  BY <1>8, BrokerStutters, Zenon
<1>9. QED
  BY <1>1, <1>2, <1>3, <1>4, <1>5, <1>6, <1>7, <1>8, Zenon DEF BrokerNext

\* BInv holds in every state of broker, requester and runners.
THEOREM BrokerInvariant == BrokerSpec => []BInv
<1>1. BrokerInit => BInv
  BY BrokerInitially
<1>2. BInv /\ [BrokerNext]_vars => BInv'
  BY BrokerStep
<1>3. QED
  BY <1>1, <1>2, PTL DEF BrokerSpec

-----------------------------------------------------------------------------
(* What follows from it *)

\* The state keeps its types, and the broker keeps offers of connected runners only.
THEOREM BrokerTypeCorrect == BrokerSpec => []BrokerTypeOK
<1>1. BInv => BrokerTypeOK
  <2> SUFFICES ASSUME BInv PROVE BrokerTypeOK
    OBVIOUS
  <2> USE DEF BInv
  <2>1. /\ ToSet(pendingTaskOffers) \subseteq [runner : knownRunners, offer : Offers]
        /\ ToSet(pendingTaskRequests) \subseteq Requests
        /\ ToSet(attempts) \subseteq Attempt
    <3>1. /\ pendingTaskOffers \in Seq([runner : knownRunners, offer : Offers])
          /\ pendingTaskRequests \in Seq(Requests) /\ attempts \in Seq(Attempt)
      BY DEF BrokerTypes
    <3>2. \A S : \A s \in Seq(S) : ToSet(s) \subseteq S
      BY ToSetType
    <3>3. QED
      BY <3>1, <3>2, Zenon
  <2>2. executed \in SUBSET Tasks
    BY AttemptTypes DEF RunnerTypes
  <2>3. QED
    BY <2>1, <2>2 DEF BrokerTypeOK, BrokerTypes, RunnerTypes, Attempt
<1>2. QED
  BY <1>1, BrokerInvariant, PTL

\* The open offers and the running tasks of a runner fit in its maxConcurrency, through
\* every order of offers, acceptances, cancellations, timeouts and results.
THEOREM CapacityRespected == BrokerSpec => []RunnerWithinCapacity
<1>1. BInv => RunnerWithinCapacity
  BY DEF BInv
<1>2. QED
  BY <1>1, BrokerInvariant, PTL

\* The broker never loses a request or a task that a caller of startTask waits for.
THEOREM JobsAreOwed == BrokerSpec => []JobIsOwed
<1>1. BInv => JobIsOwed
  BY DEF BInv, RequestsInv, RequestOK, JobIsOwed
<1>2. QED
  BY <1>1, BrokerInvariant, PTL

\* A task that the broker tracks on a live runner is at work there, or its result is
\* under way.
THEOREM BrokerTasksAreBacked == BrokerSpec => []BrokerTaskIsBacked
<1>1. BInv => BrokerTaskIsBacked
  <2> SUFFICES ASSUME BInv, NEW t \in tasks, process[attempts[t].runner] = "up"
               PROVE  \/ runningTasks[attempts[t].runner][t]
                            \in {"waitingForSettings", "running", "aborting:timeout"}
                      \/ \E m \in ToSet(toBroker[attempts[t].runner]) :
                            m.task = t /\ m.type \in {"taskdone", "taskerror"}
    BY DEF BrokerTaskIsBacked
  <2> DEFINE n == attempts[t].runner
  <2>1. t \in DOMAIN attempts /\ t \in Tasks /\ n \in Runners /\ Owns(n, t)
    BY AttemptTypes DEF BInv, BrokerTypes
  <2>2. TaskOK(n, t)
    BY <2>1 DEF BInv, TasksInv
  <2> HIDE DEF n
  <2>3. runningTasks[n][t] \in AtWork \/ Ended(n, t)
    BY <2>1, <2>2 DEF TaskOK, n
  <2>4. ASSUME Ended(n, t)
        PROVE  \E m \in ToSet(toBroker[n]) : m.task = t /\ m.type \in {"taskdone", "taskerror"}
    BY <2>4 DEF Ended, Has, EndTypes, ToSet
  <2>5. QED
    BY <2>3, <2>4 DEF AtWork, n
<1>2. QED
  BY <1>1, BrokerInvariant, PTL

\* Settings never find a task that is already running or being aborted: "These states
\* should never happen" in receivedSettings is right.
THEOREM SettingsAreExpected == BrokerSpec => []SettingsExpected
<1>1. BInv => SettingsExpected
  <2> SUFFICES ASSUME BInv, NEW n \in Runners, NEW m \in ToSet(toRunner[n]),
                      m.type = "tasksettings"
               PROVE  runningTasks[n][m.task] \in {"waitingForSettings", "none"}
    BY DEF SettingsExpected
  <2>1. toRunner[n] \in Seq(ToRunnerMsg)
    BY DEF BInv, ChannelTypes
  <2>2. m \in ToRunnerMsg
    BY <2>1, ToSetType
  <2>3. m.task \in Tasks
    BY <2>2, BrokerMessages
  <2>4. SettingsSent(n, m.task) /\ Mentions(toRunner[n], m.task)
    BY DEF ToSet, SettingsSent, Mentions, Has
  <2>5. TaskOK(n, m.task)
    BY <2>3, <2>4, OwnedTask
  <2>6. QED
    BY <2>4, <2>5 DEF TaskOK
<1>2. QED
  BY <1>1, BrokerInvariant, PTL

-----------------------------------------------------------------------------
(* The contract of startTask *)

Runs == [r \in Requests |-> Cardinality({t \in executed : attempts[t].request = r})]

\* The code of a request has run once if the task id it was given was started, and
\* otherwise never: no other task id of the request was ever sent the settings.
LEMMA RunsOnce ==
    ASSUME BInv, NEW r \in Requests
    PROVE  /\ Runs[r] = IF taskIdOf[r] \in executed THEN 1 ELSE 0
           /\ \A t \in executed : attempts[t].request = r => t = taskIdOf[r]
<1> DEFINE S == {t \in executed : attempts[t].request = r}
<1>1. ASSUME NEW t \in executed, attempts[t].request = r PROVE t = taskIdOf[r]
  <2>1. t \in DOMAIN attempts /\ t \in Tasks /\ attempts[t].runner \in Runners
        /\ Owns(attempts[t].runner, t)
    BY AttemptTypes DEF BInv, RunnerTypes
  <2>2. taskIdOf[attempts[t].request] = t
    BY <2>1 DEF BInv, GivenInv
  <2>3. QED
    BY <1>1, <2>2
<1>2. taskIdOf[r] \in executed => attempts[taskIdOf[r]].request = r
  <2>1. RequestOK(r)
    BY DEF BInv, RequestsInv
  <2>2. NoTask \notin executed
    BY AttemptTypes, TaskIds DEF BInv, RunnerTypes, NoTask, Tasks
  <2>3. QED
    BY <2>1, <2>2 DEF RequestOK
<1>3. S = IF taskIdOf[r] \in executed THEN {taskIdOf[r]} ELSE {}
  BY <1>1, <1>2
<1>4. Cardinality({}) = 0 /\ Cardinality({taskIdOf[r]}) = 1
  BY FS_EmptySet, FS_Singleton
<1>5. Runs[r] = Cardinality(S)
  BY DEF Runs
<1>6. QED
  BY <1>1, <1>3, <1>4, <1>5

RunsAreGiven == \A r \in Requests : Runs[r] = IF taskIdOf[r] \in executed THEN 1 ELSE 0

\* The same as a fact about every state, the next one included.
LEMMA GivenRuns == BInv => RunsAreGiven
BY RunsOnce DEF RunsAreGiven

\* A step that starts no code and gives out no task id leaves the runs alone.
LEMMA RunsKept ==
    ASSUME BInv, BInv',
           \A r \in Requests : taskIdOf'[r] \in executed' <=> taskIdOf[r] \in executed
    PROVE  Runs' = Runs
<1>1. RunsAreGiven /\ RunsAreGiven'
  BY GivenRuns, PTL
<1>2. ASSUME NEW r \in Requests PROVE Runs'[r] = Runs[r]
  BY <1>1 DEF RunsAreGiven
<1>3. QED
  BY <1>2 DEF Runs

\* What the callers can see of a step that answers none of them.
LEMMA QuietStep ==
    ASSUME BInv, BInv', UNCHANGED <<job, taskIdOf, executed>>
    PROVE  UNCHANGED Contract!contractVars
<1>1. Runs' = Runs
  BY RunsKept
<1>2. QED
  BY <1>1 DEF Contract!contractVars, Runs

\* Requests that move from one state to another while no code is started.
LEMMA MoveStep ==
    ASSUME Runs' = Runs, NEW S \in SUBSET Requests, NEW from, NEW to,
           \A r \in S : job[r] = from,
           \A r \in Requests : job'[r] = IF r \in S THEN to ELSE job[r],
           job' \in [Requests -> JobStates]
    PROVE  Contract!Settle(S, from, to)
<1>1. job' = [r \in Requests |-> IF r \in S THEN to ELSE job[r]]
  OBVIOUS
<1>2. QED
  BY <1>1 DEF Contract!Settle, Runs

\* The tasks that are answered were started, and their callers are told.
LEMMA AnswerStep ==
    ASSUME BInv, BInv', NEW ts \in SUBSET Tasks, NEW result \in {"done", "error"},
           Answer(ts, result), UNCHANGED executed
    PROVE  /\ Runs' = Runs
           /\ Contract!Settle({r \in Requests : job[r] = "started" /\ taskIdOf[r] \in ts}, "started", result)
<1> DEFINE S == {r \in Requests : job[r] = "started" /\ taskIdOf[r] \in ts}
<1>1. /\ taskIdOf' = taskIdOf
      /\ job' = [r \in Requests |->
                   IF job[r] = "started" /\ taskIdOf[r] \in ts THEN result ELSE job[r]]
  BY DEF Answer
<1>2. /\ \A r \in Requests : job'[r] = IF r \in S THEN result ELSE job[r]
      /\ \A r \in S : job[r] = "started"
      /\ job' \in [Requests -> JobStates]
  BY <1>1 DEF BInv, BrokerTypes
<1>3. Runs' = Runs
  BY <1>1, RunsKept
<1> HIDE DEF S
<1>4. S \in SUBSET Requests
  BY DEF S
<1>5. Contract!Settle(S, "started", result)
  BY <1>2, <1>3, <1>4, MoveStep
<1>6. QED
  BY <1>3, <1>5 DEF S

Refines == [Contract!ContractNext]_(Contract!contractVars)

\* startTask makes the request, or is refused at once.
LEMMA StartTaskRefines ==
    ASSUME BInv, BInv', NEW r \in Requests, StartTask(r)
    PROVE  Refines
<1>1. /\ job[r] = "idle" /\ UNCHANGED <<taskIdOf, executed>>
      /\ job' = [job EXCEPT ![r] = "expired"] \/ job' = [job EXCEPT ![r] = "requested"]
  BY DEF StartTask, runnerVars
<1>2. Runs' = Runs
  BY <1>1, RunsKept
<1>3. PICK to \in {"expired", "requested"} : job' = [job EXCEPT ![r] = to]
  BY <1>1
<1>4. /\ \A q \in Requests : job'[q] = IF q \in {r} THEN to ELSE job[q]
      /\ job' \in [Requests -> JobStates]
  BY <1>3 DEF BInv, BrokerTypes
<1>5. Contract!Settle({r}, "idle", to)
  BY <1>1, <1>2, <1>4, MoveStep
<1>6. QED
  BY <1>5 DEF Refines, Contract!ContractNext, Contract!MakeRequest

\* A timeout of the request expires it.
LEMMA RequestTimeoutRefines ==
    ASSUME BInv, BInv', NEW r \in Requests, RequestTimeout(r)
    PROVE  Refines
<1>1. /\ Withdraw(r) /\ UNCHANGED <<taskIdOf, executed>>
      /\ job' = [job EXCEPT ![r] = IF job[r] = "requested" THEN "expired" ELSE job[r]]
  BY DEF RequestTimeout, runnerVars
<1>2. job[r] = "requested"
  BY <1>1, WithdrawEffect DEF BInv, RequestsInv, RequestOK
<1>3. Runs' = Runs
  BY <1>1, RunsKept
<1>4. /\ \A q \in Requests : job'[q] = IF q \in {r} THEN "expired" ELSE job[q]
      /\ job' \in [Requests -> JobStates]
  BY <1>1, <1>2 DEF BInv, BrokerTypes
<1>5. Contract!Settle({r}, "requested", "expired")
  BY <1>2, <1>3, <1>4, MoveStep
<1>6. QED
  BY <1>5 DEF Refines, Contract!ContractNext, Contract!ExpireRequest

\* cancelTasks cancels a request that was started.
LEMMA CancelTaskRefines ==
    ASSUME BInv, BInv', NEW r \in Requests, CancelTask(r)
    PROVE  Refines
<1>1. /\ job[r] = "started" /\ UNCHANGED <<taskIdOf, executed>>
      /\ job' = [job EXCEPT ![r] = "cancelled"]
  BY DEF CancelTask, runnerVars
<1>2. Runs' = Runs
  BY <1>1, RunsKept
<1>3. /\ \A q \in Requests : job'[q] = IF q \in {r} THEN "cancelled" ELSE job[q]
      /\ job' \in [Requests -> JobStates]
  BY <1>1 DEF BInv, BrokerTypes
<1>4. Contract!Settle({r}, "started", "cancelled")
  BY <1>1, <1>2, <1>3, MoveStep
<1>5. QED
  BY <1>4 DEF Refines, Contract!ContractNext, Contract!CancelRequest

\* Whatever fails tasks, the loss of a runner or a timeout, fails the requests they
\* were made for.
LEMMA FailRefines ==
    ASSUME BInv, BInv', NEW ts \in SUBSET Tasks, Answer(ts, "error"), UNCHANGED executed
    PROVE  Refines
<1>1. \E S \in SUBSET Requests : Contract!Settle(S, "started", "error")
  BY AnswerStep
<1>2. QED
  BY <1>1 DEF Refines, Contract!ContractNext, Contract!Fail

\* A result is passed on for code that ran; without a caller it changes nothing.
LEMMA TaskResultRefines ==
    ASSUME BInv, BInv', NEW n \in Runners, TaskResult(n)
    PROVE  Refines
<1> DEFINE m == Head(toBroker[n])
           ts == {m.task} \cap tasks
<1>1. /\ FromRunner(n, {"taskdone", "taskerror"}) /\ UNCHANGED executed
      /\ Answer(ts, IF m.type = "taskdone" THEN "done" ELSE "error")
  BY DEF TaskResult, runnerVars
<1>2. /\ m.type \in {"taskdone", "taskerror"}
      /\ m.type # "taskoffer" =>
            /\ m.task \in Tasks /\ m.task \in DOMAIN attempts /\ TaskOK(n, m.task)
            /\ m.type = "taskdone" => EndedWell(n, m.task)
  BY <1>1, BrokerReceives
<1> HIDE DEF m
<1>3. ts \in SUBSET Tasks
  BY <1>2
<1>4. CASE m.type = "taskerror"
  <2>1. Answer(ts, "error")
    BY <1>1, <1>4
  <2> HIDE DEF ts
  <2>2. QED
    BY <1>1, <1>3, <2>1, FailRefines
<1>5. CASE m.type = "taskdone"
  <2>1. Answer(ts, "done") /\ m.task \in executed
    BY <1>1, <1>2, <1>5 DEF TaskOK
  <2> DEFINE r == attempts[m.task].request
             S == {q \in Requests : job[q] = "started" /\ taskIdOf[q] \in ts}
  <2>2. Runs' = Runs /\ Contract!Settle(S, "started", "done")
    BY <1>1, <1>3, <2>1, AnswerStep
  <2>3. r \in Requests /\ taskIdOf[r] = m.task
    <3>1. r \in Requests /\ attempts[m.task].request = r
      BY <1>2, <1>5, AttemptTypes DEF BInv
    <3> HIDE DEF r
    <3>2. QED
      BY <2>1, <3>1, RunsOnce
  <2>4. ASSUME NEW q \in S PROVE q = r
    <3>1. RequestOK(q) /\ taskIdOf[q] = m.task
      BY <2>4 DEF BInv, RequestsInv
    <3>2. m.task # NoTask
      BY <1>2, <1>5, TaskIds DEF NoTask, Tasks
    <3>3. QED
      BY <3>1, <3>2 DEF RequestOK
  <2>5. Runs[r] = 1
    BY <2>1, <2>3, RunsOnce
  <2> HIDE DEF r
  <2>6. CASE S = {}
    <3>1. job' = job
      BY <2>2, <2>6 DEF Contract!Settle, BInv, BrokerTypes
    <3>2. UNCHANGED <<job, taskIdOf, executed>>
      BY <1>1, <3>1, <2>1 DEF Answer
    <3>3. QED
      BY <3>2, QuietStep DEF Refines
  <2>7. CASE S # {}
    <3>1. S = {r}
      BY <2>4, <2>7
    <3> HIDE DEF S
    <3>2. Contract!ReturnResult(r)
      BY <2>2, <2>5, <3>1 DEF Contract!ReturnResult, Runs
    <3>3. QED
      BY <2>3, <3>2 DEF Refines, Contract!ContractNext
  <2>8. QED
    BY <2>6, <2>7
<1>6. QED
  BY <1>2, <1>4, <1>5

\* An acceptance gives the request to the runner if it is still pending, and is unseen
\* otherwise; the code of the task has not been started.
LEMMA RunnerAcceptsRefines ==
    ASSUME BInv, BInv', NEW n \in Runners, RunnerAccepts(n)
    PROVE  Refines
<1> DEFINE t == Head(toBroker[n]).task
           r == attempts[t].request
<1>1. FromRunner(n, {"taskaccepted"}) /\ UNCHANGED executed
  BY DEF RunnerAccepts, runnerVars
<1>2. \/ UNCHANGED requesterVars
      \/ /\ Withdraw(r)
         /\ job' = [job EXCEPT ![r] = "started"]
         /\ taskIdOf' = [taskIdOf EXCEPT ![r] = t]
  BY Zenon DEF RunnerAccepts
<1>3. t \in Tasks /\ t \in DOMAIN attempts /\ TaskOK(n, t) /\ Replied(n, t)
  <2> DEFINE m == Head(toBroker[n])
  <2>1. /\ m.type \in {"taskaccepted"}
        /\ m.type # "taskoffer" =>
              /\ m.task \in Tasks /\ m.task \in DOMAIN attempts /\ TaskOK(n, m.task)
              /\ m.type = "taskaccepted" => Replied(n, m.task)
    BY <1>1, BrokerReceives
  <2> HIDE DEF m
  <2>2. m.type = "taskaccepted"
    BY <2>1
  <2>3. m.task \in Tasks /\ m.task \in DOMAIN attempts /\ TaskOK(n, m.task) /\ Replied(n, m.task)
    BY <2>1, <2>2
  <2>4. QED
    BY <2>3 DEF m
<1> HIDE DEF t
<1>4. CASE UNCHANGED requesterVars
  BY <1>1, <1>4, QuietStep DEF requesterVars, Refines
<1>5. CASE /\ Withdraw(r)
           /\ job' = [job EXCEPT ![r] = "started"]
           /\ taskIdOf' = [taskIdOf EXCEPT ![r] = t]
  <2>1. r \in Requests /\ job[r] = "requested" /\ taskIdOf[r] = NoTask
    <3> HIDE DEF r
    <3>1. QED
      BY <1>5, WithdrawEffect DEF BInv, RequestsInv, RequestOK
  <2> HIDE DEF r
  <2>2. t \notin executed /\ NoTask \notin executed
    BY <1>3, AttemptTypes, TaskIds DEF TaskOK, BInv, RunnerTypes, NoTask, Tasks
  <2>3. \A q \in Requests : taskIdOf'[q] = IF q = r THEN t ELSE taskIdOf[q]
    BY <1>5 DEF BInv, BrokerTypes
  <2>4. Runs' = Runs
    BY <1>1, <2>1, <2>2, <2>3, RunsKept
  <2>5. /\ \A q \in Requests : job'[q] = IF q \in {r} THEN "started" ELSE job[q]
        /\ job' \in [Requests -> JobStates]
    BY <1>5 DEF BInv, BrokerTypes
  <2>6. Contract!Settle({r}, "requested", "started")
    BY <2>1, <2>4, <2>5, MoveStep
  <2>7. QED
    BY <2>1, <2>6 DEF Refines, Contract!ContractNext, Contract!GiveToRunner
<1>6. QED
  BY <1>2, <1>4, <1>5

\* The settings start the code of a request that was given to a runner, for the first
\* and only time.
LEMMA ReceivedSettingsRefines ==
    ASSUME BInv, BInv', NEW n \in Runners, ReceivedSettings(n)
    PROVE  Refines
<1> DEFINE t == Head(toRunner[n]).task
           r == attempts[t].request
<1>1. /\ FromBroker(n, "tasksettings") /\ UNCHANGED brokerAllVars
      /\ executed' = executed \cup {t} \/ UNCHANGED executed
  BY DEF ReceivedSettings
<1>2. UNCHANGED <<job, taskIdOf>>
  BY <1>1 DEF brokerAllVars, requesterVars
<1>3. t \in Tasks /\ t \in DOMAIN attempts /\ Owns(n, t) /\ TaskOK(n, t) /\ SettingsSent(n, t)
  BY <1>1, RunnerReceives
<1> HIDE DEF t
<1>4. CASE UNCHANGED executed
  BY <1>2, <1>4, QuietStep DEF Refines
<1>5. CASE executed' = executed \cup {t}
  <2>1. r \in Requests /\ taskIdOf[r] = t /\ t \notin executed
    BY <1>3, AttemptTypes DEF BInv, GivenInv, TaskOK
  <2> HIDE DEF r
  <2>2. t # NoTask
    BY <1>3, TaskIds DEF NoTask, Tasks
  <2>3. job[r] \in {"started", "error", "cancelled"}
    <3>1. RequestOK(r) /\ job[r] \in JobStates
      BY <2>1 DEF BInv, RequestsInv, BrokerTypes
    <3>2. QED
      BY <2>1, <2>2, <3>1 DEF RequestOK, JobStates
  <2>4. ASSUME NEW q \in Requests, taskIdOf[q] = t PROVE q = r
    <3>1. RequestOK(q) /\ RequestOK(r)
      BY <2>1 DEF BInv, RequestsInv
    <3>2. QED
      BY <2>1, <2>2, <2>4, <3>1 DEF RequestOK
  <2>5. RunsAreGiven /\ RunsAreGiven'
    BY GivenRuns, PTL
  <2>6. \A q \in Requests : Runs'[q] = IF q = r THEN 1 ELSE Runs[q]
    BY <1>2, <1>5, <2>1, <2>4, <2>5 DEF RunsAreGiven
  <2>7. Runs[r] = 0 /\ Runs' = [Runs EXCEPT ![r] = 1]
    <3>1. Runs[r] = 0
      BY <2>1, <2>5 DEF RunsAreGiven
    <3>2. Runs' = [q \in Requests |-> Runs'[q]] /\ Runs = [q \in Requests |-> Runs[q]]
      BY DEF Runs
    <3> HIDE DEF Runs
    <3>3. QED
      BY <2>6, <3>1, <3>2
  <2>8. Contract!RunCode(r)
    BY <1>2, <2>3, <2>7 DEF Contract!RunCode, Runs
  <2>9. QED
    BY <2>1, <2>8 DEF Refines, Contract!ContractNext
<1>6. QED
  BY <1>1, <1>4, <1>5

\* Every step of broker, requester or runner is a step of the contract, or unseen.
LEMMA ContractStep == BInv /\ BInv' /\ [BrokerNext]_vars => [Contract!ContractNext]_(Contract!contractVars)
<1> SUFFICES ASSUME BInv, BInv', [BrokerNext]_vars PROVE Refines
  BY DEF Refines
<1>1. ASSUME UNCHANGED <<job, taskIdOf, executed>> PROVE Refines
  BY <1>1, QuietStep DEF Refines
<1>2. ASSUME NEW r \in Requests, RequesterStep(r) PROVE Refines
  BY <1>2, StartTaskRefines, CancelTaskRefines, RequestTimeoutRefines, Zenon DEF RequesterStep
<1>3. ASSUME NEW n \in Runners, OnRunnerMessage(n) PROVE Refines
  <2>1. CASE RunnerAccepts(n)
    BY <2>1, RunnerAcceptsRefines
  <2>2. CASE TaskResult(n)
    BY <2>2, TaskResultRefines
  <2>3. CASE TaskOffered(n)
    BY <1>1, <2>3 DEF TaskOffered, requesterVars, runnerVars
  <2>4. CASE RunnerRejects(n)
    BY <1>1, <2>4 DEF RunnerRejects, requesterVars, runnerVars
  <2>5. CASE IgnoreMessage(n)
    BY <1>1, <2>5 DEF IgnoreMessage, brokerAllVars, requesterVars, runnerVars
  <2>6. QED
    BY <1>3, <2>1, <2>2, <2>3, <2>4, <2>5, Zenon DEF OnRunnerMessage
<1>4. ASSUME NEW n \in Runners, OnMessage(n) PROVE Refines
  <2>1. CASE ReceivedSettings(n)
    BY <2>1, ReceivedSettingsRefines
  <2>2. CASE StartTaskOffers(n)
    BY <1>1, <2>2 DEF StartTaskOffers, brokerAllVars, requesterVars
  <2>3. CASE OfferAccepted(n)
    BY <1>1, <2>3 DEF OfferAccepted, brokerAllVars, requesterVars
  <2>4. CASE TaskCancelled(n)
    BY <1>1, <2>4 DEF TaskCancelled, brokerAllVars, requesterVars
  <2>5. CASE OnBrokerDrain(n)
    BY <1>1, <2>5 DEF OnBrokerDrain, brokerAllVars, requesterVars
  <2>6. QED
    BY <1>4, <2>1, <2>2, <2>3, <2>4, <2>5, Zenon DEF OnMessage
<1>5. ASSUME NEW n \in Runners, DeregisterRunner(n) PROVE Refines
  <2> DEFINE ts == {t \in tasks : attempts[t].runner = n}
  <2>1. Answer(ts, "error") /\ UNCHANGED executed
    BY <1>5 DEF DeregisterRunner, runnerVars
  <2>2. ts \in SUBSET Tasks
    BY AttemptTypes DEF BInv, BrokerTypes
  <2> HIDE DEF ts
  <2>3. QED
    BY <2>1, <2>2, FailRefines
<1>6. ASSUME NEW n \in Runners,
             RegisterRunner(n) \/ SendOffers(n) \/ StopRunner(n) \/ RunnerExits(n)
      PROVE  Refines
  <2>1. CASE RegisterRunner(n)
    BY <1>1, <2>1 DEF RegisterRunner, requesterVars
  <2>2. CASE SendOffers(n)
    BY <1>1, <2>2 DEF SendOffers, brokerAllVars, requesterVars
  <2>3. CASE StopRunner(n)
    BY <1>1, <2>3 DEF StopRunner, brokerAllVars, requesterVars
  <2>4. CASE RunnerExits(n)
    BY <1>1, <2>4 DEF RunnerExits, brokerAllVars, requesterVars
  <2>5. QED
    BY <1>6, <2>1, <2>2, <2>3, <2>4
<1>7. ASSUME NEW n \in Runners, NEW t \in Tasks, TaskEnds(n, t) \/ TaskTimedOut(n, t) PROVE Refines
  BY <1>1, <1>7 DEF TaskEnds, TaskTimedOut, brokerAllVars, requesterVars
<1>8. ASSUME NEW t \in Tasks, AcceptTimeout(t) \/ TaskTimeout(t) PROVE Refines
  <2>1. CASE AcceptTimeout(t)
    BY <1>1, <2>1 DEF AcceptTimeout, requesterVars, runnerVars
  <2>2. CASE TaskTimeout(t)
    <3>1. Answer({t}, "error") /\ UNCHANGED executed
      BY <2>2 DEF TaskTimeout
    <3>2. QED
      BY <3>1, FailRefines
  <2>3. QED
    BY <1>8, <2>1, <2>2
<1>9. ASSUME StartDraining PROVE Refines
  BY <1>1, <1>9 DEF StartDraining, requesterVars, runnerVars
<1>10. ASSUME UNCHANGED vars PROVE Refines
  BY <1>1, <1>10 DEF vars, brokerAllVars, requesterVars, runnerVars
<1>11. QED
  BY <1>2, <1>3, <1>4, <1>5, <1>6, <1>7, <1>8, <1>9, <1>10, Zenon DEF BrokerNext

\* Broker, requester and runners keep the contract of startTask, for any number of
\* requests and runners: one answer, code started at most once and only after the
\* request was given to a runner, a result only from code that ran, and nothing run for
\* a request that was reported as expired.
THEOREM ContractKept == BrokerSpec => KeepsContract
<1>1. BrokerInit => Contract!ContractInit
  <2> SUFFICES ASSUME BrokerInit PROVE Contract!ContractInit
    OBVIOUS
  <2>1. job = [r \in Requests |-> "idle"] /\ executed = {}
    BY DEF BrokerInit
  <2>2. \A r \in Requests : {t \in executed : attempts[t].request = r} = {}
    BY <2>1
  <2>3. Runs = [r \in Requests |-> 0]
    BY <2>2, FS_EmptySet DEF Runs
  <2>4. QED
    BY <2>1, <2>3 DEF Contract!ContractInit, Runs
<1>2. BInv /\ BInv' /\ [BrokerNext]_vars => [Contract!ContractNext]_(Contract!contractVars)
  BY ContractStep
<1>3. QED
  BY <1>1, <1>2, BrokerInvariant, PTL DEF BrokerSpec, KeepsContract, Contract!ContractSpec

=============================================================================
