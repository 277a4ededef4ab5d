---------------------- MODULE PublicationOutbox_proofs ----------------------
(***************************************************************************)
(* The publication outbox proved for any number of mains, workflows,       *)
(* changes, terms and faults: the types, DemotedIsQuiet,                   *)
(* SettledIsPublished and PublishedInOrder.                                *)
(*                                                                         *)
(* None of the three is inductive.  What keeps a demoted main quiet is the *)
(* lifecycle lock: a drain in its critical section heads the queue of the  *)
(* lock (LockInv), so that a teardown loop passes the workflow only after  *)
(* it (CriticalInv).  What keeps versions in order are the rows: while no  *)
(* lease is overrun, one main at a time works on a workflow, its row is    *)
(* still in progress, and published, row in progress and pending row are   *)
(* in order (OrderInv, RowInv).  That a settled workflow is what users     *)
(* asked for takes the progress of a drain through its steps (StageInv),   *)
(* the rows that a new leader has enqueued for what its predecessor is     *)
(* still applying (HandoverInv), and the triggers of the leader compared   *)
(* with the published version at each of those steps (LocalInv).           *)
(*                                                                         *)
(* The proof takes one conjunct at a time, and under it one action at a    *)
(* time; first come lemmas on what each action does to the state.          *)
(***************************************************************************)
EXTENDS PublicationOutbox, SequenceLemmas

-----------------------------------------------------------------------------
(* The invariant *)

\* What the tables say: versions are counted, the row of a workflow and its
\* published version never exceed the versions there are.
VersionInv ==
    /\ \A w \in Workflows :
          /\ active[w] \in {0, latest[w]}
          /\ latest[w] <= changes
          /\ published[w] <= latest[w]
    /\ \A r \in rows : r.v <= latest[r.w]
    /\ \A h \in Hosts : drain[h].step # "idle" => drain[h].v <= latest[drain[h].w]

\* A term belongs to one main, and so do its loop and its takeover handler.
TermInv ==
    /\ leader # NoHost => term \in Terms /\ led[term] = leader
    /\ \A k \in Terms : k > term => led[k] = NoHost
    /\ \A k \in Terms : taking[k] => led[k] \in Hosts
    /\ \A k \in Terms : loop[k].step # "idle" => led[k] \in Hosts /\ loop[k].at \in Workflows

Critical == {"resolve", "remove", "advance", "add", "removeAll", "unmap", "report"}

\* The drain of h is in the critical section of processRecord.
InCritical(h) == drain[h].step \in Critical

\* Who waits is in the queue of the lock, who is in the critical section heads it.
LockInv ==
    /\ \A k \in Terms : loop[k].step = "locking" => k \in ToSet(lock[led[k]][loop[k].at])
    /\ \A h \in Hosts : drain[h].step # "idle" => drain[h].w \in Workflows
    /\ \A h \in Hosts : drain[h].step = "waiting" => Drain \in ToSet(lock[h][drain[h].w])
    /\ \A h \in Hosts : InCritical(h) =>
          lock[h][drain[h].w] # <<>> /\ Head(lock[h][drain[h].w]) = Drain

\* A loop of h will not pass w before it has had the lock of w.
WillWait(h, w) ==
    \E k \in Terms :
        /\ led[k] = h
        /\ \/ loop[k].step = "locking" /\ w \in loop[k].todo \cup {loop[k].at}
           \/ loop[k].step = "forced" /\ w \in loop[k].todo

\* A drain that lost leadership in its critical section has a teardown behind it.
CriticalInv ==
    \A h \in Hosts : InCritical(h) /\ leader # h =>
        WillWait(h, drain[h].w) \/ Excused(h, drain[h].w, {"forced", "aborted"})

Overrun(w) == \E h \in Hosts : Excused(h, w, {"overrun"})

Busy(h, w) == drain[h].step # "idle" /\ drain[h].w = w

\* The row that the drain of h works on is in progress and has its version.
HasRow(h) ==
    \E r \in rows : /\ r.w = drain[h].w /\ r.id = drain[h].id /\ r.v = drain[h].v
                    /\ r.status = "in_progress"

\* Unless a row was claimed over: one main at a time works on a workflow, and
\* versions come in order, the published one, that in progress, the pending one.
OrderInv ==
    \A w \in Workflows : ~Overrun(w) =>
        /\ \A r \in rows : r.w = w => published[w] <= r.v
        /\ \A q, r \in rows : q.w = w /\ r.w = w /\ q.status = "in_progress"
                              /\ r.status = "pending" => q.v <= r.v
        /\ \A h \in Hosts : Busy(h, w) => HasRow(h)
        /\ \A h, i \in Hosts : Busy(h, w) /\ Busy(i, w) => h = i

NoPending(w) == \A r \in rows : r.w = w => r.status # "pending"

\* The newest row of a workflow names its newest version.
RowInv ==
    \A r \in rows :
        /\ r.v # 0
        /\ r.status = "pending" \/ NoPending(r.w) => r.v = latest[r.w]

Failed(w) == \E h \in Hosts : Excused(h, w, {"failed"})

\* How far the drain of h has brought the tables towards what users want.
Progress(h) ==
    LET d == drain[h] IN
    /\ d.step = "remove" => d.add
    /\ d.step = "add" => published[d.w] = d.v
    /\ NoPending(d.w) =>
          /\ d.step \in {"remove", "advance", "add"} => active[d.w] = d.v
          /\ d.step \in {"removeAll", "unmap"} => active[d.w] = 0
          /\ d.step = "report" /\ ~Failed(d.w) => published[d.w] = active[d.w]

StageInv ==
    /\ \A w \in Workflows : ~Overrun(w) /\ ~Failed(w) /\ (\A r \in rows : r.w # w) =>
          published[w] = active[w]
    /\ \A h \in Hosts : ~Overrun(drain[h].w) => Progress(h)

\* Nothing but the drain of h decides which trigger of w is registered.
Sound(h, w) ==
    /\ ~TeardownOwed(h, w) /\ ~Overrun(w)
    /\ ~Excused(h, w, {"forced", "aborted", "recovered"})

\* And nothing went wrong with it.
Clean(h, w) ==
    /\ Sound(h, w) /\ ~Excused(h, w, {"regained"}) /\ ~Failed(w)
    /\ \A t \in recovering : t[1] # h \/ t[2] # w

\* How far the drain of the leader has brought its triggers.
Registers(h, w) ==
    LET d == drain[h] IN
    /\ d.step = "advance" => registered[h][w] \in {0, d.v}
    /\ d.step = "unmap" => registered[h][w] = 0
    /\ Clean(h, w) =>
          /\ d.step = "advance" /\ ~d.add => registered[h][w] = d.v
          /\ d.step = "report" => registered[h][w] = published[w]

Local(h, w) ==
    /\ registered[h][w] \in {0, published[w]}
    /\ \A i \in Hosts \ {h} : InCritical(i) /\ drain[i].w = w => registered[h][w] = 0
    /\ drain[h].w = w => Registers(h, w)
    /\ Clean(h, w) /\ (\A r \in rows : r.w # w) /\ (\A k \in Terms : led[k] = h => ~taking[k]) =>
          registered[h][w] = published[w]

\* The triggers of the leader are those of the published version, or none yet.
LocalInv == \A h \in Hosts, w \in Workflows : leader = h /\ Sound(h, w) => Local(h, w)

\* What a former leader is still about to apply, the new one has enqueued again.
HandoverInv ==
    \A h \in Hosts :
        (/\ InCritical(h) /\ leader \notin {h, NoHost} /\ ~taking[term]
         /\ NoPending(drain[h].w) /\ ~Overrun(drain[h].w)) => active[drain[h].w] = 0

LoopType == [step : LoopSteps, at : Workflows \cup {NoWorkflow},
             todo : SUBSET Workflows, second : BOOLEAN]

DrainType == [step : DrainSteps, id : Nat, w : Workflows \cup {NoWorkflow},
              v : Versions, add : BOOLEAN]

-----------------------------------------------------------------------------
(* What the operators do *)

\* A row that is pending afterwards for a workflow of W names its version; the
\* other rows are those there were.
UpsertResult(W, version) ==
    /\ \A r \in rows' :
          \/ r.w \in W /\ r.status = "pending" /\ r.v = version[r.w]
          \/ r \in rows /\ (r.status = "in_progress" \/ r.w \notin W)
    /\ \A r \in rows : r.status = "in_progress" \/ r.w \notin W => r \in rows'
    /\ \A w \in W : \E r \in rows' : r.w = w /\ r.status = "pending"

RowsDistinct == \A q, r \in rows : q.w = r.w /\ q.status = r.status => q = r

\* The upsert supersedes the pending row of a workflow, or adds one.
LEMMA UpsertEffect ==
    ASSUME PubTypeOK, NEW W \in SUBSET Workflows, NEW version,
           \A w \in W : version[w] \in Versions, Upserts(W, version)
    PROVE  /\ rows' \subseteq Row /\ RowsDistinct' /\ nextId' \in [Workflows -> Nat]
           /\ UpsertResult(W, version)
<1> DEFINE new == {w \in W : RowsOf(w, "pending") = {}}
           Fresh(w) == [id |-> nextId[w], w |-> w, v |-> version[w], status |-> "pending"]
           Kept(r) == IF r.status = "pending" /\ r.w \in W
                      THEN [r EXCEPT !.v = version[r.w]] ELSE r
<1>1. /\ rows \subseteq Row /\ RowsDistinct /\ nextId \in [Workflows -> Nat]
  BY DEF PubTypeOK, RowsDistinct
<1>2. /\ rows' = {Kept(r) : r \in rows} \cup {Fresh(w) : w \in new}
      /\ nextId' = [w \in Workflows |-> IF w \in new THEN nextId[w] + 1 ELSE nextId[w]]
  BY DEF Upserts
<1>3. ASSUME NEW r \in rows
      PROVE  /\ Kept(r) \in Row /\ Kept(r).w = r.w /\ Kept(r).status = r.status
             /\ Kept(r).v = IF r.status = "pending" /\ r.w \in W THEN version[r.w] ELSE r.v
             /\ ~(r.status = "pending" /\ r.w \in W) => Kept(r) = r
  BY <1>1 DEF Row
<1>4. ASSUME NEW w \in new
      PROVE  /\ Fresh(w) \in Row /\ Fresh(w).w = w /\ Fresh(w).status = "pending"
             /\ Fresh(w).v = version[w] /\ w \in W
             /\ \A r \in rows : r.w = w => r.status # "pending"
  BY <1>1 DEF Row, RowsOf
<1> HIDE DEF Kept, Fresh, new
<1>5. rows' \subseteq Row
  BY <1>2, <1>3, <1>4
<1>6. RowsDistinct'
  <2>1. SUFFICES ASSUME NEW q \in rows', NEW r \in rows', q.w = r.w, q.status = r.status
                 PROVE  q = r
    BY DEF RowsDistinct
  <2>2. (\E x \in rows : q = Kept(x)) \/ (\E w \in new : q = Fresh(w))
    BY <1>2
  <2>3. (\E x \in rows : r = Kept(x)) \/ (\E w \in new : r = Fresh(w))
    BY <1>2
  <2>4. QED
    BY <1>1, <1>3, <1>4, <2>1, <2>2, <2>3 DEF RowsDistinct
<1>7. nextId' \in [Workflows -> Nat]
  BY <1>1, <1>2
<1>8. ASSUME NEW r \in rows'
      PROVE  \/ r.w \in W /\ r.status = "pending" /\ r.v = version[r.w]
             \/ r \in rows /\ (r.status = "in_progress" \/ r.w \notin W)
  <2>1. ASSUME NEW x \in rows PROVE x.status \in {"pending", "in_progress"}
    BY <1>1 DEF Row
  <2>2. QED
    BY <1>2, <1>3, <1>4, <2>1
<1>9. ASSUME NEW r \in rows, r.status = "in_progress" \/ r.w \notin W PROVE r \in rows'
  BY <1>2, <1>3, <1>9
<1>10. ASSUME NEW w \in W PROVE \E r \in rows' : r.w = w /\ r.status = "pending"
  <2>1. CASE w \in new
    BY <1>2, <1>4, <2>1
  <2>2. CASE w \notin new
    <3>1. PICK x \in rows : x.w = w /\ x.status = "pending"
      BY <2>2 DEF new, RowsOf
    <3>2. QED
      BY <1>2, <1>3, <3>1
  <2>3. QED
    BY <2>1, <2>2
<1>11. QED
  BY <1>5, <1>6, <1>7, <1>8, <1>9, <1>10 DEF UpsertResult

\* What the assumptions on the constants give.
LEMMA ConstantFacts ==
    /\ MaxChanges \in Nat /\ MaxTerms \in Nat /\ MaxFaults \in Nat
    /\ Versions \subseteq Nat /\ 0 \in Versions
    /\ Terms \subseteq Nat /\ Terms \subseteq LockOwners
    /\ Drain \in LockOwners /\ Drain \notin Terms
    /\ NoHost \notin Hosts /\ NoWorkflow \notin Workflows
<1>1. /\ MaxChanges \in Nat /\ MaxTerms \in Nat /\ MaxFaults \in Nat
      /\ NoHost \notin Hosts /\ NoWorkflow \notin Workflows
  BY OutboxAssumption
<1>2. Versions \subseteq Nat /\ 0 \in Versions
  BY <1>1 DEF Versions
<1>3. /\ Terms \subseteq Nat /\ Terms \subseteq LockOwners
      /\ Drain \in LockOwners /\ Drain \notin Terms
  BY <1>1 DEF Terms, LockOwners, Drain
<1>4. QED
  BY <1>1, <1>2, <1>3

\* What it means for the loop of term k on h to go on with the workflows todo:
\* it asks for the lock of one of them, and takes nobody's place in a lock.
GoneOn(k, h, todo, lk) ==
    /\ loop' = [loop EXCEPT ![k] = loop'[k]] /\ loop'[k] \in LoopType
    /\ lock' = [lock EXCEPT ![h] = lock'[h]]
    /\ lock'[h] \in [Workflows -> Seq(LockOwners)]
    /\ \/ todo = {} /\ loop'[k] = NoLoop
       \/ /\ loop'[k].step = "locking"
          /\ loop'[k].at \in todo /\ loop'[k].todo = todo \ {loop'[k].at}
          /\ k \in ToSet(lock'[h][loop'[k].at])
    /\ \A w \in Workflows :
          /\ ToSet(lk[w]) \subseteq ToSet(lock'[h][w])
          /\ lk[w] # <<>> => lock'[h][w] # <<>> /\ Head(lock'[h][w]) = Head(lk[w])

\* The teardown loop goes on, or ends.
LEMMA GoOnEffect ==
    ASSUME PubTypeOK, NEW k \in Terms, NEW h \in Hosts, NEW todo \in SUBSET Workflows,
           NEW second \in BOOLEAN, NEW lk \in [Workflows -> Seq(LockOwners)],
           GoOn(k, h, todo, second, lk)
    PROVE  GoneOn(k, h, todo, lk)
<1>1. loop \in [Terms -> LoopType] /\ lock \in [Hosts -> [Workflows -> Seq(LockOwners)]]
  BY DEF PubTypeOK, LoopType
<1>2. CASE todo = {}
  <2>1. loop' = [loop EXCEPT ![k] = NoLoop] /\ lock' = [lock EXCEPT ![h] = lk]
    BY <1>2 DEF GoOn
  <2>2. NoLoop \in LoopType
    BY DEF NoLoop, LoopType, LoopSteps
  <2>3. QED
    BY <1>1, <1>2, <2>1, <2>2 DEF GoneOn
<1>3. CASE todo # {}
  <2> DEFINE free == {w \in todo : lk[w] = <<>>}
             next == IF free # {} /\ ~second THEN free ELSE todo
             l(w) == [step |-> "locking", at |-> w, todo |-> todo \ {w},
                      second |-> second \/ free = {}]
             nl(w) == [lk EXCEPT ![w] = Append(@, k)]
  <2>1. PICK w \in next : /\ loop' = [loop EXCEPT ![k] = l(w)]
                          /\ lock' = [lock EXCEPT ![h] = nl(w)]
    BY <1>3 DEF GoOn
  <2>2. w \in todo /\ w \in Workflows /\ lk[w] \in Seq(LockOwners) /\ k \in LockOwners
    BY DEF LockOwners
  <2>3. /\ Append(lk[w], k) \in Seq(LockOwners) /\ Append(lk[w], k) # <<>>
        /\ ToSet(Append(lk[w], k)) = ToSet(lk[w]) \cup {k}
        /\ lk[w] # <<>> => Head(Append(lk[w], k)) = Head(lk[w])
    BY <2>2, ToSetAppend
  <2>4. (second \/ free = {}) \in BOOLEAN
    BY Zenon
  <2>5. l(w) \in LoopType /\ l(w).step = "locking" /\ l(w).at = w /\ l(w).todo = todo \ {w}
    BY <2>2, <2>4 DEF LoopType, LoopSteps
  <2>6. nl(w) \in [Workflows -> Seq(LockOwners)]
    BY <2>2, <2>3
  <2>7. loop'[k] = l(w) /\ lock'[h] = nl(w)
    BY <1>1, <2>1
  <2>8. ASSUME NEW x \in Workflows
        PROVE  /\ ToSet(lk[x]) \subseteq ToSet(nl(w)[x])
               /\ lk[x] # <<>> => nl(w)[x] # <<>> /\ Head(nl(w)[x]) = Head(lk[x])
    <3>1. CASE x = w
      BY <2>2, <2>3, <3>1
    <3>2. CASE x # w
      BY <2>2, <3>2
    <3>3. QED
      BY <3>1, <3>2
  <2>9. k \in ToSet(nl(w)[w])
    BY <2>2, <2>3
  <2> HIDE DEF l, nl, free, next
  <2>10. QED
    BY <2>1, <2>2, <2>5, <2>6, <2>7, <2>8, <2>9 DEF GoneOn
<1>4. QED
  BY <1>2, <1>3

PInv ==
    /\ PubTypeOK /\ VersionInv /\ TermInv /\ LockInv /\ CriticalInv /\ DemotedIsQuiet
    /\ RowInv /\ OrderInv /\ StageInv /\ LocalInv /\ HandoverInv

-----------------------------------------------------------------------------
(* Types *)

\* PubTypeOK in three parts: the tables, who leads, and the memory of the mains.
TablesOK ==
    /\ active \in [Workflows -> Versions]
    /\ latest \in [Workflows -> Versions]
    /\ published \in [Workflows -> Versions]
    /\ rows \subseteq Row /\ RowsDistinct
    /\ nextId \in [Workflows -> Nat]
    /\ changes \in 0 .. MaxChanges

LeadershipOK ==
    /\ leader \in Hosts \cup {NoHost}
    /\ term \in 0 .. MaxTerms
    /\ led \in [Terms -> Hosts \cup {NoHost}]
    /\ taking \in [Terms -> BOOLEAN]
    /\ polling \in [Hosts -> BOOLEAN]

MemoryOK ==
    /\ drain \in [Hosts -> DrainType]
    /\ lock \in [Hosts -> [Workflows -> Seq(LockOwners)]]
    /\ loop \in [Terms -> LoopType]
    /\ registered \in [Hosts -> [Workflows -> Versions]]
    /\ recovering \subseteq Hosts \X Workflows \X Versions
    /\ faults \in 0 .. MaxFaults
    /\ amiss \subseteq Hosts \X Workflows \X Reasons

\* The three parts are PubTypeOK.
LEMMA TypeParts == PubTypeOK <=> TablesOK /\ LeadershipOK /\ MemoryOK
BY DEF PubTypeOK, TablesOK, LeadershipOK, MemoryOK, RowsDistinct, DrainType, LoopType

\* The tables keep their types.
LEMMA TablesStep ==
    ASSUME PInv, [PubNext]_poVars
    PROVE  TablesOK'
<1> USE DEF tables
<1>0. TablesOK /\ MemoryOK /\ LockInv /\ PubTypeOK /\ MaxChanges \in Nat /\ 0 \in Versions
  BY TypeParts, ConstantFacts DEF PInv
<1>1. ASSUME NEW w \in Workflows, Publish(w) PROVE TablesOK'
  <2>1. latest[w] + 1 \in Versions /\ latest[w] \in Nat
    BY <1>0, <1>1 DEF PInv, VersionInv, TablesOK, Versions, Publish, Change
  <2>2. rows' \subseteq Row /\ RowsDistinct' /\ nextId' \in [Workflows -> Nat]
    <3> DEFINE version == [x \in {w} |-> latest[w] + 1]
    <3>1. Upserts({w}, version)
      BY <1>1 DEF Publish, Enqueue
    <3>2. \A x \in {w} : version[x] \in Versions
      BY <2>1
    <3> HIDE DEF version
    <3>3. QED
      BY <1>0, <3>1, <3>2, UpsertEffect
  <2>3. changes' \in 0 .. MaxChanges
    BY <1>0, <1>1 DEF Publish, Change, TablesOK
  <2>4. latest' \in [Workflows -> Versions] /\ active' \in [Workflows -> Versions]
    BY <1>0, <1>1, <2>1 DEF Publish, TablesOK
  <2>5. QED
    BY <1>0, <1>1, <2>1, <2>2, <2>3, <2>4 DEF Publish, TablesOK
<1>2. ASSUME NEW w \in Workflows, Unpublish(w) PROVE TablesOK'
  <2>1. rows' \subseteq Row /\ RowsDistinct' /\ nextId' \in [Workflows -> Nat]
    <3> DEFINE version == [x \in {w} |-> active[w]]
    <3>1. Upserts({w}, version)
      BY <1>2 DEF Unpublish, Enqueue
    <3>2. \A x \in {w} : version[x] \in Versions
      BY <1>0 DEF TablesOK
    <3> HIDE DEF version
    <3>3. QED
      BY <1>0, <3>1, <3>2, UpsertEffect
  <2>2. changes' \in 0 .. MaxChanges
    BY <1>0, <1>2 DEF Unpublish, Change, TablesOK
  <2>3. active' \in [Workflows -> Versions]
    BY <1>0, <1>2 DEF Unpublish, TablesOK, Versions
  <2>4. QED
    BY <1>0, <1>2, <2>1, <2>2, <2>3 DEF Unpublish, TablesOK
<1>3. ASSUME NEW h \in Hosts, Takeover(h) PROVE TablesOK'
  BY <1>0, <1>3 DEF Takeover, TablesOK, RowsDistinct
<1>4. ASSUME NEW k \in Terms, EnqueueOnTakeover(k) PROVE TablesOK'
  <2>1. rows' \subseteq Row /\ RowsDistinct' /\ nextId' \in [Workflows -> Nat]
    <3> DEFINE W == {w \in Workflows : active[w] # 0}
    <3>1. Upserts(W, active)
      BY <1>4 DEF EnqueueOnTakeover, EnqueueAllActive
    <3>2. W \in SUBSET Workflows /\ \A x \in W : active[x] \in Versions
      BY <1>0 DEF TablesOK
    <3> HIDE DEF W
    <3>3. QED
      BY <1>0, <3>1, <3>2, UpsertEffect
  <2>2. QED
    BY <1>0, <1>4, <2>1 DEF EnqueueOnTakeover, TablesOK
<1>5. ASSUME NEW h \in Hosts, WakeUp(h) PROVE TablesOK'
  BY <1>0, <1>5 DEF WakeUp, TablesOK, RowsDistinct
<1>6. ASSUME NEW h \in Hosts, Stepdown(h) PROVE TablesOK'
  BY <1>0, <1>6 DEF Stepdown, TablesOK, RowsDistinct
<1>7. ASSUME NEW k \in Terms, TeardownTimesOut(k) PROVE TablesOK'
  BY <1>0, <1>7 DEF TeardownTimesOut, TablesOK, RowsDistinct
<1>8. ASSUME NEW k \in Terms, TeardownRemoves(k) PROVE TablesOK'
  BY <1>0, <1>8 DEF TeardownRemoves, TablesOK, RowsDistinct
<1>8a. ASSUME NEW k \in Terms, TeardownFails(k) PROVE TablesOK'
  BY <1>0, <1>8a DEF TeardownFails, TablesOK, RowsDistinct
<1>9. ASSUME NEW h \in Hosts, ClaimNextPendingRecord(h) PROVE TablesOK'
  <2>1. PICK r \in rows :
            /\ r \in Unblocked \/ r.status = "in_progress"
            /\ rows' = (rows \ {r}) \cup {[r EXCEPT !.status = "in_progress"]}
    BY <1>9 DEF ClaimNextPendingRecord
  <2>2. [r EXCEPT !.status = "in_progress"] \in Row
    BY <1>0 DEF TablesOK, Row
  <2>3. \A q \in rows \ {r} : q.w = r.w => q.status # "in_progress"
    BY <1>0, <2>1 DEF Unblocked, RowsOf, TablesOK, RowsDistinct
  <2>4. RowsDistinct'
    BY <1>0, <2>1, <2>3 DEF RowsDistinct, TablesOK, Row
  <2>5. QED
    BY <1>0, <1>9, <2>1, <2>2, <2>4 DEF ClaimNextPendingRecord, TablesOK
<1>10. ASSUME NEW h \in Hosts, Acquire(h) PROVE TablesOK'
  BY <1>0, <1>10 DEF Acquire, TablesOK, RowsDistinct
<1>11. ASSUME NEW h \in Hosts, Enter(h) PROVE TablesOK'
  BY <1>0, <1>11 DEF Enter, TablesOK, RowsDistinct
<1>12. ASSUME NEW h \in Hosts, ReturnToPending(h) PROVE TablesOK'
  <2>1. \A r \in rows : [r EXCEPT !.status = "pending"] \in Row
    BY <1>0 DEF TablesOK, Row
  <2>2. rows' \subseteq Row
    BY <1>0, <1>12, <2>1 DEF ReturnToPending, InProgressRow, TablesOK
  <2>3. RowsDistinct'
    <3>1. SUFFICES ASSUME NEW q \in rows', NEW r \in rows', q.w = r.w, q.status = r.status
                   PROVE  q = r
      BY DEF RowsDistinct
    <3>2. ASSUME NEW x \in rows'
          PROVE  \/ x \in rows
                 \/ \E y \in InProgressRow(h) : /\ x = [y EXCEPT !.status = "pending"]
                                                /\ RowsOf(y.w, "pending") = {}
      BY <1>12 DEF ReturnToPending
    <3>3. \A y \in InProgressRow(h) : y \in rows /\ y.status = "in_progress"
      BY DEF InProgressRow
    <3>4. QED
      BY <1>0, <3>1, <3>2, <3>3 DEF TablesOK, RowsDistinct, RowsOf, Row
  <2>4. QED
    BY <1>0, <1>12, <2>2, <2>3 DEF ReturnToPending, TablesOK
<1>13. ASSUME NEW h \in Hosts, Resolve(h) PROVE TablesOK'
  BY <1>0, <1>13 DEF Resolve, TablesOK, RowsDistinct
<1>14. ASSUME NEW h \in Hosts, Deactivate(h) PROVE TablesOK'
  BY <1>0, <1>14 DEF Deactivate, TablesOK, RowsDistinct
<1>15. ASSUME NEW h \in Hosts, AdvancePublishedVersion(h) PROVE TablesOK'
  <2>1. drain[h] \in DrainType
    BY <1>0 DEF MemoryOK
  <2>2. drain[h].v \in Versions
    BY <2>1 DEF DrainType
  <2>3. QED
    BY <1>0, <1>15, <2>2 DEF AdvancePublishedVersion, TablesOK, RowsDistinct
<1>16. ASSUME NEW h \in Hosts, RemovePublishedVersion(h) PROVE TablesOK'
  <2>1. published' \in [Workflows -> Versions]
    BY <1>0, <1>16 DEF RemovePublishedVersion, TablesOK
  <2>2. QED
    BY <1>0, <1>16, <2>1 DEF RemovePublishedVersion, TablesOK, RowsDistinct
<1>17. ASSUME NEW h \in Hosts, Activate(h) PROVE TablesOK'
  BY <1>0, <1>17 DEF Activate, TablesOK, RowsDistinct
<1>18. ASSUME NEW h \in Hosts, Report(h) PROVE TablesOK'
  BY <1>0, <1>18 DEF Report, InProgressRow, TablesOK, RowsDistinct
<1>19. ASSUME NEW h \in Hosts, DeactivateFails(h) PROVE TablesOK'
  BY <1>0, <1>19 DEF DeactivateFails, TablesOK, RowsDistinct
<1>20. ASSUME NEW h \in Hosts, ActivateFails(h) PROVE TablesOK'
  BY <1>0, <1>20 DEF ActivateFails, TablesOK, RowsDistinct
<1>21. ASSUME NEW h \in Hosts, ReportFails(h) PROVE TablesOK'
  BY <1>0, <1>21 DEF ReportFails, TablesOK, RowsDistinct
<1>22. ASSUME NEW h \in Hosts, Crash(h) PROVE TablesOK'
  BY <1>0, <1>22 DEF Crash, TablesOK, RowsDistinct
<1>23. ASSUME NEW h \in Hosts, NEW w \in Workflows, TriggerFails(h, w) PROVE TablesOK'
  BY <1>0, <1>23 DEF TriggerFails, TablesOK, RowsDistinct
<1>24. ASSUME NEW t \in recovering, Reactivate(t) PROVE TablesOK'
  BY <1>0, <1>24 DEF Reactivate, TablesOK, RowsDistinct
<1>25. ASSUME NEW t \in recovering, ReactivateFails(t) PROVE TablesOK'
  BY <1>0, <1>25 DEF ReactivateFails, TablesOK, RowsDistinct
<1>26. ASSUME UNCHANGED poVars PROVE TablesOK'
  BY <1>0, <1>26 DEF poVars, TablesOK, RowsDistinct
<1>27. QED
  BY <1>1, <1>2, <1>3, <1>4, <1>5, <1>6, <1>7, <1>8, <1>8a, <1>9,
     <1>10, <1>11, <1>12, <1>13, <1>14, <1>15, <1>16, <1>17, <1>18,
     <1>19, <1>20, <1>21, <1>22, <1>23, <1>24, <1>25, <1>26
     DEF PubNext, DrainStep, FailStep


-----------------------------------------------------------------------------
(* The drain *)

\* Only the drain of h moves.
DrainOnly(h) == \A i \in Hosts \ {h} : drain'[i] = drain[i]

\* The drain of h goes to another step with the record it has.
Moves(h, step) ==
    /\ drain' \in [Hosts -> DrainType] /\ DrainOnly(h)
    /\ drain'[h].step = step /\ drain'[h].w = drain[h].w /\ drain'[h].id = drain[h].id
    /\ drain'[h].v = drain[h].v /\ drain'[h].add = drain[h].add

\* Go moves the drain.
LEMMA GoEffect ==
    ASSUME PubTypeOK, NEW h \in Hosts, NEW step \in DrainSteps, Go(h, step)
    PROVE  Moves(h, step)
<1>1. drain \in [Hosts -> DrainType] /\ drain[h] \in DrainType
  BY DEF PubTypeOK, DrainType
<1>2. drain' = [drain EXCEPT ![h] = [drain[h] EXCEPT !.step = step]]
  BY <1>1 DEF Go
<1>3. [drain[h] EXCEPT !.step = step] \in DrainType
  BY <1>1 DEF DrainType
<1>4. drain'[h] = [drain[h] EXCEPT !.step = step] /\ drain' \in [Hosts -> DrainType]
  BY <1>1, <1>2, <1>3
<1>5. DrainOnly(h)
  BY <1>1, <1>2 DEF DrainOnly
<1>6. QED
  BY <1>1, <1>4, <1>5 DEF Moves, DrainType

\* The drain of h lets go of its record and of the lock.
Releases(h) ==
    /\ drain' \in [Hosts -> DrainType] /\ DrainOnly(h) /\ drain'[h] = NoDrain
    /\ lock' \in [Hosts -> [Workflows -> Seq(LockOwners)]]
    /\ lock'[h][drain[h].w] = Tail(lock[h][drain[h].w])
    /\ \A i \in Hosts, w \in Workflows : i # h \/ w # drain[h].w => lock'[i][w] = lock[i][w]

\* Whoever holds the lock can release it.
LEMMA ReleaseEffect ==
    ASSUME PubTypeOK, NEW h \in Hosts, drain[h].w \in Workflows,
           lock[h][drain[h].w] # <<>>, Release(h)
    PROVE  Releases(h)
<1>1. drain \in [Hosts -> DrainType] /\ NoDrain \in DrainType
  <2>1. NoDrain \in DrainType
    BY ConstantFacts DEF NoDrain, DrainType, DrainSteps
  <2>2. QED
    BY <2>1 DEF PubTypeOK, DrainType
<1>2. drain' \in [Hosts -> DrainType] /\ DrainOnly(h) /\ drain'[h] = NoDrain
  BY <1>1 DEF Release, DrainOnly
<1> DEFINE x == drain[h].w
<1>3. x \in Workflows /\ lock \in [Hosts -> [Workflows -> Seq(LockOwners)]]
  BY DEF PubTypeOK
<1>4. lock' = [lock EXCEPT ![h] = [lock[h] EXCEPT ![x] = Tail(lock[h][x])]]
  BY <1>3 DEF Release
<1>5. lock[h][x] \in Seq(LockOwners) /\ lock[h][x] # <<>>
  BY <1>3
<1> HIDE DEF x
<1>6. Tail(lock[h][x]) \in Seq(LockOwners)
  BY <1>5
<1>7. /\ lock' \in [Hosts -> [Workflows -> Seq(LockOwners)]]
      /\ lock'[h][x] = Tail(lock[h][x])
      /\ \A i \in Hosts, w \in Workflows : i # h \/ w # x => lock'[i][w] = lock[i][w]
  BY <1>3, <1>4, <1>6
<1>8. QED
  BY <1>2, <1>7 DEF Releases, x

\* A drain in its critical section, or with the lock, has a workflow and the lock.
LEMMA LockHeld ==
    ASSUME PubTypeOK, LockInv, NEW h \in Hosts, HasLock(h) \/ InCritical(h)
    PROVE  /\ drain[h].w \in Workflows /\ lock[h][drain[h].w] \in Seq(LockOwners)
           /\ lock[h][drain[h].w] # <<>> /\ Head(lock[h][drain[h].w]) = Drain
<1>1. drain[h].step # "idle"
  BY DEF HasLock, InCritical, Critical
<1>2. drain[h].w \in Workflows
  BY <1>1 DEF LockInv
<1>3. lock[h][drain[h].w] \in Seq(LockOwners)
  BY <1>2 DEF PubTypeOK
<1>4. lock[h][drain[h].w] # <<>> /\ Head(lock[h][drain[h].w]) = Drain
  <2>1. CASE HasLock(h)
    <3>1. Drain \in ToSet(lock[h][drain[h].w]) /\ Head(lock[h][drain[h].w]) = Drain
      BY <2>1 DEF HasLock, LockInv
    <3>2. lock[h][drain[h].w] # <<>>
      BY <1>3, <3>1, ToSetMember
    <3>3. QED
      BY <3>1, <3>2
  <2>2. CASE InCritical(h)
    BY <2>2 DEF LockInv
  <2>3. QED
    BY <2>1, <2>2
<1>5. QED
  BY <1>2, <1>3, <1>4


-----------------------------------------------------------------------------
(* The teardown loops and the locks *)

\* Only the loop of term k, and of the locks only that of w on h, have changed.
LoopOnly(k) == \A j \in Terms \ {k} : loop'[j] = loop[j]
LockOnly(h, w) == \A i \in Hosts, x \in Workflows : i # h \/ x # w => lock'[i][x] = lock[i][x]

\* What a loop that is under way works with.
LEMMA LoopAtWork ==
    ASSUME PubTypeOK, TermInv, LockInv, NEW k \in Terms, loop[k].step # "idle"
    PROVE  /\ led[k] \in Hosts /\ loop[k].at \in Workflows
           /\ loop[k] \in LoopType /\ loop[k].todo \in SUBSET Workflows
           /\ lock[led[k]] \in [Workflows -> Seq(LockOwners)]
           /\ loop[k].step = "locking" =>
                 k \in ToSet(lock[led[k]][loop[k].at]) /\ lock[led[k]][loop[k].at] # <<>>
<1>1. led[k] \in Hosts /\ loop[k].at \in Workflows
  BY DEF TermInv
<1>2. loop[k] \in LoopType /\ lock[led[k]] \in [Workflows -> Seq(LockOwners)]
  BY <1>1 DEF PubTypeOK, LoopType
<1>3. loop[k].step = "locking" => k \in ToSet(lock[led[k]][loop[k].at])
  BY DEF LockInv
<1>4. loop[k].step = "locking" => lock[led[k]][loop[k].at] # <<>>
  BY <1>1, <1>2, <1>3, ToSetType
<1>5. QED
  BY <1>1, <1>2, <1>3, <1>4 DEF LoopType

\* A teardown that times out leaves the queue of the lock, whose head stays.
LEMMA TimesOutEffect ==
    ASSUME PubTypeOK, TermInv, LockInv, NEW k \in Terms, TeardownTimesOut(k)
    PROVE  /\ led[k] \in Hosts /\ loop[k].at \in Workflows /\ loop[k].step = "locking"
           /\ loop' \in [Terms -> LoopType] /\ LoopOnly(k)
           /\ loop'[k].step = "forced" /\ loop'[k].at = loop[k].at /\ loop'[k].todo = loop[k].todo
           /\ lock' \in [Hosts -> [Workflows -> Seq(LockOwners)]] /\ LockOnly(led[k], loop[k].at)
           /\ ToSet(lock[led[k]][loop[k].at]) \ {k} \subseteq ToSet(lock'[led[k]][loop[k].at])
           /\ lock'[led[k]][loop[k].at] # <<>>
           /\ Head(lock'[led[k]][loop[k].at]) = Head(lock[led[k]][loop[k].at])
<1> DEFINE h == led[k]
           w == loop[k].at
           s == lock[h][w]
<1>1. loop[k].step = "locking"
  BY DEF TeardownTimesOut
<1>2. /\ h \in Hosts /\ w \in Workflows /\ loop[k] \in LoopType /\ s \in Seq(LockOwners)
      /\ loop \in [Terms -> LoopType] /\ lock \in [Hosts -> [Workflows -> Seq(LockOwners)]]
  BY <1>1, LoopAtWork DEF PubTypeOK, LoopType
<1>3. loop' = [loop EXCEPT ![k] = [loop[k] EXCEPT !.step = "forced"]]
  BY <1>2 DEF TeardownTimesOut
<1>4. PICK i \in 2 .. Len(s) : s[i] = k /\ lock' = [lock EXCEPT ![h] = [lock[h] EXCEPT ![w] = RemoveAt(s, i)]]
  BY <1>2 DEF TeardownTimesOut
<1> HIDE DEF h, w, s
<1>5. i \in 1 .. Len(s) /\ i # 1
  BY <1>2, LenProperties
<1>6. /\ RemoveAt(s, i) \in Seq(LockOwners) /\ ToSet(s) \ {k} \subseteq ToSet(RemoveAt(s, i))
      /\ RemoveAt(s, i) # <<>> /\ Head(RemoveAt(s, i)) = Head(s)
  BY <1>2, <1>4, <1>5, ToSetRemoveAt
<1>7. /\ lock' \in [Hosts -> [Workflows -> Seq(LockOwners)]] /\ LockOnly(h, w)
      /\ lock'[h][w] = RemoveAt(s, i)
  BY <1>2, <1>4, <1>6 DEF LockOnly
<1>8. [loop[k] EXCEPT !.step = "forced"] \in LoopType
  BY <1>2 DEF LoopType, LoopSteps
<1>9. /\ loop' \in [Terms -> LoopType] /\ LoopOnly(k)
      /\ loop'[k] = [loop[k] EXCEPT !.step = "forced"]
  BY <1>2, <1>3, <1>8 DEF LoopOnly
<1>10. loop'[k].step = "forced" /\ loop'[k].at = loop[k].at /\ loop'[k].todo = loop[k].todo
  BY <1>2, <1>9 DEF LoopType
<1>11. QED
  BY <1>1, <1>2, <1>6, <1>7, <1>9, <1>10 DEF h, w, s

\* The lock queues of a main once the loop of term k has let go of its lock.
LockLeft(k) ==
    IF loop[k].step = "locking"
    THEN [lock[led[k]] EXCEPT ![loop[k].at] = Tail(@)] ELSE lock[led[k]]

\* The trigger of w is gone from h, and no other registration has changed.
Unregisters(h, w) ==
    /\ registered' \in [Hosts -> [Workflows -> Versions]]
    /\ registered'[h][w] = 0
    /\ \A i \in Hosts, x \in Workflows : i # h \/ x # w => registered'[i][x] = registered[i][x]

\* deactivate and remove
LEMMA UnregisterEffect ==
    ASSUME PubTypeOK, NEW h \in Hosts, NEW w \in Workflows,
           registered' = [registered EXCEPT ![h][w] = 0]
    PROVE  Unregisters(h, w)
BY ConstantFacts DEF PubTypeOK, Unregisters

\* A teardown that removes its triggers: it had the lock or does without, and goes on.
LEMMA RemovesEffect ==
    ASSUME PubTypeOK, TermInv, LockInv, NEW k \in Terms, TeardownRemoves(k)
    PROVE  /\ led[k] \in Hosts /\ loop[k].at \in Workflows
           /\ Unregisters(led[k], loop[k].at)
           /\ GoneOn(k, led[k], loop[k].todo, LockLeft(k))
           /\ loop[k].step = "locking" => Head(lock[led[k]][loop[k].at]) = k
           /\ LockLeft(k) \in [Workflows -> Seq(LockOwners)]
           /\ \A x \in Workflows :
                 /\ ToSet(lock[led[k]][x]) \ {k} \subseteq ToSet(LockLeft(k)[x])
                 /\ x # loop[k].at => LockLeft(k)[x] = lock[led[k]][x]
                 /\ loop[k].step # "locking" => LockLeft(k)[x] = lock[led[k]][x]
<1> DEFINE h == led[k]
           w == loop[k].at
<1>0. loop[k].step # "idle"
  BY DEF TeardownRemoves
<1>1. /\ h \in Hosts /\ w \in Workflows /\ loop[k] \in LoopType
      /\ loop[k].todo \in SUBSET Workflows /\ loop[k].second \in BOOLEAN
      /\ lock[h] \in [Workflows -> Seq(LockOwners)]
      /\ loop[k].step = "locking" => lock[h][w] # <<>>
  BY <1>0, LoopAtWork DEF LoopType
<1>2. loop[k].step = "locking" => Head(lock[h][w]) = k
  BY DEF TeardownRemoves
<1>3. Unregisters(h, w)
  BY <1>1, UnregisterEffect DEF TeardownRemoves
<1>4. loop[k].step = "locking" =>
        /\ Tail(lock[h][w]) \in Seq(LockOwners)
        /\ ToSet(lock[h][w]) \ {k} \subseteq ToSet(Tail(lock[h][w]))
  BY <1>1, <1>2, ToSetTail
<1>5. /\ LockLeft(k) \in [Workflows -> Seq(LockOwners)]
      /\ \A x \in Workflows :
            /\ ToSet(lock[h][x]) \ {k} \subseteq ToSet(LockLeft(k)[x])
            /\ x # w => LockLeft(k)[x] = lock[h][x]
            /\ loop[k].step # "locking" => LockLeft(k)[x] = lock[h][x]
  BY <1>1, <1>4 DEF LockLeft
<1>6. GoOn(k, h, loop[k].todo, loop[k].second, LockLeft(k))
  BY DEF TeardownRemoves, LockLeft
<1>7. GoneOn(k, h, loop[k].todo, LockLeft(k))
  BY <1>1, <1>5, <1>6, GoOnEffect
<1>8. QED
  BY <1>1, <1>2, <1>3, <1>5, <1>7

\* A teardown that fails ends its loop, and lets go of the lock if it had it.
LEMMA FailsEffect ==
    ASSUME PubTypeOK, TermInv, LockInv, NEW k \in Terms, TeardownFails(k)
    PROVE  /\ led[k] \in Hosts /\ loop[k].at \in Workflows /\ loop[k].todo \in SUBSET Workflows
           /\ loop' \in [Terms -> LoopType] /\ LoopOnly(k) /\ loop'[k].step = "idle"
           /\ lock' \in [Hosts -> [Workflows -> Seq(LockOwners)]] /\ LockOnly(led[k], loop[k].at)
           /\ ToSet(lock[led[k]][loop[k].at]) \ {k} \subseteq ToSet(lock'[led[k]][loop[k].at])
           /\ \/ lock'[led[k]][loop[k].at] = lock[led[k]][loop[k].at]
              \/ Head(lock[led[k]][loop[k].at]) = k
<1> DEFINE h == led[k]
           w == loop[k].at
           s == lock[h][w]
<1>1. loop[k].step # "idle"
  BY DEF TeardownFails
<1>2. /\ h \in Hosts /\ w \in Workflows /\ s \in Seq(LockOwners)
      /\ loop[k].todo \in SUBSET Workflows
      /\ loop \in [Terms -> LoopType] /\ lock \in [Hosts -> [Workflows -> Seq(LockOwners)]]
      /\ loop[k].step = "locking" => s # <<>>
  BY <1>1, LoopAtWork DEF PubTypeOK, LoopType
<1>3. NoLoop \in LoopType /\ NoLoop.step = "idle"
  BY DEF NoLoop, LoopType, LoopSteps
<1>4. loop' = [loop EXCEPT ![k] = NoLoop]
  BY DEF TeardownFails
<1>5. loop' \in [Terms -> LoopType] /\ LoopOnly(k) /\ loop'[k].step = "idle"
  BY <1>2, <1>3, <1>4 DEF LoopOnly
<1>6. CASE loop[k].step = "locking"
  <2>1. Head(s) = k /\ lock' = [lock EXCEPT ![h] = [lock[h] EXCEPT ![w] = Tail(s)]]
    BY <1>2, <1>6 DEF TeardownFails
  <2>2. s # <<>>
    BY <1>2, <1>6
  <2> HIDE DEF h, w, s
  <2>3. Tail(s) \in Seq(LockOwners) /\ ToSet(s) \ {k} \subseteq ToSet(Tail(s))
    BY <1>2, <2>1, <2>2, ToSetTail
  <2>4. /\ lock' \in [Hosts -> [Workflows -> Seq(LockOwners)]] /\ LockOnly(h, w)
        /\ lock'[h][w] = Tail(s)
    BY <1>2, <2>1, <2>3 DEF LockOnly
  <2>5. QED
    BY <1>2, <1>5, <2>1, <2>3, <2>4 DEF h, w, s
<1>7. CASE loop[k].step # "locking"
  <2>1. lock' = lock
    BY <1>7 DEF TeardownFails
  <2>2. QED
    BY <1>2, <1>5, <2>1 DEF LockOnly
<1>8. QED
  BY <1>6, <1>7

\* The workflows that deactivateAllNonWebhookTriggers visits.
ToVisit(h) == {w \in Workflows : registered[h][w] # 0 \/ lock[h][w] # <<>>}

\* A stepdown starts the loop of the current term, whatever its locks hold.
LEMMA StepdownEffect ==
    ASSUME PubTypeOK, TermInv, NEW h \in Hosts, Stepdown(h)
    PROVE  term \in Terms /\ led[term] = h /\ GoneOn(term, h, ToVisit(h), lock[h])
<1>1. term \in Terms /\ led[term] = h
  BY ConstantFacts DEF Stepdown, TermInv
<1>2. lock[h] \in [Workflows -> Seq(LockOwners)] /\ ToVisit(h) \in SUBSET Workflows
  BY DEF PubTypeOK, ToVisit
<1>3. GoOn(term, h, ToVisit(h), FALSE, lock[h])
  BY DEF Stepdown, ToVisit
<1>4. GoneOn(term, h, ToVisit(h), lock[h])
  BY <1>1, <1>2, <1>3, GoOnEffect
<1>5. QED
  BY <1>1, <1>4

\* The drain joins the queue of the lock.
LEMMA AcquireEffect ==
    ASSUME PubTypeOK, LockInv, NEW h \in Hosts, Acquire(h)
    PROVE  /\ Moves(h, "waiting") /\ drain[h].w \in Workflows
           /\ lock' \in [Hosts -> [Workflows -> Seq(LockOwners)]] /\ LockOnly(h, drain[h].w)
           /\ lock[h][drain[h].w] \in Seq(LockOwners)
           /\ lock'[h][drain[h].w] = Append(lock[h][drain[h].w], Drain)
<1> DEFINE w == drain[h].w
<1>1. w \in Workflows
  BY DEF Acquire, LockInv
<1>2. Moves(h, "waiting")
  BY GoEffect DEF Acquire, DrainSteps
<1>3. /\ lock \in [Hosts -> [Workflows -> Seq(LockOwners)]] /\ lock[h][w] \in Seq(LockOwners)
      /\ lock' = [lock EXCEPT ![h] = [lock[h] EXCEPT ![w] = Append(lock[h][w], Drain)]]
  BY <1>1 DEF PubTypeOK, Acquire
<1>4. Append(lock[h][w], Drain) \in Seq(LockOwners)
  BY <1>3, ConstantFacts
<1> HIDE DEF w
<1>5. /\ lock' \in [Hosts -> [Workflows -> Seq(LockOwners)]] /\ LockOnly(h, w)
      /\ lock'[h][w] = Append(lock[h][w], Drain)
  BY <1>1, <1>3, <1>4 DEF LockOnly
<1>6. QED
  BY <1>1, <1>2, <1>3, <1>5 DEF w


-----------------------------------------------------------------------------
(* The record, and the types of the memory *)

\* A claim takes a row that nobody may be at work on, or blames every main.
Claims(h, r) ==
    /\ r \in rows /\ drain[h].step = "idle"
    /\ \/ r \in Unblocked /\ amiss' = amiss
       \/ r.status = "in_progress" /\ ~Held(r) /\ amiss' = amiss
       \/ /\ r.status = "in_progress"
          /\ amiss' = amiss \cup {<<i, r.w, "overrun">> : i \in Hosts}
    /\ rows' = (rows \ {r}) \cup {[r EXCEPT !.status = "in_progress"]}
    /\ drain' \in [Hosts -> DrainType] /\ DrainOnly(h)
    /\ drain'[h].step = "claimed" /\ drain'[h].w = r.w /\ drain'[h].id = r.id
    /\ drain'[h].v = r.v /\ r.w \in Workflows

\* claimNextPendingRecord
LEMMA ClaimEffect ==
    ASSUME PubTypeOK, NEW h \in Hosts, ClaimNextPendingRecord(h)
    PROVE  (\E r \in rows : Claims(h, r)) /\ faults' \in 0 .. MaxFaults
<1>1. PICK r \in rows :
          /\ \/ r \in Unblocked /\ UNCHANGED <<faults, amiss>>
             \/ r.status = "in_progress" /\ ~Held(r) /\ UNCHANGED <<faults, amiss>>
             \/ /\ r.status = "in_progress" /\ Held(r) /\ Fault
                /\ amiss' = amiss \cup {<<i, r.w, "overrun">> : i \in Hosts}
          /\ rows' = (rows \ {r}) \cup {[r EXCEPT !.status = "in_progress"]}
          /\ drain' = [drain EXCEPT ![h] = [step |-> "claimed", id |-> r.id, w |-> r.w,
                                            v |-> r.v, add |-> FALSE]]
  BY DEF ClaimNextPendingRecord
<1>2. r \in Row /\ drain \in [Hosts -> DrainType] /\ faults \in 0 .. MaxFaults
  BY DEF PubTypeOK, DrainType
<1> DEFINE d == [step |-> "claimed", id |-> r.id, w |-> r.w, v |-> r.v, add |-> FALSE]
<1>3. d \in DrainType /\ r.w \in Workflows
  BY <1>2 DEF Row, DrainType, DrainSteps
<1>4. d.step = "claimed" /\ d.w = r.w /\ d.id = r.id /\ d.v = r.v
  OBVIOUS
<1>5. drain' = [drain EXCEPT ![h] = d]
  BY <1>1
<1> HIDE DEF d
<1>6. drain' \in [Hosts -> DrainType] /\ DrainOnly(h) /\ drain'[h] = d
  BY <1>2, <1>3, <1>5 DEF DrainOnly
<1>7. Claims(h, r)
  BY <1>1, <1>3, <1>4, <1>6 DEF Claims, ClaimNextPendingRecord
<1>8. faults' \in 0 .. MaxFaults
  BY <1>1, <1>2, ConstantFacts DEF Fault
<1>9. QED
  BY <1>7, <1>8

\* apply has read the tables: the step that the drain of h goes to, and whether
\* it will register the trigger.
Resolves(h) ==
    LET old == published[drain[h].w] IN
    /\ drain' \in [Hosts -> DrainType] /\ DrainOnly(h)
    /\ drain'[h].w = drain[h].w /\ drain'[h].id = drain[h].id /\ drain'[h].v = drain[h].v
    /\ drain'[h].add <=> old # drain[h].v \/ registered[h][drain[h].w] = 0
    /\ \/ active[drain[h].w] = 0 /\ old = 0 /\ drain'[h].step = "report"
       \/ active[drain[h].w] = 0 /\ old # 0 /\ drain'[h].step = "removeAll"
       \/ active[drain[h].w] # 0 /\ old \in {0, drain[h].v} /\ drain'[h].step = "advance"
       \/ active[drain[h].w] # 0 /\ old \notin {0, drain[h].v} /\ drain'[h].step = "remove"

\* Resolve
LEMMA ResolveEffect ==
    ASSUME PubTypeOK, NEW h \in Hosts, Resolve(h)
    PROVE  Resolves(h) /\ drain[h].step = "resolve"
<1> DEFINE d == drain[h]
           old == published[d.w]
           add == (old # d.v \/ registered[h][d.w] = 0)
           step == IF active[d.w] = 0
                   THEN IF old = 0 THEN "report" ELSE "removeAll"
                   ELSE IF old \in {0, d.v} THEN "advance" ELSE "remove"
           n == [d EXCEPT !.add = add, !.step = step]
<1>1. drain \in [Hosts -> DrainType] /\ d \in DrainType
  BY DEF PubTypeOK, DrainType
<1>2. drain' = [drain EXCEPT ![h] = n] /\ d.step = "resolve"
  BY DEF Resolve
<1>3. add \in BOOLEAN
  BY Zenon
<1>4. step \in DrainSteps
  BY DEF DrainSteps
<1>5. \/ active[d.w] = 0 /\ old = 0 /\ step = "report"
      \/ active[d.w] = 0 /\ old # 0 /\ step = "removeAll"
      \/ active[d.w] # 0 /\ old \in {0, d.v} /\ step = "advance"
      \/ active[d.w] # 0 /\ old \notin {0, d.v} /\ step = "remove"
  OBVIOUS
<1>6. add <=> old # d.v \/ registered[h][d.w] = 0
  OBVIOUS
<1> HIDE DEF add, step, old
<1>7. n \in DrainType /\ n.step = step /\ n.add = add /\ n.w = d.w /\ n.id = d.id /\ n.v = d.v
  BY <1>1, <1>3, <1>4 DEF DrainType
<1> HIDE DEF n
<1>8. drain' \in [Hosts -> DrainType] /\ DrainOnly(h) /\ drain'[h] = n
  BY <1>1, <1>2, <1>7 DEF DrainOnly
<1>9. QED
  BY <1>2, <1>5, <1>6, <1>7, <1>8 DEF Resolves, old

\* The trigger of version v of w is registered on h.
RegistersAs(h, w, v) ==
    /\ registered' \in [Hosts -> [Workflows -> Versions]]
    /\ registered'[h][w] = v
    /\ \A i \in Hosts, x \in Workflows : i # h \/ x # w => registered'[i][x] = registered[i][x]

\* add
LEMMA RegisterEffect ==
    ASSUME PubTypeOK, NEW h \in Hosts, NEW w \in Workflows, NEW v \in Versions,
           registered' = [registered EXCEPT ![h][w] = v]
    PROVE  RegistersAs(h, w, v)
BY DEF PubTypeOK, RegistersAs

\* A crash leaves h with an empty memory and the other mains as they are.
LEMMA CrashEffect ==
    ASSUME PubTypeOK, NEW h \in Hosts, Crash(h)
    PROVE  /\ drain' \in [Hosts -> DrainType] /\ DrainOnly(h) /\ drain'[h] = NoDrain
           /\ lock' \in [Hosts -> [Workflows -> Seq(LockOwners)]]
           /\ \A i \in Hosts : i # h => lock'[i] = lock[i]
           /\ loop' \in [Terms -> LoopType]
           /\ \A k \in Terms : IF led[k] = h THEN loop'[k] = NoLoop ELSE loop'[k] = loop[k]
           /\ registered' \in [Hosts -> [Workflows -> Versions]]
           /\ \A w \in Workflows : registered'[h][w] = 0
           /\ \A i \in Hosts : i # h => registered'[i] = registered[i]
<1>1. /\ drain \in [Hosts -> DrainType] /\ lock \in [Hosts -> [Workflows -> Seq(LockOwners)]]
      /\ loop \in [Terms -> LoopType] /\ registered \in [Hosts -> [Workflows -> Versions]]
  BY DEF PubTypeOK, DrainType, LoopType
<1>2. NoDrain \in DrainType /\ NoLoop \in LoopType
  BY ConstantFacts DEF NoDrain, DrainType, DrainSteps, NoLoop, LoopType, LoopSteps
<1>3. drain' \in [Hosts -> DrainType] /\ DrainOnly(h) /\ drain'[h] = NoDrain
  BY <1>1, <1>2 DEF Crash, DrainOnly
<1>4. [w \in Workflows |-> <<>>] \in [Workflows -> Seq(LockOwners)]
  OBVIOUS
<1>5. /\ lock' \in [Hosts -> [Workflows -> Seq(LockOwners)]]
      /\ \A i \in Hosts : i # h => lock'[i] = lock[i]
  BY <1>1, <1>4 DEF Crash
<1>6. /\ loop' \in [Terms -> LoopType]
      /\ \A k \in Terms : IF led[k] = h THEN loop'[k] = NoLoop ELSE loop'[k] = loop[k]
  BY <1>1, <1>2 DEF Crash
<1>7. [w \in Workflows |-> 0] \in [Workflows -> Versions]
  BY ConstantFacts
<1>8. /\ registered' \in [Hosts -> [Workflows -> Versions]]
      /\ \A w \in Workflows : registered'[h][w] = 0
      /\ \A i \in Hosts : i # h => registered'[i] = registered[i]
  BY <1>1, <1>7 DEF Crash
<1>9. QED
  BY <1>3, <1>5, <1>6, <1>8

\* Which drain steps the fields of a record go with.
LEMMA DrainFields ==
    ASSUME PubTypeOK, NEW h \in Hosts
    PROVE  drain[h].step \in DrainSteps /\ drain[h].v \in Versions /\ drain[h].v \in Nat
<1>1. drain[h] \in DrainType
  BY DEF PubTypeOK, DrainType
<1>2. QED
  BY <1>1, ConstantFacts DEF DrainType

\* Who leads keeps its type.
LEMMA LeadershipStep ==
    ASSUME PubTypeOK, [PubNext]_poVars
    PROVE  LeadershipOK'
<1>0. LeadershipOK
  BY TypeParts
<1>1. ASSUME NEW w \in Workflows, Publish(w) PROVE LeadershipOK'
  BY <1>0, <1>1 DEF Publish, leadership, LeadershipOK
<1>2. ASSUME NEW w \in Workflows, Unpublish(w) PROVE LeadershipOK'
  BY <1>0, <1>2 DEF Unpublish, leadership, LeadershipOK
<1>3. ASSUME NEW h \in Hosts, Takeover(h) PROVE LeadershipOK'
  <2>1. term + 1 \in Terms /\ term + 1 \in 0 .. MaxTerms
    BY <1>0, <1>3, ConstantFacts DEF Takeover, LeadershipOK, Terms
  <2>2. QED
    BY <1>0, <1>3, <2>1 DEF Takeover, LeadershipOK
<1>4. ASSUME NEW k \in Terms, EnqueueOnTakeover(k) PROVE LeadershipOK'
  BY <1>0, <1>4 DEF EnqueueOnTakeover, leadership, LeadershipOK
<1>5. ASSUME NEW h \in Hosts, WakeUp(h) PROVE LeadershipOK'
  BY <1>0, <1>5 DEF WakeUp, leadership, LeadershipOK
<1>6. ASSUME NEW h \in Hosts, Stepdown(h) PROVE LeadershipOK'
  BY <1>0, <1>6 DEF Stepdown, leadership, LeadershipOK
<1>7. ASSUME NEW k \in Terms, TeardownTimesOut(k) PROVE LeadershipOK'
  BY <1>0, <1>7 DEF TeardownTimesOut, leadership, LeadershipOK
<1>8. ASSUME NEW k \in Terms, TeardownRemoves(k) PROVE LeadershipOK'
  BY <1>0, <1>8 DEF TeardownRemoves, leadership, LeadershipOK
<1>8a. ASSUME NEW k \in Terms, TeardownFails(k) PROVE LeadershipOK'
  BY <1>0, <1>8a DEF TeardownFails, leadership, LeadershipOK
<1>9. ASSUME NEW h \in Hosts, ClaimNextPendingRecord(h) PROVE LeadershipOK'
  BY <1>0, <1>9 DEF ClaimNextPendingRecord, leadership, LeadershipOK
<1>10. ASSUME NEW h \in Hosts, Acquire(h) PROVE LeadershipOK'
  BY <1>0, <1>10 DEF Acquire, leadership, LeadershipOK
<1>11. ASSUME NEW h \in Hosts, Enter(h) PROVE LeadershipOK'
  BY <1>0, <1>11 DEF Enter, leadership, LeadershipOK
<1>12. ASSUME NEW h \in Hosts, ReturnToPending(h) PROVE LeadershipOK'
  BY <1>0, <1>12 DEF ReturnToPending, leadership, LeadershipOK
<1>13. ASSUME NEW h \in Hosts, Resolve(h) PROVE LeadershipOK'
  BY <1>0, <1>13 DEF Resolve, leadership, LeadershipOK
<1>14. ASSUME NEW h \in Hosts, Deactivate(h) PROVE LeadershipOK'
  BY <1>0, <1>14 DEF Deactivate, leadership, LeadershipOK
<1>15. ASSUME NEW h \in Hosts, AdvancePublishedVersion(h) PROVE LeadershipOK'
  BY <1>0, <1>15 DEF AdvancePublishedVersion, leadership, LeadershipOK
<1>16. ASSUME NEW h \in Hosts, RemovePublishedVersion(h) PROVE LeadershipOK'
  BY <1>0, <1>16 DEF RemovePublishedVersion, leadership, LeadershipOK
<1>17. ASSUME NEW h \in Hosts, Activate(h) PROVE LeadershipOK'
  BY <1>0, <1>17 DEF Activate, leadership, LeadershipOK
<1>18. ASSUME NEW h \in Hosts, Report(h) PROVE LeadershipOK'
  BY <1>0, <1>18 DEF Report, leadership, LeadershipOK
<1>19. ASSUME NEW h \in Hosts, DeactivateFails(h) PROVE LeadershipOK'
  BY <1>0, <1>19 DEF DeactivateFails, leadership, LeadershipOK
<1>20. ASSUME NEW h \in Hosts, ActivateFails(h) PROVE LeadershipOK'
  BY <1>0, <1>20 DEF ActivateFails, leadership, LeadershipOK
<1>21. ASSUME NEW h \in Hosts, ReportFails(h) PROVE LeadershipOK'
  BY <1>0, <1>21 DEF ReportFails, leadership, LeadershipOK
<1>22. ASSUME NEW h \in Hosts, Crash(h) PROVE LeadershipOK'
  <2>1. \A k \in Terms : (taking[k] /\ led[k] # h) \in BOOLEAN
    BY Zenon
  <2>2. taking' \in [Terms -> BOOLEAN]
    BY <1>22, <2>1 DEF Crash
  <2>3. leader' \in Hosts \cup {NoHost} /\ polling' \in [Hosts -> BOOLEAN]
    BY <1>0, <1>22 DEF Crash, LeadershipOK
  <2>4. QED
    BY <1>0, <1>22, <2>2, <2>3 DEF Crash, LeadershipOK
<1>23. ASSUME NEW h \in Hosts, NEW w \in Workflows, TriggerFails(h, w) PROVE LeadershipOK'
  BY <1>0, <1>23 DEF TriggerFails, leadership, LeadershipOK
<1>24. ASSUME NEW t \in recovering, Reactivate(t) PROVE LeadershipOK'
  BY <1>0, <1>24 DEF Reactivate, leadership, LeadershipOK
<1>25. ASSUME NEW t \in recovering, ReactivateFails(t) PROVE LeadershipOK'
  BY <1>0, <1>25 DEF ReactivateFails, leadership, LeadershipOK
<1>26. ASSUME UNCHANGED poVars PROVE LeadershipOK'
  BY <1>0, <1>26 DEF poVars, leadership, LeadershipOK
<1>27. QED
  BY <1>1, <1>2, <1>3, <1>4, <1>5, <1>6, <1>7, <1>8, <1>8a, <1>9,
     <1>10, <1>11, <1>12, <1>13, <1>14, <1>15, <1>16, <1>17, <1>18,
     <1>19, <1>20, <1>21, <1>22, <1>23, <1>24, <1>25, <1>26
     DEF PubNext, DrainStep, FailStep

\* The memory of the mains keeps its type.
LEMMA MemoryStep ==
    ASSUME PubTypeOK, TermInv, LockInv, [PubNext]_poVars
    PROVE  MemoryOK'
<1>0. MemoryOK /\ PubTypeOK /\ TermInv /\ LockInv
  BY TypeParts
<1>1. ASSUME NEW w \in Workflows, Publish(w) PROVE MemoryOK'
  BY <1>0, <1>1 DEF Publish, triggers, MemoryOK
<1>2. ASSUME NEW w \in Workflows, Unpublish(w) PROVE MemoryOK'
  BY <1>0, <1>2 DEF Unpublish, triggers, MemoryOK
<1>3. ASSUME NEW h \in Hosts, Takeover(h) PROVE MemoryOK'
  BY <1>0, <1>3 DEF Takeover, triggers, MemoryOK
<1>4. ASSUME NEW k \in Terms, EnqueueOnTakeover(k) PROVE MemoryOK'
  BY <1>0, <1>4 DEF EnqueueOnTakeover, triggers, MemoryOK
<1>5. ASSUME NEW h \in Hosts, WakeUp(h) PROVE MemoryOK'
  BY <1>0, <1>5 DEF WakeUp, triggers, MemoryOK
<1>6. ASSUME NEW h \in Hosts, Stepdown(h) PROVE MemoryOK'
  <2>1. term \in Terms /\ GoneOn(term, h, ToVisit(h), lock[h])
    BY <1>0, <1>6, StepdownEffect
  <2>2. loop' \in [Terms -> LoopType] /\ lock' \in [Hosts -> [Workflows -> Seq(LockOwners)]]
    BY <1>0, <2>1 DEF GoneOn, MemoryOK
  <2>3. QED
    BY <1>0, <1>6, <2>2 DEF Stepdown, tables, triggers, MemoryOK
<1>7. ASSUME NEW k \in Terms, TeardownTimesOut(k) PROVE MemoryOK'
  <2>1. /\ led[k] \in Hosts /\ loop[k].at \in Workflows /\ loop' \in [Terms -> LoopType]
        /\ lock' \in [Hosts -> [Workflows -> Seq(LockOwners)]]
    BY <1>0, <1>7, TimesOutEffect
  <2>2. faults' \in 0 .. MaxFaults
    BY <1>0, <1>7, ConstantFacts DEF TeardownTimesOut, Fault, MemoryOK
  <2>3. amiss' \subseteq Hosts \X Workflows \X Reasons
    BY <1>0, <1>7, <2>1 DEF TeardownTimesOut, Blame, MemoryOK, Reasons
  <2>4. QED
    BY <1>0, <1>7, <2>1, <2>2, <2>3 DEF TeardownTimesOut, tables, triggers, MemoryOK
<1>8. ASSUME NEW k \in Terms, TeardownRemoves(k) PROVE MemoryOK'
  <2>1. /\ led[k] \in Hosts /\ loop[k].at \in Workflows /\ Unregisters(led[k], loop[k].at)
        /\ GoneOn(k, led[k], loop[k].todo, LockLeft(k))
    BY <1>0, <1>8, RemovesEffect
  <2>2. loop' \in [Terms -> LoopType] /\ lock' \in [Hosts -> [Workflows -> Seq(LockOwners)]]
    BY <1>0, <2>1 DEF GoneOn, MemoryOK
  <2>3. amiss' \subseteq Hosts \X Workflows \X Reasons
    BY <1>0, <1>8, <2>1 DEF TeardownRemoves, Blame, MemoryOK, Reasons
  <2>4. QED
    BY <1>0, <1>8, <2>1, <2>2, <2>3 DEF TeardownRemoves, Unregisters, tables, MemoryOK
<1>8a. ASSUME NEW k \in Terms, TeardownFails(k) PROVE MemoryOK'
  <2>1. /\ led[k] \in Hosts /\ loop[k].at \in Workflows /\ loop[k].todo \in SUBSET Workflows
        /\ loop' \in [Terms -> LoopType] /\ lock' \in [Hosts -> [Workflows -> Seq(LockOwners)]]
    BY <1>0, <1>8a, FailsEffect
  <2>2. faults' \in 0 .. MaxFaults
    BY <1>0, <1>8a, ConstantFacts DEF TeardownFails, Fault, MemoryOK
  <2>3. amiss' \subseteq Hosts \X Workflows \X Reasons
    BY <1>0, <1>8a, <2>1 DEF TeardownFails, MemoryOK, Reasons
  <2>4. QED
    BY <1>0, <1>8a, <2>1, <2>2, <2>3 DEF TeardownFails, tables, triggers, MemoryOK
<1>9. ASSUME NEW h \in Hosts, ClaimNextPendingRecord(h) PROVE MemoryOK'
  <2>1. (\E r \in rows : Claims(h, r)) /\ faults' \in 0 .. MaxFaults
    BY <1>0, <1>9, ClaimEffect
  <2>2. PICK r \in rows : Claims(h, r)
    BY <2>1
  <2>3. amiss' \subseteq Hosts \X Workflows \X Reasons
    BY <1>0, <2>2 DEF Claims, MemoryOK, Reasons
  <2>4. drain' \in [Hosts -> DrainType]
    BY <2>2 DEF Claims
  <2>5. QED
    BY <1>0, <1>9, <2>1, <2>3, <2>4 DEF ClaimNextPendingRecord, triggers, MemoryOK
<1>10. ASSUME NEW h \in Hosts, Acquire(h) PROVE MemoryOK'
  <2>1. Moves(h, "waiting") /\ lock' \in [Hosts -> [Workflows -> Seq(LockOwners)]]
    BY <1>0, <1>10, AcquireEffect
  <2>2. QED
    BY <1>0, <1>10, <2>1 DEF Acquire, Moves, tables, triggers, MemoryOK
<1>11. ASSUME NEW h \in Hosts, Enter(h) PROVE MemoryOK'
  <2>1. Moves(h, "resolve")
    BY <1>0, <1>11, GoEffect DEF Enter, DrainSteps
  <2>2. QED
    BY <1>0, <1>11, <2>1 DEF Enter, Moves, tables, triggers, MemoryOK
<1>12. ASSUME NEW h \in Hosts, ReturnToPending(h) PROVE MemoryOK'
  <2>1. HasLock(h)
    BY <1>12 DEF ReturnToPending
  <2>2. Releases(h)
    BY <1>0, <1>12, <2>1, LockHeld, ReleaseEffect DEF ReturnToPending
  <2>3. QED
    BY <1>0, <1>12, <2>2 DEF ReturnToPending, Releases, triggers, MemoryOK
<1>13. ASSUME NEW h \in Hosts, Resolve(h) PROVE MemoryOK'
  <2>1. Resolves(h)
    BY <1>0, <1>13, ResolveEffect
  <2>2. QED
    BY <1>0, <1>13, <2>1 DEF Resolve, Resolves, tables, triggers, MemoryOK
<1>14. ASSUME NEW h \in Hosts, Deactivate(h) PROVE MemoryOK'
  <2>1. drain[h].w \in Workflows
    BY <1>0, <1>14 DEF LockInv, Deactivate
  <2>2. PICK step \in {"advance", "unmap"} : Moves(h, step)
    BY <1>0, <1>14, GoEffect DEF Deactivate, DrainSteps
  <2>3. Unregisters(h, drain[h].w)
    BY <1>0, <1>14, <2>1, UnregisterEffect DEF Deactivate
  <2>4. QED
    BY <1>0, <1>14, <2>2, <2>3 DEF Deactivate, Moves, Unregisters, MemoryOK
<1>15. ASSUME NEW h \in Hosts, AdvancePublishedVersion(h) PROVE MemoryOK'
  <2>1. PICK step \in {"add", "report"} : Moves(h, step)
    BY <1>0, <1>15, GoEffect DEF AdvancePublishedVersion, DrainSteps
  <2>2. QED
    BY <1>0, <1>15, <2>1 DEF AdvancePublishedVersion, Moves, triggers, MemoryOK
<1>16. ASSUME NEW h \in Hosts, RemovePublishedVersion(h) PROVE MemoryOK'
  <2>1. Moves(h, "report")
    BY <1>0, <1>16, GoEffect DEF RemovePublishedVersion, DrainSteps
  <2>2. QED
    BY <1>0, <1>16, <2>1 DEF RemovePublishedVersion, Moves, triggers, MemoryOK
<1>17. ASSUME NEW h \in Hosts, Activate(h) PROVE MemoryOK'
  <2>1. drain[h].w \in Workflows /\ drain[h].v \in Versions
    BY <1>0, <1>17, DrainFields DEF LockInv, Activate
  <2>2. Moves(h, "report")
    BY <1>0, <1>17, GoEffect DEF Activate, DrainSteps
  <2>3. RegistersAs(h, drain[h].w, drain[h].v)
    BY <1>0, <1>17, <2>1, RegisterEffect DEF Activate
  <2>4. amiss' \subseteq Hosts \X Workflows \X Reasons
    BY <1>0, <1>17 DEF Activate, MemoryOK
  <2>5. QED
    BY <1>0, <1>17, <2>2, <2>3, <2>4 DEF Activate, Moves, RegistersAs, MemoryOK
<1>18. ASSUME NEW h \in Hosts, Report(h) PROVE MemoryOK'
  <2>1. InCritical(h)
    BY <1>18 DEF Report, InCritical, Critical
  <2>2. Releases(h)
    BY <1>0, <1>18, <2>1, LockHeld, ReleaseEffect DEF Report
  <2>3. QED
    BY <1>0, <1>18, <2>2 DEF Report, Releases, triggers, MemoryOK
<1>19. ASSUME NEW h \in Hosts, DeactivateFails(h) PROVE MemoryOK'
  <2>1. drain[h].w \in Workflows
    BY <1>0, <1>19 DEF LockInv, DeactivateFails
  <2>2. Moves(h, "report")
    BY <1>0, <1>19, GoEffect DEF DeactivateFails, DrainSteps
  <2>3. registered' = registered \/ Unregisters(h, drain[h].w)
    BY <1>0, <1>19, <2>1, UnregisterEffect DEF DeactivateFails
  <2>4. faults' \in 0 .. MaxFaults
    BY <1>0, <1>19, ConstantFacts DEF DeactivateFails, Fault, MemoryOK
  <2>5. amiss' \subseteq Hosts \X Workflows \X Reasons
    BY <1>0, <1>19, <2>1 DEF DeactivateFails, Blame, MemoryOK, Reasons
  <2>6. QED
    BY <1>0, <1>19, <2>2, <2>3, <2>4, <2>5
       DEF DeactivateFails, Moves, Unregisters, MemoryOK
<1>20. ASSUME NEW h \in Hosts, ActivateFails(h) PROVE MemoryOK'
  <2>1. drain[h].w \in Workflows
    BY <1>0, <1>20 DEF LockInv, ActivateFails
  <2>2. Moves(h, "report")
    BY <1>0, <1>20, GoEffect DEF ActivateFails, DrainSteps
  <2>3. Unregisters(h, drain[h].w)
    BY <1>0, <1>20, <2>1, UnregisterEffect DEF ActivateFails
  <2>4. faults' \in 0 .. MaxFaults
    BY <1>0, <1>20, ConstantFacts DEF ActivateFails, Fault, MemoryOK
  <2>5. amiss' \subseteq Hosts \X Workflows \X Reasons
    BY <1>0, <1>20, <2>1 DEF ActivateFails, Blame, MemoryOK, Reasons
  <2>6. QED
    BY <1>0, <1>20, <2>2, <2>3, <2>4, <2>5
       DEF ActivateFails, Moves, Unregisters, MemoryOK
<1>21. ASSUME NEW h \in Hosts, ReportFails(h) PROVE MemoryOK'
  <2>1. InCritical(h)
    BY <1>21 DEF ReportFails, InCritical, Critical
  <2>2. Releases(h)
    BY <1>0, <1>21, <2>1, LockHeld, ReleaseEffect DEF ReportFails
  <2>3. faults' \in 0 .. MaxFaults
    BY <1>0, <1>21, ConstantFacts DEF ReportFails, Fault, MemoryOK
  <2>4. QED
    BY <1>0, <1>21, <2>2, <2>3 DEF ReportFails, Releases, triggers, MemoryOK
<1>22. ASSUME NEW h \in Hosts, Crash(h) PROVE MemoryOK'
  <2>1. /\ drain' \in [Hosts -> DrainType] /\ lock' \in [Hosts -> [Workflows -> Seq(LockOwners)]]
        /\ loop' \in [Terms -> LoopType] /\ registered' \in [Hosts -> [Workflows -> Versions]]
    BY <1>0, <1>22, CrashEffect
  <2>2. faults' \in 0 .. MaxFaults
    BY <1>0, <1>22, ConstantFacts DEF Crash, Fault, MemoryOK
  <2>3. /\ amiss' \subseteq Hosts \X Workflows \X Reasons
        /\ recovering' \subseteq Hosts \X Workflows \X Versions
    BY <1>0, <1>22 DEF Crash, MemoryOK
  <2>4. QED
    BY <1>0, <1>22, <2>1, <2>2, <2>3 DEF Crash, MemoryOK
<1>23. ASSUME NEW h \in Hosts, NEW w \in Workflows, TriggerFails(h, w) PROVE MemoryOK'
  <2>1. Unregisters(h, w)
    BY <1>0, <1>23, UnregisterEffect DEF TriggerFails
  <2>2. faults' \in 0 .. MaxFaults
    BY <1>0, <1>23, ConstantFacts DEF TriggerFails, Fault, MemoryOK
  <2>3. recovering' \subseteq Hosts \X Workflows \X Versions
    BY <1>0, <1>23 DEF TriggerFails, MemoryOK
  <2>4. QED
    BY <1>0, <1>23, <2>1, <2>2, <2>3 DEF TriggerFails, Unregisters, MemoryOK
<1>24. ASSUME NEW t \in recovering, Reactivate(t) PROVE MemoryOK'
  <2>1. t[1] \in Hosts /\ t[2] \in Workflows /\ t[3] \in Versions
    BY <1>0 DEF MemoryOK
  <2>2. RegistersAs(t[1], t[2], t[3])
    BY <1>0, <1>24, <2>1, RegisterEffect DEF Reactivate
  <2>3. /\ amiss' \subseteq Hosts \X Workflows \X Reasons
        /\ recovering' \subseteq Hosts \X Workflows \X Versions
    BY <1>0, <1>24, <2>1 DEF Reactivate, Blame, MemoryOK, Reasons
  <2>4. QED
    BY <1>0, <1>24, <2>2, <2>3 DEF Reactivate, RegistersAs, MemoryOK
<1>25. ASSUME NEW t \in recovering, ReactivateFails(t) PROVE MemoryOK'
  <2>1. t[1] \in Hosts /\ t[2] \in Workflows
    BY <1>0 DEF MemoryOK
  <2>2. /\ amiss' \subseteq Hosts \X Workflows \X Reasons
        /\ recovering' \subseteq Hosts \X Workflows \X Versions
    BY <1>0, <1>25, <2>1 DEF ReactivateFails, Blame, MemoryOK, Reasons
  <2>3. QED
    BY <1>0, <1>25, <2>2 DEF ReactivateFails, MemoryOK
<1>26. ASSUME UNCHANGED poVars PROVE MemoryOK'
  BY <1>0, <1>26 DEF poVars, triggers, MemoryOK
<1>27. QED
  BY <1>1, <1>2, <1>3, <1>4, <1>5, <1>6, <1>7, <1>8, <1>8a, <1>9,
     <1>10, <1>11, <1>12, <1>13, <1>14, <1>15, <1>16, <1>17, <1>18,
     <1>19, <1>20, <1>21, <1>22, <1>23, <1>24, <1>25, <1>26
     DEF PubNext, DrainStep, FailStep

\* Every variable keeps its type.
LEMMA TypesStep ==
    ASSUME PInv, [PubNext]_poVars
    PROVE  PubTypeOK'
<1>1. TablesOK'
  BY TablesStep
<1>2. PubTypeOK /\ TermInv /\ LockInv
  BY DEF PInv
<1>3. LeadershipOK' /\ MemoryOK'
  BY <1>2, LeadershipStep, MemoryStep
<1>4. QED
  BY <1>1, <1>3
     DEF PubTypeOK, TablesOK, LeadershipOK, MemoryOK, RowsDistinct, DrainType,
         LoopType

\* A term keeps its main.
LEMMA TermStep ==
    ASSUME PInv, [PubNext]_poVars
    PROVE  TermInv'
<1>0. PubTypeOK /\ TermInv /\ LockInv
  BY DEF PInv
<1>1. ASSUME NEW w \in Workflows, Publish(w) PROVE TermInv'
  BY <1>0, <1>1 DEF Publish, leadership, TermInv
<1>2. ASSUME NEW w \in Workflows, Unpublish(w) PROVE TermInv'
  BY <1>0, <1>2 DEF Unpublish, leadership, TermInv
<1>3. ASSUME NEW h \in Hosts, Takeover(h) PROVE TermInv'
  <2>1. /\ term \in Nat /\ term + 1 \in Terms /\ led \in [Terms -> Hosts \cup {NoHost}]
        /\ taking \in [Terms -> BOOLEAN] /\ NoHost \notin Hosts
    BY <1>0, <1>3, ConstantFacts DEF Takeover, PubTypeOK, Terms
  <2>2. \A k \in Terms : /\ k # term + 1 => led'[k] = led[k] /\ (taking'[k] <=> taking[k])
                         /\ k = term + 1 => led'[k] = h /\ led[k] = NoHost
    <3>1. term + 1 > term
      BY <2>1
    <3>2. led[term + 1] = NoHost
      BY <1>0, <2>1, <3>1 DEF TermInv
    <3>3. led' = [led EXCEPT ![term + 1] = h] /\ taking' = [taking EXCEPT ![term + 1] = TRUE]
      BY <1>3 DEF Takeover
    <3>4. QED
      BY <2>1, <3>2, <3>3
  <2>3. \A k \in Terms : k > term' => led'[k] = NoHost
    BY <1>0, <1>3, <2>1, <2>2, ConstantFacts DEF Takeover, TermInv
  <2>4. leader' # NoHost => term' \in Terms /\ led'[term'] = leader'
    BY <1>3, <2>1, <2>2 DEF Takeover
  <2>5. \A k \in Terms : taking'[k] => led'[k] \in Hosts
    BY <1>0, <2>2 DEF TermInv
  <2>6. loop' = loop
    BY <1>3 DEF Takeover
  <2>7. \A k \in Terms : loop'[k].step # "idle" => led'[k] \in Hosts /\ loop'[k].at \in Workflows
    BY <1>0, <2>1, <2>2, <2>6 DEF TermInv
  <2>8. QED
    BY <2>3, <2>4, <2>5, <2>7 DEF TermInv
<1>4. ASSUME NEW k \in Terms, EnqueueOnTakeover(k) PROVE TermInv'
  <2>1. \A j \in Terms : taking'[j] => taking[j]
    BY <1>0, <1>4 DEF EnqueueOnTakeover, PubTypeOK
  <2>2. QED
    BY <1>0, <1>4, <2>1 DEF EnqueueOnTakeover, TermInv
<1>5. ASSUME NEW h \in Hosts, WakeUp(h) PROVE TermInv'
  BY <1>0, <1>5 DEF WakeUp, leadership, TermInv
<1>6. ASSUME NEW h \in Hosts, Stepdown(h) PROVE TermInv'
  <2>1. term \in Terms /\ led[term] = h /\ GoneOn(term, h, ToVisit(h), lock[h])
    BY <1>0, <1>6, StepdownEffect
  <2>2. \A j \in Terms : j # term => loop'[j] = loop[j]
    BY <1>0, <2>1 DEF GoneOn, PubTypeOK
  <2>3. loop'[term].step # "idle" => led[term] \in Hosts /\ loop'[term].at \in Workflows
    BY <2>1 DEF GoneOn, NoLoop, ToVisit
  <2>4. QED
    BY <1>0, <1>6, <2>2, <2>3 DEF Stepdown, leadership, TermInv
<1>7. ASSUME NEW k \in Terms, TeardownTimesOut(k) PROVE TermInv'
  <2>1. /\ led[k] \in Hosts /\ loop[k].at \in Workflows /\ LoopOnly(k)
        /\ loop'[k].at = loop[k].at
    BY <1>0, <1>7, TimesOutEffect
  <2>2. QED
    BY <1>0, <1>7, <2>1 DEF TeardownTimesOut, leadership, LoopOnly, TermInv
<1>8. ASSUME NEW k \in Terms, TeardownRemoves(k) PROVE TermInv'
  <2>0. loop[k].todo \in SUBSET Workflows
    BY <1>0, <1>8, LoopAtWork DEF TeardownRemoves
  <2>1. led[k] \in Hosts /\ GoneOn(k, led[k], loop[k].todo, LockLeft(k))
    BY <1>0, <1>8, RemovesEffect
  <2>2. \A j \in Terms : j # k => loop'[j] = loop[j]
    BY <1>0, <2>1 DEF GoneOn, PubTypeOK
  <2>3. loop'[k].step # "idle" => led[k] \in Hosts /\ loop'[k].at \in Workflows
    BY <2>0, <2>1 DEF GoneOn, NoLoop
  <2>4. QED
    BY <1>0, <1>8, <2>2, <2>3 DEF TeardownRemoves, leadership, TermInv
<1>8a. ASSUME NEW k \in Terms, TeardownFails(k) PROVE TermInv'
  <2>1. LoopOnly(k) /\ loop'[k].step = "idle"
    BY <1>0, <1>8a, FailsEffect
  <2>2. QED
    BY <1>0, <1>8a, <2>1 DEF TeardownFails, leadership, LoopOnly, TermInv
<1>9. ASSUME NEW h \in Hosts, ClaimNextPendingRecord(h) PROVE TermInv'
  BY <1>0, <1>9 DEF ClaimNextPendingRecord, leadership, TermInv
<1>10. ASSUME NEW h \in Hosts, Acquire(h) PROVE TermInv'
  BY <1>0, <1>10 DEF Acquire, leadership, TermInv
<1>11. ASSUME NEW h \in Hosts, Enter(h) PROVE TermInv'
  BY <1>0, <1>11 DEF Enter, leadership, TermInv
<1>12. ASSUME NEW h \in Hosts, ReturnToPending(h) PROVE TermInv'
  BY <1>0, <1>12 DEF ReturnToPending, leadership, TermInv
<1>13. ASSUME NEW h \in Hosts, Resolve(h) PROVE TermInv'
  BY <1>0, <1>13 DEF Resolve, leadership, TermInv
<1>14. ASSUME NEW h \in Hosts, Deactivate(h) PROVE TermInv'
  BY <1>0, <1>14 DEF Deactivate, leadership, TermInv
<1>15. ASSUME NEW h \in Hosts, AdvancePublishedVersion(h) PROVE TermInv'
  BY <1>0, <1>15 DEF AdvancePublishedVersion, leadership, TermInv
<1>16. ASSUME NEW h \in Hosts, RemovePublishedVersion(h) PROVE TermInv'
  BY <1>0, <1>16 DEF RemovePublishedVersion, leadership, TermInv
<1>17. ASSUME NEW h \in Hosts, Activate(h) PROVE TermInv'
  BY <1>0, <1>17 DEF Activate, leadership, TermInv
<1>18. ASSUME NEW h \in Hosts, Report(h) PROVE TermInv'
  BY <1>0, <1>18 DEF Report, leadership, TermInv
<1>19. ASSUME NEW h \in Hosts, DeactivateFails(h) PROVE TermInv'
  BY <1>0, <1>19 DEF DeactivateFails, leadership, TermInv
<1>20. ASSUME NEW h \in Hosts, ActivateFails(h) PROVE TermInv'
  BY <1>0, <1>20 DEF ActivateFails, leadership, TermInv
<1>21. ASSUME NEW h \in Hosts, ReportFails(h) PROVE TermInv'
  BY <1>0, <1>21 DEF ReportFails, leadership, TermInv
<1>22. ASSUME NEW h \in Hosts, Crash(h) PROVE TermInv'
  <2>1. \A k \in Terms : IF led[k] = h THEN loop'[k] = NoLoop ELSE loop'[k] = loop[k]
    BY <1>0, <1>22, CrashEffect
  <2>2. \A k \in Terms : taking'[k] => taking[k]
    BY <1>22 DEF Crash
  <2>3. leader' # NoHost => leader' = leader
    BY <1>22 DEF Crash
  <2>4. \A k \in Terms : loop'[k].step # "idle" => loop'[k] = loop[k]
    BY <2>1 DEF NoLoop
  <2>5. term' = term /\ led' = led
    BY <1>22 DEF Crash
  <2>6. QED
    BY <1>0, <2>2, <2>3, <2>4, <2>5 DEF TermInv
<1>23. ASSUME NEW h \in Hosts, NEW w \in Workflows, TriggerFails(h, w) PROVE TermInv'
  BY <1>0, <1>23 DEF TriggerFails, leadership, TermInv
<1>24. ASSUME NEW t \in recovering, Reactivate(t) PROVE TermInv'
  BY <1>0, <1>24 DEF Reactivate, leadership, TermInv
<1>25. ASSUME NEW t \in recovering, ReactivateFails(t) PROVE TermInv'
  BY <1>0, <1>25 DEF ReactivateFails, leadership, TermInv
<1>26. ASSUME UNCHANGED poVars PROVE TermInv'
  BY <1>0, <1>26 DEF poVars, leadership, TermInv
<1>27. QED
  BY <1>1, <1>2, <1>3, <1>4, <1>5, <1>6, <1>7, <1>8, <1>8a, <1>9,
     <1>10, <1>11, <1>12, <1>13, <1>14, <1>15, <1>16, <1>17, <1>18,
     <1>19, <1>20, <1>21, <1>22, <1>23, <1>24, <1>25, <1>26
     DEF PubNext, DrainStep, FailStep

\* Inside its critical section a drain keeps the lock.
LEMMA LockKept ==
    ASSUME LockInv, NEW h \in Hosts, NEW step \in Critical, Moves(h, step),
           lock' = lock, loop' = loop, led' = led,
           drain[h].w \in Workflows, lock[h][drain[h].w] # <<>>, Head(lock[h][drain[h].w]) = Drain
    PROVE  LockInv'
<1>1. /\ drain'[h].step \in Critical /\ drain'[h].w = drain[h].w
      /\ \A i \in Hosts : i # h => drain'[i] = drain[i]
  BY DEF Moves, DrainOnly
<1>2. "idle" \notin Critical /\ "waiting" \notin Critical
  BY DEF Critical
<1>3. QED
  BY <1>1, <1>2 DEF LockInv, InCritical

\* Its release leaves the teardowns in the queue.
LEMMA LockReleased ==
    ASSUME PubTypeOK, TermInv, LockInv, NEW h \in Hosts, Releases(h), loop' = loop, led' = led,
           drain[h].w \in Workflows, lock[h][drain[h].w] # <<>>, Head(lock[h][drain[h].w]) = Drain
    PROVE  LockInv'
<1>1. drain'[h].step = "idle" /\ \A i \in Hosts : i # h => drain'[i] = drain[i]
  BY DEF Releases, DrainOnly, NoDrain
<1>2. lock[h][drain[h].w] \in Seq(LockOwners)
  BY DEF PubTypeOK
<1>3. ToSet(lock[h][drain[h].w]) = ToSet(lock'[h][drain[h].w]) \cup {Drain}
  BY <1>2, ToSetTail DEF Releases
<1>4. ASSUME NEW k \in Terms, loop[k].step = "locking"
      PROVE  k \in ToSet(lock'[led[k]][loop[k].at])
  <2>1. k \in ToSet(lock[led[k]][loop[k].at]) /\ led[k] \in Hosts /\ loop[k].at \in Workflows
    BY <1>4, LoopAtWork
  <2>2. k # Drain
    BY ConstantFacts
  <2>3. QED
    BY <1>3, <2>1, <2>2 DEF Releases
<1>5. ASSUME NEW i \in Hosts, i # h, NEW w \in Workflows PROVE lock'[i][w] = lock[i][w]
  BY <1>5 DEF Releases
<1>6. "idle" \notin Critical /\ "waiting" # "idle"
  BY DEF Critical
<1>7. QED
  <2>1. \A i \in Hosts : drain'[i].step # "idle" =>
           i # h /\ drain'[i] = drain[i] /\ drain[i].w \in Workflows
    BY <1>1 DEF LockInv
  <2>2. \A i \in Hosts : drain'[i].step # "idle" => lock'[i][drain[i].w] = lock[i][drain[i].w]
    BY <1>5, <2>1
  <2>3. \A i \in Hosts : drain'[i].step = "waiting" => Drain \in ToSet(lock'[i][drain'[i].w])
    BY <1>6, <2>1, <2>2 DEF LockInv
  <2>4. \A i \in Hosts : drain'[i].step \in Critical =>
           lock'[i][drain'[i].w] # <<>> /\ Head(lock'[i][drain'[i].w]) = Drain
    BY <1>6, <2>1, <2>2 DEF LockInv, InCritical
  <2>5. QED
    BY <1>4, <2>1, <2>3, <2>4 DEF LockInv, InCritical

\* Who waits stays in the queue of its lock, and the critical section keeps it.
LEMMA LockStep ==
    ASSUME PInv, [PubNext]_poVars
    PROVE  LockInv'
<1>0. PubTypeOK /\ TermInv /\ LockInv
  BY DEF PInv
<1>1. ASSUME NEW w \in Workflows, Publish(w) PROVE LockInv'
  BY <1>0, <1>1 DEF Publish, leadership, LockInv, InCritical
<1>2. ASSUME NEW w \in Workflows, Unpublish(w) PROVE LockInv'
  BY <1>0, <1>2 DEF Unpublish, leadership, LockInv, InCritical
<1>3. ASSUME NEW h \in Hosts, Takeover(h) PROVE LockInv'
  <2>1. term + 1 > term /\ term + 1 \in Nat
    BY <1>0, ConstantFacts DEF PubTypeOK
  <2>2. \A k \in Terms : loop[k].step = "locking" => led'[k] = led[k]
    BY <1>0, <1>3, <2>1, ConstantFacts DEF Takeover, TermInv, PubTypeOK
  <2>3. QED
    BY <1>0, <1>3, <2>2 DEF Takeover, LockInv, InCritical
<1>4. ASSUME NEW k \in Terms, EnqueueOnTakeover(k) PROVE LockInv'
  BY <1>0, <1>4 DEF EnqueueOnTakeover, leadership, LockInv, InCritical
<1>5. ASSUME NEW h \in Hosts, WakeUp(h) PROVE LockInv'
  BY <1>0, <1>5 DEF WakeUp, leadership, LockInv, InCritical
<1>6. ASSUME NEW h \in Hosts, Stepdown(h) PROVE LockInv'
  <2>1. term \in Terms /\ led[term] = h /\ GoneOn(term, h, ToVisit(h), lock[h])
    BY <1>0, <1>6, StepdownEffect
  <2>2. \A j \in Terms : j # term => loop'[j] = loop[j]
    BY <1>0, <2>1 DEF GoneOn, PubTypeOK
  <2>3. \A i \in Hosts : i # h => lock'[i] = lock[i]
    BY <1>0, <2>1 DEF GoneOn, PubTypeOK
  <2>4. \A x \in Workflows :
          /\ ToSet(lock[h][x]) \subseteq ToSet(lock'[h][x])
          /\ lock[h][x] # <<>> => lock'[h][x] # <<>> /\ Head(lock'[h][x]) = Head(lock[h][x])
    BY <2>1 DEF GoneOn
  <2>5. led' = led /\ drain' = drain
    BY <1>6 DEF Stepdown
  <2>6. ASSUME NEW j \in Terms, loop'[j].step = "locking"
        PROVE  j \in ToSet(lock'[led[j]][loop'[j].at])
    <3>1. CASE j = term
      BY <2>1, <2>6, <3>1 DEF GoneOn, NoLoop
    <3>2. CASE j # term
      <4>1. /\ j \in ToSet(lock[led[j]][loop[j].at]) /\ led[j] \in Hosts
            /\ loop[j].at \in Workflows /\ loop'[j] = loop[j]
        BY <1>0, <2>2, <2>6, <3>2, LoopAtWork
      <4>2. QED
        BY <2>3, <2>4, <4>1
    <3>3. QED
      BY <3>1, <3>2
  <2>7. \A i \in Hosts : drain[i].step = "waiting" => Drain \in ToSet(lock'[i][drain[i].w])
    BY <1>0, <2>3, <2>4 DEF LockInv
  <2>8. \A i \in Hosts : InCritical(i) =>
           lock'[i][drain[i].w] # <<>> /\ Head(lock'[i][drain[i].w]) = Drain
    BY <1>0, <2>3, <2>4 DEF LockInv, InCritical, Critical
  <2>9. QED
    BY <1>0, <2>5, <2>6, <2>7, <2>8 DEF LockInv, InCritical
<1>7. ASSUME NEW k \in Terms, TeardownTimesOut(k) PROVE LockInv'
  <2> DEFINE g == led[k]
             x == loop[k].at
  <2>1. /\ g \in Hosts /\ x \in Workflows /\ LoopOnly(k) /\ loop'[k].step = "forced"
        /\ LockOnly(g, x) /\ ToSet(lock[g][x]) \ {k} \subseteq ToSet(lock'[g][x])
        /\ lock'[g][x] # <<>> /\ Head(lock'[g][x]) = Head(lock[g][x])
    BY <1>0, <1>7, TimesOutEffect
  <2>2. led' = led /\ drain' = drain /\ k # Drain
    BY <1>7, ConstantFacts DEF TeardownTimesOut, leadership
  <2> HIDE DEF g, x
  <2>3. ASSUME NEW j \in Terms, loop'[j].step = "locking"
        PROVE  j \in ToSet(lock'[led[j]][loop'[j].at])
    <3>1. j # k /\ loop'[j] = loop[j]
      BY <2>1, <2>3 DEF LoopOnly
    <3>2. j \in ToSet(lock[led[j]][loop[j].at]) /\ led[j] \in Hosts /\ loop[j].at \in Workflows
      BY <1>0, <2>3, <3>1, LoopAtWork
    <3>3. QED
      BY <2>1, <3>1, <3>2 DEF LockOnly
  <2>4. \A i \in Hosts : drain[i].step = "waiting" => Drain \in ToSet(lock'[i][drain[i].w])
    BY <1>0, <2>1, <2>2 DEF LockInv, LockOnly
  <2>5. \A i \in Hosts : InCritical(i) =>
           lock'[i][drain[i].w] # <<>> /\ Head(lock'[i][drain[i].w]) = Drain
    BY <1>0, <2>1, <2>2 DEF LockInv, LockOnly, InCritical, Critical
  <2>6. QED
    BY <1>0, <2>2, <2>3, <2>4, <2>5 DEF LockInv, InCritical
<1>8. ASSUME NEW k \in Terms, TeardownRemoves(k) PROVE LockInv'
  <2> DEFINE g == led[k]
             x == loop[k].at
             lk == LockLeft(k)
  <2>1. /\ g \in Hosts /\ x \in Workflows /\ GoneOn(k, g, loop[k].todo, lk)
        /\ loop[k].step = "locking" => Head(lock[g][x]) = k
        /\ \A y \in Workflows :
              /\ ToSet(lock[g][y]) \ {k} \subseteq ToSet(lk[y])
              /\ y # x => lk[y] = lock[g][y]
              /\ loop[k].step # "locking" => lk[y] = lock[g][y]
    BY <1>0, <1>8, RemovesEffect
  <2> HIDE DEF g, x, lk
  <2>2. \A j \in Terms : j # k => loop'[j] = loop[j]
    BY <1>0, <2>1 DEF GoneOn, PubTypeOK
  <2>3. \A i \in Hosts : i # g => lock'[i] = lock[i]
    BY <1>0, <2>1 DEF GoneOn, PubTypeOK
  <2>4. \A y \in Workflows :
          /\ ToSet(lk[y]) \subseteq ToSet(lock'[g][y])
          /\ lk[y] # <<>> => lock'[g][y] # <<>> /\ Head(lock'[g][y]) = Head(lk[y])
    BY <2>1 DEF GoneOn
  <2>5. led' = led /\ drain' = drain /\ k # Drain
    BY <1>8, ConstantFacts DEF TeardownRemoves, leadership
  <2>6. ASSUME NEW j \in Terms, loop'[j].step = "locking"
        PROVE  j \in ToSet(lock'[led[j]][loop'[j].at])
    <3>1. CASE j = k
      BY <2>1, <2>6, <3>1 DEF GoneOn, NoLoop, g
    <3>2. CASE j # k
      <4>1. /\ j \in ToSet(lock[led[j]][loop[j].at]) /\ led[j] \in Hosts
            /\ loop[j].at \in Workflows /\ loop'[j] = loop[j]
        BY <1>0, <2>2, <2>6, <3>2, LoopAtWork
      <4>2. QED
        BY <2>1, <2>3, <2>4, <3>2, <4>1
    <3>3. QED
      BY <3>1, <3>2
  <2>7. \A i \in Hosts : drain[i].step = "waiting" => Drain \in ToSet(lock'[i][drain[i].w])
    BY <1>0, <2>1, <2>3, <2>4, <2>5 DEF LockInv
  <2>8. ASSUME NEW i \in Hosts, InCritical(i)
        PROVE  lock'[i][drain[i].w] # <<>> /\ Head(lock'[i][drain[i].w]) = Drain
    <3>1. /\ drain[i].w \in Workflows /\ lock[i][drain[i].w] # <<>>
          /\ Head(lock[i][drain[i].w]) = Drain
      BY <1>0, <2>8, LockHeld
    <3>2. i = g => lk[drain[i].w] = lock[i][drain[i].w]
      BY <2>1, <2>5, <3>1
    <3>3. QED
      BY <2>3, <2>4, <3>1, <3>2
  <2>9. QED
    BY <1>0, <2>5, <2>6, <2>7, <2>8 DEF LockInv, InCritical
<1>8a. ASSUME NEW k \in Terms, TeardownFails(k) PROVE LockInv'
  <2> DEFINE g == led[k]
             x == loop[k].at
  <2>1. /\ g \in Hosts /\ x \in Workflows /\ LoopOnly(k) /\ loop'[k].step = "idle"
        /\ LockOnly(g, x) /\ ToSet(lock[g][x]) \ {k} \subseteq ToSet(lock'[g][x])
        /\ lock'[g][x] = lock[g][x] \/ Head(lock[g][x]) = k
    BY <1>0, <1>8a, FailsEffect
  <2>2. led' = led /\ drain' = drain /\ k # Drain
    BY <1>8a, ConstantFacts DEF TeardownFails, leadership
  <2> HIDE DEF g, x
  <2>3. ASSUME NEW j \in Terms, loop'[j].step = "locking"
        PROVE  j \in ToSet(lock'[led[j]][loop'[j].at])
    <3>1. j # k /\ loop'[j] = loop[j]
      BY <2>1, <2>3 DEF LoopOnly
    <3>2. j \in ToSet(lock[led[j]][loop[j].at]) /\ led[j] \in Hosts /\ loop[j].at \in Workflows
      BY <1>0, <2>3, <3>1, LoopAtWork
    <3>3. QED
      BY <2>1, <3>1, <3>2 DEF LockOnly
  <2>4. \A i \in Hosts : drain[i].step = "waiting" => Drain \in ToSet(lock'[i][drain[i].w])
    BY <1>0, <2>1, <2>2 DEF LockInv, LockOnly
  <2>5. \A i \in Hosts : InCritical(i) =>
           lock'[i][drain[i].w] # <<>> /\ Head(lock'[i][drain[i].w]) = Drain
    BY <1>0, <2>1, <2>2 DEF LockInv, LockOnly, InCritical, Critical
  <2>6. QED
    BY <1>0, <2>2, <2>3, <2>4, <2>5 DEF LockInv, InCritical
<1>9. ASSUME NEW h \in Hosts, ClaimNextPendingRecord(h) PROVE LockInv'
  <2>1. PICK r \in rows : Claims(h, r)
    BY <1>0, <1>9, ClaimEffect
  <2>2. QED
    BY <1>0, <1>9, <2>1
       DEF Claims, DrainOnly, ClaimNextPendingRecord, leadership, LockInv,
           InCritical, Critical
<1>10. ASSUME NEW h \in Hosts, Acquire(h) PROVE LockInv'
  <2> DEFINE x == drain[h].w
  <2>1. /\ Moves(h, "waiting") /\ x \in Workflows /\ LockOnly(h, x)
        /\ lock[h][x] \in Seq(LockOwners) /\ lock'[h][x] = Append(lock[h][x], Drain)
    BY <1>0, <1>10, AcquireEffect
  <2>2. ToSet(lock'[h][x]) = ToSet(lock[h][x]) \cup {Drain}
    BY <2>1, ToSetAppend, ConstantFacts
  <2>3. /\ led' = led /\ loop' = loop /\ drain'[h].step = "waiting" /\ drain'[h].w = x
        /\ \A i \in Hosts : i # h => drain'[i] = drain[i]
    BY <1>10, <2>1 DEF Acquire, leadership, Moves, DrainOnly
  <2> HIDE DEF x
  <2>4. ASSUME NEW j \in Terms, loop[j].step = "locking"
        PROVE  j \in ToSet(lock'[led[j]][loop[j].at])
    <3>1. j \in ToSet(lock[led[j]][loop[j].at]) /\ led[j] \in Hosts /\ loop[j].at \in Workflows
      BY <1>0, <2>4, LoopAtWork
    <3>2. QED
      BY <2>1, <2>2, <3>1 DEF LockOnly
  <2>5. \A i \in Hosts, y \in Workflows : i # h => lock'[i][y] = lock[i][y]
    BY <2>1 DEF LockOnly
  <2>6. "waiting" \notin Critical /\ "idle" \notin Critical /\ "waiting" # "idle"
    BY DEF Critical
  <2>7. \A i \in Hosts : drain'[i].step # "idle" => drain'[i].w \in Workflows
    BY <1>0, <2>1, <2>3 DEF LockInv
  <2>8. \A i \in Hosts : drain'[i].step = "waiting" => Drain \in ToSet(lock'[i][drain'[i].w])
    BY <1>0, <2>2, <2>3, <2>5, <2>6 DEF LockInv
  <2>9. \A i \in Hosts : drain'[i].step \in Critical =>
           lock'[i][drain'[i].w] # <<>> /\ Head(lock'[i][drain'[i].w]) = Drain
    BY <1>0, <2>3, <2>5, <2>6 DEF LockInv, InCritical
  <2>10. QED
    BY <2>3, <2>4, <2>7, <2>8, <2>9 DEF LockInv, InCritical
<1>11. ASSUME NEW h \in Hosts, Enter(h) PROVE LockInv'
  <2>1. PICK step \in {"resolve"} : Moves(h, step)
    BY <1>0, <1>11, GoEffect DEF Enter, DrainSteps
  <2>2. HasLock(h)
    BY <1>11 DEF Enter
  <2>3. step \in Critical
    BY <2>1 DEF Critical
  <2>4. lock' = lock /\ loop' = loop /\ led' = led
    BY <1>11 DEF Enter, leadership
  <2>5. QED
    BY <1>0, <2>1, <2>2, <2>3, <2>4, LockHeld, LockKept
<1>12. ASSUME NEW h \in Hosts, ReturnToPending(h) PROVE LockInv'
  <2>1. HasLock(h)
    BY <1>12 DEF ReturnToPending
  <2>2. /\ drain[h].w \in Workflows /\ lock[h][drain[h].w] # <<>>
        /\ Head(lock[h][drain[h].w]) = Drain
    BY <1>0, <2>1, LockHeld
  <2>3. Releases(h)
    BY <1>0, <1>12, <2>2, ReleaseEffect DEF ReturnToPending
  <2>4. loop' = loop /\ led' = led
    BY <1>12 DEF ReturnToPending, leadership
  <2>5. QED
    BY <1>0, <2>2, <2>3, <2>4, LockReleased
<1>13. ASSUME NEW h \in Hosts, Resolve(h) PROVE LockInv'
  <2>1. Resolves(h) /\ InCritical(h)
    BY <1>0, <1>13, ResolveEffect DEF InCritical, Critical
  <2>2. /\ drain[h].w \in Workflows /\ lock[h][drain[h].w] # <<>>
        /\ Head(lock[h][drain[h].w]) = Drain
    BY <1>0, <2>1, LockHeld
  <2>3. /\ drain'[h].step \in Critical /\ drain'[h].w = drain[h].w
        /\ \A i \in Hosts : i # h => drain'[i] = drain[i]
    BY <2>1 DEF Resolves, DrainOnly, Critical
  <2>4. lock' = lock /\ loop' = loop /\ led' = led /\ "idle" \notin Critical /\ "waiting" \notin Critical
    BY <1>13 DEF Resolve, leadership, Critical
  <2>5. QED
    BY <1>0, <2>2, <2>3, <2>4 DEF LockInv, InCritical
<1>14. ASSUME NEW h \in Hosts, Deactivate(h) PROVE LockInv'
  <2>1. PICK step \in {"advance", "unmap"} : Moves(h, step)
    BY <1>0, <1>14, GoEffect DEF Deactivate, DrainSteps
  <2>2. InCritical(h)
    BY <1>14 DEF Deactivate, InCritical, Critical
  <2>3. step \in Critical
    BY <2>1 DEF Critical
  <2>4. lock' = lock /\ loop' = loop /\ led' = led
    BY <1>14 DEF Deactivate, leadership
  <2>5. QED
    BY <1>0, <2>1, <2>2, <2>3, <2>4, LockHeld, LockKept
<1>15. ASSUME NEW h \in Hosts, AdvancePublishedVersion(h) PROVE LockInv'
  <2>1. PICK step \in {"add", "report"} : Moves(h, step)
    BY <1>0, <1>15, GoEffect DEF AdvancePublishedVersion, DrainSteps
  <2>2. InCritical(h)
    BY <1>15 DEF AdvancePublishedVersion, InCritical, Critical
  <2>3. step \in Critical
    BY <2>1 DEF Critical
  <2>4. lock' = lock /\ loop' = loop /\ led' = led
    BY <1>15 DEF AdvancePublishedVersion, leadership
  <2>5. QED
    BY <1>0, <2>1, <2>2, <2>3, <2>4, LockHeld, LockKept
<1>16. ASSUME NEW h \in Hosts, RemovePublishedVersion(h) PROVE LockInv'
  <2>1. PICK step \in {"report"} : Moves(h, step)
    BY <1>0, <1>16, GoEffect DEF RemovePublishedVersion, DrainSteps
  <2>2. InCritical(h)
    BY <1>16 DEF RemovePublishedVersion, InCritical, Critical
  <2>3. step \in Critical
    BY <2>1 DEF Critical
  <2>4. lock' = lock /\ loop' = loop /\ led' = led
    BY <1>16 DEF RemovePublishedVersion, leadership
  <2>5. QED
    BY <1>0, <2>1, <2>2, <2>3, <2>4, LockHeld, LockKept
<1>17. ASSUME NEW h \in Hosts, Activate(h) PROVE LockInv'
  <2>1. PICK step \in {"report"} : Moves(h, step)
    BY <1>0, <1>17, GoEffect DEF Activate, DrainSteps
  <2>2. InCritical(h)
    BY <1>17 DEF Activate, InCritical, Critical
  <2>3. step \in Critical
    BY <2>1 DEF Critical
  <2>4. lock' = lock /\ loop' = loop /\ led' = led
    BY <1>17 DEF Activate, leadership
  <2>5. QED
    BY <1>0, <2>1, <2>2, <2>3, <2>4, LockHeld, LockKept
<1>18. ASSUME NEW h \in Hosts, Report(h) PROVE LockInv'
  <2>1. InCritical(h)
    BY <1>18 DEF Report, InCritical, Critical
  <2>2. /\ drain[h].w \in Workflows /\ lock[h][drain[h].w] # <<>>
        /\ Head(lock[h][drain[h].w]) = Drain
    BY <1>0, <2>1, LockHeld
  <2>3. Releases(h)
    BY <1>0, <1>18, <2>2, ReleaseEffect DEF Report
  <2>4. loop' = loop /\ led' = led
    BY <1>18 DEF Report, leadership
  <2>5. QED
    BY <1>0, <2>2, <2>3, <2>4, LockReleased
<1>19. ASSUME NEW h \in Hosts, DeactivateFails(h) PROVE LockInv'
  <2>1. PICK step \in {"report"} : Moves(h, step)
    BY <1>0, <1>19, GoEffect DEF DeactivateFails, DrainSteps
  <2>2. InCritical(h)
    BY <1>19 DEF DeactivateFails, InCritical, Critical
  <2>3. step \in Critical
    BY <2>1 DEF Critical
  <2>4. lock' = lock /\ loop' = loop /\ led' = led
    BY <1>19 DEF DeactivateFails, leadership
  <2>5. QED
    BY <1>0, <2>1, <2>2, <2>3, <2>4, LockHeld, LockKept
<1>20. ASSUME NEW h \in Hosts, ActivateFails(h) PROVE LockInv'
  <2>1. PICK step \in {"report"} : Moves(h, step)
    BY <1>0, <1>20, GoEffect DEF ActivateFails, DrainSteps
  <2>2. InCritical(h)
    BY <1>20 DEF ActivateFails, InCritical, Critical
  <2>3. step \in Critical
    BY <2>1 DEF Critical
  <2>4. lock' = lock /\ loop' = loop /\ led' = led
    BY <1>20 DEF ActivateFails, leadership
  <2>5. QED
    BY <1>0, <2>1, <2>2, <2>3, <2>4, LockHeld, LockKept
<1>21. ASSUME NEW h \in Hosts, ReportFails(h) PROVE LockInv'
  <2>1. InCritical(h)
    BY <1>21 DEF ReportFails, InCritical, Critical
  <2>2. /\ drain[h].w \in Workflows /\ lock[h][drain[h].w] # <<>>
        /\ Head(lock[h][drain[h].w]) = Drain
    BY <1>0, <2>1, LockHeld
  <2>3. Releases(h)
    BY <1>0, <1>21, <2>2, ReleaseEffect DEF ReportFails
  <2>4. loop' = loop /\ led' = led
    BY <1>21 DEF ReportFails, leadership
  <2>5. QED
    BY <1>0, <2>2, <2>3, <2>4, LockReleased
<1>22. ASSUME NEW h \in Hosts, Crash(h) PROVE LockInv'
  <2>1. /\ drain'[h].step = "idle" /\ \A i \in Hosts : i # h => drain'[i] = drain[i]
        /\ \A i \in Hosts : i # h => lock'[i] = lock[i]
        /\ \A k \in Terms : loop'[k].step # "idle" => led[k] # h /\ loop'[k] = loop[k]
    BY <1>0, <1>22, CrashEffect DEF DrainOnly, NoDrain, NoLoop
  <2>2. led' = led /\ "idle" \notin Critical /\ "waiting" # "idle"
    BY <1>22 DEF Crash, Critical
  <2>3. \A k \in Terms : loop'[k].step = "locking" => k \in ToSet(lock'[led[k]][loop'[k].at])
    BY <1>0, <2>1 DEF LockInv, TermInv
  <2>4. \A i \in Hosts : drain'[i].step # "idle" => i # h /\ drain'[i] = drain[i]
    BY <2>1
  <2>5. QED
    BY <1>0, <2>1, <2>2, <2>3, <2>4 DEF LockInv, InCritical
<1>23. ASSUME NEW h \in Hosts, NEW w \in Workflows, TriggerFails(h, w) PROVE LockInv'
  BY <1>0, <1>23 DEF TriggerFails, leadership, LockInv, InCritical
<1>24. ASSUME NEW t \in recovering, Reactivate(t) PROVE LockInv'
  BY <1>0, <1>24 DEF Reactivate, leadership, LockInv, InCritical
<1>25. ASSUME NEW t \in recovering, ReactivateFails(t) PROVE LockInv'
  BY <1>0, <1>25 DEF ReactivateFails, leadership, LockInv, InCritical
<1>26. ASSUME UNCHANGED poVars PROVE LockInv'
  BY <1>0, <1>26 DEF poVars, leadership, LockInv, InCritical
<1>27. QED
  BY <1>1, <1>2, <1>3, <1>4, <1>5, <1>6, <1>7, <1>8, <1>8a, <1>9,
     <1>10, <1>11, <1>12, <1>13, <1>14, <1>15, <1>16, <1>17, <1>18,
     <1>19, <1>20, <1>21, <1>22, <1>23, <1>24, <1>25, <1>26
     DEF PubNext, DrainStep, FailStep


-----------------------------------------------------------------------------
(* A main that does not lead *)

\* Who is in the critical section was there before, or leads.
NobodyEnters ==
    \A i \in Hosts : InCritical(i)' =>
        leader = i \/ (InCritical(i) /\ drain'[i].w = drain[i].w)

\* No trigger is registered.
NothingAdded ==
    \A i \in Hosts, x \in Workflows : registered'[i][x] \in {0, registered[i][x]}

\* A step that starts nothing and forgives nothing needs no teardown.
LEMMA QuietKept ==
    ASSUME CriticalInv, DemotedIsQuiet, leader' = leader, led' = led, loop' = loop,
           amiss \subseteq amiss', NobodyEnters, NothingAdded
    PROVE  CriticalInv' /\ DemotedIsQuiet'
<1>1. ASSUME NEW i \in Hosts, NEW x
      PROVE  /\ WillWait(i, x) => WillWait(i, x)'
             /\ TeardownOwed(i, x) => TeardownOwed(i, x)'
             /\ Excused(i, x, {"forced", "aborted"}) => Excused(i, x, {"forced", "aborted"})'
             /\ Excused(i, x, {"forced", "aborted", "recovered"}) =>
                   Excused(i, x, {"forced", "aborted", "recovered"})'
  BY DEF WillWait, TeardownOwed, Excused
<1>2. ASSUME NEW i \in Hosts, InCritical(i)', leader' # i
      PROVE  WillWait(i, drain[i].w)' \/ Excused(i, drain[i].w, {"forced", "aborted"})'
  <2>1. InCritical(i) /\ drain'[i].w = drain[i].w /\ leader # i
    BY <1>2 DEF NobodyEnters
  <2>2. WillWait(i, drain[i].w) \/ Excused(i, drain[i].w, {"forced", "aborted"})
    BY <2>1 DEF CriticalInv
  <2>3. QED
    BY <2>1, <2>2 DEF WillWait, Excused
<1>3. DemotedIsQuiet'
  BY <1>1 DEF DemotedIsQuiet, NothingAdded
<1>4. QED
  BY <1>2, <1>3 DEF CriticalInv

\* What a drain that moves, resolves or releases does to the critical sections.
LEMMA DrainEnters ==
    ASSUME NEW h \in Hosts, DrainOnly(h),
           drain'[h].step \notin Critical \/ (InCritical(h) /\ drain'[h].w = drain[h].w) \/ leader = h
    PROVE  NobodyEnters
BY DEF NobodyEnters, DrainOnly, InCritical

\* A main that loses leadership has a teardown behind it wherever it is needed.
LEMMA QuietStep ==
    ASSUME PInv, [PubNext]_poVars
    PROVE  CriticalInv' /\ DemotedIsQuiet'
<1>0. PubTypeOK /\ TermInv /\ LockInv /\ CriticalInv /\ DemotedIsQuiet
  BY DEF PInv
<1>1. ASSUME NEW w \in Workflows, Publish(w) PROVE CriticalInv' /\ DemotedIsQuiet'
  <2>1. NobodyEnters /\ NothingAdded
    BY <1>1 DEF Publish, triggers, NobodyEnters, NothingAdded, InCritical
  <2>2. leader' = leader /\ led' = led /\ loop' = loop /\ amiss \subseteq amiss'
    BY <1>1 DEF Publish, leadership, Blame
  <2>3. QED
    BY <1>0, <2>1, <2>2, QuietKept
<1>2. ASSUME NEW w \in Workflows, Unpublish(w) PROVE CriticalInv' /\ DemotedIsQuiet'
  <2>1. NobodyEnters /\ NothingAdded
    BY <1>2 DEF Unpublish, triggers, NobodyEnters, NothingAdded, InCritical
  <2>2. leader' = leader /\ led' = led /\ loop' = loop /\ amiss \subseteq amiss'
    BY <1>2 DEF Unpublish, leadership, Blame
  <2>3. QED
    BY <1>0, <2>1, <2>2, QuietKept
<1>3. ASSUME NEW h \in Hosts, Takeover(h) PROVE CriticalInv' /\ DemotedIsQuiet'
  <2>1. ASSUME NEW k \in Terms, loop[k].step # "idle" PROVE led'[k] = led[k]
    <3>1. term \in Nat /\ led \in [Terms -> Hosts \cup {NoHost}] /\ term + 1 > term
      BY <1>0, ConstantFacts DEF PubTypeOK
    <3>2. led[k] # NoHost
      BY <1>0, <2>1, ConstantFacts DEF TermInv
    <3>3. k # term + 1
      BY <1>0, <3>1, <3>2 DEF TermInv
    <3>4. QED
      BY <1>3, <3>1, <3>3 DEF Takeover
  <2>2. ASSUME NEW i \in Hosts, NEW x
        PROVE  TeardownOwed(i, x) => TeardownOwed(i, x)'
    BY <1>3, <2>1 DEF Takeover, TeardownOwed
  <2>3. /\ leader = NoHost /\ NoHost \notin Hosts
        /\ drain' = drain /\ registered' = registered /\ amiss' = amiss
    BY <1>3, ConstantFacts DEF Takeover, triggers
  <2>4. ASSUME NEW i \in Hosts, InCritical(i)
        PROVE  WillWait(i, drain[i].w)' \/ Excused(i, drain[i].w, {"forced", "aborted"})'
    <3>1. WillWait(i, drain[i].w) \/ Excused(i, drain[i].w, {"forced", "aborted"})
      BY <1>0, <2>3, <2>4 DEF CriticalInv
    <3>2. WillWait(i, drain[i].w) => \E k \in Terms :
            /\ led'[k] = i
            /\ \/ loop[k].step = "locking" /\ drain[i].w \in loop[k].todo \cup {loop[k].at}
               \/ loop[k].step = "forced" /\ drain[i].w \in loop[k].todo
      BY <2>1 DEF WillWait
    <3>3. loop' = loop
      BY <1>3 DEF Takeover
    <3>4. QED
      BY <2>3, <3>1, <3>2, <3>3 DEF WillWait, Excused
  <2>5. CriticalInv'
    BY <2>3, <2>4 DEF CriticalInv, InCritical, WillWait, Excused
  <2>6. DemotedIsQuiet'
    <3>1. ASSUME NEW i \in Hosts, NEW x \in Workflows, registered[i][x] # 0
          PROVE  TeardownOwed(i, x)' \/ Excused(i, x, {"forced", "aborted", "recovered"})'
      <4>1. TeardownOwed(i, x) \/ Excused(i, x, {"forced", "aborted", "recovered"})
        BY <1>0, <2>3, <3>1 DEF DemotedIsQuiet
      <4>2. Excused(i, x, {"forced", "aborted", "recovered"}) =>
              Excused(i, x, {"forced", "aborted", "recovered"})'
        BY <2>3 DEF Excused
      <4>3. QED
        BY <2>2, <4>1, <4>2
    <3>2. QED
      BY <2>3, <3>1 DEF DemotedIsQuiet
  <2>7. QED
    BY <2>5, <2>6
<1>4. ASSUME NEW k \in Terms, EnqueueOnTakeover(k) PROVE CriticalInv' /\ DemotedIsQuiet'
  <2>1. NobodyEnters /\ NothingAdded
    BY <1>4 DEF EnqueueOnTakeover, triggers, NobodyEnters, NothingAdded, InCritical
  <2>2. leader' = leader /\ led' = led /\ loop' = loop /\ amiss \subseteq amiss'
    BY <1>4 DEF EnqueueOnTakeover, leadership, Blame
  <2>3. QED
    BY <1>0, <2>1, <2>2, QuietKept
<1>5. ASSUME NEW h \in Hosts, WakeUp(h) PROVE CriticalInv' /\ DemotedIsQuiet'
  <2>1. NobodyEnters /\ NothingAdded
    BY <1>5 DEF WakeUp, triggers, NobodyEnters, NothingAdded, InCritical
  <2>2. leader' = leader /\ led' = led /\ loop' = loop /\ amiss \subseteq amiss'
    BY <1>5 DEF WakeUp, leadership, Blame
  <2>3. QED
    BY <1>0, <2>1, <2>2, QuietKept
<1>6. ASSUME NEW h \in Hosts, Stepdown(h) PROVE CriticalInv' /\ DemotedIsQuiet'
  <2>1. term \in Terms /\ led[term] = h /\ GoneOn(term, h, ToVisit(h), lock[h])
    BY <1>0, <1>6, StepdownEffect
  <2>2. \A j \in Terms : j # term => loop'[j] = loop[j]
    BY <1>0, <2>1 DEF GoneOn, PubTypeOK
  <2>3. ASSUME NEW x \in ToVisit(h)
        PROVE  loop'[term].step = "locking" /\ x \in loop'[term].todo \cup {loop'[term].at}
    BY <2>1, <2>3 DEF GoneOn
  <2>4. /\ leader = h /\ leader' = NoHost /\ led' = led /\ drain' = drain
        /\ registered' = registered /\ amiss' = amiss
    BY <1>6 DEF Stepdown, triggers
  <2>5. ASSUME NEW i \in Hosts, InCritical(i)
        PROVE  WillWait(i, drain[i].w)' \/ Excused(i, drain[i].w, {"forced", "aborted"})'
    <3>1. CASE i = h
      <4>1. drain[h].w \in ToVisit(h)
        BY <1>0, <2>5, <3>1, LockHeld DEF ToVisit
      <4>2. QED
        BY <2>1, <2>3, <2>4, <3>1, <4>1 DEF WillWait
    <3>2. CASE i # h
      <4>1. WillWait(i, drain[i].w) \/ Excused(i, drain[i].w, {"forced", "aborted"})
        BY <1>0, <2>4, <2>5, <3>2 DEF CriticalInv
      <4>2. \A j \in Terms : led[j] = i => loop'[j] = loop[j]
        BY <2>1, <2>2, <3>2
      <4>3. QED
        BY <2>4, <4>1, <4>2 DEF WillWait, Excused
    <3>3. QED
      BY <3>1, <3>2
  <2>6. CriticalInv'
    BY <2>4, <2>5 DEF CriticalInv, InCritical, WillWait, Excused
  <2>7. ASSUME NEW i \in Hosts, NEW x \in Workflows, registered[i][x] # 0
        PROVE  TeardownOwed(i, x)' \/ Excused(i, x, {"forced", "aborted", "recovered"})'
    <3>1. CASE i = h
      <4>1. x \in ToVisit(h)
        BY <2>7, <3>1 DEF ToVisit
      <4>2. QED
        BY <2>1, <2>3, <2>4, <3>1, <4>1 DEF TeardownOwed
    <3>2. CASE i # h
      <4>1. TeardownOwed(i, x) \/ Excused(i, x, {"forced", "aborted", "recovered"})
        BY <1>0, <2>4, <2>7, <3>2 DEF DemotedIsQuiet
      <4>2. \A j \in Terms : led[j] = i => loop'[j] = loop[j]
        BY <2>1, <2>2, <3>2
      <4>3. QED
        BY <2>4, <4>1, <4>2 DEF TeardownOwed, Excused
    <3>3. QED
      BY <3>1, <3>2
  <2>8. DemotedIsQuiet'
    BY <2>4, <2>7 DEF DemotedIsQuiet
  <2>9. QED
    BY <2>6, <2>8
<1>7. ASSUME NEW k \in Terms, TeardownTimesOut(k) PROVE CriticalInv' /\ DemotedIsQuiet'
  <2>1. /\ led[k] \in Hosts /\ loop[k].at \in Workflows /\ loop[k].step = "locking" /\ LoopOnly(k)
        /\ loop'[k].step = "forced" /\ loop'[k].at = loop[k].at /\ loop'[k].todo = loop[k].todo
    BY <1>0, <1>7, TimesOutEffect
  <2>2. /\ leader' = leader /\ led' = led /\ drain' = drain /\ registered' = registered
        /\ amiss \subseteq amiss' /\ <<led[k], loop[k].at, "forced">> \in amiss'
    BY <1>7 DEF TeardownTimesOut, leadership, triggers, Blame
  <2>3. ASSUME NEW i \in Hosts, InCritical(i), leader # i
        PROVE  WillWait(i, drain[i].w)' \/ Excused(i, drain[i].w, {"forced", "aborted"})'
    <3>1. WillWait(i, drain[i].w) \/ Excused(i, drain[i].w, {"forced", "aborted"})
      BY <1>0, <2>3 DEF CriticalInv
    <3>2. CASE i = led[k] /\ drain[i].w = loop[k].at
      BY <2>2, <3>2 DEF Excused
    <3>3. CASE i # led[k] \/ drain[i].w # loop[k].at
      BY <2>1, <2>2, <3>1, <3>3 DEF WillWait, Excused, LoopOnly
    <3>4. QED
      BY <3>2, <3>3
  <2>4. CriticalInv'
    BY <2>2, <2>3 DEF CriticalInv, InCritical, WillWait, Excused
  <2>5. ASSUME NEW i \in Hosts, NEW x PROVE TeardownOwed(i, x) => TeardownOwed(i, x)'
    BY <2>1, <2>2 DEF TeardownOwed, LoopOnly
  <2>6. DemotedIsQuiet'
    BY <1>0, <2>2, <2>5 DEF DemotedIsQuiet, Excused
  <2>7. QED
    BY <2>4, <2>6
<1>8. ASSUME NEW k \in Terms, TeardownRemoves(k) PROVE CriticalInv' /\ DemotedIsQuiet'
  <2> DEFINE g == led[k]
             y == loop[k].at
  <2>1. /\ g \in Hosts /\ y \in Workflows /\ Unregisters(g, y)
        /\ GoneOn(k, g, loop[k].todo, LockLeft(k))
        /\ loop[k].step = "locking" => Head(lock[g][y]) = k
    BY <1>0, <1>8, RemovesEffect
  <2>2. \A j \in Terms : j # k => loop'[j] = loop[j]
    BY <1>0, <2>1 DEF GoneOn, PubTypeOK
  <2>3. ASSUME NEW x \in loop[k].todo
        PROVE  loop'[k].step = "locking" /\ x \in loop'[k].todo \cup {loop'[k].at}
    BY <2>1, <2>3 DEF GoneOn
  <2>4. /\ leader' = leader /\ led' = led /\ drain' = drain /\ amiss \subseteq amiss' /\ k # Drain
    BY <1>8, ConstantFacts DEF TeardownRemoves, leadership, Blame
  <2>5. ASSUME NEW i \in Hosts, InCritical(i), leader # i
        PROVE  WillWait(i, drain[i].w)' \/ Excused(i, drain[i].w, {"forced", "aborted"})'
    <3>1. WillWait(i, drain[i].w) \/ Excused(i, drain[i].w, {"forced", "aborted"})
      BY <1>0, <2>5 DEF CriticalInv
    <3>2. ~(i = g /\ drain[i].w = y /\ loop[k].step = "locking")
      BY <1>0, <2>1, <2>4, <2>5, LockHeld
    <3>3. QED
      BY <2>2, <2>3, <2>4, <3>1, <3>2 DEF WillWait, Excused
  <2>6. CriticalInv'
    BY <2>4, <2>5 DEF CriticalInv, InCritical, WillWait, Excused
  <2>7. ASSUME NEW i \in Hosts, NEW x \in Workflows, i # g \/ x # y
        PROVE  TeardownOwed(i, x) => TeardownOwed(i, x)'
    BY <2>2, <2>3, <2>4, <2>7 DEF TeardownOwed
  <2>8. ASSUME NEW i \in Hosts, NEW x \in Workflows, leader # i, registered'[i][x] # 0
        PROVE  TeardownOwed(i, x)' \/ Excused(i, x, {"forced", "aborted", "recovered"})'
    <3>1. (i # g \/ x # y) /\ registered[i][x] # 0
      BY <2>1, <2>8 DEF Unregisters
    <3>2. QED
      BY <1>0, <2>4, <2>7, <2>8, <3>1 DEF DemotedIsQuiet, Excused
  <2>9. DemotedIsQuiet'
    BY <2>4, <2>8 DEF DemotedIsQuiet
  <2>10. QED
    BY <2>6, <2>9
<1>8a. ASSUME NEW k \in Terms, TeardownFails(k) PROVE CriticalInv' /\ DemotedIsQuiet'
  <2>1. LoopOnly(k)
    BY <1>0, <1>8a, FailsEffect
  <2>2. /\ leader' = leader /\ led' = led /\ drain' = drain /\ registered' = registered
        /\ amiss \subseteq amiss'
        /\ \A x \in loop[k].todo \cup {loop[k].at} : <<led[k], x, "aborted">> \in amiss'
    BY <1>8a DEF TeardownFails, leadership, triggers
  <2>3. ASSUME NEW i \in Hosts, NEW x
        PROVE  /\ WillWait(i, x) => WillWait(i, x)' \/ <<i, x, "aborted">> \in amiss'
               /\ TeardownOwed(i, x) => TeardownOwed(i, x)' \/ <<i, x, "aborted">> \in amiss'
    BY <2>1, <2>2 DEF WillWait, TeardownOwed, LoopOnly
  <2>4. ASSUME NEW i \in Hosts, InCritical(i), leader # i
        PROVE  WillWait(i, drain[i].w)' \/ Excused(i, drain[i].w, {"forced", "aborted"})'
    <3>1. WillWait(i, drain[i].w) \/ Excused(i, drain[i].w, {"forced", "aborted"})
      BY <1>0, <2>4 DEF CriticalInv
    <3>2. PICK x : x = drain[i].w
      OBVIOUS
    <3>3. WillWait(i, x)' \/ Excused(i, x, {"forced", "aborted"})'
      BY <2>2, <2>3, <3>1, <3>2 DEF Excused
    <3>4. QED
      BY <2>2, <3>2, <3>3 DEF WillWait, Excused
  <2>5. CriticalInv'
    BY <2>2, <2>4 DEF CriticalInv, InCritical, WillWait, Excused
  <2>6. DemotedIsQuiet'
    BY <1>0, <2>2, <2>3 DEF DemotedIsQuiet, Excused
  <2>7. QED
    BY <2>5, <2>6
<1>9. ASSUME NEW h \in Hosts, ClaimNextPendingRecord(h)
      PROVE  CriticalInv' /\ DemotedIsQuiet'
  <2>1. PICK r \in rows : Claims(h, r)
    BY <1>0, <1>9, ClaimEffect
  <2>2. DrainOnly(h) /\ drain'[h].step \notin Critical /\ amiss \subseteq amiss'
    BY <2>1 DEF Claims, Critical
  <2>3. NobodyEnters
    BY <2>2, DrainEnters
  <2>4. leader' = leader /\ led' = led /\ loop' = loop /\ NothingAdded
    BY <1>9 DEF ClaimNextPendingRecord, leadership, triggers, NothingAdded
  <2>5. QED
    BY <1>0, <2>2, <2>3, <2>4, QuietKept
<1>10. ASSUME NEW h \in Hosts, Acquire(h) PROVE CriticalInv' /\ DemotedIsQuiet'
  <2>1. DrainOnly(h) /\ drain'[h].step \notin Critical
    BY <1>0, <1>10, AcquireEffect DEF Acquire, Moves, Critical
  <2>2. NobodyEnters
    BY <2>1, DrainEnters
  <2>3. leader' = leader /\ led' = led /\ loop' = loop /\ amiss \subseteq amiss' /\ NothingAdded
    BY <1>10 DEF Acquire, leadership, triggers, NothingAdded
  <2>4. QED
    BY <1>0, <2>2, <2>3, QuietKept
<1>11. ASSUME NEW h \in Hosts, Enter(h) PROVE CriticalInv' /\ DemotedIsQuiet'
  <2>1. DrainOnly(h) /\ leader = h
    BY <1>0, <1>11, GoEffect DEF Enter, Moves, DrainSteps
  <2>2. NobodyEnters
    BY <2>1, DrainEnters
  <2>3. leader' = leader /\ led' = led /\ loop' = loop /\ amiss \subseteq amiss' /\ NothingAdded
    BY <1>11 DEF Enter, leadership, triggers, NothingAdded
  <2>4. QED
    BY <1>0, <2>2, <2>3, QuietKept
<1>12. ASSUME NEW h \in Hosts, ReturnToPending(h) PROVE CriticalInv' /\ DemotedIsQuiet'
  <2>1. HasLock(h)
    BY <1>12 DEF ReturnToPending
  <2>2. Releases(h)
    BY <1>0, <1>12, <2>1, LockHeld, ReleaseEffect DEF ReturnToPending
  <2>3. NobodyEnters
    <3>1. DrainOnly(h) /\ drain'[h].step \notin Critical
      BY <2>2 DEF Releases, NoDrain, Critical
    <3>2. QED
      BY <3>1, DrainEnters
  <2>4. leader' = leader /\ led' = led /\ loop' = loop /\ amiss \subseteq amiss' /\ NothingAdded
    BY <1>12 DEF ReturnToPending, leadership, triggers, NothingAdded
  <2>5. QED
    BY <1>0, <2>3, <2>4, QuietKept
<1>13. ASSUME NEW h \in Hosts, Resolve(h) PROVE CriticalInv' /\ DemotedIsQuiet'
  <2>1. Resolves(h) /\ InCritical(h)
    BY <1>0, <1>13, ResolveEffect DEF InCritical, Critical
  <2>2. NobodyEnters
    <3>1. DrainOnly(h) /\ drain'[h].w = drain[h].w
      BY <2>1 DEF Resolves
    <3>2. QED
      BY <2>1, <3>1, DrainEnters
  <2>3. leader' = leader /\ led' = led /\ loop' = loop /\ amiss \subseteq amiss' /\ NothingAdded
    BY <1>13 DEF Resolve, leadership, triggers, NothingAdded
  <2>4. QED
    BY <1>0, <2>2, <2>3, QuietKept
<1>14. ASSUME NEW h \in Hosts, Deactivate(h) PROVE CriticalInv' /\ DemotedIsQuiet'
  <2>1. PICK step \in {"advance", "unmap"} : Moves(h, step)
    BY <1>0, <1>14, GoEffect DEF Deactivate, DrainSteps
  <2>2. InCritical(h)
    BY <1>14 DEF Deactivate, InCritical, Critical
  <2>3. NobodyEnters
    BY <2>1, <2>2, DrainEnters DEF Moves
  <2>4. NothingAdded
    <3>1. drain[h].w \in Workflows
      BY <1>0, <2>2, LockHeld
    <3>2. registered' = registered \/ Unregisters(h, drain[h].w)
      BY <1>0, <1>14, <3>1, UnregisterEffect DEF Deactivate
    <3>3. QED
      BY <3>2 DEF Unregisters, NothingAdded
  <2>5. leader' = leader /\ led' = led /\ loop' = loop /\ amiss \subseteq amiss'
    BY <1>14 DEF Deactivate, leadership, Blame
  <2>6. QED
    BY <1>0, <2>3, <2>4, <2>5, QuietKept
<1>15. ASSUME NEW h \in Hosts, AdvancePublishedVersion(h)
       PROVE  CriticalInv' /\ DemotedIsQuiet'
  <2>1. PICK step \in {"add", "report"} : Moves(h, step)
    BY <1>0, <1>15, GoEffect DEF AdvancePublishedVersion, DrainSteps
  <2>2. InCritical(h)
    BY <1>15 DEF AdvancePublishedVersion, InCritical, Critical
  <2>3. NobodyEnters
    BY <2>1, <2>2, DrainEnters DEF Moves
  <2>4. NothingAdded
    BY <1>15 DEF AdvancePublishedVersion, triggers, NothingAdded
  <2>5. leader' = leader /\ led' = led /\ loop' = loop /\ amiss \subseteq amiss'
    BY <1>15 DEF AdvancePublishedVersion, leadership, Blame
  <2>6. QED
    BY <1>0, <2>3, <2>4, <2>5, QuietKept
<1>16. ASSUME NEW h \in Hosts, RemovePublishedVersion(h)
       PROVE  CriticalInv' /\ DemotedIsQuiet'
  <2>1. PICK step \in {"report"} : Moves(h, step)
    BY <1>0, <1>16, GoEffect DEF RemovePublishedVersion, DrainSteps
  <2>2. InCritical(h)
    BY <1>16 DEF RemovePublishedVersion, InCritical, Critical
  <2>3. NobodyEnters
    BY <2>1, <2>2, DrainEnters DEF Moves
  <2>4. NothingAdded
    BY <1>16 DEF RemovePublishedVersion, triggers, NothingAdded
  <2>5. leader' = leader /\ led' = led /\ loop' = loop /\ amiss \subseteq amiss'
    BY <1>16 DEF RemovePublishedVersion, leadership, Blame
  <2>6. QED
    BY <1>0, <2>3, <2>4, <2>5, QuietKept
<1>17. ASSUME NEW h \in Hosts, Activate(h) PROVE CriticalInv' /\ DemotedIsQuiet'
  <2>1. InCritical(h) /\ drain[h].w \in Workflows /\ drain[h].v \in Versions
    BY <1>0, <1>17, LockHeld, DrainFields DEF Activate, InCritical, Critical
  <2>2. Moves(h, "report") /\ RegistersAs(h, drain[h].w, drain[h].v)
    BY <1>0, <1>17, <2>1, GoEffect, RegisterEffect DEF Activate, DrainSteps
  <2>3. leader' = leader /\ led' = led /\ loop' = loop
    BY <1>17 DEF Activate, leadership
  <2>4. ASSUME NEW i \in Hosts, NEW x \in Workflows, leader # i,
               NEW reason \in {"forced", "aborted", "recovered"}, <<i, x, reason>> \in amiss
        PROVE  <<i, x, reason>> \in amiss'
    BY <1>17, <2>4 DEF Activate
  <2>5. \A i \in Hosts : InCritical(i)' => InCritical(i) /\ drain'[i].w = drain[i].w
    BY <2>1, <2>2 DEF Moves, DrainOnly, InCritical
  <2>6. ASSUME NEW i \in Hosts, InCritical(i), leader # i
        PROVE  WillWait(i, drain[i].w)' \/ Excused(i, drain[i].w, {"forced", "aborted"})'
    <3>1. WillWait(i, drain[i].w) \/ Excused(i, drain[i].w, {"forced", "aborted"})
      BY <1>0, <2>6 DEF CriticalInv
    <3>2. drain[i].w \in Workflows
      BY <1>0, <2>6, LockHeld
    <3>3. (\A k \in Terms : led'[k] = led[k] /\ loop'[k] = loop[k]) /\ drain'[i].w = drain[i].w
      BY <2>2, <2>3 DEF Moves, DrainOnly
    <3>4. Excused(i, drain[i].w, {"forced", "aborted"}) =>
            \E a \in {"forced", "aborted"} : <<i, drain[i].w, a>> \in amiss'
      BY <2>4, <2>6, <3>2 DEF Excused
    <3>5. QED
      BY <3>1, <3>3, <3>4 DEF WillWait, Excused
  <2>7. CriticalInv'
    <3>1. ASSUME NEW i \in Hosts, InCritical(i)', leader' # i
          PROVE  WillWait(i, drain[i].w)' \/ Excused(i, drain[i].w, {"forced", "aborted"})'
      <4>1. InCritical(i) /\ drain'[i].w = drain[i].w /\ leader # i
        BY <2>3, <2>5, <3>1
      <4>2. QED
        BY <2>6, <4>1 DEF WillWait, Excused
    <3>2. QED
      BY <3>1 DEF CriticalInv
  <2>8. ASSUME NEW i \in Hosts, NEW x \in Workflows, leader # i, registered'[i][x] # 0
        PROVE  TeardownOwed(i, x)' \/ Excused(i, x, {"forced", "aborted", "recovered"})'
    <3>1. TeardownOwed(i, x) \/ Excused(i, x, {"forced", "aborted", "recovered"})
      <4>1. CASE i = h /\ x = drain[h].w
        <5>1. WillWait(i, x) \/ Excused(i, x, {"forced", "aborted"})
          BY <1>0, <2>1, <2>8, <4>1 DEF CriticalInv
        <5>2. QED
          BY <5>1 DEF WillWait, TeardownOwed, Excused
      <4>2. CASE i # h \/ x # drain[h].w
        BY <1>0, <2>2, <2>8, <4>2 DEF RegistersAs, DemotedIsQuiet
      <4>3. QED
        BY <4>1, <4>2
    <3>2. Excused(i, x, {"forced", "aborted", "recovered"}) =>
            Excused(i, x, {"forced", "aborted", "recovered"})'
      BY <2>4, <2>8 DEF Excused
    <3>3. TeardownOwed(i, x) => TeardownOwed(i, x)'
      BY <2>3 DEF TeardownOwed
    <3>4. QED
      BY <3>1, <3>2, <3>3
  <2>9. DemotedIsQuiet'
    BY <2>3, <2>8 DEF DemotedIsQuiet
  <2>10. QED
    BY <2>7, <2>9
<1>18. ASSUME NEW h \in Hosts, Report(h) PROVE CriticalInv' /\ DemotedIsQuiet'
  <2>1. InCritical(h)
    BY <1>18 DEF Report, InCritical, Critical
  <2>2. Releases(h)
    BY <1>0, <1>18, <2>1, LockHeld, ReleaseEffect DEF Report
  <2>3. NobodyEnters
    <3>1. DrainOnly(h) /\ drain'[h].step \notin Critical
      BY <2>2 DEF Releases, NoDrain, Critical
    <3>2. QED
      BY <3>1, DrainEnters
  <2>4. leader' = leader /\ led' = led /\ loop' = loop /\ amiss \subseteq amiss' /\ NothingAdded
    BY <1>18 DEF Report, leadership, triggers, NothingAdded
  <2>5. QED
    BY <1>0, <2>3, <2>4, QuietKept
<1>19. ASSUME NEW h \in Hosts, DeactivateFails(h) PROVE CriticalInv' /\ DemotedIsQuiet'
  <2>1. PICK step \in {"report"} : Moves(h, step)
    BY <1>0, <1>19, GoEffect DEF DeactivateFails, DrainSteps
  <2>2. InCritical(h)
    BY <1>19 DEF DeactivateFails, InCritical, Critical
  <2>3. NobodyEnters
    BY <2>1, <2>2, DrainEnters DEF Moves
  <2>4. NothingAdded
    <3>1. drain[h].w \in Workflows
      BY <1>0, <2>2, LockHeld
    <3>2. registered' = registered \/ Unregisters(h, drain[h].w)
      BY <1>0, <1>19, <3>1, UnregisterEffect DEF DeactivateFails
    <3>3. QED
      BY <3>2 DEF Unregisters, NothingAdded
  <2>5. leader' = leader /\ led' = led /\ loop' = loop /\ amiss \subseteq amiss'
    BY <1>19 DEF DeactivateFails, leadership, Blame
  <2>6. QED
    BY <1>0, <2>3, <2>4, <2>5, QuietKept
<1>20. ASSUME NEW h \in Hosts, ActivateFails(h) PROVE CriticalInv' /\ DemotedIsQuiet'
  <2>1. PICK step \in {"report"} : Moves(h, step)
    BY <1>0, <1>20, GoEffect DEF ActivateFails, DrainSteps
  <2>2. InCritical(h)
    BY <1>20 DEF ActivateFails, InCritical, Critical
  <2>3. NobodyEnters
    BY <2>1, <2>2, DrainEnters DEF Moves
  <2>4. NothingAdded
    <3>1. drain[h].w \in Workflows
      BY <1>0, <2>2, LockHeld
    <3>2. registered' = registered \/ Unregisters(h, drain[h].w)
      BY <1>0, <1>20, <3>1, UnregisterEffect DEF ActivateFails
    <3>3. QED
      BY <3>2 DEF Unregisters, NothingAdded
  <2>5. leader' = leader /\ led' = led /\ loop' = loop /\ amiss \subseteq amiss'
    BY <1>20 DEF ActivateFails, leadership, Blame
  <2>6. QED
    BY <1>0, <2>3, <2>4, <2>5, QuietKept
<1>21. ASSUME NEW h \in Hosts, ReportFails(h) PROVE CriticalInv' /\ DemotedIsQuiet'
  <2>1. InCritical(h)
    BY <1>21 DEF ReportFails, InCritical, Critical
  <2>2. Releases(h)
    BY <1>0, <1>21, <2>1, LockHeld, ReleaseEffect DEF ReportFails
  <2>3. NobodyEnters
    <3>1. DrainOnly(h) /\ drain'[h].step \notin Critical
      BY <2>2 DEF Releases, NoDrain, Critical
    <3>2. QED
      BY <3>1, DrainEnters
  <2>4. leader' = leader /\ led' = led /\ loop' = loop /\ amiss \subseteq amiss' /\ NothingAdded
    BY <1>21 DEF ReportFails, leadership, triggers, NothingAdded
  <2>5. QED
    BY <1>0, <2>3, <2>4, QuietKept
<1>22. ASSUME NEW h \in Hosts, Crash(h) PROVE CriticalInv' /\ DemotedIsQuiet'
  <2>1. /\ DrainOnly(h) /\ drain'[h].step = "idle"
        /\ \A k \in Terms : led[k] # h => loop'[k] = loop[k]
        /\ \A x \in Workflows : registered'[h][x] = 0
        /\ \A i \in Hosts : i # h => registered'[i] = registered[i]
    BY <1>0, <1>22, CrashEffect DEF NoDrain
  <2>2. led' = led /\ \A i \in Hosts : i # h /\ leader' # i => leader # i
    BY <1>22 DEF Crash
  <2>3. ASSUME NEW i \in Hosts, i # h, NEW x, NEW R, Excused(i, x, R)
        PROVE  Excused(i, x, R)'
    BY <1>22, <2>3 DEF Crash, Excused
  <2>4. ASSUME NEW i \in Hosts, InCritical(i)', leader' # i
        PROVE  WillWait(i, drain[i].w)' \/ Excused(i, drain[i].w, {"forced", "aborted"})'
    <3>1. i # h /\ drain'[i] = drain[i] /\ InCritical(i) /\ leader # i
      BY <2>1, <2>2, <2>4 DEF DrainOnly, InCritical, Critical
    <3>2. WillWait(i, drain[i].w) \/ Excused(i, drain[i].w, {"forced", "aborted"})
      BY <1>0, <3>1 DEF CriticalInv
    <3>3. WillWait(i, drain[i].w) => WillWait(i, drain[i].w)'
      BY <2>1, <2>2, <3>1 DEF WillWait
    <3>4. Excused(i, drain[i].w, {"forced", "aborted"}) =>
            Excused(i, drain[i].w, {"forced", "aborted"})'
      BY <1>22, <3>1 DEF Crash, Excused
    <3>5. QED
      BY <3>2, <3>3, <3>4
  <2>5. CriticalInv'
    BY <2>4 DEF CriticalInv
  <2>6. ASSUME NEW i \in Hosts, NEW x \in Workflows, leader' # i, registered'[i][x] # 0
        PROVE  TeardownOwed(i, x)' \/ Excused(i, x, {"forced", "aborted", "recovered"})'
    <3>1. i # h /\ registered[i][x] # 0 /\ leader # i
      BY <2>1, <2>2, <2>6
    <3>2. TeardownOwed(i, x) \/ Excused(i, x, {"forced", "aborted", "recovered"})
      BY <1>0, <3>1 DEF DemotedIsQuiet
    <3>3. TeardownOwed(i, x) => TeardownOwed(i, x)'
      BY <2>1, <2>2, <3>1 DEF TeardownOwed
    <3>4. QED
      BY <2>3, <3>1, <3>2, <3>3
  <2>7. DemotedIsQuiet'
    BY <2>6 DEF DemotedIsQuiet
  <2>8. QED
    BY <2>5, <2>7
<1>23. ASSUME NEW h \in Hosts, NEW w \in Workflows, TriggerFails(h, w)
       PROVE  CriticalInv' /\ DemotedIsQuiet'
  <2>1. NothingAdded
    BY <1>0, <1>23, UnregisterEffect DEF TriggerFails, Unregisters, NothingAdded
  <2>2. /\ leader' = leader /\ led' = led /\ loop' = loop /\ amiss \subseteq amiss'
        /\ NobodyEnters
    BY <1>23 DEF TriggerFails, leadership, NobodyEnters, InCritical
  <2>3. QED
    BY <1>0, <2>1, <2>2, QuietKept
<1>24. ASSUME NEW t \in recovering, Reactivate(t) PROVE CriticalInv' /\ DemotedIsQuiet'
  <2>1. t[1] \in Hosts /\ t[2] \in Workflows /\ t[3] \in Versions
    BY <1>0 DEF PubTypeOK
  <2>2. RegistersAs(t[1], t[2], t[3])
    BY <1>0, <1>24, <2>1, RegisterEffect DEF Reactivate
  <2>3. /\ leader' = leader /\ led' = led /\ loop' = loop /\ drain' = drain
        /\ amiss \subseteq amiss' /\ <<t[1], t[2], "recovered">> \in amiss'
    BY <1>24 DEF Reactivate, leadership, Blame
  <2>4. CriticalInv'
    BY <1>0, <2>3 DEF CriticalInv, InCritical, WillWait, Excused
  <2>5. ASSUME NEW i \in Hosts, NEW x \in Workflows, leader # i, registered'[i][x] # 0
        PROVE  TeardownOwed(i, x)' \/ Excused(i, x, {"forced", "aborted", "recovered"})'
    <3>1. CASE i = t[1] /\ x = t[2]
      BY <2>3, <3>1 DEF Excused
    <3>2. CASE i # t[1] \/ x # t[2]
      <4>1. TeardownOwed(i, x) \/ Excused(i, x, {"forced", "aborted", "recovered"})
        BY <1>0, <2>2, <2>5, <3>2 DEF RegistersAs, DemotedIsQuiet
      <4>2. QED
        BY <2>3, <4>1 DEF TeardownOwed, Excused
    <3>3. QED
      BY <3>1, <3>2
  <2>6. DemotedIsQuiet'
    BY <2>3, <2>5 DEF DemotedIsQuiet
  <2>7. QED
    BY <2>4, <2>6
<1>25. ASSUME NEW t \in recovering, ReactivateFails(t)
       PROVE  CriticalInv' /\ DemotedIsQuiet'
  <2>1. NobodyEnters /\ NothingAdded
    BY <1>25 DEF ReactivateFails, triggers, NobodyEnters, NothingAdded, InCritical
  <2>2. leader' = leader /\ led' = led /\ loop' = loop /\ amiss \subseteq amiss'
    BY <1>25 DEF ReactivateFails, leadership, Blame
  <2>3. QED
    BY <1>0, <2>1, <2>2, QuietKept
<1>26. ASSUME UNCHANGED poVars PROVE CriticalInv' /\ DemotedIsQuiet'
  <2>1. NobodyEnters /\ NothingAdded
    BY <1>26 DEF poVars, triggers, NobodyEnters, NothingAdded, InCritical
  <2>2. leader' = leader /\ led' = led /\ loop' = loop /\ amiss \subseteq amiss'
    BY <1>26 DEF poVars, leadership, Blame
  <2>3. QED
    BY <1>0, <2>1, <2>2, QuietKept
<1>27. QED
  BY <1>1, <1>2, <1>3, <1>4, <1>5, <1>6, <1>7, <1>8, <1>8a, <1>9,
     <1>10, <1>11, <1>12, <1>13, <1>14, <1>15, <1>16, <1>17, <1>18,
     <1>19, <1>20, <1>21, <1>22, <1>23, <1>24, <1>25, <1>26
     DEF PubNext, DrainStep, FailStep


-----------------------------------------------------------------------------
(* Rows, records and versions *)

\* A drain keeps its record or lets go of it.
KeepsRecords ==
    \A i \in Hosts :
        \/ drain'[i].step = "idle"
        \/ /\ drain[i].step # "idle" /\ drain'[i].w = drain[i].w
           /\ drain'[i].id = drain[i].id /\ drain'[i].v = drain[i].v

\* That a row was claimed over is never forgotten.
KeepsOverruns ==
    \A i \in Hosts, x \in Workflows : <<i, x, "overrun">> \in amiss => <<i, x, "overrun">> \in amiss'

SameTables ==
    /\ active' = active /\ latest' = latest /\ published' = published
    /\ rows' = rows /\ changes' = changes

\* The steps that write the tables.
TableCases ==
    \/ KeepsRecords /\ SameTables
    \/ \E w \in Workflows : Publish(w) \/ Unpublish(w)
    \/ \E k \in Terms : EnqueueOnTakeover(k)
    \/ \E h \in Hosts :
          \/ ClaimNextPendingRecord(h)
          \/ /\ KeepsRecords
             /\ \/ ReturnToPending(h) \/ Report(h)
                \/ AdvancePublishedVersion(h) \/ RemovePublishedVersion(h)

\* Only a claim gives a drain another record, and few steps write the tables.
LEMMA RecordStep ==
    ASSUME PubTypeOK, [PubNext]_poVars
    PROVE  KeepsOverruns /\ TableCases
<1>0. PubTypeOK
  OBVIOUS
<1>1. ASSUME NEW w \in Workflows, Publish(w) PROVE KeepsOverruns /\ TableCases
  <2>1. KeepsOverruns
    BY <1>1 DEF Publish, KeepsOverruns
  <2>2. QED
    BY <1>1, <2>1 DEF TableCases
<1>2. ASSUME NEW w \in Workflows, Unpublish(w) PROVE KeepsOverruns /\ TableCases
  <2>1. KeepsOverruns
    BY <1>2 DEF Unpublish, KeepsOverruns
  <2>2. QED
    BY <1>2, <2>1 DEF TableCases
<1>3. ASSUME NEW h \in Hosts, Takeover(h) PROVE KeepsOverruns /\ TableCases
  <2>1. KeepsRecords /\ KeepsOverruns
    BY <1>3 DEF Takeover, Blame, KeepsRecords, KeepsOverruns
  <2>2. QED
    BY <1>3, <2>1 DEF Takeover, tables, SameTables, TableCases
<1>4. ASSUME NEW k \in Terms, EnqueueOnTakeover(k) PROVE KeepsOverruns /\ TableCases
  <2>1. KeepsOverruns
    BY <1>4 DEF EnqueueOnTakeover, KeepsOverruns
  <2>2. QED
    BY <1>4, <2>1 DEF TableCases
<1>5. ASSUME NEW h \in Hosts, WakeUp(h) PROVE KeepsOverruns /\ TableCases
  <2>1. KeepsRecords /\ KeepsOverruns
    BY <1>5 DEF WakeUp, Blame, KeepsRecords, KeepsOverruns
  <2>2. QED
    BY <1>5, <2>1 DEF WakeUp, tables, SameTables, TableCases
<1>6. ASSUME NEW h \in Hosts, Stepdown(h) PROVE KeepsOverruns /\ TableCases
  <2>1. KeepsRecords /\ KeepsOverruns
    BY <1>6 DEF Stepdown, Blame, KeepsRecords, KeepsOverruns
  <2>2. QED
    BY <1>6, <2>1 DEF Stepdown, tables, SameTables, TableCases
<1>7. ASSUME NEW k \in Terms, TeardownTimesOut(k) PROVE KeepsOverruns /\ TableCases
  <2>1. KeepsRecords /\ KeepsOverruns
    BY <1>7 DEF TeardownTimesOut, Blame, KeepsRecords, KeepsOverruns
  <2>2. QED
    BY <1>7, <2>1 DEF TeardownTimesOut, tables, SameTables, TableCases
<1>8. ASSUME NEW k \in Terms, TeardownRemoves(k) PROVE KeepsOverruns /\ TableCases
  <2>1. KeepsRecords /\ KeepsOverruns
    BY <1>8 DEF TeardownRemoves, Blame, KeepsRecords, KeepsOverruns
  <2>2. QED
    BY <1>8, <2>1 DEF TeardownRemoves, tables, SameTables, TableCases
<1>8a. ASSUME NEW k \in Terms, TeardownFails(k) PROVE KeepsOverruns /\ TableCases
  <2>1. KeepsRecords /\ KeepsOverruns
    BY <1>8a DEF TeardownFails, KeepsRecords, KeepsOverruns
  <2>2. QED
    BY <1>8a, <2>1 DEF TeardownFails, tables, SameTables, TableCases
<1>9. ASSUME NEW h \in Hosts, ClaimNextPendingRecord(h) PROVE KeepsOverruns /\ TableCases
  <2>1. PICK r \in rows : Claims(h, r)
    BY <1>0, <1>9, ClaimEffect
  <2>2. amiss \subseteq amiss'
    BY <2>1 DEF Claims
  <2>3. QED
    BY <1>9, <2>2 DEF KeepsOverruns, TableCases
<1>10. ASSUME NEW h \in Hosts, Acquire(h) PROVE KeepsOverruns /\ TableCases
  <2>1. PICK step \in {"waiting"} : Moves(h, step)
    BY <1>0, <1>10, GoEffect DEF Acquire, DrainSteps
  <2>2. drain[h].step # "idle"
    BY <1>10 DEF Acquire, HasLock
  <2>3. KeepsRecords
    BY <2>1, <2>2 DEF Moves, DrainOnly, KeepsRecords
  <2>4. KeepsOverruns
    BY <1>10 DEF Acquire, Blame, KeepsOverruns
  <2>5. QED
    BY <1>10, <2>3, <2>4 DEF TableCases, SameTables, tables, Acquire
<1>11. ASSUME NEW h \in Hosts, Enter(h) PROVE KeepsOverruns /\ TableCases
  <2>1. PICK step \in {"resolve"} : Moves(h, step)
    BY <1>0, <1>11, GoEffect DEF Enter, DrainSteps
  <2>2. drain[h].step # "idle"
    BY <1>11 DEF Enter, HasLock
  <2>3. KeepsRecords
    BY <2>1, <2>2 DEF Moves, DrainOnly, KeepsRecords
  <2>4. KeepsOverruns
    BY <1>11 DEF Enter, Blame, KeepsOverruns
  <2>5. QED
    BY <1>11, <2>3, <2>4 DEF TableCases, SameTables, tables, Enter
<1>12. ASSUME NEW h \in Hosts, ReturnToPending(h) PROVE KeepsOverruns /\ TableCases
  <2>1. \A i \in Hosts : drain'[i] = drain[i] \/ drain'[i].step = "idle"
    BY <1>0, <1>12 DEF ReturnToPending, Release, NoDrain, PubTypeOK
  <2>2. KeepsRecords
    BY <2>1 DEF KeepsRecords
  <2>3. KeepsOverruns
    BY <1>12 DEF ReturnToPending, KeepsOverruns
  <2>4. QED
    BY <1>12, <2>2, <2>3 DEF TableCases
<1>13. ASSUME NEW h \in Hosts, Resolve(h) PROVE KeepsOverruns /\ TableCases
  <2>1. Resolves(h) /\ drain[h].step = "resolve"
    BY <1>0, <1>13, ResolveEffect
  <2>2. KeepsRecords
    BY <2>1 DEF Resolves, DrainOnly, KeepsRecords
  <2>3. KeepsOverruns
    BY <1>13 DEF Resolve, KeepsOverruns
  <2>4. QED
    BY <1>13, <2>2, <2>3 DEF TableCases, SameTables, tables, Resolve
<1>14. ASSUME NEW h \in Hosts, Deactivate(h) PROVE KeepsOverruns /\ TableCases
  <2>1. PICK step \in {"advance", "unmap"} : Moves(h, step)
    BY <1>0, <1>14, GoEffect DEF Deactivate, DrainSteps
  <2>2. drain[h].step # "idle"
    BY <1>14 DEF Deactivate, HasLock
  <2>3. KeepsRecords
    BY <2>1, <2>2 DEF Moves, DrainOnly, KeepsRecords
  <2>4. KeepsOverruns
    BY <1>14 DEF Deactivate, Blame, KeepsOverruns
  <2>5. QED
    BY <1>14, <2>3, <2>4 DEF TableCases, SameTables, tables, Deactivate
<1>15. ASSUME NEW h \in Hosts, AdvancePublishedVersion(h)
       PROVE  KeepsOverruns /\ TableCases
  <2>1. PICK step \in {"add", "report"} : Moves(h, step)
    BY <1>0, <1>15, GoEffect DEF AdvancePublishedVersion, DrainSteps
  <2>2. drain[h].step # "idle"
    BY <1>15 DEF AdvancePublishedVersion, HasLock
  <2>3. KeepsRecords
    BY <2>1, <2>2 DEF Moves, DrainOnly, KeepsRecords
  <2>4. KeepsOverruns
    BY <1>15 DEF AdvancePublishedVersion, Blame, KeepsOverruns
  <2>5. QED
    BY <1>15, <2>3, <2>4 DEF TableCases
<1>16. ASSUME NEW h \in Hosts, RemovePublishedVersion(h) PROVE KeepsOverruns /\ TableCases
  <2>1. PICK step \in {"report"} : Moves(h, step)
    BY <1>0, <1>16, GoEffect DEF RemovePublishedVersion, DrainSteps
  <2>2. drain[h].step # "idle"
    BY <1>16 DEF RemovePublishedVersion, HasLock
  <2>3. KeepsRecords
    BY <2>1, <2>2 DEF Moves, DrainOnly, KeepsRecords
  <2>4. KeepsOverruns
    BY <1>16 DEF RemovePublishedVersion, Blame, KeepsOverruns
  <2>5. QED
    BY <1>16, <2>3, <2>4 DEF TableCases
<1>17. ASSUME NEW h \in Hosts, Activate(h) PROVE KeepsOverruns /\ TableCases
  <2>1. PICK step \in {"report"} : Moves(h, step)
    BY <1>0, <1>17, GoEffect DEF Activate, DrainSteps
  <2>2. drain[h].step # "idle"
    BY <1>17 DEF Activate, HasLock
  <2>3. KeepsRecords
    BY <2>1, <2>2 DEF Moves, DrainOnly, KeepsRecords
  <2>4. KeepsOverruns
    BY <1>17 DEF Activate, Blame, KeepsOverruns
  <2>5. QED
    BY <1>17, <2>3, <2>4 DEF TableCases, SameTables, tables, Activate
<1>18. ASSUME NEW h \in Hosts, Report(h) PROVE KeepsOverruns /\ TableCases
  <2>1. \A i \in Hosts : drain'[i] = drain[i] \/ drain'[i].step = "idle"
    BY <1>0, <1>18 DEF Report, Release, NoDrain, PubTypeOK
  <2>2. KeepsRecords
    BY <2>1 DEF KeepsRecords
  <2>3. KeepsOverruns
    BY <1>18 DEF Report, KeepsOverruns
  <2>4. QED
    BY <1>18, <2>2, <2>3 DEF TableCases
<1>19. ASSUME NEW h \in Hosts, DeactivateFails(h) PROVE KeepsOverruns /\ TableCases
  <2>1. PICK step \in {"report"} : Moves(h, step)
    BY <1>0, <1>19, GoEffect DEF DeactivateFails, DrainSteps
  <2>2. drain[h].step # "idle"
    BY <1>19 DEF DeactivateFails, HasLock
  <2>3. KeepsRecords
    BY <2>1, <2>2 DEF Moves, DrainOnly, KeepsRecords
  <2>4. KeepsOverruns
    BY <1>19 DEF DeactivateFails, Blame, KeepsOverruns
  <2>5. QED
    BY <1>19, <2>3, <2>4 DEF TableCases, SameTables, tables, DeactivateFails
<1>20. ASSUME NEW h \in Hosts, ActivateFails(h) PROVE KeepsOverruns /\ TableCases
  <2>1. PICK step \in {"report"} : Moves(h, step)
    BY <1>0, <1>20, GoEffect DEF ActivateFails, DrainSteps
  <2>2. drain[h].step # "idle"
    BY <1>20 DEF ActivateFails, HasLock
  <2>3. KeepsRecords
    BY <2>1, <2>2 DEF Moves, DrainOnly, KeepsRecords
  <2>4. KeepsOverruns
    BY <1>20 DEF ActivateFails, Blame, KeepsOverruns
  <2>5. QED
    BY <1>20, <2>3, <2>4 DEF TableCases, SameTables, tables, ActivateFails
<1>21. ASSUME NEW h \in Hosts, ReportFails(h) PROVE KeepsOverruns /\ TableCases
  <2>1. \A i \in Hosts : drain'[i] = drain[i] \/ drain'[i].step = "idle"
    BY <1>0, <1>21 DEF ReportFails, Release, NoDrain, PubTypeOK
  <2>2. KeepsRecords
    BY <2>1 DEF KeepsRecords
  <2>3. KeepsOverruns
    BY <1>21 DEF ReportFails, KeepsOverruns
  <2>4. QED
    BY <1>21, <2>2, <2>3 DEF TableCases, SameTables, tables, ReportFails
<1>22. ASSUME NEW h \in Hosts, Crash(h) PROVE KeepsOverruns /\ TableCases
  <2>1. \A i \in Hosts : drain'[i] = drain[i] \/ drain'[i].step = "idle"
    BY <1>0, <1>22 DEF Crash, Release, NoDrain, PubTypeOK
  <2>2. KeepsRecords
    BY <2>1 DEF KeepsRecords
  <2>3. KeepsOverruns
    BY <1>22 DEF Crash, KeepsOverruns
  <2>4. QED
    BY <1>22, <2>2, <2>3 DEF TableCases, SameTables, tables, Crash
<1>23. ASSUME NEW h \in Hosts, NEW w \in Workflows, TriggerFails(h, w)
       PROVE  KeepsOverruns /\ TableCases
  <2>1. KeepsRecords /\ KeepsOverruns
    BY <1>23 DEF TriggerFails, Blame, KeepsRecords, KeepsOverruns
  <2>2. QED
    BY <1>23, <2>1 DEF TriggerFails, tables, SameTables, TableCases
<1>24. ASSUME NEW t \in recovering, Reactivate(t) PROVE KeepsOverruns /\ TableCases
  <2>1. KeepsRecords /\ KeepsOverruns
    BY <1>24 DEF Reactivate, Blame, KeepsRecords, KeepsOverruns
  <2>2. QED
    BY <1>24, <2>1 DEF Reactivate, tables, SameTables, TableCases
<1>25. ASSUME NEW t \in recovering, ReactivateFails(t) PROVE KeepsOverruns /\ TableCases
  <2>1. KeepsRecords /\ KeepsOverruns
    BY <1>25 DEF ReactivateFails, Blame, KeepsRecords, KeepsOverruns
  <2>2. QED
    BY <1>25, <2>1 DEF ReactivateFails, tables, SameTables, TableCases
<1>26. ASSUME UNCHANGED poVars PROVE KeepsOverruns /\ TableCases
  <2>1. KeepsRecords /\ KeepsOverruns
    BY <1>26 DEF poVars, Blame, KeepsRecords, KeepsOverruns
  <2>2. QED
    BY <1>26, <2>1 DEF poVars, tables, SameTables, TableCases
<1>27. QED
  BY <1>1, <1>2, <1>3, <1>4, <1>5, <1>6, <1>7, <1>8, <1>8a, <1>9,
     <1>10, <1>11, <1>12, <1>13, <1>14, <1>15, <1>16, <1>17, <1>18,
     <1>19, <1>20, <1>21, <1>22, <1>23, <1>24, <1>25, <1>26
     DEF PubNext, DrainStep, FailStep

\* A claimed row is the same row in progress.
LEMMA ClaimedRow ==
    ASSUME PubTypeOK, NEW h \in Hosts, NEW r \in rows, Claims(h, r)
    PROVE  /\ r.status = "pending" \/ r.status = "in_progress"
           /\ r.status = "in_progress" => rows' = rows
           /\ r.status = "pending" =>
                 /\ amiss' = amiss /\ NoPending(r.w)'
                 /\ \A q \in rows : q.w = r.w => q = r
           /\ \A q \in rows : q # r => q \in rows'
           /\ \A q \in rows' :
                 \/ q \in rows /\ q # r
                 \/ q.w = r.w /\ q.id = r.id /\ q.v = r.v /\ q.status = "in_progress"
           /\ \E q \in rows' : q.w = r.w /\ q.id = r.id /\ q.v = r.v /\ q.status = "in_progress"
<1> DEFINE n == [r EXCEPT !.status = "in_progress"]
<1>1. rows' = (rows \ {r}) \cup {n} /\ rows \subseteq Row /\ RowsDistinct /\ r \in Row
  BY DEF Claims, PubTypeOK, RowsDistinct
<1>2. /\ n.w = r.w /\ n.id = r.id /\ n.v = r.v /\ n.status = "in_progress"
      /\ r.status \in {"pending", "in_progress"}
      /\ r.status = "in_progress" => n = r
  BY <1>1 DEF Row
<1> HIDE DEF n
<1>3. r.status = "in_progress" => rows' = rows
  BY <1>1, <1>2
<1>4. ASSUME r.status = "pending"
      PROVE  amiss' = amiss /\ \A q \in rows : q.w = r.w => q = r
  <2>1. r \in Unblocked /\ amiss' = amiss
    BY <1>4 DEF Claims
  <2>2. \A q \in rows : q.w = r.w => q.status # "in_progress"
    BY <2>1 DEF Unblocked, RowsOf
  <2>3. \A q \in rows : q.status \in {"pending", "in_progress"}
    BY <1>1 DEF Row
  <2>4. QED
    BY <1>1, <1>4, <2>1, <2>2, <2>3 DEF RowsDistinct
<1>5. r.status = "pending" => NoPending(r.w)'
  BY <1>1, <1>2, <1>4 DEF NoPending
<1>6. QED
  BY <1>1, <1>2, <1>3, <1>4, <1>5

\* A row that is returned is pending again, unless there is a pending one.
LEMMA ReturnedRow ==
    ASSUME PubTypeOK, NEW h \in Hosts, ReturnToPending(h)
    PROVE  /\ \A q \in rows' :
                 \/ q \in rows /\ q \notin InProgressRow(h)
                 \/ \E x \in InProgressRow(h) :
                       q.w = x.w /\ q.v = x.v /\ q.status = "pending" /\ NoPending(x.w)
           /\ \A q \in rows : q \in rows' \/ q \in InProgressRow(h)
           /\ \A x \in InProgressRow(h) :
                 /\ x \in rows /\ x.w = drain[h].w /\ x.status = "in_progress"
                 /\ \E q \in rows' : q.w = x.w /\ q.status = "pending"
<1> DEFINE P(x) == [x EXCEPT !.status = "pending"]
<1>1. /\ rows \subseteq Row
      /\ rows' = (rows \ InProgressRow(h)) \cup
                    {P(x) : x \in {y \in InProgressRow(h) : RowsOf(y.w, "pending") = {}}}
  BY DEF ReturnToPending, PubTypeOK
<1>2. ASSUME NEW x \in InProgressRow(h)
      PROVE  x \in rows /\ x.w = drain[h].w /\ x.status = "in_progress"
  BY DEF InProgressRow, WorksOn
<1>3. ASSUME NEW x \in InProgressRow(h)
      PROVE  P(x).w = x.w /\ P(x).v = x.v /\ P(x).status = "pending"
  BY <1>1, <1>2 DEF Row
<1>4. ASSUME NEW y PROVE RowsOf(y, "pending") = {} <=> NoPending(y)
  BY DEF RowsOf, NoPending
<1> HIDE DEF P
<1>5. ASSUME NEW q \in rows'
      PROVE  \/ q \in rows /\ q \notin InProgressRow(h)
             \/ \E x \in InProgressRow(h) :
                   q.w = x.w /\ q.v = x.v /\ q.status = "pending" /\ NoPending(x.w)
  BY <1>1, <1>3, <1>4
<1>6. ASSUME NEW x \in InProgressRow(h)
      PROVE  \E q \in rows' : q.w = x.w /\ q.status = "pending"
  <2>1. CASE NoPending(x.w)
    <3>1. P(x) \in rows'
      BY <1>1, <1>4, <2>1
    <3>2. QED
      BY <1>3, <3>1
  <2>2. CASE ~NoPending(x.w)
    <3>1. PICK q \in rows : q.w = x.w /\ q.status = "pending"
      BY <2>2 DEF NoPending
    <3>2. q \notin InProgressRow(h)
      BY <1>2, <3>1
    <3>3. QED
      BY <1>1, <3>1, <3>2
  <2>3. QED
    BY <2>1, <2>2
<1>7. QED
  BY <1>1, <1>2, <1>5, <1>6

\* The numbers the tables hold.
LEMMA TableNumbers ==
    ASSUME PubTypeOK
    PROVE  /\ \A x \in Workflows : active[x] \in Nat /\ latest[x] \in Nat /\ published[x] \in Nat
           /\ \A r \in rows : /\ r.w \in Workflows /\ r.v \in Nat
                              /\ r.status \in {"pending", "in_progress"}
           /\ \A h \in Hosts : drain[h].v \in Nat
           /\ changes \in Nat
<1>1. \A x \in Workflows : active[x] \in Nat /\ latest[x] \in Nat /\ published[x] \in Nat
  BY ConstantFacts DEF PubTypeOK
<1>2. \A r \in rows : r.w \in Workflows /\ r.v \in Nat /\ r.status \in {"pending", "in_progress"}
  BY ConstantFacts DEF PubTypeOK, Row
<1>3. \A h \in Hosts : drain[h].v \in Nat
  BY DrainFields
<1>4. changes \in Nat
  BY ConstantFacts DEF PubTypeOK
<1>5. QED
  BY <1>1, <1>2, <1>3, <1>4

\* Without an overrun, the row of a drain that is busy is the only one in progress.
LEMMA BusyRow ==
    ASSUME PubTypeOK, LockInv, OrderInv, NEW h \in Hosts, drain[h].step # "idle", ~Overrun(drain[h].w)
    PROVE  /\ drain[h].w \in Workflows
           /\ \E r \in rows : r.w = drain[h].w /\ r.id = drain[h].id /\ r.v = drain[h].v
                              /\ r.status = "in_progress"
           /\ \A q \in rows : q.w = drain[h].w /\ q.status = "in_progress" =>
                 q.id = drain[h].id /\ q.v = drain[h].v
           /\ \A q \in rows : q.w = drain[h].w => published[drain[h].w] <= q.v /\ drain[h].v <= q.v
           /\ \A i \in Hosts : Busy(i, drain[h].w) => i = h
<1> DEFINE w == drain[h].w
<1>1. w \in Workflows
  BY DEF LockInv
<1>2. /\ HasRow(h) /\ \A i \in Hosts : Busy(i, w) => i = h
      /\ \A r \in rows : r.w = w => published[w] <= r.v
      /\ \A q, r \in rows : q.w = w /\ r.w = w /\ q.status = "in_progress"
                              /\ r.status = "pending" => q.v <= r.v
  BY <1>1 DEF OrderInv, Busy
<1> HIDE DEF w
<1>3. PICK r \in rows : r.w = w /\ r.id = drain[h].id /\ r.v = drain[h].v /\ r.status = "in_progress"
  BY <1>2 DEF HasRow, w
<1>4. \A q \in rows : q.w = w /\ q.status = "in_progress" => q = r
  BY <1>3 DEF PubTypeOK
<1>5. \A q \in rows : q.w = w => r.v <= q.v
  BY <1>2, <1>3, <1>4, TableNumbers
<1>6. QED
  BY <1>1, <1>2, <1>3, <1>4, <1>5 DEF w

\* A step that leaves the tables alone and gives no drain another record.
LEMMA OrderKept ==
    ASSUME VersionInv, RowInv, OrderInv, KeepsRecords, KeepsOverruns,
           active' = active, latest' = latest, published' = published, rows' = rows,
           changes' = changes
    PROVE  VersionInv' /\ RowInv' /\ OrderInv'
<1>1. VersionInv'
  BY DEF VersionInv, KeepsRecords
<1>2. RowInv'
  BY DEF RowInv, NoPending
<1>3. ASSUME NEW x \in Workflows, ~Overrun(x)' PROVE ~Overrun(x)
  BY <1>3 DEF Overrun, Excused, KeepsOverruns
<1>4. ASSUME NEW i \in Hosts, NEW x \in Workflows, Busy(i, x)'
      PROVE  Busy(i, x) /\ (HasRow(i) => HasRow(i)')
  BY <1>4 DEF Busy, HasRow, KeepsRecords
<1>5. ASSUME NEW x \in Workflows, ~Overrun(x)'
      PROVE  /\ \A i \in Hosts : Busy(i, x)' => HasRow(i)'
             /\ \A h, i \in Hosts : Busy(h, x)' /\ Busy(i, x)' => h = i
             /\ \A r \in rows : r.w = x => published[x] <= r.v
             /\ \A q, r \in rows : q.w = x /\ r.w = x /\ q.status = "in_progress"
                              /\ r.status = "pending" => q.v <= r.v
  BY <1>3, <1>4, <1>5 DEF OrderInv
<1>6. OrderInv'
  BY <1>5 DEF OrderInv
<1>7. QED
  BY <1>1, <1>2, <1>6

\* An upsert of the newest versions supersedes older pending rows, and nothing else.
LEMMA EnqueueOrder ==
    ASSUME PInv, NEW W \in SUBSET Workflows, NEW version,
           \A x \in W : version[x] = latest'[x] /\ latest'[x] # 0, UpsertResult(W, version),
           \A x \in Workflows : /\ latest'[x] \in Nat /\ latest[x] <= latest'[x]
                                /\ x \notin W => latest'[x] = latest[x],
           \A r \in rows' : r.v \in Nat /\ r.w \in Workflows,
           published' = published, drain' = drain, KeepsOverruns
    PROVE  /\ \A r \in rows' : r.v <= latest'[r.w]
           /\ \A i \in Hosts : drain'[i].step # "idle" => drain'[i].v <= latest'[drain'[i].w]
           /\ RowInv' /\ OrderInv'
<1>0. /\ PubTypeOK /\ VersionInv /\ RowInv /\ OrderInv /\ LockInv
      /\ \A x \in Workflows : latest[x] \in Nat /\ published[x] \in Nat
      /\ \A r \in rows : r.w \in Workflows /\ r.v \in Nat /\ r.status \in {"pending", "in_progress"}
      /\ \A h \in Hosts : drain[h].v \in Nat
  BY TableNumbers DEF PInv
<1>1. /\ \A r \in rows' :
            \/ r.w \in W /\ r.status = "pending" /\ r.v = latest'[r.w]
            \/ r \in rows /\ (r.status = "in_progress" \/ r.w \notin W)
      /\ \A r \in rows : r.status = "in_progress" \/ r.w \notin W => r \in rows'
      /\ \A w \in W : \E r \in rows' : r.w = w /\ r.status = "pending"
  BY DEF UpsertResult
<1>2. ASSUME NEW r \in rows' PROVE r.v <= latest'[r.w]
  BY <1>0, <1>1 DEF VersionInv
<1>3. ASSUME NEW i \in Hosts, drain'[i].step # "idle"
      PROVE  drain'[i].v <= latest'[drain'[i].w]
  <2>1. drain[i].w \in Workflows /\ drain[i].v <= latest[drain[i].w]
    BY <1>0, <1>3 DEF LockInv, VersionInv
  <2>2. QED
    BY <1>0, <2>1
<1>4. RowInv'
  <2>1. ASSUME NEW r \in rows'
        PROVE  r.v # 0 /\ (r.status = "pending" => r.v = latest'[r.w])
    BY <1>0, <1>1 DEF RowInv
  <2>2. ASSUME NEW r \in rows', NoPending(r.w)' PROVE r.v = latest'[r.w]
    <3>1. r.w \notin W /\ r \in rows
      BY <1>1, <2>2 DEF NoPending
    <3>2. NoPending(r.w)
      BY <1>1, <2>2, <3>1 DEF NoPending
    <3>3. QED
      BY <1>0, <3>1, <3>2 DEF RowInv
  <2>3. QED
    BY <2>1, <2>2 DEF RowInv
<1>5. ASSUME NEW x \in Workflows, ~Overrun(x)'
      PROVE  /\ \A r \in rows' : r.w = x => published'[x] <= r.v
             /\ \A q, r \in rows' : q.w = x /\ r.w = x /\ q.status = "in_progress"
                              /\ r.status = "pending" => q.v <= r.v
             /\ \A h \in Hosts : Busy(h, x)' => HasRow(h)'
             /\ \A h, i \in Hosts : Busy(h, x)' /\ Busy(i, x)' => h = i
  <2>1. ~Overrun(x)
    BY <1>5 DEF Overrun, Excused, KeepsOverruns
  <2>2. /\ \A r \in rows : r.w = x => published[x] <= r.v
        /\ \A q, r \in rows : q.w = x /\ r.w = x /\ q.status = "in_progress"
                              /\ r.status = "pending" => q.v <= r.v
        /\ \A h \in Hosts : Busy(h, x) => HasRow(h)
        /\ \A h, i \in Hosts : Busy(h, x) /\ Busy(i, x) => h = i
    BY <1>0, <2>1 DEF OrderInv
  <2>3. \A h \in Hosts : (Busy(h, x)' <=> Busy(h, x)) /\ (HasRow(h) => HasRow(h)')
    BY <1>1 DEF Busy, HasRow
  <2>4. \A r \in rows' : r.w = x => published'[x] <= r.v
    <3>1. published[x] <= latest'[x]
      BY <1>0 DEF VersionInv
    <3>2. QED
      BY <1>1, <2>2, <3>1
  <2>5. ASSUME NEW q \in rows', NEW r \in rows', q.w = x, r.w = x, q.status = "in_progress",
               r.status = "pending"
        PROVE  q.v <= r.v
    <3>1. q \in rows /\ q.v <= latest'[x]
      BY <1>1, <1>2, <2>5
    <3>2. QED
      BY <1>1, <2>2, <2>5, <3>1
  <2>6. QED
    BY <2>2, <2>3, <2>4, <2>5
<1>6. OrderInv'
  BY <1>5 DEF OrderInv
<1>7. QED
  BY <1>2, <1>3, <1>4, <1>6

\* A user publishes or unpublishes: the pending row names the newest version.
LEMMA ChangeOrder ==
    ASSUME PInv, PubTypeOK', KeepsOverruns, NEW w \in Workflows, Publish(w) \/ Unpublish(w)
    PROVE  VersionInv' /\ RowInv' /\ OrderInv'
<1>0. /\ PubTypeOK /\ VersionInv /\ MaxChanges \in Nat
      /\ \A x \in Workflows : active[x] \in Nat /\ latest[x] \in Nat /\ published[x] \in Nat
      /\ changes \in Nat /\ active \in [Workflows -> Versions] /\ latest \in [Workflows -> Versions]
  BY TableNumbers, ConstantFacts DEF PInv, PubTypeOK
<1>1. \A r \in rows' : r.v \in Nat /\ r.w \in Workflows
  BY ConstantFacts DEF PubTypeOK, Row
<1>2. \E n \in Nat : /\ latest'[w] = n /\ n # 0 /\ latest[w] <= n /\ active'[w] \in {0, n}
                     /\ n <= changes' /\ n \in Versions /\ Enqueue(w, n)
  <2>1. CASE Publish(w)
    <3>1. /\ changes' = changes + 1 /\ changes < MaxChanges /\ latest'[w] = latest[w] + 1
          /\ active'[w] = latest[w] + 1 /\ Enqueue(w, latest[w] + 1)
      BY <1>0, <2>1 DEF Publish, Change
    <3>2. latest[w] <= changes
      BY <1>0 DEF VersionInv
    <3>3. latest[w] + 1 \in Versions
      BY <1>0, <3>1, <3>2 DEF Versions
    <3>4. QED
      BY <1>0, <3>1, <3>2, <3>3
  <2>2. CASE Unpublish(w)
    <3>1. /\ changes' = changes + 1 /\ latest' = latest /\ active'[w] = 0 /\ active[w] # 0
          /\ Enqueue(w, active[w])
      BY <1>0, <2>2 DEF Unpublish, Change
    <3>2. active[w] = latest[w] /\ latest[w] <= changes
      BY <1>0, <3>1 DEF VersionInv
    <3>3. QED
      BY <1>0, <3>1, <3>2
  <2>3. QED
    BY <2>1, <2>2
<1>3. PICK n \in Nat : /\ latest'[w] = n /\ n # 0 /\ latest[w] <= n /\ active'[w] \in {0, n}
                       /\ n <= changes' /\ n \in Versions /\ Enqueue(w, n)
  BY <1>2
<1>4. ASSUME NEW x \in Workflows, x # w
      PROVE  latest'[x] = latest[x] /\ active'[x] = active[x]
  BY <1>0, <1>4 DEF Publish, Unpublish
<1>5. published' = published /\ drain' = drain /\ changes' = changes + 1
  BY DEF Publish, Unpublish, Change
<1> DEFINE version == [x \in {w} |-> n]
<1>6. Upserts({w}, version) /\ \A x \in {w} : version[x] = n
  BY <1>3 DEF Enqueue
<1> HIDE DEF version
<1>7. UpsertResult({w}, version)
  BY <1>0, <1>3, <1>6, UpsertEffect
<1>8. \A x \in {w} : version[x] = latest'[x] /\ latest'[x] # 0
  BY <1>3, <1>6
<1>9. \A x \in Workflows : /\ latest'[x] \in Nat /\ latest[x] <= latest'[x]
                           /\ x \notin {w} => latest'[x] = latest[x]
  BY <1>0, <1>3, <1>4
<1>10. /\ \A r \in rows' : r.v <= latest'[r.w]
       /\ \A i \in Hosts : drain'[i].step # "idle" => drain'[i].v <= latest'[drain'[i].w]
       /\ RowInv' /\ OrderInv'
  BY <1>1, <1>5, <1>7, <1>8, <1>9, EnqueueOrder
<1>11. ASSUME NEW x \in Workflows
       PROVE  active'[x] \in {0, latest'[x]} /\ latest'[x] <= changes' /\ published'[x] <= latest'[x]
  <2>1. active[x] \in {0, latest[x]} /\ latest[x] <= changes /\ published[x] <= latest[x]
    BY <1>0 DEF VersionInv
  <2>2. QED
    BY <1>0, <1>3, <1>4, <1>5, <1>9, <2>1
<1>12. QED
  BY <1>10, <1>11 DEF VersionInv

\* A takeover enqueues the active versions, which are the newest ones.
LEMMA TakeoverOrder ==
    ASSUME PInv, PubTypeOK', KeepsOverruns, NEW k \in Terms, EnqueueOnTakeover(k)
    PROVE  VersionInv' /\ RowInv' /\ OrderInv'
<1> DEFINE W == {x \in Workflows : active[x] # 0}
<1>0. PubTypeOK /\ VersionInv /\ active \in [Workflows -> Versions]
      /\ \A x \in Workflows : latest[x] \in Nat
  BY TableNumbers DEF PInv, PubTypeOK
<1>1. \A r \in rows' : r.v \in Nat /\ r.w \in Workflows
  BY ConstantFacts DEF PubTypeOK, Row
<1>2. /\ published' = published /\ drain' = drain /\ latest' = latest /\ active' = active
      /\ changes' = changes /\ Upserts(W, active)
  BY DEF EnqueueOnTakeover, EnqueueAllActive
<1>3. W \in SUBSET Workflows /\ \A x \in W : active[x] \in Versions
  BY <1>0
<1>4. \A x \in W : active[x] = latest'[x] /\ latest'[x] # 0
  BY <1>0, <1>2 DEF VersionInv
<1> HIDE DEF W
<1>5. UpsertResult(W, active)
  BY <1>0, <1>2, <1>3, UpsertEffect
<1>6. \A x \in Workflows : /\ latest'[x] \in Nat /\ latest[x] <= latest'[x]
                           /\ x \notin W => latest'[x] = latest[x]
  BY <1>0, <1>2
<1>7. /\ \A r \in rows' : r.v <= latest'[r.w]
      /\ \A i \in Hosts : drain'[i].step # "idle" => drain'[i].v <= latest'[drain'[i].w]
      /\ RowInv' /\ OrderInv'
  BY <1>1, <1>2, <1>3, <1>4, <1>5, <1>6, EnqueueOrder
<1>8. QED
  BY <1>0, <1>2, <1>7 DEF VersionInv

\* The order of a workflow x after a step that changes neither what is published
\* of it, nor its rows, nor who works on them.
LEMMA OtherOrder ==
    ASSUME OrderInv, KeepsOverruns, NEW x \in Workflows, ~Overrun(x)',
           published'[x] = published[x],
           \A q : q \in rows' /\ q.w = x => q \in rows,
           \A q : q \in rows /\ q.w = x => q \in rows',
           \A i \in Hosts : Busy(i, x)' => /\ Busy(i, x) /\ drain'[i].w = drain[i].w
                                           /\ drain'[i].id = drain[i].id /\ drain'[i].v = drain[i].v
    PROVE  /\ \A r \in rows' : r.w = x => published'[x] <= r.v
           /\ \A q, r \in rows' : q.w = x /\ r.w = x /\ q.status = "in_progress"
                              /\ r.status = "pending" => q.v <= r.v
           /\ \A h \in Hosts : Busy(h, x)' => HasRow(h)'
           /\ \A h, i \in Hosts : Busy(h, x)' /\ Busy(i, x)' => h = i
<1>1. ~Overrun(x)
  BY DEF Overrun, Excused, KeepsOverruns
<1>2. /\ \A r \in rows : r.w = x => published[x] <= r.v
      /\ \A q, r \in rows : q.w = x /\ r.w = x /\ q.status = "in_progress"
                              /\ r.status = "pending" => q.v <= r.v
      /\ \A h \in Hosts : Busy(h, x) => HasRow(h)
      /\ \A h, i \in Hosts : Busy(h, x) /\ Busy(i, x) => h = i
  BY <1>1 DEF OrderInv
<1>3. ASSUME NEW h \in Hosts, Busy(h, x)' PROVE HasRow(h)'
  <2>1. /\ HasRow(h) /\ drain[h].w = x /\ drain'[h].w = x
        /\ drain'[h].id = drain[h].id /\ drain'[h].v = drain[h].v
    BY <1>2, <1>3 DEF Busy
  <2>2. QED
    BY <2>1 DEF HasRow
<1>4. QED
  BY <1>2, <1>3

\* A claim: nobody else works on the workflow, or every main is to blame.
LEMMA ClaimOrder ==
    ASSUME PInv, KeepsOverruns, NEW h \in Hosts, ClaimNextPendingRecord(h)
    PROVE  VersionInv' /\ RowInv' /\ OrderInv'
<1>0. PubTypeOK /\ LockInv /\ VersionInv /\ RowInv /\ OrderInv
  BY DEF PInv
<1>1. PICK r \in rows : Claims(h, r)
  BY <1>0, ClaimEffect
<1>2. /\ active' = active /\ latest' = latest /\ published' = published /\ changes' = changes
  BY DEF ClaimNextPendingRecord
<1>3. /\ r.w \in Workflows /\ \A i \in Hosts : i # h => drain'[i] = drain[i]
      /\ drain'[h].w = r.w /\ drain'[h].id = r.id /\ drain'[h].v = r.v
      /\ drain[h].step = "idle" /\ drain'[h].step = "claimed"
  BY <1>1 DEF Claims, DrainOnly
<1>4. /\ r.status = "pending" \/ r.status = "in_progress"
      /\ r.status = "in_progress" => rows' = rows
      /\ r.status = "pending" => NoPending(r.w)' /\ \A q \in rows : q.w = r.w => q = r
      /\ \A q \in rows : q # r => q \in rows'
      /\ \A q \in rows' :
            \/ q \in rows /\ q # r
            \/ q.w = r.w /\ q.id = r.id /\ q.v = r.v /\ q.status = "in_progress"
      /\ \E q \in rows' : q.w = r.w /\ q.id = r.id /\ q.v = r.v /\ q.status = "in_progress"
  BY <1>0, <1>1, ClaimedRow
<1>5. VersionInv'
  BY <1>0, <1>1, <1>2, <1>3, <1>4 DEF VersionInv
<1>6. RowInv'
  <2>1. CASE r.status = "in_progress"
    BY <1>0, <1>2, <1>4, <2>1 DEF RowInv, NoPending
  <2>2. CASE r.status = "pending"
    <3>1. r.v # 0 /\ r.v = latest[r.w]
      BY <1>0, <2>2 DEF RowInv
    <3>2. ASSUME NEW q \in rows', q.w # r.w
          PROVE  q \in rows /\ (NoPending(q.w)' => NoPending(q.w))
      BY <1>4, <3>2 DEF NoPending
    <3>3. ASSUME NEW q \in rows', q.w = r.w PROVE q.v = r.v /\ q.status = "in_progress"
      BY <1>4, <2>2, <3>3
    <3>4. QED
      BY <1>0, <1>2, <3>1, <3>2, <3>3 DEF RowInv
  <2>3. QED
    BY <1>4, <2>1, <2>2
<1>7. ASSUME NEW x \in Workflows, ~Overrun(x)'
      PROVE  /\ \A q \in rows' : q.w = x => published'[x] <= q.v
             /\ \A q, s \in rows' : q.w = x /\ s.w = x /\ q.status = "in_progress"
                              /\ s.status = "pending" => q.v <= s.v
             /\ \A i \in Hosts : Busy(i, x)' => HasRow(i)'
             /\ \A i, j \in Hosts : Busy(i, x)' /\ Busy(j, x)' => i = j
  <2>1. CASE x # r.w
    <3>1. /\ \A q : q \in rows' /\ q.w = x => q \in rows
          /\ \A q : q \in rows /\ q.w = x => q \in rows'
      BY <1>4, <2>1
    <3>2. \A i \in Hosts : Busy(i, x)' => i # h
      BY <1>3, <2>1 DEF Busy
    <3>3. \A i \in Hosts : Busy(i, x)' => /\ Busy(i, x) /\ drain'[i].w = drain[i].w
                                          /\ drain'[i].id = drain[i].id /\ drain'[i].v = drain[i].v
      BY <1>3, <3>2 DEF Busy
    <3>4. QED
      BY <1>0, <1>2, <1>7, <3>1, <3>3, OtherOrder
  <2>2. CASE x = r.w
    <3>1. ~Overrun(x)
      BY <1>7 DEF Overrun, Excused, KeepsOverruns
    <3>2. r.status = "pending" \/ ~Held(r)
      <4>1. SUFFICES ASSUME r.status = "in_progress", Held(r) PROVE FALSE
        BY <1>4
      <4>2. amiss' = amiss \cup {<<i, r.w, "overrun">> : i \in Hosts}
        BY <1>1, <4>1 DEF Claims, Unblocked
      <4>3. <<h, x, "overrun">> \in amiss'
        BY <2>2, <4>2
      <4>4. QED
        BY <1>7, <4>3 DEF Overrun, Excused
    <3>3. ASSUME NEW i \in Hosts, Busy(i, x) PROVE FALSE
      <4>1. PICK q \in rows : q.w = x /\ q.id = drain[i].id /\ q.status = "in_progress"
        BY <1>0, <3>1, <3>3, BusyRow DEF Busy
      <4>2. q = r
        BY <1>0, <1>4, <2>2, <4>1 DEF PubTypeOK
      <4>3. Held(r)
        BY <2>2, <3>3, <4>1, <4>2 DEF Held, WorksOn, Busy
      <4>4. QED
        BY <3>2, <4>1, <4>2, <4>3
    <3>4. \A i \in Hosts : Busy(i, x)' => i = h
      BY <1>3, <3>3 DEF Busy
    <3>5. HasRow(h)'
      BY <1>3, <1>4 DEF HasRow
    <3>6. /\ \A q \in rows : q.w = x => published[x] <= q.v
          /\ \A q, s \in rows : q.w = x /\ s.w = x /\ q.status = "in_progress"
                              /\ s.status = "pending" => q.v <= s.v
      BY <1>0, <3>1 DEF OrderInv
    <3>7. \A q \in rows' : q.w = x => published'[x] <= q.v
      BY <1>2, <1>4, <2>2, <3>6
    <3>8. \A q, s \in rows' : q.w = x /\ s.w = x /\ q.status = "in_progress"
                              /\ s.status = "pending" => q.v <= s.v
      BY <1>4, <2>2, <3>6 DEF NoPending
    <3>9. QED
      BY <3>4, <3>5, <3>7, <3>8
  <2>3. QED
    BY <2>1, <2>2
<1>8. OrderInv'
  BY <1>7 DEF OrderInv
<1>9. QED
  BY <1>5, <1>6, <1>8

\* A row goes back to the queue: it was the only one in progress.
LEMMA ReturnOrder ==
    ASSUME PInv, KeepsOverruns, KeepsRecords, NEW h \in Hosts, ReturnToPending(h)
    PROVE  VersionInv' /\ RowInv' /\ OrderInv'
<1>0. PubTypeOK /\ LockInv /\ VersionInv /\ RowInv /\ OrderInv
  BY DEF PInv
<1>1. /\ active' = active /\ latest' = latest /\ published' = published /\ changes' = changes
      /\ drain'[h].step = "idle" /\ drain[h].step # "idle"
  BY <1>0 DEF ReturnToPending, Release, HasLock, NoDrain, PubTypeOK
<1>2. /\ \A q \in rows' :
            \/ q \in rows /\ q \notin InProgressRow(h)
            \/ \E y \in InProgressRow(h) :
                  q.w = y.w /\ q.v = y.v /\ q.status = "pending" /\ NoPending(y.w)
      /\ \A q \in rows : q \in rows' \/ q \in InProgressRow(h)
      /\ \A y \in InProgressRow(h) :
            /\ y \in rows /\ y.w = drain[h].w /\ y.status = "in_progress"
            /\ \E q \in rows' : q.w = y.w /\ q.status = "pending"
  BY <1>0, ReturnedRow
<1>3. VersionInv'
  <2>1. \A q \in rows' : q.v <= latest[q.w]
    BY <1>0, <1>2 DEF VersionInv
  <2>2. QED
    BY <1>0, <1>1, <2>1 DEF VersionInv, KeepsRecords
<1>4. RowInv'
  <2>1. ASSUME NEW x, NoPending(x)' PROVE NoPending(x)
    BY <1>2, <2>1 DEF NoPending
  <2>2. ASSUME NEW q \in rows'
        PROVE  q.v # 0 /\ (q.status = "pending" \/ NoPending(q.w)' => q.v = latest[q.w])
    BY <1>0, <1>2, <2>1 DEF RowInv
  <2>3. QED
    BY <1>1, <2>2 DEF RowInv
<1>5. ASSUME NEW x \in Workflows, ~Overrun(x)'
      PROVE  /\ \A q \in rows' : q.w = x => published'[x] <= q.v
             /\ \A q, s \in rows' : q.w = x /\ s.w = x /\ q.status = "in_progress"
                              /\ s.status = "pending" => q.v <= s.v
             /\ \A i \in Hosts : Busy(i, x)' => HasRow(i)'
             /\ \A i, j \in Hosts : Busy(i, x)' /\ Busy(j, x)' => i = j
  <2>0. ~Overrun(x)
    BY <1>5 DEF Overrun, Excused, KeepsOverruns
  <2>1. \A i \in Hosts : Busy(i, x)' => /\ Busy(i, x) /\ drain'[i].w = drain[i].w /\ i # h
                                        /\ drain'[i].id = drain[i].id /\ drain'[i].v = drain[i].v
    BY <1>1 DEF Busy, KeepsRecords
  <2>2. CASE x # drain[h].w
    <3>1. /\ \A q : q \in rows' /\ q.w = x => q \in rows
          /\ \A q : q \in rows /\ q.w = x => q \in rows'
      BY <1>2, <2>2
    <3>2. QED
      BY <1>0, <1>1, <1>5, <2>1, <3>1, OtherOrder
  <2>3. CASE x = drain[h].w
    <3>1. /\ \A q \in rows : q.w = x /\ q.status = "in_progress" => q.id = drain[h].id
          /\ \A q \in rows : q.w = x => published[x] <= q.v
          /\ \A i \in Hosts : Busy(i, x) => i = h
      BY <1>0, <1>1, <2>0, <2>3, BusyRow
    <3>2. \A i \in Hosts : ~Busy(i, x)'
      BY <2>1, <3>1
    <3>3. \A q \in rows : q.w = x /\ q.status = "in_progress" => q \in InProgressRow(h)
      BY <1>1, <2>3, <3>1 DEF InProgressRow, WorksOn
    <3>4. \A q \in rows' : q.w = x => q.status # "in_progress" /\ published'[x] <= q.v
      BY <1>1, <1>2, <3>1, <3>3
    <3>5. QED
      BY <3>2, <3>4
  <2>4. QED
    BY <2>2, <2>3
<1>6. OrderInv'
  BY <1>5 DEF OrderInv
<1>7. QED
  BY <1>3, <1>4, <1>6

\* A row ends: the rows that stay keep their order.
LEMMA ReportOrder ==
    ASSUME PInv, KeepsOverruns, KeepsRecords, NEW h \in Hosts, Report(h)
    PROVE  VersionInv' /\ RowInv' /\ OrderInv'
<1>0. PubTypeOK /\ LockInv /\ VersionInv /\ RowInv /\ OrderInv
  BY DEF PInv
<1>1. /\ active' = active /\ latest' = latest /\ published' = published /\ changes' = changes
      /\ drain'[h].step = "idle" /\ drain[h].step # "idle"
  BY <1>0 DEF Report, Release, NoDrain, PubTypeOK
<1>2. /\ \A q \in rows' : q \in rows
      /\ \A q \in rows : q \in rows' \/ (q.w = drain[h].w /\ q.status = "in_progress")
  BY DEF Report, InProgressRow, WorksOn
<1>3. VersionInv'
  BY <1>0, <1>1, <1>2 DEF VersionInv, KeepsRecords
<1>4. RowInv'
  <2>1. ASSUME NEW x, NoPending(x)' PROVE NoPending(x)
    BY <1>2, <2>1 DEF NoPending
  <2>2. QED
    BY <1>0, <1>1, <1>2, <2>1 DEF RowInv
<1>5. ASSUME NEW x \in Workflows, ~Overrun(x)'
      PROVE  /\ \A q \in rows' : q.w = x => published'[x] <= q.v
             /\ \A q, s \in rows' : q.w = x /\ s.w = x /\ q.status = "in_progress"
                              /\ s.status = "pending" => q.v <= s.v
             /\ \A i \in Hosts : Busy(i, x)' => HasRow(i)'
             /\ \A i, j \in Hosts : Busy(i, x)' /\ Busy(j, x)' => i = j
  <2>0. ~Overrun(x)
    BY <1>5 DEF Overrun, Excused, KeepsOverruns
  <2>1. \A i \in Hosts : Busy(i, x)' => /\ Busy(i, x) /\ drain'[i].w = drain[i].w /\ i # h
                                        /\ drain'[i].id = drain[i].id /\ drain'[i].v = drain[i].v
    BY <1>1 DEF Busy, KeepsRecords
  <2>2. CASE x # drain[h].w
    <3>1. /\ \A q : q \in rows' /\ q.w = x => q \in rows
          /\ \A q : q \in rows /\ q.w = x => q \in rows'
      BY <1>2, <2>2
    <3>2. QED
      BY <1>0, <1>1, <1>5, <2>1, <3>1, OtherOrder
  <2>3. CASE x = drain[h].w
    <3>1. \A i \in Hosts : Busy(i, x) => i = h
      BY <1>0, <1>1, <2>0, <2>3, BusyRow
    <3>2. \A i \in Hosts : ~Busy(i, x)'
      BY <2>1, <3>1
    <3>3. QED
      BY <1>0, <1>1, <1>2, <2>0, <3>2 DEF OrderInv
  <2>4. QED
    BY <2>2, <2>3
<1>6. OrderInv'
  BY <1>5 DEF OrderInv
<1>7. QED
  BY <1>3, <1>4, <1>6

\* The published version moves to that of the row in progress, or away.
LEMMA PublishOrder ==
    ASSUME PInv, KeepsOverruns, KeepsRecords, NEW h \in Hosts,
           AdvancePublishedVersion(h) \/ RemovePublishedVersion(h)
    PROVE  VersionInv' /\ RowInv' /\ OrderInv'
<1>0. /\ PubTypeOK /\ LockInv /\ VersionInv /\ RowInv /\ OrderInv
      /\ \A r \in rows : r.v \in Nat
      /\ \A x \in Workflows : latest[x] \in Nat
  BY TableNumbers DEF PInv
<1>1. /\ active' = active /\ latest' = latest /\ rows' = rows /\ changes' = changes
      /\ drain[h].step # "idle" /\ drain[h].w \in Workflows
  BY <1>0 DEF AdvancePublishedVersion, RemovePublishedVersion, LockInv
<1>2. /\ published'[drain[h].w] \in {0, drain[h].v}
      /\ \A x \in Workflows : x # drain[h].w => published'[x] = published[x]
  BY <1>0, <1>1 DEF AdvancePublishedVersion, RemovePublishedVersion, PubTypeOK
<1>3. VersionInv'
  <2>1. drain[h].v <= latest[drain[h].w] /\ 0 <= latest[drain[h].w]
    BY <1>0, <1>1 DEF VersionInv
  <2>2. QED
    BY <1>0, <1>1, <1>2, <2>1 DEF VersionInv, KeepsRecords
<1>4. RowInv'
  BY <1>0, <1>1 DEF RowInv, NoPending
<1>5. ASSUME NEW x \in Workflows, ~Overrun(x)'
      PROVE  /\ \A q \in rows' : q.w = x => published'[x] <= q.v
             /\ \A q, s \in rows' : q.w = x /\ s.w = x /\ q.status = "in_progress"
                              /\ s.status = "pending" => q.v <= s.v
             /\ \A i \in Hosts : Busy(i, x)' => HasRow(i)'
             /\ \A i, j \in Hosts : Busy(i, x)' /\ Busy(j, x)' => i = j
  <2>0. ~Overrun(x)
    BY <1>5 DEF Overrun, Excused, KeepsOverruns
  <2>1. \A i \in Hosts : Busy(i, x)' => /\ Busy(i, x) /\ drain'[i].w = drain[i].w
                                        /\ drain'[i].id = drain[i].id /\ drain'[i].v = drain[i].v
    BY DEF Busy, KeepsRecords
  <2>2. CASE x # drain[h].w
    BY <1>0, <1>1, <1>2, <1>5, <2>1, <2>2, OtherOrder
  <2>3. CASE x = drain[h].w
    <3>1. \A q \in rows : q.w = x => drain[h].v <= q.v
      BY <1>0, <1>1, <2>0, <2>3, BusyRow
    <3>2. \A q \in rows : q.w = x => published'[x] <= q.v
      BY <1>0, <1>2, <2>3, <3>1
    <3>3. \A i \in Hosts : HasRow(i) /\ Busy(i, x)' => HasRow(i)'
      BY <1>1, <2>1 DEF HasRow
    <3>4. QED
      BY <1>0, <1>1, <2>0, <2>1, <3>2, <3>3 DEF OrderInv
  <2>4. QED
    BY <2>2, <2>3
<1>6. OrderInv'
  BY <1>5 DEF OrderInv
<1>7. QED
  BY <1>3, <1>4, <1>6

\* Versions, rows and their order are kept by every step.
LEMMA OrderStep ==
    ASSUME PInv, [PubNext]_poVars
    PROVE  VersionInv' /\ RowInv' /\ OrderInv'
<1>1. PubTypeOK' /\ KeepsOverruns /\ TableCases /\ VersionInv /\ RowInv /\ OrderInv
  BY TypesStep, RecordStep DEF PInv
<1>2. CASE KeepsRecords /\ SameTables
  BY <1>1, <1>2, OrderKept DEF SameTables
<1>3. CASE \E w \in Workflows : Publish(w) \/ Unpublish(w)
  BY <1>1, <1>3, ChangeOrder
<1>4. CASE \E k \in Terms : EnqueueOnTakeover(k)
  BY <1>1, <1>4, TakeoverOrder
<1>5. ASSUME NEW h \in Hosts, ClaimNextPendingRecord(h)
      PROVE  VersionInv' /\ RowInv' /\ OrderInv'
  BY <1>1, <1>5, ClaimOrder
<1>6. ASSUME NEW h \in Hosts, KeepsRecords, ReturnToPending(h)
      PROVE  VersionInv' /\ RowInv' /\ OrderInv'
  BY <1>1, <1>6, ReturnOrder
<1>7. ASSUME NEW h \in Hosts, KeepsRecords, Report(h)
      PROVE  VersionInv' /\ RowInv' /\ OrderInv'
  BY <1>1, <1>7, ReportOrder
<1>8. ASSUME NEW h \in Hosts, KeepsRecords, AdvancePublishedVersion(h) \/ RemovePublishedVersion(h)
      PROVE  VersionInv' /\ RowInv' /\ OrderInv'
  BY <1>1, <1>8, PublishOrder
<1>9. QED
  BY <1>1, <1>2, <1>3, <1>4, <1>5, <1>6, <1>7, <1>8 DEF TableCases


-----------------------------------------------------------------------------
(* How far a drain has come *)

\* A failure is forgiven only by an activation.
KeepsFailures == \A x \in Workflows : Failed(x) => Failed(x)'

Early == {"idle", "claimed", "waiting", "resolve"}

\* The drain of i goes on in its critical section.
Advances(i) ==
    \/ Resolve(i) \/ Deactivate(i) \/ DeactivateFails(i)
    \/ AdvancePublishedVersion(i) \/ RemovePublishedVersion(i)
    \/ Activate(i) \/ ActivateFails(i)

\* What can happen to the drain of i.
DrainCase(i) ==
    \/ drain'[i] = drain[i]
    \/ drain'[i].step \in {"idle", "claimed", "waiting"}
    \/ drain'[i].step = "resolve" /\ leader = i
    \/ Advances(i)

FailureCases == KeepsFailures \/ \E h \in Hosts : Activate(h)

\* The steps that move a drain forward, and the one that forgives.
LEMMA DrainStepCases ==
    ASSUME PubTypeOK, [PubNext]_poVars
    PROVE  FailureCases /\ \A i \in Hosts : DrainCase(i)
<1>0. PubTypeOK
  OBVIOUS
<1>1. ASSUME NEW w \in Workflows, Publish(w)
      PROVE  FailureCases /\ \A i \in Hosts : DrainCase(i)
  <2>1. KeepsFailures
    BY <1>1 DEF Publish, Blame, KeepsFailures, Failed, Excused
  <2>2. QED
    BY <1>1, <2>1 DEF Publish, DrainCase, FailureCases
<1>2. ASSUME NEW w \in Workflows, Unpublish(w)
      PROVE  FailureCases /\ \A i \in Hosts : DrainCase(i)
  <2>1. KeepsFailures
    BY <1>2 DEF Unpublish, Blame, KeepsFailures, Failed, Excused
  <2>2. QED
    BY <1>2, <2>1 DEF Unpublish, DrainCase, FailureCases
<1>3. ASSUME NEW h \in Hosts, Takeover(h)
      PROVE  FailureCases /\ \A i \in Hosts : DrainCase(i)
  <2>1. KeepsFailures
    BY <1>3 DEF Takeover, Blame, KeepsFailures, Failed, Excused
  <2>2. QED
    BY <1>3, <2>1 DEF Takeover, DrainCase, FailureCases
<1>4. ASSUME NEW k \in Terms, EnqueueOnTakeover(k)
      PROVE  FailureCases /\ \A i \in Hosts : DrainCase(i)
  <2>1. KeepsFailures
    BY <1>4 DEF EnqueueOnTakeover, Blame, KeepsFailures, Failed, Excused
  <2>2. QED
    BY <1>4, <2>1 DEF EnqueueOnTakeover, DrainCase, FailureCases
<1>5. ASSUME NEW h \in Hosts, WakeUp(h)
      PROVE  FailureCases /\ \A i \in Hosts : DrainCase(i)
  <2>1. KeepsFailures
    BY <1>5 DEF WakeUp, Blame, KeepsFailures, Failed, Excused
  <2>2. QED
    BY <1>5, <2>1 DEF WakeUp, DrainCase, FailureCases
<1>6. ASSUME NEW h \in Hosts, Stepdown(h)
      PROVE  FailureCases /\ \A i \in Hosts : DrainCase(i)
  <2>1. KeepsFailures
    BY <1>6 DEF Stepdown, Blame, KeepsFailures, Failed, Excused
  <2>2. QED
    BY <1>6, <2>1 DEF Stepdown, DrainCase, FailureCases
<1>7. ASSUME NEW k \in Terms, TeardownTimesOut(k)
      PROVE  FailureCases /\ \A i \in Hosts : DrainCase(i)
  <2>1. KeepsFailures
    BY <1>7 DEF TeardownTimesOut, Blame, KeepsFailures, Failed, Excused
  <2>2. QED
    BY <1>7, <2>1 DEF TeardownTimesOut, DrainCase, FailureCases
<1>8. ASSUME NEW k \in Terms, TeardownRemoves(k)
      PROVE  FailureCases /\ \A i \in Hosts : DrainCase(i)
  <2>1. KeepsFailures
    BY <1>8 DEF TeardownRemoves, Blame, KeepsFailures, Failed, Excused
  <2>2. QED
    BY <1>8, <2>1 DEF TeardownRemoves, DrainCase, FailureCases
<1>8a. ASSUME NEW k \in Terms, TeardownFails(k)
       PROVE  FailureCases /\ \A i \in Hosts : DrainCase(i)
  <2>1. KeepsFailures
    BY <1>8a DEF TeardownFails, KeepsFailures, Failed, Excused
  <2>2. QED
    BY <1>8a, <2>1 DEF TeardownFails, DrainCase, FailureCases
<1>9. ASSUME NEW h \in Hosts, ClaimNextPendingRecord(h)
      PROVE  FailureCases /\ \A i \in Hosts : DrainCase(i)
  <2>1. PICK r \in rows : Claims(h, r)
    BY <1>0, <1>9, ClaimEffect
  <2>2. amiss \subseteq amiss' /\ DrainOnly(h) /\ drain'[h].step = "claimed"
    BY <2>1 DEF Claims
  <2>3. FailureCases
    BY <2>2 DEF KeepsFailures, Failed, Excused, FailureCases
  <2>4. QED
    BY <2>2, <2>3 DEF DrainOnly, DrainCase
<1>10. ASSUME NEW h \in Hosts, Acquire(h)
       PROVE  FailureCases /\ \A i \in Hosts : DrainCase(i)
  <2>1. FailureCases
    BY <1>10 DEF Acquire, KeepsFailures, Failed, Excused, FailureCases
  <2>2. Moves(h, "waiting")
    BY <1>0, <1>10, GoEffect DEF Acquire, DrainSteps
  <2>3. QED
    BY <1>10, <2>1, <2>2 DEF Moves, DrainOnly, DrainCase
<1>11. ASSUME NEW h \in Hosts, Enter(h)
       PROVE  FailureCases /\ \A i \in Hosts : DrainCase(i)
  <2>1. FailureCases
    BY <1>11 DEF Enter, KeepsFailures, Failed, Excused, FailureCases
  <2>2. Moves(h, "resolve")
    BY <1>0, <1>11, GoEffect DEF Enter, DrainSteps
  <2>3. QED
    BY <1>11, <2>1, <2>2 DEF Moves, DrainOnly, DrainCase, Enter
<1>12. ASSUME NEW h \in Hosts, ReturnToPending(h)
       PROVE  FailureCases /\ \A i \in Hosts : DrainCase(i)
  <2>1. \A i \in Hosts : drain'[i] = drain[i] \/ drain'[i].step = "idle"
    BY <1>0, <1>12 DEF ReturnToPending, Release, NoDrain, PubTypeOK
  <2>2. FailureCases
    BY <1>12 DEF ReturnToPending, KeepsFailures, Failed, Excused, FailureCases
  <2>3. QED
    BY <2>1, <2>2 DEF DrainCase
<1>13. ASSUME NEW h \in Hosts, Resolve(h)
       PROVE  FailureCases /\ \A i \in Hosts : DrainCase(i)
  <2>1. FailureCases
    BY <1>13 DEF Resolve, Blame, KeepsFailures, Failed, Excused, FailureCases
  <2>2. \A i \in Hosts : i # h => drain'[i] = drain[i]
    BY <1>0, <1>13 DEF Resolve, Go, PubTypeOK
  <2>3. QED
    BY <1>13, <2>1, <2>2 DEF DrainCase, Advances
<1>14. ASSUME NEW h \in Hosts, Deactivate(h)
       PROVE  FailureCases /\ \A i \in Hosts : DrainCase(i)
  <2>1. FailureCases
    BY <1>14 DEF Deactivate, Blame, KeepsFailures, Failed, Excused, FailureCases
  <2>2. \A i \in Hosts : i # h => drain'[i] = drain[i]
    BY <1>0, <1>14 DEF Deactivate, Go, PubTypeOK
  <2>3. QED
    BY <1>14, <2>1, <2>2 DEF DrainCase, Advances
<1>15. ASSUME NEW h \in Hosts, AdvancePublishedVersion(h)
       PROVE  FailureCases /\ \A i \in Hosts : DrainCase(i)
  <2>1. FailureCases
    BY <1>15
       DEF AdvancePublishedVersion, Blame, KeepsFailures, Failed, Excused,
           FailureCases
  <2>2. \A i \in Hosts : i # h => drain'[i] = drain[i]
    BY <1>0, <1>15 DEF AdvancePublishedVersion, Go, PubTypeOK
  <2>3. QED
    BY <1>15, <2>1, <2>2 DEF DrainCase, Advances
<1>16. ASSUME NEW h \in Hosts, RemovePublishedVersion(h)
       PROVE  FailureCases /\ \A i \in Hosts : DrainCase(i)
  <2>1. FailureCases
    BY <1>16
       DEF RemovePublishedVersion, Blame, KeepsFailures, Failed, Excused, FailureCases
  <2>2. \A i \in Hosts : i # h => drain'[i] = drain[i]
    BY <1>0, <1>16 DEF RemovePublishedVersion, Go, PubTypeOK
  <2>3. QED
    BY <1>16, <2>1, <2>2 DEF DrainCase, Advances
<1>17. ASSUME NEW h \in Hosts, Activate(h)
       PROVE  FailureCases /\ \A i \in Hosts : DrainCase(i)
  <2>1. FailureCases
    BY <1>17 DEF FailureCases
  <2>2. \A i \in Hosts : i # h => drain'[i] = drain[i]
    BY <1>0, <1>17 DEF Activate, Go, PubTypeOK
  <2>3. QED
    BY <1>17, <2>1, <2>2 DEF DrainCase, Advances
<1>18. ASSUME NEW h \in Hosts, Report(h)
       PROVE  FailureCases /\ \A i \in Hosts : DrainCase(i)
  <2>1. \A i \in Hosts : drain'[i] = drain[i] \/ drain'[i].step = "idle"
    BY <1>0, <1>18 DEF Report, Release, NoDrain, PubTypeOK
  <2>2. FailureCases
    BY <1>18 DEF Report, KeepsFailures, Failed, Excused, FailureCases
  <2>3. QED
    BY <2>1, <2>2 DEF DrainCase
<1>19. ASSUME NEW h \in Hosts, DeactivateFails(h)
       PROVE  FailureCases /\ \A i \in Hosts : DrainCase(i)
  <2>1. FailureCases
    BY <1>19 DEF DeactivateFails, Blame, KeepsFailures, Failed, Excused, FailureCases
  <2>2. \A i \in Hosts : i # h => drain'[i] = drain[i]
    BY <1>0, <1>19 DEF DeactivateFails, Go, PubTypeOK
  <2>3. QED
    BY <1>19, <2>1, <2>2 DEF DrainCase, Advances
<1>20. ASSUME NEW h \in Hosts, ActivateFails(h)
       PROVE  FailureCases /\ \A i \in Hosts : DrainCase(i)
  <2>1. FailureCases
    BY <1>20 DEF ActivateFails, Blame, KeepsFailures, Failed, Excused, FailureCases
  <2>2. \A i \in Hosts : i # h => drain'[i] = drain[i]
    BY <1>0, <1>20 DEF ActivateFails, Go, PubTypeOK
  <2>3. QED
    BY <1>20, <2>1, <2>2 DEF DrainCase, Advances
<1>21. ASSUME NEW h \in Hosts, ReportFails(h)
       PROVE  FailureCases /\ \A i \in Hosts : DrainCase(i)
  <2>1. \A i \in Hosts : drain'[i] = drain[i] \/ drain'[i].step = "idle"
    BY <1>0, <1>21 DEF ReportFails, Release, NoDrain, PubTypeOK
  <2>2. FailureCases
    BY <1>21 DEF ReportFails, KeepsFailures, Failed, Excused, FailureCases
  <2>3. QED
    BY <2>1, <2>2 DEF DrainCase
<1>22. ASSUME NEW h \in Hosts, Crash(h)
       PROVE  FailureCases /\ \A i \in Hosts : DrainCase(i)
  <2>1. \A i \in Hosts : drain'[i] = drain[i] \/ drain'[i].step = "idle"
    BY <1>0, <1>22 DEF Crash, Release, NoDrain, PubTypeOK
  <2>2. FailureCases
    BY <1>22 DEF Crash, KeepsFailures, Failed, Excused, FailureCases
  <2>3. QED
    BY <2>1, <2>2 DEF DrainCase
<1>23. ASSUME NEW h \in Hosts, NEW w \in Workflows, TriggerFails(h, w)
       PROVE  FailureCases /\ \A i \in Hosts : DrainCase(i)
  <2>1. KeepsFailures
    BY <1>23 DEF TriggerFails, Blame, KeepsFailures, Failed, Excused
  <2>2. QED
    BY <1>23, <2>1 DEF TriggerFails, DrainCase, FailureCases
<1>24. ASSUME NEW t \in recovering, Reactivate(t)
       PROVE  FailureCases /\ \A i \in Hosts : DrainCase(i)
  <2>1. KeepsFailures
    BY <1>24 DEF Reactivate, Blame, KeepsFailures, Failed, Excused
  <2>2. QED
    BY <1>24, <2>1 DEF Reactivate, DrainCase, FailureCases
<1>25. ASSUME NEW t \in recovering, ReactivateFails(t)
       PROVE  FailureCases /\ \A i \in Hosts : DrainCase(i)
  <2>1. KeepsFailures
    BY <1>25 DEF ReactivateFails, Blame, KeepsFailures, Failed, Excused
  <2>2. QED
    BY <1>25, <2>1 DEF ReactivateFails, DrainCase, FailureCases
<1>26. ASSUME UNCHANGED poVars PROVE FailureCases /\ \A i \in Hosts : DrainCase(i)
  <2>1. KeepsFailures
    BY <1>26 DEF poVars, Blame, KeepsFailures, Failed, Excused
  <2>2. QED
    BY <1>26, <2>1 DEF poVars, DrainCase, FailureCases
<1>27. QED
  BY <1>1, <1>2, <1>3, <1>4, <1>5, <1>6, <1>7, <1>8, <1>8a, <1>9,
     <1>10, <1>11, <1>12, <1>13, <1>14, <1>15, <1>16, <1>17, <1>18,
     <1>19, <1>20, <1>21, <1>22, <1>23, <1>24, <1>25, <1>26
     DEF PubNext, DrainStep, FailStep

\* A user's change leaves a pending row of its workflow, and the rows of the others.
LEMMA ChangedRows ==
    ASSUME PInv, NEW x \in Workflows, Publish(x) \/ Unpublish(x)
    PROVE  /\ \A r \in rows : r.w # x => r \in rows'
           /\ \A r \in rows' : r.w # x => r \in rows
           /\ \A r \in rows : r.status = "in_progress" => r \in rows'
           /\ \E r \in rows' : r.w = x /\ r.status = "pending"
<1>0. PubTypeOK
  BY DEF PInv
<1>1. PICK n : n \in Versions /\ Enqueue(x, n)
  <2>1. CASE Publish(x)
    <3>1. latest[x] <= changes /\ changes < MaxChanges
      BY <2>1 DEF PInv, VersionInv, Publish, Change
    <3>2. latest[x] + 1 \in Versions
      BY <1>0, <3>1, TableNumbers, ConstantFacts DEF Versions
    <3>3. QED
      BY <2>1, <3>2 DEF Publish
  <2>2. CASE Unpublish(x)
    BY <1>0, <2>2 DEF Unpublish, PubTypeOK
  <2>3. QED
    BY <2>1, <2>2
<1> DEFINE version == [y \in {x} |-> n]
<1>2. Upserts({x}, version) /\ \A y \in {x} : version[y] \in Versions
  BY <1>1 DEF Enqueue
<1> HIDE DEF version
<1>3. UpsertResult({x}, version)
  BY <1>0, <1>2, UpsertEffect
<1>4. QED
  BY <1>3 DEF UpsertResult

\* A takeover leaves a pending row of every active workflow, and the rows of the others.
LEMMA EnqueuedRows ==
    ASSUME PubTypeOK, NEW k \in Terms, EnqueueOnTakeover(k)
    PROVE  /\ \A r \in rows : r \in rows' \/ \E q \in rows' : q.w = r.w /\ q.status = "pending"
           /\ \A r \in rows' : r \in rows \/ (active[r.w] # 0 /\ r.status = "pending")
           /\ \A r \in rows : r.status = "in_progress" => r \in rows'
           /\ \A x \in Workflows : active[x] # 0 => \E r \in rows' : r.w = x /\ r.status = "pending"
<1> DEFINE W == {x \in Workflows : active[x] # 0}
<1>1. Upserts(W, active)
  BY DEF EnqueueOnTakeover, EnqueueAllActive
<1>2. W \in SUBSET Workflows /\ \A x \in W : active[x] \in Versions
  BY DEF PubTypeOK
<1>3. \A x : x \in W <=> x \in Workflows /\ active[x] # 0
  OBVIOUS
<1> HIDE DEF W
<1>4. UpsertResult(W, active)
  BY <1>1, <1>2, UpsertEffect
<1>5. QED
  BY <1>3, <1>4 DEF UpsertResult

\* A drain that is not yet past its decision promises nothing.
LEMMA EarlyProgress ==
    ASSUME NEW i \in Hosts, drain'[i].step \in Early
    PROVE  Progress(i)'
BY DEF Progress, Early

\* The progress of a drain that stays where it is.
LEMMA SameProgress ==
    ASSUME NEW i \in Hosts, drain'[i] = drain[i], Progress(i),
           published'[drain[i].w] = published[drain[i].w],
           NoPending(drain[i].w)' => NoPending(drain[i].w) /\ active'[drain[i].w] = active[drain[i].w],
           Failed(drain[i].w) => Failed(drain[i].w)'
    PROVE  Progress(i)'
<1> DEFINE d == drain[i]
<1>1. /\ d.step = "remove" => d.add
      /\ d.step = "add" => published[d.w] = d.v
      /\ NoPending(d.w) =>
            /\ d.step \in {"remove", "advance", "add"} => active[d.w] = d.v
            /\ d.step \in {"removeAll", "unmap"} => active[d.w] = 0
            /\ d.step = "report" /\ ~Failed(d.w) => published[d.w] = active[d.w]
  BY DEF Progress
<1>2. NoPending(d.w)' <=> \A r \in rows' : r.w = d.w => r.status # "pending"
  BY DEF NoPending
<1>3. Failed(d.w)' <=> \E h \in Hosts : \E x \in {"failed"} : <<h, d.w, x>> \in amiss'
  BY DEF Failed, Excused
<1>4. QED
  BY <1>1 DEF Progress

\* While a drain works on a workflow, a pending row of it stays, and without one
\* users change nothing.
LEMMA PendingStays ==
    ASSUME PInv, [PubNext]_poVars, NEW i \in Hosts, NEW w \in Workflows, Busy(i, w), ~Overrun(w)
    PROVE  NoPending(w)' => NoPending(w) /\ active'[w] = active[w]
<1>0. PubTypeOK /\ TableCases
  BY RecordStep DEF PInv
<1>1. \E r \in rows : r.w = w /\ r.status = "in_progress"
  BY BusyRow DEF Busy, PInv
<1>2. CASE KeepsRecords /\ SameTables
  BY <1>2 DEF SameTables, NoPending
<1>3. ASSUME NEW x \in Workflows, Publish(x) \/ Unpublish(x)
      PROVE  NoPending(w)' => NoPending(w) /\ active'[w] = active[w]
  <2>1. \A y \in Workflows : y # x => active'[y] = active[y]
    BY <1>0, <1>3 DEF Publish, Unpublish, PubTypeOK
  <2>2. /\ \A r \in rows : r.w # x => r \in rows'
        /\ \E r \in rows' : r.w = x /\ r.status = "pending"
    BY <1>3, ChangedRows
  <2>3. QED
    BY <2>1, <2>2 DEF NoPending
<1>4. ASSUME NEW k \in Terms, EnqueueOnTakeover(k)
      PROVE  NoPending(w)' => NoPending(w) /\ active'[w] = active[w]
  BY <1>0, <1>4, EnqueuedRows DEF EnqueueOnTakeover, NoPending
<1>5. ASSUME NEW h \in Hosts, ClaimNextPendingRecord(h)
      PROVE  NoPending(w)' => NoPending(w) /\ active'[w] = active[w]
  <2>1. PICK r \in rows : Claims(h, r)
    BY <1>0, <1>5, ClaimEffect
  <2>2. /\ r.status = "pending" \/ r.status = "in_progress"
        /\ r.status = "in_progress" => rows' = rows
        /\ r.status = "pending" => \A q \in rows : q.w = r.w => q = r
        /\ \A q \in rows : q # r => q \in rows'
    BY <1>0, <2>1, ClaimedRow
  <2>3. r.status = "pending" => r.w # w
    BY <1>1, <2>2
  <2>4. QED
    BY <1>5, <2>2, <2>3 DEF ClaimNextPendingRecord, NoPending
<1>6. ASSUME NEW h \in Hosts, ReturnToPending(h)
      PROVE  NoPending(w)' => NoPending(w) /\ active'[w] = active[w]
  <2>1. \A q \in rows : q.status = "pending" => q \in rows'
    BY <1>0, <1>6, ReturnedRow
  <2>2. QED
    BY <1>6, <2>1 DEF ReturnToPending, NoPending
<1>7. ASSUME NEW h \in Hosts, Report(h)
      PROVE  NoPending(w)' => NoPending(w) /\ active'[w] = active[w]
  BY <1>7 DEF Report, InProgressRow, NoPending
<1>8. ASSUME NEW h \in Hosts, AdvancePublishedVersion(h) \/ RemovePublishedVersion(h)
      PROVE  NoPending(w)' => NoPending(w) /\ active'[w] = active[w]
  BY <1>8 DEF AdvancePublishedVersion, RemovePublishedVersion, NoPending
<1>9. QED
  BY <1>0, <1>2, <1>3, <1>4, <1>5, <1>6, <1>7, <1>8 DEF TableCases

\* Only the drain that works on a workflow moves its published version.
LEMMA PublishedStays ==
    ASSUME PubTypeOK, [PubNext]_poVars, NEW w \in Workflows, published'[w] # published[w]
    PROVE  \E h \in Hosts : /\ AdvancePublishedVersion(h) \/ RemovePublishedVersion(h)
                            /\ Busy(h, w) /\ InCritical(h) /\ drain'[h] # drain[h] /\ rows' = rows
<1>1. TableCases
  BY RecordStep
<1>2. PICK h \in Hosts : AdvancePublishedVersion(h) \/ RemovePublishedVersion(h)
  BY <1>1 DEF TableCases, SameTables, Publish, Unpublish, EnqueueOnTakeover,
              ClaimNextPendingRecord, ReturnToPending, Report
<1>3. drain[h].w = w /\ drain[h].step \in {"advance", "unmap"} /\ rows' = rows
  BY <1>2 DEF AdvancePublishedVersion, RemovePublishedVersion, PubTypeOK
<1>4. PICK step \in {"add", "report"} : Moves(h, step)
  BY <1>2, GoEffect DEF AdvancePublishedVersion, RemovePublishedVersion, DrainSteps
<1>5. drain'[h] # drain[h]
  BY <1>3, <1>4 DEF Moves
<1>6. QED
  BY <1>2, <1>3, <1>5 DEF Busy, InCritical, Critical

\* What the other drains are promised is not disturbed.
LEMMA OthersProgress ==
    ASSUME PInv, [PubNext]_poVars, NEW i \in Hosts, drain'[i] = drain[i], ~Overrun(drain[i].w)'
    PROVE  Progress(i)'
<1> DEFINE w == drain[i].w
<1>1. CASE drain[i].step = "idle"
  BY <1>1, EarlyProgress DEF Early
<1>2. CASE drain[i].step # "idle"
  <2>0. /\ PubTypeOK /\ LockInv /\ OrderInv /\ StageInv /\ KeepsOverruns /\ FailureCases
        /\ w \in Workflows
    BY <1>2, RecordStep, DrainStepCases DEF PInv, LockInv
  <2>1. ~Overrun(w)
    BY <2>0 DEF Overrun, Excused, KeepsOverruns
  <2>2. Progress(i) /\ Busy(i, w)
    BY <1>2, <2>0, <2>1 DEF StageInv, Busy
  <2>3. \A h \in Hosts : Busy(h, w) => h = i
    BY <1>2, <2>0, <2>1, BusyRow
  <2>4. Failed(w) => Failed(w)'
    <3>1. ASSUME NEW h \in Hosts, Activate(h) PROVE Failed(w) => Failed(w)'
      <4>1. Moves(h, "report") /\ drain[h].step = "add"
        BY <2>0, <3>1, GoEffect DEF Activate, DrainSteps
      <4>2. h # i
        BY <4>1 DEF Moves
      <4>3. drain[h].w # w
        BY <2>3, <4>1, <4>2 DEF Busy
      <4>4. QED
        BY <3>1, <4>3 DEF Activate, Failed, Excused
    <3>2. QED
      BY <2>0, <3>1 DEF FailureCases, KeepsFailures
  <2>5. published'[w] = published[w]
    BY <2>0, <2>3, PublishedStays
  <2>6. NoPending(w)' => NoPending(w) /\ active'[w] = active[w]
    BY <2>0, <2>1, <2>2, PendingStays
  <2>7. QED
    BY <2>2, <2>4, <2>5, <2>6, SameProgress
<1>3. QED
  BY <1>1, <1>2

\* A drain that goes on keeps its record, the rows and the active version.
LEMMA AdvancesEffect ==
    ASSUME PubTypeOK, LockInv, NEW h \in Hosts, Advances(h)
    PROVE  /\ rows' = rows /\ active' = active /\ InCritical(h)
           /\ drain[h].w \in Workflows /\ drain'[h].w = drain[h].w
<1>1. /\ rows' = rows /\ active' = active /\ InCritical(h)
  BY DEF Advances, Resolve, Deactivate, DeactivateFails, AdvancePublishedVersion,
         RemovePublishedVersion, Activate, ActivateFails, tables, InCritical, Critical
<1>2. drain[h].w \in Workflows
  BY <1>1, LockHeld
<1>3. CASE Resolve(h)
  BY <1>1, <1>2, <1>3, ResolveEffect DEF Resolves
<1>4. CASE ~Resolve(h)
  <2>1. PICK step \in DrainSteps : Go(h, step)
    BY <1>4 DEF Advances, Deactivate, DeactivateFails, AdvancePublishedVersion,
                RemovePublishedVersion, Activate, ActivateFails, DrainSteps
  <2>2. QED
    BY <1>1, <1>2, <2>1, GoEffect DEF Moves
<1>5. QED
  BY <1>3, <1>4

\* What a drain that moves is promised.
LEMMA MoverProgress ==
    ASSUME PInv, NEW h \in Hosts, ~Overrun(drain[h].w), rows' = rows, active' = active,
           Advances(h)
    PROVE  Progress(h)'
<1> DEFINE w == drain[h].w
           s == drain[h].step
<1>0. /\ PubTypeOK /\ LockInv /\ OrderInv /\ StageInv /\ RowInv /\ VersionInv
      /\ s # "idle" /\ w \in Workflows
  BY
     DEF PInv, LockInv, Advances, Resolve, Deactivate, DeactivateFails,
         AdvancePublishedVersion,
         RemovePublishedVersion, Activate, ActivateFails
<1>1. /\ s = "add" => published[w] = drain[h].v
      /\ NoPending(w) =>
            /\ s \in {"remove", "advance", "add"} => active[w] = drain[h].v
            /\ s \in {"removeAll", "unmap"} => active[w] = 0
  BY <1>0 DEF StageInv, Progress
<1>2. NoPending(w) /\ active[w] # 0 => active[w] = drain[h].v
  <2>1. PICK r \in rows : r.w = w /\ r.v = drain[h].v
    BY <1>0, BusyRow
  <2>2. NoPending(w) => r.v = latest[w]
    BY <1>0, <2>1 DEF RowInv
  <2>3. QED
    BY <1>0, <2>1, <2>2 DEF VersionInv
<1> HIDE DEF w, s
<1>3. SUFFICES /\ drain'[h].step = "remove" => drain'[h].add
               /\ drain'[h].w = w /\ drain'[h].v = drain[h].v
               /\ drain'[h].step = "add" => published'[w] = drain[h].v
               /\ NoPending(w) =>
                     /\ drain'[h].step \in {"remove", "advance", "add"} => active[w] = drain[h].v
                     /\ drain'[h].step \in {"removeAll", "unmap"} => active[w] = 0
                     /\ drain'[h].step = "report" =>
                           published'[w] = active[w] \/ <<h, w, "failed">> \in amiss'
  BY DEF Progress, NoPending, Failed, Excused
<1>4. CASE Resolve(h)
  <2>1. Resolves(h)
    BY <1>0, <1>4, ResolveEffect
  <2>2. published' = published
    BY <1>4 DEF Resolve, tables
  <2>3. QED
    BY <1>2, <2>1, <2>2 DEF Resolves, w
<1>5. CASE Deactivate(h)
  <2>1. /\ s \in {"remove", "removeAll"} /\ published' = published
        /\ Moves(h, IF s = "remove" THEN "advance" ELSE "unmap")
    BY <1>0, <1>5, GoEffect DEF Deactivate, DrainSteps, tables, s
  <2>2. QED
    BY <1>1, <2>1 DEF Moves, w
<1>6. CASE DeactivateFails(h) \/ ActivateFails(h)
  <2>1. Moves(h, "report") /\ <<h, w, "failed">> \in amiss'
    BY <1>0, <1>6, GoEffect DEF DeactivateFails, ActivateFails, Blame, DrainSteps, w
  <2>2. QED
    BY <2>1 DEF Moves, w
<1>7. CASE AdvancePublishedVersion(h)
  <2>1. /\ s = "advance" /\ published'[w] = drain[h].v
        /\ \E step \in {"add", "report"} : Moves(h, step)
    BY <1>0, <1>7, GoEffect DEF AdvancePublishedVersion, DrainSteps, PubTypeOK, s, w
  <2>2. QED
    BY <1>1, <2>1 DEF Moves, w
<1>8. CASE RemovePublishedVersion(h)
  <2>1. s = "unmap" /\ published'[w] = 0 /\ Moves(h, "report")
    BY <1>0, <1>8, GoEffect DEF RemovePublishedVersion, DrainSteps, PubTypeOK, s, w
  <2>2. QED
    BY <1>1, <2>1 DEF Moves, w
<1>9. CASE Activate(h)
  <2>1. s = "add" /\ published' = published /\ Moves(h, "report")
    BY <1>0, <1>9, GoEffect DEF Activate, DrainSteps, tables, s
  <2>2. QED
    BY <1>1, <2>1 DEF Moves, w
<1>10. QED
  BY <1>4, <1>5, <1>6, <1>7, <1>8, <1>9 DEF Advances

\* A workflow without a row is as its users want it: who ends the last row has
\* brought the published version there, or has failed.
LEMMA SettledStep ==
    ASSUME PInv, [PubNext]_poVars, NEW x \in Workflows,
           ~Overrun(x)', ~Failed(x)', \A r \in rows' : r.w # x
    PROVE  published'[x] = active'[x]
<1>0. /\ PubTypeOK /\ LockInv /\ OrderInv /\ StageInv /\ KeepsOverruns /\ TableCases /\ FailureCases
  BY RecordStep, DrainStepCases DEF PInv
<1>1. ~Overrun(x)
  BY <1>0 DEF Overrun, Excused, KeepsOverruns
<1>2. ASSUME NEW h \in Hosts, Busy(h, x) PROVE \E r \in rows : r.w = x
  BY <1>0, <1>1, <1>2, BusyRow DEF Busy
<1>3. ASSUME \A r \in rows : r.w # x PROVE ~Failed(x) /\ published[x] = active[x]
  <2>1. ASSUME NEW h \in Hosts, Activate(h), Failed(x) PROVE Failed(x)'
    <3>1. drain[h].w # x
      BY <1>2, <1>3, <2>1 DEF Activate, Busy
    <3>2. QED
      BY <2>1, <3>1 DEF Activate, Failed, Excused
  <2>2. ~Failed(x)
    BY <1>0, <2>1 DEF FailureCases, KeepsFailures
  <2>3. QED
    BY <1>0, <1>1, <1>3, <2>2 DEF StageInv
<1>4. CASE KeepsRecords /\ SameTables
  BY <1>3, <1>4 DEF SameTables
<1>5. ASSUME NEW w \in Workflows, Publish(w) \/ Unpublish(w)
      PROVE  published'[x] = active'[x]
  <2>1. /\ \A r \in rows : r.w # w => r \in rows'
        /\ \E r \in rows' : r.w = w
    BY <1>5, ChangedRows
  <2>2. published'[x] = published[x] /\ active'[x] = active[x] /\ \A r \in rows : r.w # x
    BY <1>0, <1>5, <2>1 DEF Publish, Unpublish, PubTypeOK
  <2>3. QED
    BY <1>3, <2>2
<1>6. ASSUME NEW k \in Terms, EnqueueOnTakeover(k) PROVE published'[x] = active'[x]
  <2>1. \A r \in rows : r.w # x
    BY <1>0, <1>6, EnqueuedRows
  <2>2. QED
    BY <1>3, <1>6, <2>1 DEF EnqueueOnTakeover
<1>7. ASSUME NEW h \in Hosts, ClaimNextPendingRecord(h) PROVE published'[x] = active'[x]
  <2>1. PICK r \in rows : Claims(h, r)
    BY <1>0, <1>7, ClaimEffect
  <2>2. \A q \in rows : q.w # x
    BY <1>0, <2>1, ClaimedRow
  <2>3. QED
    BY <1>3, <1>7, <2>2 DEF ClaimNextPendingRecord
<1>8. ASSUME NEW h \in Hosts, ReturnToPending(h) PROVE published'[x] = active'[x]
  <2>1. \A q \in rows : q.w # x
    BY <1>0, <1>8, ReturnedRow
  <2>2. QED
    BY <1>3, <1>8, <2>1 DEF ReturnToPending
<1>9. ASSUME NEW h \in Hosts, Report(h) PROVE published'[x] = active'[x]
  <2>1. /\ \A q \in rows : q \in rows' \/ (q.w = drain[h].w /\ q.status = "in_progress")
        /\ published' = published /\ active' = active /\ amiss' = amiss /\ drain[h].step = "report"
    BY <1>9 DEF Report, InProgressRow, WorksOn
  <2>2. CASE x = drain[h].w
    <3>1. NoPending(x) /\ ~Failed(x)
      BY <2>1 DEF NoPending, Failed, Excused
    <3>2. Progress(h)
      BY <1>0, <1>1, <2>2 DEF StageInv
    <3>3. QED
      BY <2>1, <2>2, <3>1, <3>2 DEF Progress
  <2>3. CASE x # drain[h].w
    BY <1>3, <2>1, <2>3
  <2>4. QED
    BY <2>2, <2>3
<1>10. ASSUME NEW h \in Hosts, AdvancePublishedVersion(h) \/ RemovePublishedVersion(h)
       PROVE  published'[x] = active'[x]
  <2>1. \A q \in rows : q.w # x
    BY <1>10 DEF AdvancePublishedVersion, RemovePublishedVersion
  <2>2. drain[h].w # x
    BY <1>2, <1>10, <2>1 DEF AdvancePublishedVersion, RemovePublishedVersion, Busy
  <2>3. published'[x] = published[x] /\ active' = active
    BY <1>0, <1>10, <2>2
       DEF AdvancePublishedVersion, RemovePublishedVersion, PubTypeOK
  <2>4. QED
    BY <1>3, <2>1, <2>3
<1>11. QED
  BY <1>0, <1>4, <1>5, <1>6, <1>7, <1>8, <1>9, <1>10 DEF TableCases

\* The drains bring the tables to what users want.
LEMMA StageStep ==
    ASSUME PInv, [PubNext]_poVars
    PROVE  StageInv'
<1>1. ASSUME NEW x \in Workflows, ~Overrun(x)', ~Failed(x)', \A r \in rows' : r.w # x
      PROVE  published'[x] = active'[x]
  BY <1>1, SettledStep
<1>2. ASSUME NEW h \in Hosts, ~Overrun(drain[h].w)' PROVE Progress(h)'
  <2>0. /\ DrainCase(h) /\ KeepsOverruns /\ LockInv /\ PubTypeOK
    BY DrainStepCases, RecordStep DEF PInv
  <2>1. CASE drain'[h] = drain[h]
    BY <1>2, <2>1, OthersProgress
  <2>2. CASE drain'[h].step \in Early
    BY <2>2, EarlyProgress
  <2>3. CASE Advances(h)
    <3>1. rows' = rows /\ active' = active /\ drain[h].w \in Workflows /\ drain'[h].w = drain[h].w
      BY <2>0, <2>3, AdvancesEffect
    <3>2. ~Overrun(drain[h].w)
      BY <1>2, <2>0, <3>1 DEF Overrun, Excused, KeepsOverruns
    <3>3. QED
      BY <2>3, <3>1, <3>2, MoverProgress
  <2>4. QED
    BY <2>0, <2>1, <2>2, <2>3 DEF DrainCase, Early
<1>3. QED
  BY <1>1, <1>2 DEF StageInv


-----------------------------------------------------------------------------
(* The triggers of the leader *)

\* The leader of the next state took over just now, or leads on; its takeover
\* handlers end by writing their rows.
LeadsOn(g) ==
    \/ Takeover(g)
    \/ /\ leader = g /\ term' = term /\ led' = led
       /\ \A k \in Terms : led[k] = g /\ taking[k] => taking'[k] \/ EnqueueOnTakeover(k)

\* Whoever leads has taken over or led before.
LEMMA LeaderStep ==
    ASSUME PubTypeOK, [PubNext]_poVars, NEW g \in Hosts, leader' = g
    PROVE  LeadsOn(g)
<1>0. PubTypeOK
  OBVIOUS
<1>1. ASSUME NEW w \in Workflows, Publish(w) PROVE LeadsOn(g)
  BY <1>1 DEF Publish, leadership, LeadsOn
<1>2. ASSUME NEW w \in Workflows, Unpublish(w) PROVE LeadsOn(g)
  BY <1>2 DEF Unpublish, leadership, LeadsOn
<1>3. ASSUME NEW h \in Hosts, Takeover(h) PROVE LeadsOn(g)
  BY <1>3 DEF Takeover, LeadsOn
<1>4. ASSUME NEW k \in Terms, EnqueueOnTakeover(k) PROVE LeadsOn(g)
  <2>1. \A j \in Terms : j # k => (taking'[j] <=> taking[j])
    BY <1>0, <1>4 DEF EnqueueOnTakeover, PubTypeOK
  <2>2. QED
    BY <1>4, <2>1 DEF EnqueueOnTakeover, LeadsOn
<1>5. ASSUME NEW h \in Hosts, WakeUp(h) PROVE LeadsOn(g)
  BY <1>5 DEF WakeUp, leadership, LeadsOn
<1>6. ASSUME NEW h \in Hosts, Stepdown(h) PROVE LeadsOn(g)
  BY <1>6, ConstantFacts DEF Stepdown
<1>7. ASSUME NEW k \in Terms, TeardownTimesOut(k) PROVE LeadsOn(g)
  BY <1>7 DEF TeardownTimesOut, leadership, LeadsOn
<1>8. ASSUME NEW k \in Terms, TeardownRemoves(k) PROVE LeadsOn(g)
  BY <1>8 DEF TeardownRemoves, leadership, LeadsOn
<1>8a. ASSUME NEW k \in Terms, TeardownFails(k) PROVE LeadsOn(g)
  BY <1>8a DEF TeardownFails, leadership, LeadsOn
<1>9. ASSUME NEW h \in Hosts, ClaimNextPendingRecord(h) PROVE LeadsOn(g)
  BY <1>9 DEF ClaimNextPendingRecord, leadership, LeadsOn
<1>10. ASSUME NEW h \in Hosts, Acquire(h) PROVE LeadsOn(g)
  BY <1>10 DEF Acquire, leadership, LeadsOn
<1>11. ASSUME NEW h \in Hosts, Enter(h) PROVE LeadsOn(g)
  BY <1>11 DEF Enter, leadership, LeadsOn
<1>12. ASSUME NEW h \in Hosts, ReturnToPending(h) PROVE LeadsOn(g)
  BY <1>12 DEF ReturnToPending, leadership, LeadsOn
<1>13. ASSUME NEW h \in Hosts, Resolve(h) PROVE LeadsOn(g)
  BY <1>13 DEF Resolve, leadership, LeadsOn
<1>14. ASSUME NEW h \in Hosts, Deactivate(h) PROVE LeadsOn(g)
  BY <1>14 DEF Deactivate, leadership, LeadsOn
<1>15. ASSUME NEW h \in Hosts, AdvancePublishedVersion(h) PROVE LeadsOn(g)
  BY <1>15 DEF AdvancePublishedVersion, leadership, LeadsOn
<1>16. ASSUME NEW h \in Hosts, RemovePublishedVersion(h) PROVE LeadsOn(g)
  BY <1>16 DEF RemovePublishedVersion, leadership, LeadsOn
<1>17. ASSUME NEW h \in Hosts, Activate(h) PROVE LeadsOn(g)
  BY <1>17 DEF Activate, leadership, LeadsOn
<1>18. ASSUME NEW h \in Hosts, Report(h) PROVE LeadsOn(g)
  BY <1>18 DEF Report, leadership, LeadsOn
<1>19. ASSUME NEW h \in Hosts, DeactivateFails(h) PROVE LeadsOn(g)
  BY <1>19 DEF DeactivateFails, leadership, LeadsOn
<1>20. ASSUME NEW h \in Hosts, ActivateFails(h) PROVE LeadsOn(g)
  BY <1>20 DEF ActivateFails, leadership, LeadsOn
<1>21. ASSUME NEW h \in Hosts, ReportFails(h) PROVE LeadsOn(g)
  BY <1>21 DEF ReportFails, leadership, LeadsOn
<1>22. ASSUME NEW h \in Hosts, Crash(h) PROVE LeadsOn(g)
  <2>1. leader = g /\ g # h
    BY <1>22, ConstantFacts DEF Crash
  <2>2. \A k \in Terms : led[k] = g /\ taking[k] => taking'[k]
    BY <1>22, <2>1 DEF Crash
  <2>3. QED
    BY <1>22, <2>1, <2>2 DEF Crash, LeadsOn
<1>23. ASSUME NEW h \in Hosts, NEW w \in Workflows, TriggerFails(h, w) PROVE LeadsOn(g)
  BY <1>23 DEF TriggerFails, leadership, LeadsOn
<1>24. ASSUME NEW t \in recovering, Reactivate(t) PROVE LeadsOn(g)
  BY <1>24 DEF Reactivate, leadership, LeadsOn
<1>25. ASSUME NEW t \in recovering, ReactivateFails(t) PROVE LeadsOn(g)
  BY <1>25 DEF ReactivateFails, leadership, LeadsOn
<1>26. ASSUME UNCHANGED poVars PROVE LeadsOn(g)
  BY <1>26 DEF poVars, leadership, LeadsOn
<1>27. QED
  BY <1>1, <1>2, <1>3, <1>4, <1>5, <1>6, <1>7, <1>8, <1>8a, <1>9,
     <1>10, <1>11, <1>12, <1>13, <1>14, <1>15, <1>16, <1>17, <1>18,
     <1>19, <1>20, <1>21, <1>22, <1>23, <1>24, <1>25, <1>26
     DEF PubNext, DrainStep, FailStep

\* Nobody but the leader enters its critical section.
LEMMA EntersStep ==
    ASSUME PubTypeOK, LockInv, [PubNext]_poVars
    PROVE  NobodyEnters
<1>1. ASSUME NEW i \in Hosts, InCritical(i)'
      PROVE  leader = i \/ (InCritical(i) /\ drain'[i].w = drain[i].w)
  <2>1. DrainCase(i)
    BY DrainStepCases
  <2>2. CASE drain'[i] = drain[i]
    BY <1>1, <2>2 DEF InCritical
  <2>3. CASE drain'[i].step \in {"idle", "claimed", "waiting"}
    BY <1>1, <2>3 DEF InCritical, Critical
  <2>4. CASE Advances(i)
    BY <2>4, AdvancesEffect
  <2>5. QED
    BY <2>1, <2>2, <2>3, <2>4 DEF DrainCase
<1>2. QED
  BY <1>1 DEF NobodyEnters

\* What a former leader is still about to apply stays enqueued.
LEMMA HandoverStep ==
    ASSUME PInv, [PubNext]_poVars
    PROVE  HandoverInv'
<1>0. /\ PubTypeOK /\ TermInv /\ LockInv /\ HandoverInv /\ KeepsOverruns /\ NobodyEnters
      /\ leader' \in Hosts \cup {NoHost}
  BY RecordStep, EntersStep, TypesStep DEF PInv, PubTypeOK
<1>1. ASSUME NEW h \in Hosts, InCritical(h)', leader' \notin {h, NoHost}, ~taking'[term'],
             NoPending(drain[h].w)', ~Overrun(drain[h].w)'
      PROVE  active'[drain'[h].w] = 0
  <2>1. PICK g \in Hosts : leader' = g
    BY <1>0, <1>1
  <2>2. LeadsOn(g)
    BY <1>0, <2>1, LeaderStep
  <2>3. ~Takeover(g)
    <3>1. ASSUME Takeover(g) PROVE FALSE
      <4>1. term' = term + 1 /\ term + 1 \in Terms /\ taking' = [taking EXCEPT ![term + 1] = TRUE]
        BY <1>0, <3>1, ConstantFacts DEF Takeover, PubTypeOK, Terms
      <4>2. QED
        BY <1>0, <1>1, <4>1 DEF PubTypeOK
    <3>2. QED
      BY <3>1
  <2>4. /\ leader = g /\ term' = term /\ led' = led /\ term \in Terms /\ led[term] = g
        /\ taking[term] => EnqueueOnTakeover(term)
    BY <1>0, <1>1, <2>1, <2>2, <2>3, ConstantFacts DEF LeadsOn, TermInv
  <2>5. InCritical(h) /\ drain'[h].w = drain[h].w
    BY <1>0, <1>1, <2>1, <2>4 DEF NobodyEnters
  <2> DEFINE w == drain[h].w
  <2>6. w \in Workflows /\ Busy(h, w)
    BY <1>0, <2>5, LockHeld DEF Busy, InCritical, Critical
  <2>7. ~Overrun(w) /\ \A r \in rows' : r.w = w => r.status # "pending"
    BY <1>0, <1>1, <2>5, <2>6 DEF Overrun, Excused, KeepsOverruns, NoPending
  <2>8. NoPending(w) /\ active'[w] = active[w]
    <3>1. PICK x : x = w
      OBVIOUS
    <3>2. NoPending(x)' => NoPending(x) /\ active'[x] = active[x]
      BY <2>6, <2>7, <3>1, PendingStays
    <3>3. QED
      BY <2>7, <3>1, <3>2 DEF NoPending
  <2>9. CASE taking[term]
    <3>1. active[w] # 0 => \E r \in rows' : r.w = w /\ r.status = "pending"
      BY <1>0, <2>4, <2>6, <2>9, EnqueuedRows
    <3>2. QED
      BY <2>5, <2>7, <2>8, <3>1
  <2>10. CASE ~taking[term]
    <3>1. active[w] = 0
      BY <1>0, <1>1, <2>1, <2>4, <2>5, <2>7, <2>8, <2>10 DEF HandoverInv
    <3>2. QED
      BY <2>5, <2>8, <3>1
  <2>11. QED
    BY <2>9, <2>10
<1>2. QED
  BY <1>1 DEF HandoverInv

\* Nothing that stood in the way of w on g is forgotten.
Unforgiven(g, w) ==
    /\ TeardownOwed(g, w) => TeardownOwed(g, w)'
    /\ \A i \in Hosts, x \in Reasons :
          <<i, w, x>> \in amiss =>
              <<i, w, x>> \in amiss' \/ (i # g /\ x \notin {"failed", "overrun"})
    /\ \A t \in recovering : t[1] = g /\ t[2] = w =>
          t \in recovering' \/ <<g, w, "failed">> \in amiss'

\* What can happen to the trigger of w on the leader g.
LocalCase(g, w) ==
    \/ Unforgiven(g, w) /\ registered'[g][w] = registered[g][w]
    \/ /\ registered'[g][w] = 0
       /\ \/ <<g, w, "regained">> \in amiss'
          \/ \E t \in recovering' : t[1] = g /\ t[2] = w
    \/ \E x \in {"aborted", "recovered"} : <<g, w, x>> \in amiss'
    \/ drain[g].w = w /\ Advances(g)

\* A step that changes neither loops nor registrations, and forgives nothing.
LEMMA LocalAlone ==
    ASSUME NEW g \in Hosts, NEW y \in Workflows, led' = led, loop' = loop,
           amiss \subseteq amiss', recovering' = recovering,
           registered'[g][y] = registered[g][y]
    PROVE  LocalCase(g, y)
BY DEF LocalCase, Unforgiven, TeardownOwed

\* The steps that touch the triggers of the leader.
LEMMA LocalCases ==
    ASSUME PInv, [PubNext]_poVars, NEW g \in Hosts, NEW y \in Workflows, leader = g, leader' = g
    PROVE  LocalCase(g, y)
<1>0. PubTypeOK /\ TermInv /\ LockInv /\ leader = g /\ leader' = g
  BY DEF PInv
<1>1. ASSUME NEW w \in Workflows, Publish(w) PROVE LocalCase(g, y)
  <2>1. /\ led' = led /\ loop' = loop /\ amiss \subseteq amiss'
        /\ recovering' = recovering /\ registered' = registered
    BY <1>1 DEF Publish, leadership, triggers
  <2>2. QED
    BY <2>1, LocalAlone
<1>2. ASSUME NEW w \in Workflows, Unpublish(w) PROVE LocalCase(g, y)
  <2>1. /\ led' = led /\ loop' = loop /\ amiss \subseteq amiss'
        /\ recovering' = recovering /\ registered' = registered
    BY <1>2 DEF Unpublish, leadership, triggers
  <2>2. QED
    BY <2>1, LocalAlone
<1>3. ASSUME NEW h \in Hosts, Takeover(h) PROVE LocalCase(g, y)
  BY <1>0, <1>3, ConstantFacts DEF Takeover
<1>4. ASSUME NEW k \in Terms, EnqueueOnTakeover(k) PROVE LocalCase(g, y)
  <2>1. /\ led' = led /\ loop' = loop /\ amiss \subseteq amiss'
        /\ recovering' = recovering /\ registered' = registered
    BY <1>4 DEF EnqueueOnTakeover, leadership, triggers
  <2>2. QED
    BY <2>1, LocalAlone
<1>5. ASSUME NEW h \in Hosts, WakeUp(h) PROVE LocalCase(g, y)
  <2>1. /\ led' = led /\ loop' = loop /\ amiss \subseteq amiss'
        /\ recovering' = recovering /\ registered' = registered
    BY <1>5 DEF WakeUp, leadership, triggers
  <2>2. QED
    BY <2>1, LocalAlone
<1>6. ASSUME NEW h \in Hosts, Stepdown(h) PROVE LocalCase(g, y)
  BY <1>0, <1>6, ConstantFacts DEF Stepdown
<1>7. ASSUME NEW k \in Terms, TeardownTimesOut(k) PROVE LocalCase(g, y)
  <2>1. /\ LoopOnly(k) /\ loop'[k].step = "forced"
        /\ loop'[k].at = loop[k].at /\ loop'[k].todo = loop[k].todo
    BY <1>0, <1>7, TimesOutEffect
  <2>2. TeardownOwed(g, y) => TeardownOwed(g, y)'
    BY <1>7, <2>1 DEF TeardownTimesOut, leadership, TeardownOwed, LoopOnly
  <2>3. QED
    BY <1>7, <2>2 DEF TeardownTimesOut, triggers, Blame, LocalCase, Unforgiven
<1>8. ASSUME NEW k \in Terms, TeardownRemoves(k) PROVE LocalCase(g, y)
  <2>1. /\ led[k] \in Hosts /\ loop[k].at \in Workflows /\ Unregisters(led[k], loop[k].at)
        /\ GoneOn(k, led[k], loop[k].todo, LockLeft(k))
    BY <1>0, <1>8, RemovesEffect
  <2>2. led' = led /\ amiss \subseteq amiss' /\ recovering' = recovering
    BY <1>8 DEF TeardownRemoves, leadership, Blame
  <2>3. CASE led[k] = g /\ loop[k].at = y
    <3>1. <<g, y, "regained">> \in amiss'
      BY <1>0, <1>8, <2>3 DEF TeardownRemoves, Blame
    <3>2. QED
      BY <2>1, <2>3, <3>1 DEF Unregisters, LocalCase
  <2>4. CASE led[k] # g \/ loop[k].at # y
    <3>1. \A j \in Terms : j # k => loop'[j] = loop[j]
      BY <1>0, <2>1 DEF GoneOn, PubTypeOK
    <3>2. y \in loop[k].todo => /\ loop'[k].step = "locking"
                                /\ y \in loop'[k].todo \cup {loop'[k].at}
      BY <2>1 DEF GoneOn
    <3>3. TeardownOwed(g, y) => TeardownOwed(g, y)'
      BY <2>2, <2>4, <3>1, <3>2 DEF TeardownOwed
    <3>4. registered'[g][y] = registered[g][y]
      BY <2>1, <2>4 DEF Unregisters
    <3>5. QED
      BY <2>2, <3>3, <3>4 DEF LocalCase, Unforgiven
  <2>5. QED
    BY <2>3, <2>4
<1>8a. ASSUME NEW k \in Terms, TeardownFails(k) PROVE LocalCase(g, y)
  <2>1. LoopOnly(k)
    BY <1>0, <1>8a, FailsEffect
  <2>2. /\ led' = led /\ amiss \subseteq amiss' /\ recovering' = recovering
        /\ registered' = registered
        /\ \A x \in loop[k].todo \cup {loop[k].at} : <<led[k], x, "aborted">> \in amiss'
    BY <1>8a DEF TeardownFails, leadership, triggers
  <2>3. CASE led[k] = g /\ y \in loop[k].todo \cup {loop[k].at}
    BY <2>2, <2>3 DEF LocalCase
  <2>4. CASE led[k] # g \/ y \notin loop[k].todo \cup {loop[k].at}
    <3>1. TeardownOwed(g, y) => TeardownOwed(g, y)'
      BY <2>1, <2>2, <2>4 DEF TeardownOwed, LoopOnly
    <3>2. QED
      BY <2>2, <3>1 DEF LocalCase, Unforgiven
  <2>5. QED
    BY <2>3, <2>4
<1>9. ASSUME NEW h \in Hosts, ClaimNextPendingRecord(h) PROVE LocalCase(g, y)
  <2>1. PICK r \in rows : Claims(h, r)
    BY <1>0, <1>9, ClaimEffect
  <2>2. amiss \subseteq amiss'
    BY <2>1 DEF Claims
  <2>3. led' = led /\ loop' = loop /\ recovering' = recovering /\ registered' = registered
    BY <1>9 DEF ClaimNextPendingRecord, leadership, triggers
  <2>4. QED
    BY <2>2, <2>3, LocalAlone
<1>10. ASSUME NEW h \in Hosts, Acquire(h) PROVE LocalCase(g, y)
  <2>1. /\ led' = led /\ loop' = loop /\ amiss \subseteq amiss'
        /\ recovering' = recovering /\ registered' = registered
    BY <1>10 DEF Acquire, leadership, triggers
  <2>2. QED
    BY <2>1, LocalAlone
<1>11. ASSUME NEW h \in Hosts, Enter(h) PROVE LocalCase(g, y)
  <2>1. /\ led' = led /\ loop' = loop /\ amiss \subseteq amiss'
        /\ recovering' = recovering /\ registered' = registered
    BY <1>11 DEF Enter, leadership, triggers
  <2>2. QED
    BY <2>1, LocalAlone
<1>12. ASSUME NEW h \in Hosts, ReturnToPending(h) PROVE LocalCase(g, y)
  <2>1. /\ led' = led /\ loop' = loop /\ amiss \subseteq amiss'
        /\ recovering' = recovering /\ registered' = registered
    BY <1>12 DEF ReturnToPending, leadership, triggers
  <2>2. QED
    BY <2>1, LocalAlone
<1>13. ASSUME NEW h \in Hosts, Resolve(h) PROVE LocalCase(g, y)
  <2>1. /\ led' = led /\ loop' = loop /\ amiss \subseteq amiss'
        /\ recovering' = recovering /\ registered' = registered
    BY <1>13 DEF Resolve, leadership, triggers
  <2>2. QED
    BY <2>1, LocalAlone
<1>14. ASSUME NEW h \in Hosts, Deactivate(h) PROVE LocalCase(g, y)
  <2>1. CASE h = g /\ drain[h].w = y
    BY <1>14, <2>1 DEF LocalCase, Advances
  <2>2. CASE h # g \/ drain[h].w # y
    <3>1. registered'[g][y] = registered[g][y]
      BY <1>0, <1>14, <2>2 DEF Deactivate, triggers, PubTypeOK, LockInv
    <3>2. led' = led /\ loop' = loop /\ amiss \subseteq amiss' /\ recovering' = recovering
      BY <1>0, <1>14 DEF Deactivate, leadership, triggers, Blame
    <3>3. QED
      BY <3>1, <3>2, LocalAlone
  <2>3. QED
    BY <2>1, <2>2
<1>15. ASSUME NEW h \in Hosts, AdvancePublishedVersion(h) PROVE LocalCase(g, y)
  <2>1. /\ led' = led /\ loop' = loop /\ amiss \subseteq amiss'
        /\ recovering' = recovering /\ registered' = registered
    BY <1>15 DEF AdvancePublishedVersion, leadership, triggers
  <2>2. QED
    BY <2>1, LocalAlone
<1>16. ASSUME NEW h \in Hosts, RemovePublishedVersion(h) PROVE LocalCase(g, y)
  <2>1. /\ led' = led /\ loop' = loop /\ amiss \subseteq amiss'
        /\ recovering' = recovering /\ registered' = registered
    BY <1>16 DEF RemovePublishedVersion, leadership, triggers
  <2>2. QED
    BY <2>1, LocalAlone
<1>17. ASSUME NEW h \in Hosts, Activate(h) PROVE LocalCase(g, y)
  <2>1. CASE h = g /\ drain[h].w = y
    BY <1>17, <2>1 DEF LocalCase, Advances
  <2>2. CASE h # g \/ drain[h].w # y
    <3>1. registered'[g][y] = registered[g][y]
      BY <1>0, <1>17, <2>2 DEF Activate, PubTypeOK, LockInv
    <3>2. led' = led /\ loop' = loop /\ recovering' = recovering
      BY <1>17 DEF Activate, leadership
    <3>3. ASSUME NEW i \in Hosts, NEW x \in Reasons, <<i, y, x>> \in amiss
          PROVE  <<i, y, x>> \in amiss'
      BY <1>0, <1>17, <2>2, <3>3 DEF Activate
    <3>4. QED
      BY <3>1, <3>2, <3>3 DEF LocalCase, Unforgiven, TeardownOwed
  <2>3. QED
    BY <2>1, <2>2
<1>18. ASSUME NEW h \in Hosts, Report(h) PROVE LocalCase(g, y)
  <2>1. /\ led' = led /\ loop' = loop /\ amiss \subseteq amiss'
        /\ recovering' = recovering /\ registered' = registered
    BY <1>18 DEF Report, leadership, triggers
  <2>2. QED
    BY <2>1, LocalAlone
<1>19. ASSUME NEW h \in Hosts, DeactivateFails(h) PROVE LocalCase(g, y)
  <2>1. CASE h = g /\ drain[h].w = y
    BY <1>19, <2>1 DEF LocalCase, Advances
  <2>2. CASE h # g \/ drain[h].w # y
    <3>1. registered'[g][y] = registered[g][y]
      BY <1>0, <1>19, <2>2 DEF DeactivateFails, triggers, PubTypeOK, LockInv
    <3>2. led' = led /\ loop' = loop /\ amiss \subseteq amiss' /\ recovering' = recovering
      BY <1>0, <1>19 DEF DeactivateFails, leadership, triggers, Blame
    <3>3. QED
      BY <3>1, <3>2, LocalAlone
  <2>3. QED
    BY <2>1, <2>2
<1>20. ASSUME NEW h \in Hosts, ActivateFails(h) PROVE LocalCase(g, y)
  <2>1. CASE h = g /\ drain[h].w = y
    BY <1>20, <2>1 DEF LocalCase, Advances
  <2>2. CASE h # g \/ drain[h].w # y
    <3>1. registered'[g][y] = registered[g][y]
      BY <1>0, <1>20, <2>2 DEF ActivateFails, triggers, PubTypeOK, LockInv
    <3>2. led' = led /\ loop' = loop /\ amiss \subseteq amiss' /\ recovering' = recovering
      BY <1>0, <1>20 DEF ActivateFails, leadership, triggers, Blame
    <3>3. QED
      BY <3>1, <3>2, LocalAlone
  <2>3. QED
    BY <2>1, <2>2
<1>21. ASSUME NEW h \in Hosts, ReportFails(h) PROVE LocalCase(g, y)
  <2>1. /\ led' = led /\ loop' = loop /\ amiss \subseteq amiss'
        /\ recovering' = recovering /\ registered' = registered
    BY <1>21 DEF ReportFails, leadership, triggers
  <2>2. QED
    BY <2>1, LocalAlone
<1>22. ASSUME NEW h \in Hosts, Crash(h) PROVE LocalCase(g, y)
  <2>1. h # g
    BY <1>0, <1>22, ConstantFacts DEF Crash
  <2>2. /\ led' = led /\ registered'[g] = registered[g]
        /\ \A k \in Terms : led[k] # h => loop'[k] = loop[k]
    BY <1>0, <1>22, <2>1, CrashEffect DEF Crash
  <2>3. TeardownOwed(g, y) => TeardownOwed(g, y)'
    BY <2>1, <2>2 DEF TeardownOwed
  <2>4. \A i \in Hosts, x \in Reasons :
          <<i, y, x>> \in amiss =>
              <<i, y, x>> \in amiss' \/ (i # g /\ x \notin {"failed", "overrun"})
    BY <1>22, <2>1 DEF Crash
  <2>5. \A t \in recovering : t[1] = g => t \in recovering'
    BY <1>22, <2>1 DEF Crash
  <2>6. QED
    BY <2>2, <2>3, <2>4, <2>5 DEF LocalCase, Unforgiven
<1>23. ASSUME NEW h \in Hosts, NEW w \in Workflows, TriggerFails(h, w)
       PROVE  LocalCase(g, y)
  <2>1. Unregisters(h, w)
    BY <1>0, <1>23, UnregisterEffect DEF TriggerFails
  <2>2. /\ led' = led /\ loop' = loop /\ amiss' = amiss
        /\ recovering' = recovering \cup {<<h, w, registered[h][w]>>}
    BY <1>23 DEF TriggerFails, leadership
  <2>3. CASE h = g /\ w = y
    <3>1. registered'[g][y] = 0
      BY <2>1, <2>3 DEF Unregisters
    <3>2. \E t \in recovering' : t[1] = g /\ t[2] = y
      <4>1. <<h, w, registered[h][w]>> \in recovering'
        BY <2>2
      <4>2. QED
        BY <2>3, <4>1
    <3>3. QED
      BY <3>1, <3>2 DEF LocalCase
  <2>4. CASE h # g \/ w # y
    <3>1. registered'[g][y] = registered[g][y]
      BY <2>1, <2>4 DEF Unregisters
    <3>2. QED
      BY <2>2, <3>1 DEF LocalCase, Unforgiven, TeardownOwed
  <2>5. QED
    BY <2>3, <2>4
<1>24. ASSUME NEW t \in recovering, Reactivate(t) PROVE LocalCase(g, y)
  <2>1. t[1] \in Hosts /\ t[2] \in Workflows /\ t[3] \in Versions
    BY <1>0 DEF PubTypeOK
  <2>2. RegistersAs(t[1], t[2], t[3])
    BY <1>0, <1>24, <2>1, RegisterEffect DEF Reactivate
  <2>3. /\ led' = led /\ loop' = loop /\ amiss \subseteq amiss'
        /\ <<t[1], t[2], "recovered">> \in amiss' /\ recovering' = recovering \ {t}
    BY <1>24 DEF Reactivate, leadership, Blame
  <2>4. CASE t[1] = g /\ t[2] = y
    BY <2>3, <2>4 DEF LocalCase
  <2>5. CASE t[1] # g \/ t[2] # y
    <3>1. registered'[g][y] = registered[g][y]
      BY <2>2, <2>5 DEF RegistersAs
    <3>2. QED
      BY <2>3, <2>5, <3>1 DEF LocalCase, Unforgiven, TeardownOwed
  <2>6. QED
    BY <2>4, <2>5
<1>25. ASSUME NEW t \in recovering, ReactivateFails(t) PROVE LocalCase(g, y)
  <2>1. /\ led' = led /\ loop' = loop /\ amiss \subseteq amiss' /\ registered' = registered
        /\ <<t[1], t[2], "failed">> \in amiss' /\ recovering' = recovering \ {t}
    BY <1>25 DEF ReactivateFails, leadership, Blame
  <2>2. QED
    BY <2>1 DEF LocalCase, Unforgiven, TeardownOwed
<1>26. ASSUME UNCHANGED poVars PROVE LocalCase(g, y)
  <2>1. /\ led' = led /\ loop' = loop /\ amiss \subseteq amiss'
        /\ recovering' = recovering /\ registered' = registered
    BY <1>26 DEF poVars, leadership, triggers
  <2>2. QED
    BY <2>1, LocalAlone
<1>27. QED
  BY <1>1, <1>2, <1>3, <1>4, <1>5, <1>6, <1>7, <1>8, <1>8a, <1>9,
     <1>10, <1>11, <1>12, <1>13, <1>14, <1>15, <1>16, <1>17, <1>18,
     <1>19, <1>20, <1>21, <1>22, <1>23, <1>24, <1>25, <1>26
     DEF PubNext, DrainStep, FailStep

\* What is not forgiven leaves the trigger as unsound as it was.
LEMMA SoundKept ==
    ASSUME NEW g \in Hosts, NEW y \in Workflows, Unforgiven(g, y)
    PROVE  (Sound(g, y)' => Sound(g, y)) /\ (Clean(g, y)' => Clean(g, y))
<1>1. \A i \in Hosts, x \in Reasons :
         <<i, y, x>> \in amiss =>
             <<i, y, x>> \in amiss' \/ (i # g /\ x \notin {"failed", "overrun"})
  BY DEF Unforgiven
<1>2. /\ Overrun(y) => Overrun(y)'
      /\ Failed(y) => Failed(y)'
  BY <1>1 DEF Overrun, Failed, Excused, Reasons
<1>3. /\ Excused(g, y, {"forced", "aborted", "recovered"}) =>
           Excused(g, y, {"forced", "aborted", "recovered"})'
      /\ Excused(g, y, {"regained"}) => Excused(g, y, {"regained"})'
  BY <1>1 DEF Excused, Reasons
<1>4. Sound(g, y)' => Sound(g, y)
  BY <1>2, <1>3 DEF Sound, Unforgiven
<1>5. ASSUME Clean(g, y)' PROVE Clean(g, y)
  <2>1. /\ Sound(g, y)' /\ ~Excused(g, y, {"regained"})' /\ ~Failed(y)'
        /\ \A t \in recovering' : t[1] # g \/ t[2] # y
    BY <1>5 DEF Clean
  <2>2. <<g, y, "failed">> \notin amiss'
    BY <2>1 DEF Failed, Excused
  <2>3. \A t \in recovering : t[1] # g \/ t[2] # y
    BY <2>1, <2>2 DEF Unforgiven
  <2>4. QED
    BY <1>2, <1>3, <1>4, <2>1, <2>3 DEF Clean
<1>6. QED
  BY <1>4, <1>5

\* A trigger that is gone and known to be amiss.
LEMMA ZeroLocal ==
    ASSUME NEW g \in Hosts, NEW y \in Workflows, registered'[g][y] = 0, ~Clean(g, y)'
    PROVE  Local(g, y)'
BY DEF Local, Registers

\* A main that takes over starts without triggers.
LEMMA TakeoverLocal ==
    ASSUME PInv, NEW g \in Hosts, NEW y \in Workflows, Takeover(g), Sound(g, y)'
    PROVE  Local(g, y)'
<1>0. PubTypeOK /\ TermInv /\ CriticalInv /\ DemotedIsQuiet /\ term \in Nat
  <2>1. PubTypeOK /\ TermInv /\ CriticalInv /\ DemotedIsQuiet
    BY DEF PInv
  <2>2. term \in 0 .. MaxTerms
    BY <2>1 DEF PubTypeOK
  <2>3. QED
    BY <2>1, <2>2, ConstantFacts
<1>1. /\ leader # g /\ term + 1 \in Terms /\ led' = [led EXCEPT ![term + 1] = g]
      /\ taking' = [taking EXCEPT ![term + 1] = TRUE]
      /\ registered' = registered /\ drain' = drain /\ loop' = loop /\ amiss' = amiss
  BY <1>0, ConstantFacts DEF Takeover, triggers, Terms
<1>2. led[term + 1] = NoHost
  BY <1>0, <1>1 DEF TermInv
<1>3. TeardownOwed(g, y) => TeardownOwed(g, y)'
  <2>1. \A k \in Terms : led[k] = g => led'[k] = g
    BY <1>0, <1>1 DEF PubTypeOK
  <2>2. QED
    BY <1>1, <2>1 DEF TeardownOwed
<1>4. ~TeardownOwed(g, y) /\ ~Excused(g, y, {"forced", "aborted", "recovered"})
  BY <1>1, <1>3 DEF Sound, Excused
<1>5. registered'[g][y] = 0
  BY <1>0, <1>1, <1>4 DEF DemotedIsQuiet
<1>6. ~(InCritical(g) /\ drain[g].w = y)
  <2>1. ~WillWait(g, y)
    BY <1>4 DEF WillWait, TeardownOwed
  <2>2. ~Excused(g, y, {"forced", "aborted"})
    BY <1>4 DEF Excused
  <2>3. QED
    BY <1>0, <1>1, <2>1, <2>2 DEF CriticalInv
<1>7. drain'[g].w = y => Registers(g, y)'
  BY <1>1, <1>5, <1>6 DEF Registers, InCritical, Critical
<1>8. ~(\A k \in Terms : led'[k] = g => ~taking'[k])
  BY <1>0, <1>1 DEF PubTypeOK
<1>9. QED
  BY <1>5, <1>7, <1>8 DEF Local

\* Of the steps of a critical section only activate forgives.
LEMMA MoverUnforgiving ==
    ASSUME NEW h \in Hosts, NEW y \in Workflows, Advances(h), ~Activate(h)
    PROVE  Unforgiven(h, y)
<1>1. led' = led /\ loop' = loop /\ amiss \subseteq amiss' /\ recovering' = recovering
  <2>1. CASE Resolve(h)
    BY <2>1 DEF Resolve, leadership, triggers
  <2>2. CASE Deactivate(h)
    BY <2>2 DEF Deactivate, leadership
  <2>3. CASE DeactivateFails(h)
    BY <2>3 DEF DeactivateFails, leadership, Blame
  <2>4. CASE AdvancePublishedVersion(h)
    BY <2>4 DEF AdvancePublishedVersion, leadership, triggers
  <2>5. CASE RemovePublishedVersion(h)
    BY <2>5 DEF RemovePublishedVersion, leadership, triggers
  <2>6. CASE ActivateFails(h)
    BY <2>6 DEF ActivateFails, leadership, Blame
  <2>7. QED
    BY <2>1, <2>2, <2>3, <2>4, <2>5, <2>6 DEF Advances
<1>2. QED
  BY <1>1 DEF Unforgiven, TeardownOwed

\* The drain of the leader brings the trigger to the published version.
LEMMA MoverLocal ==
    ASSUME PInv, [PubNext]_poVars, NEW g \in Hosts, NEW y \in Workflows,
           leader = g, drain[g].w = y, Advances(g), Sound(g, y)'
    PROVE  Local(g, y)'
<1>1. PubTypeOK /\ LockInv /\ OrderInv /\ StageInv /\ LocalInv /\ KeepsOverruns /\ NobodyEnters
  BY RecordStep, EntersStep DEF PInv
<1>2. ~Overrun(y)
  BY <1>1 DEF Sound, Overrun, Excused, KeepsOverruns
<1>3. InCritical(g) /\ rows' = rows /\ drain[g].step # "idle" /\ drain'[g].w = y
  BY <1>1, AdvancesEffect DEF InCritical, Critical
<1>0. PubTypeOK /\ LockInv /\ drain[g].w = y /\ Progress(g) /\ leader = g
  BY <1>1, <1>2 DEF StageInv
<1>4. /\ \E r \in rows : r.w = y
      /\ \A i \in Hosts : Busy(i, y) => i = g
  BY <1>1, <1>2, <1>3, BusyRow
<1>5. ~Activate(g) => Local(g, y) /\ (Clean(g, y)' => Clean(g, y))
  <2>1. ASSUME ~Activate(g)
        PROVE  (Sound(g, y)' => Sound(g, y)) /\ (Clean(g, y)' => Clean(g, y))
    BY <2>1, MoverUnforgiving, SoundKept
  <2>2. QED
    BY <1>1, <2>1 DEF LocalInv
<1>6. drain[g] \in DrainType /\ drain[g].add \in BOOLEAN
  BY <1>0 DEF PubTypeOK, DrainType
<1>7. ASSUME Resolve(g) PROVE registered'[g][y] \in {0, published'[y]} /\ Registers(g, y)'
  <2>1. Resolves(g)
    BY <1>0, <1>7, ResolveEffect
  <2>2. published' = published /\ registered' = registered
    BY <1>7 DEF Resolve, tables, triggers
  <2>3. registered[g][y] \in {0, published[y]}
    BY <1>5, <1>7 DEF Resolve, Activate, Local
  <2>4. QED
    BY <1>0, <1>6, <2>1, <2>2, <2>3 DEF Resolves, Registers
<1>8. ASSUME Deactivate(g)
      PROVE  registered'[g][y] \in {0, published'[y]} /\ Registers(g, y)'
  <2>1. Moves(g, IF drain[g].step = "remove" THEN "advance" ELSE "unmap")
    BY <1>0, <1>8, GoEffect DEF Deactivate, DrainSteps
  <2>2. Unregisters(g, y)
    BY <1>0, <1>8, UnregisterEffect DEF Deactivate
  <2>3. drain[g].step = "remove" => drain[g].add
    BY <1>0 DEF Progress
  <2>4. QED
    BY <2>1, <2>2, <2>3 DEF Moves, Unregisters, Registers
<1>9. ASSUME DeactivateFails(g)
      PROVE  registered'[g][y] \in {0, published'[y]} /\ Registers(g, y)'
  <2>1. Moves(g, "report") /\ published' = published
    BY <1>0, <1>9, GoEffect DEF DeactivateFails, DrainSteps, tables
  <2>2. registered'[g][y] \in {0, registered[g][y]}
    <3>1. CASE registered' = registered
      BY <3>1
    <3>2. CASE registered' = [registered EXCEPT ![g][y] = 0]
      BY <1>0, <3>2, UnregisterEffect DEF Unregisters
    <3>3. QED
      BY <1>0, <1>9, <3>1, <3>2 DEF DeactivateFails
  <2>3. ~Clean(g, y)'
    BY <1>0, <1>9 DEF DeactivateFails, Blame, Clean, Failed, Excused
  <2>4. registered[g][y] \in {0, published[y]}
    BY <1>5, <1>9 DEF DeactivateFails, Activate, Local
  <2>5. QED
    BY <2>1, <2>2, <2>3, <2>4 DEF Moves, Registers
<1>10. ASSUME AdvancePublishedVersion(g)
       PROVE  registered'[g][y] \in {0, published'[y]} /\ Registers(g, y)'
  <2>1. Moves(g, IF drain[g].add THEN "add" ELSE "report")
    BY <1>0, <1>10, GoEffect DEF AdvancePublishedVersion, DrainSteps
  <2>2. published'[y] = drain[g].v /\ registered' = registered /\ drain[g].step = "advance"
    BY <1>0, <1>10 DEF AdvancePublishedVersion, triggers, PubTypeOK
  <2>3. Registers(g, y)
    BY <1>0, <1>5, <2>2 DEF Activate, Local
  <2>4. QED
    BY <1>5, <2>1, <2>2, <2>3 DEF Moves, Registers, Activate
<1>11. ASSUME RemovePublishedVersion(g)
       PROVE  registered'[g][y] \in {0, published'[y]} /\ Registers(g, y)'
  <2>1. Moves(g, "report")
    BY <1>0, <1>11, GoEffect DEF RemovePublishedVersion, DrainSteps
  <2>2. published'[y] = 0 /\ registered' = registered /\ drain[g].step = "unmap"
    BY <1>0, <1>11 DEF RemovePublishedVersion, triggers, PubTypeOK
  <2>3. Registers(g, y)
    BY <1>0, <1>5, <2>2 DEF Activate, Local
  <2>4. QED
    BY <2>1, <2>2, <2>3 DEF Moves, Registers
<1>12. ASSUME Activate(g)
       PROVE  registered'[g][y] \in {0, published'[y]} /\ Registers(g, y)'
  <2>1. Moves(g, "report") /\ drain[g].step = "add" /\ published' = published
    BY <1>0, <1>12, GoEffect DEF Activate, DrainSteps, tables
  <2>2. RegistersAs(g, y, drain[g].v)
    BY <1>0, <1>12, DrainFields, RegisterEffect DEF Activate
  <2>3. published[y] = drain[g].v
    BY <1>0, <2>1 DEF Progress
  <2>4. QED
    BY <2>1, <2>2, <2>3 DEF Moves, RegistersAs, Registers
<1>13. ASSUME ActivateFails(g)
       PROVE  registered'[g][y] \in {0, published'[y]} /\ Registers(g, y)'
  <2>1. Moves(g, "report") /\ published' = published
    BY <1>0, <1>13, GoEffect DEF ActivateFails, DrainSteps, tables
  <2>2. Unregisters(g, y)
    BY <1>0, <1>13, UnregisterEffect DEF ActivateFails
  <2>3. ~Clean(g, y)'
    BY <1>0, <1>13 DEF ActivateFails, Blame, Clean, Failed, Excused
  <2>4. QED
    BY <2>1, <2>2, <2>3 DEF Moves, Unregisters, Registers
<1>14. registered'[g][y] \in {0, published'[y]} /\ Registers(g, y)'
  BY <1>7, <1>8, <1>9, <1>10, <1>11, <1>12, <1>13 DEF Advances
<1>15. \A i \in Hosts \ {g} : ~(InCritical(i)' /\ drain'[i].w = y)
  BY <1>0, <1>1, <1>4 DEF NobodyEnters, Busy, InCritical, Critical
<1>16. QED
  BY <1>3, <1>4, <1>14, <1>15 DEF Local

\* Which step takes the last row of a workflow away: the report of its drain.
LEMMA LastRow ==
    ASSUME PInv, [PubNext]_poVars, NEW r \in rows, \A q \in rows' : q.w # r.w
    PROVE  \E h \in Hosts : Report(h) /\ r \in InProgressRow(h) /\ NoPending(r.w)
<1>0. PubTypeOK /\ TableCases /\ r.w \in Workflows
  BY RecordStep DEF PInv, PubTypeOK, Row
<1>1. ASSUME NEW x \in Workflows, Publish(x) \/ Unpublish(x) PROVE FALSE
  BY <1>1, ChangedRows
<1>2. ASSUME NEW k \in Terms, EnqueueOnTakeover(k) PROVE FALSE
  BY <1>0, <1>2, EnqueuedRows
<1>3. ASSUME NEW h \in Hosts, ClaimNextPendingRecord(h) PROVE FALSE
  <2>1. PICK q \in rows : Claims(h, q)
    BY <1>0, <1>3, ClaimEffect
  <2>2. QED
    BY <1>0, <2>1, ClaimedRow
<1>4. ASSUME NEW h \in Hosts, ReturnToPending(h) PROVE FALSE
  BY <1>0, <1>4, ReturnedRow
<1>5. ASSUME NEW h \in Hosts, Report(h) PROVE r \in InProgressRow(h) /\ NoPending(r.w)
  BY <1>5 DEF Report, InProgressRow, NoPending
<1>6. ASSUME NEW h \in Hosts, AdvancePublishedVersion(h) \/ RemovePublishedVersion(h)
      PROVE  FALSE
  BY <1>6 DEF AdvancePublishedVersion, RemovePublishedVersion
<1>7. ~SameTables
  BY DEF SameTables
<1>8. QED
  BY <1>0, <1>1, <1>2, <1>3, <1>4, <1>5, <1>6, <1>7 DEF TableCases

\* The published version of a workflow that the leader does not advance changes
\* only while the leader has no trigger of it.
LEMMA OthersPublish ==
    ASSUME PInv, [PubNext]_poVars, NEW g \in Hosts, NEW y \in Workflows,
           ~(drain[g].w = y /\ Advances(g)), ~Overrun(y), Local(g, y),
           published'[y] # published[y]
    PROVE  /\ registered[g][y] = 0 /\ (drain[g].step = "idle" \/ drain[g].w # y)
           /\ \E r \in rows' : r.w = y
<1>0. PubTypeOK /\ LockInv /\ OrderInv
  BY DEF PInv
<1>1. PICK i \in Hosts : /\ AdvancePublishedVersion(i) \/ RemovePublishedVersion(i)
                         /\ Busy(i, y) /\ InCritical(i) /\ rows' = rows
  BY <1>0, PublishedStays
<1>2. i # g /\ drain[i].w = y /\ drain[i].step # "idle"
  BY <1>1 DEF Busy, Advances
<1>3. registered[g][y] = 0
  BY <1>1, <1>2 DEF Local
<1>4. /\ \E r \in rows : r.w = y
      /\ \A j \in Hosts : Busy(j, y) => j = i
  BY <1>0, <1>2, BusyRow
<1>5. QED
  BY <1>1, <1>2, <1>3, <1>4 DEF Busy

\* The trigger of a workflow that the drain of the leader does not work on.
LEMMA KeptLocal ==
    ASSUME PInv, [PubNext]_poVars, NEW g \in Hosts, NEW y \in Workflows,
           leader = g, leader' = g, ~(drain[g].w = y /\ Advances(g)), Unforgiven(g, y),
           registered'[g][y] = registered[g][y], Sound(g, y)'
    PROVE  Local(g, y)'
<1>0. /\ PubTypeOK /\ TermInv /\ LockInv /\ OrderInv /\ StageInv /\ LocalInv /\ HandoverInv
      /\ NobodyEnters /\ DrainCase(g)
  BY EntersStep, DrainStepCases DEF PInv
<1>1. Sound(g, y) /\ (Clean(g, y)' => Clean(g, y)) /\ ~Overrun(y)
  BY SoundKept DEF Sound
<1>2. Local(g, y)
  BY <1>0, <1>1 DEF LocalInv
<1>3. \/ published'[y] = published[y]
      \/ /\ registered[g][y] = 0 /\ (drain[g].step = "idle" \/ drain[g].w # y)
         /\ \E r \in rows' : r.w = y
  BY <1>1, <1>2, OthersPublish
<1>4. registered'[g][y] \in {0, published'[y]}
  BY <1>2, <1>3 DEF Local
<1>5. \A i \in Hosts \ {g} : InCritical(i)' /\ drain'[i].w = y => registered'[g][y] = 0
  BY <1>0, <1>2 DEF NobodyEnters, Local
<1>6. ASSUME drain'[g].w = y PROVE Registers(g, y)'
  <2>1. CASE drain'[g] = drain[g]
    <3>1. Registers(g, y)
      BY <1>2, <1>6, <2>1 DEF Local
    <3>2. drain[g].step = "report" => published'[y] = published[y]
      BY <1>3, <1>6, <2>1
    <3>3. QED
      BY <1>1, <2>1, <3>1, <3>2 DEF Registers
  <2>2. CASE drain'[g].step \in {"idle", "claimed", "waiting", "resolve"}
    BY <2>2 DEF Registers
  <2>3. ~Advances(g)
    BY <1>0, <1>6, AdvancesEffect
  <2>4. QED
    BY <1>0, <2>1, <2>2, <2>3 DEF DrainCase
<1>7. ASSUME Clean(g, y)', \A r \in rows' : r.w # y, \A k \in Terms : led'[k] = g => ~taking'[k]
      PROVE  registered'[g][y] = published'[y]
  <2>1. published'[y] = published[y] /\ Clean(g, y) /\ ~Failed(y)
    BY <1>1, <1>3, <1>7 DEF Clean
  <2>2. SUFFICES registered[g][y] = published[y]
    BY <2>1
  <2>3. /\ term' = term /\ led' = led /\ term \in Terms /\ led[term] = g
        /\ \A k \in Terms : led[k] = g /\ taking[k] => taking'[k] \/ EnqueueOnTakeover(k)
    <3>1. LeadsOn(g) /\ ~Takeover(g)
      BY <1>0, ConstantFacts, LeaderStep DEF Takeover
    <3>2. QED
      BY <1>0, <3>1, ConstantFacts DEF LeadsOn, TermInv
  <2>4. CASE \E r \in rows : r.w = y
    <3>1. PICK r \in rows : r.w = y
      BY <2>4
    <3>2. PICK h \in Hosts : Report(h) /\ r \in InProgressRow(h) /\ NoPending(y)
      BY <1>7, <3>1, LastRow
    <3>3. drain[h].step = "report" /\ drain[h].w = y /\ InCritical(h) /\ taking' = taking
      BY <3>1, <3>2
         DEF Report, InProgressRow, WorksOn, InCritical, Critical, leadership
    <3>4. CASE h = g
      BY <1>2, <2>1, <3>3, <3>4 DEF Local, Registers
    <3>5. CASE h # g
      <4>1. registered[g][y] = 0
        BY <1>2, <3>3, <3>5 DEF Local
      <4>2. published[y] = active[y]
        BY <1>0, <1>1, <2>1, <3>2, <3>3 DEF StageInv, Progress
      <4>3. active[y] = 0
        BY <1>0, <1>1, <1>7, <2>3, <3>2, <3>3, <3>5, ConstantFacts DEF HandoverInv
      <4>4. QED
        BY <4>1, <4>2, <4>3
    <3>6. QED
      BY <3>4, <3>5
  <2>5. CASE (\A r \in rows : r.w # y) /\ \A k \in Terms : led[k] = g => ~taking[k]
    BY <1>2, <2>1, <2>5 DEF Local
  <2>6. CASE (\A r \in rows : r.w # y) /\ \E k \in Terms : led[k] = g /\ taking[k]
    <3>1. PICK k \in Terms : EnqueueOnTakeover(k)
      BY <1>7, <2>3, <2>6
    <3>2. active[y] = 0
      BY <1>0, <1>7, <3>1, EnqueuedRows
    <3>3. published[y] = active[y]
      BY <1>0, <1>1, <2>1, <2>6 DEF StageInv
    <3>4. QED
      BY <1>2, <3>2, <3>3 DEF Local
  <2>7. QED
    BY <2>4, <2>5, <2>6
<1>8. QED
  BY <1>4, <1>5, <1>6, <1>7 DEF Local

\* The triggers of the leader stay those of the published version, or none.
LEMMA LocalStep ==
    ASSUME PInv, [PubNext]_poVars
    PROVE  LocalInv'
<1>0. PubTypeOK /\ TermInv /\ LockInv
  BY DEF PInv
<1>1. ASSUME NEW g \in Hosts, NEW y \in Workflows, leader' = g, Sound(g, y)'
      PROVE  Local(g, y)'
  <2>1. Takeover(g) \/ leader = g
    BY <1>0, <1>1, LeaderStep DEF LeadsOn
  <2>2. CASE Takeover(g)
    BY <1>1, <2>2, TakeoverLocal
  <2>3. CASE leader = g
    <3>1. LocalCase(g, y)
      BY <1>1, <2>3, LocalCases
    <3>2. CASE drain[g].w = y /\ Advances(g)
      BY <1>1, <2>3, <3>2, MoverLocal
    <3>3. CASE /\ ~(drain[g].w = y /\ Advances(g)) /\ Unforgiven(g, y)
               /\ registered'[g][y] = registered[g][y]
      BY <1>1, <2>3, <3>3, KeptLocal
    <3>4. CASE /\ registered'[g][y] = 0
               /\ \/ <<g, y, "regained">> \in amiss'
                  \/ \E t \in recovering' : t[1] = g /\ t[2] = y
      <4>1. ~Clean(g, y)'
        BY <3>4 DEF Clean, Excused
      <4>2. QED
        BY <3>4, <4>1, ZeroLocal
    <3>5. CASE \E x \in {"aborted", "recovered"} : <<g, y, x>> \in amiss'
      BY <1>1, <3>5 DEF Sound, Excused
    <3>6. QED
      BY <3>1, <3>2, <3>3, <3>4, <3>5 DEF LocalCase
  <2>4. QED
    BY <2>1, <2>2, <2>3
<1>2. QED
  BY <1>1 DEF LocalInv


-----------------------------------------------------------------------------
(* The theorems *)

\* An empty outbox and mains without triggers satisfy the invariant.
LEMMA InitPInv == PubInit => PInv
<1> SUFFICES ASSUME PubInit PROVE PInv
  OBVIOUS
<1>1. /\ active \in [Workflows -> {0}] /\ latest \in [Workflows -> {0}]
      /\ published \in [Workflows -> {0}] /\ rows = {} /\ nextId \in [Workflows -> Nat]
      /\ changes = 0 /\ faults = 0 /\ amiss = {} /\ recovering = {}
      /\ leader = NoHost /\ term = 0
      /\ led \in [Terms -> {NoHost}] /\ taking \in [Terms -> {FALSE}]
      /\ polling \in [Hosts -> {FALSE}]
      /\ drain \in [Hosts -> {NoDrain}] /\ loop \in [Terms -> {NoLoop}]
      /\ lock \in [Hosts -> [Workflows -> {<<>>}]]
      /\ registered \in [Hosts -> [Workflows -> {0}]]
  BY DEF PubInit
<1>2. NoDrain \in DrainType /\ NoDrain.step = "idle" /\ NoDrain.w = NoWorkflow
  BY ConstantFacts DEF NoDrain, DrainType, DrainSteps
<1>3. NoLoop \in LoopType /\ NoLoop.step = "idle"
  BY DEF NoLoop, LoopType, LoopSteps
<1>4. TablesOK
  BY <1>1, ConstantFacts DEF TablesOK, RowsDistinct
<1>5. LeadershipOK
  <2>1. term \in 0 .. MaxTerms /\ leader \in Hosts \cup {NoHost}
    BY <1>1, ConstantFacts
  <2>2. led \in [Terms -> Hosts \cup {NoHost}]
    BY <1>1
  <2>3. taking \in [Terms -> BOOLEAN] /\ polling \in [Hosts -> BOOLEAN]
    BY DEF PubInit
  <2>4. QED
    BY <2>1, <2>2, <2>3 DEF LeadershipOK
<1>6. MemoryOK
  <2>1. drain \in [Hosts -> DrainType] /\ loop \in [Terms -> LoopType]
    BY <1>1, <1>2, <1>3
  <2>2. registered \in [Hosts -> [Workflows -> Versions]]
    BY <1>1, ConstantFacts
  <2>3. lock \in [Hosts -> [Workflows -> Seq(LockOwners)]]
    <3>1. <<>> \in Seq(LockOwners)
      OBVIOUS
    <3>2. QED
      BY <3>1 DEF PubInit
  <2>4. faults \in 0 .. MaxFaults
    BY <1>1, ConstantFacts
  <2>5. QED
    BY <1>1, <2>1, <2>2, <2>3, <2>4 DEF MemoryOK
<1>7. PubTypeOK
  BY <1>4, <1>5, <1>6, TypeParts
<1>8. \A h \in Hosts : drain[h].step = "idle" /\ ~InCritical(h)
  BY <1>1, <1>2 DEF InCritical, Critical
<1>9. VersionInv
  BY <1>1, <1>8 DEF VersionInv
<1>10. TermInv
  BY <1>1, <1>3 DEF TermInv
<1>11. LockInv
  BY <1>1, <1>3, <1>8 DEF LockInv
<1>12. CriticalInv /\ HandoverInv
  BY <1>8 DEF CriticalInv, HandoverInv
<1>13. DemotedIsQuiet
  BY <1>1 DEF DemotedIsQuiet
<1>14. RowInv /\ OrderInv
  BY <1>1, <1>8 DEF RowInv, OrderInv, Busy
<1>15. StageInv
  BY <1>1, <1>8 DEF StageInv, Progress
<1>16. LocalInv
  BY <1>1, ConstantFacts DEF LocalInv
<1>17. QED
  BY <1>7, <1>9, <1>10, <1>11, <1>12, <1>13, <1>14, <1>15, <1>16 DEF PInv

(***************************************************************************)
(* The invariant of the outbox holds in every state, whatever users, the   *)
(* drains, the teardown loops, failing triggers, crashes and changes of    *)
(* leadership do.                                                          *)
(***************************************************************************)
THEOREM OutboxInvariantHolds == PubSpec => []PInv
<1>1. PubInit => PInv
  BY InitPInv
<1>2. PInv /\ [PubNext]_poVars => PInv'
  <2> SUFFICES ASSUME PInv, [PubNext]_poVars PROVE PInv'
    OBVIOUS
  <2>1. PubTypeOK' /\ TermInv' /\ LockInv'
    BY TypesStep, TermStep, LockStep
  <2>2. CriticalInv' /\ DemotedIsQuiet'
    BY QuietStep
  <2>3. VersionInv' /\ RowInv' /\ OrderInv'
    BY OrderStep
  <2>4. StageInv' /\ HandoverInv' /\ LocalInv'
    BY StageStep, HandoverStep, LocalStep
  <2>5. QED
    BY <2>1, <2>2, <2>3, <2>4 DEF PInv
<1>3. QED
  BY <1>1, <1>2, PTL DEF PubSpec

\* Every variable keeps its type, and a workflow never has two rows of one
\* status: the partial unique index of the outbox is respected.
THEOREM OutboxTypeCorrect == PubSpec => []PubTypeOK
<1>1. PInv => PubTypeOK
  BY DEF PInv
<1>2. QED
  BY <1>1, OutboxInvariantHolds, PTL

\* A main that lost leadership has no trigger that its teardown will not remove,
\* unless the teardown timed out or was ended by a trigger that did not close, or
\* a failed trigger was recovered (the lock of processRecord and the check of
\* leadership under it).
THEOREM DemotedMainsAreQuiet == PubSpec => []DemotedIsQuiet
<1>1. PInv => DemotedIsQuiet
  BY DEF PInv
<1>2. QED
  BY <1>1, OutboxInvariantHolds, PTL

\* When nothing is under way for a workflow, the leader has registered the
\* trigger of the version that users asked for.
LEMMA SettledFromInv == PInv => SettledIsPublished
<1> SUFFICES ASSUME PInv, NEW h \in Hosts, NEW w \in Workflows, leader = h, Settled(h, w)
             PROVE  registered[h][w] = active[w] /\ published[w] = active[w]
  BY DEF SettledIsPublished
<1>0. StageInv /\ LocalInv
  BY DEF PInv
<1>1. /\ \A r \in rows : r.w # w
      /\ \A k \in Terms : led[k] = h => ~taking[k]
      /\ ~TeardownOwed(h, w)
      /\ \A t \in recovering : t[1] # h \/ t[2] # w
      /\ \A a \in amiss : a[2] # w \/ (a[1] # h /\ a[3] \notin {"failed", "overrun"})
  BY DEF Settled
<1>2. ASSUME NEW i \in Hosts, NEW x, <<i, w, x>> \in amiss
      PROVE  i # h /\ x \notin {"failed", "overrun"}
  BY <1>1, <1>2
<1>3. ~Overrun(w) /\ ~Failed(w)
  BY <1>2 DEF Overrun, Failed, Excused
<1>4. ~Excused(h, w, {"forced", "aborted", "recovered"}) /\ ~Excused(h, w, {"regained"})
  BY <1>2 DEF Excused
<1>5. Sound(h, w) /\ Clean(h, w)
  BY <1>1, <1>3, <1>4 DEF Sound, Clean
<1>6. published[w] = active[w]
  BY <1>0, <1>1, <1>3 DEF StageInv
<1>7. registered[h][w] = published[w]
  BY <1>0, <1>1, <1>5 DEF LocalInv, Local
<1>8. QED
  BY <1>6, <1>7

\* Once the queue of a workflow is empty, its published version and the triggers
\* of the leader are what users asked for last, whatever came before.
THEOREM SettledWorkflowsArePublished == PubSpec => []SettledIsPublished
BY OutboxInvariantHolds, SettledFromInv, PTL

\* The published version of a workflow never goes back: setPublishedVersion
\* writes versions in the order of their publication.
THEOREM PublicationIsOrdered == PubSpec => PublishedInOrder
<1> DEFINE Ordered == \A w \in Workflows :
              published'[w] # 0 /\ (\A h \in Hosts : ~Excused(h, w, {"overrun"}))
                  => published'[w] >= published[w]
<1>1. ASSUME PInv, [PubNext]_poVars PROVE Ordered
  <2>0. PubTypeOK /\ LockInv /\ OrderInv
    BY <1>1 DEF PInv
  <2>1. SUFFICES ASSUME NEW w \in Workflows, published'[w] # 0, ~Overrun(w),
                        published'[w] # published[w]
                 PROVE  published'[w] >= published[w]
    <3>1. \A w \in Workflows : published[w] \in Nat
      BY <2>0, ConstantFacts DEF PubTypeOK
    <3>2. QED
      BY <3>1 DEF Overrun
  <2>2. PICK h \in Hosts : /\ AdvancePublishedVersion(h) \/ RemovePublishedVersion(h)
                           /\ Busy(h, w)
    BY <1>1, <2>0, <2>1, PublishedStays
  <2>3. drain[h].w = w /\ drain[h].step # "idle"
    BY <2>2 DEF Busy
  <2>4. published'[w] = drain[h].v
    BY <2>0, <2>1, <2>2, <2>3
       DEF AdvancePublishedVersion, RemovePublishedVersion, PubTypeOK
  <2>5. published[w] <= drain[h].v
    BY <2>0, <2>1, <2>3, BusyRow
  <2>6. drain[h].v \in Nat /\ published[w] \in Nat
    BY <2>0, DrainFields, ConstantFacts DEF PubTypeOK
  <2>7. QED
    BY <2>4, <2>5, <2>6
<1>2. PInv /\ [PubNext]_poVars => [Ordered]_poVars
  BY <1>1
<1> HIDE DEF Ordered
<1>3. PubSpec => [][Ordered]_poVars
  BY <1>2, OutboxInvariantHolds, PTL DEF PubSpec
<1>4. QED
  BY <1>3 DEF Ordered, PublishedInOrder
=============================================================================
