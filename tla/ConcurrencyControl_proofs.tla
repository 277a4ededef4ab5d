---------------------- MODULE ConcurrencyControl_proofs ----------------------
(***************************************************************************)
(* The limiter of ConcurrencyControl proved for every set of callers,      *)
(* every limit and every mode.                                             *)
(*                                                                         *)
(* The inductive invariant has four parts: the types, what the service     *)
(* knows about its queues (ServiceInv), which callers are parked where     *)
(* (QueueInv) and the slot count (CountInv).                               *)
(***************************************************************************)
EXTENDS ConcurrencyControl, SequenceLemmas, FiniteSetTheorems

ServiceInv ==
    /\ \A q \in queues : LimitOf(q) > 0
    /\ ~disabled => (isEnabled <=> queues # {})
    /\ ~evalQueueResolved =>
          /\ "evaluation" \notin queues
          /\ queue["evaluation"] = <<>>
          /\ capacity["evaluation"] = LimitOf("evaluation")
          /\ \A c \in CallersOf("evaluation") : reservation[c] = "idle"

\* s holds callers of queue q only, each once, and all of them wait.
Parked(q, s, res) ==
    /\ \A i \in 1..Len(s) : s[i] \in CallersOf(q) /\ res[s[i]] = "queued"
    /\ \A i, j \in 1..Len(s) : s[i] = s[j] => i = j

AllParked(qs, res) ==
    /\ \A q \in QueueTypes : Parked(q, qs[q], res)
    /\ \A c \in Callers : res[c] = "queued" =>
          \E q \in QueueTypes : \E i \in 1..Len(qs[q]) : qs[q][i] = c

QueueInv == AllParked(queue, reservation)

Counts(q) ==
    /\ capacity[q] = LimitOf(q) - Cardinality(Holders(q)) - Len(queue[q])
    /\ Len(queue[q]) > 0 => Cardinality(Holders(q)) >= LimitOf(q)
    /\ Cardinality(Holders(q)) <= LimitOf(q) + Cardinality(Abandoned(q))

CountInv == ~disabled => \A q \in queues : Counts(q)

IInv == TypeOK /\ ServiceInv /\ QueueInv /\ CountInv

-----------------------------------------------------------------------------
(* Facts about the constants *)

\* A limit is an integer.
LEMMA LimitType == \A q \in QueueTypes : LimitOf(q) \in Int
BY ConstantsAssumption DEF LimitOf, NormaliseLimit

\* Every governed mode has a queue type.
LEMMA QueueTypeType ==
    \A m \in Modes : m \notin UnlimitedModes => QueueTypeOf(m) \in QueueTypes
BY DEF Modes, UnlimitedModes, ProductionModes, QueueTypeOf, QueueTypes

-----------------------------------------------------------------------------
(* resolveNext: who is admitted and who stays parked *)

\* resolveNext shifts the oldest item, if there is one, and admits it.
LEMMA ResolveNextStep ==
    ASSUME TypeOK, NEW q \in QueueTypes, NEW items \in Seq(Callers),
           NEW res \in [Callers -> ReservationStates],
           ResolveNext(q, items, res)
    PROVE  /\ queue' \in [QueueTypes -> Seq(Callers)]
           /\ reservation' \in [Callers -> ReservationStates]
           /\ \A p \in QueueTypes : p # q => queue'[p] = queue[p]
           /\ items = <<>> => queue'[q] = <<>> /\ reservation' = res
           /\ items # <<>> =>
                 /\ items[1] \in Callers
                 /\ Len(items) > 0
                 /\ reservation' = [res EXCEPT ![items[1]] = "acquired"]
                 /\ Len(queue'[q]) = Len(items) - 1
                 /\ \A j \in 1..(Len(items) - 1) : queue'[q][j] = items[j + 1]
<1>1. CASE items = <<>>
  BY <1>1 DEF TypeOK, ResolveNext
<1>2. CASE items # <<>>
  <2>1. /\ Head(items) \in Callers
        /\ Tail(items) \in Seq(Callers)
        /\ Len(Tail(items)) = Len(items) - 1
        /\ \A j \in 1..Len(Tail(items)) : Tail(items)[j] = items[j + 1]
    BY <1>2, HeadTailProperties
  <2>2. Head(items) = items[1] /\ Len(items) > 0
    BY <1>2, EmptySeq
  <2>3. /\ queue' = [queue EXCEPT ![q] = Tail(items)]
        /\ reservation' = [res EXCEPT ![Head(items)] = "acquired"]
    BY <1>2 DEF ResolveNext
  <2>4. "acquired" \in ReservationStates
    BY DEF ReservationStates
  <2>5. QED
    BY <1>2, <2>1, <2>2, <2>3, <2>4 DEF TypeOK
<1>3. QED
  BY <1>1, <1>2

\* resolveNext keeps parked exactly the callers that wait.
LEMMA ResolveNextParks ==
    ASSUME TypeOK, NEW q \in QueueTypes, NEW items \in Seq(Callers),
           NEW res \in [Callers -> ReservationStates],
           AllParked([queue EXCEPT ![q] = items], res),
           ResolveNext(q, items, res)
    PROVE  AllParked(queue', reservation')
<1> DEFINE qs == [queue EXCEPT ![q] = items]
<1>0. /\ qs \in [QueueTypes -> Seq(Callers)]
      /\ qs[q] = items
      /\ \A p \in QueueTypes : p # q => qs[p] = queue[p]
  BY DEF TypeOK
<1>1. /\ \A p \in QueueTypes : Parked(p, qs[p], res)
      /\ \A c \in Callers : res[c] = "queued" =>
            \E p \in QueueTypes : \E i \in 1..Len(qs[p]) : qs[p][i] = c
  BY DEF AllParked
<1> HIDE DEF qs
<1>2. CASE items = <<>>
  <2>1. reservation' = res /\ \A p \in QueueTypes : queue'[p] = qs[p]
    <3>1. reservation' = res /\ queue'[q] = <<>>
      BY <1>2 DEF ResolveNext, TypeOK
    <3>2. \A p \in QueueTypes : p # q => queue'[p] = queue[p]
      BY ResolveNextStep
    <3>3. QED
      BY <1>0, <1>2, <3>1, <3>2
  <2>2. QED
    BY <1>1, <2>1 DEF AllParked
<1>3. CASE items # <<>>
  <2>1. /\ items[1] \in Callers
        /\ Len(items) \in Nat /\ Len(items) > 0
        /\ reservation' = [res EXCEPT ![items[1]] = "acquired"]
        /\ Len(queue'[q]) = Len(items) - 1
        /\ \A j \in 1..(Len(items) - 1) : queue'[q][j] = items[j + 1]
        /\ \A p \in QueueTypes : p # q => queue'[p] = qs[p]
    BY <1>0, <1>3, ResolveNextStep, LenProperties
  <2>2. Parked(q, items, res)
    BY <1>0, <1>1
  <2>3. ASSUME NEW p \in QueueTypes PROVE Parked(p, queue'[p], reservation')
    <3>1. CASE p = q
      <4>1. ASSUME NEW i \in 1..Len(queue'[q])
            PROVE  /\ queue'[q][i] = items[i + 1]
                   /\ i + 1 \in 1..Len(items)
                   /\ queue'[q][i] \in CallersOf(q)
                   /\ reservation'[queue'[q][i]] = "queued"
        <5>1. i + 1 \in 1..Len(items) /\ 1 \in 1..Len(items) /\ i + 1 # 1
              /\ i \in 1..(Len(items) - 1)
          BY <2>1
        <5>2. items[i + 1] # items[1]
          BY <2>2, <5>1 DEF Parked
        <5>3. items[i + 1] \in CallersOf(q) /\ res[items[i + 1]] = "queued"
          BY <2>2, <5>1 DEF Parked
        <5>4. items[i + 1] \in Callers
          BY <5>3 DEF CallersOf
        <5>5. QED
          BY <2>1, <5>1, <5>2, <5>3, <5>4
      <4>2. ASSUME NEW i \in 1..Len(queue'[q]), NEW j \in 1..Len(queue'[q]),
                   queue'[q][i] = queue'[q][j]
            PROVE  i = j
        <5>1. i + 1 \in 1..Len(items) /\ j + 1 \in 1..Len(items)
              /\ items[i + 1] = items[j + 1]
          BY <4>1, <4>2
        <5>2. i + 1 = j + 1
          BY <2>2, <5>1 DEF Parked
        <5>3. QED
          BY <2>1, <5>2
      <4>3. QED
        BY <3>1, <4>1, <4>2 DEF Parked
    <3>2. CASE p # q
      <4>1. Parked(p, qs[p], res) /\ queue'[p] = qs[p]
        BY <1>1, <2>1, <3>2
      <4>2. items[1] \in CallersOf(q)
        BY <2>1, <2>2 DEF Parked
      <4>3. ASSUME NEW i \in 1..Len(qs[p])
            PROVE  reservation'[qs[p][i]] = "queued"
        <5>1. qs[p][i] \in CallersOf(p) /\ res[qs[p][i]] = "queued"
          BY <4>1 DEF Parked
        <5>2. qs[p][i] # items[1] /\ qs[p][i] \in Callers
          BY <3>2, <4>2, <5>1 DEF CallersOf
        <5>3. QED
          BY <2>1, <5>1, <5>2
      <4>4. QED
        BY <4>1, <4>3 DEF Parked
    <3>3. QED
      BY <3>1, <3>2
  <2>4. ASSUME NEW c \in Callers, reservation'[c] = "queued"
        PROVE  \E p \in QueueTypes : \E i \in 1..Len(queue'[p]) : queue'[p][i] = c
    <3>1. c # items[1] /\ res[c] = "queued"
      BY <2>1, <2>4
    <3>2. PICK p \in QueueTypes : \E i \in 1..Len(qs[p]) : qs[p][i] = c
      BY <1>1, <3>1
    <3>3. PICK i \in 1..Len(qs[p]) : qs[p][i] = c
      BY <3>2
    <3>4. CASE p = q
      <4>1. i \in 1..Len(items) /\ i # 1
        BY <1>0, <3>1, <3>3, <3>4
      <4>2. i - 1 \in 1..Len(queue'[q]) /\ i - 1 \in 1..(Len(items) - 1)
            /\ (i - 1) + 1 = i
        BY <2>1, <4>1
      <4>3. queue'[q][i - 1] = c
        BY <1>0, <2>1, <3>3, <3>4, <4>2
      <4>4. QED
        BY <4>2, <4>3
    <3>5. CASE p # q
      BY <2>1, <3>3, <3>5
    <3>6. QED
      BY <3>4, <3>5
  <2>5. QED
    BY <2>3, <2>4 DEF AllParked
<1>4. QED
  BY <1>2, <1>3

-----------------------------------------------------------------------------
(* Counting holders *)

Acquired(q, res) == {c \in CallersOf(q) : res[c] = "acquired"}
GivenUp(q, res) == {c \in CallersOf(q) : res[c] = "abandoned"}

\* The sets that are counted are finite.
LEMMA CountsFinite ==
    ASSUME NEW q, NEW res
    PROVE  /\ IsFiniteSet(Acquired(q, res)) /\ Cardinality(Acquired(q, res)) \in Nat
           /\ IsFiniteSet(GivenUp(q, res)) /\ Cardinality(GivenUp(q, res)) \in Nat
<1>1. IsFiniteSet(Callers)
  BY ConstantsAssumption
<1>2. Acquired(q, res) \in SUBSET Callers /\ GivenUp(q, res) \in SUBSET Callers
  BY DEF Acquired, GivenUp, CallersOf
<1>3. IsFiniteSet(Acquired(q, res)) /\ IsFiniteSet(GivenUp(q, res))
  BY <1>1, <1>2, FS_Subset
<1>4. QED
  BY <1>3, FS_CardinalityType

(***************************************************************************)
(* An admission makes one more holder of q out of a caller that neither    *)
(* held a slot nor was abandoned.                                          *)
(***************************************************************************)
LEMMA CountAcquire ==
    ASSUME NEW q, NEW c \in CallersOf(q),
           NEW res \in [Callers -> ReservationStates],
           res[c] \notin {"acquired", "abandoned"}
    PROVE  LET new == [res EXCEPT ![c] = "acquired"] IN
           /\ Cardinality(Acquired(q, new)) = Cardinality(Acquired(q, res)) + 1
           /\ Cardinality(GivenUp(q, new)) = Cardinality(GivenUp(q, res))
<1> DEFINE new == [res EXCEPT ![c] = "acquired"]
<1>1. c \in Callers /\ \A d \in CallersOf(q) : d \in Callers
  BY DEF CallersOf
<1>2. /\ Acquired(q, new) = Acquired(q, res) \cup {c}
      /\ c \notin Acquired(q, res)
      /\ GivenUp(q, new) = GivenUp(q, res)
  BY <1>1 DEF Acquired, GivenUp
<1>3. QED
  BY <1>2, CountsFinite, FS_AddElement

\* remove() turns a waiting caller of q into an abandoned one.
LEMMA CountAbandon ==
    ASSUME NEW q, NEW c \in CallersOf(q),
           NEW res \in [Callers -> ReservationStates],
           res[c] \notin {"acquired", "abandoned"}
    PROVE  LET new == [res EXCEPT ![c] = "abandoned"] IN
           /\ Cardinality(Acquired(q, new)) = Cardinality(Acquired(q, res))
           /\ Cardinality(GivenUp(q, new)) = Cardinality(GivenUp(q, res)) + 1
<1> DEFINE new == [res EXCEPT ![c] = "abandoned"]
<1>1. c \in Callers /\ \A d \in CallersOf(q) : d \in Callers
  BY DEF CallersOf
<1>2. /\ GivenUp(q, new) = GivenUp(q, res) \cup {c}
      /\ c \notin GivenUp(q, res)
      /\ Acquired(q, new) = Acquired(q, res)
  BY <1>1 DEF Acquired, GivenUp
<1>3. QED
  BY <1>2, CountsFinite, FS_AddElement

\* release() takes one holder away from q.
LEMMA CountFree ==
    ASSUME NEW q, NEW c \in CallersOf(q),
           NEW res \in [Callers -> ReservationStates], res[c] = "acquired"
    PROVE  LET new == [res EXCEPT ![c] = "idle"] IN
           /\ Cardinality(Acquired(q, new)) = Cardinality(Acquired(q, res)) - 1
           /\ Cardinality(GivenUp(q, new)) = Cardinality(GivenUp(q, res))
<1> DEFINE new == [res EXCEPT ![c] = "idle"]
<1>1. c \in Callers /\ \A d \in CallersOf(q) : d \in Callers
  BY DEF CallersOf
<1>2. /\ Acquired(q, new) = Acquired(q, res) \ {c}
      /\ c \in Acquired(q, res)
      /\ GivenUp(q, new) = GivenUp(q, res)
  BY <1>1 DEF Acquired, GivenUp
<1>3. QED
  BY <1>2, CountsFinite, FS_RemoveElement

\* Reservations that agree on the callers of a queue count alike for it.
LEMMA CountSame ==
    ASSUME NEW p, NEW res, NEW new, \A d \in CallersOf(p) : new[d] = res[d]
    PROVE  Acquired(p, new) = Acquired(p, res) /\ GivenUp(p, new) = GivenUp(p, res)
BY DEF Acquired, GivenUp

(***************************************************************************)
(* resolveNext keeps the slot count of q balanced, one parked caller       *)
(* becoming one holder, and touches no other queue.                        *)
(***************************************************************************)
LEMMA ResolveNextCounts ==
    ASSUME TypeOK, NEW q \in QueueTypes, NEW items \in Seq(Callers),
           NEW res \in [Callers -> ReservationStates],
           Parked(q, items, res),
           ResolveNext(q, items, res)
    PROVE  /\ Cardinality(Acquired(q, reservation')) + Len(queue'[q])
                = Cardinality(Acquired(q, res)) + Len(items)
           /\ Len(items) = 0 => Len(queue'[q]) = 0
           /\ Len(items) > 0 => Cardinality(Acquired(q, reservation'))
                                  = Cardinality(Acquired(q, res)) + 1
           /\ Cardinality(GivenUp(q, reservation')) = Cardinality(GivenUp(q, res))
           /\ \A p \in QueueTypes : p # q =>
                 /\ Acquired(p, reservation') = Acquired(p, res)
                 /\ GivenUp(p, reservation') = GivenUp(p, res)
                 /\ queue'[p] = queue[p]
<1>0. Cardinality(Acquired(q, res)) \in Nat /\ Len(items) \in Nat
  BY CountsFinite, LenProperties
<1>1. CASE items = <<>>
  <2>1. /\ reservation' = res /\ queue'[q] = <<>>
        /\ \A p \in QueueTypes : p # q => queue'[p] = queue[p]
    BY <1>1 DEF ResolveNext, TypeOK
  <2>2. Len(items) = 0 /\ Len(queue'[q]) = 0
    BY <1>1, <2>1
  <2>3. QED
    BY <1>0, <2>1, <2>2
<1>2. CASE items # <<>>
  <2>1. /\ Len(items) > 0
        /\ reservation' = [res EXCEPT ![items[1]] = "acquired"]
        /\ Len(queue'[q]) = Len(items) - 1
    BY <1>2, ResolveNextStep
  <2>2. \A p \in QueueTypes : p # q => queue'[p] = queue[p]
    BY ResolveNextStep
  <2>3. items[1] \in CallersOf(q) /\ res[items[1]] = "queued"
    BY <1>0, <2>1 DEF Parked
  <2>4. /\ Cardinality(Acquired(q, reservation')) = Cardinality(Acquired(q, res)) + 1
        /\ Cardinality(GivenUp(q, reservation')) = Cardinality(GivenUp(q, res))
    BY <2>1, <2>3, CountAcquire
  <2>5. \A p \in QueueTypes : p # q => items[1] \notin CallersOf(p)
    BY <2>3 DEF CallersOf
  <2>6. \A p \in QueueTypes : p # q =>
           /\ Acquired(p, reservation') = Acquired(p, res)
           /\ GivenUp(p, reservation') = GivenUp(p, res)
    <3>1. SUFFICES ASSUME NEW p \in QueueTypes, p # q
                   PROVE  /\ Acquired(p, reservation') = Acquired(p, res)
                          /\ GivenUp(p, reservation') = GivenUp(p, res)
      OBVIOUS
    <3>2. items[1] \notin CallersOf(p)
      BY <2>5, <3>1
    <3>3. \A d \in CallersOf(p) : reservation'[d] = res[d]
      BY <2>1, <3>2 DEF CallersOf
    <3>4. QED
      BY <3>3, CountSame
  <2>7. /\ Cardinality(Acquired(q, reservation')) + Len(queue'[q])
             = Cardinality(Acquired(q, res)) + Len(items)
        /\ Len(items) # 0
    BY <1>0, <2>1, <2>4
  <2>8. QED
    BY <2>2, <2>4, <2>6, <2>7
<1>3. QED
  BY <1>1, <1>2

-----------------------------------------------------------------------------
(* The steps of the service *)

(***************************************************************************)
(* The lazy resolution leaves a service whose queues, the one it may just  *)
(* have created included, are counted right before the operation proper.   *)
(***************************************************************************)
LEMMA EnsureFacts ==
    ASSUME IInv, NEW m \in Modes, EnsureEvalQueueResolved(m)
    PROVE  /\ isEnabled' \in BOOLEAN /\ evalQueueResolved' \in BOOLEAN
           /\ queues' \in SUBSET QueueTypes
           /\ \A q \in queues' : LimitOf(q) > 0
           /\ ~disabled => (isEnabled' <=> queues' # {})
           /\ ~evalQueueResolved' =>
                 /\ ~evalQueueResolved /\ m # "evaluation"
                 /\ "evaluation" \notin queues'
           /\ ~disabled => \A q \in queues' : Counts(q)
<1> USE DEF IInv
<1>1. CASE ~(m = "evaluation" /\ ~evalQueueResolved)
  <2>1. UNCHANGED <<evalQueueResolved, queues, isEnabled>>
    BY <1>1 DEF EnsureEvalQueueResolved
  <2>2. /\ isEnabled' \in BOOLEAN /\ evalQueueResolved' \in BOOLEAN
        /\ queues' \in SUBSET QueueTypes
    BY <2>1 DEF TypeOK
  <2>3. /\ \A q \in queues' : LimitOf(q) > 0
        /\ ~disabled => (isEnabled' <=> queues' # {})
    BY <2>1 DEF ServiceInv
  <2>4. ~evalQueueResolved' => /\ ~evalQueueResolved /\ m # "evaluation"
                               /\ "evaluation" \notin queues'
    BY <1>1, <2>1, Zenon DEF ServiceInv
  <2>5. ~disabled => \A q \in queues' : Counts(q)
    BY <2>1, Zenon DEF CountInv
  <2>6. QED
    BY <2>2, <2>3, <2>4, <2>5, Zenon
<1>2. CASE m = "evaluation" /\ ~evalQueueResolved
  <2>1. /\ evalQueueResolved' = TRUE
        /\ \/ queues' = queues /\ isEnabled' = isEnabled
           \/ /\ queues' = queues \cup {"evaluation"} /\ isEnabled' = TRUE
              /\ LimitOf("evaluation") > 0
    BY <1>2 DEF EnsureEvalQueueResolved, TypeOK
  <2>2. /\ isEnabled' \in BOOLEAN /\ queues' \in SUBSET QueueTypes
        /\ \A q \in queues' : LimitOf(q) > 0
        /\ ~disabled => (isEnabled' <=> queues' # {})
    <3>1. CASE queues' = queues /\ isEnabled' = isEnabled
      <4>1. isEnabled' \in BOOLEAN /\ queues' \in SUBSET QueueTypes
        BY <3>1 DEF TypeOK
      <4>2. QED
        BY <3>1, <4>1, Zenon DEF ServiceInv
    <3>2. CASE /\ queues' = queues \cup {"evaluation"} /\ isEnabled' = TRUE
               /\ LimitOf("evaluation") > 0
      <4>1. isEnabled' \in BOOLEAN /\ queues' \in SUBSET QueueTypes
        BY <3>2 DEF TypeOK, QueueTypes
      <4>2. \A q \in queues' : LimitOf(q) > 0
        BY <3>2 DEF ServiceInv
      <4>3. queues' # {} /\ isEnabled'
        BY <3>2
      <4>4. QED
        BY <4>1, <4>2, <4>3
    <3>3. QED
      BY <2>1, <3>1, <3>2
  <2>3. LimitOf("evaluation") > 0 => Counts("evaluation")
    <3>1. Holders("evaluation") = {}
      BY <1>2 DEF ServiceInv, Holders
    <3>2. Cardinality(Holders("evaluation")) = 0
      BY <3>1, FS_EmptySet
    <3>3. /\ capacity["evaluation"] = LimitOf("evaluation")
          /\ queue["evaluation"] = <<>>
      BY <1>2 DEF ServiceInv
    <3>4. Abandoned("evaluation") = {}
      BY <1>2 DEF ServiceInv, Abandoned
    <3>5. Cardinality(Abandoned("evaluation")) = 0
      BY <3>4, FS_EmptySet
    <3>6. Len(queue["evaluation"]) = 0 /\ LimitOf("evaluation") \in Int
      BY <3>3, LimitType DEF QueueTypes
    <3>7. QED
      BY <3>2, <3>3, <3>5, <3>6 DEF Counts
  <2>4. QED
    BY <2>1, <2>2, <2>3 DEF CountInv, TypeOK
<1>3. QED
  BY <1>1, <1>2

\* A caller whose queue exists is governed by it, until shutdown.
LEMMA UngovernedCaller ==
    ASSUME IInv, ~disabled, NEW c \in Callers, EnsureEvalQueueResolved(ModeOf[c]),
           ~Governed(ModeOf[c]), NEW p \in queues'
    PROVE  c \notin CallersOf(p)
<1>1. ModeOf[c] \in Modes
  BY ConstantsAssumption
<1>2. isEnabled' <=> queues' # {}
  BY <1>1, EnsureFacts
<1>3. isEnabled' /\ ~Limited(ModeOf[c], queues')
  BY <1>2 DEF Governed
<1>4. QED
  BY <1>3 DEF Limited, CallersOf

(***************************************************************************)
(* What each operation has to show: the rest of the invariant follows.     *)
(***************************************************************************)
LEMMA Assemble ==
    ASSUME IInv, NEW m \in Modes, EnsureEvalQueueResolved(m),
           disabled' = disabled,
           capacity' \in [QueueTypes -> Int],
           queue' \in [QueueTypes -> Seq(Callers)],
           reservation' \in [Callers -> ReservationStates],
           AllParked(queue', reservation'),
           m # "evaluation" =>
               /\ queue'["evaluation"] = queue["evaluation"]
               /\ capacity'["evaluation"] = capacity["evaluation"]
               /\ \A c \in CallersOf("evaluation") :
                     reservation[c] = "idle" => reservation'[c] = "idle",
           ~disabled => \A q \in queues' : Counts(q)'
    PROVE  IInv'
<1>1. /\ isEnabled' \in BOOLEAN /\ evalQueueResolved' \in BOOLEAN
      /\ queues' \in SUBSET QueueTypes
      /\ \A q \in queues' : LimitOf(q) > 0
      /\ ~disabled => (isEnabled' <=> queues' # {})
      /\ ~evalQueueResolved' =>
            /\ ~evalQueueResolved /\ m # "evaluation"
            /\ "evaluation" \notin queues'
  BY EnsureFacts
<1>2. TypeOK'
  BY <1>1 DEF IInv, TypeOK
<1>3. ServiceInv'
  <2>1. ~evalQueueResolved' =>
           /\ queue'["evaluation"] = <<>>
           /\ capacity'["evaluation"] = LimitOf("evaluation")
           /\ \A c \in CallersOf("evaluation") : reservation'[c] = "idle"
    BY <1>1 DEF IInv, ServiceInv
  <2>2. QED
    BY <1>1, <2>1 DEF ServiceInv
<1>4. QueueInv'
  BY DEF QueueInv
<1>5. CountInv'
  BY DEF CountInv
<1>6. QED
  BY <1>2, <1>3, <1>4, <1>5 DEF IInv

\* Holders and Abandoned in terms of the counted sets.
LEMMA CountedSets ==
    ASSUME NEW q
    PROVE  /\ Holders(q) = Acquired(q, reservation)
           /\ Abandoned(q) = GivenUp(q, reservation)
           /\ Holders(q)' = Acquired(q, reservation')
           /\ Abandoned(q)' = GivenUp(q, reservation')
BY DEF Holders, Abandoned, Acquired, GivenUp

\* An operation that no queue governs changes one reservation and no count.
LEMMA UngovernedStep ==
    ASSUME IInv, NEW c \in Callers, NEW v \in {"acquired", "idle"},
           reservation[c] # "queued",
           EnsureEvalQueueResolved(ModeOf[c]), ~Governed(ModeOf[c]),
           reservation' = [reservation EXCEPT ![c] = v],
           UNCHANGED <<capacity, queue, disabled>>
    PROVE  IInv'
<1>0. ModeOf[c] \in Modes /\ v \in ReservationStates /\ v # "queued"
  BY ConstantsAssumption DEF ReservationStates
<1>1. /\ capacity' \in [QueueTypes -> Int]
      /\ queue' \in [QueueTypes -> Seq(Callers)]
      /\ reservation' \in [Callers -> ReservationStates]
  BY <1>0 DEF IInv, TypeOK
<1>2. AllParked(queue', reservation')
  <2>1. ASSUME NEW q \in QueueTypes, NEW i \in 1..Len(queue[q])
        PROVE  /\ queue[q][i] \in CallersOf(q)
               /\ reservation'[queue[q][i]] = "queued"
    <3>1. queue[q][i] \in CallersOf(q) /\ reservation[queue[q][i]] = "queued"
      BY DEF IInv, QueueInv, AllParked, Parked
    <3>2. queue[q][i] \in Callers /\ queue[q][i] # c
      BY <3>1 DEF CallersOf
    <3>3. QED
      BY <3>1, <3>2 DEF IInv, TypeOK
  <2>2. \A d \in Callers : reservation'[d] = "queued" => reservation[d] = "queued"
    BY <1>0 DEF IInv, TypeOK
  <2>3. QED
    BY <2>1, <2>2 DEF IInv, QueueInv, AllParked, Parked
<1>3. ModeOf[c] # "evaluation" =>
         \A d \in CallersOf("evaluation") :
            reservation[d] = "idle" => reservation'[d] = "idle"
  <2>1. SUFFICES ASSUME ModeOf[c] # "evaluation", NEW d \in CallersOf("evaluation"),
                        reservation[d] = "idle"
                 PROVE  reservation'[d] = "idle"
    OBVIOUS
  <2>2. d # c /\ d \in Callers
    BY <1>0, <2>1 DEF CallersOf, QueueTypeOf
  <2>3. QED
    BY <2>1, <2>2 DEF IInv, TypeOK
<1>4. ASSUME ~disabled, NEW q \in queues' PROVE Counts(q)'
  <2>1. Counts(q)
    BY <1>0, <1>4, EnsureFacts
  <2>2. c \notin CallersOf(q)
    BY <1>4, UngovernedCaller
  <2>3. \A d \in CallersOf(q) : reservation'[d] = reservation[d]
    BY <2>2 DEF CallersOf, IInv, TypeOK
  <2>4. Holders(q)' = Holders(q) /\ Abandoned(q)' = Abandoned(q)
    BY <2>3 DEF Holders, Abandoned
  <2>5. QED
    BY <2>1, <2>4 DEF Counts
<1>5. QED
  BY <1>0, <1>1, <1>2, <1>3, <1>4, Assemble

\* throttle in a governed mode
LEMMA EnqueueStep ==
    ASSUME IInv, NEW c \in Callers, reservation[c] = "idle",
           EnsureEvalQueueResolved(ModeOf[c]), Governed(ModeOf[c]),
           Enqueue(QueueTypeOf(ModeOf[c]), c), UNCHANGED disabled
    PROVE  IInv'
<1> DEFINE m == ModeOf[c]
           q == QueueTypeOf(ModeOf[c])
<1>0. /\ m \in Modes /\ m \notin UnlimitedModes /\ q \in queues'
      /\ q \in QueueTypes /\ c \in CallersOf(q)
  BY ConstantsAssumption, QueueTypeType DEF Governed, Limited, CallersOf
<1>1. /\ TypeOK /\ QueueInv /\ Len(queue[q]) \in Nat
      /\ queue[q] \in Seq(Callers) /\ capacity[q] \in Int
  BY <1>0, LenProperties DEF IInv, TypeOK
<1>2. m # "evaluation" => q # "evaluation"
  BY <1>0 DEF Modes, QueueTypeOf, UnlimitedModes, ProductionModes
<1>3. capacity' = [capacity EXCEPT ![q] = capacity[q] - 1]
  BY DEF Enqueue
<1> HIDE DEF m, q
<1>4. ASSUME NEW d \in CallersOf("evaluation"), m # "evaluation",
             reservation[d] = "idle",
             \/ reservation' = [reservation EXCEPT ![c] = "queued"]
             \/ reservation' = [reservation EXCEPT ![c] = "acquired"]
      PROVE  reservation'[d] = "idle"
  <2>1. d # c /\ d \in Callers
    BY <1>0, <1>2, <1>4 DEF CallersOf, q
  <2>2. QED
    BY <1>1, <1>4, <2>1 DEF TypeOK
<1>5. ASSUME NEW p \in QueueTypes, p # q,
             \/ reservation' = [reservation EXCEPT ![c] = "queued"]
             \/ reservation' = [reservation EXCEPT ![c] = "acquired"]
      PROVE  Holders(p)' = Holders(p) /\ Abandoned(p)' = Abandoned(p)
  <2>1. c \notin CallersOf(p)
    BY <1>0, <1>5 DEF CallersOf
  <2>2. \A d \in CallersOf(p) : reservation'[d] = reservation[d]
    BY <1>1, <1>5, <2>1 DEF CallersOf, TypeOK
  <2>3. QED
    BY <2>2 DEF Holders, Abandoned
<1>6. CASE capacity[q] - 1 < 0
  <2>1. /\ queue' = [queue EXCEPT ![q] = Append(queue[q], c)]
        /\ reservation' = [reservation EXCEPT ![c] = "queued"]
    BY <1>6 DEF Enqueue, q
  <2>2. /\ Append(queue[q], c) \in Seq(Callers)
        /\ Len(Append(queue[q], c)) = Len(queue[q]) + 1
        /\ \A i \in 1..Len(queue[q]) : Append(queue[q], c)[i] = queue[q][i]
        /\ Append(queue[q], c)[Len(queue[q]) + 1] = c
    BY <1>1, AppendProperties
  <2>3. /\ capacity' \in [QueueTypes -> Int]
        /\ queue' \in [QueueTypes -> Seq(Callers)]
        /\ reservation' \in [Callers -> ReservationStates]
        /\ queue'[q] = Append(queue[q], c)
        /\ capacity'[q] = capacity[q] - 1
        /\ \A p \in QueueTypes : p # q => queue'[p] = queue[p] /\ capacity'[p] = capacity[p]
        /\ reservation'[c] = "queued"
        /\ \A d \in Callers : d # c => reservation'[d] = reservation[d]
    BY <1>0, <1>1, <1>3, <2>1, <2>2 DEF TypeOK, ReservationStates
  <2>4. AllParked(queue', reservation')
    <3>1. \A p \in QueueTypes : \A i \in 1..Len(queue[p]) :
             /\ queue[p][i] \in CallersOf(p) /\ queue[p][i] \in Callers
             /\ reservation[queue[p][i]] = "queued" /\ queue[p][i] # c
      BY DEF IInv, QueueInv, AllParked, Parked, CallersOf
    <3>2. ASSUME NEW p \in QueueTypes PROVE Parked(p, queue'[p], reservation')
      <4>1. CASE p # q
        <5>1. queue'[p] = queue[p]
          BY <2>3, <4>1
        <5>2. QED
          BY <2>3, <3>1, <5>1 DEF IInv, QueueInv, AllParked, Parked
      <4>2. CASE p = q
        <5>1. ASSUME NEW i \in 1..Len(queue'[q])
              PROVE  /\ queue'[q][i] \in CallersOf(q)
                     /\ reservation'[queue'[q][i]] = "queued"
          <6>1. i \in 1..Len(queue[q]) \/ i = Len(queue[q]) + 1
            BY <1>1, <2>2, <2>3
          <6>2. CASE i \in 1..Len(queue[q])
            <7>1. queue'[q][i] = queue[q][i]
              BY <2>2, <2>3, <6>2
            <7>2. /\ queue[q][i] \in CallersOf(q) /\ queue[q][i] \in Callers
                  /\ reservation[queue[q][i]] = "queued" /\ queue[q][i] # c
              BY <1>0, <3>1, <6>2
            <7>3. reservation'[queue[q][i]] = "queued"
              BY <2>3, <7>2
            <7>4. QED
              BY <7>1, <7>2, <7>3
          <6>3. CASE i = Len(queue[q]) + 1
            BY <1>0, <2>2, <2>3, <6>3
          <6>4. QED
            BY <6>1, <6>2, <6>3
        <5>2. ASSUME NEW i \in 1..Len(queue'[q]), NEW j \in 1..Len(queue'[q]),
                     queue'[q][i] = queue'[q][j]
              PROVE  i = j
          <6>1. /\ i \in 1..Len(queue[q]) \/ i = Len(queue[q]) + 1
                /\ j \in 1..Len(queue[q]) \/ j = Len(queue[q]) + 1
            BY <1>1, <2>2, <2>3
          <6>2. \A k, l \in 1..Len(queue[q]) : queue[q][k] = queue[q][l] => k = l
            BY <1>0 DEF IInv, QueueInv, AllParked, Parked
          <6>3. QED
            BY <1>0, <2>2, <2>3, <3>1, <5>2, <6>1, <6>2
        <5>3. QED
          BY <4>2, <5>1, <5>2 DEF Parked
      <4>3. QED
        BY <4>1, <4>2
    <3>3. ASSUME NEW d \in Callers, reservation'[d] = "queued"
          PROVE  \E p \in QueueTypes : \E i \in 1..Len(queue'[p]) : queue'[p][i] = d
      <4>1. CASE d = c
        <5>1. Len(queue[q]) + 1 \in 1..Len(queue'[q])
          BY <1>1, <2>2, <2>3
        <5>2. QED
          BY <1>0, <2>2, <2>3, <4>1, <5>1
      <4>2. CASE d # c
        <5>1. PICK p \in QueueTypes : \E i \in 1..Len(queue[p]) : queue[p][i] = d
          BY <2>3, <3>3, <4>2 DEF IInv, QueueInv, AllParked
        <5>2. PICK i \in 1..Len(queue[p]) : queue[p][i] = d
          BY <5>1
        <5>3. CASE p = q
          <6>1. i \in 1..Len(queue'[q])
            BY <1>1, <2>2, <2>3, <5>3
          <6>2. queue'[q][i] = d
            BY <2>2, <2>3, <5>2, <5>3
          <6>3. QED
            BY <1>0, <6>1, <6>2
        <5>4. CASE p # q
          BY <2>3, <5>2, <5>4
        <5>5. QED
          BY <5>3, <5>4
      <4>3. QED
        BY <4>1, <4>2
    <3>4. QED
      BY <3>2, <3>3 DEF AllParked
  <2>5. ASSUME ~disabled, NEW p \in queues' PROVE Counts(p)'
    <3>1. Counts(p) /\ p \in QueueTypes /\ LimitOf(p) \in Int
      BY <1>0, <2>5, EnsureFacts, LimitType DEF m
    <3>2. CASE p # q
      BY <1>5, <2>1, <2>3, <3>1, <3>2 DEF Counts
    <3>3. CASE p = q
      <4>1. \A d \in CallersOf(q) : /\ reservation'[d] = "acquired" <=> reservation[d] = "acquired"
                                    /\ reservation'[d] = "abandoned" <=> reservation[d] = "abandoned"
        BY <2>3 DEF CallersOf
      <4>2. Holders(q)' = Holders(q) /\ Abandoned(q)' = Abandoned(q)
        BY <4>1 DEF Holders, Abandoned
      <4>3. Cardinality(Holders(q)) \in Nat
        BY CountsFinite, CountedSets
      <4>4. /\ capacity[q] = LimitOf(q) - Cardinality(Holders(q)) - Len(queue[q])
            /\ Len(queue[q]) > 0 => Cardinality(Holders(q)) >= LimitOf(q)
            /\ Cardinality(Holders(q)) <= LimitOf(q) + Cardinality(Abandoned(q))
        BY <3>1, <3>3 DEF Counts
      <4>5. Len(queue'[q]) = Len(queue[q]) + 1 /\ capacity'[q] = capacity[q] - 1
        BY <2>2, <2>3
      <4>6. Cardinality(Holders(q)) >= LimitOf(q)
        BY <1>1, <1>6, <3>1, <3>3, <4>3, <4>4
      <4>7. capacity'[q] = LimitOf(q) - Cardinality(Holders(q)) - Len(queue'[q])
        BY <1>1, <3>1, <3>3, <4>3, <4>4, <4>5
      <4>8. QED
        BY <3>3, <4>2, <4>4, <4>6, <4>7 DEF Counts
    <3>4. QED
      BY <3>2, <3>3
  <2>6. QED
    BY <1>0, <1>2, <1>4, <2>1, <2>3, <2>4, <2>5, Assemble DEF m, QueueTypes
<1>7. CASE ~(capacity[q] - 1 < 0)
  <2>1. /\ queue' = queue
        /\ reservation' = [reservation EXCEPT ![c] = "acquired"]
    BY <1>7 DEF Enqueue, q
  <2>2. /\ capacity' \in [QueueTypes -> Int]
        /\ queue' \in [QueueTypes -> Seq(Callers)]
        /\ reservation' \in [Callers -> ReservationStates]
        /\ capacity'[q] = capacity[q] - 1
        /\ \A p \in QueueTypes : p # q => capacity'[p] = capacity[p]
        /\ reservation'[c] = "acquired"
        /\ \A d \in Callers : d # c => reservation'[d] = reservation[d]
    BY <1>0, <1>1, <1>3, <2>1 DEF TypeOK, ReservationStates
  <2>3. AllParked(queue', reservation')
    <3>1. ASSUME NEW p \in QueueTypes, NEW i \in 1..Len(queue[p])
          PROVE  /\ queue[p][i] \in CallersOf(p)
                 /\ reservation'[queue[p][i]] = "queued"
      <4>1. queue[p][i] \in CallersOf(p) /\ reservation[queue[p][i]] = "queued"
        BY DEF IInv, QueueInv, AllParked, Parked
      <4>2. queue[p][i] # c /\ queue[p][i] \in Callers
        BY <4>1 DEF CallersOf
      <4>3. QED
        BY <2>2, <4>1, <4>2
    <3>2. \A d \in Callers : reservation'[d] = "queued" => reservation[d] = "queued"
      BY <2>2
    <3>3. QED
      BY <2>1, <3>1, <3>2 DEF IInv, QueueInv, AllParked, Parked
  <2>4. ASSUME ~disabled, NEW p \in queues' PROVE Counts(p)'
    <3>1. Counts(p) /\ p \in QueueTypes /\ LimitOf(p) \in Int
      BY <1>0, <2>4, EnsureFacts, LimitType DEF m
    <3>2. CASE p # q
      BY <1>5, <2>1, <2>2, <3>1, <3>2 DEF Counts
    <3>3. CASE p = q
      <4>1. /\ Cardinality(Holders(q)') = Cardinality(Holders(q)) + 1
            /\ Cardinality(Abandoned(q)') = Cardinality(Abandoned(q))
        <5>1. reservation \in [Callers -> ReservationStates]
          BY <1>1 DEF TypeOK
        <5>2. /\ Cardinality(Acquired(q, reservation'))
                   = Cardinality(Acquired(q, reservation)) + 1
              /\ Cardinality(GivenUp(q, reservation'))
                   = Cardinality(GivenUp(q, reservation))
          BY <1>0, <2>1, <5>1, CountAcquire
        <5>3. QED
          BY <5>2, CountedSets
      <4>2. Cardinality(Holders(q)) \in Nat /\ Cardinality(Abandoned(q)) \in Nat
        BY CountsFinite, CountedSets
      <4>3. QED
        BY <1>1, <1>7, <2>1, <2>2, <3>1, <3>3, <4>1, <4>2 DEF Counts
    <3>4. QED
      BY <3>2, <3>3
  <2>5. QED
    BY <1>0, <1>2, <1>4, <2>1, <2>2, <2>3, <2>4, Assemble DEF m, QueueTypes
<1>8. QED
  BY <1>6, <1>7

(***************************************************************************)
(* release and remove share their last part: capacity goes up by one and   *)
(* resolveNext runs on the items left in the queue.                        *)
(***************************************************************************)
LEMMA CreditStep ==
    ASSUME IInv, NEW m \in Modes, EnsureEvalQueueResolved(m), Governed(m),
           UNCHANGED disabled,
           NEW items \in Seq(Callers), NEW res \in [Callers -> ReservationStates],
           AllParked([queue EXCEPT ![QueueTypeOf(m)] = items], res),
           capacity' = [capacity EXCEPT ![QueueTypeOf(m)] = @ + 1],
           ResolveNext(QueueTypeOf(m), items, res),
           \A d \in Callers : d \notin CallersOf(QueueTypeOf(m)) => res[d] = reservation[d],
           \/ /\ Len(items) = Len(queue[QueueTypeOf(m)])
              /\ Cardinality(Acquired(QueueTypeOf(m), res))
                   = Cardinality(Acquired(QueueTypeOf(m), reservation)) - 1
              /\ Cardinality(GivenUp(QueueTypeOf(m), res))
                   = Cardinality(GivenUp(QueueTypeOf(m), reservation))
           \/ /\ Len(items) = Len(queue[QueueTypeOf(m)]) - 1
              /\ Cardinality(Acquired(QueueTypeOf(m), res))
                   = Cardinality(Acquired(QueueTypeOf(m), reservation))
              /\ Cardinality(GivenUp(QueueTypeOf(m), res))
                   = Cardinality(GivenUp(QueueTypeOf(m), reservation)) + 1
    PROVE  IInv'
<1> DEFINE q == QueueTypeOf(m)
<1>0. m \notin UnlimitedModes /\ q \in QueueTypes /\ TypeOK
  BY QueueTypeType DEF Governed, Limited, IInv
<1>1. m # "evaluation" => q # "evaluation"
  BY <1>0 DEF Modes, QueueTypeOf, UnlimitedModes, ProductionModes
<1>2. /\ queue' \in [QueueTypes -> Seq(Callers)]
      /\ reservation' \in [Callers -> ReservationStates]
      /\ \A p \in QueueTypes : p # q => queue'[p] = queue[p]
  BY <1>0, ResolveNextStep
<1>3. AllParked(queue', reservation')
  BY <1>0, ResolveNextParks
<1>4. Parked(q, items, res)
  <2>1. [queue EXCEPT ![q] = items][q] = items
    BY <1>0 DEF TypeOK
  <2>2. QED
    BY <1>0, <2>1 DEF AllParked
<1>5. /\ Cardinality(Acquired(q, reservation')) + Len(queue'[q])
           = Cardinality(Acquired(q, res)) + Len(items)
      /\ Len(items) = 0 => Len(queue'[q]) = 0
      /\ Len(items) > 0 => Cardinality(Acquired(q, reservation'))
                             = Cardinality(Acquired(q, res)) + 1
      /\ Cardinality(GivenUp(q, reservation')) = Cardinality(GivenUp(q, res))
      /\ \A p \in QueueTypes : p # q =>
            /\ Acquired(p, reservation') = Acquired(p, res)
            /\ GivenUp(p, reservation') = GivenUp(p, res)
            /\ queue'[p] = queue[p]
  BY <1>0, <1>4, ResolveNextCounts
<1>6. /\ capacity' \in [QueueTypes -> Int] /\ capacity[q] \in Int
      /\ capacity'[q] = capacity[q] + 1
      /\ \A p \in QueueTypes : p # q => capacity'[p] = capacity[p]
  BY <1>0 DEF TypeOK
<1>7. ASSUME NEW p \in QueueTypes, p # q
      PROVE  /\ Acquired(p, reservation') = Acquired(p, reservation)
             /\ GivenUp(p, reservation') = GivenUp(p, reservation)
  <2>1. \A d \in CallersOf(p) : res[d] = reservation[d]
    BY <1>7 DEF CallersOf
  <2>2. Acquired(p, res) = Acquired(p, reservation) /\ GivenUp(p, res) = GivenUp(p, reservation)
    BY <2>1, CountSame
  <2>3. QED
    BY <1>5, <1>7, <2>2
<1>8. ASSUME m # "evaluation", NEW d \in CallersOf("evaluation"),
             reservation[d] = "idle"
      PROVE  reservation'[d] = "idle"
  <2>1. d \in Callers /\ d \notin CallersOf(q) /\ res[d] = "idle"
    BY <1>1, <1>8 DEF CallersOf
  <2>2. CASE items = <<>>
    BY <1>0, <2>1, <2>2 DEF ResolveNext
  <2>3. CASE items # <<>>
    <3>1. reservation' = [res EXCEPT ![items[1]] = "acquired"] /\ Len(items) > 0
      BY <1>0, <2>3, ResolveNextStep
    <3>2. items[1] \in CallersOf(q)
      BY <1>4, <3>1, LenProperties DEF Parked
    <3>3. QED
      BY <2>1, <3>1, <3>2
  <2>4. QED
    BY <2>2, <2>3
<1>9. ASSUME ~disabled, NEW p \in queues' PROVE Counts(p)'
  <2>1. Counts(p) /\ p \in QueueTypes /\ LimitOf(p) \in Int
    BY <1>9, EnsureFacts, LimitType
  <2>2. CASE p # q
    <3>1. Holders(p)' = Holders(p) /\ Abandoned(p)' = Abandoned(p)
      BY <1>7, <2>1, <2>2, CountedSets
    <3>2. queue'[p] = queue[p] /\ capacity'[p] = capacity[p]
      BY <1>2, <1>6, <2>1, <2>2
    <3>3. QED
      BY <2>1, <3>1, <3>2 DEF Counts
  <2>3. CASE p = q
    <3>1. /\ Cardinality(Acquired(q, reservation)) \in Nat
          /\ Cardinality(GivenUp(q, reservation)) \in Nat
          /\ Cardinality(Acquired(q, reservation')) \in Nat
          /\ Cardinality(GivenUp(q, reservation')) \in Nat
      BY CountsFinite
    <3>2. Len(items) \in Nat /\ Len(queue[q]) \in Nat /\ Len(queue'[q]) \in Nat
      BY <1>0, <1>2, LenProperties DEF TypeOK
    <3>3. /\ capacity[q] = LimitOf(q) - Cardinality(Acquired(q, reservation)) - Len(queue[q])
          /\ Len(queue[q]) > 0 => Cardinality(Acquired(q, reservation)) >= LimitOf(q)
          /\ Cardinality(Acquired(q, reservation))
               <= LimitOf(q) + Cardinality(GivenUp(q, reservation))
      BY <2>1, <2>3, CountedSets DEF Counts
    <3> DEFINE A == Cardinality(Acquired(q, reservation))
               Ar == Cardinality(Acquired(q, res))
               A2 == Cardinality(Acquired(q, reservation'))
               G == Cardinality(GivenUp(q, reservation))
               Gr == Cardinality(GivenUp(q, res))
               G2 == Cardinality(GivenUp(q, reservation'))
               L == Len(queue[q])
               I == Len(items)
               L2 == Len(queue'[q])
    <3>4. \/ I = L /\ Ar = A - 1 /\ Gr = G
          \/ I = L - 1 /\ Ar = A /\ Gr = G + 1
      OBVIOUS
    <3>5. /\ A2 + L2 = Ar + I
          /\ I = 0 => L2 = 0
          /\ I > 0 => A2 = Ar + 1
          /\ G2 = Gr
      BY <1>5
    <3>6. /\ A \in Nat /\ A2 \in Nat /\ G \in Nat /\ G2 \in Nat
          /\ L \in Nat /\ I \in Nat /\ L2 \in Nat
      BY <3>1, <3>2
    <3>7. /\ capacity[q] = LimitOf(q) - A - L
          /\ L > 0 => A >= LimitOf(q)
          /\ A <= LimitOf(q) + G
          /\ LimitOf(q) \in Int
      BY <2>1, <2>3, <3>3
    <3> HIDE DEF A, Ar, A2, G, Gr, G2, L, I, L2, q
    <3>8. /\ capacity[q] + 1 = LimitOf(q) - A2 - L2
          /\ L2 > 0 => A2 >= LimitOf(q)
          /\ A2 <= LimitOf(q) + G2
      <4> DEFINE K == capacity[q]
                 M == LimitOf(q)
      <4>1. K = M - A - L /\ M \in Int /\ (L > 0 => A >= M) /\ A <= M + G
        BY <3>7
      <4> HIDE DEF K, M
      <4> SUFFICES K + 1 = M - A2 - L2 /\ (L2 > 0 => A2 >= M) /\ A2 <= M + G2
        BY DEF K, M
      <4>2. CASE I = L /\ Ar = A - 1 /\ Gr = G
        BY <3>5, <3>6, <4>1, <4>2
      <4>3. CASE I = L - 1 /\ Ar = A /\ Gr = G + 1
        BY <3>5, <3>6, <4>1, <4>3
      <4>4. QED
        BY <3>4, <4>2, <4>3
    <3>9. QED
      BY <1>6, <2>3, <3>8, CountedSets DEF Counts, A2, G2, L2
  <2>4. QED
    BY <2>2, <2>3
<1>10. m # "evaluation" => /\ queue'["evaluation"] = queue["evaluation"]
                           /\ capacity'["evaluation"] = capacity["evaluation"]
  BY <1>1, <1>2, <1>6 DEF QueueTypes
<1> HIDE DEF q
<1>11. QED
  BY <1>2, <1>3, <1>6, <1>8, <1>9, <1>10, Assemble

\* release in a governed mode
LEMMA DequeueStep ==
    ASSUME IInv, NEW c \in Callers, reservation[c] = "acquired",
           EnsureEvalQueueResolved(ModeOf[c]), Governed(ModeOf[c]),
           Dequeue(QueueTypeOf(ModeOf[c]), [reservation EXCEPT ![c] = "idle"]),
           UNCHANGED disabled
    PROVE  IInv'
<1> DEFINE q == QueueTypeOf(ModeOf[c])
           res == [reservation EXCEPT ![c] = "idle"]
<1>0. /\ ModeOf[c] \in Modes /\ ModeOf[c] \notin UnlimitedModes
      /\ q \in QueueTypes /\ c \in CallersOf(q)
  BY ConstantsAssumption, QueueTypeType DEF Governed, Limited, CallersOf
<1>1. /\ TypeOK /\ queue[q] \in Seq(Callers)
      /\ reservation \in [Callers -> ReservationStates]
      /\ res \in [Callers -> ReservationStates]
      /\ [queue EXCEPT ![q] = queue[q]] = queue
  BY <1>0 DEF IInv, TypeOK, ReservationStates
<1>2. AllParked(queue, res)
  <2>1. ASSUME NEW p \in QueueTypes, NEW i \in 1..Len(queue[p])
        PROVE  queue[p][i] \in CallersOf(p) /\ res[queue[p][i]] = "queued"
    <3>1. queue[p][i] \in CallersOf(p) /\ reservation[queue[p][i]] = "queued"
      BY DEF IInv, QueueInv, AllParked, Parked
    <3>2. queue[p][i] # c /\ queue[p][i] \in Callers
      BY <3>1 DEF CallersOf
    <3>3. QED
      BY <1>1, <3>1, <3>2
  <2>2. \A d \in Callers : res[d] = "queued" => reservation[d] = "queued"
    BY <1>1
  <2>3. QED
    BY <2>1, <2>2 DEF IInv, QueueInv, AllParked, Parked
<1>3. /\ Cardinality(Acquired(q, res)) = Cardinality(Acquired(q, reservation)) - 1
      /\ Cardinality(GivenUp(q, res)) = Cardinality(GivenUp(q, reservation))
  BY <1>0, <1>1, CountFree
<1>4. \A d \in Callers : d \notin CallersOf(q) => res[d] = reservation[d]
  BY <1>0, <1>1
<1>5. /\ capacity' = [capacity EXCEPT ![q] = @ + 1]
      /\ ResolveNext(q, queue[q], res)
  BY DEF Dequeue
<1>6. AllParked([queue EXCEPT ![q] = queue[q]], res)
  BY <1>1, <1>2
<1> HIDE DEF res
<1>7. QED
  BY <1>0, <1>1, <1>3, <1>4, <1>5, <1>6, CreditStep

\* remove of a queued item
LEMMA RemoveStep ==
    ASSUME IInv, NEW m \in Modes, EnsureEvalQueueResolved(m), Governed(m),
           NEW i \in 1..Len(queue[QueueTypeOf(m)]),
           RemoveItem(QueueTypeOf(m), i), UNCHANGED disabled
    PROVE  IInv'
<1> DEFINE q == QueueTypeOf(m)
           c == queue[q][i]
           res == [reservation EXCEPT ![c] = "abandoned"]
           items == RemoveAt(queue[q], i)
           qs == [queue EXCEPT ![q] = items]
<1>0. m \notin UnlimitedModes /\ q \in QueueTypes /\ TypeOK
  BY QueueTypeType DEF Governed, Limited, IInv
<1>1. /\ queue[q] \in Seq(Callers) /\ Len(queue[q]) \in Nat
      /\ reservation \in [Callers -> ReservationStates]
  BY <1>0, LenProperties DEF TypeOK
<1>2. Parked(q, queue[q], reservation)
  BY <1>0 DEF IInv, QueueInv, AllParked
<1>3. c \in CallersOf(q) /\ c \in Callers /\ reservation[c] = "queued"
  BY <1>2 DEF Parked, CallersOf
<1>4. res \in [Callers -> ReservationStates] /\ res[c] = "abandoned"
      /\ \A d \in Callers : d # c => res[d] = reservation[d]
  BY <1>1, <1>3 DEF ReservationStates
<1>5. /\ items \in Seq(Callers)
      /\ Len(items) = Len(queue[q]) - 1
      /\ \A j \in 1..(Len(queue[q]) - 1) :
            items[j] = IF j < i THEN queue[q][j] ELSE queue[q][j + 1]
  BY <1>1, RemoveAtProperties
<1>6. /\ qs[q] = items
      /\ \A p \in QueueTypes : p # q => qs[p] = queue[p]
  BY <1>0 DEF TypeOK
<1>7. /\ capacity' = [capacity EXCEPT ![q] = @ + 1]
      /\ ResolveNext(q, items, res)
  BY DEF RemoveItem
<1>8. /\ Cardinality(Acquired(q, res)) = Cardinality(Acquired(q, reservation))
      /\ Cardinality(GivenUp(q, res)) = Cardinality(GivenUp(q, reservation)) + 1
  BY <1>1, <1>3, CountAbandon
<1> HIDE DEF c, res, items, qs
<1>9. AllParked(qs, res)
  <2> DEFINE From(j) == IF j < i THEN j ELSE j + 1
  <2>0. ASSUME NEW j \in 1..Len(items)
        PROVE  /\ From(j) \in 1..Len(queue[q]) /\ From(j) # i
               /\ items[j] = queue[q][From(j)]
    <3>1. j \in 1..(Len(queue[q]) - 1)
      BY <1>5
    <3>2. From(j) \in 1..Len(queue[q]) /\ From(j) # i
      BY <1>1, <3>1
    <3>3. items[j] = queue[q][From(j)]
      BY <1>5, <3>1
    <3>4. QED
      BY <3>2, <3>3
  <2>1. Parked(q, items, res)
    <3>1. ASSUME NEW j \in 1..Len(items)
          PROVE  items[j] \in CallersOf(q) /\ res[items[j]] = "queued"
      <4>1. /\ queue[q][From(j)] \in CallersOf(q)
            /\ reservation[queue[q][From(j)]] = "queued"
        BY <1>2, <2>0 DEF Parked
      <4>2. queue[q][From(j)] # queue[q][i]
        BY <1>2, <2>0 DEF Parked
      <4>3. items[j] # c /\ items[j] \in Callers
        BY <2>0, <4>1, <4>2 DEF c, CallersOf
      <4>4. QED
        BY <1>4, <2>0, <4>1, <4>3
    <3>2. ASSUME NEW j \in 1..Len(items), NEW k \in 1..Len(items), items[j] = items[k]
          PROVE  j = k
      <4>1. queue[q][From(j)] = queue[q][From(k)]
        BY <2>0, <3>2
      <4>2. From(j) = From(k)
        BY <1>2, <2>0, <4>1 DEF Parked
      <4>3. QED
        BY <4>2
    <3>3. QED
      BY <3>1, <3>2 DEF Parked
  <2>2. ASSUME NEW p \in QueueTypes, p # q PROVE Parked(p, queue[p], res)
    <3>1. Parked(p, queue[p], reservation)
      BY DEF IInv, QueueInv, AllParked
    <3>2. ASSUME NEW j \in 1..Len(queue[p]) PROVE res[queue[p][j]] = "queued"
      <4>1. queue[p][j] \in CallersOf(p) /\ reservation[queue[p][j]] = "queued"
        BY <3>1 DEF Parked
      <4>2. queue[p][j] # c /\ queue[p][j] \in Callers
        BY <1>3, <2>2, <4>1 DEF CallersOf
      <4>3. QED
        BY <1>4, <4>1, <4>2
    <3>3. QED
      BY <3>1, <3>2 DEF Parked
  <2>3. ASSUME NEW d \in Callers, res[d] = "queued"
        PROVE  \E p \in QueueTypes : \E j \in 1..Len(qs[p]) : qs[p][j] = d
    <3>1. d # c /\ reservation[d] = "queued"
      BY <1>4, <2>3
    <3>2. PICK p \in QueueTypes : \E j \in 1..Len(queue[p]) : queue[p][j] = d
      BY <3>1 DEF IInv, QueueInv, AllParked
    <3>3. PICK j \in 1..Len(queue[p]) : queue[p][j] = d
      BY <3>2
    <3>4. CASE p # q
      BY <1>6, <3>3, <3>4
    <3>5. CASE p = q
      <4>1. j # i /\ j \in 1..Len(queue[q])
        BY <3>1, <3>3, <3>5 DEF c
      <4> DEFINE k == IF j < i THEN j ELSE j - 1
      <4>2. k \in 1..Len(items) /\ k \in 1..(Len(queue[q]) - 1)
            /\ (IF k < i THEN k ELSE k + 1) = j
        BY <1>1, <1>5, <4>1
      <4> HIDE DEF k
      <4>3. items[k] = queue[q][j]
        <5>1. items[k] = IF k < i THEN queue[q][k] ELSE queue[q][k + 1]
          BY <1>5, <4>2
        <5>2. QED
          BY <4>2, <5>1
      <4>4. QED
        BY <1>0, <1>6, <3>3, <3>5, <4>2, <4>3
    <3>6. QED
      BY <3>4, <3>5
  <2>4. QED
    BY <1>6, <2>1, <2>2, <2>3 DEF AllParked
<1>10. \A d \in Callers : d \notin CallersOf(q) => res[d] = reservation[d]
  BY <1>3, <1>4
<1>11. AllParked([queue EXCEPT ![q] = items], res)
  BY <1>9 DEF qs
<1>12. QED
  BY <1>4, <1>5, <1>7, <1>8, <1>10, <1>11, CreditStep

\* A step that changes nothing but the lazily created queue.
LEMMA IdleStep ==
    ASSUME IInv, NEW m \in Modes, EnsureEvalQueueResolved(m),
           UNCHANGED <<capacity, queue, reservation, disabled>>
    PROVE  IInv'
<1>1. /\ capacity' \in [QueueTypes -> Int]
      /\ queue' \in [QueueTypes -> Seq(Callers)]
      /\ reservation' \in [Callers -> ReservationStates]
  BY DEF IInv, TypeOK
<1>2. AllParked(queue', reservation')
  BY DEF IInv, QueueInv
<1>3. ASSUME ~disabled, NEW q \in queues' PROVE Counts(q)'
  <2>1. Counts(q)
    BY <1>3, EnsureFacts
  <2>2. Holders(q)' = Holders(q) /\ Abandoned(q)' = Abandoned(q)
    BY DEF Holders, Abandoned
  <2>3. QED
    BY <2>1, <2>2 DEF Counts
<1>4. QED
  BY <1>1, <1>2, <1>3, Assemble

-----------------------------------------------------------------------------
(* The invariant *)

\* The constructor of ConcurrencyControlService establishes the invariant.
LEMMA InitIInv == CCInit => IInv
<1> SUFFICES ASSUME CCInit PROVE IInv
  OBVIOUS
<1> USE DEF CCInit
<1>1. QueuesAtBoot \in SUBSET QueueTypes
  BY DEF QueuesAtBoot
<1>2. ASSUME NEW q \in QueuesAtBoot PROVE LimitOf(q) > 0
  BY <1>2, ConstantsAssumption DEF QueuesAtBoot, LimitOf, NormaliseLimit, QueueTypes
<1>3. TypeOK
  <2>1. (QueuesAtBoot # {}) \in BOOLEAN /\ ("evaluation" \in QueuesAtBoot) \in BOOLEAN
    OBVIOUS
  <2>2. /\ isEnabled \in BOOLEAN /\ evalQueueResolved \in BOOLEAN
        /\ disabled \in BOOLEAN
    BY <2>1, Zenon
  <2>3. capacity \in [QueueTypes -> Int]
    BY LimitType
  <2>4. queue \in [QueueTypes -> Seq(Callers)]
    BY EmptySeq
  <2>5. reservation \in [Callers -> ReservationStates]
    BY DEF ReservationStates
  <2>6. QED
    BY <1>1, <2>2, <2>3, <2>4, <2>5 DEF TypeOK
<1>4. /\ \A q \in QueueTypes : queue[q] = <<>> /\ capacity[q] = LimitOf(q)
      /\ \A c \in Callers : reservation[c] = "idle"
  OBVIOUS
<1>5. ServiceInv
  <2>1. \A q \in queues : LimitOf(q) > 0
    BY <1>2
  <2>2. isEnabled <=> queues # {}
    OBVIOUS
  <2>3. \A c \in CallersOf("evaluation") : reservation[c] = "idle"
    BY <1>4 DEF CallersOf
  <2>4. queue["evaluation"] = <<>> /\ capacity["evaluation"] = LimitOf("evaluation")
    BY <1>4 DEF QueueTypes
  <2>5. ~evalQueueResolved => "evaluation" \notin queues
    OBVIOUS
  <2>6. QED
    BY <2>1, <2>2, <2>3, <2>4, <2>5, Zenon DEF ServiceInv
<1>6. QueueInv
  BY <1>4 DEF QueueInv, AllParked, Parked
<1>7. CountInv
  <2>1. ASSUME NEW q \in queues PROVE Counts(q)
    <3>1. q \in QueueTypes
      BY <1>1
    <3>2. Holders(q) = {} /\ Abandoned(q) = {}
      BY <1>4 DEF Holders, Abandoned, CallersOf
    <3>3. Cardinality(Holders(q)) = 0 /\ Cardinality(Abandoned(q)) = 0
      BY <3>2, FS_EmptySet
    <3>4. Len(queue[q]) = 0 /\ capacity[q] = LimitOf(q) /\ LimitOf(q) \in Int
      BY <1>4, <3>1, LimitType
    <3>5. QED
      BY <1>2, <3>3, <3>4 DEF Counts
  <2>2. QED
    BY <2>1 DEF CountInv
<1>8. QED
  BY <1>3, <1>5, <1>6, <1>7 DEF IInv

\* Every operation of the service keeps the invariant.
LEMMA NextIInv == IInv /\ [CCNext]_ccVars => IInv'
<1> SUFFICES ASSUME IInv, [CCNext]_ccVars PROVE IInv'
  OBVIOUS
<1>1. ASSUME NEW c \in Callers, Throttle(c) PROVE IInv'
  <2>1. /\ reservation[c] = "idle" /\ EnsureEvalQueueResolved(ModeOf[c])
        /\ UNCHANGED disabled
    BY <1>1 DEF Throttle
  <2>2. CASE Governed(ModeOf[c])
    <3>1. Enqueue(QueueTypeOf(ModeOf[c]), c)
      BY <1>1, <2>2 DEF Throttle
    <3>2. QED
      BY <2>1, <2>2, <3>1, EnqueueStep
  <2>3. CASE ~Governed(ModeOf[c])
    <3>1. /\ reservation' = [reservation EXCEPT ![c] = "acquired"]
          /\ UNCHANGED <<capacity, queue>>
      BY <1>1, <2>3 DEF Throttle
    <3>2. reservation[c] # "queued"
      BY <2>1
    <3>3. QED
      BY <2>1, <2>3, <3>1, <3>2, UngovernedStep
  <2>4. QED
    BY <2>2, <2>3
<1>2. ASSUME NEW c \in Callers, Release(c) PROVE IInv'
  <2>1. /\ reservation[c] = "acquired" /\ EnsureEvalQueueResolved(ModeOf[c])
        /\ UNCHANGED disabled
    BY <1>2 DEF Release
  <2>2. CASE Governed(ModeOf[c])
    <3>1. Dequeue(QueueTypeOf(ModeOf[c]), [reservation EXCEPT ![c] = "idle"])
      BY <1>2, <2>2 DEF Release
    <3>2. QED
      BY <2>1, <2>2, <3>1, DequeueStep
  <2>3. CASE ~Governed(ModeOf[c])
    <3>1. /\ reservation' = [reservation EXCEPT ![c] = "idle"]
          /\ UNCHANGED <<capacity, queue>>
      BY <1>2, <2>3 DEF Release
    <3>2. reservation[c] # "queued"
      BY <2>1
    <3>3. QED
      BY <2>1, <2>3, <3>1, <3>2, UngovernedStep
  <2>4. QED
    BY <2>2, <2>3
<1>3. ASSUME NEW c \in Callers, StopQueued(c) PROVE IInv'
  <2> DEFINE m == ModeOf[c]
  <2>1. m \in Modes
    BY ConstantsAssumption
  <2>2. /\ EnsureEvalQueueResolved(m) /\ UNCHANGED disabled
        /\ \/ /\ Governed(m)
              /\ \E i \in 1..Len(queue[QueueTypeOf(m)]) : RemoveItem(QueueTypeOf(m), i)
           \/ UNCHANGED <<capacity, queue, reservation>>
    BY <1>3 DEF StopQueued, RemoveQueued
  <2>3. CASE UNCHANGED <<capacity, queue, reservation>>
    BY <2>1, <2>2, <2>3, IdleStep
  <2>4. CASE /\ Governed(m)
             /\ \E i \in 1..Len(queue[QueueTypeOf(m)]) : RemoveItem(QueueTypeOf(m), i)
    <3>1. PICK i \in 1..Len(queue[QueueTypeOf(m)]) : RemoveItem(QueueTypeOf(m), i)
      BY <2>4
    <3>2. QED
      BY <2>1, <2>2, <2>4, <3>1, RemoveStep
  <2>5. QED
    BY <2>2, <2>3, <2>4
<1>4. CASE Disable
  <2>1. TypeOK'
    BY <1>4 DEF Disable, IInv, TypeOK
  <2>2. ServiceInv'
    BY <1>4 DEF Disable, IInv, ServiceInv
  <2>3. QueueInv'
    BY <1>4 DEF Disable, IInv, QueueInv
  <2>4. CountInv'
    BY <1>4 DEF Disable, CountInv
  <2>5. QED
    BY <2>1, <2>2, <2>3, <2>4 DEF IInv
<1>5. CASE UNCHANGED ccVars
  <2>1. TypeOK'
    BY <1>5 DEF ccVars, IInv, TypeOK
  <2>2. ServiceInv'
    BY <1>5 DEF ccVars, IInv, ServiceInv
  <2>3. QueueInv'
    BY <1>5 DEF ccVars, IInv, QueueInv
  <2>4. CountInv'
    BY <1>5 DEF ccVars, IInv, CountInv, Counts, Holders, Abandoned
  <2>5. QED
    BY <2>1, <2>2, <2>3, <2>4 DEF IInv
<1>6. QED
  BY <1>1, <1>2, <1>3, <1>4, <1>5 DEF CCNext

\* The invariant holds of every behaviour of the service.
THEOREM InvariantHolds == CCSpec => []IInv
BY InitIInv, NextIInv, PTL DEF CCSpec

-----------------------------------------------------------------------------
(* What follows from the invariant *)

\* Every variable of the service keeps its type, for any callers and limits.
THEOREM TypeCorrect == CCSpec => []TypeOK
<1>1. IInv => TypeOK
  BY DEF IInv
<1>2. QED
  BY <1>1, InvariantHolds, PTL

\* The capacity counter of concurrency-queue.ts loses and invents no slot.
THEOREM SlotsAccountedFor == CCSpec => []SlotAccounting
<1>1. IInv => SlotAccounting
  BY DEF IInv, CountInv, Counts, SlotAccounting
<1>2. QED
  BY <1>1, InvariantHolds, PTL

\* The counts leave no room for a parked caller beside a free slot.
LEMMA NobodyWaitsForAFreeSlot == IInv => NoIdleSlotWhileQueued
<1>1. SUFFICES ASSUME IInv, ~disabled, NEW q \in queues, queue[q] # <<>>
               PROVE  Cardinality(Holders(q)) >= LimitOf(q)
  BY DEF NoIdleSlotWhileQueued
<1>2. queue[q] \in Seq(Callers) /\ Counts(q)
  BY <1>1 DEF IInv, TypeOK, CountInv
<1>3. Len(queue[q]) > 0
  BY <1>1, <1>2, EmptySeq
<1>4. QED
  BY <1>2, <1>3 DEF Counts

\* No wakeup is lost: nobody is parked beside a free slot.
THEOREM NoLostWakeup == CCSpec => []NoIdleSlotWhileQueued
BY NobodyWaitsForAFreeSlot, InvariantHolds, PTL

\* The queues park exactly the callers that wait, each once.
THEOREM EachParkedOnce == CCSpec => []ParkedOnce
<1>1. IInv => ParkedOnce
  <2>1. SUFFICES ASSUME IInv PROVE ParkedOnce
    OBVIOUS
  <2>2. /\ \A q \in QueueTypes : queue[q] \in Seq(Callers) /\ DOMAIN queue[q] = 1..Len(queue[q])
        /\ AllParked(queue, reservation)
    BY <2>1, LenProperties DEF IInv, TypeOK, QueueInv
  <2>3. ASSUME NEW q \in QueueTypes PROVE IsInjective(queue[q])
    BY <2>2 DEF AllParked, Parked, IsInjective
  <2>4. ASSUME NEW q \in QueueTypes
        PROVE  ToSet(queue[q]) = {queue[q][i] : i \in 1..Len(queue[q])}
    BY <2>2 DEF ToSet
  <2>5. ASSUME NEW c \in Callers
        PROVE  (reservation[c] = "queued") <=>
               (\E q \in QueueTypes : c \in ToSet(queue[q]))
    <3>1. ASSUME reservation[c] = "queued"
          PROVE  \E q \in QueueTypes : c \in ToSet(queue[q])
      <4>1. PICK q \in QueueTypes : \E i \in 1..Len(queue[q]) : queue[q][i] = c
        BY <2>2, <3>1 DEF AllParked
      <4>2. c \in ToSet(queue[q])
        BY <2>4, <4>1
      <4>3. QED
        BY <4>2
    <3>2. ASSUME NEW q \in QueueTypes, c \in ToSet(queue[q])
          PROVE  reservation[c] = "queued"
      <4>1. PICK i \in 1..Len(queue[q]) : c = queue[q][i]
        BY <2>4, <3>2
      <4>2. QED
        BY <2>2, <4>1 DEF AllParked, Parked
    <3>3. QED
      BY <3>1, <3>2
  <2>6. QED
    BY <2>3, <2>5 DEF ParkedOnce
<1>2. QED
  BY <1>1, InvariantHolds, PTL

\* The limit is exceeded by no more than the callers stopped while queued.
THEOREM OverAdmissionIsBounded == CCSpec => []OverAdmissionBounded
<1>1. IInv => OverAdmissionBounded
  BY DEF IInv, CountInv, Counts, OverAdmissionBounded
<1>2. QED
  BY <1>1, InvariantHolds, PTL

-----------------------------------------------------------------------------
(* First come, first served *)

\* The step relation behind AdmitsInOrder.
InOrder ==
    \A q \in QueueTypes : \A i, j \in 1..Len(queue[q]) :
        (i < j /\ reservation'[queue[q][j]] = "acquired")
            => reservation'[queue[q][i]] # "queued"

\* A parked caller waits, is a caller of its queue, and is parked nowhere else.
LEMMA ParkedFacts ==
    ASSUME IInv, NEW q \in QueueTypes, NEW j \in 1..Len(queue[q])
    PROVE  /\ queue[q][j] \in Callers
           /\ reservation[queue[q][j]] = "queued"
           /\ \A p \in QueueTypes : \A k \in 1..Len(queue[p]) :
                 queue[p][k] = queue[q][j] => p = q /\ k = j
<1>1. /\ queue[q][j] \in CallersOf(q) /\ reservation[queue[q][j]] = "queued"
      /\ \A k \in 1..Len(queue[q]) : queue[q][k] = queue[q][j] => k = j
  BY DEF IInv, QueueInv, AllParked, Parked
<1>2. ASSUME NEW p \in QueueTypes, NEW k \in 1..Len(queue[p]),
             queue[p][k] = queue[q][j]
      PROVE  p = q
  <2>1. queue[p][k] \in CallersOf(p)
    BY DEF IInv, QueueInv, AllParked, Parked
  <2>2. QED
    BY <1>1, <1>2, <2>1 DEF CallersOf
<1>3. QED
  BY <1>1, <1>2 DEF CallersOf

\* A step that admits nobody who was parked is in order.
LEMMA NobodyAdmitted ==
    ASSUME \A q \in QueueTypes : \A j \in 1..Len(queue[q]) :
              reservation'[queue[q][j]] # "acquired"
    PROVE  InOrder
BY DEF InOrder

\* release admits the head of one queue, and nobody is older than the head.
LEMMA DequeueInOrder ==
    ASSUME IInv, NEW c \in Callers, reservation[c] = "acquired",
           NEW q \in QueueTypes,
           Dequeue(q, [reservation EXCEPT ![c] = "idle"])
    PROVE  InOrder
<1> DEFINE res == [reservation EXCEPT ![c] = "idle"]
<1>1. /\ TypeOK /\ queue[q] \in Seq(Callers)
      /\ res \in [Callers -> ReservationStates]
      /\ Len(queue[q]) \in Nat
  BY LenProperties DEF IInv, TypeOK, ReservationStates
<1>2. ResolveNext(q, queue[q], res)
  BY DEF Dequeue
<1>3. ASSUME NEW p \in QueueTypes, NEW j \in 1..Len(queue[p])
      PROVE  queue[p][j] \in Callers /\ res[queue[p][j]] = "queued"
  <2>1. queue[p][j] \in Callers /\ reservation[queue[p][j]] = "queued"
    BY ParkedFacts
  <2>2. QED
    BY <1>1, <2>1 DEF TypeOK
<1> HIDE DEF res
<1>4. CASE queue[q] = <<>>
  <2>1. reservation' = res
    BY <1>2, <1>4 DEF ResolveNext
  <2>2. QED
    BY <1>3, <2>1, NobodyAdmitted
<1>5. CASE queue[q] # <<>>
  <2>1. /\ reservation' = [res EXCEPT ![queue[q][1]] = "acquired"]
        /\ Len(queue[q]) > 0
    BY <1>1, <1>2, <1>5, ResolveNextStep
  <2>2. ASSUME NEW p \in QueueTypes, NEW i \in 1..Len(queue[p]),
               NEW j \in 1..Len(queue[p]), i < j
        PROVE  reservation'[queue[p][j]] # "acquired"
    <3>1. j # 1 /\ 1 \in 1..Len(queue[q])
      BY <1>1, <2>1, <2>2
    <3>2. queue[p][j] # queue[q][1]
      BY <3>1, ParkedFacts
    <3>3. QED
      BY <1>1, <1>3, <2>1, <3>2
  <2>3. QED
    BY <2>2 DEF InOrder
<1>6. QED
  BY <1>4, <1>5

\* remove admits the oldest of the items it leaves.
LEMMA RemoveInOrder ==
    ASSUME IInv, NEW q \in QueueTypes, NEW k \in 1..Len(queue[q]),
           RemoveItem(q, k)
    PROVE  InOrder
<1> DEFINE res == [reservation EXCEPT ![queue[q][k]] = "abandoned"]
           items == RemoveAt(queue[q], k)
<1>1. /\ TypeOK /\ queue[q] \in Seq(Callers) /\ Len(queue[q]) \in Nat
      /\ queue[q][k] \in Callers
      /\ res \in [Callers -> ReservationStates]
  BY ParkedFacts, LenProperties DEF IInv, TypeOK, ReservationStates
<1>2. ResolveNext(q, items, res)
  BY DEF RemoveItem
<1>3. /\ items \in Seq(Callers) /\ Len(items) = Len(queue[q]) - 1
      /\ \A j \in 1..(Len(queue[q]) - 1) :
            items[j] = IF j < k THEN queue[q][j] ELSE queue[q][j + 1]
  BY <1>1, RemoveAtProperties
<1>4. ASSUME NEW p \in QueueTypes, NEW j \in 1..Len(queue[p])
      PROVE  /\ queue[p][j] \in Callers
             /\ res[queue[p][j]] \in {"queued", "abandoned"}
             /\ (p = q /\ j = k) => res[queue[p][j]] = "abandoned"
  <2>1. queue[p][j] \in Callers /\ reservation[queue[p][j]] = "queued"
    BY ParkedFacts
  <2>2. QED
    BY <1>1, <2>1 DEF TypeOK
<1> HIDE DEF res, items
<1>5. CASE items = <<>>
  <2>1. reservation' = res
    BY <1>2, <1>5 DEF ResolveNext
  <2>2. ASSUME NEW p \in QueueTypes, NEW j \in 1..Len(queue[p])
        PROVE  reservation'[queue[p][j]] # "acquired"
    BY <1>4, <2>1
  <2>3. QED
    BY <2>2, NobodyAdmitted
<1>6. CASE items # <<>>
  <2>1. /\ reservation' = [res EXCEPT ![items[1]] = "acquired"]
        /\ Len(items) > 0
    BY <1>1, <1>2, <1>3, <1>6, ResolveNextStep
  <2> DEFINE n == IF 1 < k THEN 1 ELSE 2
  <2>2. /\ n \in 1..Len(queue[q]) /\ items[1] = queue[q][n] /\ n # k
        /\ n = 2 => k = 1
    <3>1. 1 \in 1..(Len(queue[q]) - 1)
      BY <1>1, <1>3, <2>1
    <3>2. items[1] = IF 1 < k THEN queue[q][1] ELSE queue[q][1 + 1]
      BY <1>3, <3>1
    <3>3. QED
      BY <1>1, <3>1, <3>2
  <2> HIDE DEF n
  <2>3. ASSUME NEW p \in QueueTypes, NEW i \in 1..Len(queue[p]),
               NEW j \in 1..Len(queue[p]), i < j,
               reservation'[queue[p][j]] = "acquired"
        PROVE  reservation'[queue[p][i]] # "queued"
    <3>1. queue[p][j] = queue[q][n]
      <4>1. res[queue[p][j]] # "acquired" /\ queue[p][j] \in Callers
        BY <1>4
      <4>2. queue[p][j] = items[1]
        BY <1>1, <2>1, <2>3, <4>1
      <4>3. QED
        BY <2>2, <4>2
    <3>2. p = q /\ j = n
      BY <2>2, <3>1, ParkedFacts
    <3>3. i = k
      BY <1>1, <2>2, <2>3, <3>2 DEF n
    <3>4. res[queue[p][i]] = "abandoned" /\ queue[p][i] \in Callers
      BY <1>4, <3>2, <3>3
    <3>5. QED
      BY <1>1, <2>1, <3>4
  <2>4. QED
    BY <2>3 DEF InOrder
<1>7. QED
  BY <1>5, <1>6

\* Every operation admits in order.
LEMMA NextInOrder == IInv /\ CCNext => InOrder
<1> SUFFICES ASSUME IInv, CCNext PROVE InOrder
  OBVIOUS
<1>0. reservation \in [Callers -> ReservationStates]
  BY DEF IInv, TypeOK
<1>1. ASSUME UNCHANGED reservation PROVE InOrder
  <2>1. ASSUME NEW q \in QueueTypes, NEW j \in 1..Len(queue[q])
        PROVE  reservation'[queue[q][j]] # "acquired"
    BY <1>1, ParkedFacts
  <2>2. QED
    BY <2>1, NobodyAdmitted
<1>2. ASSUME NEW c \in Callers, reservation[c] # "queued",
             \E v \in ReservationStates : reservation' = [reservation EXCEPT ![c] = v]
      PROVE  InOrder
  <2>1. ASSUME NEW q \in QueueTypes, NEW j \in 1..Len(queue[q])
        PROVE  reservation'[queue[q][j]] # "acquired"
    <3>1. queue[q][j] \in Callers /\ reservation[queue[q][j]] = "queued"
      BY ParkedFacts
    <3>2. QED
      BY <1>0, <1>2, <3>1
  <2>2. QED
    BY <2>1, NobodyAdmitted
<1>3. ASSUME NEW c \in Callers, Throttle(c) PROVE InOrder
  BY <1>2, <1>3 DEF Throttle, Enqueue, ReservationStates
<1>4. ASSUME NEW c \in Callers, Release(c) PROVE InOrder
  <2>1. reservation[c] = "acquired" /\ ModeOf[c] \in Modes
    BY <1>4, ConstantsAssumption DEF Release
  <2>2. CASE Governed(ModeOf[c])
    <3>1. QueueTypeOf(ModeOf[c]) \in QueueTypes
      BY <2>1, <2>2, QueueTypeType DEF Governed, Limited
    <3>2. Dequeue(QueueTypeOf(ModeOf[c]), [reservation EXCEPT ![c] = "idle"])
      BY <1>4, <2>2 DEF Release
    <3>3. QED
      BY <2>1, <3>1, <3>2, DequeueInOrder
  <2>3. CASE ~Governed(ModeOf[c])
    BY <1>2, <1>4, <2>1, <2>3 DEF Release, ReservationStates
  <2>4. QED
    BY <2>2, <2>3
<1>5. ASSUME NEW c \in Callers, StopQueued(c) PROVE InOrder
  <2> DEFINE m == ModeOf[c]
  <2>1. \/ /\ Governed(m)
           /\ \E i \in 1..Len(queue[QueueTypeOf(m)]) : RemoveItem(QueueTypeOf(m), i)
        \/ UNCHANGED reservation
    BY <1>5 DEF StopQueued, RemoveQueued
  <2>2. CASE /\ Governed(m)
             /\ \E i \in 1..Len(queue[QueueTypeOf(m)]) : RemoveItem(QueueTypeOf(m), i)
    <3>1. QueueTypeOf(m) \in QueueTypes
      BY <2>2, ConstantsAssumption, QueueTypeType DEF Governed, Limited
    <3>2. QED
      BY <2>2, <3>1, RemoveInOrder
  <2>3. QED
    BY <1>1, <2>1, <2>2
<1>6. CASE Disable
  BY <1>1, <1>6 DEF Disable
<1>7. QED
  BY <1>3, <1>4, <1>5, <1>6 DEF CCNext

\* First come, first served, for any number of callers and any limit.
THEOREM AdmissionInOrder == CCSpec => AdmitsInOrder
<1>1. IInv /\ [CCNext]_ccVars => [InOrder]_ccVars
  BY NextInOrder
<1>2. CCSpec => [][InOrder]_ccVars
  BY <1>1, InvariantHolds, PTL DEF CCSpec
<1>3. QED
  BY <1>2 DEF InOrder, AdmitsInOrder
=============================================================================
