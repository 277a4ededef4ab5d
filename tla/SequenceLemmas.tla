---------------------------- MODULE SequenceLemmas ----------------------------
(***************************************************************************)
(* What the proofs need to know about the sequences of the models: queues  *)
(* that are appended to, shifted, and from which one item is spliced.      *)
(***************************************************************************)
EXTENDS Positions, SequencesExt, SequenceTheorems, FiniteSetTheorems, TLAPS

-----------------------------------------------------------------------------
(* splice *)

\* What splice(i, 1) leaves: a shorter sequence that closes the gap.
LEMMA RemoveAtProperties ==
    ASSUME NEW S, NEW s \in Seq(S), NEW i \in 1..Len(s)
    PROVE  /\ RemoveAt(s, i) \in Seq(S)
           /\ Len(RemoveAt(s, i)) = Len(s) - 1
           /\ \A j \in 1..(Len(s) - 1) :
                 RemoveAt(s, i)[j] = IF j < i THEN s[j] ELSE s[j + 1]
<1> DEFINE a == SubSeq(s, 1, i - 1)
           b == SubSeq(s, i + 1, Len(s))
<1>0. Len(s) \in Nat /\ i \in Int /\ \A j \in 1..Len(s) : s[j] \in S
  BY LenProperties, ElementOfSeq
<1>1. /\ a \in Seq(S) /\ Len(a) = i - 1
      /\ \A j \in 1..(i - 1) : a[j] = s[j]
  <2>1. \A j \in 1..(i - 1) : s[j] \in S
    BY <1>0
  <2>2. /\ a \in Seq(S)
        /\ Len(a) = IF 1 <= i - 1 THEN (i - 1) - 1 + 1 ELSE 0
        /\ \A j \in 1..((i - 1) - 1 + 1) : a[j] = s[1 + j - 1]
    BY <1>0, <2>1, SubSeqProperties
  <2>3. QED
    BY <1>0, <2>2
<1>2. /\ b \in Seq(S) /\ Len(b) = Len(s) - i
      /\ \A j \in 1..(Len(s) - i) : b[j] = s[i + j]
  <2>1. \A j \in (i + 1)..Len(s) : s[j] \in S
    BY <1>0
  <2>2. /\ b \in Seq(S)
        /\ Len(b) = IF i + 1 <= Len(s) THEN Len(s) - (i + 1) + 1 ELSE 0
        /\ \A j \in 1..(Len(s) - (i + 1) + 1) : b[j] = s[(i + 1) + j - 1]
    BY <1>0, <2>1, SubSeqProperties
  <2>3. QED
    BY <1>0, <2>2
<1>3. /\ a \o b \in Seq(S)
      /\ Len(a \o b) = Len(a) + Len(b)
      /\ \A j \in 1..(Len(a) + Len(b)) :
            (a \o b)[j] = IF j <= Len(a) THEN a[j] ELSE b[j - Len(a)]
  BY <1>1, <1>2, ConcatProperties
<1>4. RemoveAt(s, i) = a \o b
  BY DEF RemoveAt
<1> HIDE DEF a, b
<1>5. Len(a \o b) = Len(s) - 1
  BY <1>0, <1>1, <1>2, <1>3
<1>6. ASSUME NEW j \in 1..(Len(s) - 1)
      PROVE  (a \o b)[j] = IF j < i THEN s[j] ELSE s[j + 1]
  <2>1. j \in 1..(Len(a) + Len(b))
    BY <1>0, <1>1, <1>2
  <2>2. CASE j < i
    <3>1. j <= Len(a) /\ j \in 1..(i - 1)
      BY <1>0, <1>1, <2>2
    <3>2. QED
      BY <1>1, <1>3, <2>1, <2>2, <3>1
  <2>3. CASE ~(j < i)
    <3>1. /\ ~(j <= Len(a))
          /\ j - Len(a) \in 1..(Len(s) - i)
          /\ i + (j - Len(a)) = j + 1
      BY <1>0, <1>1, <2>3
    <3>2. (a \o b)[j] = b[j - Len(a)]
      BY <1>3, <2>1, <3>1
    <3>3. b[j - Len(a)] = s[i + (j - Len(a))]
      BY <1>2, <3>1
    <3>4. QED
      BY <2>3, <3>1, <3>2, <3>3
  <2>4. QED
    BY <2>2, <2>3
<1>7. QED
  BY <1>3, <1>4, <1>5, <1>6

-----------------------------------------------------------------------------
(* The elements of a queue *)

\* Membership in a queue, by index.
LEMMA ToSetMember ==
    ASSUME NEW S, NEW s \in Seq(S), NEW x
    PROVE  x \in ToSet(s) <=> \E i \in 1..Len(s) : s[i] = x
BY LenProperties DEF ToSet

\* A queue has elements unless it is empty.
LEMMA ToSetType ==
    ASSUME NEW S, NEW s \in Seq(S)
    PROVE  ToSet(s) \subseteq S /\ (s = <<>> <=> ToSet(s) = {})
<1>1. ASSUME NEW x \in ToSet(s) PROVE x \in S /\ s # <<>>
  <2>1. PICK i \in 1..Len(s) : s[i] = x
    BY <1>1, ToSetMember
  <2>2. Len(s) \in Nat /\ Len(s) # 0
    BY <2>1, LenProperties
  <2>3. QED
    BY <2>1, <2>2, ElementOfSeq, EmptySeq
<1>2. ASSUME s # <<>> PROVE ToSet(s) # {}
  <2>1. Len(s) \in Nat \ {0}
    BY <1>2, EmptySeq
  <2>2. 1 \in 1..Len(s)
    BY <2>1
  <2>3. s[1] \in ToSet(s)
    BY <2>2, ToSetMember
  <2>4. QED
    BY <2>3
<1>3. QED
  BY <1>1, <1>2

\* push: one more element, at the end.
LEMMA ToSetAppend ==
    ASSUME NEW S, NEW s \in Seq(S), NEW y \in S
    PROVE  /\ Append(s, y) \in Seq(S) /\ Append(s, y) # <<>>
           /\ ToSet(Append(s, y)) = ToSet(s) \cup {y}
           /\ Head(Append(s, y)) = IF s = <<>> THEN y ELSE Head(s)
<1> DEFINE t == Append(s, y)
<1>1. /\ t \in Seq(S) /\ t # <<>>
      /\ Len(t) = Len(s) + 1 /\ Len(s) \in Nat
      /\ \A i \in 1..Len(s) : t[i] = s[i]
      /\ t[Len(s) + 1] = y
  BY AppendProperties, LenProperties
<1> HIDE DEF t
<1>2. ASSUME NEW x
      PROVE  x \in ToSet(t) <=> x \in ToSet(s) \cup {y}
  <2>1. x \in ToSet(t) <=> \E i \in 1..(Len(s) + 1) : t[i] = x
    BY <1>1, ToSetMember
  <2>2. x \in ToSet(s) <=> \E i \in 1..Len(s) : s[i] = x
    BY ToSetMember
  <2>3. \A i : i \in 1..(Len(s) + 1) <=> i \in 1..Len(s) \/ i = Len(s) + 1
    BY <1>1
  <2>4. QED
    BY <1>1, <2>1, <2>2, <2>3
<1>3. ToSet(t) = ToSet(s) \cup {y}
  BY <1>2
<1>4. QED
  BY <1>1, <1>3, HeadTailAppend DEF t

\* shift: the first element goes, the others stay.
LEMMA ToSetTail ==
    ASSUME NEW S, NEW s \in Seq(S), s # <<>>
    PROVE  /\ Head(s) \in S /\ Tail(s) \in Seq(S)
           /\ ToSet(s) = ToSet(Tail(s)) \cup {Head(s)}
<1> DEFINE t == Tail(s)
<1>1. /\ Head(s) \in S /\ t \in Seq(S) /\ Head(s) = s[1]
      /\ Len(t) = Len(s) - 1 /\ Len(s) \in Nat \ {0}
      /\ \A i \in 1..(Len(s) - 1) : t[i] = s[i + 1]
  BY HeadTailProperties, EmptySeq
<1> HIDE DEF t
<1>2. ASSUME NEW x
      PROVE  x \in ToSet(s) <=> x \in ToSet(t) \cup {Head(s)}
  <2>1. x \in ToSet(s) <=> \E i \in 1..Len(s) : s[i] = x
    BY ToSetMember
  <2>2. x \in ToSet(t) <=> \E i \in 1..(Len(s) - 1) : t[i] = x
    BY <1>1, ToSetMember
  <2>3. ASSUME NEW i \in 1..Len(s), s[i] = x, i # 1 PROVE x \in ToSet(t)
    <3>1. i - 1 \in 1..(Len(s) - 1) /\ (i - 1) + 1 = i
      BY <1>1, <2>3
    <3>2. t[i - 1] = x
      BY <1>1, <2>3, <3>1
    <3>3. QED
      BY <2>2, <3>1, <3>2
  <2>4. ASSUME NEW i \in 1..(Len(s) - 1), t[i] = x PROVE x \in ToSet(s)
    <3>1. i + 1 \in 1..Len(s) /\ s[i + 1] = x
      BY <1>1, <2>4
    <3>2. QED
      BY <2>1, <3>1
  <2>5. 1 \in 1..Len(s)
    BY <1>1
  <2>6. QED
    BY <1>1, <2>1, <2>2, <2>3, <2>4, <2>5
<1>3. ToSet(s) = ToSet(t) \cup {Head(s)}
  BY <1>2
<1>4. QED
  BY <1>1, <1>3 DEF t

\* splice: one item goes, the others stay, and the first one stays first.
LEMMA ToSetRemoveAt ==
    ASSUME NEW S, NEW s \in Seq(S), NEW i \in 1..Len(s)
    PROVE  /\ RemoveAt(s, i) \in Seq(S)
           /\ ToSet(RemoveAt(s, i)) \subseteq ToSet(s)
           /\ ToSet(s) \ {s[i]} \subseteq ToSet(RemoveAt(s, i))
           /\ i # 1 => RemoveAt(s, i) # <<>> /\ Head(RemoveAt(s, i)) = Head(s)
<1> DEFINE t == RemoveAt(s, i)
<1>1. /\ t \in Seq(S) /\ Len(t) = Len(s) - 1 /\ Len(s) \in Nat
      /\ \A j \in 1..(Len(s) - 1) : t[j] = IF j < i THEN s[j] ELSE s[j + 1]
  BY RemoveAtProperties, LenProperties
<1> HIDE DEF t
<1>2. ASSUME NEW x \in ToSet(t) PROVE x \in ToSet(s)
  <2>1. PICK j \in 1..(Len(s) - 1) : t[j] = x
    BY <1>1, <1>2, ToSetMember
  <2>2. j \in 1..Len(s) /\ j + 1 \in 1..Len(s)
    BY <1>1
  <2>3. QED
    BY <1>1, <2>1, <2>2, ToSetMember
<1>3. ASSUME NEW x \in ToSet(s), x # s[i] PROVE x \in ToSet(t)
  <2>1. PICK j \in 1..Len(s) : s[j] = x
    BY <1>3, ToSetMember
  <2>2. CASE j < i
    <3>1. j \in 1..(Len(s) - 1)
      BY <1>1, <2>2
    <3>2. QED
      BY <1>1, <2>1, <2>2, <3>1, ToSetMember
  <2>3. CASE ~(j < i)
    <3>1. j - 1 \in 1..(Len(s) - 1) /\ ~(j - 1 < i) /\ (j - 1) + 1 = j
      BY <1>1, <1>3, <2>1, <2>3
    <3>2. t[j - 1] = x
      BY <1>1, <2>1, <3>1
    <3>3. QED
      BY <1>1, <3>1, <3>2, ToSetMember
  <2>4. QED
    BY <2>2, <2>3
<1>4. ASSUME i # 1 PROVE t # <<>> /\ Head(t) = Head(s)
  <2>1. Len(t) # 0 /\ 1 \in 1..(Len(s) - 1) /\ 1 < i
    BY <1>1, <1>4
  <2>2. t # <<>> /\ s # <<>>
    BY <1>1, <2>1, EmptySeq
  <2>3. t[1] = s[1]
    BY <1>1, <2>1
  <2>4. QED
    BY <1>1, <2>2, <2>3
<1>5. QED
  BY <1>1, <1>2, <1>3, <1>4 DEF t

-----------------------------------------------------------------------------
(* The elements of a sequence at some positions *)

\* Which element of I the element i is.
Rank(I, i) == Cardinality({j \in I : j <= i})

\* Positions are counted 1, 2, 3... with none left out.
LEMMA RankProperties ==
    ASSUME NEW I, IsFiniteSet(I), I \subseteq Int
    PROVE  /\ Cardinality(I) \in Nat
           /\ \A i \in I : Rank(I, i) \in 1..Cardinality(I)
           /\ \A i, j \in I : Rank(I, i) = Rank(I, j) => i = j
           /\ \A k \in 1..Cardinality(I) : \E i \in I : Rank(I, i) = k
<1> DEFINE Below(i) == {j \in I : j <= i}
           f == [i \in I |-> Rank(I, i)]
<1>1. Cardinality(I) \in Nat
  BY FS_CardinalityType
<1>2. ASSUME NEW i \in I
      PROVE  /\ IsFiniteSet(Below(i)) /\ Cardinality(Below(i)) = Rank(I, i)
             /\ Rank(I, i) \in 1..Cardinality(I)
  <2>1. Below(i) \in SUBSET I /\ i \in Below(i)
    OBVIOUS
  <2>2. IsFiniteSet(Below(i)) /\ Cardinality(Below(i)) <= Cardinality(I)
    BY <2>1, FS_Subset
  <2>3. Cardinality(Below(i)) \in Nat
    BY <2>2, FS_CardinalityType
  <2>4. Cardinality(Below(i)) # 0
    BY <2>1, <2>2, FS_EmptySet
  <2>5. QED
    BY <1>1, <2>2, <2>3, <2>4 DEF Rank
<1>3. ASSUME NEW i \in I, NEW j \in I, i < j
      PROVE  Rank(I, i) # Rank(I, j)
  <2>1. Below(i) \in SUBSET Below(j)
    <3>1. ASSUME NEW k \in I, k <= i PROVE k <= j
      BY <1>3, <3>1
    <3>2. QED
      BY <3>1
  <2>2. j \in Below(j) /\ j \notin Below(i)
    BY <1>3
  <2> HIDE DEF Below
  <2>3. Cardinality(Below(j)) # Cardinality(Below(i))
    BY <1>2, <2>1, <2>2, FS_Subset
  <2>4. QED
    BY <1>2, <2>3
<1>4. ASSUME NEW i \in I, NEW j \in I, Rank(I, i) = Rank(I, j)
      PROVE  i = j
  BY <1>3, <1>4
<1>5. f \in Injection(I, 1..Cardinality(I))
  <2>1. f \in [I -> 1..Cardinality(I)]
    BY <1>2
  <2>2. IsInjective(f)
    BY <1>4 DEF IsInjective
  <2>3. QED
    BY <2>1, <2>2 DEF Injection
<1>6. IsFiniteSet(1..Cardinality(I)) /\ Cardinality(1..Cardinality(I)) = Cardinality(I)
  BY <1>1, FS_Interval
<1>7. f \in Surjection(I, 1..Cardinality(I))
  BY <1>5, <1>6, FS_Injection
<1>8. ASSUME NEW k \in 1..Cardinality(I) PROVE \E i \in I : Rank(I, i) = k
  BY <1>7 DEF Surjection
<1>9. QED
  BY <1>1, <1>2, <1>4, <1>8

\* A set of positions of a sequence is finite.
LEMMA PositionsFinite ==
    ASSUME NEW S, NEW s \in Seq(S), NEW I \in SUBSET DOMAIN s
    PROVE  IsFiniteSet(I) /\ I \subseteq Int /\ Cardinality(I) \in Nat
<1>1. Len(s) \in Nat /\ DOMAIN s = 1..Len(s)
  BY LenProperties
<1>2. IsFiniteSet(DOMAIN s)
  BY <1>1, FS_Interval
<1>3. QED
  BY <1>1, <1>2, FS_Subset, FS_CardinalityType

\* AtPositions(s, I) has the elements of s at I, each of them once.
LEMMA AtPositionsProperties ==
    ASSUME NEW S, NEW s \in Seq(S), NEW I \in SUBSET DOMAIN s
    PROVE  /\ AtPositions(s, I) \in Seq(S)
           /\ Len(AtPositions(s, I)) = Cardinality(I) /\ Cardinality(I) \in Nat
           /\ \A i \in I : /\ Rank(I, i) \in 1..Cardinality(I)
                           /\ AtPositions(s, I)[Rank(I, i)] = s[i]
           /\ \A i, j \in I : Rank(I, i) = Rank(I, j) => i = j
           /\ \A k \in 1..Cardinality(I) : \E i \in I : Rank(I, i) = k
<1> DEFINE at == AtPositions(s, I)
           n == Cardinality(I)
           pick(k) == CHOOSE i \in I : Rank(I, i) = k
<1>1. IsFiniteSet(I) /\ I \subseteq Int /\ n \in Nat
  BY PositionsFinite
<1>2. /\ \A i \in I : Rank(I, i) \in 1..n
      /\ \A i, j \in I : Rank(I, i) = Rank(I, j) => i = j
      /\ \A k \in 1..n : \E i \in I : Rank(I, i) = k
  BY <1>1, RankProperties
<1>3. at = [k \in 1..n |-> s[pick(k)]]
  BY DEF AtPositions, Rank
<1>4. ASSUME NEW k \in 1..n PROVE pick(k) \in I /\ Rank(I, pick(k)) = k
  BY <1>2
<1>5. ASSUME NEW i \in DOMAIN s PROVE s[i] \in S
  BY LenProperties, ElementOfSeq
<1> HIDE DEF pick, n
<1>6. at \in Seq(S)
  BY <1>1, <1>3, <1>4, <1>5, IsASeq
<1>7. Len(at) = n
  BY <1>1, <1>3
<1>8. ASSUME NEW i \in I PROVE at[Rank(I, i)] = s[i]
  BY <1>2, <1>3, <1>4
<1>9. QED
  BY <1>1, <1>2, <1>6, <1>7, <1>8 DEF n

-----------------------------------------------------------------------------
(* Sequences of which only the elements matter *)

\* A sequence of some elements, whatever they are.
IsSeq(s) == s \in Seq(Range(s))

\* What holds of any sequence.
LEMMA SeqIsSeq ==
    ASSUME NEW S, NEW s \in Seq(S)
    PROVE  /\ IsSeq(s) /\ Range(s) \subseteq S
           /\ DOMAIN s = 1..Len(s) /\ Len(s) \in Nat
           /\ s = <<>> <=> Range(s) = {}
<1>1. DOMAIN s = 1..Len(s) /\ Len(s) \in Nat /\ s \in [1..Len(s) -> S]
  BY LenProperties
<1>2. Range(s) \subseteq S
  BY <1>1 DEF Range
<1>3. s \in Seq(Range(s))
  <2> DEFINE e(i) == s[i]
  <2>1. \A i \in 1..Len(s) : e(i) \in Range(s)
    BY <1>1 DEF Range
  <2>2. [i \in 1..Len(s) |-> e(i)] \in Seq(Range(s))
    <3> HIDE DEF e
    <3> QED BY <1>1, <2>1, IsASeq
  <2>3. s = [i \in 1..Len(s) |-> s[i]]
    BY <1>1
  <2>4. QED
    BY <2>2, <2>3
<1>4. s = <<>> => Range(s) = {}
  BY DEF Range
<1>5. ASSUME s # <<>> PROVE Range(s) # {}
  <2>1. 1 \in DOMAIN s
    BY <1>1, <1>5, EmptySeq
  <2>2. QED
    BY <2>1 DEF Range
<1>6. QED
  BY <1>1, <1>2, <1>3, <1>4, <1>5 DEF IsSeq

\* A function over 1..n is a sequence.
LEMMA TabulatedIsSeq ==
    ASSUME NEW n \in Nat, NEW s, DOMAIN s = 1..n, s = [i \in 1..n |-> s[i]]
    PROVE  IsSeq(s) /\ Len(s) = n
<1> DEFINE e(i) == s[i]
<1>1. \A i \in 1..n : e(i) \in Range(s)
  BY DEF Range
<1>2. [i \in 1..n |-> e(i)] \in Seq(Range(s))
  <2> HIDE DEF e
  <2> QED BY <1>1, IsASeq
<1>3. s \in Seq(Range(s))
  BY <1>2
<1>4. Len(s) = n
  BY <1>3, LenProperties
<1>5. QED
  BY <1>3, <1>4 DEF IsSeq

LEMMA SingletonIsSeq ==
    ASSUME NEW x
    PROVE  IsSeq(<<x>>) /\ Range(<<x>>) = {x}
<1> DEFINE s == <<x>>
<1>1. s \in Seq({x}) /\ Len(s) = 1 /\ s[1] = x
  OBVIOUS
<1> HIDE DEF s
<1>2. IsSeq(s) /\ DOMAIN s = 1..1
  BY <1>1, SeqIsSeq
<1>3. Range(s) = {x}
  BY <1>1, <1>2 DEF Range
<1>4. QED
  BY <1>2, <1>3 DEF s

\* One element is computed from each element of a sequence.
LEMMA MappedIsSeq ==
    ASSUME NEW s, IsSeq(s), NEW t, DOMAIN t = DOMAIN s, t = [i \in DOMAIN s |-> t[i]]
    PROVE  IsSeq(t)
<1>1. DOMAIN s = 1..Len(s) /\ Len(s) \in Nat
  BY SeqIsSeq DEF IsSeq
<1>2. QED
  BY <1>1, TabulatedIsSeq

LEMMA ConcatIsSeq ==
    ASSUME NEW s, NEW t, IsSeq(s), IsSeq(t)
    PROVE  IsSeq(s \o t) /\ Range(s \o t) = Range(s) \cup Range(t)
<1> DEFINE S == Range(s) \cup Range(t)
           u == s \o t
<1>1. s \in Seq(S) /\ t \in Seq(S)
  BY SeqMonotonic DEF IsSeq
<1> HIDE DEF S
<1>2. /\ u \in Seq(S) /\ Len(u) = Len(s) + Len(t)
      /\ \A i \in 1..(Len(s) + Len(t)) : u[i] = IF i <= Len(s) THEN s[i] ELSE t[i - Len(s)]
  BY <1>1, ConcatProperties
<1>3. /\ DOMAIN u = 1..Len(u) /\ DOMAIN s = 1..Len(s) /\ DOMAIN t = 1..Len(t)
      /\ Len(s) \in Nat /\ Len(t) \in Nat
  BY <1>1, <1>2, LenProperties
<1>4. Range(u) \subseteq S
  BY <1>2, SeqIsSeq
<1>5. ASSUME NEW i \in DOMAIN s PROVE s[i] \in Range(u)
  <2>1. i \in DOMAIN u /\ u[i] = s[i]
    BY <1>2, <1>3
  <2>2. QED
    BY <2>1 DEF Range
<1>6. ASSUME NEW i \in DOMAIN t PROVE t[i] \in Range(u)
  <2>1. /\ i + Len(s) \in DOMAIN u /\ ~(i + Len(s) <= Len(s)) /\ (i + Len(s)) - Len(s) = i
    BY <1>2, <1>3
  <2>2. u[i + Len(s)] = t[i]
    BY <1>2, <1>3, <2>1
  <2>3. QED
    BY <2>1, <2>2 DEF Range
<1>7. Range(s) \subseteq Range(u) /\ Range(t) \subseteq Range(u)
  BY <1>5, <1>6 DEF Range
<1>8. QED
  BY <1>2, <1>4, <1>7, SeqIsSeq DEF S

LEMMA TailIsSeq ==
    ASSUME NEW s, IsSeq(s), s # <<>>
    PROVE  IsSeq(Tail(s)) /\ Range(s) = {Head(s)} \cup Range(Tail(s))
<1> DEFINE t == Tail(s)
<1>1. /\ Head(s) \in Range(s) /\ t \in Seq(Range(s)) /\ Len(t) = Len(s) - 1
      /\ \A i \in 1..Len(t) : t[i] = s[i + 1]
  BY HeadTailProperties DEF IsSeq
<1>2. DOMAIN s = 1..Len(s) /\ Len(s) \in Nat /\ DOMAIN t = 1..Len(t)
  BY <1>1, LenProperties DEF IsSeq
<1>3. IsSeq(t) /\ Range(t) \subseteq Range(s)
  BY <1>1, SeqIsSeq
<1>4. Head(s) = s[1]
  BY DEF IsSeq
<1> HIDE DEF t
<1>5. ASSUME NEW i \in DOMAIN s, i # 1 PROVE s[i] \in Range(t)
  <2>1. i - 1 \in DOMAIN t /\ (i - 1) + 1 = i
    BY <1>1, <1>2, <1>5
  <2>2. t[i - 1] = s[i]
    BY <1>1, <1>2, <2>1
  <2>3. QED
    BY <2>1, <2>2 DEF Range
<1>6. Range(s) \subseteq {Head(s)} \cup Range(t)
  BY <1>4, <1>5 DEF Range
<1>7. QED
  BY <1>1, <1>3, <1>6 DEF t

LEMMA AppendIsSeq ==
    ASSUME NEW s, IsSeq(s), NEW x
    PROVE  /\ IsSeq(Append(s, x)) /\ Range(Append(s, x)) = Range(s) \cup {x}
           /\ Append(s, x) # <<>>
<1> DEFINE S == Range(s) \cup {x}
           t == Append(s, x)
<1>1. s \in Seq(S) /\ x \in S
  BY SeqMonotonic DEF IsSeq
<1> HIDE DEF S
<1>2. t \in Seq(S) /\ Len(t) = Len(s) + 1 /\ \A i \in 1..Len(s) : t[i] = s[i]
  BY <1>1
<1>3. t[Len(s) + 1] = x
  BY <1>1
<1>4. /\ DOMAIN s = 1..Len(s) /\ Len(s) \in Nat /\ DOMAIN t = 1..Len(t)
      /\ IsSeq(t) /\ Range(t) \subseteq S
  BY <1>1, <1>2, SeqIsSeq
<1> HIDE DEF t
<1>5. DOMAIN s \subseteq DOMAIN t /\ Len(s) + 1 \in DOMAIN t
  BY <1>2, <1>4
<1>6. S \subseteq Range(t)
  BY <1>2, <1>3, <1>4, <1>5 DEF Range, S
<1>7. t # <<>>
  BY <1>3, <1>5, <1>6, SeqIsSeq DEF S, Range
<1>8. QED
  BY <1>4, <1>6, <1>7 DEF S, t

LEMMA AtPositionsIsSeq ==
    ASSUME NEW s, IsSeq(s), NEW I \in SUBSET DOMAIN s
    PROVE  IsSeq(AtPositions(s, I)) /\ Range(AtPositions(s, I)) = {s[i] : i \in I}
<1> DEFINE at == AtPositions(s, I)
<1>1. /\ at \in Seq(Range(s))
      /\ Len(at) = Cardinality(I) /\ Cardinality(I) \in Nat
      /\ \A i \in I : Rank(I, i) \in 1..Cardinality(I) /\ at[Rank(I, i)] = s[i]
      /\ \A k \in 1..Cardinality(I) : \E i \in I : Rank(I, i) = k
  BY AtPositionsProperties DEF IsSeq
<1>2. DOMAIN at = 1..Cardinality(I) /\ IsSeq(at)
  BY <1>1, SeqIsSeq
<1> HIDE DEF at
<1>3. ASSUME NEW i \in I PROVE s[i] \in Range(at)
  BY <1>1, <1>2 DEF Range
<1>4. ASSUME NEW k \in DOMAIN at PROVE at[k] \in {s[i] : i \in I}
  BY <1>1, <1>2
<1>5. QED
  BY <1>2, <1>3, <1>4 DEF Range, at

\* A set of positions has a first one.
LEMMA FirstPosition ==
    ASSUME NEW s, IsSeq(s), NEW I \in SUBSET DOMAIN s, I # {}
    PROVE  \E i \in I : \A j \in I : i <= j
<1>1. IsFiniteSet(I) /\ I \subseteq Int /\ Cardinality(I) \in Nat
  BY PositionsFinite DEF IsSeq
<1>2. Cardinality(I) # 0
  BY <1>1, FS_EmptySet
<1>3. PICK i \in I : Rank(I, i) = 1
  BY <1>1, <1>2, RankProperties
<1>4. ASSUME NEW j \in I PROVE i <= j
  <2>1. SUFFICES ASSUME j < i PROVE FALSE
    BY <1>1
  <2> DEFINE below == {k \in I : k <= i}
  <2>2. i \in below /\ j \in below
    BY <1>1, <2>1
  <2>3. IsFiniteSet(below) /\ Cardinality(below) = 1
    BY <1>1, <1>3, FS_Subset DEF Rank
  <2> HIDE DEF below
  <2>4. PICK x : below = {x}
    BY <2>3, FS_Singleton
  <2>5. i = j
    BY <2>2, <2>4
  <2>6. QED
    BY <1>1, <2>1, <2>5
<1>5. QED
  BY <1>4

\* A map has what it had and what was put into it.
LEMMA PutAllIsSeq ==
    ASSUME NEW s, NEW t, IsSeq(s), IsSeq(t)
    PROVE  IsSeq(PutAll(s, t)) /\ Range(PutAll(s, t)) = Range(s) \cup Range(t)
<1> DEFINE I == {i \in DOMAIN t : t[i] \notin Range(s) /\ \A j \in 1..(i - 1) : t[j] # t[i]}
           new == AtPositions(t, I)
<1>1. IsSeq(new) /\ Range(new) = {t[i] : i \in I}
  BY AtPositionsIsSeq
<1>2. ASSUME NEW x \in Range(t), x \notin Range(s) PROVE x \in {t[i] : i \in I}
  <2> DEFINE J == {i \in DOMAIN t : t[i] = x}
  <2>1. J # {} /\ J \in SUBSET DOMAIN t
    BY DEF Range
  <2>2. PICK i \in J : \A j \in J : i <= j
    <3> HIDE DEF J
    <3> QED BY <2>1, FirstPosition
  <2>3. DOMAIN t = 1..Len(t) /\ Len(t) \in Nat
    BY SeqIsSeq DEF IsSeq
  <2>4. ASSUME NEW j \in 1..(i - 1), t[j] = t[i] PROVE FALSE
    <3>1. j \in DOMAIN t /\ ~(i <= j)
      BY <2>3
    <3>2. QED
      BY <2>2, <2>4, <3>1
  <2>5. i \in I /\ t[i] = x
    BY <1>2, <2>4
  <2>6. QED
    BY <2>5
<1>3. {t[i] : i \in I} \subseteq Range(t)
  BY DEF Range
<1> HIDE DEF I
<1>4. PutAll(s, t) = s \o new
  BY DEF PutAll, I
<1> HIDE DEF new
<1>5. QED
  BY <1>1, <1>2, <1>3, <1>4, ConcatIsSeq

=============================================================================
