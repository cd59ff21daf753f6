----------------------- MODULE ConcurrencyQueueProofs -----------------------
(***************************************************************************)
(* What holds of the concurrency queue for any callers, ids and limit.     *)
(***************************************************************************)
EXTENDS ConcurrencyQueue, FiniteSetTheorems, SequenceTheorems, TLAPS

(* The parts of QueueMatchesPromises and Admitted, for the intermediate    *)
(* queue q and promises p that ResolveNext is given.                       *)
Holding(p) == {c \in Caller : p[c] = "resolved"}

Matches(q, p) ==
  /\ \A i, j \in 1..Len(q) : q[i].resolve = q[j].resolve => i = j
  /\ \A c \in Caller : p[c] = "pending" <=> \E i \in 1..Len(q) : q[i].resolve = c

IInv ==
  /\ TypeOK
  /\ QueueMatchesPromises
  /\ SlotsAccounted
  /\ WorkConserving

-----------------------------------------------------------------------------

(* The sets of callers that are counted are finite.                        *)
LEMMA HoldingFinite ==
  ASSUME NEW p
  PROVE  /\ IsFiniteSet(Holding(p))
         /\ Cardinality(Holding(p)) \in Nat
<1>1. Holding(p) \subseteq Caller
  BY DEF Holding
<1> QED
  BY <1>1, FS_Subset, FS_CardinalityType, QueueAssumption

(* A caller that gets a slot is one more holder, one that gives it back is *)
(* one fewer, and no other change of state changes the number of holders.  *)
LEMMA HoldingCount ==
  ASSUME NEW p \in [Caller -> PromiseState], NEW c \in Caller,
         NEW s \in PromiseState
  PROVE  LET n == Cardinality(Holding(p))
             m == Cardinality(Holding([p EXCEPT ![c] = s]))
         IN  /\ p[c] # "resolved" /\ s = "resolved" => m = n + 1
             /\ p[c] = "resolved" /\ s # "resolved" => m = n - 1
             /\ p[c] # "resolved" /\ s # "resolved" => m = n
<1> DEFINE r == [p EXCEPT ![c] = s]
<1>1. CASE p[c] # "resolved" /\ s = "resolved"
  <2>1. Holding(r) = Holding(p) \cup {c} /\ c \notin Holding(p)
    BY <1>1 DEF Holding
  <2> QED
    BY <1>1, <2>1, HoldingFinite, FS_AddElement
<1>2. CASE p[c] = "resolved" /\ s # "resolved"
  <2>1. Holding(r) = Holding(p) \ {c} /\ c \in Holding(p)
    BY <1>2 DEF Holding
  <2> QED
    BY <1>2, <2>1, HoldingFinite, FS_RemoveElement
<1>3. CASE p[c] # "resolved" /\ s # "resolved"
  <2>1. Holding(r) = Holding(p)
    BY <1>3 DEF Holding
  <2> QED
    BY <1>3, <2>1
<1> QED
  BY <1>1, <1>2, <1>3

(* resolveNext restores the invariant from a queue and promises in which   *)
(* one slot was just given back.                                           *)
LEMMA ResolveNextRestores ==
  ASSUME NEW q \in Seq(Item), NEW p \in [Caller -> PromiseState],
         Matches(q, p),
         capacity' \in Int,
         capacity' = Limit - Cardinality(Holding(p)) - Len(q),
         Len(q) > 0 => Cardinality(Holding(p)) >= Limit - 1,
         ResolveNext(q, p)
  PROVE  IInv'
<1>1. Cardinality(Holding(p)) \in Nat /\ Limit \in Nat /\ Len(q) \in Nat
  BY HoldingFinite, QueueAssumption
<1>2. CASE q = <<>>
  <2>1. queue' = <<>> /\ promise' = p
    BY <1>2 DEF ResolveNext
  <2>2. TypeOK'
    BY <2>1 DEF TypeOK
  <2>3. QueueMatchesPromises'
    BY <1>2, <2>1 DEF QueueMatchesPromises, Matches
  <2>4. SlotsAccounted' /\ WorkConserving'
    <3>1. Admitted' = Holding(p) /\ Len(queue') = 0 /\ Len(q) = 0
      BY <1>2, <2>1 DEF Admitted, Holding
    <3> QED
      BY <1>1, <3>1 DEF SlotsAccounted, WorkConserving
  <2> QED
    BY <2>2, <2>3, <2>4 DEF IInv
<1>3. CASE q # <<>>
  <2> DEFINE c == Head(q).resolve
  <2>1. /\ c \in Caller
        /\ c = q[1].resolve
        /\ 1 \in 1..Len(q)
        /\ \A i \in 1..Len(q) : q[i] \in Item /\ q[i].resolve \in Caller
    <3>1. Len(q) \in Nat \ {0} /\ Head(q) = q[1]
      BY <1>1, <1>3
    <3>2. \A i \in 1..Len(q) : q[i] \in Item
      BY ElementOfSeq
    <3> QED
      BY <3>1, <3>2 DEF Item
  <2>2. p[c] = "pending"
    BY <2>1 DEF Matches
  <2>3. /\ queue' = Tail(q)
        /\ queue' \in Seq(Item)
        /\ Len(queue') = Len(q) - 1
        /\ \A i \in 1..Len(queue') : queue'[i] = q[i + 1] /\ i + 1 \in 1..Len(q)
    <3>1. queue' = Tail(q)
      BY <1>3 DEF ResolveNext
    <3>2. Tail(q) \in Seq(Item) /\ Len(Tail(q)) = Len(q) - 1
      BY <1>3, HeadTailProperties
    <3>3. \A i \in 1..Len(Tail(q)) : Tail(q)[i] = q[i + 1]
      BY <1>3, HeadTailProperties
    <3> QED
      BY <1>1, <3>1, <3>2, <3>3
  <2>4. promise' = [p EXCEPT ![c] = "resolved"]
    BY <1>3 DEF ResolveNext
  <2>5. TypeOK'
    BY <2>1, <2>3, <2>4 DEF TypeOK, PromiseState
  <2>6. QueueMatchesPromises'
    <3>1. \A i, j \in 1..Len(queue') :
            queue'[i].resolve = queue'[j].resolve => i = j
      BY <1>1, <2>3 DEF Matches
    <3>2. ASSUME NEW d \in Caller
          PROVE  promise'[d] = "pending" <=>
                   \E i \in 1..Len(queue') : queue'[i].resolve = d
      <4>1. CASE d = c
        <5>1. promise'[d] = "resolved"
          BY <4>1, <2>1, <2>4
        <5>2. \A i \in 1..Len(queue') : queue'[i].resolve # d
          BY <4>1, <1>1, <2>1, <2>3 DEF Matches
        <5> QED
          BY <5>1, <5>2
      <4>2. CASE d # c
        <5>1. promise'[d] = p[d]
          BY <4>2, <2>4
        <5>2. \A i \in 1..Len(q) : q[i].resolve = d =>
                 i - 1 \in 1..Len(queue') /\ queue'[i - 1] = q[i]
          BY <4>2, <1>1, <2>1, <2>3
        <5>3. promise'[d] = "pending" =>
                \E i \in 1..Len(queue') : queue'[i].resolve = d
          <6> SUFFICES ASSUME p[d] = "pending"
                       PROVE  \E i \in 1..Len(queue') : queue'[i].resolve = d
            BY <5>1
          <6>1. PICK i \in 1..Len(q) : q[i].resolve = d
            BY DEF Matches
          <6> QED
            BY <6>1, <5>2
        <5>4. (\E i \in 1..Len(queue') : queue'[i].resolve = d) =>
                promise'[d] = "pending"
          BY <5>1, <2>3 DEF Matches
        <5> QED
          BY <5>3, <5>4
      <4> QED
        BY <4>1, <4>2
    <3> QED
      BY <3>1, <3>2 DEF QueueMatchesPromises
  <2>7. Cardinality(Admitted') = Cardinality(Holding(p)) + 1
    <3>1. Admitted' = Holding([p EXCEPT ![c] = "resolved"])
      BY <2>4 DEF Holding, Admitted
    <3> QED
      BY <3>1, <2>1, <2>2, HoldingCount DEF PromiseState
  <2>8. SlotsAccounted' /\ WorkConserving'
    <3> DEFINE n == Cardinality(Holding(p))
    <3>1. n \in Nat /\ Len(q) > 0 /\ Cardinality(Admitted') = n + 1
      BY <1>1, <2>1, <2>7
    <3>2. capacity' = Limit - n - Len(q) /\ n >= Limit - 1
      BY <3>1
    <3> HIDE DEF n
    <3> QED
      BY <1>1, <2>3, <3>1, <3>2 DEF SlotsAccounted, WorkConserving
  <2> QED
    BY <2>5, <2>6, <2>8 DEF IInv
<1> QED
  BY <1>2, <1>3

(* Len after RemoveAt, and where its elements come from.                   *)
LEMMA RemoveAtSeq ==
  ASSUME NEW S, NEW s \in Seq(S), NEW k \in 1..Len(s)
  PROVE  /\ RemoveAt(s, k) \in Seq(S)
         /\ Len(RemoveAt(s, k)) = Len(s) - 1
         /\ \A i \in 1..(Len(s) - 1) :
              RemoveAt(s, k)[i] = IF i < k THEN s[i] ELSE s[i + 1]
<1>1. Len(s) \in Nat /\ k \in Nat /\ \A i \in 1..Len(s) : s[i] \in S
  BY LenProperties, ElementOfSeq
<1> DEFINE a == SubSeq(s, 1, k - 1)
           b == SubSeq(s, k + 1, Len(s))
<1>2. /\ a \in Seq(S) /\ Len(a) = k - 1
      /\ \A i \in 1..(k - 1) : a[i] = s[i]
  <2>1. \A i \in 1..(k - 1) : s[i] \in S
    BY <1>1
  <2>2. /\ SubSeq(s, 1, k - 1) \in Seq(S)
        /\ Len(SubSeq(s, 1, k - 1)) = IF 1 <= k - 1 THEN (k - 1) - 1 + 1 ELSE 0
        /\ \A i \in 1..((k - 1) - 1 + 1) : SubSeq(s, 1, k - 1)[i] = s[1 + i - 1]
    BY <1>1, <2>1, SubSeqProperties
  <2> QED
    BY <1>1, <2>2
<1>3. /\ b \in Seq(S) /\ Len(b) = Len(s) - k
      /\ \A i \in 1..(Len(s) - k) : b[i] = s[k + i]
  <2>1. \A i \in (k + 1)..Len(s) : s[i] \in S
    BY <1>1
  <2>2. /\ SubSeq(s, k + 1, Len(s)) \in Seq(S)
        /\ Len(SubSeq(s, k + 1, Len(s))) =
             IF k + 1 <= Len(s) THEN Len(s) - (k + 1) + 1 ELSE 0
        /\ \A i \in 1..(Len(s) - (k + 1) + 1) :
             SubSeq(s, k + 1, Len(s))[i] = s[(k + 1) + i - 1]
    BY <1>1, <2>1, SubSeqProperties
  <2> QED
    BY <1>1, <2>2
<1> DEFINE r == a \o b
<1>4. /\ r \in Seq(S) /\ Len(r) = Len(a) + Len(b)
      /\ \A i \in 1..(Len(a) + Len(b)) :
           r[i] = IF i <= Len(a) THEN a[i] ELSE b[i - Len(a)]
  BY <1>2, <1>3, ConcatProperties
<1>5. RemoveAt(s, k) = r
  BY DEF RemoveAt
<1> HIDE DEF a, b, r
<1>6. Len(r) = Len(s) - 1
  BY <1>1, <1>2, <1>3, <1>4
<1>7. ASSUME NEW i \in 1..(Len(s) - 1)
      PROVE  r[i] = IF i < k THEN s[i] ELSE s[i + 1]
  <2>1. i \in Nat /\ r[i] = IF i <= Len(a) THEN a[i] ELSE b[i - Len(a)]
    BY <1>1, <1>2, <1>3, <1>4
  <2>2. CASE i < k
    <3>1. i \in 1..(k - 1) /\ i <= Len(a)
      BY <1>1, <1>2, <2>1, <2>2
    <3> QED
      BY <1>2, <2>1, <2>2, <3>1
  <2>3. CASE ~(i < k)
    <3>1. /\ i - (k - 1) \in 1..(Len(s) - k)
          /\ k + (i - (k - 1)) = i + 1
          /\ ~(i <= Len(a))
      BY <1>1, <1>2, <2>1, <2>3
    <3>2. b[i - (k - 1)] = s[i + 1]
      BY <1>3, <3>1
    <3> QED
      BY <1>2, <2>1, <2>3, <3>1, <3>2
  <2> QED
    BY <2>2, <2>3
<1> QED
  BY <1>4, <1>5, <1>6, <1>7

-----------------------------------------------------------------------------

(* A new call: a slot if one is free, the end of the line otherwise.       *)
LEMMA EnqueuePreserves ==
  ASSUME IInv, NEW c \in Caller, NEW id \in ExecutionId, Enqueue(c, id)
  PROVE  IInv'
<1> DEFINE n == Cardinality(Admitted)
<1>1. /\ queue \in Seq(Item) /\ Len(queue) \in Nat /\ capacity \in Int
      /\ promise \in [Caller -> PromiseState]
      /\ Limit \in Nat \ {0}
      /\ n \in Nat
      /\ Admitted = Holding(promise) /\ Admitted' = Holding(promise')
  <2>1. Admitted = Holding(promise) /\ Admitted' = Holding(promise')
    BY DEF Admitted, Holding
  <2> QED
    BY <2>1, QueueAssumption, HoldingFinite DEF IInv, TypeOK
<1>2. /\ capacity = Limit - n - Len(queue)
      /\ Len(queue) > 0 => n >= Limit
  BY DEF IInv, SlotsAccounted, WorkConserving
<1>3. promise[c] = "idle" /\ capacity' = capacity - 1
  BY DEF Enqueue
<1> HIDE DEF n
<1>4. CASE capacity' < 0
  <2> DEFINE item == [executionId |-> id, resolve |-> c]
  <2>1. queue' = Append(queue, item) /\ promise' = [promise EXCEPT ![c] = "pending"]
    BY <1>4 DEF Enqueue
  <2>2. item \in Item
    BY DEF Item
  <2>3. /\ queue' \in Seq(Item) /\ Len(queue') = Len(queue) + 1
        /\ \A i \in 1..Len(queue) : queue'[i] = queue[i]
        /\ queue'[Len(queue) + 1] = item
    BY <1>1, <2>1, <2>2, AppendProperties
  <2>4. TypeOK'
    BY <1>1, <1>3, <2>1, <2>3 DEF TypeOK, PromiseState
  <2>5. QueueMatchesPromises'
    <3>1. \A i \in 1..Len(queue) : queue[i].resolve # c
      BY <1>3 DEF IInv, QueueMatchesPromises
    <3>2. item.resolve = c
      OBVIOUS
    <3>3. \A i, j \in 1..Len(queue') :
            queue'[i].resolve = queue'[j].resolve => i = j
      BY <1>1, <2>3, <3>1, <3>2 DEF IInv, QueueMatchesPromises
    <3>4. ASSUME NEW d \in Caller
          PROVE  promise'[d] = "pending" <=>
                   \E i \in 1..Len(queue') : queue'[i].resolve = d
      <4>1. CASE d = c
        BY <1>1, <2>1, <2>3, <3>2, <4>1
      <4>2. CASE d # c
        <5>1. promise'[d] = promise[d]
          BY <1>1, <2>1, <4>2
        <5>2. (\E i \in 1..Len(queue') : queue'[i].resolve = d) <=>
                \E i \in 1..Len(queue) : queue[i].resolve = d
          BY <1>1, <2>3, <3>2, <4>2
        <5> QED
          BY <5>1, <5>2 DEF IInv, QueueMatchesPromises
      <4> QED
        BY <4>1, <4>2
    <3> QED
      BY <3>3, <3>4 DEF QueueMatchesPromises
  <2>6. Cardinality(Admitted') = n
    BY <1>1, <1>3, <2>1, HoldingCount DEF PromiseState, n
  <2>7. SlotsAccounted' /\ WorkConserving'
    BY <1>1, <1>2, <1>3, <1>4, <2>3, <2>6, SMTT(30) DEF SlotsAccounted, WorkConserving
  <2> QED
    BY <2>4, <2>5, <2>7 DEF IInv
<1>5. CASE ~(capacity' < 0)
  <2>1. queue' = queue /\ promise' = [promise EXCEPT ![c] = "resolved"]
    BY <1>5 DEF Enqueue
  <2>2. TypeOK'
    BY <1>1, <1>3, <2>1 DEF TypeOK, PromiseState
  <2>3. QueueMatchesPromises'
    <3>1. \A d \in Caller : promise'[d] = "pending" <=> promise[d] = "pending"
      BY <1>1, <1>3, <2>1
    <3> QED
      BY <2>1, <3>1 DEF IInv, QueueMatchesPromises
  <2>4. Cardinality(Admitted') = n + 1
    BY <1>1, <1>3, <2>1, HoldingCount DEF PromiseState, n
  <2>5. SlotsAccounted' /\ WorkConserving'
    BY <1>1, <1>2, <1>3, <1>5, <2>1, <2>4 DEF SlotsAccounted, WorkConserving
  <2> QED
    BY <2>2, <2>3, <2>5 DEF IInv
<1> QED
  BY <1>4, <1>5

(* What every preservation proof starts from.                              *)
LEMMA InvariantFacts ==
  ASSUME IInv
  PROVE  /\ queue \in Seq(Item) /\ Len(queue) \in Nat /\ capacity \in Int
         /\ promise \in [Caller -> PromiseState]
         /\ Limit \in Nat \ {0}
         /\ Admitted = Holding(promise)
         /\ Cardinality(Admitted) \in Nat
         /\ capacity = Limit - Cardinality(Admitted) - Len(queue)
         /\ Len(queue) > 0 => Cardinality(Admitted) >= Limit
         /\ Matches(queue, promise)
<1>1. Admitted = Holding(promise)
  BY DEF Admitted, Holding
<1>2. Matches(queue, promise)
  BY DEF IInv, QueueMatchesPromises, Matches
<1> QED
  BY <1>1, <1>2, QueueAssumption, HoldingFinite
  DEF IInv, TypeOK, SlotsAccounted, WorkConserving

(* A slot given back goes to the head of the line.                         *)
LEMMA DequeuePreserves ==
  ASSUME IInv, NEW c \in Caller, Dequeue(c)
  PROVE  IInv'
<1> DEFINE p == [promise EXCEPT ![c] = "idle"]
           n == Cardinality(Admitted)
<1>1. /\ promise[c] = "resolved" /\ capacity' = capacity + 1
      /\ ResolveNext(queue, p)
  BY DEF Dequeue
<1>2. p \in [Caller -> PromiseState]
  BY InvariantFacts DEF PromiseState
<1>3. Matches(queue, p)
  <2>1. \A d \in Caller : p[d] = "pending" <=> promise[d] = "pending"
    BY <1>1, InvariantFacts
  <2> QED
    BY <2>1, InvariantFacts DEF Matches
<1>4. Cardinality(Holding(p)) = n - 1
  BY <1>1, InvariantFacts, HoldingCount DEF PromiseState
<1> HIDE DEF p
<1>5. /\ n \in Nat /\ Len(queue) \in Nat /\ capacity \in Int
      /\ capacity = Limit - n - Len(queue) /\ Limit \in Nat
      /\ Len(queue) > 0 => n >= Limit
      /\ queue \in Seq(Item)
  BY InvariantFacts
<1> HIDE DEF n
<1>6. /\ capacity' \in Int
      /\ capacity' = Limit - Cardinality(Holding(p)) - Len(queue)
      /\ Len(queue) > 0 => Cardinality(Holding(p)) >= Limit - 1
  BY <1>1, <1>4, <1>5
<1> QED
  BY <1>1, <1>2, <1>3, <1>5, <1>6, ResolveNextRestores

(* A call taken out of the line: its place goes, and the next call is let  *)
(* through although no holder gave its slot back.                          *)
LEMMA RemovePreserves ==
  ASSUME IInv, NEW id \in ExecutionId, RemoveFromQueue(id)
  PROVE  IInv'
<1>1. PICK k \in 1..Len(queue) :
        /\ capacity' = capacity + 1
        /\ ResolveNext(RemoveAt(queue, k), [promise EXCEPT ![queue[k].resolve] = "dropped"])
  BY DEF RemoveFromQueue
<1> DEFINE c == queue[k].resolve
           p == [promise EXCEPT ![c] = "dropped"]
           q == RemoveAt(queue, k)
           n == Cardinality(Admitted)
<1>2. /\ n \in Nat /\ Len(queue) \in Nat /\ capacity \in Int
      /\ capacity = Limit - n - Len(queue) /\ Limit \in Nat
      /\ Len(queue) > 0 => n >= Limit
      /\ queue \in Seq(Item)
      /\ promise \in [Caller -> PromiseState]
  BY InvariantFacts
<1>3. c \in Caller /\ promise[c] = "pending"
  <2>1. queue[k] \in Item
    BY <1>2, ElementOfSeq
  <2>2. c \in Caller
    BY <2>1 DEF Item
  <2> QED
    BY <2>2, InvariantFacts DEF Matches
<1>4. p \in [Caller -> PromiseState]
  BY <1>2 DEF PromiseState
<1>5. /\ q \in Seq(Item) /\ Len(q) = Len(queue) - 1
      /\ \A i \in 1..Len(q) : q[i] = IF i < k THEN queue[i] ELSE queue[i + 1]
  BY <1>2, RemoveAtSeq
<1>6. Cardinality(Holding(p)) = n
  BY <1>2, <1>3, InvariantFacts, HoldingCount DEF PromiseState
<1>7. \A d \in Caller : p[d] = IF d = c THEN "dropped" ELSE promise[d]
  BY <1>2
<1> HIDE DEF p, q, c
<1>8. Matches(q, p)
  <2>1. \A i \in 1..Len(q) :
          IF i < k THEN i \in 1..Len(queue) /\ i # k /\ q[i] = queue[i]
                   ELSE i + 1 \in 1..Len(queue) /\ i + 1 # k /\ q[i] = queue[i + 1]
    BY <1>2, <1>5
  <2>2. \A i, j \in 1..Len(queue) : queue[i].resolve = queue[j].resolve => i = j
    BY InvariantFacts DEF Matches
  <2>3. ASSUME NEW i \in 1..Len(q), NEW j \in 1..Len(q), q[i].resolve = q[j].resolve
        PROVE  i = j
    <3> DEFINE I == IF i < k THEN i ELSE i + 1
               J == IF j < k THEN j ELSE j + 1
    <3>1. I \in 1..Len(queue) /\ q[i] = queue[I]
      BY <2>1
    <3>2. J \in 1..Len(queue) /\ q[j] = queue[J]
      BY <2>1
    <3>3. I = J
      BY <3>1, <3>2, <2>2, <2>3
    <3> QED
      BY <3>3, <1>2
  <2>4. ASSUME NEW d \in Caller
        PROVE  p[d] = "pending" <=> \E i \in 1..Len(q) : q[i].resolve = d
    <3>1. CASE d = c
      <4>1. \A i \in 1..Len(queue) : i # k => queue[i].resolve # c
        BY <2>2 DEF c
      <4> QED
        BY <3>1, <4>1, <2>1, <1>7
    <3>2. CASE d # c
      <4>1. p[d] = promise[d]
        BY <3>2, <1>7
      <4>2. ASSUME p[d] = "pending"
            PROVE  \E i \in 1..Len(q) : q[i].resolve = d
        <5>1. PICK i \in 1..Len(queue) : queue[i].resolve = d
          BY <4>1, <4>2, InvariantFacts DEF Matches
        <5>2. i # k
          BY <3>2, <5>1 DEF c
        <5>3. CASE i < k
          <6>1. i \in 1..Len(q) /\ q[i] = queue[i]
            BY <5>3, <1>2, <1>5
          <6> QED
            BY <6>1, <5>1
        <5>4. CASE i > k
          <6>1. i - 1 \in 1..Len(q) /\ q[i - 1] = queue[i]
            BY <5>4, <1>2, <1>5
          <6> QED
            BY <6>1, <5>1
        <5> QED
          BY <5>2, <5>3, <5>4, <1>2
      <4>3. ASSUME NEW i \in 1..Len(q), q[i].resolve = d
            PROVE  p[d] = "pending"
        <5>1. \E j \in 1..Len(queue) : queue[j].resolve = d
          BY <2>1, <4>3
        <5> QED
          BY <4>1, <5>1, InvariantFacts DEF Matches
      <4> QED
        BY <4>2, <4>3
    <3> QED
      BY <3>1, <3>2
  <2> QED
    BY <2>3, <2>4 DEF Matches
<1> HIDE DEF n
<1>9. /\ capacity' \in Int
      /\ capacity' = Limit - Cardinality(Holding(p)) - Len(q)
      /\ Len(q) > 0 => Cardinality(Holding(p)) >= Limit - 1
  <2>1. Len(queue) > 0 /\ Len(q) = Len(queue) - 1 /\ capacity' = capacity + 1
    BY <1>1, <1>2, <1>5
  <2>2. /\ n \in Nat /\ n >= Limit /\ capacity = Limit - n - Len(queue)
        /\ Limit \in Nat /\ Len(queue) \in Nat
    BY <1>2, <2>1
  <2> QED
    BY <1>6, <2>1, <2>2
<1>10. ResolveNext(q, p)
  BY <1>1 DEF p, q, c
<1> QED
  BY <1>4, <1>5, <1>8, <1>9, <1>10, ResolveNextRestores

-----------------------------------------------------------------------------

LEMMA InitEstablishes == Init => IInv
<1> SUFFICES ASSUME Init PROVE IInv
  OBVIOUS
<1>1. Holding(promise) = {} /\ Admitted = {}
  BY DEF Init, Holding, Admitted
<1>2. Cardinality(Admitted) = 0
  BY <1>1, FS_EmptySet
<1> QED
  BY <1>2, QueueAssumption
  DEF Init, IInv, TypeOK, PromiseState, QueueMatchesPromises,
      SlotsAccounted, WorkConserving

(* Types, the match of queue and promises, slot accounting and work        *)
(* conservation hold in every reachable state, removals included.          *)
THEOREM QueueInvariant == Spec => []IInv
<1>1. Init => IInv
  BY InitEstablishes
<1>2. IInv /\ [Next]_vars => IInv'
  <2> SUFFICES ASSUME IInv, [Next]_vars
               PROVE  IInv'
    OBVIOUS
  <2>1. ASSUME NEW c \in Caller, NEW id \in ExecutionId, Enqueue(c, id)
        PROVE  IInv'
    BY <2>1, EnqueuePreserves
  <2>2. ASSUME NEW c \in Caller, Dequeue(c)
        PROVE  IInv'
    BY <2>2, DequeuePreserves
  <2>3. ASSUME NEW id \in Stoppable, RemoveFromQueue(id)
        PROVE  IInv'
    BY <2>3, RemovePreserves, QueueAssumption
  <2>4. CASE UNCHANGED vars
    BY <2>4 DEF vars, IInv, TypeOK, QueueMatchesPromises, SlotsAccounted,
                WorkConserving, Admitted
  <2> QED
    BY <2>1, <2>2, <2>3, <2>4 DEF Next
<1> QED
  BY <1>1, <1>2, PTL DEF Spec

(* The four parts, under the names the runs check.                         *)
THEOREM TypeCorrect == Spec => []TypeOK
BY QueueInvariant, PTL DEF IInv

THEOREM SlotsAlwaysAccounted == Spec => []SlotsAccounted
BY QueueInvariant, PTL DEF IInv

THEOREM NobodyWaitsWhileASlotIsFree == Spec => []WorkConserving
BY QueueInvariant, PTL DEF IInv

(* What the operations do to the promises of others: dequeue lets one that *)
(* waits through at most, remove drops one besides.                        *)
LEMMA DequeueMoves ==
  ASSUME IInv, NEW c \in Caller, Dequeue(c)
  PROVE  /\ promise'[c] = "idle"
         /\ \A d \in Caller \ {c} :
              promise'[d] = promise[d] \/ (promise[d] = "pending" /\ promise'[d] = "resolved")
<1> DEFINE p == [promise EXCEPT ![c] = "idle"]
<1>1. promise[c] = "resolved" /\ ResolveNext(queue, p)
  BY DEF Dequeue
<1>0. promise \in [Caller -> PromiseState] /\ queue \in Seq(Item) /\ Len(queue) \in Nat
  BY InvariantFacts
<1>2. p \in [Caller -> PromiseState] /\ \A d \in Caller : p[d] = IF d = c THEN "idle" ELSE promise[d]
  BY <1>0 DEF PromiseState
<1> HIDE DEF p
<1>3. CASE queue = <<>>
  <2>1. promise' = p
    BY <1>1, <1>3 DEF ResolveNext
  <2> QED
    BY <2>1, <1>2
<1>4. CASE queue # <<>>
  <2>1. 1 \in 1..Len(queue) /\ Head(queue) = queue[1] /\ queue[1] \in Item
    BY <1>0, <1>4, ElementOfSeq
  <2>2. Head(queue).resolve \in Caller /\ promise[Head(queue).resolve] = "pending"
    BY <2>1, InvariantFacts DEF Matches, Item
  <2>3. promise' = [p EXCEPT ![Head(queue).resolve] = "resolved"]
    BY <1>1, <1>4 DEF ResolveNext
  <2>4. Head(queue).resolve # c
    BY <1>1, <2>2
  <2> HIDE DEF p
  <2> QED
    BY <1>2, <2>2, <2>3, <2>4
<1> QED
  BY <1>3, <1>4

LEMMA RemoveMoves ==
  ASSUME IInv, NEW id \in ExecutionId, RemoveFromQueue(id)
  PROVE  /\ \A d \in Caller :
              \/ promise'[d] = promise[d]
              \/ promise[d] = "pending" /\ promise'[d] \in {"resolved", "dropped"}
         /\ \E d \in Caller : promise'[d] = "dropped"
<1>1. PICK k \in 1..Len(queue) :
        ResolveNext(RemoveAt(queue, k), [promise EXCEPT ![queue[k].resolve] = "dropped"])
  BY DEF RemoveFromQueue
<1> DEFINE p == [promise EXCEPT ![queue[k].resolve] = "dropped"]
           q == RemoveAt(queue, k)
<1>0. promise \in [Caller -> PromiseState] /\ queue \in Seq(Item) /\ Len(queue) \in Nat
  BY InvariantFacts
<1>2. ASSUME NEW i \in 1..Len(queue)
      PROVE  queue[i].resolve \in Caller /\ promise[queue[i].resolve] = "pending"
  <2>1. queue[i] \in Item
    BY <1>0, ElementOfSeq
  <2>2. queue[i].resolve \in Caller
    BY <2>1 DEF Item
  <2> QED
    BY <2>2, InvariantFacts DEF Matches
<1>3. /\ q \in Seq(Item) /\ Len(q) = Len(queue) - 1
      /\ \A i \in 1..Len(q) : q[i] = IF i < k THEN queue[i] ELSE queue[i + 1]
  BY <1>0, RemoveAtSeq
<1>4. \A d \in Caller : p[d] = promise[d] \/ (promise[d] = "pending" /\ p[d] = "dropped")
  BY <1>0, <1>2
<1>5. p \in [Caller -> PromiseState] /\ p[queue[k].resolve] = "dropped"
  BY <1>0, <1>2 DEF PromiseState
<1>8. queue[k].resolve \in Caller
  BY <1>2
<1> HIDE DEF p, q
<1>6. CASE q = <<>>
  <2>1. promise' = p
    BY <1>1, <1>6 DEF ResolveNext, p, q
  <2> QED
    BY <2>1, <1>4, <1>5, <1>8
<1>7. CASE q # <<>>
  <2>1. 1 \in 1..Len(q) /\ Head(q) = q[1]
    BY <1>3, <1>7
  <2>2. \E i \in 1..Len(queue) : i # k /\ Head(q) = queue[i]
    BY <2>1, <1>0, <1>3
  <2>3. /\ Head(q).resolve \in Caller /\ promise[Head(q).resolve] = "pending"
        /\ Head(q).resolve # queue[k].resolve
    BY <2>2, <1>2, InvariantFacts DEF Matches
  <2>4. promise' = [p EXCEPT ![Head(q).resolve] = "resolved"]
    BY <1>1, <1>7 DEF ResolveNext, p, q
  <2> QED
    BY <1>4, <1>5, <1>8, <2>3, <2>4
<1> QED
  BY <1>6, <1>7

-----------------------------------------------------------------------------

(* Which call ResolveNext lets through: the head of the queue, no other.   *)
LEMMA OnlyHeadIsResolved ==
  ASSUME NEW q \in Seq(Item), NEW p \in [Caller -> PromiseState],
         Matches(q, p), ResolveNext(q, p)
  PROVE  \A d \in Caller :
           p[d] = "pending" /\ promise'[d] = "resolved" => q # <<>> /\ d = q[1].resolve
<1>1. CASE q = <<>>
  BY <1>1 DEF ResolveNext
<1>2. CASE q # <<>>
  <2>1. Head(q) = q[1]
    BY <1>2
  <2> QED
    BY <1>2, <2>1 DEF ResolveNext
<1> QED
  BY <1>1, <1>2

(* First come, first served: no step lets a call through, from the queue   *)
(* or as it arrives, while one queued before it stays queued, removals     *)
(* included.                                                               *)
THEOREM NobodyOvertakes == Spec => NoOvertaking
<1> DEFINE Fifo == \A c \in Caller, i \in 1..Len(queue) :
             promise[c] # "resolved" /\ promise'[c] = "resolved"
               /\ (\A j \in 1..i : queue[j].resolve # c)
                 => promise'[queue[i].resolve] # "pending"
<1>1. IInv /\ [Next]_vars => [Fifo]_vars
  <2> SUFFICES ASSUME IInv, Next, NEW c \in Caller, NEW i \in 1..Len(queue),
                      promise[c] # "resolved", promise'[c] = "resolved",
                      \A j \in 1..i : queue[j].resolve # c
               PROVE  promise'[queue[i].resolve] # "pending"
    BY DEF vars
  <2> DEFINE ci == queue[i].resolve
  <2>1. /\ queue \in Seq(Item) /\ Len(queue) \in Nat \ {0} /\ 1 \in 1..i
        /\ promise \in [Caller -> PromiseState] /\ Matches(queue, promise)
    BY InvariantFacts
  <2>2. ci \in Caller /\ promise[ci] = "pending" /\ queue[1].resolve # c
    <3>1. queue[i] \in Item
      BY <2>1, ElementOfSeq
    <3> QED
      BY <3>1, <2>1 DEF Item, Matches
  <2>3. ASSUME NEW e \in Caller, NEW id \in ExecutionId, Enqueue(e, id)
        PROVE  FALSE
    <3>1. capacity' < 0
      <4> DEFINE n == Cardinality(Admitted)
      <4>1. n \in Nat /\ n >= Limit /\ capacity = Limit - n - Len(queue) /\ Limit \in Nat
        BY <2>1, InvariantFacts
      <4>2. capacity' = capacity - 1
        BY <2>3 DEF Enqueue
      <4> HIDE DEF n
      <4> QED
        BY <2>1, <4>1, <4>2
    <3>2. promise' = [promise EXCEPT ![e] = "pending"]
      BY <2>3, <3>1 DEF Enqueue
    <3> QED
      BY <2>1, <3>2
  <2>4. ASSUME NEW e \in Caller, Dequeue(e)
        PROVE  FALSE
    <3> DEFINE p == [promise EXCEPT ![e] = "idle"]
    <3>1. promise[e] = "resolved" /\ ResolveNext(queue, p)
      BY <2>4 DEF Dequeue
    <3>2. p \in [Caller -> PromiseState]
      BY <2>1 DEF PromiseState
    <3>3. \A d \in Caller : p[d] = "pending" <=> promise[d] = "pending"
      BY <2>1, <3>1
    <3>4. Matches(queue, p)
      BY <2>1, <3>3 DEF Matches
    <3>5. promise[c] = "pending"
      BY <2>4, DequeueMoves
    <3> HIDE DEF p
    <3> QED
      BY <2>2, <3>1, <3>2, <3>3, <3>4, <3>5, <2>1, OnlyHeadIsResolved
  <2>5. ASSUME NEW id \in Stoppable, RemoveFromQueue(id)
        PROVE  promise'[ci] # "pending"
    <3>1. PICK k \in 1..Len(queue) :
            ResolveNext(RemoveAt(queue, k), [promise EXCEPT ![queue[k].resolve] = "dropped"])
      BY <2>5 DEF RemoveFromQueue
    <3> DEFINE e == queue[k].resolve
               p == [promise EXCEPT ![e] = "dropped"]
               q == RemoveAt(queue, k)
    <3>2. /\ q \in Seq(Item) /\ Len(q) = Len(queue) - 1
          /\ \A n \in 1..Len(q) : q[n] = IF n < k THEN queue[n] ELSE queue[n + 1]
      BY <2>1, RemoveAtSeq
    <3>3. /\ p \in [Caller -> PromiseState]
          /\ \A d \in Caller : p[d] = IF d = e THEN "dropped" ELSE promise[d]
      BY <2>1 DEF PromiseState
    <3>4. ResolveNext(q, p)
      BY <3>1
    <3>5. p[c] # "resolved"
      BY <3>3
    <3> HIDE DEF p, q
    <3>6. CASE q = <<>>
      BY <3>4, <3>5, <3>6 DEF ResolveNext
    <3>7. CASE q # <<>>
      <4>1. Head(q) = q[1] /\ 1 \in 1..Len(q)
        BY <3>2, <3>7
      <4>2. promise' = [p EXCEPT ![q[1].resolve] = "resolved"]
        BY <3>4, <3>7, <4>1 DEF ResolveNext
      <4>3. c = q[1].resolve
        BY <3>3, <3>5, <4>2
      <4>4. k = 1 /\ c = queue[2].resolve
        BY <2>2, <3>2, <4>1, <4>3
      <4>5. i = 1
        BY <2>1, <4>4
      <4>6. p[ci] = "dropped"
        BY <2>2, <3>3, <4>4, <4>5
      <4> QED
        BY <2>2, <3>3, <4>2, <4>3, <4>6
    <3> QED
      BY <3>6, <3>7
  <2> QED
    BY <2>3, <2>4, <2>5 DEF Next
<1>2. [][Fifo]_vars <=> NoOvertaking
  BY DEF NoOvertaking
<1> QED
  BY <1>1, <1>2, QueueInvariant, PTL DEF Spec

-----------------------------------------------------------------------------
(* With nothing to remove, the limit holds and the queue is a semaphore.   *)

(* How a step changes the number of slot holders when it is not a removal. *)
LEMMA HolderSteps ==
  ASSUME IInv, NEW c \in Caller
  PROVE  /\ \A id \in ExecutionId : Enqueue(c, id) =>
              \/ /\ capacity' < 0 /\ Admitted' = Admitted
                 /\ queue' = Append(queue, [executionId |-> id, resolve |-> c])
              \/ /\ capacity' >= 0 /\ c \notin Admitted
                 /\ Admitted' = Admitted \cup {c} /\ queue' = queue
         /\ Dequeue(c) =>
              /\ c \in Admitted
              /\ queue = <<>> => Admitted' = Admitted \ {c} /\ queue' = queue
              /\ queue # <<>> => /\ Admitted' = (Admitted \ {c}) \cup {queue[1].resolve}
                                 /\ queue' = Tail(queue)
                                 /\ queue[1].resolve \in Caller
                                 /\ queue[1].resolve \notin Admitted
<1>1. /\ queue \in Seq(Item) /\ capacity \in Int
      /\ promise \in [Caller -> PromiseState]
  BY InvariantFacts
<1>2. ASSUME NEW id \in ExecutionId, Enqueue(c, id)
      PROVE  \/ /\ capacity' < 0 /\ Admitted' = Admitted
                /\ queue' = Append(queue, [executionId |-> id, resolve |-> c])
             \/ /\ capacity' >= 0 /\ c \notin Admitted
                /\ Admitted' = Admitted \cup {c} /\ queue' = queue
  <2>1. promise[c] = "idle" /\ capacity' \in Int
    BY <1>1, <1>2 DEF Enqueue
  <2>2. CASE capacity' < 0
    BY <1>1, <1>2, <2>1, <2>2 DEF Enqueue, Admitted
  <2>3. CASE capacity' >= 0
    BY <1>1, <1>2, <2>1, <2>3 DEF Enqueue, Admitted
  <2> QED
    BY <2>1, <2>2, <2>3
<1>3. ASSUME Dequeue(c), queue = <<>>
      PROVE  c \in Admitted /\ Admitted' = Admitted \ {c} /\ queue' = queue
  BY <1>1, <1>3 DEF Dequeue, ResolveNext, Admitted
<1>4. ASSUME Dequeue(c), queue # <<>>
      PROVE  /\ c \in Admitted
             /\ Admitted' = (Admitted \ {c}) \cup {queue[1].resolve}
             /\ queue' = Tail(queue)
             /\ queue[1].resolve \in Caller
             /\ queue[1].resolve \notin Admitted
  <2>1. Len(queue) > 0 /\ Head(queue) = queue[1] /\ queue[1] \in Item
    BY <1>1, <1>4, EmptySeq, ElementOfSeq
  <2> DEFINE d == queue[1].resolve
  <2>2. d \in Caller /\ promise[d] = "pending"
    <3>1. d \in Caller
      BY <2>1 DEF Item
    <3> QED
      BY <2>1, <3>1, InvariantFacts DEF Matches
  <2>3. /\ promise[c] = "resolved" /\ queue' = Tail(queue)
        /\ promise' = [[promise EXCEPT ![c] = "idle"] EXCEPT ![d] = "resolved"]
    BY <1>4, <2>1 DEF Dequeue, ResolveNext
  <2> HIDE DEF d
  <2>4. \A x \in Caller : promise'[x] =
          IF x = d THEN "resolved" ELSE IF x = c THEN "idle" ELSE promise[x]
    BY <1>1, <2>3
  <2>5. c # d
    BY <2>2, <2>3
  <2>6. Admitted' = (Admitted \ {c}) \cup {d}
    <3>1. \A x : x \in Admitted' <=> x \in Caller /\ promise'[x] = "resolved"
      BY DEF Admitted
    <3>2. \A x : x \in Admitted <=> x \in Caller /\ promise[x] = "resolved"
      BY DEF Admitted
    <3>3. \A x : x \in Admitted' <=> x = d \/ (x \in Admitted /\ x # c)
      BY <2>2, <2>4, <3>1, <3>2
    <3> QED
      BY <3>3
  <2> QED
    BY <2>2, <2>3, <2>6 DEF Admitted, d
<1> QED
  BY <1>2, <1>3, <1>4

(* Who has been removed stays so, and remove removes somebody.             *)
LEMMA RemovedStays ==
  ASSUME IInv, [Next]_vars, NothingRemoved'
  PROVE  /\ NothingRemoved
         /\ \/ \E c \in Caller, id \in ExecutionId : Enqueue(c, id)
            \/ \E c \in Caller : Dequeue(c)
            \/ UNCHANGED vars
<1>1. ASSUME NEW c \in Caller, NEW id \in ExecutionId, Enqueue(c, id)
      PROVE  NothingRemoved
  <2>1. \A d \in Caller \ {c} : promise'[d] = promise[d]
    BY <1>1, InvariantFacts DEF Enqueue
  <2> QED
    BY <1>1, <2>1 DEF NothingRemoved, Enqueue
<1>2. ASSUME NEW c \in Caller, Dequeue(c)
      PROVE  NothingRemoved
  <2>1. promise[c] = "resolved"
    BY <1>2 DEF Dequeue
  <2> QED
    BY <1>2, <2>1, DequeueMoves DEF NothingRemoved
<1>3. ASSUME NEW id \in Stoppable, RemoveFromQueue(id)
      PROVE  FALSE
  BY <1>3, RemoveMoves, QueueAssumption DEF NothingRemoved, QueueAssumption
<1>4. CASE UNCHANGED vars
  BY <1>4 DEF vars, NothingRemoved
<1> QED
  BY <1>1, <1>2, <1>3, <1>4 DEF Next

(* The configured limit holds until a call is removed.                     *)
LEMMA LimitInductive ==
  ASSUME IInv, LimitRespected, [Next]_vars
  PROVE  LimitRespected'
<1> SUFFICES ASSUME NothingRemoved' PROVE Cardinality(Admitted') <= Limit
  BY DEF LimitRespected
<1>0. NothingRemoved
  BY RemovedStays
<1>1. /\ Cardinality(Admitted) \in Nat /\ Limit \in Nat /\ Len(queue) \in Nat
      /\ capacity \in Int
      /\ capacity = Limit - Cardinality(Admitted) - Len(queue)
      /\ IsFiniteSet(Admitted)
  BY InvariantFacts, HoldingFinite
<1>2. ASSUME NEW c \in Caller, NEW id \in ExecutionId, Enqueue(c, id)
      PROVE  Cardinality(Admitted') <= Limit
  <2>1. CASE capacity' < 0 /\ Admitted' = Admitted
    BY <1>0, <2>1 DEF LimitRespected
  <2>2. CASE capacity' >= 0 /\ c \notin Admitted /\ Admitted' = Admitted \cup {c}
    <3>1. Cardinality(Admitted') = Cardinality(Admitted) + 1
      BY <1>1, <2>2, FS_AddElement
    <3>2. capacity' = capacity - 1
      BY <1>2 DEF Enqueue
    <3> QED
      BY <1>0, <1>1, <2>2, <3>1, <3>2 DEF LimitRespected
  <2> QED
    BY <1>2, <2>1, <2>2, HolderSteps
<1>3. ASSUME NEW c \in Caller, Dequeue(c)
      PROVE  Cardinality(Admitted') <= Limit
  <2>1. c \in Admitted /\ Cardinality(Admitted \ {c}) = Cardinality(Admitted) - 1
        /\ IsFiniteSet(Admitted \ {c})
    BY <1>1, <1>3, HolderSteps, FS_RemoveElement
  <2>2. CASE queue = <<>>
    <3>1. Admitted' = Admitted \ {c}
      BY <1>3, <2>2, HolderSteps
    <3> QED
      BY <1>0, <1>1, <2>1, <3>1 DEF LimitRespected
  <2>3. CASE queue # <<>>
    <3> DEFINE d == queue[1].resolve
    <3>1. d \notin Admitted /\ Admitted' = (Admitted \ {c}) \cup {d}
      BY <1>3, <2>3, HolderSteps
    <3>2. Cardinality(Admitted') = Cardinality(Admitted \ {c}) + 1
      BY <2>1, <3>1, FS_AddElement
    <3> QED
      BY <1>0, <1>1, <2>1, <3>2 DEF LimitRespected
  <2> QED
    BY <2>2, <2>3
<1>4. CASE UNCHANGED vars
  BY <1>0, <1>4 DEF vars, LimitRespected, Admitted
<1> QED
  BY <1>2, <1>3, <1>4, RemovedStays

(* The configured limit holds until the first call is removed: it is       *)
(* `remove` alone that exceeds it.                                         *)
THEOREM LimitHoldsWithoutRemovals == Spec => []LimitRespected
<1>1. Init => LimitRespected
  <2> SUFFICES ASSUME Init PROVE LimitRespected
    OBVIOUS
  <2>1. Admitted = {}
    BY DEF Init, Admitted
  <2> QED
    BY <2>1, FS_EmptySet, QueueAssumption DEF LimitRespected
<1>2. IInv /\ LimitRespected /\ [Next]_vars => LimitRespected'
  BY LimitInductive
<1> QED
  BY <1>1, <1>2, QueueInvariant, PTL DEF Spec

(* The semaphore counts with its own instance of FiniteSets.               *)
LEMMA SameCardinality == \A S : Abstract!Cardinality(S) = Cardinality(S)
BY DEF Cardinality, Abstract!Cardinality

(* Until the first call is removed, every step of the queue is a step of   *)
(* the FIFO counting semaphore, or leaves it as it is.                     *)
THEOREM QueueImplementsSemaphore == Spec => ImplementsSemaphore
<1>1. Init => Abstract!Init
  BY DEF Init, Abstract!Init, Admitted, Line
<1>2. IInv /\ LimitRespected /\ [Next]_vars
        => [NothingRemoved' => Abstract!Next]_<<Admitted, Line>>
  <2> DEFINE resolveOf(q) == [i \in 1..Len(q) |-> q[i].resolve]
  <2> SUFFICES ASSUME IInv, LimitRespected, [Next]_vars, NothingRemoved'
               PROVE  Abstract!Next \/ UNCHANGED <<Admitted, Line>>
    OBVIOUS
  <2>0. NothingRemoved /\ Line = resolveOf(queue) /\ Line' = resolveOf(queue)'
    BY RemovedStays DEF Line
  <2>1. /\ queue \in Seq(Item) /\ Len(queue) \in Nat /\ capacity \in Int
        /\ Cardinality(Admitted) \in Nat /\ Limit \in Nat
        /\ capacity = Limit - Cardinality(Admitted) - Len(queue)
        /\ Len(queue) > 0 => Cardinality(Admitted) >= Limit
        /\ Matches(queue, promise)
    BY InvariantFacts
  <2>2. Cardinality(Admitted) <= Limit
    BY <2>0 DEF LimitRespected
  <2>3. ASSUME NEW c \in Caller, NEW id \in ExecutionId, Enqueue(c, id)
        PROVE  Abstract!Next
    <3>1. c \notin Admitted /\ \A i \in 1..Len(resolveOf(queue)) : resolveOf(queue)[i] # c
      <4>1. promise[c] = "idle"
        BY <2>3 DEF Enqueue
      <4>2. \A i \in 1..Len(queue) : queue[i].resolve # c
        BY <4>1, <2>1 DEF Matches
      <4> QED
        BY <4>1, <4>2, <2>1 DEF Admitted
    <3>2. capacity' = capacity - 1
      BY <2>3 DEF Enqueue
    <3>3. CASE capacity' < 0 /\ Admitted' = Admitted
               /\ queue' = Append(queue, [executionId |-> id, resolve |-> c])
      <4>1. Cardinality(Admitted) = Limit
        BY <2>1, <2>2, <3>2, <3>3
      <4>2. resolveOf(queue)' = Append(resolveOf(queue), c)
        BY <2>1, <3>3
      <4>3. Abstract!Wait(c)
        BY <2>0, <3>1, <3>3, <4>1, <4>2, SameCardinality DEF Abstract!Wait, Abstract!InLine
      <4> QED
        BY <4>3 DEF Abstract!Next
    <3>4. CASE capacity' >= 0 /\ Admitted' = Admitted \cup {c} /\ queue' = queue
      <4>1. Cardinality(Admitted) < Limit /\ Len(queue) = 0
        BY <2>1, <2>2, <3>2, <3>4
      <4>2. resolveOf(queue) = <<>> /\ resolveOf(queue)' = resolveOf(queue)
        BY <3>4, <4>1
      <4>3. Abstract!Acquire(c)
        BY <2>0, <3>1, <3>4, <4>1, <4>2, SameCardinality DEF Abstract!Acquire, Abstract!InLine
      <4> QED
        BY <4>3 DEF Abstract!Next
    <3> QED
      BY <2>3, <3>3, <3>4, HolderSteps
  <2>4. ASSUME NEW c \in Caller, Dequeue(c)
        PROVE  Abstract!Next
    <3>1. c \in Admitted
      BY <2>4, HolderSteps
    <3>2. CASE queue = <<>>
      <4>1. Admitted' = Admitted \ {c} /\ queue' = queue /\ resolveOf(queue) = <<>>
        BY <2>4, <3>2, HolderSteps
      <4>2. Abstract!Release(c)
        BY <2>0, <3>1, <4>1 DEF Abstract!Release
      <4> QED
        BY <4>2 DEF Abstract!Next
    <3>3. CASE queue # <<>>
      <4>1. /\ Admitted' = (Admitted \ {c}) \cup {queue[1].resolve}
            /\ queue' = Tail(queue)
        BY <2>4, <3>3, HolderSteps
      <4>2. Len(queue) > 0
        BY <2>1, <3>3
      <4>3. /\ resolveOf(queue) # <<>>
            /\ Head(resolveOf(queue)) = queue[1].resolve
        BY <2>1, <4>2
      <4>4. resolveOf(queue)' = Tail(resolveOf(queue))
        BY <2>1, <4>1, <4>2
      <4>5. Abstract!Release(c)
        BY <2>0, <3>1, <4>1, <4>3, <4>4 DEF Abstract!Release
      <4> QED
        BY <4>5 DEF Abstract!Next
    <3> QED
      BY <3>2, <3>3
  <2>5. CASE UNCHANGED vars
    BY <2>5 DEF vars, Admitted, Line
  <2> QED
    BY <2>3, <2>4, <2>5, RemovedStays
<1> QED
  BY <1>1, <1>2, QueueInvariant, LimitHoldsWithoutRemovals, PTL
  DEF Spec, ImplementsSemaphore
=============================================================================
