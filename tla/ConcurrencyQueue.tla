-------------------------- MODULE ConcurrencyQueue --------------------------
(***************************************************************************)
(* packages/cli/src/concurrency/concurrency-queue.ts: the queue that makes *)
(* production executions wait for a free slot.                             *)
(*                                                                         *)
(* A Caller is one call of `enqueue`, that is one promise. The execution   *)
(* id is a separate thing: an execution that is resumed twice is enqueued  *)
(* twice, under the same id.                                               *)
(***************************************************************************)
EXTENDS Integers, Sequences, FiniteSets, SequencesExt

CONSTANTS
  Caller,       \* the calls of enqueue
  ExecutionId,  \* the ids they pass
  Stoppable,    \* the ids that may be taken out of the queue (`remove`)
  Limit         \* the constructor's `capacity`

ASSUME QueueAssumption ==
  /\ IsFiniteSet(Caller)
  /\ Stoppable \subseteq ExecutionId
  /\ Limit \in Nat \ {0}

VARIABLES
  queue,     \* `queue`: the throttled calls, oldest first
  capacity,  \* `capacity`: below zero while calls are throttled
  promise    \* the promise each call of enqueue returned

vars == <<queue, capacity, promise>>

Item == [executionId : ExecutionId, resolve : Caller]

(* "idle": not called, or done and released; "pending": queued; "resolved":*)
(* let through and holding a slot; "dropped": removed from the queue, its  *)
(* promise never settles.                                                  *)
PromiseState == {"idle", "pending", "resolved", "dropped"}

Init ==
  /\ queue = <<>>
  /\ capacity = Limit
  /\ promise = [c \in Caller |-> "idle"]

(* Mutant of ResolveNext: the newest call goes first (pop for shift).      *)
ResolveNewest(q, p) ==
  IF q = <<>>
  THEN queue' = q /\ promise' = p
  ELSE /\ queue' = SubSeq(q, 1, Len(q) - 1)
       /\ promise' = [p EXCEPT ![q[Len(q)].resolve] = "resolved"]

(* `resolveNext`, for the queue q and the promises p its caller left.      *)
ResolveNext(q, p) ==
  IF q = <<>>
  THEN queue' = q /\ promise' = p
  ELSE /\ queue' = Tail(q)
       /\ promise' = [p EXCEPT ![Head(q).resolve] = "resolved"]

(* The position `findIndex` returns, when there is one.                    *)
IsIndexOf(i, id) ==
  /\ queue[i].executionId = id
  /\ \A j \in 1..(i - 1) : queue[j].executionId # id

(* `has`                                                                   *)
Has(id) == \E i \in 1..Len(queue) : queue[i].executionId = id

(* Mutant of Enqueue: one call too many is let through.                    *)
EnqueueOffByOne(c, id) ==
  /\ promise[c] = "idle"
  /\ capacity' = capacity - 1
  /\ IF capacity' < -1
     THEN /\ queue' = Append(queue, [executionId |-> id, resolve |-> c])
          /\ promise' = [promise EXCEPT ![c] = "pending"]
     ELSE UNCHANGED queue /\ promise' = [promise EXCEPT ![c] = "resolved"]

Enqueue(c, id) ==
  /\ promise[c] = "idle"
  /\ capacity' = capacity - 1
  /\ IF capacity' < 0
     THEN /\ queue' = Append(queue, [executionId |-> id, resolve |-> c])
          /\ promise' = [promise EXCEPT ![c] = "pending"]
     ELSE /\ queue' = queue
          /\ promise' = [promise EXCEPT ![c] = "resolved"]

(* Mutant of Dequeue: nobody is let through.                               *)
DequeueSilently(c) ==
  /\ promise[c] = "resolved"
  /\ capacity' = capacity + 1
  /\ promise' = [promise EXCEPT ![c] = "idle"]
  /\ UNCHANGED queue

(* Called by `release`, once by each call that was let through.            *)
Dequeue(c) ==
  /\ promise[c] = "resolved"
  /\ capacity' = capacity + 1
  /\ ResolveNext(queue, [promise EXCEPT ![c] = "idle"])

(* Mutant of RemoveFromQueue: the slot is not given back.                  *)
RemoveKeepingSlot(id) ==
  \E i \in 1..Len(queue) :
    /\ IsIndexOf(i, id)
    /\ UNCHANGED capacity
    /\ ResolveNext(RemoveAt(queue, i),
                   [promise EXCEPT ![queue[i].resolve] = "dropped"])

(* `remove` gives one slot back and then also lets the next call through.  *)
RemoveFromQueue(id) ==
  \E i \in 1..Len(queue) :
    /\ IsIndexOf(i, id)
    /\ capacity' = capacity + 1
    /\ ResolveNext(RemoveAt(queue, i),
                   [promise EXCEPT ![queue[i].resolve] = "dropped"])

Next ==
  \/ \E c \in Caller, id \in ExecutionId : Enqueue(c, id)
  \/ \E c \in Caller : Dequeue(c)
  \/ \E id \in Stoppable : RemoveFromQueue(id)

Spec == Init /\ [][Next]_vars

(* Every execution that was let through ends, in every outcome.            *)
FairSpec == Spec /\ \A c \in Caller : WF_vars(Dequeue(c))

-----------------------------------------------------------------------------

Admitted == {c \in Caller : promise[c] = "resolved"}

TypeOK ==
  /\ queue \in Seq(Item)
  /\ capacity \in Int
  /\ promise \in [Caller -> PromiseState]

(* The queue holds each pending call once, and no other.                   *)
QueueMatchesPromises ==
  /\ \A i, j \in 1..Len(queue) : queue[i].resolve = queue[j].resolve => i = j
  /\ \A c \in Caller :
       promise[c] = "pending" <=> \E i \in 1..Len(queue) : queue[i].resolve = c

(* No slot is lost or made up: `capacity` is the limit less the executions *)
(* that hold a slot and those that wait for one, whatever was enqueued,    *)
(* dequeued or removed.                                                    *)
SlotsAccounted == capacity = Limit - Cardinality(Admitted) - Len(queue)

(* Nobody waits while a slot is free.                                      *)
WorkConserving == Len(queue) > 0 => Cardinality(Admitted) >= Limit

NothingRemoved == \A c \in Caller : promise[c] # "dropped"

(* executions.config.ts:19, "Max production executions allowed to run      *)
(* concurrently": what productionLimit promises, and what holds until the  *)
(* first call is removed from the queue.                                   *)
LimitRespected == NothingRemoved => Cardinality(Admitted) <= Limit

(* A call is let through only when no call that waits on was queued before *)
(* it: neither a newcomer, which enqueue may let through at once, nor one  *)
(* in the queue overtakes, whatever is taken out of it.                    *)
NoOvertaking ==
  [][\A c \in Caller, i \in 1..Len(queue) :
        promise[c] # "resolved" /\ promise'[c] = "resolved"
          /\ (\A j \in 1..i : queue[j].resolve # c)
            => promise'[queue[i].resolve] # "pending"]_vars

(* A throttled execution is let through in the end, or taken out.          *)
ThrottledIsServed == \A c \in Caller : promise[c] = "pending" ~> promise[c] # "pending"

-----------------------------------------------------------------------------
(* What the queue is for: a counting semaphore with a FIFO line.           *)
Line == [i \in 1..Len(queue) |-> queue[i].resolve]

Abstract == INSTANCE Semaphore WITH
  Permits <- Limit,
  holders <- Admitted,
  line <- Line

(* Until the first call is removed, the queue implements the semaphore:    *)
(* every step of enqueue and dequeue is one of it.                         *)
ImplementsSemaphore ==
  Abstract!Init /\ [][NothingRemoved' => Abstract!Next]_<<Admitted, Line>>
=============================================================================
