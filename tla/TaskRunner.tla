----------------------------- MODULE TaskRunner -----------------------------
(***************************************************************************)
(* packages/@n8n/task-runner/src/task-runner.ts and task-state.ts: runner  *)
(* processes, each joined to the broker by a WebSocket.                    *)
(*                                                                         *)
(* An offer that is accepted becomes a task. One acceptance makes one task *)
(* id, so a task is named by its offer: a pair of its runner and a number. *)
(* nanoid never gives an id twice; here an id is used again once nothing   *)
(* refers to it.                                                           *)
(***************************************************************************)
EXTENDS Integers, Sequences, FiniteSets, SequencesExt

CONSTANTS
  Runner,         \* runner processes; one that restarts gets a new id
  Request,        \* task requests
  None,
  MaxConcurrency, \* N8N_RUNNERS_MAX_CONCURRENCY
  Ids             \* bound on the offers of a runner that are about at once

ASSUME RunnerAssumption ==
  /\ IsFiniteSet(Runner) /\ IsFiniteSet(Request) /\ None \notin Request
  /\ MaxConcurrency \in Nat \ {0}
  /\ Ids \in Nat /\ Ids >= MaxConcurrency

Offer == Runner \X (1..Ids)
OffersOf(r) == {o \in Offer : o[1] = r}

VARIABLES
  process,       \* the runner's process: connected, alive without connection, or gone
  canSendOffers,
  openOffers,    \* the offers the runner holds open
  status,        \* runningTasks: the status of each task, "none" without
  executes,      \* the request whose code the task executes
  toRunner,      \* messages on their way to the runner, oldest first
  toBroker       \* messages on their way to the broker

runnerVars == <<process, canSendOffers, openOffers, status, executes, toRunner, toBroker>>

TaskStatus == {"waitingForSettings", "running", "aborting:cancelled", "aborting:timeout"}

RunnerMessage == [type : {"taskoffer", "taskaccepted", "taskrejected", "taskdone", "taskerror"},
                  offer : Offer]
BrokerMessage == [type : {"runnerregistered"}]
  \cup [type : {"taskofferaccept", "taskcancel"}, offer : Offer]
  \cup [type : {"tasksettings"}, offer : Offer, request : Request]

RunnerTypeOK ==
  /\ process \in [Runner -> {"starting", "connected", "closed", "gone"}]
  /\ canSendOffers \in [Runner -> BOOLEAN]
  /\ openOffers \in SUBSET Offer
  /\ status \in [Offer -> TaskStatus \cup {"none"}]
  /\ executes \in [Offer -> Request \cup {None}]
  /\ toRunner \in [Runner -> Seq(BrokerMessage)]
  /\ toBroker \in [Runner -> Seq(RunnerMessage)]

RunnerInit ==
  /\ process = [r \in Runner |-> "starting"]
  /\ canSendOffers = [r \in Runner |-> FALSE]
  /\ openOffers = {}
  /\ status = [o \in Offer |-> "none"]
  /\ executes = [o \in Offer |-> None]
  /\ toRunner = [r \in Runner |-> <<>>]
  /\ toBroker = [r \in Runner |-> <<>>]

-----------------------------------------------------------------------------

Message(type, o) == [type |-> type, offer |-> o]

(* The next message for runner r is one of this type.                      *)
Receives(r, type) == toRunner[r] # <<>> /\ Head(toRunner[r]).type = type
Consume(r) == toRunner' = [toRunner EXCEPT ![r] = Tail(@)]

(* Runner r sends the messages: what is sent on a closed socket is lost.   *)
Send(r, messages) ==
  toBroker' = IF process[r] = "connected" THEN [toBroker EXCEPT ![r] = @ \o messages] ELSE toBroker

RunningTasks(r, st) == {o \in OffersOf(r) : st[o] # "none"}

HasOpenTaskSlots(r) == Cardinality(RunningTasks(r, status)) < MaxConcurrency

(* Mutant of OffersToSend: the running tasks are not counted.              *)
OffersWhileRunning(r, open, st) == MaxConcurrency - Cardinality(open \cap OffersOf(r))

(* How many offers sendOffers makes.                                       *)
OffersToSend(r, open, st) ==
  MaxConcurrency - Cardinality(open \cap OffersOf(r)) - Cardinality(RunningTasks(r, st))

(* sendOffers, after a caller that leaves the tasks `st` and has sent      *)
(* `messages`: stale offers are deleted, whenever their time is over, and  *)
(* new ones fill the free slots (as many as there are ids).                *)
OfferSlots(r, st, messages, taken) ==
  \E stale \in SUBSET (openOffers \cap OffersOf(r)) :
    LET kept  == openOffers \ stale
        fresh == {o \in OffersOf(r) : o \notin openOffers \cup taken /\ status[o] = "none"}
        new   == {o \in fresh : canSendOffers[r]
                    /\ Cardinality({p \in fresh : p[2] < o[2]}) < OffersToSend(r, kept, st)}
        sent  == SetToSeq(new) IN
    /\ openOffers' = kept \cup new
    /\ status' = st
    /\ Send(r, messages \o [i \in 1..Len(sent) |-> Message("taskoffer", sent[i])])

(* finishTask                                                              *)
FinishTask(r, o, messages, taken) ==
  /\ OfferSlots(r, [status EXCEPT ![o] = "none"], messages, taken)
  /\ executes' = [executes EXCEPT ![o] = None]

-----------------------------------------------------------------------------
(* Messages of the broker                                                  *)

(* startTaskOffers; the offers themselves come with the interval.          *)
RunnerRegistered(r) ==
  /\ Receives(r, "runnerregistered") /\ Consume(r)
  /\ canSendOffers' = [canSendOffers EXCEPT ![r] = TRUE]
  /\ UNCHANGED <<process, openOffers, status, executes, toBroker>>

(* The interval of startTaskOffers                                         *)
SendOffers(r, taken) ==
  /\ process[r] = "connected" /\ canSendOffers[r]
  /\ OfferSlots(r, status, <<>>, taken)
  /\ UNCHANGED <<process, canSendOffers, executes, toRunner>>

(* offerAccepted: no slot is open, or the offer is not open any more, or   *)
(* it becomes a task that waits for its settings.                          *)
OfferAccepted(r) ==
  LET o == Head(toRunner[r]).offer
      accepts == HasOpenTaskSlots(r) /\ o \in openOffers IN
  /\ Receives(r, "taskofferaccept") /\ Consume(r)
  /\ openOffers' = openOffers \ {o}
  /\ status' = IF accepts THEN [status EXCEPT ![o] = "waitingForSettings"] ELSE status
  /\ Send(r, <<Message(IF accepts THEN "taskaccepted" ELSE "taskrejected", o)>>)
  /\ UNCHANGED <<process, canSendOffers, executes>>

(* receivedSettings: a task that waits for them executes.                  *)
ReceivedSettings(r) ==
  LET m == Head(toRunner[r])
      waits == status[m.offer] = "waitingForSettings" IN
  /\ Receives(r, "tasksettings") /\ Consume(r)
  /\ status' = IF waits THEN [status EXCEPT ![m.offer] = "running"] ELSE status
  /\ executes' = IF waits THEN [executes EXCEPT ![m.offer] = m.request] ELSE executes
  /\ UNCHANGED <<process, canSendOffers, openOffers, toBroker>>

(* taskCancelled                                                           *)
TaskCancelled(r, taken) ==
  LET o == Head(toRunner[r]).offer IN
  /\ Receives(r, "taskcancel") /\ Consume(r)
  /\ CASE status[o] = "waitingForSettings" -> FinishTask(r, o, <<>>, taken)
       [] status[o] = "running" ->
            /\ status' = [status EXCEPT ![o] = "aborting:cancelled"]
            /\ UNCHANGED <<openOffers, executes, toBroker>>
       [] OTHER -> UNCHANGED <<status, openOffers, executes, toBroker>>
  /\ UNCHANGED <<process, canSendOffers>>

-----------------------------------------------------------------------------
(* The runner's own events                                                 *)

(* Mutant of TaskTimedOut: a task that waits is aborted, too.              *)
TaskTimedOutAborting(r, o, taken) ==
  /\ o \in OffersOf(r) /\ status[o] \in {"waitingForSettings", "running"}
  /\ status' = [status EXCEPT ![o] = "aborting:timeout"]
  /\ UNCHANGED <<process, canSendOffers, openOffers, executes, toRunner, toBroker>>

(* Mutant of TaskTimedOut: a task that waits does not report its end.      *)
TaskTimedOutSilently(r, o, taken) ==
  /\ status[o] = "waitingForSettings" /\ o \in OffersOf(r)
  /\ FinishTask(r, o, <<>>, taken)
  /\ UNCHANGED <<process, canSendOffers, toRunner>>

(* taskTimedOut: the timer of a TaskState fires.                           *)
TaskTimedOut(r, o, taken) ==
  /\ o \in OffersOf(r)
  /\ \/ /\ status[o] = "waitingForSettings"
        /\ FinishTask(r, o, <<Message("taskerror", o)>>, taken)
     \/ /\ status[o] = "running"
        /\ status' = [status EXCEPT ![o] = "aborting:timeout"]
        /\ UNCHANGED <<openOffers, executes, toBroker>>
  /\ UNCHANGED <<process, canSendOffers, toRunner>>

(* taskExecutionSucceeded, taskExecutionFailed: a cancelled task sends     *)
(* nothing.                                                                *)
TaskExecuted(r, o, type, taken) ==
  /\ o \in OffersOf(r) /\ status[o] \notin {"none", "waitingForSettings"}
  /\ type \in {"taskdone", "taskerror"}
  /\ FinishTask(r, o, IF status[o] = "aborting:cancelled" THEN <<>> ELSE <<Message(type, o)>>, taken)
  /\ UNCHANGED <<process, canSendOffers, toRunner>>

(* stop: no more offers; the open ones can still be accepted.              *)
StopTaskOffers(r) ==
  /\ process[r] = "connected" /\ canSendOffers[r]
  /\ canSendOffers' = [canSendOffers EXCEPT ![r] = FALSE]
  /\ UNCHANGED <<process, openOffers, status, executes, toRunner, toBroker>>

(* The connection breaks: its `close` handler stops the offers and nothing *)
(* else, so tasks and open offers stay and code runs on. What was on its   *)
(* way to the runner is lost; of what it has sent, a part arrives.         *)
ConnectionCloses(r) ==
  /\ process[r] = "connected"
  /\ process' = [process EXCEPT ![r] = "closed"]
  /\ canSendOffers' = [canSendOffers EXCEPT ![r] = FALSE]
  /\ toRunner' = [toRunner EXCEPT ![r] = <<>>]
  /\ \E n \in 0..Len(toBroker[r]) : toBroker' = [toBroker EXCEPT ![r] = SubSeq(@, 1, n)]
  /\ UNCHANGED <<openOffers, status, executes>>

(* The process ends: a crash, a kill, the end of `stop`.                   *)
ProcessEnds(r) ==
  /\ process[r] \in {"connected", "closed"}
  /\ process' = [process EXCEPT ![r] = "gone"]
  /\ canSendOffers' = [canSendOffers EXCEPT ![r] = FALSE]
  /\ openOffers' = openOffers \ OffersOf(r)
  /\ status' = [o \in Offer |-> IF o[1] = r THEN "none" ELSE status[o]]
  /\ executes' = [o \in Offer |-> IF o[1] = r THEN None ELSE executes[o]]
  /\ toRunner' = [toRunner EXCEPT ![r] = <<>>]
  /\ \E n \in 0..Len(toBroker[r]) : toBroker' = [toBroker EXCEPT ![r] = SubSeq(@, 1, n)]

-----------------------------------------------------------------------------

(* An open offer is always good for a slot: what the runner offers and     *)
(* what it runs never exceed its capacity together.                        *)
OffersFitCapacity ==
  \A r \in Runner :
    Cardinality(openOffers \cap OffersOf(r)) + Cardinality(RunningTasks(r, status)) <= MaxConcurrency

(* task-runner.ts:374, "These states should never happen": settings that   *)
(* reach a task find it waiting for them.                                  *)
SettingsFindTaskWaiting ==
  \A r \in Runner :
    Receives(r, "tasksettings") => status[Head(toRunner[r]).offer] \in {"waitingForSettings", "none"}
=============================================================================
