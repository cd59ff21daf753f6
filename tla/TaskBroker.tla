----------------------------- MODULE TaskBroker -----------------------------
(***************************************************************************)
(* packages/cli/src/task-runners: the task broker and the requester of the *)
(* main process (task-managers), composed with the runners.                *)
(*                                                                         *)
(* Requester and broker call each other in one process, with nothing but   *)
(* microtasks in between: from taskready to the settings is one step. The  *)
(* broker and a runner exchange messages. There is one task type.          *)
(***************************************************************************)
EXTENDS TaskRunner

CONSTANT External  \* whether N8N_RUNNERS_MODE is "external"

ASSUME ExternalAssumption == External \in BOOLEAN

VARIABLES
  knownRunners,
  pendingTaskOffers,
  pendingTaskRequests,
  acceptInProgress,  \* the requests with that flag
  requestTimer,      \* the requests with a timeout
  accepting,         \* for each offer, the request that acceptOffer wants it for
  tasks,             \* for each task, its request
  taskTimer,         \* the tasks with a timeout
  outcome,           \* for each request, how far startTask is
  taskOf             \* for each request, the task startTask waits for

brokerVars == <<knownRunners, pendingTaskOffers, pendingTaskRequests, acceptInProgress,
                requestTimer, accepting, tasks, taskTimer>>
requesterVars == <<outcome, taskOf>>
vars == <<runnerVars, brokerVars, requesterVars>>

Settled == {"done", "error", "expired", "cancelled"}

(* Every variable has a value of its kind.                                 *)
TypeOK ==
  /\ RunnerTypeOK
  /\ knownRunners \in SUBSET Runner
  /\ pendingTaskOffers \in Seq(Offer)
  /\ pendingTaskRequests \in Seq(Request)
  /\ acceptInProgress \in SUBSET Request
  /\ requestTimer \in SUBSET Request
  /\ accepting \in [Offer -> Request \cup {None}]
  /\ tasks \in [Offer -> Request \cup {None}]
  /\ taskTimer \in SUBSET Offer
  /\ outcome \in [Request -> {"idle", "requested", "running"} \cup Settled]
  /\ taskOf \in [Request -> Offer \cup {None}]

Init ==
  /\ RunnerInit
  /\ knownRunners = {}
  /\ pendingTaskOffers = <<>> /\ pendingTaskRequests = <<>>
  /\ acceptInProgress = {} /\ requestTimer = {}
  /\ accepting = [o \in Offer |-> None]
  /\ tasks = [o \in Offer |-> None] /\ taskTimer = {}
  /\ outcome = [q \in Request |-> "idle"]
  /\ taskOf = [q \in Request |-> None]

-----------------------------------------------------------------------------

(* The offers, by id, that something refers to.                            *)
Taken ==
  {o \in Offer :
     \/ accepting[o] # None \/ tasks[o] # None \/ o \in ToSet(pendingTaskOffers)
     \/ \E m \in ToSet(toBroker[o[1]]) : m.offer = o
     \/ \E m \in ToSet(toRunner[o[1]]) : m.type # "runnerregistered" /\ m.offer = o}

(* messageRunner does nothing when the runner is not known, and what is    *)
(* sent to a closed socket is lost.                                        *)
Hears(r) == r \in knownRunners /\ process[r] = "connected"

MessageRunner(r, m) ==
  toRunner' = IF Hears(r) THEN [toRunner EXCEPT ![r] = Append(@, m)] ELSE toRunner

(* The next message from runner r is one of this type; the broker takes it *)
(* if it knows the runner.                                                 *)
BrokerReceives(r, type) ==
  /\ r \in knownRunners /\ toBroker[r] # <<>> /\ Head(toBroker[r]).type = type
  /\ toBroker' = [toBroker EXCEPT ![r] = Tail(@)]

(* The requester hears of the end of tasks: taskDone, taskError.           *)
Tell(ended, result) ==
  outcome' = [q \in Request |->
    IF outcome[q] = "running" /\ taskOf[q] \in ended THEN result ELSE outcome[q]]

(* tasks.delete; a timer left over finds no task when it fires.            *)
DeleteTasks(ended) ==
  /\ tasks' = [o \in Offer |-> IF o \in ended THEN None ELSE tasks[o]]
  /\ taskTimer' = taskTimer \ ended

-----------------------------------------------------------------------------
(* Matching offers and requests                                            *)

(* The members of a list that are in S, in their order: what the loops     *)
(* that splice the others out of it leave.                                 *)
Keep(list, S) ==
  LET kept[i \in 0..Len(list)] ==
        IF i = 0 THEN <<>>
        ELSE IF list[i] \in S THEN Append(kept[i - 1], list[i]) ELSE kept[i - 1]
  IN kept[Len(list)]

(* What acceptOffer sends to runner r for the offers that are matched.     *)
Accepts(r, matched) ==
  LET own == Keep(matched, OffersOf(r)) IN
  [i \in 1..Len(own) |-> Message("taskofferaccept", own[i])]

(* Mutant of SettleTasks: acceptInProgress is not looked at.               *)
SettleTasksTwice(offers, requests) ==
  LET n       == IF Len(offers) < Len(requests) THEN Len(offers) ELSE Len(requests)
      matched == SubSeq(offers, 1, n) IN
  /\ pendingTaskOffers' = SubSeq(offers, n + 1, Len(offers))
  /\ pendingTaskRequests' = requests
  /\ acceptInProgress' = acceptInProgress \cup {requests[i] : i \in 1..n}
  /\ accepting' = [o \in Offer |->
       IF o \in ToSet(matched) THEN requests[CHOOSE i \in 1..n : matched[i] = o] ELSE accepting[o]]
  /\ toRunner' = [r \in Runner |->
       IF Hears(r) THEN toRunner[r] \o Accepts(r, matched) ELSE toRunner[r]]

(* settleTasks, on the offers and requests its caller leaves: expired      *)
(* offers are dropped; each request that is not being accepted takes the   *)
(* first offer left, and acceptOffer tells the runner.                     *)
SettleTasks(offers, requests) ==
  \E expired \in SUBSET ToSet(offers) :
    LET left    == Keep(offers, Offer \ expired)
        waiting == Keep(requests, Request \ acceptInProgress)
        n       == IF Len(left) < Len(waiting) THEN Len(left) ELSE Len(waiting)
        matched == SubSeq(left, 1, n) IN
    /\ pendingTaskOffers' = SubSeq(left, n + 1, Len(left))
    /\ pendingTaskRequests' = requests
    /\ acceptInProgress' = acceptInProgress \cup {waiting[i] : i \in 1..n}
    /\ accepting' = [o \in Offer |->
         IF o \in ToSet(matched) THEN waiting[CHOOSE i \in 1..n : matched[i] = o] ELSE accepting[o]]
    /\ toRunner' = [r \in Runner |->
         IF Hears(r) THEN toRunner[r] \o Accepts(r, matched) ELSE toRunner[r]]

(* startTask: requester:taskrequest, taskRequested.                        *)
StartTask(q) ==
  /\ outcome[q] = "idle"
  /\ outcome' = [outcome EXCEPT ![q] = "requested"]
  /\ requestTimer' = requestTimer \cup {q}
  /\ SettleTasks(pendingTaskOffers, Append(pendingTaskRequests, q))
  /\ UNCHANGED <<process, canSendOffers, openOffers, status, executes, toBroker,
                 knownRunners, tasks, taskTimer, taskOf>>

(* taskOffered                                                             *)
TaskOffered(r) ==
  /\ BrokerReceives(r, "taskoffer")
  /\ SettleTasks(Append(pendingTaskOffers, Head(toBroker[r]).offer), pendingTaskRequests)
  /\ UNCHANGED <<process, canSendOffers, openOffers, status, executes,
                 knownRunners, requestTimer, tasks, taskTimer, requesterVars>>

(* Mutant of HandleRequestTimeout: the request stays in the list.          *)
HandleRequestTimeoutKeeping(q) ==
  /\ q \in requestTimer
  /\ requestTimer' = requestTimer \ {q}
  /\ outcome' = [outcome EXCEPT ![q] = "expired"]
  /\ UNCHANGED <<runnerVars, knownRunners, pendingTaskOffers, pendingTaskRequests, acceptInProgress,
                 accepting, tasks, taskTimer, taskOf>>

(* handleRequestTimeout; an acceptance under way goes on.                  *)
HandleRequestTimeout(q) ==
  /\ q \in requestTimer
  /\ requestTimer' = requestTimer \ {q}
  /\ pendingTaskRequests' = Keep(pendingTaskRequests, Request \ {q})
  /\ outcome' = [outcome EXCEPT ![q] = "expired"]
  /\ UNCHANGED <<runnerVars, knownRunners, pendingTaskOffers, acceptInProgress, accepting,
                 tasks, taskTimer, taskOf>>

-----------------------------------------------------------------------------
(* The end of acceptOffer                                                  *)

(* Mutant of AcceptOffer: the task is sent without a timeout.              *)
AcceptOfferUntimed(o, q) ==
  /\ requestTimer' = requestTimer \ {q}
  /\ tasks' = [tasks EXCEPT ![o] = q]
  /\ pendingTaskRequests' = Keep(pendingTaskRequests, Request \ {q})
  /\ outcome' = [outcome EXCEPT ![q] = "running"]
  /\ taskOf' = [taskOf EXCEPT ![q] = o]
  /\ MessageRunner(o[1], [type |-> "tasksettings", offer |-> o, request |-> q])
  /\ UNCHANGED taskTimer

(* The runner has accepted. If the request has expired in the meantime,    *)
(* the task is left as it is; if not, the requester sends its settings.    *)
AcceptOffer(o, q) ==
  /\ requestTimer' = requestTimer \ {q}
  /\ tasks' = [tasks EXCEPT ![o] = q]
  /\ IF q \in ToSet(pendingTaskRequests)
     THEN /\ pendingTaskRequests' = Keep(pendingTaskRequests, Request \ {q})
          /\ outcome' = [outcome EXCEPT ![q] = "running"]
          /\ taskOf' = [taskOf EXCEPT ![q] = o]
          /\ taskTimer' = taskTimer \cup {o}
          /\ MessageRunner(o[1], [type |-> "tasksettings", offer |-> o, request |-> q])
     ELSE UNCHANGED <<pendingTaskRequests, outcome, taskOf, taskTimer, toRunner>>

(* handleRunnerAccept. The entry of an acceptance that has timed out is    *)
(* still in runnerAcceptRejects, without effect.                           *)
HandleRunnerAccept(r) ==
  LET o == Head(toBroker[r]).offer IN
  /\ BrokerReceives(r, "taskaccepted")
  /\ accepting' = [accepting EXCEPT ![o] = None]
  /\ IF accepting[o] # None
     THEN AcceptOffer(o, accepting[o])
     ELSE UNCHANGED <<requestTimer, tasks, pendingTaskRequests, outcome, taskOf, taskTimer, toRunner>>
  /\ UNCHANGED <<process, canSendOffers, openOffers, status, executes,
                 knownRunners, pendingTaskOffers, acceptInProgress>>

(* A TaskRejectError or a TaskRunnerAcceptTimeoutError: the request can be *)
(* matched again, when something calls settleTasks.                        *)
AcceptFails(o) ==
  /\ accepting' = [accepting EXCEPT ![o] = None]
  /\ acceptInProgress' = acceptInProgress \ {accepting[o]}

(* handleRunnerReject                                                      *)
HandleRunnerReject(r) ==
  /\ BrokerReceives(r, "taskrejected")
  /\ AcceptFails(Head(toBroker[r]).offer)
  /\ UNCHANGED <<process, canSendOffers, openOffers, status, executes, toRunner, knownRunners,
                 pendingTaskOffers, pendingTaskRequests, requestTimer, tasks, taskTimer, requesterVars>>

(* The two seconds of acceptOffer are over.                                *)
AcceptTimeout(o) ==
  /\ accepting[o] # None
  /\ AcceptFails(o)
  /\ UNCHANGED <<runnerVars, knownRunners, pendingTaskOffers, pendingTaskRequests,
                 requestTimer, tasks, taskTimer, requesterVars>>

-----------------------------------------------------------------------------
(* The end of a task                                                       *)

(* taskDoneHandler, taskErrorHandler                                       *)
TaskHandler(r, type) ==
  LET o == Head(toBroker[r]).offer IN
  /\ BrokerReceives(r, type)
  /\ Tell({o}, IF type = "taskdone" THEN "done" ELSE "error")
  /\ DeleteTasks({o})
  /\ UNCHANGED <<process, canSendOffers, openOffers, status, executes, toRunner, knownRunners,
                 pendingTaskOffers, pendingTaskRequests, acceptInProgress, requestTimer,
                 accepting, taskOf>>

(* Mutant of HandleTaskTimeout: the runner is not told.                    *)
HandleTaskTimeoutUncancelled(o) ==
  /\ o \in taskTimer
  /\ Tell({o}, "error")
  /\ DeleteTasks({o})
  /\ UNCHANGED <<runnerVars, knownRunners, pendingTaskOffers, pendingTaskRequests, acceptInProgress,
                 requestTimer, accepting, taskOf>>

(* handleTaskTimeout                                                       *)
HandleTaskTimeout(o) ==
  /\ o \in taskTimer
  /\ IF External THEN MessageRunner(o[1], Message("taskcancel", o)) ELSE UNCHANGED toRunner
  /\ Tell({o}, "error")
  /\ DeleteTasks({o})
  /\ UNCHANGED <<process, canSendOffers, openOffers, status, executes, toBroker, knownRunners,
                 pendingTaskOffers, pendingTaskRequests, acceptInProgress, requestTimer,
                 accepting, taskOf>>

(* The requester's cancelTask and the broker's, for an execution that is   *)
(* cancelled. A request with no task yet is not reached.                   *)
CancelTask(q) ==
  /\ outcome[q] = "running"
  /\ outcome' = [outcome EXCEPT ![q] = "cancelled"]
  /\ DeleteTasks({taskOf[q]})
  /\ MessageRunner(taskOf[q][1], Message("taskcancel", taskOf[q]))
  /\ UNCHANGED <<process, canSendOffers, openOffers, status, executes, toBroker, knownRunners,
                 pendingTaskOffers, pendingTaskRequests, acceptInProgress, requestTimer,
                 accepting, taskOf>>

-----------------------------------------------------------------------------
(* Runners that come and go                                                *)

(* `add` of the WebSocket server, registerRunner                           *)
RegisterRunner(r) ==
  /\ process[r] = "starting"
  /\ process' = [process EXCEPT ![r] = "connected"]
  /\ knownRunners' = knownRunners \cup {r}
  /\ toRunner' = [toRunner EXCEPT ![r] = Append(@, [type |-> "runnerregistered"])]
  /\ UNCHANGED <<canSendOffers, openOffers, status, executes, toBroker, pendingTaskOffers,
                 pendingTaskRequests, acceptInProgress, requestTimer, accepting, tasks, taskTimer,
                 requesterVars>>

(* Mutant of DeregisterRunner: its tasks are forgotten.                    *)
DeregisterRunnerSilently(r) ==
  /\ process[r] \in {"closed", "gone"} /\ r \in knownRunners
  /\ knownRunners' = knownRunners \ {r}
  /\ pendingTaskOffers' = Keep(pendingTaskOffers, Offer \ OffersOf(r))
  /\ toBroker' = [toBroker EXCEPT ![r] = <<>>]
  /\ DeleteTasks(OffersOf(r))
  /\ UNCHANGED <<process, canSendOffers, openOffers, status, executes, toRunner,
                 pendingTaskRequests, acceptInProgress, requestTimer, accepting, requesterVars>>

(* removeConnection, deregisterRunner. Its tasks fail, and a runner that   *)
(* is alive is not told; offers of it that are being accepted run into     *)
(* their timeout. Messages of it that are left find no runner.             *)
DeregisterRunner(r) ==
  /\ process[r] \in {"closed", "gone"} /\ r \in knownRunners
  /\ knownRunners' = knownRunners \ {r}
  /\ pendingTaskOffers' = Keep(pendingTaskOffers, Offer \ OffersOf(r))
  /\ toBroker' = [toBroker EXCEPT ![r] = <<>>]
  /\ Tell({o \in OffersOf(r) : tasks[o] # None}, "error")
  /\ DeleteTasks(OffersOf(r))
  /\ UNCHANGED <<process, canSendOffers, openOffers, status, executes, toRunner,
                 pendingTaskRequests, acceptInProgress, requestTimer, accepting, taskOf>>

-----------------------------------------------------------------------------

RunnerStep(r) ==
  /\ \/ RunnerRegistered(r) \/ SendOffers(r, Taken)
     \/ OfferAccepted(r) \/ ReceivedSettings(r) \/ TaskCancelled(r, Taken)
     \/ StopTaskOffers(r) \/ ConnectionCloses(r) \/ ProcessEnds(r)
     \/ \E o \in Offer :
          \/ TaskTimedOut(r, o, Taken)
          \/ \E type \in {"taskdone", "taskerror"} : TaskExecuted(r, o, type, Taken)
  /\ UNCHANGED <<brokerVars, requesterVars>>

BrokerReceivesFrom(r) ==
  \/ TaskOffered(r) \/ HandleRunnerAccept(r) \/ HandleRunnerReject(r)
  \/ \E type \in {"taskdone", "taskerror"} : TaskHandler(r, type)

Next ==
  \/ \E r \in Runner :
       RunnerStep(r) \/ BrokerReceivesFrom(r) \/ RegisterRunner(r) \/ DeregisterRunner(r)
  \/ \E q \in Request : StartTask(q) \/ HandleRequestTimeout(q) \/ CancelTask(q)
  \/ \E o \in Offer : AcceptTimeout(o) \/ HandleTaskTimeout(o)

Spec == Init /\ [][Next]_vars

(* Messages arrive and are handled, timers fire and the broker notices a   *)
(* connection that is gone. Code that a task executes need not come to an  *)
(* end, and nobody has to start, cancel or stop anything.                  *)
RunnerReceives(r) ==
  /\ RunnerRegistered(r) \/ OfferAccepted(r) \/ ReceivedSettings(r) \/ TaskCancelled(r, Taken)
  /\ UNCHANGED <<brokerVars, requesterVars>>

RunnerTimer(r, o) == TaskTimedOut(r, o, Taken) /\ UNCHANGED <<brokerVars, requesterVars>>

FairSpec ==
  /\ Spec
  /\ \A r \in Runner :
       /\ WF_vars(RunnerReceives(r)) /\ WF_vars(BrokerReceivesFrom(r))
       /\ WF_vars(DeregisterRunner(r))
       /\ \A o \in OffersOf(r) : WF_vars(RunnerTimer(r, o))
  /\ \A q \in Request : WF_vars(HandleRequestTimeout(q))
  /\ \A o \in Offer : WF_vars(AcceptTimeout(o)) /\ WF_vars(HandleTaskTimeout(o))

-----------------------------------------------------------------------------

(* In external mode a runner that is connected runs no code that nobody    *)
(* waits for, whichever of timeout, cancellation and result comes first:   *)
(* the broker has the task that it executes, or its cancellation is on its *)
(* way. (One that has lost its connection runs its code on: nothing tells  *)
(* it, and its own timeout aborts the code.)                               *)
NoOrphanExecution ==
  External => \A o \in Offer :
    status[o] = "running" /\ process[o[1]] = "connected" =>
      \/ tasks[o] = executes[o]
      \/ Message("taskcancel", o) \in ToSet(toRunner[o[1]])

(* What the broker still has in its list is what the requester still waits *)
(* for, and the other way round: none is forgotten, none is served after   *)
(* it has expired.                                                         *)
PendingIsRequested ==
  \A q \in Request : q \in ToSet(pendingTaskRequests) <=> outcome[q] = "requested"

(* settleTasks and acceptOffer: a request is matched with one offer at a   *)
(* time, and one that has the flag acceptInProgress in the list is really  *)
(* being accepted, so that it cannot be passed over for ever.              *)
OneAcceptance ==
  /\ \A o, p \in Offer : accepting[o] = accepting[p] /\ accepting[o] # None => o = p
  /\ \A q \in ToSet(pendingTaskRequests) :
       q \in acceptInProgress => \E o \in Offer : accepting[o] = q

(* While startTask waits for a task, the broker has that task and a timer  *)
(* runs for it: a crash of the runner or code that hangs cannot leave the  *)
(* execution waiting.                                                      *)
RunningIsWatched ==
  \A q \in Request :
    outcome[q] = "running" => tasks[taskOf[q]] = q /\ taskOf[q] \in taskTimer

(* startTask returns.                                                      *)
EveryRequestSettles ==
  \A q \in Request : outcome[q] = "requested" ~> outcome[q] \in Settled

(* The broker's task list does not grow for ever: also a task that was     *)
(* accepted after its request had expired, which has no timeout there, is  *)
(* removed.                                                                *)
BrokerTaskEnds ==
  \A o \in Offer : tasks[o] # None ~> tasks[o] = None
=============================================================================
