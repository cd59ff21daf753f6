---------------------------- MODULE RegularMode ----------------------------
(***************************************************************************)
(* The life of executions in regular mode, in one main process:            *)
(* WorkflowRunner.run and runMainProcess, ActiveExecutions, concurrency    *)
(* control, ExecutionService.stop, the wait tracker and the shutdown.      *)
(*                                                                         *)
(* A Run is one call of WorkflowRunner.run: the first run of an execution, *)
(* or one that resumes it after a wait. Everything between two `await`s is *)
(* one action; promise callbacks that nothing but microtasks separates     *)
(* from their cause (the `finally` of postExecutePromise) belong to the    *)
(* action that settles the promise.                                        *)
(***************************************************************************)
EXTENDS Integers, Sequences, FiniteSets

CONSTANTS
  Execution,   \* execution ids
  Run,         \* calls of WorkflowRunner.run
  NoRun,       \* "no entry", "no workflowExecution"
  Limited,     \* executions whose mode is subject to the production limit
  Responding,  \* executions whose caller waits for a response
  Stoppable,   \* executions a user may stop
  Timed,       \* executions with an execution timeout
  Waiting,     \* executions with a node that puts them to wait
  Webhooks,    \* executions that a webhook may resume
  Polls,       \* bound on the tracker's polls that find an execution
  CanShutDown, \* whether the process may be told to stop
  Limit        \* N8N_CONCURRENCY_PRODUCTION_LIMIT

ASSUME RegularModeAssumption ==
  /\ IsFiniteSet(Run) /\ NoRun \notin Run
  /\ Limited \subseteq Execution /\ Responding \subseteq Execution
  /\ Stoppable \subseteq Execution /\ Timed \subseteq Execution
  /\ Waiting \subseteq Execution /\ Webhooks \subseteq Execution
  /\ Polls \in Nat /\ CanShutDown \in BOOLEAN
  /\ Limit \in Nat \ {0}

VARIABLES
  queue, capacity, promise, \* the production queue (ConcurrencyQueue)
  enabled,    \* ConcurrencyControlService.isEnabled
  down,       \* ActiveExecutions.shutdown was called
  db,         \* the execution's row
  active,     \* activeExecutions: the run that made the execution's entry
  entry,      \* for each run, the parts of the entry it made
  run,        \* for each run, how far it is
  cancelSave, \* runs whose cancel hook is still to save
  stopper,    \* for each execution, how far `stop` is
  tracked,    \* waitingExecutions: the executions with a timer
  polled      \* how often the tracker found something

queueVars == <<queue, capacity, promise>>
vars == <<queue, capacity, promise, enabled, down, db, active, entry, run,
          cancelSave, stopper, tracked, polled>>

CQ == INSTANCE ConcurrencyQueue WITH Caller <- Run, ExecutionId <- Execution

-----------------------------------------------------------------------------
(* Types                                                                   *)

Status == {"none", "new", "running", "waiting", "success", "error", "canceled"}

Row == [status : Status, waitTill : BOOLEAN, finished : BOOLEAN]

(* IExecutingWorkflowData: its status, whether its postExecutePromise has  *)
(* settled, whether it has a responsePromise, and its workflowExecution.   *)
Entry == [status : {"running", "waiting"}, settled : BOOLEAN,
          response : BOOLEAN, workflowExecution : Run \cup {NoRun}]

(* Where a run is. "created": its row exists; "throttled": waiting for, or *)
(* past, the throttle; "updated": its row says running; "registered": it   *)
(* has an entry; "accepted": its credentials were checked; "starting":     *)
(* about to start the workflow; "executing"; "saving": its outcome is      *)
(* being saved; "saved"; "ended"; "failed": run() threw before that.       *)
PC == {"idle", "created", "reading", "throttled", "updated", "registered", "accepted",
       "starting", "executing", "saving", "saved", "ended", "failed"}

(* cancelled: its PCancelable is; timer: its timeout is armed; heard: it   *)
(* will call finalizeExecution when it is over.                            *)
RunState == [execution : Execution \cup {NoRun}, resumes : BOOLEAN, pc : PC,
             outcome : {"none", "success", "error", "waiting"},
             cancelled : BOOLEAN, timer : BOOLEAN, heard : BOOLEAN]

StopState == [pc : {"idle", "read", "stopBeforeRun", "stopDuringRun", "done"},
              finished : BOOLEAN]

Init ==
  /\ CQ!Init
  /\ enabled = TRUE /\ down = FALSE
  /\ db = [e \in Execution |-> [status |-> "none", waitTill |-> FALSE, finished |-> FALSE]]
  /\ active = [e \in Execution |-> NoRun]
  /\ entry = [r \in Run |-> [status |-> "running", settled |-> FALSE,
                             response |-> FALSE, workflowExecution |-> NoRun]]
  /\ run = [r \in Run |-> [execution |-> NoRun, resumes |-> FALSE, pc |-> "idle",
                           outcome |-> "none", cancelled |-> FALSE, timer |-> FALSE,
                           heard |-> FALSE]]
  /\ cancelSave = {}
  /\ stopper = [e \in Execution |-> [pc |-> "idle", finished |-> FALSE]]
  /\ tracked = {} /\ polled = 0

-----------------------------------------------------------------------------
(* Pieces the handlers share                                               *)

At(r, where) == run[r].pc = where
Goto(r, where) == run' = [run EXCEPT ![r].pc = where]
SetRow(e, row) == db' = [db EXCEPT ![e] = row]

(* ConcurrencyControlService.throttle                                      *)
Throttle(r, e) ==
  IF enabled /\ e \in Limited THEN CQ!Enqueue(r, e) ELSE UNCHANGED queueVars

(* ConcurrencyControlService.release                                       *)
Release(r, e) ==
  IF enabled /\ e \in Limited THEN CQ!Dequeue(r) ELSE UNCHANGED queueVars

(* postExecutePromise of the entry that run s made settles, and `finally`  *)
(* runs; settling it again has no effect.                                  *)
Settle(s, e) ==
  IF entry[s].settled
  THEN UNCHANGED <<queueVars, active, entry>>
  ELSE /\ Release(s, e)
       /\ active' = IF entry[s].status = "waiting" THEN active
                    ELSE [active EXCEPT ![e] = NoRun]
       /\ entry' = [entry EXCEPT ![s].settled = TRUE, ![s].workflowExecution =
                      IF entry[s].status = "waiting" THEN NoRun ELSE @]

(* PCancelable.cancel on the workflow execution of run k: nothing once it  *)
(* has resolved.                                                           *)
Cancellable(k) == k \in Run /\ run[k].pc \in {"executing", "saving", "saved"}

Cancel(k, runs) ==
  IF Cancellable(k) /\ ~run[k].cancelled
  THEN run' = [runs EXCEPT ![k].cancelled = TRUE] /\ cancelSave' = cancelSave \cup {k}
  ELSE run' = runs /\ UNCHANGED cancelSave

(* Mutant of StopExecution: the entry settles and goes, its workflow is    *)
(* not cancelled.                                                          *)
StopExecutionUncancelled(e, runs) ==
  LET s == active[e] IN
  /\ run' = runs /\ UNCHANGED cancelSave
  /\ CASE s = NoRun -> UNCHANGED <<queueVars, active, entry>>
       [] s # NoRun /\ entry[s].status = "waiting" ->
            active' = [active EXCEPT ![e] = NoRun] /\ UNCHANGED <<queueVars, entry>>
       [] OTHER -> Settle(s, e)

(* Mutant of StopExecution: the entry is deleted and its promise left      *)
(* alone.                                                                  *)
StopExecutionDeleting(e, runs) ==
  LET s == active[e] IN
  /\ active' = [active EXCEPT ![e] = NoRun]
  /\ IF s = NoRun THEN run' = runs /\ UNCHANGED cancelSave
                  ELSE Cancel(entry[s].workflowExecution, runs)
  /\ UNCHANGED <<queueVars, entry>>

(* ActiveExecutions.stopExecution, by a caller that leaves `runs`.         *)
StopExecution(e, runs) ==
  LET s == active[e] IN
  CASE s = NoRun -> run' = runs /\ UNCHANGED <<queueVars, active, entry, cancelSave>>
    [] s # NoRun /\ entry[s].status = "waiting" ->
         /\ active' = [active EXCEPT ![e] = NoRun]
         /\ run' = runs /\ UNCHANGED <<queueVars, entry, cancelSave>>
    [] OTHER -> Cancel(entry[s].workflowExecution, runs) /\ Settle(s, e)

-----------------------------------------------------------------------------
(* WorkflowRunner.run                                                      *)

(* The next call of `run`: which Run stands for it does not matter.        *)
Fresh(r) == At(r, "idle") /\ r = CHOOSE k \in Run : At(k, "idle")

(* Mutant of Create: the row says running before the throttle.             *)
CreateRunning(r, e) ==
  /\ Fresh(r) /\ db[e].status = "none" /\ ~down
  /\ SetRow(e, [status |-> "running", waitTill |-> FALSE, finished |-> FALSE])
  /\ run' = [run EXCEPT ![r].execution = e, ![r].pc = "created"]
  /\ UNCHANGED <<queueVars, enabled, down, active, entry, cancelSave, stopper, tracked, polled>>

(* add, new execution: createNewExecution inserts the row.                 *)
Create(r, e) ==
  /\ Fresh(r) /\ db[e].status = "none" /\ ~down
  /\ SetRow(e, [status |-> "new", waitTill |-> FALSE, finished |-> FALSE])
  /\ run' = [run EXCEPT ![r].execution = e, ![r].pc = "created"]
  /\ UNCHANGED <<queueVars, enabled, down, active, entry, cancelSave, stopper, tracked, polled>>

(* add: the throttle, after the insert or first thing for a resumption.    *)
EnterThrottle(r) ==
  LET e == run[r].execution IN
  /\ run[r].pc \in {"created", "reading"}
  /\ Throttle(r, e)
  /\ Goto(r, "throttled")
  /\ UNCHANGED <<enabled, down, db, active, entry, cancelSave, stopper, tracked, polled>>

(* Mutant of Update: a removed execution goes on like one let through.     *)
UpdateAfterRemoval(r) ==
  LET e == run[r].execution IN
  /\ At(r, "throttled") /\ promise[r] # "pending"
  /\ SetRow(e, [db[e] EXCEPT !.status = "running"])
  /\ Goto(r, "updated")
  /\ UNCHANGED <<queueVars, enabled, down, active, entry, cancelSave, stopper, tracked, polled>>

(* add: let through, the row is set to running; a resumption's waitTill is *)
(* cleared too. Neither write looks at what the row says.                  *)
Update(r) ==
  LET e == run[r].execution IN
  /\ At(r, "throttled") /\ promise[r] \notin {"pending", "dropped"}
  /\ SetRow(e, IF run[r].resumes
               THEN [db[e] EXCEPT !.status = "running", !.waitTill = FALSE]
               ELSE [db[e] EXCEPT !.status = "running"])
  /\ Goto(r, "updated")
  /\ UNCHANGED <<queueVars, enabled, down, active, entry, cancelSave, stopper, tracked, polled>>

(* add: a new entry replaces the one the execution waited with, if any,    *)
(* and takes over its responsePromise.                                     *)
Register(r) ==
  LET e == run[r].execution
      resuming == active[e] IN
  /\ At(r, "updated")
  /\ active' = [active EXCEPT ![e] = r]
  /\ entry' = [entry EXCEPT ![r] =
       [status |-> "running", settled |-> FALSE, workflowExecution |-> NoRun,
        response |-> resuming # NoRun /\ entry[resuming].response]]
  /\ Goto(r, "registered")
  /\ UNCHANGED <<queueVars, enabled, down, db, cancelSave, stopper, tracked, polled>>

(* Mutant of CredentialsRejected: no finalizeExecution on this path.       *)
CredentialsRejectedUnfinalized(r) ==
  /\ At(r, "registered")
  /\ run' = [run EXCEPT ![r].pc = "saving", ![r].outcome = "error"]
  /\ UNCHANGED <<queueVars, enabled, down, db, active, entry, cancelSave, stopper, tracked, polled>>

(* run: the credentials check rejects the run, which is saved as failed.   *)
CredentialsRejected(r) ==
  /\ At(r, "registered")
  /\ run' = [run EXCEPT ![r].pc = "saving", ![r].outcome = "error", ![r].heard = TRUE]
  /\ UNCHANGED <<queueVars, enabled, down, db, active, entry, cancelSave, stopper, tracked, polled>>

(* run: attachResponsePromise throws when the entry is gone; otherwise     *)
(* runMainProcess begins, and reads before it writes.                      *)
CredentialsAccepted(r) ==
  LET e == run[r].execution
      attaches == e \in Responding /\ ~run[r].resumes IN
  /\ At(r, "registered")
  /\ IF attaches /\ active[e] = NoRun
     THEN Goto(r, "failed") /\ UNCHANGED entry
     ELSE /\ Goto(r, "accepted")
          /\ entry' = IF attaches THEN [entry EXCEPT ![active[e]].response = TRUE] ELSE entry
  /\ UNCHANGED <<queueVars, enabled, down, db, active, cancelSave, stopper, tracked, polled>>

(* runMainProcess: setRunning, whatever the row says.                      *)
SetRunning(r) ==
  LET e == run[r].execution IN
  /\ At(r, "accepted")
  /\ SetRow(e, [db[e] EXCEPT !.status = "running"])
  /\ Goto(r, "starting")
  /\ UNCHANGED <<queueVars, enabled, down, active, entry, cancelSave, stopper, tracked, polled>>

(* runMainProcess: the workflow starts, then attachWorkflowExecution looks *)
(* for the entry. When it is gone the error is thrown past the handlers    *)
(* that would hear of the end, and the workflow runs on. Otherwise the     *)
(* timer of the execution's timeout is set.                                *)
Start(r) ==
  LET e == run[r].execution IN
  /\ At(r, "starting")
  /\ IF active[e] = NoRun
     THEN Goto(r, "executing") /\ UNCHANGED entry
     ELSE /\ run' = [run EXCEPT ![r].pc = "executing", ![r].timer = e \in Timed,
                               ![r].heard = TRUE]
          /\ entry' = [entry EXCEPT ![active[e]].workflowExecution = r]
  /\ UNCHANGED <<queueVars, enabled, down, db, active, cancelSave, stopper, tracked, polled>>

(* Mutant of StartFails: no finalizeExecution on this path.                *)
StartFailsUnfinalized(r) ==
  /\ At(r, "starting")
  /\ run' = [run EXCEPT ![r].pc = "saving", ![r].outcome = "error"]
  /\ UNCHANGED <<queueVars, enabled, down, db, active, entry, cancelSave, stopper, tracked, polled>>

(* runMainProcess: the workflow cannot be started. processError finalizes  *)
(* before it saves.                                                        *)
StartFails(r) ==
  LET e == run[r].execution IN
  /\ At(r, "starting")
  /\ run' = [run EXCEPT ![r].pc = "saving", ![r].outcome = "error"]
  /\ IF active[e] = NoRun
     THEN UNCHANGED <<queueVars, active, entry>>
     ELSE Settle(active[e], e)
  /\ UNCHANGED <<enabled, down, db, cancelSave, stopper, tracked, polled>>

(* A node calls putExecutionToWait: setStatus fails when the entry is gone,*)
(* which fails the node. The status is set before the workflow stops.      *)
PutToWait(r) ==
  LET e == run[r].execution IN
  /\ At(r, "executing") /\ e \in Waiting /\ ~run[r].resumes
  /\ run[r].outcome = "none" /\ ~run[r].cancelled
  /\ IF active[e] = NoRun
     THEN run' = [run EXCEPT ![r].outcome = "error"] /\ UNCHANGED entry
     ELSE /\ run' = [run EXCEPT ![r].outcome = "waiting"]
          /\ entry' = [entry EXCEPT ![active[e]].status = "waiting"]
  /\ UNCHANGED <<queueVars, enabled, down, db, active, cancelSave, stopper, tracked, polled>>

(* Mutant of Complete: the outcome is saved even when cancelled.           *)
CompleteAlwaysSaving(r, outcome) ==
  /\ At(r, "executing")
  /\ outcome = IF run[r].outcome = "none" THEN "success" ELSE run[r].outcome
  /\ run' = [run EXCEPT ![r].outcome = outcome, ![r].pc = "saving"]
  /\ UNCHANGED <<queueVars, enabled, down, db, active, entry, cancelSave, stopper, tracked, polled>>

(* The workflow stops (processSuccessExecution). A cancelled one does not  *)
(* save: its cancel hook does.                                             *)
Complete(r, outcome) ==
  /\ At(r, "executing")
  /\ IF run[r].outcome = "none"
     THEN outcome \in (IF run[r].execution \in Waiting /\ ~run[r].resumes
                       THEN {"error"} ELSE {"success", "error"})
     ELSE outcome = run[r].outcome
  /\ run' = [run EXCEPT ![r].outcome = outcome,
                        ![r].pc = IF run[r].cancelled THEN "saved" ELSE "saving"]
  /\ UNCHANGED <<queueVars, enabled, down, db, active, entry, cancelSave, stopper, tracked, polled>>

(* Mutant of Save: waitTill is not among the fields written.               *)
SaveWithoutWaitTill(r) ==
  LET e == run[r].execution IN
  /\ At(r, "saving")
  /\ SetRow(e, [db[e] EXCEPT !.status = run[r].outcome, !.finished = run[r].outcome = "success"])
  /\ Goto(r, "saved")
  /\ UNCHANGED <<queueVars, enabled, down, active, entry, cancelSave, stopper, tracked, polled>>

(* hookFunctionsSave                                                       *)
Save(r) ==
  LET e == run[r].execution
      o == run[r].outcome IN
  /\ At(r, "saving")
  /\ SetRow(e, [status |-> o, waitTill |-> db[e].waitTill \/ o = "waiting",
                finished |-> o = "success"])
  /\ Goto(r, "saved")
  /\ UNCHANGED <<queueVars, enabled, down, active, entry, cancelSave, stopper, tracked, polled>>

(* The same hook, run by the cancellation handler of the workflow.         *)
SaveCancelled(r) ==
  LET e == run[r].execution IN
  /\ r \in cancelSave
  /\ cancelSave' = cancelSave \ {r}
  /\ SetRow(e, [db[e] EXCEPT !.status = "canceled", !.finished = FALSE])
  /\ UNCHANGED <<queueVars, enabled, down, active, entry, run, stopper, tracked, polled>>

(* The workflow execution resolves: the timer is cleared and               *)
(* finalizeExecution settles whichever entry the execution has, if any.    *)
Finalize(r) ==
  LET e == run[r].execution IN
  /\ At(r, "saved")
  /\ run' = [run EXCEPT ![r].pc = "ended", ![r].timer = FALSE]
  /\ IF ~run[r].heard \/ active[e] = NoRun
     THEN UNCHANGED <<queueVars, active, entry>>
     ELSE Settle(active[e], e)
  /\ UNCHANGED <<enabled, down, db, cancelSave, stopper, tracked, polled>>

(* The timer of the execution's timeout fires.                             *)
Timeout(r) ==
  /\ run[r].timer
  /\ StopExecution(run[r].execution, [run EXCEPT ![r].timer = FALSE])
  /\ UNCHANGED <<enabled, down, db, stopper, tracked, polled>>

-----------------------------------------------------------------------------
(* ExecutionService.stop, one call for each execution: it reads the row,   *)
(* acts on this process, writes the row; others may act in between.        *)

(* stop up to assertStoppable                                              *)
StopRead(e) ==
  /\ e \in Stoppable /\ stopper[e].pc = "idle"
  /\ db[e].status \in {"new", "waiting", "running"}
  /\ stopper' = [stopper EXCEPT ![e] = [pc |-> "read", finished |-> db[e].finished]]
  /\ UNCHANGED <<queueVars, enabled, down, db, active, entry, run, cancelSave, tracked, polled>>

(* stopInRegularMode: the execution is in the queue                        *)
StopQueued(e) ==
  /\ stopper[e].pc = "read" /\ enabled /\ CQ!Has(e)
  /\ CQ!RemoveFromQueue(e)
  /\ stopper' = [stopper EXCEPT ![e].pc = "stopBeforeRun"]
  /\ UNCHANGED <<enabled, down, db, active, entry, run, cancelSave, tracked, polled>>

(* stopInRegularMode: it is not. stopExecution does nothing without entry, *)
(* nor does the tracker's without timer.                                   *)
StopActive(e) ==
  /\ stopper[e].pc = "read" /\ ~(enabled /\ CQ!Has(e))
  /\ StopExecution(e, run)
  /\ tracked' = tracked \ {e}
  /\ stopper' = [stopper EXCEPT ![e].pc = "stopDuringRun"]
  /\ UNCHANGED <<enabled, down, db, polled>>

(* stopBeforeRun writes the status, stopDuringRun the whole row as read.   *)
StopWrite(e) ==
  /\ stopper[e].pc \in {"stopBeforeRun", "stopDuringRun"}
  /\ SetRow(e, IF stopper[e].pc = "stopBeforeRun"
               THEN [db[e] EXCEPT !.status = "canceled"]
               ELSE [status |-> "canceled", waitTill |-> FALSE, finished |-> stopper[e].finished])
  /\ stopper' = [stopper EXCEPT ![e].pc = "done"]
  /\ UNCHANGED <<queueVars, enabled, down, active, entry, run, cancelSave, tracked, polled>>

-----------------------------------------------------------------------------
(* What resumes a waiting execution                                        *)

(* getWaitingExecutions finds the row, whatever its status ("crashed" does *)
(* not occur here), and sets a timer unless there is one.                  *)
Poll(e) ==
  /\ ~down /\ polled < Polls
  /\ db[e].waitTill /\ e \notin tracked
  /\ tracked' = tracked \cup {e} /\ polled' = polled + 1
  /\ UNCHANGED <<queueVars, enabled, down, db, active, entry, run, cancelSave, stopper>>

Resume(r, e) ==
  run' = [run EXCEPT ![r].execution = e, ![r].resumes = TRUE, ![r].pc = "reading"]

(* startExecution: only a finished execution is not started again.         *)
TimerFires(r, e) ==
  /\ Fresh(r) /\ e \in tracked /\ ~down
  /\ tracked' = tracked \ {e}
  /\ IF db[e].finished THEN UNCHANGED run ELSE Resume(r, e)
  /\ UNCHANGED <<queueVars, enabled, down, db, active, entry, cancelSave, stopper, polled>>

(* WaitingWebhooks.executeWebhook: the execution is not running, has       *)
(* stopped at its wait node, has no error and is not finished.             *)
WebhookResumes(r, e) ==
  /\ Fresh(r) /\ e \in Webhooks /\ ~down
  /\ db[e].status \notin {"running", "error"} /\ db[e].waitTill /\ ~db[e].finished
  /\ Resume(r, e)
  /\ UNCHANGED <<queueVars, enabled, down, db, active, entry, cancelSave, stopper, tracked, polled>>

-----------------------------------------------------------------------------

(* stopProcess up to the loop of ActiveExecutions.shutdown: the tracker    *)
(* stops, concurrency control is disabled, entries with a responsePromise  *)
(* are stopped and waiting ones deleted. removeAll returns at once, as     *)
(* concurrency control is disabled by then.                                *)
Shutdown ==
  LET has(e) == active[e] # NoRun
      waits(e) == has(e) /\ entry[active[e]].status = "waiting"
      stops(e) == has(e) /\ ~waits(e) /\ entry[active[e]].response
      settles == {s \in Run : ~entry[s].settled /\ \E e \in Execution : stops(e) /\ active[e] = s}
      cancels == {k \in Run : /\ Cancellable(k) /\ ~run[k].cancelled
                             /\ \E e \in Execution :
                                  stops(e) /\ entry[active[e]].workflowExecution = k} IN
  /\ CanShutDown /\ ~down
  /\ down' = TRUE /\ enabled' = FALSE
  /\ active' = [e \in Execution |->
       IF waits(e) \/ active[e] \in settles THEN NoRun ELSE active[e]]
  /\ entry' = [s \in Run |-> IF s \in settles THEN [entry[s] EXCEPT !.settled = TRUE] ELSE entry[s]]
  /\ run' = [k \in Run |-> IF k \in cancels THEN [run[k] EXCEPT !.cancelled = TRUE] ELSE run[k]]
  /\ cancelSave' = cancelSave \cup cancels
  /\ UNCHANGED <<queueVars, db, stopper, tracked, polled>>

-----------------------------------------------------------------------------

RunStep(r) ==
  \/ EnterThrottle(r) \/ Update(r) \/ Register(r)
  \/ CredentialsRejected(r) \/ CredentialsAccepted(r) \/ SetRunning(r)
  \/ Start(r) \/ StartFails(r) \/ PutToWait(r)
  \/ \E outcome \in {"success", "error", "waiting"} : Complete(r, outcome)
  \/ Save(r) \/ SaveCancelled(r) \/ Finalize(r)

StopStep(e) == StopQueued(e) \/ StopActive(e) \/ StopWrite(e)

Next ==
  \/ \E r \in Run : RunStep(r) \/ Timeout(r)
  \/ \E e \in Execution : StopRead(e) \/ StopStep(e) \/ Poll(e)
  \/ \E r \in Run, e \in Execution : Create(r, e) \/ TimerFires(r, e) \/ WebhookResumes(r, e)
  \/ Shutdown

Spec == Init /\ [][Next]_vars

(* What runs goes on, a stop once begun too, the tracker polls and its     *)
(* timers fire. Nobody need create, stop or resume an execution.           *)
FairSpec ==
  /\ Spec
  /\ \A r \in Run : WF_vars(RunStep(r)) /\ WF_vars(SaveCancelled(r))
  /\ \A e \in Execution :
       WF_vars(StopStep(e)) /\ WF_vars(Poll(e)) /\ WF_vars(\E r \in Run : TimerFires(r, e))

-----------------------------------------------------------------------------
(* Properties                                                              *)

TypeOK ==
  /\ CQ!TypeOK
  /\ enabled \in BOOLEAN /\ down \in BOOLEAN
  /\ db \in [Execution -> Row]
  /\ active \in [Execution -> Run \cup {NoRun}]
  /\ entry \in [Run -> Entry]
  /\ run \in [Run -> RunState]
  /\ cancelSave \subseteq Run
  /\ stopper \in [Execution -> StopState]
  /\ tracked \subseteq Execution /\ polled \in 0..Polls

(* A run that is over gives its slot back, in every outcome: the queue     *)
(* does not know who holds its slots, so one not released is lost for good.*)
NoLeakedSlot ==
  enabled => \A r \in Run : run[r].pc \in {"ended", "failed"} => promise[r] # "resolved"

(* A workflow executes on a slot of its own. Two things alone take the     *)
(* slot under it: a cancellation, which reaches the workflow, and a user's *)
(* stop, which may come before there is a workflow to cancel               *)
(* (attachWorkflowExecution); a timeout, a failure, the end of another run *)
(* or a removal from the queue never does.                                 *)
OnlyStopFreesSlot ==
  enabled => \A r \in Run :
    At(r, "executing") /\ run[r].execution \in Limited
      => \/ promise[r] = "resolved" \/ run[r].cancelled
         \/ stopper[run[r].execution].pc \in {"stopDuringRun", "done"}

(* executions.config.ts:19, "Max production executions allowed to run      *)
(* concurrently": so many workflows execute at most, those not counted     *)
(* that were told to stop. A stop before attachWorkflowExecution breaks it.*)
ExecutingWithinLimit ==
  enabled => Cardinality({r \in Run : /\ At(r, "executing") /\ ~run[r].cancelled
                                      /\ run[r].execution \in Limited}) <= Limit

(* waiting-webhooks.ts:149, "The execution ... is running already": what   *)
(* waits is not resumed while it runs, so no execution executes twice at   *)
(* a time. But WebhookResumes reads the status long before it is written.  *)
ResumedOnce ==
  \A r, s \in Run :
    r # s /\ At(r, "executing") /\ At(s, "executing") => run[r].execution # run[s].execution

(* An entry that has not settled belongs to a run that has not ended: no   *)
(* execution stays listed as active with nobody left to remove it.         *)
NoStaleEntry ==
  \A e \in Execution :
    active[e] # NoRun /\ entry[active[e]].status = "running"
      => run[active[e]].pc \notin {"ended", "failed"}

Over(e) == \A r \in Run : run[r].execution = e => run[r].pc \in {"ended", "failed"} \/ promise[r] = "dropped"

(* An execution stopped while it was queued never runs: the promise it     *)
(* waits on is gone, and its row stays canceled.                           *)
StoppedInQueueNeverRuns ==
  \A r \in Run :
    promise[r] = "dropped" /\ ~run[r].resumes
      => /\ At(r, "throttled")
         /\ stopper[run[r].execution].pc = "done" => db[run[r].execution].status = "canceled"

(* A workflow that is cancelled while it executes ends with its row        *)
(* canceled, and nothing overwrites that: neither the run's own outcome,   *)
(* nor the stop's write, nor a resumption.                                 *)
CancelledStaysCanceled ==
  \A r \in Run, e \in Execution :
    At(r, "executing") /\ run[r].cancelled /\ run[r].execution = e
      ~> [](db[e].status = "canceled")

(* Every execution ends, those that wait included: for a slot, or for the  *)
(* tracker to resume them.                                                 *)
EveryExecutionEnds ==
  \A e \in Execution :
    db[e].status = "new" ~> db[e].status \in {"success", "error", "canceled"} /\ Over(e)

(* active-executions.ts:260, "Wait for all active executions to finish",   *)
(* and 278, "Remove waiting and new executions to not block shutdown".     *)
ShutdownCompletes == down ~> \A e \in Execution : active[e] = NoRun

(* What the next start relies on (findAllEnqueuedExecutions): a first run  *)
(* still queued at shutdown, for whose response nobody waits, has a row    *)
(* that says new. One with a response promise cannot be run again, see     *)
(* QueuedResponsesCanceled.                                                *)
QueuedSurvivesShutdown ==
  \A r \in Run :
    down /\ promise[r] = "pending" /\ ~run[r].resumes
      /\ run[r].execution \notin Responding /\ stopper[run[r].execution].pc # "done"
        => db[run[r].execution].status = "new"

(* concurrency-control.service.ts:140, "Also cancel any enqueued           *)
(* executions that have response promises, as these cannot be re-run":     *)
(* shutdown leaves none of them queued without its row being canceled. But *)
(* it has disabled concurrency control before, and removeAll does nothing. *)
QueuedResponsesCanceled ==
  \A r \in Run :
    down /\ promise[r] = "pending" /\ run[r].execution \in Responding
      ~> promise[r] # "pending" \/ db[run[r].execution].status = "canceled"

(* wait-tracker.ts:107, "The execution did succeed and can so not be       *)
(* started again": no workflow starts on a row that says finished.         *)
FinishedNotRestarted ==
  [][\A r \in Run :
       At(r, "starting") /\ run'[r].pc = "executing" => ~db[run[r].execution].finished]_vars
=============================================================================
