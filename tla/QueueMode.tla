------------------------------ MODULE QueueMode ------------------------------
(***************************************************************************)
(* Executions in queue mode: the main process that creates them, puts a    *)
(* job for each on the Bull queue and waits for it (WorkflowRunner.run and *)
(* enqueueExecution), the workers (ScalingService.setupWorker,             *)
(* JobProcessor), the stop of an execution (ExecutionService, stopJob) and *)
(* the leader's recovery of dangling executions (recoverFromQueue). Both   *)
(* the main and the workers may crash at any moment; they start again. A   *)
(* worker that is too busy to renew its lock loses it, and works on; it    *)
(* does not take a job again that it still works on.                       *)
(*                                                                         *)
(* The processes share the database row, which each writes without looking *)
(* at what it says, and the queue. Everything between two `await`s is one  *)
(* action.                                                                 *)
(***************************************************************************)
EXTENDS Naturals, FiniteSets

CONSTANTS
  Execution,       \* execution ids; the job of an execution goes by its id
  Worker,          \* worker processes
  Nobody,          \* no worker
  Stoppable,       \* executions a user may stop
  MaxStalledCount, \* how often Bull gives a stalled job to another worker
  WorkerCrashes,   \* bound on the crashes of workers
  MainCrashes,     \* bound on the crashes of the main process
  LockLosses       \* bound on the locks that live workers lose

ASSUME QueueModeAssumption ==
  /\ IsFiniteSet(Worker) /\ Nobody \notin Worker /\ Stoppable \subseteq Execution
  /\ MaxStalledCount \in Nat /\ WorkerCrashes \in Nat /\ MainCrashes \in Nat /\ LockLosses \in Nat

VARIABLES
  row,        \* the status in the execution's row
  main,       \* how far `run` and enqueueExecution are
  entry,      \* activeExecutions: absent, added, with the workflowExecution attached
  result,     \* the status main read from the row to finalize the execution with
  canceller,  \* how far the onCancel handler of the workflowExecution is
  stopper,    \* how far ExecutionService.stop is
  job,        \* the job's place in the queue
  stalls,     \* how often the job has stalled
  lock,       \* the worker that has the job's lock, or had it last
  lost,       \* the executions whose job a live worker has lost its lock of
  work,       \* for each worker, how far processJob is with the execution
  cancelled,  \* pairs of worker and execution whose workflow was cancelled
  cancelSave, \* pairs of worker and execution whose cancel hook is still to save
  aborts,     \* abort-job messages on their way
  recovery,   \* how far recoverFromQueue is, and the executions it looks at
  crashes     \* how often the main and the workers have crashed, and locks been lost

mainVars == <<main, entry, result>>
stopVars == <<canceller, stopper>>
jobVars == <<job, stalls, lock, lost>>
workVars == <<work, cancelled, cancelSave>>
vars == <<row, mainVars, stopVars, jobVars, workVars, aborts, recovery, crashes>>

-----------------------------------------------------------------------------
(* Types                                                                   *)

InProgress == {"new", "running"}
Final == {"success", "error", "canceled", "crashed"}

(* "enqueued": the job is on the queue, nothing is attached yet;           *)
(* "awaiting": job.finished(); "failing", "erring", "savingError":         *)
(* processError, before it looks at the row, before it finalizes, before   *)
(* it saves; "failed": run() threw, or its process died.                   *)
MainPC == {"idle", "created", "enqueued", "awaiting", "failing", "erring", "savingError",
           "reading", "finalizing", "done", "failed"}

(* "picked": about to read the row; "read": about to set it to running;    *)
(* "refusing": saves that the workflow has issues; "returned", "throwing": *)
(* how processJob ended, of which Bull is yet to be told.                  *)
WorkPC == {"idle", "picked", "read", "loading", "refusing", "executing", "saving", "saved",
           "returned", "throwing"}

(* "aborted": moved to failed by a stop; "removed": taken out by one.      *)
JobState == {"none", "waiting", "active", "completed", "failed", "aborted", "removed"}

Init ==
  /\ row = [x \in Execution |-> "none"]
  /\ main = [x \in Execution |-> "idle"]
  /\ entry = [x \in Execution |-> "none"]
  /\ result = [x \in Execution |-> "none"]
  /\ canceller = [x \in Execution |-> "idle"]
  /\ stopper = [x \in Execution |-> "idle"]
  /\ job = [x \in Execution |-> "none"]
  /\ stalls = [x \in Execution |-> 0]
  /\ lock = [x \in Execution |-> Nobody] /\ lost = {}
  /\ work = [w \in Worker |-> [x \in Execution |-> "idle"]]
  /\ cancelled = {} /\ cancelSave = {} /\ aborts = {}
  /\ recovery = [pc |-> "idle", ids |-> {}]
  /\ crashes = [main |-> 0, worker |-> 0, lock |-> 0]

SetRow(x, status) == row' = [row EXCEPT ![x] = status]
MainTo(x, pc) == main' = [main EXCEPT ![x] = pc]
WorkTo(w, x, pc) == work' = [work EXCEPT ![w][x] = pc]
SetJob(x, state) == job' = [job EXCEPT ![x] = state]

(* finalizeExecution: the entry goes, if it is there.                      *)
CloseEntry(x) == entry' = [entry EXCEPT ![x] = "none"]

-----------------------------------------------------------------------------
(* The main process: run and enqueueExecution                              *)

(* ActiveExecutions.add inserts the row and makes the entry.               *)
Create(x) ==
  /\ main[x] = "idle"
  /\ SetRow(x, "new")
  /\ entry' = [entry EXCEPT ![x] = "added"]
  /\ MainTo(x, "created")
  /\ UNCHANGED <<result, stopVars, jobVars, workVars, aborts, recovery, crashes>>

(* The credentials check rejects the run, which is saved as failed.        *)
CredentialsRejected(x) ==
  /\ main[x] = "created"
  /\ SetRow(x, "error")
  /\ result' = [result EXCEPT ![x] = "error"]
  /\ MainTo(x, "finalizing")
  /\ UNCHANGED <<entry, stopVars, jobVars, workVars, aborts, recovery, crashes>>

AddJob(x) ==
  /\ main[x] = "created"
  /\ SetJob(x, "waiting")
  /\ MainTo(x, "enqueued")
  /\ UNCHANGED <<row, entry, result, stopVars, stalls, lock, lost, workVars, aborts, recovery, crashes>>

(* The queue cannot be reached.                                            *)
AddJobFails(x) ==
  /\ main[x] = "created"
  /\ MainTo(x, "failing")
  /\ UNCHANGED <<row, entry, result, stopVars, jobVars, workVars, aborts, recovery, crashes>>

(* The PCancelable starts to wait for the job before attachWorkflowExecution *)
(* looks for the entry; it goes on waiting when that throws.               *)
Attach(x) ==
  /\ main[x] = "enqueued"
  /\ entry' = [entry EXCEPT ![x] = IF @ = "none" THEN "none" ELSE "attached"]
  /\ MainTo(x, "awaiting")
  /\ UNCHANGED <<row, result, stopVars, jobVars, workVars, aborts, recovery, crashes>>

(* Mutant of JobEnds: a failed job is taken for a completed one.           *)
JobEndsUnexamined(x) ==
  /\ main[x] = "awaiting" /\ job[x] \in {"completed", "aborted", "failed"}
  /\ MainTo(x, "reading")
  /\ UNCHANGED <<row, entry, result, stopVars, jobVars, workVars, aborts, recovery, crashes>>

(* job.finished() settles; never, when the job was removed. processError   *)
(* returns at once when the error is that of a cancellation.               *)
JobEnds(x) ==
  /\ main[x] = "awaiting" /\ job[x] \in {"completed", "aborted", "failed"}
  /\ MainTo(x, IF job[x] = "failed" THEN "failing" ELSE "reading")
  /\ UNCHANGED <<row, entry, result, stopVars, jobVars, workVars, aborts, recovery, crashes>>

(* What follows processError: after a failed job enqueueExecution rejects  *)
(* and goes on; when there is no job it throws.                            *)
AfterError(x) == IF job[x] = "none" THEN "failed" ELSE "reading"

(* Mutant of CheckRow: the row is not looked at.                           *)
CheckNothing(x) ==
  /\ main[x] = "failing"
  /\ MainTo(x, "erring")
  /\ UNCHANGED <<row, entry, result, stopVars, jobVars, workVars, aborts, recovery, crashes>>

(* processError: a job may fail although its execution was successful.     *)
CheckRow(x) ==
  /\ main[x] = "failing"
  /\ MainTo(x, IF row[x] = "success" THEN AfterError(x) ELSE "erring")
  /\ UNCHANGED <<row, entry, result, stopVars, jobVars, workVars, aborts, recovery, crashes>>

FinalizeError(x) ==
  /\ main[x] = "erring"
  /\ CloseEntry(x)
  /\ MainTo(x, "savingError")
  /\ UNCHANGED <<row, result, stopVars, jobVars, workVars, aborts, recovery, crashes>>

(* processError's hook saves the error.                                    *)
SaveError(x) ==
  /\ main[x] = "savingError"
  /\ SetRow(x, "error")
  /\ MainTo(x, AfterError(x))
  /\ UNCHANGED <<entry, result, stopVars, jobVars, workVars, aborts, recovery, crashes>>

(* The outcome is in the row.                                              *)
ReadResult(x) ==
  /\ main[x] = "reading"
  /\ result' = [result EXCEPT ![x] = row[x]]
  /\ MainTo(x, "finalizing")
  /\ UNCHANGED <<row, entry, stopVars, jobVars, workVars, aborts, recovery, crashes>>

(* Mutant of Finalize: nobody tells the entry.                             *)
FinalizeSilently(x) ==
  /\ main[x] = "finalizing"
  /\ MainTo(x, "done")
  /\ UNCHANGED <<row, entry, result, stopVars, jobVars, workVars, aborts, recovery, crashes>>

Finalize(x) ==
  /\ main[x] = "finalizing"
  /\ CloseEntry(x)
  /\ MainTo(x, "done")
  /\ UNCHANGED <<row, result, stopVars, jobVars, workVars, aborts, recovery, crashes>>

(* The main process dies, and with it all it was doing. What it had in     *)
(* memory is not restored.                                                 *)
MainCrash ==
  LET dies(f, alive, dead) == [x \in Execution |-> IF f[x] \in alive THEN f[x] ELSE dead] IN
  /\ crashes.main < MainCrashes
  /\ crashes' = [crashes EXCEPT !.main = @ + 1]
  /\ entry' = [x \in Execution |-> "none"]
  /\ main' = dies(main, {"idle", "done"}, "failed")
  /\ canceller' = dies(canceller, {"idle"}, "done")
  /\ stopper' = dies(stopper, {"idle"}, "done")
  /\ recovery' = [pc |-> "idle", ids |-> {}]
  /\ UNCHANGED <<row, result, jobVars, workVars, aborts>>

-----------------------------------------------------------------------------
(* Stopping an execution: ExecutionService.stop, and the onCancel handler  *)
(* with ScalingService.stopJob                                             *)

StopRead(x) ==
  /\ x \in Stoppable /\ stopper[x] = "idle" /\ row[x] \in InProgress
  /\ stopper' = [stopper EXCEPT ![x] = "read"]
  /\ UNCHANGED <<row, mainVars, canceller, jobVars, workVars, aborts, recovery, crashes>>

(* stopExecution: the entry goes, and onCancel starts if the entry has the *)
(* workflowExecution already.                                              *)
StopActive(x) ==
  /\ stopper[x] = "read"
  /\ CloseEntry(x)
  /\ canceller' = IF entry[x] = "attached" THEN [canceller EXCEPT ![x] = "asked"] ELSE canceller
  /\ stopper' = [stopper EXCEPT ![x] = "writing"]
  /\ UNCHANGED <<row, main, result, jobVars, workVars, aborts, recovery, crashes>>

(* stopDuringRun                                                           *)
StopWrite(x) ==
  /\ stopper[x] = "writing"
  /\ SetRow(x, "canceled")
  /\ stopper' = [stopper EXCEPT ![x] = "done"]
  /\ UNCHANGED <<mainVars, canceller, jobVars, workVars, aborts, recovery, crashes>>

(* stopJob: job.isActive()                                                 *)
AskWhetherActive(x) ==
  /\ canceller[x] = "asked"
  /\ canceller' = [canceller EXCEPT ![x] = IF job[x] = "active" THEN "active" ELSE "inactive"]
  /\ UNCHANGED <<row, mainVars, stopper, jobVars, workVars, aborts, recovery, crashes>>

(* stopJob: job.remove() fails while a worker has the job's lock.          *)
RemoveJob(x) ==
  /\ canceller[x] = "inactive"
  /\ canceller' = [canceller EXCEPT ![x] = "done"]
  /\ SetJob(x, IF job[x] = "waiting" \/ (job[x] = "active" /\ lock[x] = Nobody)
               THEN "removed" ELSE job[x])
  /\ UNCHANGED <<row, mainVars, stopper, stalls, lock, lost, workVars, aborts, recovery, crashes>>

(* stopJob: job.progress() tells all workers, if the job is there still.   *)
SendAbort(x) ==
  /\ canceller[x] = "active"
  /\ IF job[x] \in {"waiting", "active"}
     THEN /\ canceller' = [canceller EXCEPT ![x] = "aborting"]
          /\ aborts' = aborts \cup (Worker \X {x})
     ELSE canceller' = [canceller EXCEPT ![x] = "done"] /\ UNCHANGED aborts
  /\ UNCHANGED <<row, mainVars, stopper, jobVars, workVars, recovery, crashes>>

(* stopJob: job.moveToFailed(.., true) takes an active job, whoever has it.*)
FailJob(x) ==
  /\ canceller[x] = "aborting"
  /\ canceller' = [canceller EXCEPT ![x] = "done"]
  /\ SetJob(x, IF job[x] = "active" THEN "aborted" ELSE job[x])
  /\ UNCHANGED <<row, mainVars, stopper, stalls, lock, lost, workVars, aborts, recovery, crashes>>

-----------------------------------------------------------------------------
(* A worker                                                                *)

PickUp(w, x) ==
  /\ job[x] = "waiting" /\ work[w][x] = "idle"
  /\ SetJob(x, "active")
  /\ lock' = [lock EXCEPT ![x] = w]
  /\ WorkTo(w, x, "picked")
  /\ cancelled' = cancelled \ {<<w, x>>}
  /\ UNCHANGED <<row, mainVars, stopVars, stalls, lost, cancelSave, aborts, recovery, crashes>>

(* processJob: an execution that was marked as crashed is not processed.   *)
ReadRow(w, x) ==
  /\ work[w][x] = "picked"
  /\ WorkTo(w, x, IF row[x] = "crashed" THEN "returned" ELSE "read")
  /\ UNCHANGED <<row, mainVars, stopVars, jobVars, cancelled, cancelSave, aborts, recovery, crashes>>

SetRunning(w, x) ==
  /\ work[w][x] = "read"
  /\ SetRow(x, "running")
  /\ WorkTo(w, x, "loading")
  /\ UNCHANGED <<mainVars, stopVars, jobVars, cancelled, cancelSave, aborts, recovery, crashes>>

(* processJob: the workflow is not found, or has issues, or starts and is  *)
(* registered among the running jobs.                                      *)
Start(w, x) ==
  /\ work[w][x] = "loading"
  /\ \E pc \in {"throwing", "refusing", "executing"} : WorkTo(w, x, pc)
  /\ UNCHANGED <<row, mainVars, stopVars, jobVars, cancelled, cancelSave, aborts, recovery, crashes>>

(* The hook that is called when the workflow has issues saves the error.   *)
Refuse(w, x) ==
  /\ work[w][x] = "refusing"
  /\ SetRow(x, "error")
  /\ WorkTo(w, x, "returned")
  /\ UNCHANGED <<mainVars, stopVars, jobVars, cancelled, cancelSave, aborts, recovery, crashes>>

(* The workflow ends; a cancelled one leaves the saving to its cancel hook.*)
Complete(w, x) ==
  /\ work[w][x] = "executing"
  /\ WorkTo(w, x, IF <<w, x>> \in cancelled THEN "saved" ELSE "saving")
  /\ UNCHANGED <<row, mainVars, stopVars, jobVars, cancelled, cancelSave, aborts, recovery, crashes>>

(* hookFunctionsSaveWorker                                                 *)
Save(w, x) ==
  /\ work[w][x] = "saving"
  /\ \E outcome \in {"success", "error"} : SetRow(x, outcome)
  /\ WorkTo(w, x, "saved")
  /\ UNCHANGED <<mainVars, stopVars, jobVars, cancelled, cancelSave, aborts, recovery, crashes>>

(* The same hook, which the cancellation calls without waiting for it.     *)
SaveCancelled(w, x) ==
  /\ <<w, x>> \in cancelSave
  /\ cancelSave' = cancelSave \ {<<w, x>>}
  /\ SetRow(x, "canceled")
  /\ UNCHANGED <<mainVars, stopVars, jobVars, work, cancelled, aborts, recovery, crashes>>

(* processJob has seen the workflow's end and reports it.                  *)
Finish(w, x) ==
  /\ work[w][x] = "saved"
  /\ WorkTo(w, x, "returned")
  /\ UNCHANGED <<row, mainVars, stopVars, jobVars, cancelled, cancelSave, aborts, recovery, crashes>>

(* Mutant of EndJob: nobody asks who has the lock.                         *)
EndJobOfAnother(w, x) ==
  /\ work[w][x] \in {"returned", "throwing"}
  /\ SetJob(x, IF job[x] # "active" THEN job[x]
               ELSE IF work[w][x] = "returned" THEN "completed" ELSE "failed")
  /\ WorkTo(w, x, "idle")
  /\ UNCHANGED <<row, mainVars, stopVars, stalls, lock, lost, cancelled, cancelSave, aborts, recovery, crashes>>

(* Bull hears how processJob ended, of one that still has the job's lock.  *)
EndJob(w, x) ==
  /\ work[w][x] \in {"returned", "throwing"}
  /\ SetJob(x, IF job[x] # "active" \/ lock[x] # w THEN job[x]
               ELSE IF work[w][x] = "returned" THEN "completed" ELSE "failed")
  /\ WorkTo(w, x, "idle")
  /\ UNCHANGED <<row, mainVars, stopVars, stalls, lock, lost, cancelled, cancelSave, aborts, recovery, crashes>>

(* JobProcessor.stopJob: a job is among the running ones from the start of *)
(* its workflow to its end, or to its cancellation.                        *)
ReceiveAbort(w, x) ==
  /\ <<w, x>> \in aborts
  /\ aborts' = aborts \ {<<w, x>>}
  /\ IF work[w][x] \in {"executing", "saving", "saved"} /\ <<w, x>> \notin cancelled
     THEN /\ cancelled' = cancelled \cup {<<w, x>>}
          /\ cancelSave' = IF work[w][x] = "saved" THEN cancelSave ELSE cancelSave \cup {<<w, x>>}
     ELSE UNCHANGED <<cancelled, cancelSave>>
  /\ UNCHANGED <<row, mainVars, stopVars, jobVars, work, recovery, crashes>>

(* A worker dies and starts again; its jobs lose their locks.              *)
WorkerCrash(w) ==
  LET its == {w} \X Execution IN
  /\ crashes.worker < WorkerCrashes
  /\ crashes' = [crashes EXCEPT !.worker = @ + 1]
  /\ work' = [work EXCEPT ![w] = [x \in Execution |-> "idle"]]
  /\ lock' = [x \in Execution |-> IF lock[x] = w THEN Nobody ELSE lock[x]]
  /\ cancelled' = cancelled \ its /\ cancelSave' = cancelSave \ its /\ aborts' = aborts \ its
  /\ UNCHANGED <<row, mainVars, stopVars, job, stalls, lost, recovery>>

(* A worker does not renew its lock in time, and works on without it.      *)
LoseLock(x) ==
  /\ job[x] = "active" /\ lock[x] # Nobody /\ crashes.lock < LockLosses
  /\ crashes' = [crashes EXCEPT !.lock = @ + 1]
  /\ lock' = [lock EXCEPT ![x] = Nobody]
  /\ lost' = lost \cup {x}
  /\ UNCHANGED <<row, mainVars, stopVars, job, stalls, workVars, aborts, recovery>>

(* Bull's check for stalled jobs: one whose lock is gone goes back to the  *)
(* queue, or fails when it has done so too often.                          *)
Stalled(x) ==
  /\ job[x] = "active" /\ lock[x] = Nobody
  /\ stalls' = [stalls EXCEPT ![x] = @ + 1]
  /\ SetJob(x, IF stalls[x] < MaxStalledCount THEN "waiting" ELSE "failed")
  /\ UNCHANGED <<row, mainVars, stopVars, lock, lost, workVars, aborts, recovery, crashes>>

-----------------------------------------------------------------------------
(* recoverFromQueue                                                        *)

(* Mutant of ReadStored: only the running ones.                            *)
ReadStoredRunning ==
  LET stored == {x \in Execution : row[x] = "running"} IN
  /\ recovery.pc = "idle" /\ stored # {}
  /\ recovery' = [pc |-> "stored", ids |-> stored]
  /\ UNCHANGED <<row, mainVars, stopVars, jobVars, workVars, aborts, crashes>>

(* getInProgressExecutionIds; a batch is large enough for all.             *)
ReadStored ==
  LET stored == {x \in Execution : row[x] \in InProgress} IN
  /\ recovery.pc = "idle" /\ stored # {}
  /\ recovery' = [pc |-> "stored", ids |-> stored]
  /\ UNCHANGED <<row, mainVars, stopVars, jobVars, workVars, aborts, crashes>>

(* findJobsByStatus: the executions that are not on the queue dangle.      *)
FindDangling ==
  LET dangling == {x \in recovery.ids : job[x] \notin {"waiting", "active"}} IN
  /\ recovery.pc = "stored"
  /\ recovery' = IF dangling = {} THEN [pc |-> "idle", ids |-> {}]
                                  ELSE [pc |-> "dangling", ids |-> dangling]
  /\ UNCHANGED <<row, mainVars, stopVars, jobVars, workVars, aborts, crashes>>

(* markAsCrashed, whatever the rows say by now.                            *)
MarkAsCrashed ==
  /\ recovery.pc = "dangling"
  /\ row' = [x \in Execution |-> IF x \in recovery.ids THEN "crashed" ELSE row[x]]
  /\ recovery' = [pc |-> "idle", ids |-> {}]
  /\ UNCHANGED <<mainVars, stopVars, jobVars, workVars, aborts, crashes>>

-----------------------------------------------------------------------------

MainStep(x) ==
  \/ CredentialsRejected(x) \/ AddJob(x) \/ AddJobFails(x) \/ Attach(x) \/ JobEnds(x)
  \/ CheckRow(x) \/ FinalizeError(x) \/ SaveError(x) \/ ReadResult(x) \/ Finalize(x)

StopStep(x) == StopActive(x) \/ StopWrite(x)
CancelStep(x) == AskWhetherActive(x) \/ RemoveJob(x) \/ SendAbort(x) \/ FailJob(x)

WorkStep(w, x) ==
  \/ ReadRow(w, x) \/ SetRunning(w, x) \/ Start(w, x) \/ Refuse(w, x) \/ Complete(w, x)
  \/ Save(w, x) \/ Finish(w, x) \/ EndJob(w, x)

Recover == ReadStored \/ FindDangling \/ MarkAsCrashed

Next ==
  \/ \E x \in Execution : \/ Create(x) \/ MainStep(x) \/ StopRead(x) \/ StopStep(x)
                          \/ CancelStep(x) \/ LoseLock(x) \/ Stalled(x)
  \/ \E w \in Worker, x \in Execution : \/ PickUp(w, x) \/ WorkStep(w, x) \/ SaveCancelled(w, x)
                                        \/ ReceiveAbort(w, x)
  \/ \E w \in Worker : WorkerCrash(w)
  \/ Recover \/ MainCrash

Spec == Init /\ [][Next]_vars

(* What has begun goes on, waiting jobs are picked up, messages arrive,    *)
(* Bull checks for stalled jobs and the leader for dangling executions.    *)
(* Nobody need create or stop an execution, and nothing need crash or lose *)
(* its lock.                                                               *)
FairSpec ==
  /\ Spec
  /\ \A x \in Execution :
       /\ WF_vars(MainStep(x)) /\ WF_vars(StopStep(x)) /\ WF_vars(CancelStep(x))
       /\ WF_vars(Stalled(x)) /\ WF_vars(\E w \in Worker : PickUp(w, x))
       /\ \A w \in Worker : /\ WF_vars(WorkStep(w, x)) /\ WF_vars(SaveCancelled(w, x))
                            /\ WF_vars(ReceiveAbort(w, x))
  /\ WF_vars(Recover)

-----------------------------------------------------------------------------
(* Properties                                                              *)

TypeOK ==
  /\ row \in [Execution -> {"none"} \cup InProgress \cup Final]
  /\ main \in [Execution -> MainPC]
  /\ entry \in [Execution -> {"none", "added", "attached"}]
  /\ result \in [Execution -> {"none"} \cup InProgress \cup Final]
  /\ canceller \in [Execution -> {"idle", "asked", "inactive", "active", "aborting", "done"}]
  /\ stopper \in [Execution -> {"idle", "read", "writing", "done"}]
  /\ job \in [Execution -> JobState]
  /\ stalls \in [Execution -> Nat]
  /\ lock \in [Execution -> Worker \cup {Nobody}] /\ lost \subseteq Execution
  /\ work \in [Worker -> [Execution -> WorkPC]]
  /\ cancelled \subseteq Worker \X Execution /\ cancelSave \subseteq Worker \X Execution
  /\ aborts \subseteq Worker \X Execution
  /\ recovery \in [pc : {"idle", "stored", "dangling"}, ids : SUBSET Execution]
  /\ crashes \in [main : 0..MainCrashes, worker : 0..WorkerCrashes, lock : 0..LockLosses]

Busy(x) == {w \in Worker : work[w][x] # "idle"}

(* A second worker works on an execution only when its job has stalled, a  *)
(* third when it has twice: no crash, removal or abort lets one more in.   *)
(* The worker that has the lock is at a job that no stop has removed.      *)
OneWorkerPerStall ==
  \A x \in Execution :
    /\ Cardinality(Busy(x)) <= 1 + stalls[x]
    /\ \A w \in Busy(x) : lock[x] = w => job[x] \in {"active", "aborted"}

(* What the caller of an execution gets is an end: the status enqueueExecution *)
(* reads from the row once the job has ended is never one in progress. A   *)
(* worker that has lost its lock may still set it to running.              *)
ResultIsFinal ==
  \A x \in Execution \ lost : main[x] = "finalizing" /\ entry[x] # "none" => result[x] \in Final

(* workflow-runner.ts:93, "first do a sanity run for the edge case that the*)
(* execution was not marked as stalled by Bull even though it executed     *)
(* successfully": the error that processError saves replaces no success.   *)
(* It may, when a worker that has lost its lock saves one after CheckRow.  *)
SuccessNotOverwritten ==
  [][\A x \in Execution : main[x] = "savingError" /\ main'[x] # main[x] /\ row[x] = "success"
                             => row'[x] = "success"]_vars

(* However processes crash, the row of an execution comes to say how it    *)
(* ended and stays so: none is left as new or running for ever.            *)
EveryRowSettles == \A x \in Execution : row[x] # "none" ~> [](row[x] \in Final)

(* The main lists no execution as active for ever.                         *)
EveryEntryCloses == \A x \in Execution : entry[x] # "none" ~> entry[x] = "none"
=============================================================================
