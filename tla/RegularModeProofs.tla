-------------------------- MODULE RegularModeProofs --------------------------
(***************************************************************************)
(* What holds of the executions of regular mode for any executions, calls  *)
(* of `run` and limit. The queue's part comes from ConcurrencyQueueProofs. *)
(***************************************************************************)
EXTENDS RegularMode, TLAPS

CQP == INSTANCE ConcurrencyQueueProofs WITH Caller <- Run, ExecutionId <- Execution

Begun(r) == run[r].pc # "idle"

(* The calls whose workflow may be under way, and those with an entry.     *)
Underway == {"executing", "saving", "saved"}
Listed == {"registered", "accepted", "starting"} \cup Underway

(* What a run has to have, to be where it is.                              *)
RunsOrderly ==
  \A r \in Run :
    /\ Begun(r) => run[r].execution \in Execution
    /\ run[r].pc = "saving" => run[r].outcome # "none"
    /\ run[r].timer => Begun(r)
    /\ r \in cancelSave => run[r].pc \in Underway \cup {"ended"}
    /\ promise[r] \in {"pending", "dropped"} => run[r].pc = "throttled"

(* TypeOK without the queue's part.                                        *)
RestTyped ==
  /\ enabled \in BOOLEAN /\ down \in BOOLEAN
  /\ db \in [Execution -> Row]
  /\ active \in [Execution -> Run \cup {NoRun}]
  /\ entry \in [Run -> Entry]
  /\ run \in [Run -> RunState]
  /\ cancelSave \subseteq Run
  /\ stopper \in [Execution -> StopState]
  /\ tracked \subseteq Execution /\ polled \in 0..Polls

Typed == RestTyped /\ CQP!IInv /\ RunsOrderly

-----------------------------------------------------------------------------
(* The queue                                                               *)

LEMMA QueueAssumed == CQP!QueueAssumption
BY RegularModeAssumption
DEF RegularModeAssumption, CQP!QueueAssumption, IsFiniteSet, CQP!IsFiniteSet

LEMMA QueueTypes == CQP!IInv => CQ!TypeOK /\ promise \in [Run -> CQ!PromiseState]
BY DEF CQP!IInv, CQP!TypeOK, CQ!TypeOK, CQP!Item, CQ!Item, CQP!PromiseState, CQ!PromiseState

LEMMA QueueRests ==
  ASSUME CQP!IInv, UNCHANGED queueVars
  PROVE  CQP!IInv'
BY DEF queueVars, CQP!IInv, CQP!TypeOK, CQP!QueueMatchesPromises, CQP!SlotsAccounted,
       CQP!WorkConserving, CQP!Admitted

(* throttle: nobody else's promise changes.                                *)
LEMMA ThrottleMoves ==
  ASSUME CQP!IInv, NEW r \in Run, NEW e \in Execution, Throttle(r, e)
  PROVE  /\ CQP!IInv'
         /\ \A d \in Run \ {r} : promise'[d] = promise[d]
         /\ IF enabled /\ e \in Limited THEN promise'[r] \in {"pending", "resolved"}
                                        ELSE promise'[r] = promise[r]
<1>1. CASE enabled /\ e \in Limited
  <2>1. CQP!Enqueue(r, e)
    BY <1>1 DEF Throttle, CQ!Enqueue, CQP!Enqueue
  <2>2. CQP!IInv'
    BY <2>1, QueueAssumed, CQP!EnqueuePreserves
  <2>3. promise \in [Run -> CQ!PromiseState]
    BY QueueTypes
  <2> QED
    BY <1>1, <2>1, <2>2, <2>3 DEF CQP!Enqueue
<1>2. CASE ~(enabled /\ e \in Limited)
  <2>1. UNCHANGED queueVars
    BY <1>2 DEF Throttle
  <2> QED
    BY <1>2, <2>1, QueueRests DEF queueVars
<1> QED
  BY <1>1, <1>2

(* The slot of run s is given back, if it holds one, and may go to one     *)
(* that waits.                                                             *)
Freed(s, e) ==
  /\ CQP!IInv'
  /\ promise'[s] = IF enabled /\ e \in Limited THEN "idle" ELSE promise[s]
  /\ \A d \in Run \ {s} :
       promise'[d] = promise[d] \/ (promise[d] = "pending" /\ promise'[d] = "resolved")

(* An unsettled entry that settles frees its slot and goes.                *)
LEMMA SettleMoves ==
  ASSUME CQP!IInv, NEW s \in Run, NEW e \in Execution, Settle(s, e)
  PROVE  IF entry[s].settled
         THEN UNCHANGED <<queueVars, active, entry>> /\ CQP!IInv'
         ELSE Freed(s, e)
<1>1. CASE entry[s].settled
  BY <1>1, QueueRests DEF Settle
<1>2. CASE ~entry[s].settled /\ enabled /\ e \in Limited
  <2>1. CQP!Dequeue(s)
    BY <1>2 DEF Settle, Release, CQ!Dequeue, CQP!Dequeue, CQ!ResolveNext, CQP!ResolveNext
  <2>2. CQP!IInv'
    BY <2>1, QueueAssumed, CQP!DequeuePreserves
  <2>3. /\ promise'[s] = "idle"
        /\ \A d \in Run \ {s} :
             promise'[d] = promise[d] \/ (promise[d] = "pending" /\ promise'[d] = "resolved")
    BY <2>1, QueueAssumed, CQP!DequeueMoves
  <2> QED
    BY <1>2, <2>2, <2>3 DEF Freed
<1>3. CASE ~entry[s].settled /\ ~(enabled /\ e \in Limited)
  <2>1. UNCHANGED queueVars
    BY <1>3 DEF Settle, Release
  <2>2. CQP!IInv'
    BY <2>1, QueueRests
  <2> QED
    BY <1>3, <2>1, <2>2 DEF Freed, queueVars
<1> QED
  BY <1>1, <1>2, <1>3

LEMMA RemovalMoves ==
  ASSUME CQP!IInv, NEW e \in Execution, CQ!RemoveFromQueue(e)
  PROVE  /\ CQP!IInv'
         /\ \A d \in Run :
              \/ promise'[d] = promise[d]
              \/ promise[d] = "pending" /\ promise'[d] \in {"resolved", "dropped"}
<1>1. CQP!RemoveFromQueue(e)
  BY DEF CQ!RemoveFromQueue, CQP!RemoveFromQueue, CQ!ResolveNext, CQP!ResolveNext,
         CQ!IsIndexOf, CQP!IsIndexOf, CQ!RemoveAt, CQP!RemoveAt
<1>2. CQP!IInv'
  BY <1>1, QueueAssumed, CQP!RemovePreserves
<1> QED
  BY <1>1, <1>2, QueueAssumed, CQP!RemoveMoves

-----------------------------------------------------------------------------
(* Types                                                                   *)

LEMMA SettleTyped ==
  ASSUME RestTyped, NEW s \in Run, NEW e \in Execution, Settle(s, e)
  PROVE  entry' \in [Run -> Entry] /\ active' \in [Execution -> Run \cup {NoRun}]
<1>1. CASE entry[s].settled
  BY <1>1 DEF Settle, RestTyped
<1>2. CASE ~entry[s].settled
  <2> DEFINE w == IF entry[s].status = "waiting" THEN NoRun ELSE entry[s].workflowExecution
  <2>1. entry' = [entry EXCEPT ![s] = [status |-> entry[s].status, settled |-> TRUE,
                    response |-> entry[s].response, workflowExecution |-> w]]
    BY <1>2 DEF Settle, RestTyped, Entry
  <2>2. entry' \in [Run -> Entry]
    <3>1. entry[s] \in Entry /\ w \in Run \cup {NoRun}
      BY DEF RestTyped, Entry
    <3>2. [status |-> entry[s].status, settled |-> TRUE,
           response |-> entry[s].response, workflowExecution |-> w] \in Entry
      BY <3>1 DEF Entry
    <3> QED
      BY <2>1, <3>2 DEF RestTyped
  <2>3. active' \in [Execution -> Run \cup {NoRun}]
    BY <1>2 DEF Settle, RestTyped
  <2> QED
    BY <2>2, <2>3
<1> QED
  BY <1>1, <1>2

(* stopExecution finds no entry, drops one that waits, or cancels.         *)
LEMMA StopCases ==
  ASSUME NEW e \in Execution, NEW runs, StopExecution(e, runs)
  PROVE  \/ /\ active[e] = NoRun \/ entry[active[e]].status = "waiting"
            /\ active' = [active EXCEPT ![e] = NoRun] \/ active' = active
            /\ run' = runs /\ UNCHANGED <<queueVars, entry, cancelSave>>
         \/ /\ active[e] # NoRun /\ entry[active[e]].status # "waiting"
            /\ Cancel(entry[active[e]].workflowExecution, runs)
            /\ Settle(active[e], e)
BY DEF StopExecution

LEMMA TypedHolds == Typed => TypeOK
BY QueueTypes DEF Typed, RestTyped, TypeOK

-----------------------------------------------------------------------------
(* What the steps do, field by field                                       *)

RowSet(e, status, waitTill) ==
  /\ db' \in [Execution -> Row]
  /\ \A d \in Execution \ {e} : db'[d] = db[d]
  /\ db'[e].status = status /\ db'[e].waitTill = waitTill

OnlyRun(r) ==
  /\ run' \in [Run -> RunState]
  /\ \A d \in Run \ {r} : run'[d] = run[d]

Begins(r, e, resumes, where) ==
  /\ OnlyRun(r)
  /\ run'[r].execution = e /\ run'[r].resumes = resumes /\ run'[r].pc = where
  /\ run'[r].outcome = run[r].outcome /\ run'[r].cancelled = run[r].cancelled
  /\ run'[r].timer = run[r].timer /\ run'[r].heard = run[r].heard

Turns(r, where, outcome, timer, heard) ==
  /\ OnlyRun(r)
  /\ run'[r].execution = run[r].execution /\ run'[r].resumes = run[r].resumes
  /\ run'[r].pc = where /\ run'[r].outcome = outcome /\ run'[r].cancelled = run[r].cancelled
  /\ run'[r].timer = timer /\ run'[r].heard = heard

Goes(r, where) == Turns(r, where, run[r].outcome, run[r].timer, run[r].heard)

LEMMA RunSet ==
  ASSUME RestTyped, NEW r \in Run, NEW s \in RunState, run' = [run EXCEPT ![r] = s]
  PROVE  OnlyRun(r) /\ run'[r] = s
BY DEF RestTyped, OnlyRun

LEMMA RowWritten ==
  ASSUME RestTyped, NEW e \in Execution, NEW row \in Row, SetRow(e, row)
  PROVE  RowSet(e, row.status, row.waitTill)
BY DEF RestTyped, SetRow, RowSet

LEMMA GotoGoes ==
  ASSUME RestTyped, NEW r \in Run, NEW where \in PC, Goto(r, where)
  PROVE  Goes(r, where)
<1> DEFINE s == [run[r] EXCEPT !.pc = where]
<1>1. run' = [run EXCEPT ![r] = s]
  BY DEF Goto, RestTyped
<1>2. run[r] \in RunState
  BY DEF RestTyped
<1>3. /\ s \in RunState
      /\ s.execution = run[r].execution /\ s.resumes = run[r].resumes /\ s.pc = where
      /\ s.outcome = run[r].outcome /\ s.cancelled = run[r].cancelled
      /\ s.timer = run[r].timer /\ s.heard = run[r].heard
  BY <1>2 DEF RunState
<1> HIDE DEF s
<1> QED
  BY <1>1, <1>3, RunSet DEF Goes, Turns

LEMMA CreateDoes ==
  ASSUME Typed, NEW r \in Run, NEW e \in Execution, Create(r, e)
  PROVE  /\ run[r].pc = "idle" /\ db[e].status = "none"
         /\ Begins(r, e, run[r].resumes, "created") /\ RowSet(e, "new", FALSE)
<1> DEFINE s == [run[r] EXCEPT !.execution = e, !.pc = "created"]
<1>1. run' = [run EXCEPT ![r] = s]
  BY DEF Create, Typed, RestTyped
<1>2. run[r] \in RunState
  BY DEF Typed, RestTyped
<1>3. /\ s \in RunState
      /\ s.execution = e /\ s.resumes = run[r].resumes /\ s.pc = "created"
      /\ s.outcome = run[r].outcome /\ s.cancelled = run[r].cancelled
      /\ s.timer = run[r].timer /\ s.heard = run[r].heard
  BY <1>2 DEF RunState, PC
<1> HIDE DEF s
<1>4. Begins(r, e, run[r].resumes, "created")
  BY <1>1, <1>3, RunSet DEF Typed, Begins
<1>5. RowSet(e, "new", FALSE)
  <2> DEFINE row == [status |-> "new", waitTill |-> FALSE, finished |-> FALSE]
  <2>1. row \in Row /\ row.status = "new" /\ row.waitTill = FALSE
    BY DEF Row, Status
  <2>2. SetRow(e, row)
    BY DEF Create
  <2> HIDE DEF row
  <2> QED
    BY <2>1, <2>2, RowWritten DEF Typed
<1> QED
  BY <1>4, <1>5 DEF Create, Fresh, At

LEMMA ResumeDoes ==
  ASSUME Typed, NEW r \in Run, NEW e \in Execution, Resume(r, e)
  PROVE  Begins(r, e, TRUE, "reading")
<1> DEFINE s == [run[r] EXCEPT !.execution = e, !.resumes = TRUE, !.pc = "reading"]
<1>1. run' = [run EXCEPT ![r] = s]
  BY DEF Resume, Typed, RestTyped
<1>2. run[r] \in RunState
  BY DEF Typed, RestTyped
<1>3. /\ s \in RunState
      /\ s.execution = e /\ s.resumes = TRUE /\ s.pc = "reading"
      /\ s.outcome = run[r].outcome /\ s.cancelled = run[r].cancelled
      /\ s.timer = run[r].timer /\ s.heard = run[r].heard
  BY <1>2 DEF RunState, PC
<1> HIDE DEF s
<1> QED
  BY <1>1, <1>3, RunSet DEF Typed, Begins

LEMMA UpdateDoes ==
  ASSUME Typed, NEW r \in Run, Update(r)
  PROVE  LET e == run[r].execution IN
         /\ run[r].pc = "throttled" /\ promise[r] \notin {"pending", "dropped"}
         /\ e \in Execution
         /\ Goes(r, "updated")
         /\ RowSet(e, "running", ~run[r].resumes /\ db[e].waitTill)
<1> DEFINE e == run[r].execution
<1>1. run[r].pc = "throttled" /\ promise[r] \notin {"pending", "dropped"}
  BY DEF Update, At
<1>2. e \in Execution
  BY <1>1 DEF Typed, RunsOrderly, Begun
<1>3. Goes(r, "updated")
  BY GotoGoes DEF Update, Typed, PC
<1>4. RowSet(e, "running", ~run[r].resumes /\ db[e].waitTill)
  <2> DEFINE row == IF run[r].resumes
                    THEN [db[e] EXCEPT !.status = "running", !.waitTill = FALSE]
                    ELSE [db[e] EXCEPT !.status = "running"]
  <2>1. db[e] \in Row /\ run[r].resumes \in BOOLEAN
    BY <1>2 DEF Typed, RestTyped, RunState
  <2>2. /\ row \in Row /\ row.status = "running"
        /\ row.waitTill = (~run[r].resumes /\ db[e].waitTill)
    BY <2>1 DEF Row, Status
  <2>3. SetRow(e, row)
    BY DEF Update
  <2> HIDE DEF row, e
  <2> QED
    BY <1>2, <2>2, <2>3, RowWritten DEF Typed
<1> QED
  BY <1>1, <1>2, <1>3, <1>4

LEMMA CredentialsRejectedDoes ==
  ASSUME Typed, NEW r \in Run, CredentialsRejected(r)
  PROVE  /\ run[r].pc = "registered"
         /\ Turns(r, "saving", "error", run[r].timer, TRUE)
<1> DEFINE s == [run[r] EXCEPT !.pc = "saving", !.outcome = "error", !.heard = TRUE]
<1>1. run' = [run EXCEPT ![r] = s]
  BY DEF CredentialsRejected, Typed, RestTyped
<1>2. run[r] \in RunState
  BY DEF Typed, RestTyped
<1>3. /\ s \in RunState
      /\ s.execution = run[r].execution /\ s.resumes = run[r].resumes /\ s.pc = "saving"
      /\ s.outcome = "error" /\ s.cancelled = run[r].cancelled
      /\ s.timer = run[r].timer /\ s.heard = TRUE
  BY <1>2 DEF RunState, PC
<1> HIDE DEF s
<1>4. Turns(r, "saving", "error", run[r].timer, TRUE)
  BY <1>1, <1>3, RunSet DEF Typed, Turns
<1> QED
  BY <1>4 DEF CredentialsRejected, At

LEMMA RegisterDoes ==
  ASSUME Typed, NEW r \in Run, Register(r)
  PROVE  /\ run[r].pc = "updated" /\ run[r].execution \in Execution
         /\ Goes(r, "registered")
         /\ active' = [active EXCEPT ![run[r].execution] = r]
         /\ entry' \in [Run -> Entry]
         /\ entry'[r].status = "running" /\ ~entry'[r].settled
         /\ \A d \in Run \ {r} : entry'[d] = entry[d]
<1> DEFINE x == active[run[r].execution]
           response == x # NoRun /\ entry[x].response
           new == [status |-> "running", settled |-> FALSE, workflowExecution |-> NoRun,
                   response |-> response]
<1>1. run[r].pc = "updated" /\ run[r].execution \in Execution
  BY DEF Register, At, Typed, RunsOrderly, Begun
<1>2. Goes(r, "registered")
  BY GotoGoes DEF Register, Typed, PC
<1>3. entry' = [entry EXCEPT ![r] = new]
  BY DEF Register
<1>4. new \in Entry /\ new.status = "running" /\ ~new.settled
  <2>1. x = NoRun \/ entry[x] \in Entry
    BY <1>1 DEF Typed, RestTyped
  <2>2. response \in BOOLEAN
    BY <2>1 DEF Entry
  <2> QED
    BY <2>2 DEF Entry
<1> HIDE DEF new
<1> QED
  BY <1>1, <1>2, <1>3, <1>4 DEF Register, Typed, RestTyped

LEMMA CredentialsAcceptedDoes ==
  ASSUME Typed, NEW r \in Run, CredentialsAccepted(r)
  PROVE  LET e == run[r].execution IN
         /\ run[r].pc = "registered" /\ e \in Execution
         /\ \/ active[e] = NoRun /\ Goes(r, "failed") /\ UNCHANGED entry
            \/ /\ Goes(r, "accepted")
               /\ entry' \in [Run -> Entry]
               /\ \A d \in Run : /\ entry'[d].status = entry[d].status
                                 /\ entry'[d].settled = entry[d].settled
                                 /\ entry'[d].workflowExecution = entry[d].workflowExecution
<1> DEFINE e == run[r].execution
           attaches == e \in Responding /\ ~run[r].resumes
<1>1. run[r].pc = "registered" /\ e \in Execution
  BY DEF CredentialsAccepted, At, Typed, RunsOrderly, Begun
<1>2. CASE attaches /\ active[e] = NoRun
  <2>1. Goes(r, "failed")
    BY <1>2, GotoGoes DEF CredentialsAccepted, Typed, PC
  <2> QED
    BY <1>1, <1>2, <2>1 DEF CredentialsAccepted
<1>3. CASE ~(attaches /\ active[e] = NoRun)
  <2>1. Goes(r, "accepted")
    BY <1>3, GotoGoes DEF CredentialsAccepted, Typed, PC
  <2>3. /\ entry' \in [Run -> Entry]
        /\ \A d \in Run : /\ entry'[d].status = entry[d].status
                          /\ entry'[d].settled = entry[d].settled
                          /\ entry'[d].workflowExecution = entry[d].workflowExecution
    <3>1. CASE attaches
      <4>1. active[e] \in Run
        BY <1>1, <1>3, <3>1 DEF Typed, RestTyped
      <4>2. entry' = [entry EXCEPT ![active[e]].response = TRUE]
        BY <1>3, <3>1 DEF CredentialsAccepted
      <4>3. entry \in [Run -> Entry]
        BY DEF Typed, RestTyped
      <4>4. entry[active[e]] \in Entry
        BY <4>1, <4>3
      <4> DEFINE new == [entry[active[e]] EXCEPT !.response = TRUE]
      <4>5. /\ new \in Entry
            /\ new.status = entry[active[e]].status
            /\ new.settled = entry[active[e]].settled
            /\ new.workflowExecution = entry[active[e]].workflowExecution
        BY <4>4 DEF Entry
      <4>6. entry' = [entry EXCEPT ![active[e]] = new]
        BY <4>2
      <4> HIDE DEF new, e, attaches
      <4> QED
        BY <4>1, <4>3, <4>5, <4>6
    <3>2. CASE ~attaches
      BY <1>3, <3>2 DEF CredentialsAccepted, Typed, RestTyped
    <3> QED
      BY <3>1, <3>2
  <2> QED
    BY <1>1, <2>1, <2>3
<1> QED
  BY <1>2, <1>3

LEMMA SetRunningDoes ==
  ASSUME Typed, NEW r \in Run, SetRunning(r)
  PROVE  LET e == run[r].execution IN
         /\ run[r].pc = "accepted" /\ e \in Execution
         /\ Goes(r, "starting")
         /\ RowSet(e, "running", db[e].waitTill)
<1> DEFINE e == run[r].execution
<1>1. run[r].pc = "accepted" /\ e \in Execution
  BY DEF SetRunning, At, Typed, RunsOrderly, Begun
<1>2. Goes(r, "starting")
  BY GotoGoes DEF SetRunning, Typed, PC
<1>3. RowSet(e, "running", db[e].waitTill)
  <2> DEFINE row == [db[e] EXCEPT !.status = "running"]
  <2>1. row \in Row /\ row.status = "running" /\ row.waitTill = db[e].waitTill
    BY <1>1 DEF Typed, RestTyped, Row, Status
  <2>2. SetRow(e, row)
    BY DEF SetRunning
  <2> HIDE DEF row, e
  <2> QED
    BY <1>1, <2>1, <2>2, RowWritten DEF Typed
<1> QED
  BY <1>1, <1>2, <1>3

LEMMA StartSets ==
  ASSUME NEW R, run \in [Run -> R], NEW r \in Run, NEW where, NEW timer, NEW heard,
         run' = [run EXCEPT ![r].pc = where, ![r].timer = timer, ![r].heard = heard]
  PROVE  run' = [run EXCEPT ![r] = [run[r] EXCEPT !.pc = where, !.timer = timer, !.heard = heard]]
OBVIOUS

LEMMA StartDoes ==
  ASSUME Typed, NEW r \in Run, Start(r)
  PROVE  LET e == run[r].execution IN
         /\ run[r].pc = "starting" /\ e \in Execution
         /\ \/ active[e] = NoRun /\ Goes(r, "executing") /\ UNCHANGED entry
            \/ /\ active[e] \in Run
               /\ \E t \in BOOLEAN : Turns(r, "executing", run[r].outcome, t, TRUE)
               /\ entry' \in [Run -> Entry]
               /\ entry'[active[e]].workflowExecution = r
               /\ \A d \in Run : /\ entry'[d].status = entry[d].status
                                 /\ entry'[d].settled = entry[d].settled
               /\ \A d \in Run \ {active[e]} : entry'[d] = entry[d]
<1> DEFINE e == run[r].execution
<1>1. run[r].pc = "starting" /\ e \in Execution
  BY DEF Start, At, Typed, RunsOrderly, Begun
<1>2. CASE active[e] = NoRun
  <2>1. Goes(r, "executing")
    BY <1>2, GotoGoes DEF Start, Typed, PC
  <2> QED
    BY <1>1, <1>2, <2>1 DEF Start
<1>3. CASE active[e] # NoRun
  <2>1. active[e] \in Run
    BY <1>1, <1>3 DEF Typed, RestTyped
  <2>2. \E t \in BOOLEAN : Turns(r, "executing", run[r].outcome, t, TRUE)
    <3> DEFINE t == e \in Timed
               s == [run[r] EXCEPT !.pc = "executing", !.timer = t, !.heard = TRUE]
    <3>1. run' = [run EXCEPT ![r].pc = "executing", ![r].timer = t, ![r].heard = TRUE]
      BY <1>3 DEF Start
    <3>2. t \in BOOLEAN
      OBVIOUS
    <3> HIDE DEF t
    <3>3. run \in [Run -> RunState] /\ run[r] \in RunState
      BY DEF Typed, RestTyped
    <3>4. run' = [run EXCEPT ![r] = s]
      BY <3>1, <3>3, StartSets
    <3>5. /\ s \in RunState
          /\ s.execution = run[r].execution /\ s.resumes = run[r].resumes /\ s.pc = "executing"
          /\ s.outcome = run[r].outcome /\ s.cancelled = run[r].cancelled
          /\ s.timer = t /\ s.heard = TRUE
      BY <3>2, <3>3 DEF RunState, PC
    <3> HIDE DEF s, e
    <3>6. Turns(r, "executing", run[r].outcome, t, TRUE)
      BY <3>4, <3>5, RunSet DEF Typed, Turns
    <3> QED
      BY <3>2, <3>6
  <2>3. /\ entry' \in [Run -> Entry]
        /\ entry'[active[e]].workflowExecution = r
        /\ \A d \in Run : /\ entry'[d].status = entry[d].status
                          /\ entry'[d].settled = entry[d].settled
        /\ \A d \in Run \ {active[e]} : entry'[d] = entry[d]
    <3>1. entry' = [entry EXCEPT ![active[e]].workflowExecution = r]
      BY <1>3 DEF Start
    <3> HIDE DEF e
    <3> QED
      BY <2>1, <3>1 DEF Typed, RestTyped, Entry
  <2> QED
    BY <1>1, <2>1, <2>2, <2>3
<1> QED
  BY <1>2, <1>3

(* An entry that settles leaves the list, unless it waits.                 *)
LEMMA SettleDoes ==
  ASSUME Typed, NEW s \in Run, NEW e \in Execution, Settle(s, e)
  PROVE  /\ CQP!IInv'
         /\ entry' \in [Run -> Entry] /\ active' \in [Execution -> Run \cup {NoRun}]
         /\ \A d \in Run : /\ entry'[d].status = entry[d].status
                           /\ d # s => entry'[d] = entry[d]
         /\ entry[s].status # "waiting" =>
              entry'[s].workflowExecution = entry[s].workflowExecution
         /\ IF entry[s].settled THEN UNCHANGED <<queueVars, active, entry>>
            ELSE /\ Freed(s, e)
                 /\ active' = IF entry[s].status = "waiting" THEN active
                              ELSE [active EXCEPT ![e] = NoRun]
<1>1. CQP!IInv' /\ (~entry[s].settled => Freed(s, e))
  BY SettleMoves DEF Typed, Freed
<1>2. entry' \in [Run -> Entry] /\ active' \in [Execution -> Run \cup {NoRun}]
  BY SettleTyped DEF Typed
<1>3. CASE entry[s].settled
  BY <1>1, <1>2, <1>3 DEF Settle
<1>4. CASE ~entry[s].settled
  <2>1. /\ \A d \in Run : /\ entry'[d].status = entry[d].status
                          /\ d # s => entry'[d] = entry[d]
        /\ entry[s].status # "waiting" =>
             entry'[s].workflowExecution = entry[s].workflowExecution
    BY <1>4 DEF Settle, Typed, RestTyped, Entry
  <2>2. active' = IF entry[s].status = "waiting" THEN active
                  ELSE [active EXCEPT ![e] = NoRun]
    BY <1>4 DEF Settle
  <2> QED
    BY <1>1, <1>2, <1>4, <2>1, <2>2
<1> QED
  BY <1>3, <1>4

(* Nobody is queued, and nobody removed.                                   *)
NobodyQueued ==
  \A d \in Run : promise'[d] \in {"pending", "dropped"} => promise'[d] = promise[d]

LEMMA SettleQueuesNobody ==
  ASSUME Typed, NEW s \in Run, NEW e \in Execution, Settle(s, e)
  PROVE  NobodyQueued
<1>1. CASE entry[s].settled
  BY <1>1, SettleDoes DEF NobodyQueued, queueVars
<1>2. CASE ~entry[s].settled
  <2>1. Freed(s, e)
    BY <1>2, SettleDoes
  <2> QED
    BY <2>1 DEF Freed, NobodyQueued
<1> QED
  BY <1>1, <1>2

LEMMA StartFailsDoes ==
  ASSUME Typed, NEW r \in Run, StartFails(r)
  PROVE  LET e == run[r].execution IN
         /\ run[r].pc = "starting" /\ e \in Execution
         /\ Turns(r, "saving", "error", run[r].timer, run[r].heard)
         /\ \/ active[e] = NoRun /\ UNCHANGED <<queueVars, active, entry>>
            \/ active[e] \in Run /\ Settle(active[e], e)
<1> DEFINE s == [run[r] EXCEPT !.pc = "saving", !.outcome = "error"]
<1>1. run' = [run EXCEPT ![r] = s]
  BY DEF StartFails, Typed, RestTyped
<1>2. run[r] \in RunState
  BY DEF Typed, RestTyped
<1>3. /\ s \in RunState
      /\ s.execution = run[r].execution /\ s.resumes = run[r].resumes /\ s.pc = "saving"
      /\ s.outcome = "error" /\ s.cancelled = run[r].cancelled
      /\ s.timer = run[r].timer /\ s.heard = run[r].heard
  BY <1>2 DEF RunState, PC
<1> HIDE DEF s
<1>4. Turns(r, "saving", "error", run[r].timer, run[r].heard)
  BY <1>1, <1>3, RunSet DEF Typed, Turns
<1>5. run[r].pc = "starting" /\ run[r].execution \in Execution
  BY DEF StartFails, At, Typed, RunsOrderly, Begun
<1> QED
  BY <1>4, <1>5 DEF StartFails, Typed, RestTyped

LEMMA PutToWaitDoes ==
  ASSUME Typed, NEW r \in Run, PutToWait(r)
  PROVE  /\ run[r].pc = "executing" /\ run[r].execution \in Waiting
         /\ \E o \in {"error", "waiting"} :
              Turns(r, "executing", o, run[r].timer, run[r].heard)
         /\ entry' \in [Run -> Entry]
<1> DEFINE x == active[run[r].execution]
<1>1. run[r].pc = "executing" /\ run[r].execution \in Waiting /\ run[r].execution \in Execution
  BY DEF PutToWait, At, Typed, RunsOrderly, Begun
<1>2. ASSUME NEW o \in {"error", "waiting"}, run' = [run EXCEPT ![r].outcome = o]
      PROVE  Turns(r, "executing", o, run[r].timer, run[r].heard)
  <2> DEFINE s == [run[r] EXCEPT !.outcome = o]
  <2>1. run' = [run EXCEPT ![r] = s]
    BY <1>2 DEF Typed, RestTyped
  <2>2. run[r] \in RunState
    BY DEF Typed, RestTyped
  <2>3. /\ s \in RunState
        /\ s.execution = run[r].execution /\ s.resumes = run[r].resumes /\ s.pc = run[r].pc
        /\ s.outcome = o /\ s.cancelled = run[r].cancelled
        /\ s.timer = run[r].timer /\ s.heard = run[r].heard
    BY <2>2 DEF RunState
  <2> HIDE DEF s
  <2> QED
    BY <1>1, <2>1, <2>3, RunSet DEF Typed, Turns
<1>3. CASE x = NoRun
  <2>1. run' = [run EXCEPT ![r].outcome = "error"] /\ entry' = entry
    BY <1>3 DEF PutToWait
  <2> QED
    BY <1>1, <1>2, <2>1 DEF Typed, RestTyped
<1>4. CASE x # NoRun
  <2>1. run' = [run EXCEPT ![r].outcome = "waiting"]
    BY <1>4 DEF PutToWait
  <2>2. x \in Run
    BY <1>1, <1>4 DEF Typed, RestTyped
  <2>3. entry' = [entry EXCEPT ![x].status = "waiting"]
    BY <1>4 DEF PutToWait
  <2>4. entry' \in [Run -> Entry]
    BY <2>2, <2>3 DEF Typed, RestTyped, Entry
  <2> QED
    BY <1>1, <1>2, <2>1, <2>4
<1> QED
  BY <1>3, <1>4

LEMMA CompleteDoes ==
  ASSUME Typed, NEW r \in Run, NEW o \in {"success", "error", "waiting"}, Complete(r, o)
  PROVE  /\ run[r].pc = "executing"
         /\ run[r].outcome = "none" => o # "waiting"
         /\ run[r].outcome # "none" => o = run[r].outcome
         /\ \E where \in {"saving", "saved"} : Turns(r, where, o, run[r].timer, run[r].heard)
<1>1. PICK where \in {"saving", "saved"} :
        run' = [run EXCEPT ![r].outcome = o, ![r].pc = where]
  BY DEF Complete
<1> DEFINE s == [run[r] EXCEPT !.outcome = o, !.pc = where]
<1>2. run' = [run EXCEPT ![r] = s]
  BY <1>1 DEF Typed, RestTyped
<1>3. run[r] \in RunState
  BY DEF Typed, RestTyped
<1>4. /\ s \in RunState
      /\ s.execution = run[r].execution /\ s.resumes = run[r].resumes /\ s.pc = where
      /\ s.outcome = o /\ s.cancelled = run[r].cancelled
      /\ s.timer = run[r].timer /\ s.heard = run[r].heard
  BY <1>3 DEF RunState, PC
<1> HIDE DEF s
<1>5. Turns(r, where, o, run[r].timer, run[r].heard)
  BY <1>2, <1>4, RunSet DEF Typed, Turns
<1> QED
  BY <1>5 DEF Complete, At

LEMMA SaveDoes ==
  ASSUME Typed, NEW r \in Run, Save(r)
  PROVE  LET e == run[r].execution IN
         /\ run[r].pc = "saving" /\ e \in Execution
         /\ Goes(r, "saved")
         /\ RowSet(e, run[r].outcome, db[e].waitTill \/ run[r].outcome = "waiting")
<1> DEFINE e == run[r].execution
           o == run[r].outcome
           waits == db[e].waitTill \/ o = "waiting"
           done == o = "success"
           row == [status |-> o, waitTill |-> waits, finished |-> done]
<1>1. run[r].pc = "saving" /\ e \in Execution
  BY DEF Save, At, Typed, RunsOrderly, Begun
<1>2. Goes(r, "saved")
  BY GotoGoes DEF Save, Typed, PC
<1>3. SetRow(e, row)
  BY DEF Save
<1>4. o \in Status
  BY <1>1 DEF Typed, RestTyped, RunState, RunsOrderly, Status
<1>5. waits \in BOOLEAN /\ done \in BOOLEAN
  BY <1>1 DEF Typed, RestTyped, Row
<1> HIDE DEF waits, done, e, o
<1>6. row \in Row /\ row.status = o /\ row.waitTill = waits
  BY <1>4, <1>5 DEF Row
<1> HIDE DEF row
<1>7. RowSet(e, o, waits)
  BY <1>1, <1>3, <1>6, RowWritten DEF Typed
<1> QED
  BY <1>1, <1>2, <1>7 DEF waits, e, o

LEMMA SaveCancelledDoes ==
  ASSUME Typed, NEW r \in Run, SaveCancelled(r)
  PROVE  LET e == run[r].execution IN
         /\ r \in cancelSave /\ run[r].pc \in Underway \cup {"ended"} /\ e \in Execution
         /\ RowSet(e, "canceled", db[e].waitTill)
<1> DEFINE e == run[r].execution
           row == [db[e] EXCEPT !.status = "canceled", !.finished = FALSE]
<1>1. r \in cancelSave /\ run[r].pc \in Underway \cup {"ended"}
  BY DEF SaveCancelled, Typed, RunsOrderly
<1>2. e \in Execution
  BY <1>1 DEF Underway, Typed, RunsOrderly, Begun
<1>3. db[e] \in Row
  BY <1>2 DEF Typed, RestTyped
<1>4. row \in Row /\ row.status = "canceled" /\ row.waitTill = db[e].waitTill
  BY <1>3 DEF Row, Status
<1>5. SetRow(e, row)
  BY DEF SaveCancelled
<1> HIDE DEF row, e
<1>6. RowSet(e, "canceled", db[e].waitTill)
  BY <1>2, <1>4, <1>5, RowWritten DEF Typed
<1> QED
  BY <1>1, <1>2, <1>6 DEF e

LEMMA FinalizeDoes ==
  ASSUME Typed, NEW r \in Run, Finalize(r)
  PROVE  LET e == run[r].execution IN
         /\ run[r].pc = "saved" /\ e \in Execution
         /\ Turns(r, "ended", run[r].outcome, FALSE, run[r].heard)
         /\ \/ /\ ~run[r].heard \/ active[e] = NoRun
               /\ UNCHANGED <<queueVars, active, entry>>
            \/ run[r].heard /\ active[e] \in Run /\ Settle(active[e], e)
<1> DEFINE s == [run[r] EXCEPT !.pc = "ended", !.timer = FALSE]
<1>1. run' = [run EXCEPT ![r] = s]
  BY DEF Finalize, Typed, RestTyped
<1>2. run[r] \in RunState
  BY DEF Typed, RestTyped
<1>3. /\ s \in RunState
      /\ s.execution = run[r].execution /\ s.resumes = run[r].resumes /\ s.pc = "ended"
      /\ s.outcome = run[r].outcome /\ s.cancelled = run[r].cancelled
      /\ s.timer = FALSE /\ s.heard = run[r].heard
  BY <1>2 DEF RunState, PC
<1> HIDE DEF s
<1>4. Turns(r, "ended", run[r].outcome, FALSE, run[r].heard)
  BY <1>1, <1>3, RunSet DEF Typed, Turns
<1>5. run[r].pc = "saved" /\ run[r].execution \in Execution
  BY DEF Finalize, At, Typed, RunsOrderly, Begun
<1> QED
  BY <1>4, <1>5 DEF Finalize, Typed, RestTyped

(* No run moves, and only one whose workflow is under way is cancelled.    *)
RunsStay ==
  /\ run' \in [Run -> RunState]
  /\ \A d \in Run :
       /\ run'[d].execution = run[d].execution /\ run'[d].resumes = run[d].resumes
       /\ run'[d].pc = run[d].pc /\ run'[d].outcome = run[d].outcome
       /\ run'[d].heard = run[d].heard
       /\ run'[d].timer => run[d].timer
       /\ run[d].cancelled => run'[d].cancelled
       /\ run'[d].cancelled => run[d].cancelled \/ run[d].pc \in Underway
       /\ d \in cancelSave' => d \in cancelSave \/ run[d].pc \in Underway

(* What a caller of stopExecution leaves: a timeout's timer is off.        *)
LEMMA CallersRuns ==
  ASSUME Typed, NEW runs,
         runs = run \/ \E t \in Run : runs = [run EXCEPT ![t].timer = FALSE]
  PROVE  /\ runs \in [Run -> RunState]
         /\ \A d \in Run :
              /\ runs[d].execution = run[d].execution /\ runs[d].resumes = run[d].resumes
              /\ runs[d].pc = run[d].pc /\ runs[d].outcome = run[d].outcome
              /\ runs[d].heard = run[d].heard /\ runs[d].cancelled = run[d].cancelled
              /\ runs[d].timer => run[d].timer
<1>1. CASE runs = run
  BY <1>1 DEF Typed, RestTyped
<1>2. ASSUME NEW t \in Run, runs = [run EXCEPT ![t].timer = FALSE]
      PROVE  /\ runs \in [Run -> RunState]
             /\ \A d \in Run :
                  /\ runs[d].execution = run[d].execution /\ runs[d].resumes = run[d].resumes
                  /\ runs[d].pc = run[d].pc /\ runs[d].outcome = run[d].outcome
                  /\ runs[d].heard = run[d].heard /\ runs[d].cancelled = run[d].cancelled
                  /\ runs[d].timer => run[d].timer
  <2> DEFINE s == [run[t] EXCEPT !.timer = FALSE]
  <2>1. run[t] \in RunState /\ run \in [Run -> RunState]
    BY DEF Typed, RestTyped
  <2>2. /\ s \in RunState
        /\ s.execution = run[t].execution /\ s.resumes = run[t].resumes
        /\ s.pc = run[t].pc /\ s.outcome = run[t].outcome
        /\ s.heard = run[t].heard /\ s.cancelled = run[t].cancelled /\ ~s.timer
    BY <2>1 DEF RunState
  <2>3. runs = [run EXCEPT ![t] = s]
    BY <1>2, <2>1
  <2> HIDE DEF s
  <2> QED
    BY <2>1, <2>2, <2>3
<1> QED
  BY <1>1, <1>2

LEMMA CancelDoes ==
  ASSUME Typed, NEW k, NEW runs,
         runs = run \/ \E t \in Run : runs = [run EXCEPT ![t].timer = FALSE],
         Cancel(k, runs)
  PROVE  /\ RunsStay /\ cancelSave' \subseteq Run
         /\ Cancellable(k) => run'[k].cancelled
<1>1. /\ runs \in [Run -> RunState]
      /\ \A d \in Run :
           /\ runs[d].execution = run[d].execution /\ runs[d].resumes = run[d].resumes
           /\ runs[d].pc = run[d].pc /\ runs[d].outcome = run[d].outcome
           /\ runs[d].heard = run[d].heard /\ runs[d].cancelled = run[d].cancelled
           /\ runs[d].timer => run[d].timer
  BY CallersRuns
<1>2. CASE Cancellable(k) /\ ~run[k].cancelled
  <2>1. k \in Run /\ run' = [runs EXCEPT ![k].cancelled = TRUE] /\ cancelSave' = cancelSave \cup {k}
    BY <1>2 DEF Cancel, Cancellable
  <2>2. run[k].pc \in Underway
    BY <1>2 DEF Cancellable, Underway
  <2> DEFINE s == [runs[k] EXCEPT !.cancelled = TRUE]
  <2>3. /\ s \in RunState
        /\ s.execution = runs[k].execution /\ s.resumes = runs[k].resumes
        /\ s.pc = runs[k].pc /\ s.outcome = runs[k].outcome
        /\ s.heard = runs[k].heard /\ s.timer = runs[k].timer /\ s.cancelled
    BY <1>1, <2>1 DEF RunState
  <2>4. run' = [runs EXCEPT ![k] = s]
    BY <1>1, <2>1
  <2> HIDE DEF s
  <2>5. /\ run' \in [Run -> RunState] /\ run'[k] = s
        /\ \A d \in Run \ {k} : run'[d] = runs[d]
    BY <1>1, <2>1, <2>3, <2>4
  <2> QED
    BY <1>1, <2>1, <2>2, <2>3, <2>5 DEF RunsStay, Typed, RestTyped
<1>3. CASE ~(Cancellable(k) /\ ~run[k].cancelled)
  <2>1. run' = runs /\ cancelSave' = cancelSave
    BY <1>3 DEF Cancel
  <2>2. Cancellable(k) => k \in Run
    BY DEF Cancellable
  <2> QED
    BY <1>1, <1>3, <2>1, <2>2 DEF RunsStay, Typed, RestTyped
<1> QED
  BY <1>2, <1>3

LEMMA StopDoes ==
  ASSUME Typed, NEW e \in Execution, NEW runs,
         runs = run \/ \E t \in Run : runs = [run EXCEPT ![t].timer = FALSE],
         StopExecution(e, runs)
  PROVE  /\ RunsStay /\ cancelSave' \subseteq Run
         /\ \/ /\ active[e] = NoRun \/ entry[active[e]].status = "waiting"
               /\ active' = [active EXCEPT ![e] = NoRun] \/ active' = active
               /\ UNCHANGED <<queueVars, entry>>
            \/ /\ active[e] \in Run /\ entry[active[e]].status # "waiting"
               /\ Settle(active[e], e)
               /\ Cancellable(entry[active[e]].workflowExecution) =>
                    run'[entry[active[e]].workflowExecution].cancelled
<1>1. CASE /\ active[e] = NoRun \/ entry[active[e]].status = "waiting"
           /\ active' = [active EXCEPT ![e] = NoRun] \/ active' = active
           /\ run' = runs /\ UNCHANGED <<queueVars, entry, cancelSave>>
  BY <1>1, CallersRuns DEF RunsStay, Typed, RestTyped
<1>2. CASE /\ active[e] # NoRun /\ entry[active[e]].status # "waiting"
           /\ Cancel(entry[active[e]].workflowExecution, runs)
           /\ Settle(active[e], e)
  BY <1>2, CancelDoes DEF Typed, RestTyped
<1> QED
  BY <1>1, <1>2, StopCases

(* Shutdown's effect on the entries: those listed after it are those that  *)
(* were, less the ones it settles or drops.                                *)
LEMMA ShutdownDoes ==
  ASSUME Typed, Shutdown
  PROVE  /\ RunsStay /\ cancelSave' \subseteq Run
         /\ entry' \in [Run -> Entry] /\ active' \in [Execution -> Run \cup {NoRun}]
         /\ \A d \in Run : entry'[d].status = entry[d].status
         /\ \A e \in Execution :
              active'[e] # NoRun =>
                active'[e] = active[e] /\ entry'[active[e]].settled = entry[active[e]].settled
<1> DEFINE has(e) == active[e] # NoRun
           waits(e) == has(e) /\ entry[active[e]].status = "waiting"
           stops(e) == has(e) /\ ~waits(e) /\ entry[active[e]].response
           settles == {s \in Run : ~entry[s].settled /\ \E e \in Execution : stops(e) /\ active[e] = s}
           cancels == {k \in Run : /\ Cancellable(k) /\ ~run[k].cancelled
                                  /\ \E e \in Execution :
                                       stops(e) /\ entry[active[e]].workflowExecution = k}
<1>1. /\ active' = [e \in Execution |->
                     IF waits(e) \/ active[e] \in settles THEN NoRun ELSE active[e]]
      /\ entry' = [s \in Run |-> IF s \in settles THEN [entry[s] EXCEPT !.settled = TRUE] ELSE entry[s]]
      /\ run' = [k \in Run |-> IF k \in cancels THEN [run[k] EXCEPT !.cancelled = TRUE] ELSE run[k]]
      /\ cancelSave' = cancelSave \cup cancels
  BY DEF Shutdown
<1>2. \A k \in cancels : k \in Run /\ run[k].pc \in Underway
  BY DEF Cancellable, Underway
<1> HIDE DEF settles, cancels, waits
<1>3. RunsStay /\ cancelSave' \subseteq Run
  BY <1>1, <1>2, ZenonT(60) DEF RunsStay, Typed, RestTyped, RunState
<1>4. entry' \in [Run -> Entry] /\ \A d \in Run : entry'[d].status = entry[d].status
  BY <1>1 DEF Typed, RestTyped, Entry
<1>5. active' \in [Execution -> Run \cup {NoRun}]
  BY <1>1 DEF Typed, RestTyped
<1>6. \A e \in Execution :
        active'[e] # NoRun =>
          active'[e] = active[e] /\ entry'[active[e]].settled = entry[active[e]].settled
  BY <1>1 DEF Typed, RestTyped
<1> QED
  BY <1>3, <1>4, <1>5, <1>6

-----------------------------------------------------------------------------
(* Every step keeps the types, the queue and the runs in order             *)

LEMMA InitTyped == Init => Typed
<1> SUFFICES ASSUME Init PROVE Typed
  OBVIOUS
<1>1. CQP!IInv
  <2>1. CQP!Init
    BY DEF Init, CQ!Init, CQP!Init
  <2> QED
    BY <2>1, QueueAssumed, CQP!InitEstablishes
<1>2. db \in [Execution -> Row] /\ entry \in [Run -> Entry]
  BY DEF Init, Row, Status, Entry
<1>3. run \in [Run -> RunState] /\ stopper \in [Execution -> StopState]
  BY DEF Init, RunState, PC, StopState
<1>4. RestTyped
  <2>1. 0 \in 0..Polls
    BY RegularModeAssumption DEF RegularModeAssumption
  <2>2. /\ enabled \in BOOLEAN /\ down \in BOOLEAN
        /\ active \in [Execution -> Run \cup {NoRun}]
        /\ cancelSave = {} /\ tracked = {} /\ polled = 0
    BY DEF Init
  <2> QED
    BY <1>2, <1>3, <2>1, <2>2 DEF RestTyped
<1>5. RunsOrderly
  BY DEF Init, CQ!Init, RunsOrderly, Begun
<1> QED
  BY <1>1, <1>4, <1>5 DEF Typed

LEMMA QuietQueue ==
  ASSUME Typed, UNCHANGED queueVars
  PROVE  CQP!IInv' /\ NobodyQueued
BY QueueRests DEF Typed, NobodyQueued, queueVars

LEMMA OrderlyBegins ==
  ASSUME Typed, NEW r \in Run, NEW e \in Execution, NEW resumes,
         NEW where \in {"created", "reading"},
         run[r].pc = "idle", Begins(r, e, resumes, where), NobodyQueued, cancelSave' = cancelSave
  PROVE  RunsOrderly'
<1>1. ASSUME NEW d \in Run \ {r}
      PROVE  /\ Begun(d)' => run'[d].execution \in Execution
             /\ run'[d].pc = "saving" => run'[d].outcome # "none"
             /\ run'[d].timer => Begun(d)'
             /\ d \in cancelSave' => run'[d].pc \in Underway \cup {"ended"}
             /\ promise'[d] \in {"pending", "dropped"} => run'[d].pc = "throttled"
  BY <1>1 DEF Typed, RunsOrderly, Begins, OnlyRun, NobodyQueued, Begun
<1>2. r \notin cancelSave' /\ promise'[r] \notin {"pending", "dropped"}
  BY DEF Typed, RunsOrderly, NobodyQueued, Underway
<1>3. run'[r].pc = where /\ run'[r].execution = e
  BY DEF Begins
<1> QED
  BY <1>1, <1>2, <1>3 DEF RunsOrderly, Begun

LEMMA OrderlyTurns ==
  ASSUME Typed, NEW r \in Run, NEW where \in PC \ {"idle"}, NEW outcome, NEW timer, NEW heard,
         Turns(r, where, outcome, timer, heard), NobodyQueued, cancelSave' = cancelSave,
         Begun(r), where = "saving" => outcome # "none",
         run[r].pc \in Underway \cup {"ended"} => where \in Underway \cup {"ended"},
         promise[r] \notin {"pending", "dropped"}
  PROVE  RunsOrderly'
BY DEF Typed, RunsOrderly, Begun, Turns, OnlyRun, NobodyQueued

LEMMA OrderlyStays ==
  ASSUME Typed, RunsStay, NobodyQueued
  PROVE  RunsOrderly'
BY DEF Typed, RunsOrderly, Begun, RunsStay, NobodyQueued, Underway

(* The steps that leave the queue and the entries alone.                   *)
LEMMA PlainStepTyped ==
  ASSUME Typed, NEW r \in Run, NEW e \in Execution, NEW o \in {"success", "error", "waiting"},
         \/ Create(r, e) \/ Update(r) \/ CredentialsRejected(r) \/ SetRunning(r) \/ Complete(r, o)
         \/ Save(r) \/ SaveCancelled(r) \/ TimerFires(r, e) \/ WebhookResumes(r, e)
  PROVE  Typed'
<1>1. CQP!IInv' /\ NobodyQueued
  <2>1. UNCHANGED queueVars
    BY DEF Create, Update, CredentialsRejected, SetRunning, Complete, Save, SaveCancelled,
           TimerFires, WebhookResumes
  <2> QED
    BY <2>1, QuietQueue
<1>2. CASE Create(r, e)
  <2>1. RestTyped'
    BY <1>2, CreateDoes DEF Create, Typed, RestTyped, Begins, OnlyRun, RowSet
  <2>2. run[r].pc = "idle" /\ Begins(r, e, run[r].resumes, "created") /\ cancelSave' = cancelSave
    BY <1>2, CreateDoes DEF Create
  <2>3. RunsOrderly'
    BY <1>1, <2>2, OrderlyBegins
  <2> QED
    BY <1>1, <2>1, <2>3 DEF Typed
<1>3. CASE Update(r)
  <2>1. RestTyped'
    BY <1>3, UpdateDoes DEF Update, Typed, RestTyped, Goes, Turns, OnlyRun, RowSet
  <2>2. RunsOrderly'
    BY <1>1, <1>3, UpdateDoes, OrderlyTurns DEF Update, Goes, PC, Begun, Underway
  <2> QED
    BY <1>1, <2>1, <2>2 DEF Typed
<1>4. CASE CredentialsRejected(r)
  <2>1. RestTyped'
    BY <1>4, CredentialsRejectedDoes DEF CredentialsRejected, Typed, RestTyped, Turns, OnlyRun
  <2>2. RunsOrderly'
    BY <1>1, <1>4, CredentialsRejectedDoes, OrderlyTurns
    DEF CredentialsRejected, Typed, RunsOrderly, PC, Begun, Underway
  <2> QED
    BY <1>1, <2>1, <2>2 DEF Typed
<1>5. CASE Complete(r, o)
  <2>1. RestTyped'
    BY <1>5, CompleteDoes DEF Complete, Typed, RestTyped, Turns, OnlyRun
  <2>2. RunsOrderly'
    BY <1>1, <1>5, CompleteDoes, OrderlyTurns
    DEF Complete, Typed, RunsOrderly, PC, Begun, Underway
  <2> QED
    BY <1>1, <2>1, <2>2 DEF Typed
<1>6. CASE Save(r)
  <2>1. RestTyped'
    BY <1>6, SaveDoes DEF Save, Typed, RestTyped, Goes, Turns, OnlyRun, RowSet
  <2>2. RunsOrderly'
    BY <1>1, <1>6, SaveDoes, OrderlyTurns
    DEF Save, Goes, Typed, RunsOrderly, PC, Begun, Underway
  <2> QED
    BY <1>1, <2>1, <2>2 DEF Typed
<1>7. CASE SaveCancelled(r)
  <2>1. RestTyped'
    BY <1>7, SaveCancelledDoes DEF SaveCancelled, Typed, RestTyped, RowSet
  <2>2. RunsOrderly'
    BY <1>1, <1>7 DEF SaveCancelled, Typed, RunsOrderly, NobodyQueued, Begun
  <2> QED
    BY <1>1, <2>1, <2>2 DEF Typed
<1>8. CASE TimerFires(r, e) \/ WebhookResumes(r, e)
  <2>1. /\ run[r].pc = "idle" /\ tracked' \subseteq tracked
        /\ UNCHANGED <<enabled, down, db, active, entry, cancelSave, stopper, polled>>
    BY <1>8 DEF TimerFires, WebhookResumes, Fresh, At
  <2>2. UNCHANGED run \/ Begins(r, e, TRUE, "reading")
    BY <1>8, ResumeDoes DEF TimerFires, WebhookResumes
  <2>3. RestTyped'
    BY <2>1, <2>2 DEF Typed, RestTyped, Begins, OnlyRun
  <2>4. RunsOrderly'
    <3>1. CASE UNCHANGED run
      BY <1>1, <2>1, <3>1 DEF Typed, RunsOrderly, NobodyQueued, Begun
    <3>2. CASE Begins(r, e, TRUE, "reading")
      BY <1>1, <2>1, <3>2, OrderlyBegins
    <3> QED
      BY <2>2, <3>1, <3>2
  <2> QED
    BY <1>1, <2>3, <2>4 DEF Typed
<1>9. CASE SetRunning(r)
  <2>1. RestTyped'
    BY <1>9, SetRunningDoes DEF SetRunning, Typed, RestTyped, Goes, Turns, OnlyRun, RowSet
  <2>2. RunsOrderly'
    BY <1>1, <1>9, SetRunningDoes, OrderlyTurns
    DEF SetRunning, Goes, Typed, RunsOrderly, PC, Begun, Underway
  <2> QED
    BY <1>1, <2>1, <2>2 DEF Typed
<1> QED
  BY <1>2, <1>3, <1>4, <1>5, <1>6, <1>7, <1>8, <1>9

LEMMA RowStepTyped ==
  ASSUME Typed, NEW e \in Execution, StopRead(e) \/ StopWrite(e) \/ Poll(e)
  PROVE  Typed'
<1>1. CQP!IInv' /\ NobodyQueued
  <2>1. UNCHANGED queueVars
    BY DEF StopRead, StopWrite, Poll
  <2> QED
    BY <2>1, QuietQueue
<1>2. run' = run /\ cancelSave' = cancelSave
  BY DEF StopRead, StopWrite, Poll
<1>3. RunsOrderly'
  BY <1>1, <1>2 DEF Typed, RunsOrderly, NobodyQueued, Begun
<1>4. CASE StopRead(e)
  BY <1>1, <1>3, <1>4 DEF StopRead, Typed, RestTyped, Row, StopState
<1>5. CASE StopWrite(e)
  BY <1>1, <1>3, <1>5 DEF StopWrite, SetRow, Typed, RestTyped, Row, Status, StopState
<1>6. CASE Poll(e)
  BY <1>1, <1>3, <1>6, RegularModeAssumption DEF RegularModeAssumption, Poll, Typed, RestTyped
<1> QED
  BY <1>4, <1>5, <1>6

(* The throttle, and what starts or settles an entry.                      *)
LEMMA EntryStepTyped ==
  ASSUME Typed, NEW r \in Run,
         \/ EnterThrottle(r) \/ Register(r) \/ CredentialsAccepted(r) \/ Start(r)
         \/ StartFails(r) \/ PutToWait(r) \/ Finalize(r)
  PROVE  Typed'
<1>1. CASE EnterThrottle(r)
  <2>1. /\ run[r].pc \in {"created", "reading"} /\ run[r].execution \in Execution
        /\ Throttle(r, run[r].execution)
        /\ UNCHANGED <<enabled, down, db, active, entry, cancelSave, stopper, tracked, polled>>
    BY <1>1 DEF EnterThrottle, Typed, RunsOrderly, Begun
  <2>2. Goes(r, "throttled")
    BY <1>1, GotoGoes DEF EnterThrottle, Typed, PC
  <2>3. CQP!IInv' /\ \A d \in Run \ {r} : promise'[d] = promise[d]
    BY <2>1, ThrottleMoves DEF Typed
  <2>4. RestTyped'
    BY <2>1, <2>2 DEF Typed, RestTyped, Goes, Turns, OnlyRun
  <2>5. RunsOrderly'
    BY <2>1, <2>2, <2>3 DEF Typed, RunsOrderly, Goes, Turns, OnlyRun, Begun, Underway
  <2> QED
    BY <2>3, <2>4, <2>5 DEF Typed
<1>2. CASE Register(r)
  <2>1. UNCHANGED <<queueVars, enabled, down, db, cancelSave, stopper, tracked, polled>>
    BY <1>2 DEF Register
  <2>2. CQP!IInv' /\ NobodyQueued
    BY <2>1, QuietQueue
  <2>3. RestTyped'
    BY <1>2, <2>1, RegisterDoes DEF Typed, RestTyped, Goes, Turns, OnlyRun
  <2>4. RunsOrderly'
    BY <1>2, <2>1, <2>2, RegisterDoes, OrderlyTurns
    DEF Goes, Typed, RunsOrderly, PC, Begun, Underway
  <2> QED
    BY <2>2, <2>3, <2>4 DEF Typed
<1>3. CASE CredentialsAccepted(r)
  <2>1. UNCHANGED <<queueVars, enabled, down, db, active, cancelSave, stopper, tracked, polled>>
    BY <1>3 DEF CredentialsAccepted
  <2>2. CQP!IInv' /\ NobodyQueued
    BY <2>1, QuietQueue
  <2>3. RestTyped'
    BY <1>3, <2>1, CredentialsAcceptedDoes DEF Typed, RestTyped, Goes, Turns, OnlyRun
  <2>4. RunsOrderly'
    BY <1>3, <2>1, <2>2, CredentialsAcceptedDoes, OrderlyTurns
    DEF Goes, Typed, RunsOrderly, PC, Begun, Underway
  <2> QED
    BY <2>2, <2>3, <2>4 DEF Typed
<1>4. CASE Start(r)
  <2>1. UNCHANGED <<queueVars, enabled, down, db, active, cancelSave, stopper, tracked, polled>>
    BY <1>4 DEF Start
  <2>2. CQP!IInv' /\ NobodyQueued
    BY <2>1, QuietQueue
  <2>3. RestTyped'
    <3>1. OnlyRun(r) /\ entry' \in [Run -> Entry]
      BY <1>4, StartDoes DEF Goes, Turns, Typed, RestTyped
    <3> QED
      BY <2>1, <3>1 DEF Typed, RestTyped, OnlyRun
  <2>4. RunsOrderly'
    <3>1. PICK t, h : Turns(r, "executing", run[r].outcome, t, h)
      BY <1>4, StartDoes DEF Goes
    <3> QED
      <4>1. run[r].pc = "starting" /\ cancelSave' = cancelSave
        BY <1>4, <2>1, StartDoes
      <4>2. promise[r] \notin {"pending", "dropped"} /\ Begun(r)
        BY <4>1 DEF Typed, RunsOrderly, Begun
      <4> QED
        BY <2>2, <3>1, <4>1, <4>2, OrderlyTurns DEF PC, Underway
  <2> QED
    BY <2>2, <2>3, <2>4 DEF Typed
<1>5. CASE StartFails(r)
  <2>1. UNCHANGED <<enabled, down, db, cancelSave, stopper, tracked, polled>>
    BY <1>5 DEF StartFails
  <2>2. CASE UNCHANGED <<queueVars, active, entry>>
    <3>1. CQP!IInv' /\ NobodyQueued
      BY <2>2, QuietQueue
    <3>2. RestTyped'
      BY <1>5, <2>1, <2>2, StartFailsDoes DEF Typed, RestTyped, Turns, OnlyRun
    <3>3. RunsOrderly'
      BY <1>5, <2>1, <3>1, StartFailsDoes, OrderlyTurns
      DEF Typed, RunsOrderly, PC, Begun, Underway
    <3> QED
      BY <3>1, <3>2, <3>3 DEF Typed
  <2>3. CASE /\ active[run[r].execution] \in Run /\ run[r].execution \in Execution
             /\ Settle(active[run[r].execution], run[r].execution)
    <3>1. CQP!IInv' /\ NobodyQueued
      BY <2>3, SettleDoes, SettleQueuesNobody
    <3>2. RestTyped'
      BY <1>5, <2>1, <2>3, StartFailsDoes, SettleDoes DEF Typed, RestTyped, Turns, OnlyRun
    <3>3. RunsOrderly'
      BY <1>5, <2>1, <3>1, StartFailsDoes, OrderlyTurns
      DEF Typed, RunsOrderly, PC, Begun, Underway
    <3> QED
      BY <3>1, <3>2, <3>3 DEF Typed
  <2> QED
    BY <1>5, <2>2, <2>3, StartFailsDoes
<1>6. CASE PutToWait(r)
  <2>1. UNCHANGED <<queueVars, enabled, down, db, active, cancelSave, stopper, tracked, polled>>
    BY <1>6 DEF PutToWait
  <2>2. CQP!IInv' /\ NobodyQueued
    BY <2>1, QuietQueue
  <2>3. RestTyped'
    BY <1>6, <2>1, PutToWaitDoes DEF Typed, RestTyped, Turns, OnlyRun
  <2>4. RunsOrderly'
    BY <1>6, <2>1, <2>2, PutToWaitDoes, OrderlyTurns
    DEF Typed, RunsOrderly, PC, Begun, Underway
  <2> QED
    BY <2>2, <2>3, <2>4 DEF Typed
<1>7. CASE Finalize(r)
  <2>1. UNCHANGED <<enabled, down, db, cancelSave, stopper, tracked, polled>>
    BY <1>7 DEF Finalize
  <2>2. CASE UNCHANGED <<queueVars, active, entry>>
    <3>1. CQP!IInv' /\ NobodyQueued
      BY <2>2, QuietQueue
    <3>2. RestTyped'
      BY <1>7, <2>1, <2>2, FinalizeDoes DEF Typed, RestTyped, Turns, OnlyRun
    <3>3. RunsOrderly'
      BY <1>7, <2>1, <3>1, FinalizeDoes, OrderlyTurns
      DEF Typed, RunsOrderly, PC, Begun, Underway
    <3> QED
      BY <3>1, <3>2, <3>3 DEF Typed
  <2>3. CASE /\ active[run[r].execution] \in Run /\ run[r].execution \in Execution
             /\ Settle(active[run[r].execution], run[r].execution)
    <3>1. CQP!IInv' /\ NobodyQueued
      BY <2>3, SettleDoes, SettleQueuesNobody
    <3>2. RestTyped'
      BY <1>7, <2>1, <2>3, FinalizeDoes, SettleDoes DEF Typed, RestTyped, Turns, OnlyRun
    <3>3. RunsOrderly'
      BY <1>7, <2>1, <3>1, FinalizeDoes, OrderlyTurns
      DEF Typed, RunsOrderly, PC, Begun, Underway
    <3> QED
      BY <3>1, <3>2, <3>3 DEF Typed
  <2> QED
    BY <1>7, <2>2, <2>3, FinalizeDoes
<1> QED
  BY <1>1, <1>2, <1>3, <1>4, <1>5, <1>6, <1>7

(* What cancels: a timeout, a stop, the shutdown.                          *)
LEMMA StopExecutionTyped ==
  ASSUME Typed, NEW e \in Execution, NEW runs,
         runs = run \/ \E t \in Run : runs = [run EXCEPT ![t].timer = FALSE],
         StopExecution(e, runs)
  PROVE  /\ RunsStay /\ cancelSave' \subseteq Run
         /\ active' \in [Execution -> Run \cup {NoRun}] /\ entry' \in [Run -> Entry]
         /\ CQP!IInv' /\ NobodyQueued
<1>1. RunsStay /\ cancelSave' \subseteq Run
  BY StopDoes
<1>2. CASE /\ active' = [active EXCEPT ![e] = NoRun] \/ active' = active
           /\ UNCHANGED <<queueVars, entry>>
  BY <1>1, <1>2, QuietQueue DEF Typed, RestTyped
<1>3. CASE active[e] \in Run /\ Settle(active[e], e)
  BY <1>1, <1>3, SettleDoes, SettleQueuesNobody
<1> QED
  BY <1>2, <1>3, StopDoes

LEMMA StopStepTyped ==
  ASSUME Typed,
         \/ \E r \in Run : Timeout(r)
         \/ \E e \in Execution : StopQueued(e) \/ StopActive(e)
         \/ Shutdown
  PROVE  Typed'
<1>1. ASSUME NEW r \in Run, Timeout(r) PROVE Typed'
  <2>1. run[r].execution \in Execution
    BY <1>1 DEF Timeout, Typed, RunsOrderly
  <2>2. StopExecution(run[r].execution, [run EXCEPT ![r].timer = FALSE])
    BY <1>1 DEF Timeout
  <2>3. /\ RunsStay /\ cancelSave' \subseteq Run
        /\ active' \in [Execution -> Run \cup {NoRun}] /\ entry' \in [Run -> Entry]
        /\ CQP!IInv' /\ NobodyQueued
    BY <2>1, <2>2, StopExecutionTyped
  <2>4. RestTyped'
    BY <1>1, <2>3 DEF Timeout, Typed, RestTyped, RunsStay
  <2> QED
    BY <2>3, <2>4, OrderlyStays DEF Typed
<1>2. ASSUME NEW e \in Execution, StopActive(e) PROVE Typed'
  <2>1. /\ RunsStay /\ cancelSave' \subseteq Run
        /\ active' \in [Execution -> Run \cup {NoRun}] /\ entry' \in [Run -> Entry]
        /\ CQP!IInv' /\ NobodyQueued
    BY <1>2, StopExecutionTyped DEF StopActive
  <2>2. stopper' \in [Execution -> StopState]
    BY <1>2 DEF StopActive, Typed, RestTyped, StopState
  <2>3. RestTyped'
    BY <1>2, <2>1, <2>2 DEF StopActive, Typed, RestTyped, RunsStay
  <2> QED
    BY <2>1, <2>3, OrderlyStays DEF Typed
<1>3. ASSUME NEW e \in Execution, StopQueued(e) PROVE Typed'
  <2>1. /\ CQP!IInv'
        /\ \A d \in Run :
              \/ promise'[d] = promise[d]
              \/ promise[d] = "pending" /\ promise'[d] \in {"resolved", "dropped"}
    BY <1>3, RemovalMoves DEF StopQueued, Typed
  <2>2. stopper' \in [Execution -> StopState]
    BY <1>3 DEF StopQueued, Typed, RestTyped, StopState
  <2>3. RestTyped'
    BY <1>3, <2>2 DEF StopQueued, Typed, RestTyped
  <2>4. RunsOrderly'
    BY <1>3, <2>1 DEF StopQueued, Typed, RunsOrderly, Begun
  <2> QED
    BY <2>1, <2>3, <2>4 DEF Typed
<1>4. CASE Shutdown
  <2>1. UNCHANGED <<queueVars, db, stopper, tracked, polled>> /\ down' = TRUE /\ enabled' = FALSE
    BY <1>4 DEF Shutdown
  <2>2. CQP!IInv' /\ NobodyQueued
    BY <2>1, QuietQueue
  <2>3. RestTyped'
    BY <1>4, <2>1, ShutdownDoes DEF Typed, RestTyped, RunsStay
  <2>4. RunsOrderly'
    BY <1>4, <2>2, ShutdownDoes, OrderlyStays
  <2> QED
    BY <2>2, <2>3, <2>4 DEF Typed
<1> QED
  BY <1>1, <1>2, <1>3, <1>4

LEMMA TypedStep == Typed /\ [Next]_vars => Typed'
<1> SUFFICES ASSUME Typed, [Next]_vars PROVE Typed'
  OBVIOUS
<1>1. ASSUME NEW r \in Run, RunStep(r) \/ Timeout(r) PROVE Typed'
  <2>1. CASE \/ Update(r) \/ CredentialsRejected(r) \/ SetRunning(r)
             \/ Save(r) \/ SaveCancelled(r)
    <3>1. PICK e \in Execution : e = run[r].execution
      BY <2>1, UpdateDoes, CredentialsRejectedDoes, SetRunningDoes, SaveDoes, SaveCancelledDoes
      DEF Typed, RunsOrderly, Begun
    <3> QED
      BY <2>1, <3>1, PlainStepTyped
  <2>2. ASSUME NEW o \in {"success", "error", "waiting"}, Complete(r, o) PROVE Typed'
    <3>1. PICK e \in Execution : e = run[r].execution
      BY <2>2, CompleteDoes DEF Typed, RunsOrderly, Begun
    <3> QED
      BY <2>2, <3>1, PlainStepTyped
  <2> QED
    BY <1>1, <2>1, <2>2, EntryStepTyped, StopStepTyped DEF RunStep
<1>2. ASSUME NEW e \in Execution, StopRead(e) \/ StopStep(e) \/ Poll(e) PROVE Typed'
  BY <1>2, RowStepTyped, StopStepTyped DEF StopStep
<1>3. ASSUME NEW r \in Run, NEW e \in Execution,
             Create(r, e) \/ TimerFires(r, e) \/ WebhookResumes(r, e)
      PROVE  Typed'
  BY <1>3, PlainStepTyped
<1>4. CASE Shutdown
  BY <1>4, StopStepTyped
<1>5. CASE UNCHANGED vars
  <2>1. UNCHANGED queueVars
    BY <1>5 DEF vars, queueVars
  <2> QED
    BY <1>5, <2>1, QueueRests DEF vars, Typed, RestTyped, RunsOrderly, Begun, queueVars
<1> QED
  BY <1>1, <1>2, <1>3, <1>4, <1>5 DEF Next

(* The variables have their types, for any constants.                      *)
THEOREM TypeCorrect == Spec => []TypeOK
<1>1. Init => Typed
  BY InitTyped
<1>2. Typed /\ [Next]_vars => Typed'
  BY TypedStep
<1>3. Typed => TypeOK
  BY TypedHolds
<1> QED
  BY <1>1, <1>2, <1>3, PTL DEF Spec

-----------------------------------------------------------------------------
(* First runs that are queued                                              *)

(* Nothing knows an execution before its row is made.                      *)
UntouchedWithoutRow ==
  \A e \in Execution :
    db[e].status = "none" =>
      /\ ~db[e].waitTill /\ e \notin tracked /\ stopper[e].pc = "idle"
      /\ \A r \in Run : Begun(r) => run[r].execution # e

(* While the first run of an execution is queued no other run exists that  *)
(* could write its row, and nothing can resume it: only a stop writes.     *)
FirstInQueue ==
  \A r \in Run :
    run[r].pc \in {"created", "throttled"} /\ ~run[r].resumes =>
      LET e == run[r].execution IN
      /\ ~db[e].waitTill /\ e \notin tracked
      /\ db[e].status = IF stopper[e].pc = "done" THEN "canceled" ELSE "new"
      /\ \A d \in Run \ {r} : Begun(d) => run[d].execution # e

(* Only a resumption comes to the throttle without making a row first.     *)
ReadingResumes == \A r \in Run : run[r].pc = "reading" => run[r].resumes

RowsOrderly == UntouchedWithoutRow /\ FirstInQueue /\ ReadingResumes

(* A run past the throttle may write its own row.                          *)
LEMMA RowsTurn ==
  ASSUME Typed, RowsOrderly, NEW r \in Run, Begun(r),
         NEW where \in PC \ {"idle", "created", "reading", "throttled"}, NEW outcome, NEW timer, NEW heard,
         Turns(r, where, outcome, timer, heard),
         \/ db' = db
         \/ \E status \in Status \ {"none"} : \E waitTill :
              RowSet(run[r].execution, status, waitTill),
         stopper' = stopper, tracked' = tracked
  PROVE  RowsOrderly'
<1> DEFINE e == run[r].execution
<1>1. e \in Execution
  BY DEF Typed, RunsOrderly
<1>2. /\ \A d \in Run : run'[d].execution = run[d].execution /\ run'[d].resumes = run[d].resumes
      /\ \A d \in Run : Begun(d)' <=> Begun(d)
      /\ \A d \in Run \ {r} : run'[d] = run[d]
      /\ run'[r].pc = where
  BY DEF Turns, OnlyRun, Begun
<1>3. db[e].status # "none"
  BY <1>1 DEF RowsOrderly, UntouchedWithoutRow
<1>4. /\ \A x \in Execution \ {e} : db'[x] = db[x]
      /\ db'[e].status # "none"
  BY <1>1, <1>3 DEF RowSet
<1>5. UntouchedWithoutRow'
  BY <1>2, <1>4 DEF RowsOrderly, UntouchedWithoutRow
<1>6. FirstInQueue'
  <2> SUFFICES ASSUME NEW d \in Run,
                      run'[d].pc \in {"created", "throttled"}, ~run'[d].resumes
               PROVE  LET x == run'[d].execution IN
                      /\ ~db'[x].waitTill /\ x \notin tracked'
                      /\ db'[x].status = IF stopper'[x].pc = "done" THEN "canceled" ELSE "new"
                      /\ \A c \in Run \ {d} : Begun(c)' => run'[c].execution # x
    BY DEF FirstInQueue
  <2>1. d # r /\ run'[d] = run[d]
    BY <1>2
  <2>2. run[d].execution \in Execution /\ run[d].execution # e
    BY <2>1 DEF Typed, RunsOrderly, Begun, RowsOrderly, FirstInQueue
  <2> QED
    BY <1>2, <1>4, <2>1, <2>2 DEF RowsOrderly, FirstInQueue
<1>7. ReadingResumes'
  BY <1>2 DEF RowsOrderly, ReadingResumes
<1> QED
  BY <1>5, <1>6, <1>7 DEF RowsOrderly

(* No step that leaves the rows alone disturbs them.                       *)
LEMMA RowsStay ==
  ASSUME Typed, RowsOrderly, run' = run \/ RunsStay, db' = db,
         tracked' \subseteq tracked,
         \A e \in Execution :
           /\ stopper'[e].pc = "done" <=> stopper[e].pc = "done"
           /\ stopper[e].pc = "idle" => stopper'[e].pc = "idle" \/ db[e].status # "none"
  PROVE  RowsOrderly'
<1>1. \A d \in Run : /\ run'[d].execution = run[d].execution /\ run'[d].resumes = run[d].resumes
                     /\ run'[d].pc = run[d].pc
  BY DEF RunsStay
<1>2. UntouchedWithoutRow'
  BY <1>1 DEF RowsOrderly, UntouchedWithoutRow, Begun
<1>3. FirstInQueue'
  <2> SUFFICES ASSUME NEW d \in Run,
                      run[d].pc \in {"created", "throttled"}, ~run[d].resumes
               PROVE  LET x == run[d].execution IN
                      /\ ~db[x].waitTill /\ x \notin tracked'
                      /\ db[x].status = IF stopper'[x].pc = "done" THEN "canceled" ELSE "new"
                      /\ \A c \in Run \ {d} : run'[c].pc # "idle" => run'[c].execution # x
    BY <1>1 DEF FirstInQueue, Begun
  <2>1. run[d].execution \in Execution
    BY DEF Typed, RunsOrderly, Begun
  <2> QED
    BY <1>1, <2>1 DEF RowsOrderly, FirstInQueue, Begun
<1>4. ReadingResumes'
  BY <1>1 DEF RowsOrderly, ReadingResumes
<1> QED
  BY <1>2, <1>3, <1>4 DEF RowsOrderly

LEMMA RowsRunStep ==
  ASSUME Typed, RowsOrderly, NEW r \in Run, RunStep(r)
  PROVE  RowsOrderly'
<1>1. CASE EnterThrottle(r)
  <2>1. /\ run[r].pc \in {"created", "reading"} /\ run[r].execution \in Execution
        /\ UNCHANGED <<db, stopper, tracked>>
    BY <1>1 DEF EnterThrottle, Typed, RunsOrderly, Begun
  <2>2. Goes(r, "throttled")
    BY <1>1, GotoGoes DEF EnterThrottle, Typed, PC
  <2>3. /\ \A d \in Run : run'[d].execution = run[d].execution /\ run'[d].resumes = run[d].resumes
        /\ \A d \in Run : Begun(d)' <=> Begun(d)
        /\ \A d \in Run \ {r} : run'[d] = run[d]
        /\ run'[r].pc = "throttled"
    BY <2>1, <2>2 DEF Goes, Turns, OnlyRun, Begun
  <2>4. run[r].pc = "reading" => run[r].resumes
    BY DEF RowsOrderly, ReadingResumes
  <2>5. UntouchedWithoutRow'
    BY <2>1, <2>3 DEF RowsOrderly, UntouchedWithoutRow
  <2>6. FirstInQueue'
    BY <2>1, <2>3, <2>4 DEF RowsOrderly, FirstInQueue
  <2>7. ReadingResumes'
    BY <2>3 DEF RowsOrderly, ReadingResumes
  <2> QED
    BY <2>5, <2>6, <2>7 DEF RowsOrderly
<1>2. CASE Update(r)
  <2>1. UNCHANGED <<stopper, tracked>> /\ Begun(r)
    BY <1>2, UpdateDoes DEF Update, Begun
  <2> QED
    BY <1>2, <2>1, UpdateDoes, RowsTurn DEF Goes, PC, Status
<1>3. CASE Register(r)
  <2>1. UNCHANGED <<db, stopper, tracked>> /\ Begun(r)
    BY <1>3, RegisterDoes DEF Register, Begun
  <2> QED
    BY <1>3, <2>1, RegisterDoes, RowsTurn DEF Goes, PC
<1>4. CASE CredentialsRejected(r)
  <2>1. UNCHANGED <<db, stopper, tracked>> /\ Begun(r)
    BY <1>4, CredentialsRejectedDoes DEF CredentialsRejected, Begun
  <2> QED
    BY <1>4, <2>1, CredentialsRejectedDoes, RowsTurn DEF PC
<1>5. CASE CredentialsAccepted(r)
  <2>1. UNCHANGED <<db, stopper, tracked>> /\ Begun(r)
    BY <1>5, CredentialsAcceptedDoes DEF CredentialsAccepted, Begun
  <2>2. CASE Goes(r, "failed")
    BY <2>1, <2>2, RowsTurn DEF Goes, PC
  <2>3. CASE Goes(r, "accepted")
    BY <2>1, <2>3, RowsTurn DEF Goes, PC
  <2> QED
    BY <1>5, <2>2, <2>3, CredentialsAcceptedDoes
<1>6. CASE Start(r)
  <2>1. UNCHANGED <<db, stopper, tracked>> /\ Begun(r)
    BY <1>6, StartDoes DEF Start, Begun
  <2>2. PICK t, h : Turns(r, "executing", run[r].outcome, t, h)
    BY <1>6, StartDoes DEF Goes
  <2> QED
    BY <2>1, <2>2, RowsTurn DEF PC
<1>7. CASE StartFails(r)
  <2>1. UNCHANGED <<db, stopper, tracked>> /\ Begun(r)
    BY <1>7, StartFailsDoes DEF StartFails, Begun
  <2>2. Turns(r, "saving", "error", run[r].timer, run[r].heard)
    BY <1>7, StartFailsDoes
  <2> QED
    BY <2>1, <2>2, RowsTurn DEF PC
<1>8. CASE PutToWait(r)
  <2>1. UNCHANGED <<db, stopper, tracked>> /\ Begun(r)
    BY <1>8, PutToWaitDoes DEF PutToWait, Begun
  <2>2. PICK o : Turns(r, "executing", o, run[r].timer, run[r].heard)
    BY <1>8, PutToWaitDoes
  <2> QED
    BY <2>1, <2>2, RowsTurn DEF PC
<1>9. ASSUME NEW o \in {"success", "error", "waiting"}, Complete(r, o) PROVE RowsOrderly'
  <2>1. UNCHANGED <<db, stopper, tracked>> /\ Begun(r)
    BY <1>9, CompleteDoes DEF Complete, Begun
  <2>2. PICK where \in {"saving", "saved"} : Turns(r, where, o, run[r].timer, run[r].heard)
    BY <1>9, CompleteDoes
  <2> QED
    BY <2>1, <2>2, RowsTurn DEF PC
<1>10. CASE Save(r)
  <2>1. UNCHANGED <<stopper, tracked>> /\ Begun(r)
    BY <1>10, SaveDoes DEF Save, Begun
  <2>2. run[r].outcome \in Status \ {"none"}
    BY <1>10, SaveDoes DEF Typed, RestTyped, RunsOrderly, RunState, Status
  <2> QED
    BY <1>10, <2>1, <2>2, SaveDoes, RowsTurn DEF Goes, PC
<1>11. CASE SaveCancelled(r)
  <2>1. UNCHANGED <<run, stopper, tracked>>
    BY <1>11 DEF SaveCancelled
  <2>2. /\ run[r].pc \in PC \ {"idle", "created", "reading", "throttled"} /\ Begun(r)
        /\ RowSet(run[r].execution, "canceled", db[run[r].execution].waitTill)
    BY <1>11, SaveCancelledDoes DEF PC, Underway, Begun
  <2>3. Turns(r, run[r].pc, run[r].outcome, run[r].timer, run[r].heard)
    BY <2>1 DEF Turns, OnlyRun, Typed, RestTyped
  <2> QED
    BY <2>1, <2>2, <2>3, RowsTurn DEF Status
<1>12. CASE Finalize(r)
  <2>1. UNCHANGED <<db, stopper, tracked>> /\ Begun(r)
    BY <1>12, FinalizeDoes DEF Finalize, Begun
  <2>2. Turns(r, "ended", run[r].outcome, FALSE, run[r].heard)
    BY <1>12, FinalizeDoes
  <2> QED
    BY <2>1, <2>2, RowsTurn DEF PC
<1>13. CASE SetRunning(r)
  <2>1. UNCHANGED <<stopper, tracked>> /\ Begun(r)
    BY <1>13, SetRunningDoes DEF SetRunning, Begun
  <2> QED
    BY <1>13, <2>1, SetRunningDoes, RowsTurn DEF Goes, PC, Status
<1> QED
  BY <1>1, <1>2, <1>3, <1>4, <1>5, <1>6, <1>7, <1>8, <1>9, <1>10, <1>11, <1>12, <1>13
  DEF RunStep

(* A run begins: the first of an execution nothing knows, or one resumed.  *)
LEMMA RowsBegin ==
  ASSUME Typed, RowsOrderly, NEW r \in Run, NEW e \in Execution,
         Create(r, e) \/ TimerFires(r, e) \/ WebhookResumes(r, e)
  PROVE  RowsOrderly'
<1>1. run[r].pc = "idle"
  BY DEF Create, TimerFires, WebhookResumes, Fresh, At
<1>2. CASE Create(r, e)
  <2>1. /\ db[e].status = "none"
        /\ Begins(r, e, run[r].resumes, "created") /\ RowSet(e, "new", FALSE)
        /\ UNCHANGED <<stopper, tracked>>
    BY <1>2, CreateDoes DEF Create
  <2>2. /\ ~db[e].waitTill /\ e \notin tracked /\ stopper[e].pc = "idle"
        /\ \A d \in Run : Begun(d) => run[d].execution # e
    BY <2>1 DEF RowsOrderly, UntouchedWithoutRow
  <2>3. /\ run'[r].execution = e /\ run'[r].pc = "created"
        /\ \A d \in Run \ {r} : run'[d] = run[d]
    BY <2>1 DEF Begins, OnlyRun
  <2>4. /\ db'[e].status = "new" /\ ~db'[e].waitTill
        /\ \A x \in Execution \ {e} : db'[x] = db[x]
    BY <2>1 DEF RowSet
  <2>5. UntouchedWithoutRow'
    BY <2>1, <2>3, <2>4 DEF RowsOrderly, UntouchedWithoutRow, Begun
  <2>6. FirstInQueue'
    <3> SUFFICES ASSUME NEW d \in Run,
                        run'[d].pc \in {"created", "throttled"}, ~run'[d].resumes
                 PROVE  LET x == run'[d].execution IN
                        /\ ~db'[x].waitTill /\ x \notin tracked
                        /\ db'[x].status = IF stopper[x].pc = "done" THEN "canceled" ELSE "new"
                        /\ \A c \in Run \ {d} : run'[c].pc # "idle" => run'[c].execution # x
      BY <2>1 DEF FirstInQueue, Begun
    <3>1. CASE d = r
      BY <2>2, <2>3, <2>4, <3>1 DEF Begun
    <3>2. CASE d # r
      <4>1. run'[d] = run[d] /\ Begun(d) /\ run[d].execution \in Execution \ {e}
        BY <2>2, <2>3, <3>2 DEF Begun, Typed, RunsOrderly
      <4> QED
        BY <2>3, <2>4, <4>1 DEF RowsOrderly, FirstInQueue, Begun
    <3> QED
      BY <3>1, <3>2
  <2>7. ReadingResumes'
    BY <2>3 DEF RowsOrderly, ReadingResumes
  <2> QED
    BY <2>5, <2>6, <2>7 DEF RowsOrderly
<1>3. CASE TimerFires(r, e) \/ WebhookResumes(r, e)
  <2>1. /\ UNCHANGED <<db, stopper>> /\ tracked' \subseteq tracked
        /\ e \in tracked \/ db[e].waitTill
    BY <1>3 DEF TimerFires, WebhookResumes
  <2>2. CASE run' = run
    BY <2>1, <2>2, RowsStay
  <2>3. CASE Begins(r, e, TRUE, "reading")
    <3>1. /\ run'[r].execution = e /\ run'[r].pc = "reading" /\ run'[r].resumes
          /\ \A d \in Run \ {r} : run'[d] = run[d]
      BY <2>3 DEF Begins, OnlyRun
    <3>2. UntouchedWithoutRow'
      BY <2>1, <3>1 DEF RowsOrderly, UntouchedWithoutRow, Begun
    <3>3. FirstInQueue'
      BY <2>1, <3>1 DEF RowsOrderly, FirstInQueue, Begun
    <3>4. ReadingResumes'
      BY <3>1 DEF RowsOrderly, ReadingResumes
    <3> QED
      BY <3>2, <3>3, <3>4 DEF RowsOrderly
  <2> QED
    BY <1>3, <2>2, <2>3, ResumeDoes DEF TimerFires, WebhookResumes
<1> QED
  BY <1>2, <1>3

(* What a stop and the tracker do to the rows.                             *)
LEMMA RowsOutside ==
  ASSUME Typed, RowsOrderly, NEW e \in Execution, StopRead(e) \/ StopStep(e) \/ Poll(e)
  PROVE  RowsOrderly'
<1>1. CASE StopRead(e)
  BY <1>1, RowsStay DEF StopRead, Typed, RestTyped, StopState
<1>2. CASE StopQueued(e)
  BY <1>2, RowsStay DEF StopQueued, Typed, RestTyped, StopState
<1>3. CASE StopActive(e)
  <2>1. RunsStay
    BY <1>3, StopDoes DEF StopActive
  <2> QED
    BY <1>3, <2>1, RowsStay DEF StopActive, Typed, RestTyped, StopState
<1>4. CASE StopWrite(e)
  <2>1. /\ stopper[e].pc \in {"stopBeforeRun", "stopDuringRun"} /\ stopper'[e].pc = "done"
        /\ \A x \in Execution \ {e} : stopper'[x] = stopper[x]
        /\ UNCHANGED <<run, tracked>>
    BY <1>4 DEF StopWrite, Typed, RestTyped, StopState
  <2>2. /\ db'[e].status = "canceled" /\ (db'[e].waitTill => db[e].waitTill)
        /\ \A x \in Execution \ {e} : db'[x] = db[x]
    BY <1>4 DEF StopWrite, SetRow, Typed, RestTyped, Row
  <2>3. UntouchedWithoutRow'
    BY <2>1, <2>2 DEF RowsOrderly, UntouchedWithoutRow, Begun
  <2>4. FirstInQueue'
    <3> SUFFICES ASSUME NEW d \in Run,
                        run[d].pc \in {"created", "throttled"}, ~run[d].resumes
                 PROVE  LET x == run[d].execution IN
                        /\ ~db'[x].waitTill /\ x \notin tracked
                        /\ db'[x].status = IF stopper'[x].pc = "done" THEN "canceled" ELSE "new"
                        /\ \A c \in Run \ {d} : Begun(c) => run[c].execution # x
      BY <2>1 DEF FirstInQueue, Begun
    <3>1. run[d].execution \in Execution
      BY DEF Typed, RunsOrderly, Begun
    <3> QED
      BY <2>1, <2>2, <3>1 DEF RowsOrderly, FirstInQueue
  <2>5. ReadingResumes'
    BY <2>1 DEF RowsOrderly, ReadingResumes
  <2> QED
    BY <2>3, <2>4, <2>5 DEF RowsOrderly
<1>5. CASE Poll(e)
  <2>1. /\ UNCHANGED <<db, run, stopper>> /\ tracked' = tracked \cup {e} /\ db[e].waitTill
    BY <1>5 DEF Poll
  <2> QED
    BY <2>1 DEF RowsOrderly, UntouchedWithoutRow, FirstInQueue, ReadingResumes, Begun
<1> QED
  BY <1>1, <1>2, <1>3, <1>4, <1>5 DEF StopStep

LEMMA RowsStep == Typed /\ RowsOrderly /\ [Next]_vars => RowsOrderly'
<1> SUFFICES ASSUME Typed, RowsOrderly, [Next]_vars PROVE RowsOrderly'
  OBVIOUS
<1>1. ASSUME NEW r \in Run, Timeout(r) PROVE RowsOrderly'
  <2>1. run[r].execution \in Execution
    BY <1>1 DEF Timeout, Typed, RunsOrderly
  <2>2. RunsStay
    BY <1>1, <2>1, StopDoes DEF Timeout
  <2> QED
    BY <1>1, <2>2, RowsStay DEF Timeout
<1>2. CASE Shutdown
  <2>1. RunsStay /\ UNCHANGED <<db, stopper, tracked>>
    BY <1>2, ShutdownDoes DEF Shutdown
  <2> QED
    BY <2>1, RowsStay
<1>3. CASE UNCHANGED vars
  BY <1>3, RowsStay DEF vars
<1> QED
  BY <1>1, <1>2, <1>3, RowsRunStep, RowsBegin, RowsOutside DEF Next

LEMMA RowsInvariant == Spec => [](Typed /\ RowsOrderly)
<1>1. Init => Typed /\ RowsOrderly
  <2>1. Init => RowsOrderly
    BY DEF Init, RowsOrderly, UntouchedWithoutRow, FirstInQueue, ReadingResumes, Begun
  <2> QED
    BY <2>1, InitTyped
<1>2. Typed /\ RowsOrderly /\ [Next]_vars => (Typed /\ RowsOrderly)'
  BY TypedStep, RowsStep
<1> QED
  BY <1>1, <1>2, PTL DEF Spec

(* An execution that was stopped while it was queued never runs, and its   *)
(* row stays canceled, however the stop and the queue interleave.          *)
THEOREM StoppedStays == Spec => []StoppedInQueueNeverRuns
<1>1. Typed /\ RowsOrderly => StoppedInQueueNeverRuns
  BY DEF Typed, RunsOrderly, RowsOrderly, FirstInQueue, StoppedInQueueNeverRuns, At
<1> QED
  BY <1>1, RowsInvariant, PTL

(* What is still queued at shutdown is found as new by the next start.     *)
THEOREM QueuedIsKept == Spec => []QueuedSurvivesShutdown
<1>1. Typed /\ RowsOrderly => QueuedSurvivesShutdown
  BY DEF Typed, RunsOrderly, RowsOrderly, FirstInQueue, QueuedSurvivesShutdown
<1> QED
  BY <1>1, RowsInvariant, PTL

-----------------------------------------------------------------------------
(* Slots and entries, where no execution waits                             *)

WaitsNot(r) ==
  /\ entry[r].status = "running"
  /\ ~run[r].resumes /\ run[r].outcome # "waiting" /\ run[r].pc # "reading"

(* Who holds a slot: a run that was let through, until its entry goes.     *)
SlotFine(r) ==
  enabled =>
    IF Begun(r) /\ run[r].execution \in Limited
    THEN /\ run[r].pc = "created" => promise[r] = "idle"
         /\ run[r].pc = "throttled" => promise[r] # "idle"
         /\ run[r].pc = "updated" => promise[r] = "resolved"
         /\ run[r].pc \in Listed \cup {"ended", "failed"} =>
              (promise[r] = "resolved" <=> active[run[r].execution] = r)
    ELSE promise[r] = "idle"

(* Who is heard: only a run whose end nobody hears of has lost its entry   *)
(* without being cancelled.                                                *)
HeardFine(r) ==
  /\ run[r].pc \notin Underway \cup {"ended"} => ~run[r].cancelled /\ ~run[r].heard
  /\ run[r].pc \in Underway /\ ~run[r].heard => active[run[r].execution] = NoRun
  /\ enabled /\ run[r].pc = "executing" /\ run[r].heard /\ ~run[r].cancelled =>
       active[run[r].execution] = r /\ entry[r].workflowExecution = r

RunFine(r) == WaitsNot(r) /\ SlotFine(r) /\ HeardFine(r)

(* An entry that is listed is one of a run under way, and unsettled.       *)
EntryFine(e) ==
  active[e] # NoRun =>
    /\ run[active[e]].execution = e /\ run[active[e]].pc \in Listed
    /\ ~entry[active[e]].settled

OneRunEach ==
  \A r, d \in Run :
    Begun(r) /\ Begun(d) /\ run[r].execution = run[d].execution => r = d

NobodyWaits == tracked = {} /\ \A e \in Execution : ~db[e].waitTill

SlotInv ==
  /\ NobodyWaits /\ OneRunEach
  /\ \A r \in Run : RunFine(r)
  /\ \A e \in Execution : EntryFine(e)

(* A step of run r, or about it, leaves the other runs in order.           *)
LEMMA OthersFine ==
  ASSUME Typed, SlotInv, NEW r \in Run, NEW e \in Execution,
         run[r].pc = "idle" \/ run[r].execution = e,
         run'[r].pc # "idle" /\ run'[r].execution = e,
         \A d \in Run \ {r} :
           /\ run[d].pc # "idle" => run[d].execution # e
           /\ run'[d].execution = run[d].execution /\ run'[d].resumes = run[d].resumes
           /\ run'[d].pc = run[d].pc /\ run'[d].outcome = run[d].outcome
           /\ run'[d].heard = run[d].heard
           /\ run[d].cancelled => run'[d].cancelled
           /\ run'[d].cancelled => run[d].cancelled \/ run[d].pc \in Underway
           /\ entry'[d] = entry[d]
           /\ promise'[d] = promise[d] \/ (promise[d] = "pending" /\ promise'[d] = "resolved"),
         \A x \in Execution \ {e} : active'[x] = active[x],
         enabled' = enabled,
         NobodyWaits', RunFine(r)', EntryFine(e)'
  PROVE  SlotInv'
<1>1. OneRunEach'
  BY DEF SlotInv, OneRunEach, Begun
<1>2. ASSUME NEW d \in Run \ {r} PROVE RunFine(d)'
  <2>1. WaitsNot(d)'
    BY DEF SlotInv, RunFine, WaitsNot
  <2>2. CASE run[d].pc = "idle"
    <3>1. SlotFine(d)'
      <4>1. enabled => promise[d] = "idle"
        BY <2>2 DEF SlotInv, RunFine, SlotFine, Begun
      <4> QED
        BY <2>2, <4>1 DEF SlotFine, Begun
    <3>2. HeardFine(d)'
      BY <2>2 DEF SlotInv, RunFine, HeardFine, Underway
    <3> QED
      BY <2>1, <3>1, <3>2 DEF RunFine
  <2>3. CASE run[d].pc # "idle"
    <3>1. /\ run[d].execution \in Execution \ {e}
          /\ active'[run[d].execution] = active[run[d].execution]
      BY <2>3 DEF Typed, RunsOrderly, Begun
    <3>2. promise[d] = "pending" => run[d].pc = "throttled"
      BY DEF Typed, RunsOrderly
    <3>3. SlotFine(d)'
      <4>1. SlotFine(d)
        BY DEF SlotInv, RunFine
      <4>2. CASE promise'[d] = promise[d]
        BY <3>1, <4>1, <4>2 DEF SlotFine, Begun
      <4>3. CASE promise[d] = "pending" /\ promise'[d] = "resolved"
        BY <3>1, <3>2, <4>1, <4>3 DEF SlotFine, Begun, Listed, Underway
      <4> QED
        BY <4>2, <4>3
    <3>4. HeardFine(d)'
      BY <3>1 DEF SlotInv, RunFine, HeardFine
    <3> QED
      BY <2>1, <3>3, <3>4 DEF RunFine
  <2> QED
    BY <2>2, <2>3
<1>3. ASSUME NEW x \in Execution \ {e} PROVE EntryFine(x)'
  <2> SUFFICES ASSUME active[x] # NoRun
               PROVE  /\ run'[active[x]].execution = x /\ run'[active[x]].pc \in Listed
                      /\ ~entry'[active[x]].settled
    BY DEF EntryFine
  <2>1. active[x] \in Run
    BY DEF Typed, RestTyped
  <2>2. /\ run[active[x]].execution = x /\ run[active[x]].pc \in Listed
        /\ ~entry[active[x]].settled
    BY DEF SlotInv, EntryFine
  <2>3. active[x] # r
    BY <2>2 DEF Listed, Underway
  <2> QED
    BY <2>1, <2>2, <2>3
<1> QED
  BY <1>1, <1>2, <1>3 DEF SlotInv

LEMMA TurnFine ==
  ASSUME Typed, SlotInv, NEW r \in Run, Begun(r),
         NEW where \in PC \ {"idle"}, NEW outcome, NEW timer, NEW heard,
         Turns(r, where, outcome, timer, heard),
         \A d \in Run \ {r} :
           /\ entry'[d] = entry[d]
           /\ promise'[d] = promise[d] \/ (promise[d] = "pending" /\ promise'[d] = "resolved"),
         \A x \in Execution \ {run[r].execution} : active'[x] = active[x],
         enabled' = enabled,
         NobodyWaits', RunFine(r)', EntryFine(run[r].execution)'
  PROVE  SlotInv'
<1>1. run[r].execution \in Execution
  BY DEF Typed, RunsOrderly
<1>2. \A d \in Run \ {r} : run[d].pc # "idle" => run[d].execution # run[r].execution
  BY DEF SlotInv, OneRunEach, Begun
<1>3. /\ run'[r].pc # "idle" /\ run'[r].execution = run[r].execution
      /\ \A d \in Run \ {r} : run'[d] = run[d]
  BY DEF Turns, OnlyRun
<1> QED
  BY <1>1, <1>2, <1>3, OthersFine

(* The entry of an execution is the one its run made.                      *)
LEMMA EntryIsMine ==
  ASSUME Typed, SlotInv, NEW r \in Run, Begun(r)
  PROVE  LET e == run[r].execution IN
         /\ e \in Execution
         /\ active[e] # NoRun => /\ active[e] = r /\ run[r].pc \in Listed /\ ~entry[r].settled
         /\ entry[r].status = "running"
<1>1. run[r].execution \in Execution
  BY DEF Typed, RunsOrderly
<1>2. CASE active[run[r].execution] # NoRun
  <2>1. active[run[r].execution] \in Run
    BY <1>1, <1>2 DEF Typed, RestTyped
  <2> QED
    BY <1>1, <1>2, <2>1 DEF SlotInv, EntryFine, OneRunEach, Begun, Listed, Underway, RunFine, WaitsNot
<1> QED
  BY <1>1, <1>2 DEF SlotInv, RunFine, WaitsNot

(* An entry that settles gives its slot back and leaves the list.          *)
LEMMA SettleMine ==
  ASSUME Typed, SlotInv, NEW r \in Run, Begun(r), active[run[r].execution] # NoRun,
         Settle(active[run[r].execution], run[r].execution)
  PROVE  LET e == run[r].execution IN
         /\ active' = [active EXCEPT ![e] = NoRun]
         /\ promise'[r] = IF enabled /\ e \in Limited THEN "idle" ELSE promise[r]
         /\ \A d \in Run \ {r} :
              /\ entry'[d] = entry[d]
              /\ promise'[d] = promise[d] \/ (promise[d] = "pending" /\ promise'[d] = "resolved")
         /\ entry'[r].status = "running"
         /\ entry'[r].workflowExecution = entry[r].workflowExecution
<1> DEFINE e == run[r].execution
<1>1. /\ e \in Execution /\ active[e] = r /\ ~entry[r].settled /\ entry[r].status = "running"
  BY EntryIsMine
<1>2. Settle(r, e)
  BY <1>1
<1>3. Freed(r, e) /\ active' = [active EXCEPT ![e] = NoRun]
  BY <1>1, <1>2, SettleDoes
<1>4. /\ \A d \in Run : entry'[d].status = entry[d].status /\ (d # r => entry'[d] = entry[d])
      /\ entry'[r].workflowExecution = entry[r].workflowExecution
  BY <1>1, <1>2, SettleDoes
<1> QED
  BY <1>1, <1>3, <1>4 DEF Freed

(* On its way to the workflow a run queues, is let through, gets its entry.*)
LEMMA WayInFine ==
  ASSUME Typed, SlotInv, NEW r \in Run,
         \/ EnterThrottle(r) \/ Update(r) \/ Register(r) \/ CredentialsAccepted(r)
         \/ SetRunning(r) \/ Start(r)
  PROVE  SlotInv'
<1> DEFINE e == run[r].execution
<1>1. CASE EnterThrottle(r)
  <2>1. /\ run[r].pc = "created" /\ Begun(r) /\ e \in Execution
        /\ Throttle(r, e)
        /\ UNCHANGED <<enabled, db, active, entry, tracked>>
    BY <1>1 DEF EnterThrottle, SlotInv, RunFine, WaitsNot, Typed, RunsOrderly, Begun
  <2>2. Goes(r, "throttled")
    BY <1>1, GotoGoes DEF EnterThrottle, Typed, PC
  <2>3. /\ \A d \in Run \ {r} : promise'[d] = promise[d]
        /\ IF enabled /\ e \in Limited THEN promise'[r] \in {"pending", "resolved"}
                                       ELSE promise'[r] = promise[r]
    BY <2>1, ThrottleMoves DEF Typed
  <2>4. active[e] = NoRun
    BY <2>1, EntryIsMine DEF Listed, Underway
  <2>5. RunFine(r)'
    <3>1. SlotFine(r)'
      <4>1. enabled /\ e \notin Limited => promise[r] = "idle"
        BY <2>1 DEF SlotInv, RunFine, SlotFine
      <4> QED
        BY <2>1, <2>2, <2>3, <4>1 DEF Goes, Turns, SlotFine, Begun, Listed, Underway
    <3>2. WaitsNot(r)' /\ HeardFine(r)'
      BY <2>1, <2>2 DEF Goes, Turns, SlotInv, RunFine, WaitsNot, HeardFine, Underway
    <3> QED
      BY <3>1, <3>2 DEF RunFine
  <2>6. EntryFine(e)' /\ NobodyWaits'
    BY <2>1, <2>2, <2>4 DEF EntryFine, SlotInv, NobodyWaits, Goes, Turns
  <2> QED
    BY <2>1, <2>2, <2>3, <2>5, <2>6, TurnFine DEF Goes, PC
<1>2. CASE Update(r)
  <2>1. /\ run[r].pc = "throttled" /\ promise[r] \notin {"pending", "dropped"}
        /\ Begun(r) /\ e \in Execution
        /\ Goes(r, "updated") /\ RowSet(e, "running", ~run[r].resumes /\ db[e].waitTill)
        /\ UNCHANGED <<enabled, active, entry, tracked, promise>>
    BY <1>2, UpdateDoes DEF Update, queueVars, Begun
  <2>2. active[e] = NoRun
    BY <2>1, EntryIsMine DEF Listed, Underway
  <2>3. promise[r] \in CQ!PromiseState
    BY QueueTypes DEF Typed
  <2>4. SlotFine(r)'
    BY <2>1, <2>3 DEF Goes, Turns, SlotInv, RunFine, SlotFine, Begun, Listed, Underway, CQ!PromiseState
  <2>5. WaitsNot(r)' /\ HeardFine(r)'
    BY <2>1 DEF Goes, Turns, SlotInv, RunFine, WaitsNot, HeardFine, Underway
  <2>6. EntryFine(e)' /\ NobodyWaits'
    BY <2>1, <2>2 DEF EntryFine, SlotInv, NobodyWaits, RowSet, Goes, Turns
  <2> QED
    BY <2>1, <2>4, <2>5, <2>6, TurnFine DEF Goes, PC, RunFine
<1>3. CASE Register(r)
  <2>1. /\ run[r].pc = "updated" /\ Begun(r) /\ e \in Execution
        /\ Goes(r, "registered") /\ active' = [active EXCEPT ![e] = r]
        /\ entry'[r].status = "running" /\ ~entry'[r].settled
        /\ \A d \in Run \ {r} : entry'[d] = entry[d]
        /\ UNCHANGED <<enabled, db, tracked, promise>>
    BY <1>3, RegisterDoes DEF Register, queueVars, Begun
  <2>2. active'[e] = r /\ \A x \in Execution \ {e} : active'[x] = active[x]
    BY <2>1 DEF Typed, RestTyped
  <2>3. run'[r].pc = "registered" /\ run'[r].execution = e
    BY <2>1 DEF Goes, Turns
  <2>4. SlotFine(r)'
    BY <2>1, <2>2, <2>3 DEF SlotInv, RunFine, SlotFine, Begun, Listed, Underway
  <2>5. WaitsNot(r)' /\ HeardFine(r)'
    BY <2>1, <2>3 DEF Goes, Turns, SlotInv, RunFine, WaitsNot, HeardFine, Underway
  <2>6. EntryFine(e)' /\ NobodyWaits'
    BY <2>1, <2>2, <2>3 DEF EntryFine, SlotInv, NobodyWaits, Listed
  <2> QED
    BY <2>1, <2>2, <2>4, <2>5, <2>6, TurnFine DEF Goes, PC, RunFine
<1>4. CASE CredentialsAccepted(r)
  <2>1. /\ run[r].pc = "registered" /\ Begun(r) /\ e \in Execution
        /\ UNCHANGED <<enabled, db, active, tracked, promise>>
    BY <1>4, CredentialsAcceptedDoes DEF CredentialsAccepted, queueVars, Begun
  <2>2. CASE active[e] = NoRun /\ Goes(r, "failed") /\ UNCHANGED entry
    <3>1. run'[r].pc = "failed" /\ run'[r].execution = e
      BY <2>2 DEF Goes, Turns
    <3>2. SlotFine(r)'
      BY <2>1, <2>2, <3>1 DEF SlotInv, RunFine, SlotFine, Begun, Listed, Underway
    <3>3. WaitsNot(r)' /\ HeardFine(r)'
      BY <2>1, <2>2, <3>1 DEF Goes, Turns, SlotInv, RunFine, WaitsNot, HeardFine, Underway
    <3>4. EntryFine(e)' /\ NobodyWaits'
      BY <2>1, <2>2, <3>1 DEF EntryFine, SlotInv, NobodyWaits
    <3> QED
      BY <2>1, <2>2, <3>2, <3>3, <3>4, TurnFine DEF Goes, PC, RunFine
  <2>3. CASE /\ Goes(r, "accepted")
             /\ entry' \in [Run -> Entry]
             /\ \A d \in Run : /\ entry'[d].status = entry[d].status
                               /\ entry'[d].settled = entry[d].settled
                               /\ entry'[d].workflowExecution = entry[d].workflowExecution
    <3>1. run'[r].pc = "accepted" /\ run'[r].execution = e
      BY <2>3 DEF Goes, Turns
    <3>2. SlotFine(r)'
      BY <2>1, <3>1 DEF SlotInv, RunFine, SlotFine, Begun, Listed, Underway
    <3>3. WaitsNot(r)' /\ HeardFine(r)'
      BY <2>1, <2>3, <3>1 DEF Goes, Turns, SlotInv, RunFine, WaitsNot, HeardFine, Underway
    <3>4. EntryFine(e)' /\ NobodyWaits'
      <4>1. active[e] # NoRun => active[e] = r /\ ~entry[r].settled
        BY <2>1, EntryIsMine
      <4> QED
        BY <2>1, <2>3, <3>1, <4>1 DEF EntryFine, SlotInv, NobodyWaits, Listed
    <3>5. \A d \in Run \ {r} : entry'[d] = entry[d]
      BY <1>4, <2>1, EntryIsMine DEF CredentialsAccepted, Typed, RestTyped
    <3> QED
      BY <2>1, <2>3, <3>2, <3>3, <3>4, <3>5, TurnFine DEF Goes, PC, RunFine
  <2> QED
    BY <1>4, <2>2, <2>3, CredentialsAcceptedDoes
<1>5. CASE Start(r)
  <2>1. /\ run[r].pc = "starting" /\ Begun(r) /\ e \in Execution
        /\ UNCHANGED <<enabled, db, active, tracked, promise>>
    BY <1>5, StartDoes DEF Start, queueVars, Begun
  <2>2. CASE active[e] = NoRun /\ Goes(r, "executing") /\ UNCHANGED entry
    <3>1. run'[r].pc = "executing" /\ run'[r].execution = e /\ ~run'[r].heard
      BY <2>1, <2>2 DEF Goes, Turns, SlotInv, RunFine, HeardFine, Underway
    <3>2. SlotFine(r)'
      BY <2>1, <2>2, <3>1 DEF SlotInv, RunFine, SlotFine, Begun, Listed, Underway
    <3>3. WaitsNot(r)' /\ HeardFine(r)'
      BY <2>1, <2>2, <3>1 DEF Goes, Turns, SlotInv, RunFine, WaitsNot, HeardFine, Underway
    <3>4. EntryFine(e)' /\ NobodyWaits'
      BY <2>1, <2>2, <3>1 DEF EntryFine, SlotInv, NobodyWaits
    <3> QED
      BY <2>1, <2>2, <3>2, <3>3, <3>4, TurnFine DEF Goes, PC, RunFine
  <2>3. ASSUME NEW t, active[e] \in Run, Turns(r, "executing", run[r].outcome, t, TRUE),
               entry'[active[e]].workflowExecution = r,
               \A d \in Run : /\ entry'[d].status = entry[d].status
                              /\ entry'[d].settled = entry[d].settled,
               \A d \in Run \ {active[e]} : entry'[d] = entry[d]
        PROVE  SlotInv'
    <3>1. active[e] = r /\ ~entry[r].settled
      BY <2>1, <2>3, EntryIsMine, RegularModeAssumption DEF RegularModeAssumption
    <3>2. run'[r].pc = "executing" /\ run'[r].execution = e /\ run'[r].heard
      BY <2>3 DEF Turns
    <3>3. SlotFine(r)'
      BY <2>1, <3>1, <3>2 DEF SlotInv, RunFine, SlotFine, Begun, Listed, Underway
    <3>4. WaitsNot(r)' /\ HeardFine(r)'
      BY <2>1, <2>3, <3>1, <3>2 DEF Turns, SlotInv, RunFine, WaitsNot, HeardFine, Underway
    <3>5. EntryFine(e)' /\ NobodyWaits'
      BY <2>1, <2>3, <3>1, <3>2 DEF EntryFine, SlotInv, NobodyWaits, Listed, Underway
    <3> QED
      BY <2>1, <2>3, <3>1, <3>3, <3>4, <3>5, TurnFine DEF PC, RunFine
  <2> QED
    BY <1>5, <2>2, <2>3, StartDoes
<1>6. CASE SetRunning(r)
  <2>1. /\ run[r].pc = "accepted" /\ Begun(r) /\ e \in Execution
        /\ Goes(r, "starting") /\ RowSet(e, "running", db[e].waitTill)
        /\ UNCHANGED <<enabled, active, entry, tracked, promise>>
    BY <1>6, SetRunningDoes DEF SetRunning, queueVars, Begun
  <2>2. run'[r].pc = "starting" /\ run'[r].execution = e
    BY <2>1 DEF Goes, Turns
  <2>3. SlotFine(r)'
    BY <2>1, <2>2 DEF SlotInv, RunFine, SlotFine, Begun, Listed, Underway
  <2>4. WaitsNot(r)' /\ HeardFine(r)'
    BY <2>1, <2>2 DEF Goes, Turns, SlotInv, RunFine, WaitsNot, HeardFine, Underway
  <2>5. EntryFine(e)' /\ NobodyWaits'
    <3>1. active[e] # NoRun => active[e] = r /\ ~entry[r].settled
      BY <2>1, EntryIsMine
    <3> QED
      BY <2>1, <2>2, <3>1 DEF EntryFine, SlotInv, NobodyWaits, RowSet, Listed
  <2> QED
    BY <2>1, <2>3, <2>4, <2>5, TurnFine DEF Goes, PC, RunFine
<1> QED
  BY <1>1, <1>2, <1>3, <1>4, <1>5, <1>6

(* On its way out a run is saved, and settles its entry unless something   *)
(* else has.                                                               *)
LEMMA WayOutFine ==
  ASSUME Waiting = {}, Typed, SlotInv, NEW r \in Run,
         \/ CredentialsRejected(r) \/ StartFails(r) \/ PutToWait(r)
         \/ \E o \in {"success", "error", "waiting"} : Complete(r, o)
         \/ Save(r) \/ Finalize(r)
  PROVE  SlotInv'
<1> DEFINE e == run[r].execution
<1>1. CASE CredentialsRejected(r)
  <2>1. /\ run[r].pc = "registered" /\ Begun(r) /\ e \in Execution
        /\ UNCHANGED <<enabled, db, active, entry, tracked, promise>>
    BY <1>1, CredentialsRejectedDoes DEF CredentialsRejected, queueVars, Begun, Typed, RunsOrderly
  <2>2. Turns(r, "saving", "error", run[r].timer, TRUE)
    BY <1>1, CredentialsRejectedDoes
  <2>3. run'[r].pc = "saving" /\ run'[r].execution = e /\ run'[r].heard
    BY <2>2 DEF Turns
  <2>4. SlotFine(r)'
    BY <2>1, <2>3 DEF SlotInv, RunFine, SlotFine, Begun, Listed, Underway
  <2>5. WaitsNot(r)' /\ HeardFine(r)'
    BY <2>1, <2>2, <2>3 DEF Turns, SlotInv, RunFine, WaitsNot, HeardFine, Underway
  <2>6. EntryFine(e)' /\ NobodyWaits'
    <3>1. active[e] # NoRun => active[e] = r /\ ~entry[r].settled
      BY <2>1, EntryIsMine
    <3> QED
      BY <2>1, <2>3, <3>1 DEF EntryFine, SlotInv, NobodyWaits, Listed, Underway
  <2> QED
    BY <2>1, <2>2, <2>4, <2>5, <2>6, TurnFine DEF PC, RunFine
<1>2. CASE StartFails(r)
  <2>1. /\ run[r].pc = "starting" /\ Begun(r) /\ e \in Execution
        /\ UNCHANGED <<enabled, db, tracked>>
    BY <1>2, StartFailsDoes DEF StartFails, Begun
  <2>2. Turns(r, "saving", "error", run[r].timer, run[r].heard)
    BY <1>2, StartFailsDoes
  <2>3. run'[r].pc = "saving" /\ run'[r].execution = e /\ ~run'[r].heard
    BY <2>1, <2>2 DEF Turns, SlotInv, RunFine, HeardFine, Underway
  <2>4. /\ active'[e] = NoRun
        /\ \A x \in Execution \ {e} : active'[x] = active[x]
        /\ entry'[r].status = "running"
        /\ enabled /\ e \in Limited => promise'[r] # "resolved"
        /\ ~(enabled /\ e \in Limited) => promise'[r] = promise[r]
        /\ \A d \in Run \ {r} :
             /\ entry'[d] = entry[d]
             /\ promise'[d] = promise[d] \/ (promise[d] = "pending" /\ promise'[d] = "resolved")
    <3>1. CASE active[e] = NoRun /\ UNCHANGED <<queueVars, active, entry>>
      <4>1. enabled /\ e \in Limited => promise[r] # "resolved"
        BY <2>1, <3>1, RegularModeAssumption
        DEF SlotInv, RunFine, SlotFine, Listed, RegularModeAssumption
      <4> QED
        BY <2>1, <3>1, <4>1, EntryIsMine DEF queueVars
    <3>2. CASE active[e] \in Run /\ Settle(active[e], e)
      <4>1. active[e] # NoRun
        BY <3>2, RegularModeAssumption DEF RegularModeAssumption
      <4> QED
        BY <2>1, <3>2, <4>1, SettleMine DEF Typed, RestTyped
    <3> QED
      BY <1>2, <3>1, <3>2, StartFailsDoes
  <2>5. SlotFine(r)'
    BY <2>1, <2>3, <2>4, RegularModeAssumption
    DEF SlotInv, RunFine, SlotFine, Begun, Listed, Underway, RegularModeAssumption
  <2>6. WaitsNot(r)' /\ HeardFine(r)'
    BY <2>1, <2>2, <2>3, <2>4 DEF Turns, SlotInv, RunFine, WaitsNot, HeardFine, Underway
  <2>7. EntryFine(e)' /\ NobodyWaits'
    BY <2>1, <2>3, <2>4 DEF EntryFine, SlotInv, NobodyWaits
  <2> QED
    BY <2>1, <2>2, <2>4, <2>5, <2>6, <2>7, TurnFine DEF PC, RunFine
<1>3. CASE PutToWait(r)
  BY <1>3 DEF PutToWait
<1>4. ASSUME NEW o \in {"success", "error", "waiting"}, Complete(r, o) PROVE SlotInv'
  <2>1. /\ run[r].pc = "executing" /\ Begun(r) /\ e \in Execution
        /\ UNCHANGED <<enabled, db, active, entry, tracked, promise>>
    BY <1>4, CompleteDoes DEF Complete, queueVars, Begun, Typed, RunsOrderly
  <2>2. PICK where \in {"saving", "saved"} : Turns(r, where, o, run[r].timer, run[r].heard)
    BY <1>4, CompleteDoes
  <2>3. run'[r].pc \in {"saving", "saved"} /\ run'[r].execution = e /\ run'[r].heard = run[r].heard
    BY <2>2 DEF Turns
  <2>4. SlotFine(r)'
    BY <2>1, <2>3 DEF SlotInv, RunFine, SlotFine, Begun, Listed, Underway
  <2>5. o # "waiting"
    BY <1>4, CompleteDoes DEF SlotInv, RunFine, WaitsNot
  <2>6. WaitsNot(r)' /\ HeardFine(r)'
    BY <2>1, <2>2, <2>3, <2>5 DEF Turns, SlotInv, RunFine, WaitsNot, HeardFine, Underway
  <2>7. EntryFine(e)' /\ NobodyWaits'
    <3>1. active[e] # NoRun => active[e] = r /\ ~entry[r].settled
      BY <2>1, EntryIsMine
    <3> QED
      BY <2>1, <2>3, <3>1 DEF EntryFine, SlotInv, NobodyWaits, Listed, Underway
  <2> QED
    BY <2>1, <2>2, <2>4, <2>6, <2>7, TurnFine DEF PC, RunFine
<1>5. CASE Save(r)
  <2>1. /\ run[r].pc = "saving" /\ Begun(r) /\ e \in Execution
        /\ Goes(r, "saved")
        /\ RowSet(e, run[r].outcome, db[e].waitTill \/ run[r].outcome = "waiting")
        /\ UNCHANGED <<enabled, active, entry, tracked, promise>>
    BY <1>5, SaveDoes DEF Save, queueVars, Begun
  <2>2. run'[r].pc = "saved" /\ run'[r].execution = e /\ run'[r].heard = run[r].heard
    BY <2>1 DEF Goes, Turns
  <2>3. SlotFine(r)'
    BY <2>1, <2>2 DEF SlotInv, RunFine, SlotFine, Begun, Listed, Underway
  <2>4. WaitsNot(r)' /\ HeardFine(r)'
    BY <2>1, <2>2 DEF Goes, Turns, SlotInv, RunFine, WaitsNot, HeardFine, Underway
  <2>5. EntryFine(e)'
    <3>1. active[e] # NoRun => active[e] = r /\ ~entry[r].settled
      BY <2>1, EntryIsMine
    <3> QED
      BY <2>1, <2>2, <3>1 DEF EntryFine, Listed, Underway
  <2>6. NobodyWaits'
    <3>1. ~db[e].waitTill /\ run[r].outcome # "waiting"
      BY <2>1 DEF SlotInv, NobodyWaits, RunFine, WaitsNot
    <3> QED
      BY <2>1, <3>1 DEF SlotInv, NobodyWaits, RowSet
  <2> QED
    BY <2>1, <2>3, <2>4, <2>5, <2>6, TurnFine DEF Goes, PC, RunFine
<1>6. CASE Finalize(r)
  <2>1. /\ run[r].pc = "saved" /\ Begun(r) /\ e \in Execution
        /\ UNCHANGED <<enabled, db, tracked>>
    BY <1>6, FinalizeDoes DEF Finalize, Begun
  <2>2. Turns(r, "ended", run[r].outcome, FALSE, run[r].heard)
    BY <1>6, FinalizeDoes
  <2>3. run'[r].pc = "ended" /\ run'[r].execution = e
    BY <2>2 DEF Turns
  <2>4. /\ active'[e] = NoRun
        /\ \A x \in Execution \ {e} : active'[x] = active[x]
        /\ entry'[r].status = "running"
        /\ enabled /\ e \in Limited => promise'[r] # "resolved"
        /\ ~(enabled /\ e \in Limited) => promise'[r] = promise[r]
        /\ \A d \in Run \ {r} :
             /\ entry'[d] = entry[d]
             /\ promise'[d] = promise[d] \/ (promise[d] = "pending" /\ promise'[d] = "resolved")
    <3>1. CASE (~run[r].heard \/ active[e] = NoRun) /\ UNCHANGED <<queueVars, active, entry>>
      <4>1. active[e] = NoRun
        BY <2>1, <3>1 DEF SlotInv, RunFine, HeardFine, Underway
      <4>2. enabled /\ e \in Limited => promise[r] # "resolved"
        BY <2>1, <4>1, RegularModeAssumption
        DEF SlotInv, RunFine, SlotFine, Listed, Underway, RegularModeAssumption
      <4> QED
        BY <2>1, <3>1, <4>1, <4>2, EntryIsMine DEF queueVars
    <3>2. CASE active[e] \in Run /\ Settle(active[e], e)
      <4>1. active[e] # NoRun
        BY <3>2, RegularModeAssumption DEF RegularModeAssumption
      <4> QED
        BY <2>1, <3>2, <4>1, SettleMine DEF Typed, RestTyped
    <3> QED
      BY <1>6, <3>1, <3>2, FinalizeDoes
  <2>5. SlotFine(r)'
    BY <2>1, <2>3, <2>4, RegularModeAssumption
    DEF SlotInv, RunFine, SlotFine, Begun, Listed, Underway, RegularModeAssumption
  <2>6. WaitsNot(r)' /\ HeardFine(r)'
    BY <2>1, <2>2, <2>3, <2>4 DEF Turns, SlotInv, RunFine, WaitsNot, HeardFine, Underway
  <2>7. EntryFine(e)' /\ NobodyWaits'
    BY <2>1, <2>3, <2>4 DEF EntryFine, SlotInv, NobodyWaits
  <2> QED
    BY <2>1, <2>2, <2>4, <2>5, <2>6, <2>7, TurnFine DEF PC, RunFine
<1> QED
  BY <1>1, <1>2, <1>3, <1>4, <1>5, <1>6

(* Steps that move no run, no entry and no slot.                           *)
LEMMA StillFine ==
  ASSUME SlotInv, UNCHANGED <<run, active, entry, enabled, promise>>, NobodyWaits'
  PROVE  SlotInv'
BY DEF SlotInv, OneRunEach, RunFine, WaitsNot, SlotFine, HeardFine, EntryFine, Begun

(* stopExecution takes the slot of a run only together with its entry, and *)
(* cancels the run if its workflow is under way.                           *)
LEMMA StopExecutionFine ==
  ASSUME Typed, SlotInv, NEW e \in Execution, NEW runs,
         runs = run \/ \E t \in Run : runs = [run EXCEPT ![t].timer = FALSE],
         StopExecution(e, runs),
         enabled' = enabled, db' = db, tracked' \subseteq tracked
  PROVE  SlotInv'
<1>1. RunsStay
  BY StopDoes
<1>2. NobodyWaits'
  BY DEF SlotInv, NobodyWaits
<1>3. CASE active[e] = NoRun
  <2>1. active' = active /\ UNCHANGED <<queueVars, entry>>
    BY <1>3 DEF StopExecution
  <2>2. \A d \in Run : RunFine(d)'
    BY <1>1, <2>1
    DEF RunsStay, queueVars, SlotInv, RunFine, WaitsNot, SlotFine, HeardFine, Begun, Underway
  <2>3. \A x \in Execution : EntryFine(x)'
    BY <1>1, <2>1 DEF RunsStay, SlotInv, EntryFine, Typed, RestTyped
  <2>4. OneRunEach'
    BY <1>1 DEF RunsStay, SlotInv, OneRunEach, Begun
  <2> QED
    BY <1>2, <2>2, <2>3, <2>4 DEF SlotInv
<1>4. CASE active[e] # NoRun
  <2>1. PICK r \in Run : active[e] = r
    BY <1>4 DEF Typed, RestTyped
  <2>2. run[r].execution = e /\ run[r].pc \in Listed /\ Begun(r) /\ entry[r].status = "running"
    BY <1>4, <2>1 DEF SlotInv, EntryFine, Listed, Underway, Begun, RunFine, WaitsNot
  <2>3. /\ Settle(r, e)
        /\ Cancellable(entry[r].workflowExecution) => run'[entry[r].workflowExecution].cancelled
    BY <1>4, <2>1, <2>2, StopDoes
  <2>4. active[run[r].execution] = r
    BY <2>1, <2>2
  <2>5. /\ active' = [active EXCEPT ![e] = NoRun]
        /\ promise'[r] = IF enabled /\ e \in Limited THEN "idle" ELSE promise[r]
        /\ \A d \in Run \ {r} :
             /\ entry'[d] = entry[d]
             /\ promise'[d] = promise[d] \/ (promise[d] = "pending" /\ promise'[d] = "resolved")
        /\ entry'[r].status = "running"
        /\ entry'[r].workflowExecution = entry[r].workflowExecution
    BY <1>4, <2>1, <2>2, <2>3, <2>4, SettleMine
  <2>6. /\ run'[r].execution = e /\ run'[r].resumes = run[r].resumes
        /\ run'[r].pc = run[r].pc /\ run'[r].outcome = run[r].outcome
        /\ run'[r].heard = run[r].heard
        /\ run[r].cancelled => run'[r].cancelled
        /\ run'[r].cancelled => run[r].cancelled \/ run[r].pc \in Underway
    BY <1>1, <2>1, <2>2 DEF RunsStay
  <2>7. active'[e] = NoRun /\ \A x \in Execution \ {e} : active'[x] = active[x]
    BY <2>5 DEF Typed, RestTyped
  <2>8. SlotFine(r)'
    BY <2>1, <2>2, <2>5, <2>6, <2>7, RegularModeAssumption
    DEF SlotInv, RunFine, SlotFine, Begun, Listed, Underway, RegularModeAssumption
  <2>9. HeardFine(r)'
    <3>1. run[r].pc = "executing" /\ run[r].heard /\ ~run[r].cancelled /\ enabled =>
            run'[r].cancelled
      BY <2>1, <2>3 DEF SlotInv, RunFine, HeardFine, Cancellable
    <3> QED
      BY <2>1, <2>6, <2>7, <3>1 DEF SlotInv, RunFine, HeardFine, Underway
  <2>10. WaitsNot(r)'
    BY <2>1, <2>5, <2>6 DEF SlotInv, RunFine, WaitsNot
  <2>11. EntryFine(e)'
    BY <2>7 DEF EntryFine
  <2>12. \A d \in Run \ {r} :
           /\ run[d].pc # "idle" => run[d].execution # e
           /\ run'[d].execution = run[d].execution /\ run'[d].resumes = run[d].resumes
           /\ run'[d].pc = run[d].pc /\ run'[d].outcome = run[d].outcome
           /\ run'[d].heard = run[d].heard
           /\ run[d].cancelled => run'[d].cancelled
           /\ run'[d].cancelled => run[d].cancelled \/ run[d].pc \in Underway
    BY <1>1, <2>1, <2>2 DEF RunsStay, SlotInv, OneRunEach, Begun
  <2> QED
    BY <1>2, <2>1, <2>2, <2>5, <2>6, <2>7, <2>8, <2>9, <2>10, <2>11, <2>12, OthersFine
    DEF RunFine, Begun
<1> QED
  BY <1>3, <1>4

LEMMA StopsFine ==
  ASSUME Typed, SlotInv,
         \/ \E r \in Run : Timeout(r) \/ SaveCancelled(r)
         \/ \E e \in Execution : StopRead(e) \/ StopStep(e) \/ Poll(e)
         \/ Shutdown
  PROVE  SlotInv'
<1>1. ASSUME NEW r \in Run, Timeout(r) PROVE SlotInv'
  <2>1. run[r].execution \in Execution
    BY <1>1 DEF Timeout, Typed, RunsOrderly
  <2> QED
    BY <1>1, <2>1, StopExecutionFine DEF Timeout
<1>2. ASSUME NEW r \in Run, SaveCancelled(r) PROVE SlotInv'
  <2>1. NobodyWaits'
    BY <1>2, SaveCancelledDoes DEF SaveCancelled, SlotInv, NobodyWaits, RowSet
  <2> QED
    BY <1>2, <2>1, StillFine DEF SaveCancelled, queueVars
<1>3. ASSUME NEW e \in Execution, StopRead(e) PROVE SlotInv'
  BY <1>3, StillFine DEF StopRead, queueVars, SlotInv, NobodyWaits
<1>4. ASSUME NEW e \in Execution, StopQueued(e) PROVE SlotInv'
  <2>1. /\ UNCHANGED <<enabled, db, active, entry, run, tracked>>
        /\ \A d \in Run :
             \/ promise'[d] = promise[d]
             \/ promise[d] = "pending" /\ promise'[d] \in {"resolved", "dropped"}
    BY <1>4, RemovalMoves DEF StopQueued, Typed
  <2>2. \A d \in Run : promise[d] = "pending" => run[d].pc = "throttled"
    BY DEF Typed, RunsOrderly
  <2>3. ASSUME NEW d \in Run PROVE RunFine(d)'
    <3>1. SlotFine(d)
      BY DEF SlotInv, RunFine
    <3>2. SlotFine(d)'
      <4>1. CASE promise'[d] = promise[d]
        BY <2>1, <3>1, <4>1 DEF SlotFine, Begun
      <4>2. CASE promise[d] = "pending" /\ promise'[d] \in {"resolved", "dropped"}
        BY <2>1, <2>2, <3>1, <4>2 DEF SlotFine, Begun, Listed, Underway
      <4> QED
        BY <2>1, <4>1, <4>2
    <3>3. WaitsNot(d)' /\ HeardFine(d)'
      BY <2>1 DEF SlotInv, RunFine, WaitsNot, HeardFine
    <3> QED
      BY <3>2, <3>3 DEF RunFine
  <2>4. OneRunEach' /\ NobodyWaits' /\ \A x \in Execution : EntryFine(x)'
    BY <2>1 DEF SlotInv, OneRunEach, Begun, NobodyWaits, EntryFine
  <2> QED
    BY <2>3, <2>4 DEF SlotInv
<1>5. ASSUME NEW e \in Execution, StopActive(e) PROVE SlotInv'
  BY <1>5, StopExecutionFine DEF StopActive
<1>6. ASSUME NEW e \in Execution, StopWrite(e) PROVE SlotInv'
  <2>1. NobodyWaits'
    BY <1>6 DEF StopWrite, SetRow, Typed, RestTyped, Row, SlotInv, NobodyWaits
  <2> QED
    BY <1>6, <2>1, StillFine DEF StopWrite, queueVars
<1>7. ASSUME NEW e \in Execution, Poll(e) PROVE SlotInv'
  BY <1>7 DEF Poll, SlotInv, NobodyWaits
<1>8. CASE Shutdown
  <2>1. /\ enabled' = FALSE /\ UNCHANGED <<db, tracked>>
        /\ RunsStay
        /\ entry' \in [Run -> Entry] /\ active' \in [Execution -> Run \cup {NoRun}]
        /\ \A d \in Run : entry'[d].status = entry[d].status
        /\ \A e \in Execution :
             active'[e] # NoRun =>
               active'[e] = active[e] /\ entry'[active[e]].settled = entry[active[e]].settled
    BY <1>8, ShutdownDoes DEF Shutdown
  <2>2. ASSUME NEW d \in Run PROVE RunFine(d)'
    <3>1. run[d].pc # "idle" => run[d].execution \in Execution
      BY DEF Typed, RunsOrderly, Begun
    <3>2. HeardFine(d)'
      BY <2>1, <3>1 DEF RunsStay, SlotInv, RunFine, HeardFine, Underway
    <3> QED
      BY <2>1, <3>2 DEF RunsStay, SlotInv, RunFine, WaitsNot, SlotFine
  <2>3. ASSUME NEW e \in Execution PROVE EntryFine(e)'
    <3>1. active[e] # NoRun => active[e] \in Run
      BY DEF Typed, RestTyped
    <3> QED
      BY <2>1, <3>1 DEF RunsStay, SlotInv, EntryFine
  <2>4. OneRunEach' /\ NobodyWaits'
    BY <2>1 DEF RunsStay, SlotInv, OneRunEach, Begun, NobodyWaits
  <2> QED
    BY <2>2, <2>3, <2>4 DEF SlotInv
<1> QED
  BY <1>1, <1>2, <1>3, <1>4, <1>5, <1>6, <1>7, <1>8 DEF StopStep

LEMMA BeginsFine ==
  ASSUME Typed, RowsOrderly, SlotInv, NEW r \in Run, NEW e \in Execution,
         Create(r, e) \/ TimerFires(r, e) \/ WebhookResumes(r, e)
  PROVE  SlotInv'
<1>1. CASE Create(r, e)
  <2>1. /\ run[r].pc = "idle" /\ db[e].status = "none"
        /\ Begins(r, e, run[r].resumes, "created") /\ RowSet(e, "new", FALSE)
        /\ UNCHANGED <<enabled, active, entry, tracked, promise>>
    BY <1>1, CreateDoes DEF Create, queueVars
  <2>2. \A d \in Run : run[d].pc # "idle" => run[d].execution # e
    BY <2>1 DEF RowsOrderly, UntouchedWithoutRow, Begun
  <2>3. active[e] = NoRun
    <3> SUFFICES ASSUME active[e] # NoRun PROVE FALSE
      OBVIOUS
    <3>1. active[e] \in Run
      BY DEF Typed, RestTyped
    <3> QED
      BY <2>2, <3>1 DEF SlotInv, EntryFine, Listed, Underway
  <2>4. /\ run'[r].execution = e /\ run'[r].pc = "created"
        /\ run'[r].resumes = run[r].resumes /\ run'[r].outcome = run[r].outcome
        /\ run'[r].cancelled = run[r].cancelled /\ run'[r].heard = run[r].heard
        /\ \A d \in Run \ {r} : run'[d] = run[d]
    BY <2>1 DEF Begins, OnlyRun
  <2>5. SlotFine(r)'
    <3>1. enabled => promise[r] = "idle"
      BY <2>1 DEF SlotInv, RunFine, SlotFine, Begun
    <3> QED
      BY <2>1, <2>4, <3>1 DEF SlotFine, Begun, Listed, Underway
  <2>6. WaitsNot(r)' /\ HeardFine(r)'
    BY <2>1, <2>4 DEF SlotInv, RunFine, WaitsNot, HeardFine, Underway
  <2>7. EntryFine(e)' /\ NobodyWaits'
    BY <2>1, <2>3 DEF EntryFine, SlotInv, NobodyWaits, RowSet
  <2> QED
    BY <2>1, <2>2, <2>4, <2>5, <2>6, <2>7, OthersFine DEF RunFine
<1>2. CASE TimerFires(r, e) \/ WebhookResumes(r, e)
  BY <1>2 DEF TimerFires, WebhookResumes, SlotInv, NobodyWaits
<1> QED
  BY <1>1, <1>2

LEMMA SlotStep ==
  ASSUME Waiting = {}
  PROVE  Typed /\ RowsOrderly /\ SlotInv /\ [Next]_vars => SlotInv'
<1> SUFFICES ASSUME Typed, RowsOrderly, SlotInv, [Next]_vars PROVE SlotInv'
  OBVIOUS
<1>1. ASSUME NEW r \in Run, RunStep(r) PROVE SlotInv'
  BY <1>1, WayInFine, WayOutFine, StopsFine DEF RunStep
<1>2. CASE UNCHANGED vars
  <2>1. NobodyWaits'
    BY <1>2 DEF vars, SlotInv, NobodyWaits
  <2> QED
    BY <1>2, <2>1, StillFine DEF vars
<1> QED
  BY <1>1, <1>2, StopsFine, BeginsFine DEF Next

LEMMA SlotInvariant ==
  ASSUME Waiting = {}
  PROVE  Spec => [](Typed /\ RowsOrderly /\ SlotInv)
<1>1. Init => SlotInv
  BY DEF Init, CQ!Init, SlotInv, NobodyWaits, OneRunEach, RunFine, WaitsNot, SlotFine,
         HeardFine, EntryFine, Begun, Underway
<1>2. SlotInv /\ Typed /\ RowsOrderly /\ [Next]_vars => SlotInv'
  BY SlotStep
<1> QED
  BY <1>1, <1>2, RowsInvariant, PTL DEF Spec

(* Where no execution waits, a run that is over has given its slot back,   *)
(* whatever stopped it, timed it out or made it fail.                      *)
THEOREM SlotsComeBack ==
  ASSUME Waiting = {}
  PROVE  Spec => []NoLeakedSlot
<1>1. Typed /\ SlotInv => NoLeakedSlot
  <2> SUFFICES ASSUME Typed, SlotInv, enabled, NEW r \in Run, run[r].pc \in {"ended", "failed"}
               PROVE  promise[r] # "resolved"
    BY DEF NoLeakedSlot
  <2>1. SlotFine(r) /\ Begun(r)
    BY DEF SlotInv, RunFine, Begun
  <2>2. CASE run[r].execution \in Limited /\ promise[r] = "resolved"
    <3>1. active[run[r].execution] = r
      BY <2>1, <2>2 DEF SlotFine
    <3> QED
      BY <2>1, <3>1, EntryIsMine, RegularModeAssumption
      DEF Listed, Underway, RegularModeAssumption
  <2> QED
    BY <2>1, <2>2 DEF SlotFine
<1> QED
  BY <1>1, SlotInvariant, PTL

(* Where no execution waits, an entry that is listed is one of a run that  *)
(* has not ended.                                                          *)
THEOREM EntriesAreLive ==
  ASSUME Waiting = {}
  PROVE  Spec => []NoStaleEntry
<1>1. SlotInv => NoStaleEntry
  BY DEF SlotInv, EntryFine, NoStaleEntry, Listed, Underway
<1> QED
  BY <1>1, SlotInvariant, PTL


-----------------------------------------------------------------------------
(* Who may take the slot of a workflow that executes                       *)

Stopped(e) == stopper[e].pc \in {"stopDuringRun", "done"}

(* A run on its way to its workflow, or in it, that has lost its entry     *)
(* without being cancelled has lost it to a user's stop. The timer of the  *)
(* timeout, which might take it too, is armed only once the workflow can   *)
(* be cancelled.                                                           *)
LostFine(r) ==
  /\ run[r].timer => run[r].pc \in Underway
  /\ (/\ enabled /\ run[r].pc \in {"registered", "accepted", "starting", "executing"}
      /\ ~run[r].cancelled /\ active[run[r].execution] = NoRun)
       => Stopped(run[r].execution)

LostInv == \A r \in Run : LostFine(r)

(* A run that the step is not about.                                       *)
LEMMA LostStays ==
  ASSUME LostInv, NEW d \in Run,
         run'[d].execution = run[d].execution, run'[d].pc = run[d].pc,
         run[d].cancelled => run'[d].cancelled, run'[d].timer => run[d].timer,
         enabled' => enabled,
         Begun(d) => active'[run[d].execution] = active[run[d].execution],
         Stopped(run[d].execution) => Stopped(run[d].execution)'
  PROVE  LostFine(d)'
<1>1. LostFine(d)
  BY DEF LostInv
<1> QED
  BY <1>1 DEF LostFine, Begun, Stopped

(* A step of run r that leaves what `stop` knows and the entries of the    *)
(* other executions.                                                       *)
LEMMA LostTurn ==
  ASSUME Typed, SlotInv, LostInv, NEW r \in Run, Begun(r), OnlyRun(r),
         \A x \in Execution \ {run[r].execution} : active'[x] = active[x],
         enabled' = enabled, stopper' = stopper,
         LostFine(r)'
  PROVE  LostInv'
<1>1. ASSUME NEW d \in Run \ {r} PROVE LostFine(d)'
  <2>1. Begun(d) => run[d].execution \in Execution /\ run[d].execution # run[r].execution
    BY DEF Typed, RunsOrderly, SlotInv, OneRunEach
  <2> QED
    BY <2>1, LostStays DEF OnlyRun, Stopped
<1> QED
  BY <1>1 DEF LostInv

LEMMA LostRunStep ==
  ASSUME Waiting = {}, Typed, SlotInv, LostInv, NEW r \in Run, RunStep(r)
  PROVE  LostInv'
<1> DEFINE e == run[r].execution
<1>0. LostFine(r)
  BY DEF LostInv
<1>1. CASE EnterThrottle(r) \/ Update(r)
  <2>1. /\ run[r].pc \in {"created", "reading", "throttled"} /\ Begun(r)
        /\ UNCHANGED <<enabled, active, stopper>>
    BY <1>1 DEF EnterThrottle, Update, At, Begun
  <2>2. PICK where \in {"throttled", "updated"} : Goes(r, where)
    BY <1>1, GotoGoes DEF EnterThrottle, Update, Typed, PC
  <2>3. LostFine(r)'
    BY <1>0, <2>1, <2>2 DEF LostFine, Goes, Turns, Underway
  <2> QED
    BY <2>1, <2>2, <2>3, LostTurn DEF Goes, Turns
<1>2. CASE Register(r)
  <2>1. /\ run[r].pc = "updated" /\ Begun(r) /\ e \in Execution /\ Goes(r, "registered")
        /\ active' = [active EXCEPT ![e] = r] /\ UNCHANGED <<enabled, stopper>>
    BY <1>2, RegisterDoes DEF Register, Begun
  <2>2. active'[e] = r /\ \A x \in Execution \ {e} : active'[x] = active[x]
    BY <2>1 DEF Typed, RestTyped
  <2>3. LostFine(r)'
    BY <1>0, <2>1, <2>2, RegularModeAssumption
    DEF LostFine, Goes, Turns, Underway, RegularModeAssumption
  <2> QED
    BY <2>1, <2>2, <2>3, LostTurn DEF Goes, Turns
<1>3. CASE CredentialsAccepted(r) \/ SetRunning(r)
  <2>1. /\ run[r].pc \in {"registered", "accepted"} /\ Begun(r)
        /\ UNCHANGED <<enabled, active, stopper>>
    BY <1>3 DEF CredentialsAccepted, SetRunning, At, Begun
  <2>2. PICK where \in {"failed", "accepted", "starting"} : Goes(r, where)
    BY <1>3, CredentialsAcceptedDoes, SetRunningDoes
  <2>3. LostFine(r)'
    BY <1>0, <2>1, <2>2 DEF LostFine, Goes, Turns, Underway, Stopped
  <2> QED
    BY <2>1, <2>2, <2>3, LostTurn DEF Goes, Turns
<1>4. CASE Start(r)
  <2>1. /\ run[r].pc = "starting" /\ Begun(r) /\ UNCHANGED <<enabled, active, stopper>>
    BY <1>4 DEF Start, At, Begun
  <2>2. PICK t, h : Turns(r, "executing", run[r].outcome, t, h)
    BY <1>4, StartDoes DEF Goes
  <2>3. LostFine(r)'
    BY <1>0, <2>1, <2>2 DEF LostFine, Turns, Underway, Stopped
  <2> QED
    BY <2>1, <2>2, <2>3, LostTurn DEF Turns
<1>5. CASE CredentialsRejected(r)
  <2>1. Begun(r) /\ UNCHANGED <<enabled, active, stopper>>
    BY <1>5 DEF CredentialsRejected, At, Begun
  <2>2. Turns(r, "saving", "error", run[r].timer, TRUE)
    BY <1>5, CredentialsRejectedDoes
  <2>3. LostFine(r)'
    BY <2>2 DEF LostFine, Turns, Underway
  <2> QED
    BY <2>1, <2>2, <2>3, LostTurn DEF Turns
<1>6. CASE StartFails(r) \/ Finalize(r)
  <2>1. /\ run[r].pc \in {"starting", "saved"} /\ Begun(r) /\ e \in Execution
        /\ UNCHANGED <<enabled, stopper>>
    BY <1>6, StartFailsDoes, FinalizeDoes DEF StartFails, Finalize, Begun
  <2>2. active' = active \/ Settle(active[e], e)
    BY <1>6, StartFailsDoes, FinalizeDoes
  <2>3. \A x \in Execution \ {e} : active'[x] = active[x]
    BY <2>1, <2>2 DEF Settle, Typed, RestTyped
  <2>4. OnlyRun(r) /\ LostFine(r)'
    <3>1. CASE StartFails(r)
      <4>1. Turns(r, "saving", "error", run[r].timer, run[r].heard)
        BY <3>1, StartFailsDoes
      <4> QED
        BY <4>1 DEF LostFine, Turns, Underway
    <3>2. CASE Finalize(r)
      <4>1. Turns(r, "ended", run[r].outcome, FALSE, run[r].heard)
        BY <3>2, FinalizeDoes
      <4> QED
        BY <4>1 DEF LostFine, Turns, Underway
    <3> QED
      BY <1>6, <3>1, <3>2
  <2> QED
    BY <2>1, <2>3, <2>4, LostTurn
<1>7. CASE PutToWait(r)
  BY <1>7 DEF PutToWait
<1>8. ASSUME NEW o \in {"success", "error", "waiting"}, Complete(r, o) PROVE LostInv'
  <2>1. Begun(r) /\ UNCHANGED <<enabled, active, stopper>>
    BY <1>8, CompleteDoes DEF Complete, Begun
  <2>2. PICK where \in {"saving", "saved"} : Turns(r, where, o, run[r].timer, run[r].heard)
    BY <1>8, CompleteDoes
  <2>3. LostFine(r)'
    BY <2>2 DEF LostFine, Turns, Underway
  <2> QED
    BY <2>1, <2>2, <2>3, LostTurn DEF Turns
<1>9. CASE Save(r)
  <2>1. Begun(r) /\ UNCHANGED <<enabled, active, stopper>> /\ Goes(r, "saved")
    BY <1>9, SaveDoes DEF Save, Begun
  <2>2. LostFine(r)'
    BY <2>1 DEF LostFine, Goes, Turns, Underway
  <2> QED
    BY <2>1, <2>2, LostTurn DEF Goes, Turns
<1>10. CASE SaveCancelled(r)
  BY <1>10 DEF SaveCancelled, LostInv, LostFine, Stopped
<1> QED
  BY <1>1, <1>2, <1>3, <1>4, <1>5, <1>6, <1>7, <1>8, <1>9, <1>10 DEF RunStep

(* stopExecution, by a timeout or a user's stop: whoever calls it, the     *)
(* entry of no other execution changes.                                    *)
LEMMA StopTakesOne ==
  ASSUME Typed, NEW e \in Execution, NEW runs, StopExecution(e, runs)
  PROVE  /\ \A x \in Execution \ {e} : active'[x] = active[x]
         /\ active[e] = NoRun => active' = active
BY StopCases DEF StopExecution, Settle, Typed, RestTyped

LEMMA LostTimeout ==
  ASSUME Typed, SlotInv, LostInv, NEW r \in Run, Timeout(r)
  PROVE  LostInv'
<1> DEFINE e == run[r].execution
<1>1. /\ run[r].timer /\ run[r].pc \in Underway /\ Begun(r) /\ e \in Execution
      /\ UNCHANGED <<enabled, stopper>>
      /\ StopExecution(e, [run EXCEPT ![r].timer = FALSE])
  BY DEF Timeout, LostInv, LostFine, Underway, Begun, Typed, RunsOrderly
<1>2. RunsStay /\ \A x \in Execution \ {e} : active'[x] = active[x]
  BY <1>1, StopDoes, StopTakesOne
<1>3. ASSUME NEW d \in Run \ {r} PROVE LostFine(d)'
  <2>1. Begun(d) => run[d].execution \in Execution /\ run[d].execution # e
    BY <1>1 DEF Typed, RunsOrderly, SlotInv, OneRunEach
  <2> QED
    BY <1>1, <1>2, <2>1, LostStays DEF RunsStay, Stopped
<1>4. LostFine(r)'
  <2>1. CASE active[e] = NoRun
    <3>1. active' = active
      BY <1>1, <2>1, StopTakesOne
    <3> QED
      BY <1>1, <1>2, <3>1, LostStays DEF RunsStay, Stopped
  <2>2. CASE active[e] # NoRun
    <3>1. active[e] = r /\ entry[r].status = "running"
      BY <1>1, <2>2, EntryIsMine
    <3>2. /\ Cancellable(entry[r].workflowExecution) => run'[entry[r].workflowExecution].cancelled
      BY <1>1, <3>1, StopDoes, RegularModeAssumption DEF RegularModeAssumption
    <3>3. enabled /\ run[r].pc = "executing" /\ ~run[r].cancelled => run'[r].cancelled
      BY <1>1, <2>2, <3>2 DEF SlotInv, RunFine, HeardFine, Cancellable
    <3>4. run'[r].pc \in Underway /\ run'[r].pc = run[r].pc
      BY <1>1, <1>2 DEF RunsStay
    <3>5. run'[r].pc \in {"registered", "accepted", "starting", "executing"} =>
            run[r].pc = "executing"
      BY <3>4 DEF Underway
    <3>6. enabled' = enabled /\ (run[r].cancelled => run'[r].cancelled)
      BY <1>1, <1>2 DEF RunsStay
    <3> QED
      BY <3>3, <3>4, <3>5, <3>6 DEF LostFine
  <2> QED
    BY <2>1, <2>2
<1> QED
  BY <1>3, <1>4 DEF LostInv

LEMMA LostStep ==
  ASSUME Waiting = {}
  PROVE  Typed /\ RowsOrderly /\ SlotInv /\ LostInv /\ [Next]_vars => LostInv'
<1> SUFFICES ASSUME Typed, RowsOrderly, SlotInv, LostInv, [Next]_vars PROVE LostInv'
  OBVIOUS
<1>1. ASSUME NEW e \in Execution, StopActive(e) PROVE LostInv'
  <2>1. /\ RunsStay /\ \A x \in Execution \ {e} : active'[x] = active[x]
        /\ enabled' = enabled
        /\ Stopped(e)' /\ \A x \in Execution \ {e} : stopper'[x] = stopper[x]
    BY <1>1, StopDoes, StopTakesOne DEF StopActive, Stopped, Typed, RestTyped, StopState
  <2>2. ASSUME NEW d \in Run PROVE LostFine(d)'
    <3>1. Begun(d) => run[d].execution \in Execution
      BY DEF Typed, RunsOrderly
    <3>2. CASE Begun(d) /\ run[d].execution # e
      BY <2>1, <3>1, <3>2, LostStays DEF RunsStay, Stopped
    <3>3. CASE Begun(d) /\ run[d].execution = e
      BY <2>1, <3>3 DEF RunsStay, LostInv, LostFine, Stopped
    <3>4. CASE ~Begun(d)
      BY <2>1, <3>4 DEF RunsStay, LostInv, LostFine, Begun, Underway
    <3> QED
      BY <3>2, <3>3, <3>4
  <2> QED
    BY <2>2 DEF LostInv
<1>2. ASSUME NEW e \in Execution, StopRead(e) \/ StopQueued(e) \/ StopWrite(e) \/ Poll(e)
      PROVE  LostInv'
  <2>1. UNCHANGED <<enabled, active, run>>
    BY <1>2 DEF StopRead, StopQueued, StopWrite, Poll
  <2>2. \A x \in Execution : Stopped(x) => Stopped(x)'
    BY <1>2 DEF StopRead, StopQueued, StopWrite, Poll, Stopped, Typed, RestTyped, StopState
  <2>3. ASSUME NEW d \in Run PROVE LostFine(d)'
    <3>1. run[d].pc # "idle" => run[d].execution \in Execution
      BY DEF Typed, RunsOrderly, Begun
    <3> QED
      BY <2>1, <2>2, <3>1 DEF LostInv, LostFine
  <2> QED
    BY <2>3 DEF LostInv
<1>3. CASE Shutdown
  <2>1. RunsStay /\ enabled' = FALSE
    BY <1>3, ShutdownDoes DEF Shutdown
  <2> QED
    BY <2>1 DEF RunsStay, LostInv, LostFine
<1>4. ASSUME NEW r \in Run, NEW e \in Execution,
             Create(r, e) \/ TimerFires(r, e) \/ WebhookResumes(r, e)
      PROVE  LostInv'
  <2>1. run[r].pc = "idle" /\ UNCHANGED <<enabled, active, stopper>>
    BY <1>4 DEF Create, TimerFires, WebhookResumes, Fresh, At
  <2>2. \/ run' = run
        \/ /\ run'[r].pc \in {"created", "reading"} /\ run'[r].timer = run[r].timer
           /\ \A d \in Run \ {r} : run'[d] = run[d]
    BY <1>4, CreateDoes, ResumeDoes DEF TimerFires, WebhookResumes, Begins, OnlyRun
  <2> QED
    BY <2>1, <2>2 DEF LostInv, LostFine, Underway, Stopped
<1>5. CASE UNCHANGED vars
  BY <1>5 DEF vars, LostInv, LostFine, Stopped
<1> QED
  BY <1>1, <1>2, <1>3, <1>4, <1>5, LostRunStep, LostTimeout DEF Next, StopStep

LEMMA LostInvariant ==
  ASSUME Waiting = {}
  PROVE  Spec => [](SlotInv /\ LostInv)
<1>1. Init => LostInv
  BY DEF Init, LostInv, LostFine
<1>2. Typed /\ RowsOrderly /\ SlotInv /\ LostInv /\ [Next]_vars => LostInv'
  BY LostStep
<1> QED
  BY <1>1, <1>2, SlotInvariant, PTL DEF Spec

(* Where no execution waits, no path but a user's stop takes the slot of a *)
(* workflow that executes and is not cancelled, whatever the limit, the    *)
(* queue and the timeouts.                                                 *)
THEOREM SlotsAreHeld ==
  ASSUME Waiting = {}
  PROVE  Spec => []OnlyStopFreesSlot
<1>1. SlotInv /\ LostInv => OnlyStopFreesSlot
  <2> SUFFICES ASSUME SlotInv, LostInv, enabled, NEW r \in Run,
                      At(r, "executing"), run[r].execution \in Limited,
                      promise[r] # "resolved", ~run[r].cancelled
               PROVE  stopper[run[r].execution].pc \in {"stopDuringRun", "done"}
    BY DEF OnlyStopFreesSlot
  <2>1. run[r].pc = "executing" /\ active[run[r].execution] # r
    BY DEF At, SlotInv, RunFine, SlotFine, Begun, Listed, Underway
  <2>2. active[run[r].execution] = NoRun
    BY <2>1 DEF SlotInv, RunFine, HeardFine, Underway
  <2> QED
    BY <2>1, <2>2 DEF LostInv, LostFine, Stopped
<1> QED
  BY <1>1, LostInvariant, PTL
=============================================================================
