--------------------------- MODULE QueueModeProofs ---------------------------
(***************************************************************************)
(* Whatever crashes, stalls, loses its lock and is stopped, for any        *)
(* executions, workers and bounds: workers that have an execution in hand  *)
(* are at most one more than the times its job has stalled, and the caller *)
(* of an execution whose worker keeps its lock hears of an end.            *)
(***************************************************************************)
EXTENDS QueueMode, FiniteSetTheorems, TLAPS

Works(w, x) == work[w][x] # "idle"

(* Who works on an execution is the last to have taken its job, which is   *)
(* his until he is done, unless a stop aborts it; or a lock has been lost. *)
Held == \A x \in Execution, w \in Worker :
  Works(w, x) => x \in lost \/ (lock[x] = w /\ job[x] \in {"active", "aborted"})

(* Even then, who works on it and has the lock has the job.                *)
HolderHasJob == \A x \in Execution, w \in Worker :
  Works(w, x) /\ lock[x] = w => job[x] \in {"active", "aborted"}

(* A job waits for a worker when it is new, when nobody works on it, or    *)
(* once more after a stall.                                                *)
FewWorkers == \A x \in Execution :
  /\ Cardinality(Busy(x)) <= IF job[x] = "waiting" THEN stalls[x] ELSE 1 + stalls[x]
  /\ job[x] = "none" => Busy(x) = {}

(* Nothing is cancelled before it is created, no job is there before main  *)
(* has added it, and it stays as it is once main has heard of its end.     *)
MainOrderly == \A x \in Execution :
  /\ main[x] = "idle" =>
       /\ canceller[x] = "idle"
       /\ \A w \in Worker : <<w, x>> \notin cancelled /\ <<w, x>> \notin aborts
  /\ main[x] \in {"idle", "created"} => job[x] = "none"
  /\ main[x] \in {"failing", "erring", "savingError"} => job[x] \in {"none", "failed"}
  /\ main[x] = "reading" => job[x] \in {"completed", "failed", "aborted"}

(* Once an execution is being cancelled its entry is gone for good.        *)
CancelledHasNoEntry == \A x \in Execution :
  entry[x] # "none" =>
    /\ main[x] # "idle" /\ canceller[x] = "idle" /\ job[x] # "aborted"
    /\ \A w \in Worker : <<w, x>> \notin cancelled /\ <<w, x>> \notin aborts

(* While main lists an execution, a worker that is done with it, a job     *)
(* that has completed and a main about to read the row have a final row,   *)
(* unless a worker has lost its lock.                                      *)
EndIsSaved == \A x \in Execution \ lost :
  entry[x] # "none" =>
    /\ \A w \in Worker : work[w][x] \in {"saved", "returned"} => row[x] \in Final
    /\ job[x] = "completed" => row[x] \in Final
    /\ main[x] = "reading" => row[x] \in Final
    /\ main[x] = "finalizing" => result[x] \in Final

IInv == TypeOK /\ Held /\ HolderHasJob /\ FewWorkers /\ MainOrderly /\ CancelledHasNoEntry /\ EndIsSaved
-----------------------------------------------------------------------------

(* The state has its types.                                                *)
THEOREM TypeCorrect == Spec => []TypeOK
<1>1. Init => TypeOK
  BY QueueModeAssumption DEF Init, TypeOK, QueueModeAssumption, MainPC, WorkPC, JobState
<1>2. TypeOK /\ [Next]_vars => TypeOK'
  <2> SUFFICES ASSUME TypeOK, [Next]_vars PROVE TypeOK'
    OBVIOUS
  <2> USE QueueModeAssumption DEF QueueModeAssumption, TypeOK, MainPC, WorkPC, JobState,
          InProgress, Final
  <2>1. ASSUME NEW x \in Execution, Create(x) PROVE TypeOK'
    BY <2>1 DEF Create, SetRow, MainTo, mainVars, stopVars, jobVars, workVars
  <2>2. ASSUME NEW x \in Execution, CredentialsRejected(x) PROVE TypeOK'
    BY <2>2 DEF CredentialsRejected, SetRow, MainTo, mainVars, stopVars, jobVars, workVars
  <2>3. ASSUME NEW x \in Execution, AddJob(x) PROVE TypeOK'
    BY <2>3 DEF AddJob, SetJob, MainTo, mainVars, stopVars, jobVars, workVars
  <2>4. ASSUME NEW x \in Execution, AddJobFails(x) PROVE TypeOK'
    BY <2>4 DEF AddJobFails, MainTo, mainVars, stopVars, jobVars, workVars
  <2>5. ASSUME NEW x \in Execution, Attach(x) PROVE TypeOK'
    BY <2>5 DEF Attach, MainTo, mainVars, stopVars, jobVars, workVars
  <2>6. ASSUME NEW x \in Execution, JobEnds(x) PROVE TypeOK'
    BY <2>6 DEF JobEnds, MainTo, mainVars, stopVars, jobVars, workVars
  <2>7. ASSUME NEW x \in Execution, CheckRow(x) PROVE TypeOK'
    BY <2>7 DEF CheckRow, MainTo, AfterError, mainVars, stopVars, jobVars, workVars
  <2>8. ASSUME NEW x \in Execution, FinalizeError(x) PROVE TypeOK'
    BY <2>8 DEF FinalizeError, MainTo, CloseEntry, mainVars, stopVars, jobVars, workVars
  <2>9. ASSUME NEW x \in Execution, SaveError(x) PROVE TypeOK'
    BY <2>9 DEF SaveError, SetRow, MainTo, AfterError, mainVars, stopVars, jobVars, workVars
  <2>10. ASSUME NEW x \in Execution, ReadResult(x) PROVE TypeOK'
    BY <2>10 DEF ReadResult, MainTo, mainVars, stopVars, jobVars, workVars
  <2>11. ASSUME NEW x \in Execution, Finalize(x) PROVE TypeOK'
    BY <2>11 DEF Finalize, MainTo, CloseEntry, mainVars, stopVars, jobVars, workVars
  <2>12. ASSUME NEW x \in Execution, StopRead(x) PROVE TypeOK'
    BY <2>12 DEF StopRead, mainVars, stopVars, jobVars, workVars
  <2>13. ASSUME NEW x \in Execution, StopActive(x) PROVE TypeOK'
    BY <2>13 DEF StopActive, CloseEntry, mainVars, stopVars, jobVars, workVars
  <2>14. ASSUME NEW x \in Execution, StopWrite(x) PROVE TypeOK'
    BY <2>14 DEF StopWrite, SetRow, mainVars, stopVars, jobVars, workVars
  <2>15. ASSUME NEW x \in Execution, AskWhetherActive(x) PROVE TypeOK'
    BY <2>15 DEF AskWhetherActive, mainVars, stopVars, jobVars, workVars
  <2>16. ASSUME NEW x \in Execution, RemoveJob(x) PROVE TypeOK'
    BY <2>16 DEF RemoveJob, SetJob, mainVars, stopVars, jobVars, workVars
  <2>17. ASSUME NEW x \in Execution, SendAbort(x) PROVE TypeOK'
    BY <2>17, SMTT(30) DEF SendAbort, mainVars, stopVars, jobVars, workVars
  <2>18. ASSUME NEW x \in Execution, FailJob(x) PROVE TypeOK'
    BY <2>18 DEF FailJob, SetJob, mainVars, stopVars, jobVars, workVars
  <2>19. ASSUME NEW x \in Execution, Stalled(x) PROVE TypeOK'
    BY <2>19 DEF Stalled, SetJob, mainVars, stopVars, jobVars, workVars
  <2>37. ASSUME NEW x \in Execution, LoseLock(x) PROVE TypeOK'
    BY <2>37 DEF LoseLock, mainVars, stopVars, workVars
  <2>20. ASSUME NEW w \in Worker, NEW x \in Execution, PickUp(w, x) PROVE TypeOK'
    BY <2>20 DEF PickUp, SetJob, WorkTo, mainVars, stopVars, jobVars, workVars
  <2>21. ASSUME NEW w \in Worker, NEW x \in Execution, ReadRow(w, x) PROVE TypeOK'
    BY <2>21 DEF ReadRow, WorkTo, mainVars, stopVars, jobVars, workVars
  <2>22. ASSUME NEW w \in Worker, NEW x \in Execution, SetRunning(w, x) PROVE TypeOK'
    BY <2>22 DEF SetRunning, SetRow, WorkTo, mainVars, stopVars, jobVars, workVars
  <2>23. ASSUME NEW w \in Worker, NEW x \in Execution, Start(w, x) PROVE TypeOK'
    BY <2>23 DEF Start, WorkTo, mainVars, stopVars, jobVars, workVars
  <2>24. ASSUME NEW w \in Worker, NEW x \in Execution, Refuse(w, x) PROVE TypeOK'
    BY <2>24 DEF Refuse, SetRow, WorkTo, mainVars, stopVars, jobVars, workVars
  <2>25. ASSUME NEW w \in Worker, NEW x \in Execution, Complete(w, x) PROVE TypeOK'
    BY <2>25 DEF Complete, WorkTo, mainVars, stopVars, jobVars, workVars
  <2>26. ASSUME NEW w \in Worker, NEW x \in Execution, Save(w, x) PROVE TypeOK'
    BY <2>26 DEF Save, SetRow, WorkTo, mainVars, stopVars, jobVars, workVars
  <2>27. ASSUME NEW w \in Worker, NEW x \in Execution, Finish(w, x) PROVE TypeOK'
    BY <2>27 DEF Finish, WorkTo, mainVars, stopVars, jobVars, workVars
  <2>28. ASSUME NEW w \in Worker, NEW x \in Execution, EndJob(w, x) PROVE TypeOK'
    BY <2>28 DEF EndJob, SetJob, WorkTo, mainVars, stopVars, jobVars, workVars
  <2>29. ASSUME NEW w \in Worker, NEW x \in Execution, SaveCancelled(w, x) PROVE TypeOK'
    BY <2>29 DEF SaveCancelled, SetRow, mainVars, stopVars, jobVars, workVars
  <2>30. ASSUME NEW w \in Worker, NEW x \in Execution, ReceiveAbort(w, x) PROVE TypeOK'
    BY <2>30 DEF ReceiveAbort, mainVars, stopVars, jobVars, workVars
  <2>31. ASSUME NEW w \in Worker, WorkerCrash(w) PROVE TypeOK'
    BY <2>31, SMTT(30) DEF WorkerCrash, mainVars, stopVars, jobVars, workVars
  <2>32. CASE MainCrash
    BY <2>32 DEF MainCrash, mainVars, stopVars, jobVars, workVars
  <2>33. CASE ReadStored
    BY <2>33 DEF ReadStored, mainVars, stopVars, jobVars, workVars
  <2>34. CASE FindDangling
    BY <2>34 DEF FindDangling, mainVars, stopVars, jobVars, workVars
  <2>35. CASE MarkAsCrashed
    BY <2>35 DEF MarkAsCrashed, mainVars, stopVars, jobVars, workVars
  <2>36. CASE UNCHANGED vars
    BY <2>36 DEF vars, mainVars, stopVars, jobVars, workVars
  <2> QED
    BY <2>1, <2>2, <2>3, <2>4, <2>5, <2>6, <2>7, <2>8, <2>9, <2>10, <2>11, <2>12, <2>13, <2>14, <2>15, <2>16, <2>17, <2>18, <2>19, <2>20, <2>21, <2>22, <2>23, <2>24, <2>25, <2>26, <2>27, <2>28, <2>29, <2>30, <2>31, <2>32, <2>33, <2>34, <2>35, <2>36, <2>37
    DEF Next, MainStep, StopStep, CancelStep, WorkStep, Recover
<1> QED
  BY <1>1, <1>2, PTL DEF Spec

(* A job that is taken is in nobody's hands, and nobody else takes it.       *)
LEMMA HeldKept ==
  ASSUME TypeOK, Held, MainOrderly, [Next]_vars
  PROVE  Held'
<1> USE QueueModeAssumption DEF QueueModeAssumption
<1>1. CASE UNCHANGED <<job, lock, lost, work>>
  BY <1>1 DEF Held, Works, TypeOK
<1>2. ASSUME NEW x \in Execution, AddJob(x) PROVE Held'
  BY <1>2 DEF AddJob, MainTo, SetJob, stopVars, workVars, Held, Works, TypeOK,
      MainOrderly
<1>3. ASSUME NEW x \in Execution, RemoveJob(x) PROVE Held'
  BY <1>3 DEF RemoveJob, SetJob, mainVars, workVars, Held, Works, TypeOK
<1>4. ASSUME NEW x \in Execution, FailJob(x) PROVE Held'
  BY <1>4 DEF FailJob, SetJob, mainVars, workVars, Held, Works, TypeOK
<1>5. ASSUME NEW x \in Execution, Stalled(x) PROVE Held'
  BY <1>5 DEF Stalled, SetJob, mainVars, stopVars, workVars, Held, Works, TypeOK
<1>6. ASSUME NEW w \in Worker, NEW x \in Execution, PickUp(w, x) PROVE Held'
  BY <1>6 DEF PickUp, WorkTo, SetJob, mainVars, stopVars, Held, Works, TypeOK
<1>7. ASSUME NEW w \in Worker, NEW x \in Execution, ReadRow(w, x) PROVE Held'
  BY <1>7 DEF ReadRow, WorkTo, mainVars, stopVars, jobVars, Held, Works, TypeOK
<1>8. ASSUME NEW w \in Worker, NEW x \in Execution, SetRunning(w, x) PROVE Held'
  BY <1>8 DEF SetRunning, SetRow, WorkTo, mainVars, stopVars, jobVars, Held, Works,
      TypeOK
<1>9. ASSUME NEW w \in Worker, NEW x \in Execution, Start(w, x) PROVE Held'
  BY <1>9 DEF Start, WorkTo, mainVars, stopVars, jobVars, Held, Works, TypeOK
<1>10. ASSUME NEW w \in Worker, NEW x \in Execution, Refuse(w, x) PROVE Held'
  BY <1>10 DEF Refuse, SetRow, WorkTo, mainVars, stopVars, jobVars, Held, Works, TypeOK
<1>11. ASSUME NEW w \in Worker, NEW x \in Execution, Complete(w, x) PROVE Held'
  BY <1>11 DEF Complete, WorkTo, mainVars, stopVars, jobVars, Held, Works, TypeOK
<1>12. ASSUME NEW w \in Worker, NEW x \in Execution, Save(w, x) PROVE Held'
  BY <1>12 DEF Save, SetRow, WorkTo, mainVars, stopVars, jobVars, Held, Works, TypeOK
<1>13. ASSUME NEW w \in Worker, NEW x \in Execution, Finish(w, x) PROVE Held'
  BY <1>13 DEF Finish, WorkTo, mainVars, stopVars, jobVars, Held, Works, TypeOK
<1>14. ASSUME NEW w \in Worker, NEW x \in Execution, EndJob(w, x) PROVE Held'
  BY <1>14 DEF EndJob, WorkTo, SetJob, mainVars, stopVars, Held, Works, TypeOK
<1>15. ASSUME NEW w \in Worker, WorkerCrash(w) PROVE Held'
  BY <1>15 DEF WorkerCrash, mainVars, stopVars, Held, Works, TypeOK
<1>16. ASSUME NEW x \in Execution, LoseLock(x) PROVE Held'
  BY <1>16 DEF LoseLock, mainVars, stopVars, workVars, Held, Works, TypeOK
<1> QED
  BY <1>1, <1>2, <1>3, <1>4, <1>5, <1>6, <1>7, <1>8, <1>9, <1>10, <1>11, <1>12,
      <1>13, <1>14, <1>15, <1>16, ZenonT(60)
  DEF Next, MainStep, StopStep, CancelStep, WorkStep, Recover, vars, mainVars, stopVars,
      jobVars, workVars, MainCrash, ReadStored, FindDangling, MarkAsCrashed,
          Create, CredentialsRejected, AddJobFails, Attach, JobEnds, CheckRow,
          FinalizeError, SaveError, ReadResult, Finalize, StopRead, StopActive,
          StopWrite, AskWhetherActive, SendAbort, SaveCancelled, ReceiveAbort

(* So it is for the one who has the lock, when one has been lost.           *)
LEMMA HolderHasJobKept ==
  ASSUME TypeOK, HolderHasJob, MainOrderly, [Next]_vars
  PROVE  HolderHasJob'
<1> USE QueueModeAssumption DEF QueueModeAssumption
<1>1. CASE UNCHANGED <<job, lock, lost, work>>
  BY <1>1 DEF HolderHasJob, Works, TypeOK
<1>2. ASSUME NEW x \in Execution, AddJob(x) PROVE HolderHasJob'
  BY <1>2 DEF AddJob, MainTo, SetJob, stopVars, workVars, HolderHasJob, Works, TypeOK,
      MainOrderly
<1>3. ASSUME NEW x \in Execution, RemoveJob(x) PROVE HolderHasJob'
  BY <1>3 DEF RemoveJob, SetJob, mainVars, workVars, HolderHasJob, Works, TypeOK
<1>4. ASSUME NEW x \in Execution, FailJob(x) PROVE HolderHasJob'
  BY <1>4 DEF FailJob, SetJob, mainVars, workVars, HolderHasJob, Works, TypeOK
<1>5. ASSUME NEW x \in Execution, Stalled(x) PROVE HolderHasJob'
  BY <1>5 DEF Stalled, SetJob, mainVars, stopVars, workVars, HolderHasJob, Works, TypeOK
<1>6. ASSUME NEW w \in Worker, NEW x \in Execution, PickUp(w, x) PROVE HolderHasJob'
  BY <1>6 DEF PickUp, WorkTo, SetJob, mainVars, stopVars, HolderHasJob, Works, TypeOK
<1>7. ASSUME NEW w \in Worker, NEW x \in Execution, ReadRow(w, x) PROVE HolderHasJob'
  BY <1>7 DEF ReadRow, WorkTo, mainVars, stopVars, jobVars, HolderHasJob, Works, TypeOK
<1>8. ASSUME NEW w \in Worker, NEW x \in Execution, SetRunning(w, x) PROVE HolderHasJob'
  BY <1>8 DEF SetRunning, SetRow, WorkTo, mainVars, stopVars, jobVars, HolderHasJob, Works,
      TypeOK
<1>9. ASSUME NEW w \in Worker, NEW x \in Execution, Start(w, x) PROVE HolderHasJob'
  BY <1>9 DEF Start, WorkTo, mainVars, stopVars, jobVars, HolderHasJob, Works, TypeOK
<1>10. ASSUME NEW w \in Worker, NEW x \in Execution, Refuse(w, x) PROVE HolderHasJob'
  BY <1>10 DEF Refuse, SetRow, WorkTo, mainVars, stopVars, jobVars, HolderHasJob, Works, TypeOK
<1>11. ASSUME NEW w \in Worker, NEW x \in Execution, Complete(w, x) PROVE HolderHasJob'
  BY <1>11 DEF Complete, WorkTo, mainVars, stopVars, jobVars, HolderHasJob, Works, TypeOK
<1>12. ASSUME NEW w \in Worker, NEW x \in Execution, Save(w, x) PROVE HolderHasJob'
  BY <1>12 DEF Save, SetRow, WorkTo, mainVars, stopVars, jobVars, HolderHasJob, Works, TypeOK
<1>13. ASSUME NEW w \in Worker, NEW x \in Execution, Finish(w, x) PROVE HolderHasJob'
  BY <1>13 DEF Finish, WorkTo, mainVars, stopVars, jobVars, HolderHasJob, Works, TypeOK
<1>14. ASSUME NEW w \in Worker, NEW x \in Execution, EndJob(w, x) PROVE HolderHasJob'
  BY <1>14 DEF EndJob, WorkTo, SetJob, mainVars, stopVars, HolderHasJob, Works, TypeOK
<1>15. ASSUME NEW w \in Worker, WorkerCrash(w) PROVE HolderHasJob'
  BY <1>15 DEF WorkerCrash, mainVars, stopVars, HolderHasJob, Works, TypeOK
<1>16. ASSUME NEW x \in Execution, LoseLock(x) PROVE HolderHasJob'
  BY <1>16 DEF LoseLock, mainVars, stopVars, workVars, HolderHasJob, Works, TypeOK
<1> QED
  BY <1>1, <1>2, <1>3, <1>4, <1>5, <1>6, <1>7, <1>8, <1>9, <1>10, <1>11, <1>12,
      <1>13, <1>14, <1>15, <1>16, ZenonT(60)
  DEF Next, MainStep, StopStep, CancelStep, WorkStep, Recover, vars, mainVars, stopVars,
      jobVars, workVars, MainCrash, ReadStored, FindDangling, MarkAsCrashed,
          Create, CredentialsRejected, AddJobFails, Attach, JobEnds, CheckRow,
          FinalizeError, SaveError, ReadResult, Finalize, StopRead, StopActive,
          StopWrite, AskWhetherActive, SendAbort, SaveCancelled, ReceiveAbort

(* Only taking a job brings a worker, and only a stall makes one wait again. *)
LEMMA FewByShrinking ==
  ASSUME TypeOK, TypeOK', FewWorkers,
         \A x \in Execution :
           /\ Busy(x)' \subseteq Busy(x) /\ stalls'[x] >= stalls[x]
           /\ job'[x] = "waiting" => \/ job[x] = "waiting" \/ Busy(x) = {}
                                     \/ stalls'[x] > stalls[x]
           /\ job'[x] = "none" => job[x] = "none"
  PROVE  FewWorkers'
<1> SUFFICES ASSUME NEW x \in Execution
             PROVE  /\ Cardinality(Busy(x)') <= IF job'[x] = "waiting" THEN stalls'[x]
                                                ELSE 1 + stalls'[x]
                    /\ job'[x] = "none" => Busy(x)' = {}
  BY DEF FewWorkers
<1>1. IsFiniteSet(Busy(x))
  BY FS_Subset, QueueModeAssumption DEF QueueModeAssumption, Busy
<1>2. /\ IsFiniteSet(Busy(x)') /\ Cardinality(Busy(x)') <= Cardinality(Busy(x))
      /\ Cardinality(Busy(x)) \in Nat /\ Cardinality(Busy(x)') \in Nat
  BY <1>1, FS_Subset, FS_CardinalityType
<1>3. Busy(x) = {} => Cardinality(Busy(x)) = 0
  BY FS_EmptySet
<1>4. stalls[x] \in Nat /\ stalls'[x] \in Nat
  BY QueueModeAssumption DEF QueueModeAssumption, TypeOK
<1> HIDE DEF Busy
<1> QED
  BY <1>2, <1>3, <1>4 DEF FewWorkers

LEMMA FewWorkersKept ==
  ASSUME TypeOK, TypeOK', FewWorkers, MainOrderly, [Next]_vars
  PROVE  FewWorkers'
<1> USE QueueModeAssumption DEF QueueModeAssumption
<1> DEFINE Shrinks == \A x \in Execution :
             /\ Busy(x)' \subseteq Busy(x) /\ stalls'[x] >= stalls[x]
             /\ job'[x] = "waiting" => \/ job[x] = "waiting" \/ Busy(x) = {}
                                       \/ stalls'[x] > stalls[x]
             /\ job'[x] = "none" => job[x] = "none"
<1>0. Shrinks => FewWorkers'
  BY FewByShrinking
<1>t. \A x \in Execution : stalls[x] \in Nat
  BY DEF TypeOK
<1>1. CASE UNCHANGED <<job, stalls, work>>
  BY <1>1, <1>0, <1>t DEF Busy
<1>2. ASSUME NEW x \in Execution, AddJob(x) PROVE Shrinks
  <2>1. /\ main[x] = "created" /\ job' = [job EXCEPT ![x] = "waiting"]
        /\ stalls' = stalls /\ work' = work
    BY <1>2 DEF AddJob, SetJob, workVars
  <2>2. Busy(x) = {}
    BY <2>1 DEF MainOrderly, FewWorkers
  <2>3. \A y \in Execution : Busy(y)' = Busy(y)
    BY <2>1 DEF Busy
  <2>4. \A y \in Execution \ {x} : job'[y] = job[y]
    BY <2>1 DEF TypeOK
  <2>5. job'[x] = "waiting"
    BY <2>1 DEF TypeOK
  <2> HIDE DEF Busy
  <2> QED
    BY <2>1, <2>2, <2>3, <2>4, <2>5, <1>t
<1>3. ASSUME NEW x \in Execution, RemoveJob(x) PROVE Shrinks
  BY <1>3, <1>t DEF RemoveJob, SetJob, mainVars, workVars, Busy, TypeOK
<1>4. ASSUME NEW x \in Execution, FailJob(x) PROVE Shrinks
  BY <1>4, <1>t DEF FailJob, SetJob, mainVars, workVars, Busy, TypeOK
<1>5. ASSUME NEW x \in Execution, Stalled(x) PROVE Shrinks
  BY <1>5, <1>t DEF Stalled, SetJob, mainVars, stopVars, workVars, Busy, TypeOK
<1>6. ASSUME NEW w \in Worker, NEW x \in Execution, PickUp(w, x) PROVE FewWorkers'
  <2>1. /\ job[x] = "waiting" /\ job' = [job EXCEPT ![x] = "active"] /\ stalls' = stalls
        /\ work' = [work EXCEPT ![w][x] = "picked"]
    BY <1>6 DEF PickUp, WorkTo, SetJob
  <2>2. Busy(x)' = Busy(x) \cup {w}
    BY <2>1 DEF Busy, TypeOK
  <2>3. \A y \in Execution \ {x} : Busy(y)' = Busy(y) /\ job'[y] = job[y]
    BY <2>1 DEF Busy, TypeOK
  <2>4. IsFiniteSet(Busy(x))
    BY FS_Subset DEF Busy
  <2>5. Cardinality(Busy(x) \cup {w}) <= Cardinality(Busy(x)) + 1 /\ Cardinality(Busy(x)) \in Nat
    <3>1. /\ IsFiniteSet(Busy(x) \cup {w}) /\ Cardinality(Busy(x)) \in Nat
          /\ Cardinality(Busy(x) \cup {w}) = IF w \in Busy(x) THEN Cardinality(Busy(x))
                                           ELSE Cardinality(Busy(x)) + 1
      BY <2>4, FS_AddElement, FS_CardinalityType
    <3> HIDE DEF Busy
    <3> QED
      BY <3>1
  <2>6. job'[x] = "active"
    BY <2>1 DEF TypeOK
  <2>7. Cardinality(Busy(x)') <= 1 + stalls'[x]
    BY <2>1, <2>2, <2>5, <1>t, FS_AddElement, <2>4, FS_CardinalityType DEF FewWorkers
  <2> HIDE DEF Busy
  <2> QED
    BY <2>1, <2>3, <2>6, <2>7 DEF FewWorkers
<1>7. ASSUME NEW w \in Worker, NEW x \in Execution, ReadRow(w, x) PROVE Shrinks
  BY <1>7, <1>t DEF ReadRow, WorkTo, jobVars, mainVars, stopVars, Busy, TypeOK
<1>8. ASSUME NEW w \in Worker, NEW x \in Execution, SetRunning(w, x) PROVE Shrinks
  BY <1>8, <1>t DEF SetRunning, WorkTo, SetRow, jobVars, mainVars, stopVars, Busy, TypeOK
<1>9. ASSUME NEW w \in Worker, NEW x \in Execution, Start(w, x) PROVE Shrinks
  BY <1>9, <1>t DEF Start, WorkTo, jobVars, mainVars, stopVars, Busy, TypeOK
<1>10. ASSUME NEW w \in Worker, NEW x \in Execution, Refuse(w, x) PROVE Shrinks
  BY <1>10, <1>t DEF Refuse, WorkTo, SetRow, jobVars, mainVars, stopVars, Busy, TypeOK
<1>11. ASSUME NEW w \in Worker, NEW x \in Execution, Complete(w, x) PROVE Shrinks
  BY <1>11, <1>t DEF Complete, WorkTo, jobVars, mainVars, stopVars, Busy, TypeOK
<1>12. ASSUME NEW w \in Worker, NEW x \in Execution, Save(w, x) PROVE Shrinks
  BY <1>12, <1>t DEF Save, WorkTo, SetRow, jobVars, mainVars, stopVars, Busy, TypeOK
<1>13. ASSUME NEW w \in Worker, NEW x \in Execution, Finish(w, x) PROVE Shrinks
  BY <1>13, <1>t DEF Finish, WorkTo, jobVars, mainVars, stopVars, Busy, TypeOK
<1>14. ASSUME NEW w \in Worker, NEW x \in Execution, EndJob(w, x) PROVE Shrinks
  BY <1>14, <1>t DEF EndJob, WorkTo, SetJob, mainVars, stopVars, Busy, TypeOK
<1>15. ASSUME NEW w \in Worker, WorkerCrash(w) PROVE Shrinks
  BY <1>15, <1>t DEF WorkerCrash, mainVars, stopVars, Busy, TypeOK
<1> HIDE DEF Shrinks
<1> QED
  BY <1>0, <1>1, <1>2, <1>3, <1>4, <1>5, <1>6, <1>7, <1>8, <1>9, <1>10, <1>11, <1>12, <1>13, <1>14, <1>15, ZenonT(60)
  DEF Next, MainStep, StopStep, CancelStep, WorkStep, Recover, vars, mainVars, stopVars,
      jobVars, workVars, MainCrash, ReadStored, FindDangling, MarkAsCrashed, LoseLock,
          Create, CredentialsRejected, AddJobFails, Attach, JobEnds, CheckRow,
          FinalizeError, SaveError, ReadResult, Finalize, StopRead, StopActive,
          StopWrite, AskWhetherActive, SendAbort, SaveCancelled, ReceiveAbort

(* A job that main has heard the end of has ended.                          *)
LEMMA MainOrderlyKept ==
  ASSUME TypeOK, MainOrderly, CancelledHasNoEntry, [Next]_vars
  PROVE  MainOrderly'
<1> USE QueueModeAssumption DEF QueueModeAssumption
<1>1. CASE UNCHANGED <<main, canceller, job, work, cancelled, aborts>>
  BY <1>1 DEF MainOrderly, TypeOK
<1>2. CASE MainCrash
  BY <1>2 DEF MainCrash, jobVars, workVars, MainOrderly, TypeOK
<1>3. CASE MarkAsCrashed
  BY <1>3 DEF MarkAsCrashed, mainVars, stopVars, jobVars, workVars, MainOrderly, TypeOK
<1>4. ASSUME NEW x \in Execution, Create(x) PROVE MainOrderly'
  BY <1>4 DEF Create, SetRow, MainTo, stopVars, jobVars, workVars, MainOrderly, TypeOK
<1>5. ASSUME NEW x \in Execution, CredentialsRejected(x) PROVE MainOrderly'
  BY <1>5 DEF CredentialsRejected, SetRow, MainTo, stopVars, jobVars, workVars,
      MainOrderly, TypeOK
<1>6. ASSUME NEW x \in Execution, AddJob(x) PROVE MainOrderly'
  BY <1>6 DEF AddJob, MainTo, SetJob, stopVars, workVars, MainOrderly, TypeOK
<1>7. ASSUME NEW x \in Execution, AddJobFails(x) PROVE MainOrderly'
  BY <1>7 DEF AddJobFails, MainTo, stopVars, jobVars, workVars, MainOrderly, TypeOK
<1>8. ASSUME NEW x \in Execution, Attach(x) PROVE MainOrderly'
  BY <1>8 DEF Attach, MainTo, stopVars, jobVars, workVars, MainOrderly, TypeOK
<1>9. ASSUME NEW x \in Execution, JobEnds(x) PROVE MainOrderly'
  BY <1>9 DEF JobEnds, MainTo, stopVars, jobVars, workVars, MainOrderly, TypeOK
<1>10. ASSUME NEW x \in Execution, CheckRow(x) PROVE MainOrderly'
  BY <1>10 DEF CheckRow, MainTo, AfterError, stopVars, jobVars, workVars,
      MainOrderly, TypeOK
<1>11. ASSUME NEW x \in Execution, FinalizeError(x) PROVE MainOrderly'
  BY <1>11 DEF FinalizeError, MainTo, CloseEntry, stopVars, jobVars, workVars,
      MainOrderly, TypeOK
<1>12. ASSUME NEW x \in Execution, SaveError(x) PROVE MainOrderly'
  BY <1>12 DEF SaveError, SetRow, MainTo, AfterError, stopVars, jobVars, workVars,
      MainOrderly, TypeOK
<1>13. ASSUME NEW x \in Execution, ReadResult(x) PROVE MainOrderly'
  BY <1>13 DEF ReadResult, MainTo, stopVars, jobVars, workVars, MainOrderly, TypeOK
<1>14. ASSUME NEW x \in Execution, Finalize(x) PROVE MainOrderly'
  BY <1>14 DEF Finalize, MainTo, CloseEntry, stopVars, jobVars, workVars,
      MainOrderly, TypeOK
<1>15. ASSUME NEW x \in Execution, StopActive(x) PROVE MainOrderly'
  BY <1>15 DEF StopActive, CloseEntry, jobVars, workVars, MainOrderly, TypeOK,
      CancelledHasNoEntry
<1>16. ASSUME NEW x \in Execution, StopWrite(x) PROVE MainOrderly'
  BY <1>16 DEF StopWrite, SetRow, mainVars, jobVars, workVars, MainOrderly, TypeOK
<1>17. ASSUME NEW x \in Execution, AskWhetherActive(x) PROVE MainOrderly'
  BY <1>17 DEF AskWhetherActive, mainVars, jobVars, workVars, MainOrderly, TypeOK
<1>18. ASSUME NEW x \in Execution, RemoveJob(x) PROVE MainOrderly'
  BY <1>18 DEF RemoveJob, SetJob, mainVars, workVars, MainOrderly, TypeOK
<1>19. ASSUME NEW x \in Execution, SendAbort(x) PROVE MainOrderly'
  BY <1>19 DEF SendAbort, mainVars, jobVars, workVars, MainOrderly, TypeOK
<1>20. ASSUME NEW x \in Execution, FailJob(x) PROVE MainOrderly'
  BY <1>20 DEF FailJob, SetJob, mainVars, workVars, MainOrderly, TypeOK
<1>21. ASSUME NEW x \in Execution, Stalled(x) PROVE MainOrderly'
  BY <1>21 DEF Stalled, SetJob, mainVars, stopVars, workVars, MainOrderly, TypeOK
<1>22. ASSUME NEW w \in Worker, NEW x \in Execution, PickUp(w, x) PROVE MainOrderly'
  BY <1>22 DEF PickUp, WorkTo, SetJob, mainVars, stopVars, MainOrderly, TypeOK
<1>23. ASSUME NEW w \in Worker, NEW x \in Execution, ReadRow(w, x) PROVE MainOrderly'
  BY <1>23 DEF ReadRow, WorkTo, mainVars, stopVars, jobVars, MainOrderly, TypeOK
<1>24. ASSUME NEW w \in Worker, NEW x \in Execution, SetRunning(w, x) PROVE MainOrderly'
  BY <1>24 DEF SetRunning, SetRow, WorkTo, mainVars, stopVars, jobVars, MainOrderly,
      TypeOK
<1>25. ASSUME NEW w \in Worker, NEW x \in Execution, Start(w, x) PROVE MainOrderly'
  BY <1>25 DEF Start, WorkTo, mainVars, stopVars, jobVars, MainOrderly, TypeOK
<1>26. ASSUME NEW w \in Worker, NEW x \in Execution, Refuse(w, x) PROVE MainOrderly'
  BY <1>26 DEF Refuse, SetRow, WorkTo, mainVars, stopVars, jobVars, MainOrderly, TypeOK
<1>27. ASSUME NEW w \in Worker, NEW x \in Execution, Complete(w, x) PROVE MainOrderly'
  BY <1>27 DEF Complete, WorkTo, mainVars, stopVars, jobVars, MainOrderly, TypeOK
<1>28. ASSUME NEW w \in Worker, NEW x \in Execution, Save(w, x) PROVE MainOrderly'
  BY <1>28 DEF Save, SetRow, WorkTo, mainVars, stopVars, jobVars, MainOrderly, TypeOK
<1>29. ASSUME NEW w \in Worker, NEW x \in Execution, Finish(w, x) PROVE MainOrderly'
  BY <1>29 DEF Finish, WorkTo, mainVars, stopVars, jobVars, MainOrderly, TypeOK
<1>30. ASSUME NEW w \in Worker, NEW x \in Execution, EndJob(w, x) PROVE MainOrderly'
  BY <1>30 DEF EndJob, WorkTo, SetJob, mainVars, stopVars, MainOrderly, TypeOK
<1>31. ASSUME NEW w \in Worker, NEW x \in Execution, SaveCancelled(w, x) PROVE
    MainOrderly'
  BY <1>31 DEF SaveCancelled, SetRow, mainVars, stopVars, jobVars, MainOrderly, TypeOK
<1>32. ASSUME NEW w \in Worker, NEW x \in Execution, ReceiveAbort(w, x) PROVE
    MainOrderly'
  BY <1>32 DEF ReceiveAbort, mainVars, stopVars, jobVars, MainOrderly, TypeOK
<1>33. ASSUME NEW w \in Worker, WorkerCrash(w) PROVE MainOrderly'
  BY <1>33 DEF WorkerCrash, mainVars, stopVars, MainOrderly, TypeOK
<1> QED
  BY <1>1, <1>2, <1>3, <1>4, <1>5, <1>6, <1>7, <1>8, <1>9, <1>10, <1>11, <1>12,
      <1>13, <1>14, <1>15, <1>16, <1>17, <1>18, <1>19, <1>20, <1>21, <1>22, <1>23,
      <1>24, <1>25, <1>26, <1>27, <1>28, <1>29, <1>30, <1>31, <1>32, <1>33
  DEF Next, MainStep, StopStep, CancelStep, WorkStep, Recover, vars, mainVars, stopVars,
      jobVars, workVars, ReadStored, FindDangling, StopRead, LoseLock

(* Only a stop cancels, and it has closed the entry before.                  *)
LEMMA CancelledHasNoEntryKept ==
  ASSUME TypeOK, MainOrderly, CancelledHasNoEntry, [Next]_vars
  PROVE  CancelledHasNoEntry'
<1> USE QueueModeAssumption DEF QueueModeAssumption
<1>1. CASE UNCHANGED <<main, entry, canceller, job, cancelled, aborts>>
  BY <1>1 DEF MainOrderly, CancelledHasNoEntry, TypeOK
<1>2. CASE MainCrash
  BY <1>2 DEF MainCrash, jobVars, workVars, MainOrderly, CancelledHasNoEntry, TypeOK
<1>3. ASSUME NEW x \in Execution, Create(x) PROVE CancelledHasNoEntry'
  BY <1>3 DEF Create, SetRow, MainTo, stopVars, jobVars, workVars, MainOrderly,
      CancelledHasNoEntry, TypeOK
<1>4. ASSUME NEW x \in Execution, CredentialsRejected(x) PROVE CancelledHasNoEntry'
  BY <1>4 DEF CredentialsRejected, SetRow, MainTo, stopVars, jobVars, workVars,
      MainOrderly, CancelledHasNoEntry, TypeOK
<1>5. ASSUME NEW x \in Execution, AddJob(x) PROVE CancelledHasNoEntry'
  BY <1>5 DEF AddJob, MainTo, SetJob, stopVars, workVars, MainOrderly,
      CancelledHasNoEntry, TypeOK
<1>6. ASSUME NEW x \in Execution, AddJobFails(x) PROVE CancelledHasNoEntry'
  BY <1>6 DEF AddJobFails, MainTo, stopVars, jobVars, workVars, MainOrderly,
      CancelledHasNoEntry, TypeOK
<1>7. ASSUME NEW x \in Execution, Attach(x) PROVE CancelledHasNoEntry'
  BY <1>7 DEF Attach, MainTo, stopVars, jobVars, workVars, MainOrderly,
      CancelledHasNoEntry, TypeOK
<1>8. ASSUME NEW x \in Execution, JobEnds(x) PROVE CancelledHasNoEntry'
  BY <1>8 DEF JobEnds, MainTo, stopVars, jobVars, workVars, MainOrderly,
      CancelledHasNoEntry, TypeOK
<1>9. ASSUME NEW x \in Execution, CheckRow(x) PROVE CancelledHasNoEntry'
  BY <1>9 DEF CheckRow, MainTo, AfterError, stopVars, jobVars, workVars,
      MainOrderly, CancelledHasNoEntry, TypeOK
<1>10. ASSUME NEW x \in Execution, FinalizeError(x) PROVE CancelledHasNoEntry'
  BY <1>10 DEF FinalizeError, MainTo, CloseEntry, stopVars, jobVars, workVars,
      MainOrderly, CancelledHasNoEntry, TypeOK
<1>11. ASSUME NEW x \in Execution, SaveError(x) PROVE CancelledHasNoEntry'
  BY <1>11 DEF SaveError, SetRow, MainTo, AfterError, stopVars, jobVars, workVars,
      MainOrderly, CancelledHasNoEntry, TypeOK
<1>12. ASSUME NEW x \in Execution, ReadResult(x) PROVE CancelledHasNoEntry'
  BY <1>12 DEF ReadResult, MainTo, stopVars, jobVars, workVars, MainOrderly,
      CancelledHasNoEntry, TypeOK
<1>13. ASSUME NEW x \in Execution, Finalize(x) PROVE CancelledHasNoEntry'
  BY <1>13 DEF Finalize, MainTo, CloseEntry, stopVars, jobVars, workVars,
      MainOrderly, CancelledHasNoEntry, TypeOK
<1>14. ASSUME NEW x \in Execution, StopActive(x) PROVE CancelledHasNoEntry'
  BY <1>14 DEF StopActive, CloseEntry, jobVars, workVars, MainOrderly,
      CancelledHasNoEntry, TypeOK
<1>15. ASSUME NEW x \in Execution, AskWhetherActive(x) PROVE CancelledHasNoEntry'
  BY <1>15 DEF AskWhetherActive, mainVars, jobVars, workVars, MainOrderly,
      CancelledHasNoEntry, TypeOK
<1>16. ASSUME NEW x \in Execution, RemoveJob(x) PROVE CancelledHasNoEntry'
  BY <1>16 DEF RemoveJob, SetJob, mainVars, workVars, MainOrderly,
      CancelledHasNoEntry, TypeOK
<1>17. ASSUME NEW x \in Execution, SendAbort(x) PROVE CancelledHasNoEntry'
  BY <1>17 DEF SendAbort, mainVars, jobVars, workVars, MainOrderly,
      CancelledHasNoEntry, TypeOK
<1>18. ASSUME NEW x \in Execution, FailJob(x) PROVE CancelledHasNoEntry'
  BY <1>18 DEF FailJob, SetJob, mainVars, workVars, MainOrderly,
      CancelledHasNoEntry, TypeOK
<1>19. ASSUME NEW x \in Execution, Stalled(x) PROVE CancelledHasNoEntry'
  BY <1>19 DEF Stalled, SetJob, mainVars, stopVars, workVars, MainOrderly,
      CancelledHasNoEntry, TypeOK
<1>20. ASSUME NEW w \in Worker, NEW x \in Execution, PickUp(w, x) PROVE
    CancelledHasNoEntry'
  BY <1>20 DEF PickUp, WorkTo, SetJob, mainVars, stopVars, MainOrderly,
      CancelledHasNoEntry, TypeOK
<1>21. ASSUME NEW w \in Worker, NEW x \in Execution, EndJob(w, x) PROVE
    CancelledHasNoEntry'
  BY <1>21 DEF EndJob, WorkTo, SetJob, mainVars, stopVars, MainOrderly,
      CancelledHasNoEntry, TypeOK
<1>22. ASSUME NEW w \in Worker, NEW x \in Execution, ReceiveAbort(w, x) PROVE
    CancelledHasNoEntry'
  BY <1>22 DEF ReceiveAbort, mainVars, stopVars, jobVars, MainOrderly,
      CancelledHasNoEntry, TypeOK
<1>23. ASSUME NEW w \in Worker, WorkerCrash(w) PROVE CancelledHasNoEntry'
  BY <1>23 DEF WorkerCrash, mainVars, stopVars, MainOrderly, CancelledHasNoEntry, TypeOK
<1> QED
  BY <1>1, <1>2, <1>3, <1>4, <1>5, <1>6, <1>7, <1>8, <1>9, <1>10, <1>11, <1>12,
      <1>13, <1>14, <1>15, <1>16, <1>17, <1>18, <1>19, <1>20, <1>21, <1>22, <1>23, ZenonT(60)
  DEF Next, MainStep, StopStep, CancelStep, WorkStep, Recover, vars, mainVars, stopVars,
      jobVars, workVars, ReadStored, FindDangling, MarkAsCrashed, StopRead,
          StopWrite, ReadRow, SetRunning, Start, Refuse, Complete, Save, Finish,
          SaveCancelled, LoseLock

(* What makes a final row one in progress again is a worker that has the job. *)
LEMMA EndIsSavedKept ==
  ASSUME IInv, [Next]_vars
  PROVE  EndIsSaved'
<1> USE QueueModeAssumption DEF QueueModeAssumption
<1>1. CASE UNCHANGED <<row, main, entry, result, job, lost, work, cancelled>>
  BY <1>1 DEF IInv, Held, Works, MainOrderly, CancelledHasNoEntry, EndIsSaved,
      TypeOK, InProgress, Final
<1>2. CASE MainCrash
  BY <1>2 DEF MainCrash, jobVars, workVars, IInv, Held, Works, MainOrderly,
      CancelledHasNoEntry, EndIsSaved, TypeOK, InProgress, Final
<1>3. CASE MarkAsCrashed
  BY <1>3 DEF MarkAsCrashed, mainVars, stopVars, jobVars, workVars, IInv, Held,
      Works, MainOrderly, CancelledHasNoEntry, EndIsSaved, TypeOK, InProgress, Final
<1>4. ASSUME NEW x \in Execution, Create(x) PROVE EndIsSaved'
  BY <1>4 DEF Create, SetRow, MainTo, stopVars, jobVars, workVars, IInv, Held,
      Works, MainOrderly, CancelledHasNoEntry, EndIsSaved, TypeOK, InProgress, Final
<1>5. ASSUME NEW x \in Execution, CredentialsRejected(x) PROVE EndIsSaved'
  BY <1>5 DEF CredentialsRejected, SetRow, MainTo, stopVars, jobVars, workVars,
      IInv, Held, Works, MainOrderly, CancelledHasNoEntry, EndIsSaved, TypeOK,
      InProgress, Final
<1>6. ASSUME NEW x \in Execution, AddJob(x) PROVE EndIsSaved'
  BY <1>6 DEF AddJob, MainTo, SetJob, stopVars, workVars, IInv, Held, Works,
      MainOrderly, CancelledHasNoEntry, EndIsSaved, TypeOK, InProgress, Final
<1>7. ASSUME NEW x \in Execution, AddJobFails(x) PROVE EndIsSaved'
  BY <1>7 DEF AddJobFails, MainTo, stopVars, jobVars, workVars, IInv, Held, Works,
      MainOrderly, CancelledHasNoEntry, EndIsSaved, TypeOK, InProgress, Final
<1>8. ASSUME NEW x \in Execution, Attach(x) PROVE EndIsSaved'
  BY <1>8 DEF Attach, MainTo, stopVars, jobVars, workVars, IInv, Held, Works,
      MainOrderly, CancelledHasNoEntry, EndIsSaved, TypeOK, InProgress, Final
<1>9. ASSUME NEW x \in Execution, JobEnds(x) PROVE EndIsSaved'
  BY <1>9 DEF JobEnds, MainTo, stopVars, jobVars, workVars, IInv, Held, Works,
      MainOrderly, CancelledHasNoEntry, EndIsSaved, TypeOK, InProgress, Final
<1>10. ASSUME NEW x \in Execution, CheckRow(x) PROVE EndIsSaved'
  BY <1>10 DEF CheckRow, MainTo, AfterError, stopVars, jobVars, workVars, IInv,
      Held, Works, MainOrderly, CancelledHasNoEntry, EndIsSaved, TypeOK, InProgress,
      Final
<1>11. ASSUME NEW x \in Execution, FinalizeError(x) PROVE EndIsSaved'
  BY <1>11 DEF FinalizeError, MainTo, CloseEntry, stopVars, jobVars, workVars, IInv,
      Held, Works, MainOrderly, CancelledHasNoEntry, EndIsSaved, TypeOK, InProgress,
      Final
<1>12. ASSUME NEW x \in Execution, SaveError(x) PROVE EndIsSaved'
  BY <1>12 DEF SaveError, SetRow, MainTo, AfterError, stopVars, jobVars, workVars,
      IInv, Held, Works, MainOrderly, CancelledHasNoEntry, EndIsSaved, TypeOK,
      InProgress, Final
<1>13. ASSUME NEW x \in Execution, ReadResult(x) PROVE EndIsSaved'
  BY <1>13 DEF ReadResult, MainTo, stopVars, jobVars, workVars, IInv, Held, Works,
      MainOrderly, CancelledHasNoEntry, EndIsSaved, TypeOK, InProgress, Final
<1>14. ASSUME NEW x \in Execution, Finalize(x) PROVE EndIsSaved'
  BY <1>14 DEF Finalize, MainTo, CloseEntry, stopVars, jobVars, workVars, IInv,
      Held, Works, MainOrderly, CancelledHasNoEntry, EndIsSaved, TypeOK, InProgress,
      Final
<1>15. ASSUME NEW x \in Execution, StopActive(x) PROVE EndIsSaved'
  BY <1>15 DEF StopActive, CloseEntry, jobVars, workVars, IInv, Held, Works,
      MainOrderly, CancelledHasNoEntry, EndIsSaved, TypeOK, InProgress, Final
<1>16. ASSUME NEW x \in Execution, StopWrite(x) PROVE EndIsSaved'
  BY <1>16 DEF StopWrite, SetRow, mainVars, jobVars, workVars, IInv, Held, Works,
      MainOrderly, CancelledHasNoEntry, EndIsSaved, TypeOK, InProgress, Final
<1>17. ASSUME NEW x \in Execution, RemoveJob(x) PROVE EndIsSaved'
  BY <1>17 DEF RemoveJob, SetJob, mainVars, workVars, IInv, Held, Works,
      MainOrderly, CancelledHasNoEntry, EndIsSaved, TypeOK, InProgress, Final
<1>18. ASSUME NEW x \in Execution, FailJob(x) PROVE EndIsSaved'
  BY <1>18 DEF FailJob, SetJob, mainVars, workVars, IInv, Held, Works, MainOrderly,
      CancelledHasNoEntry, EndIsSaved, TypeOK, InProgress, Final
<1>19. ASSUME NEW x \in Execution, Stalled(x) PROVE EndIsSaved'
  BY <1>19 DEF Stalled, SetJob, mainVars, stopVars, workVars, IInv, Held, Works,
      MainOrderly, CancelledHasNoEntry, EndIsSaved, TypeOK, InProgress, Final
<1>20. ASSUME NEW w \in Worker, NEW x \in Execution, PickUp(w, x) PROVE EndIsSaved'
  BY <1>20 DEF PickUp, WorkTo, SetJob, mainVars, stopVars, IInv, Held, Works,
      MainOrderly, CancelledHasNoEntry, EndIsSaved, TypeOK, InProgress, Final
<1>21. ASSUME NEW w \in Worker, NEW x \in Execution, ReadRow(w, x) PROVE EndIsSaved'
  BY <1>21 DEF ReadRow, WorkTo, mainVars, stopVars, jobVars, IInv, Held, Works,
      MainOrderly, CancelledHasNoEntry, EndIsSaved, TypeOK, InProgress, Final
<1>22. ASSUME NEW w \in Worker, NEW x \in Execution, SetRunning(w, x) PROVE EndIsSaved'
  BY <1>22 DEF SetRunning, SetRow, WorkTo, mainVars, stopVars, jobVars, IInv, Held,
      Works, MainOrderly, CancelledHasNoEntry, EndIsSaved, TypeOK, InProgress, Final
<1>23. ASSUME NEW w \in Worker, NEW x \in Execution, Start(w, x) PROVE EndIsSaved'
  BY <1>23 DEF Start, WorkTo, mainVars, stopVars, jobVars, IInv, Held, Works,
      MainOrderly, CancelledHasNoEntry, EndIsSaved, TypeOK, InProgress, Final
<1>24. ASSUME NEW w \in Worker, NEW x \in Execution, Refuse(w, x) PROVE EndIsSaved'
  BY <1>24 DEF Refuse, SetRow, WorkTo, mainVars, stopVars, jobVars, IInv, Held,
      Works, MainOrderly, CancelledHasNoEntry, EndIsSaved, TypeOK, InProgress, Final
<1>25. ASSUME NEW w \in Worker, NEW x \in Execution, Complete(w, x) PROVE EndIsSaved'
  BY <1>25 DEF Complete, WorkTo, mainVars, stopVars, jobVars, IInv, Held, Works,
      MainOrderly, CancelledHasNoEntry, EndIsSaved, TypeOK, InProgress, Final
<1>26. ASSUME NEW w \in Worker, NEW x \in Execution, Save(w, x) PROVE EndIsSaved'
  BY <1>26 DEF Save, SetRow, WorkTo, mainVars, stopVars, jobVars, IInv, Held, Works,
      MainOrderly, CancelledHasNoEntry, EndIsSaved, TypeOK, InProgress, Final
<1>27. ASSUME NEW w \in Worker, NEW x \in Execution, Finish(w, x) PROVE EndIsSaved'
  BY <1>27 DEF Finish, WorkTo, mainVars, stopVars, jobVars, IInv, Held, Works,
      MainOrderly, CancelledHasNoEntry, EndIsSaved, TypeOK, InProgress, Final
<1>28. ASSUME NEW w \in Worker, NEW x \in Execution, EndJob(w, x) PROVE EndIsSaved'
  BY <1>28 DEF EndJob, WorkTo, SetJob, mainVars, stopVars, IInv, Held, Works,
      MainOrderly, CancelledHasNoEntry, EndIsSaved, TypeOK, InProgress, Final
<1>29. ASSUME NEW w \in Worker, NEW x \in Execution, SaveCancelled(w, x) PROVE
    EndIsSaved'
  BY <1>29 DEF SaveCancelled, SetRow, mainVars, stopVars, jobVars, IInv, Held,
      Works, MainOrderly, CancelledHasNoEntry, EndIsSaved, TypeOK, InProgress, Final
<1>30. ASSUME NEW w \in Worker, NEW x \in Execution, ReceiveAbort(w, x) PROVE
    EndIsSaved'
  BY <1>30 DEF ReceiveAbort, mainVars, stopVars, jobVars, IInv, Held, Works,
      MainOrderly, CancelledHasNoEntry, EndIsSaved, TypeOK, InProgress, Final
<1>31. ASSUME NEW w \in Worker, WorkerCrash(w) PROVE EndIsSaved'
  BY <1>31 DEF WorkerCrash, mainVars, stopVars, IInv, Held, Works, MainOrderly,
      CancelledHasNoEntry, EndIsSaved, TypeOK, InProgress, Final
<1>32. ASSUME NEW x \in Execution, LoseLock(x) PROVE EndIsSaved'
  BY <1>32 DEF LoseLock, mainVars, stopVars, workVars, IInv, EndIsSaved, TypeOK, Final
<1> QED
  BY <1>1, <1>2, <1>3, <1>4, <1>5, <1>6, <1>7, <1>8, <1>9, <1>10, <1>11, <1>12,
      <1>13, <1>14, <1>15, <1>16, <1>17, <1>18, <1>19, <1>20, <1>21, <1>22, <1>23,
      <1>24, <1>25, <1>26, <1>27, <1>28, <1>29, <1>30, <1>31, <1>32
  DEF Next, MainStep, StopStep, CancelStep, WorkStep, Recover, vars, mainVars, stopVars,
      jobVars, workVars, ReadStored, FindDangling, StopRead, AskWhetherActive, SendAbort

LEMMA Invariant == Spec => []IInv
<1>1. Init => IInv
  <2> SUFFICES ASSUME Init PROVE IInv
    OBVIOUS
  <2>1. TypeOK
    BY QueueModeAssumption
    DEF Init, TypeOK, QueueModeAssumption, MainPC, WorkPC, JobState
  <2>2. Held /\ HolderHasJob /\ MainOrderly /\ CancelledHasNoEntry /\ EndIsSaved
    BY DEF Init, Held, HolderHasJob, Works, MainOrderly, CancelledHasNoEntry, EndIsSaved
  <2>3. FewWorkers
    <3>1. \A x \in Execution : Busy(x) = {} /\ stalls[x] = 0 /\ job[x] = "none"
      BY DEF Init, Busy
    <3>2. Cardinality({}) = 0
      BY FS_EmptySet
    <3> QED
      BY <3>1, <3>2 DEF FewWorkers
  <2> QED
    BY <2>1, <2>2, <2>3 DEF IInv
<1>2. TypeOK /\ TypeOK' /\ IInv /\ [Next]_vars => IInv'
  BY HeldKept, HolderHasJobKept, FewWorkersKept, MainOrderlyKept, CancelledHasNoEntryKept, EndIsSavedKept
  DEF IInv
<1> QED
  BY <1>1, <1>2, TypeCorrect, PTL DEF Spec

(* The workers that have an execution in hand are at most one more than    *)
(* the times its job has stalled, and the one that has the lock is at a    *)
(* job that no stop has removed.                                           *)
THEOREM WorkersComeByStalls == Spec => []OneWorkerPerStall
<1>1. IInv => OneWorkerPerStall
  <2> SUFFICES ASSUME IInv, NEW x \in Execution
               PROVE  /\ Cardinality(Busy(x)) <= 1 + stalls[x]
                      /\ \A w \in Busy(x) : lock[x] = w => job[x] \in {"active", "aborted"}
    BY DEF OneWorkerPerStall
  <2>1. Cardinality(Busy(x)) \in Nat
    BY FS_Subset, FS_CardinalityType, QueueModeAssumption DEF QueueModeAssumption, Busy
  <2>2. stalls[x] \in Nat
    BY QueueModeAssumption DEF QueueModeAssumption, IInv, TypeOK
  <2>3. \A w \in Busy(x) : lock[x] = w => job[x] \in {"active", "aborted"}
    BY DEF IInv, HolderHasJob, Works, Busy
  <2> QED
    BY <2>1, <2>2, <2>3 DEF IInv, FewWorkers
<1> QED
  BY <1>1, Invariant, PTL

(* Main never finalizes an execution with a status that is not an end,     *)
(* unless a worker has lost its lock of the job.                           *)
THEOREM CallersHearAnEnd == Spec => []ResultIsFinal
<1>1. IInv => ResultIsFinal
  BY DEF IInv, EndIsSaved, ResultIsFinal
<1> QED
  BY <1>1, Invariant, PTL
=============================================================================
