-------------------------- MODULE TaskQueueProofs --------------------------
(***************************************************************************)
(* Proofs that the safety properties of the task queue hold for any number *)
(* of items, runs, failures and restarts.                                  *)
(***************************************************************************)
EXTENDS TaskQueueProps, TLAPS

-----------------------------------------------------------------------------
(***************************************************************************)
(* The inductive invariant.                                                *)
(***************************************************************************)
\* Only the current item runs, and exactly a running item has a run.
ItemsOK ==
  /\ \A i \in Items : itemStatus[i] = "running" => i = current
  /\ \A i \in Items : lastRun[i] # NULL <=> itemStatus[i] = "running"
  /\ current # NULL => itemStatus[current] \in {"running", "gone"}

\* Between the creation of a run and its link the queue is free, and the item
\* picked is still its head unless it was deleted with its task.
LinkOK ==
  pc = "link" => /\ current = NULL /\ pick \in Items /\ job \in Runs
                 /\ jobStatus[job] = "queued"
                 /\ pick \in Waiting => pick \in Heads

\* The job the scheduler works on: whether it can still be executed, and that
\* it is the run of the current item as long as that item exists.
WorkOK ==
  /\ pc = "run" => job \in Runs /\ jobStatus[job] \in {"queued", "running", "deleted"}
  /\ pc = "running" => job \in Runs /\ jobStatus[job] = "running"
  /\ pc = "finish" => job \in Runs /\ jobStatus[job] \in Terminal \cup {"deleted"}
  /\ pc \in {"run", "running", "finish"} /\ CurrentPresent => job = lastRun[current]

\* During the recovery the executor is empty; its second half finds an idle queue.
RecoveryOK ==
  /\ ~Serving => submitted = <<>>
  /\ pc = "recoverJobs" => status = "idle" /\ current = NULL

\* Runs in use exist.
RunsOK ==
  /\ job \in Runs => jobStatus[job] # "none"
  /\ \A i \in Items : lastRun[i] \in Runs => jobStatus[lastRun[i]] # "none"

\* Runs the executor has taken on are open, distinct and never the queue's.
SubmittedOK ==
  \A k \in 1..Len(submitted) :
    /\ jobStatus[submitted[k]] \in {"queued", "running"}
    /\ submitted[k] # job
    /\ \A i \in Items : lastRun[i] # submitted[k]
    /\ \A l \in 1..Len(submitted) : submitted[l] = submitted[k] => l = k

IInv == /\ TypeOK /\ ItemsOK /\ LinkOK /\ WorkOK /\ RecoveryOK /\ RunsOK
        /\ SubmittedOK /\ CountedOnce

-----------------------------------------------------------------------------
(***************************************************************************)
(* Facts used in several places.                                           *)
(***************************************************************************)
\* No failure counted is a count of failures.
LEMMA ThresholdType == 0 \in 0..Threshold
  BY QueueAssumption DEF QueueAssumption

\* The current item, while it exists, runs and has a run.
LEMMA CurrentRun ==
  ASSUME TypeOK, ItemsOK, CurrentPresent
  PROVE  /\ current \in Items /\ itemStatus[current] = "running"
         /\ lastRun[current] \in Runs
  BY DEF TypeOK, ItemsOK, CurrentPresent, Present

\* What leaves a set of items has the type of an item.
LEMMA DropType ==
  ASSUME TypeOK, NEW S, Drop(S)
  PROVE  /\ itemStatus' \in [Items -> ItemStatus]
         /\ itemTask' \in [Items -> Tasks \cup {NULL}]
         /\ orderIndex' \in [Items -> Nat]
         /\ lastRun' \in [Items -> Runs \cup {NULL}]
  BY DEF TypeOK, ItemStatus, Drop

\* A history row of an existing run is a history row.
LEMMA RecordType ==
  ASSUME TypeOK, NEW r \in Runs, NEW action \in {"finished", "canceled"}, Record(action, r)
  PROVE  history' \subseteq {"started", "finished", "canceled"} \X Runs
  BY DEF TypeOK, Record

\* The run at the head of the executor's queue is open and not the queue's.
LEMMA HeadOpen ==
  ASSUME TypeOK, SubmittedOK, submitted # <<>>
  PROVE  /\ Head(submitted) \in Runs /\ jobStatus[Head(submitted)] \in {"queued", "running"}
         /\ Head(submitted) # job /\ \A i \in Items : lastRun[i] # Head(submitted)
  <1>1. submitted \in Seq(Runs) /\ 1 \in 1..Len(submitted) /\ Head(submitted) = submitted[1]
    BY DEF TypeOK
  <1> QED
    BY <1>1 DEF SubmittedOK

\* A fresh identity names no run yet.
LEMMA FreshRunIsNew == ASSUME NEW r \in FreshRuns PROVE r \in Runs /\ jobStatus[r] = "none"
  BY QueueAssumption DEF QueueAssumption, FreshRuns
-----------------------------------------------------------------------------
(***************************************************************************)
(* The invariant is inductive: one lemma per part.                         *)
(***************************************************************************)
\* Every step keeps the types.
LEMMA TypeStep == IInv /\ Next => TypeOK'
<1> SUFFICES ASSUME TypeOK, ItemsOK, LinkOK, WorkOK, Next PROVE TypeOK'
  BY DEF IInv
<1> USE DEF queueVars, itemVars, runVars, schedVars, execVars, reqVars, budgets
<1>1. ASSUME Start PROVE TypeOK'
  BY <1>1, SMTT(30) DEF TypeOK,
      Start, QueueStatus
<1>2. ASSUME Pause PROVE TypeOK'
  BY <1>2, SMTT(30) DEF TypeOK,
      Pause, QueueStatus
<1>3. ASSUME NEW b \in BOOLEAN, SetInterval(b) PROVE TypeOK'
  BY <1>3, SMTT(30) DEF TypeOK,
      SetInterval
<1>4. ASSUME NEW i \in Items, NEW t \in Tasks, NEW p \in Positions, Enqueue(i, t, p) PROVE TypeOK'
  BY <1>4, QueueAssumption, SMTT(30) DEF TypeOK,
      Enqueue, FreshItems, NewIndex, TailIndex, Shifted, Present, Waiting, ItemStatus,
      QueueAssumption
<1>5. ASSUME NEW list \in Lists, Reorder(list) PROVE TypeOK'
  <2>1. list \in Seq(Items) /\ DOMAIN list \subseteq Nat
    BY QueueAssumption DEF QueueAssumption
  <2>2. PICK f \in Ranks(list) : orderIndex' = [i \in Items |-> IF i \in Listed(list) THEN f[i] ELSE orderIndex[i]]
    BY <1>5 DEF Reorder
  <2>3. f \in [Listed(list) -> DOMAIN list]
    BY DEF Ranks
  <2>4. orderIndex' \in [Items -> Nat]
    BY <2>1, <2>2, <2>3 DEF TypeOK
  <2>5. UNCHANGED <<queueVars, itemStatus, itemTask, lastRun, tasks, runVars, schedVars, execVars,
                    reqVars, budgets>>
    BY <1>5 DEF Reorder
  <2> QED
    BY <2>4, <2>5, SMTT(30) DEF TypeOK
<1>6. ASSUME NEW i \in Items, RemoveItem(i) PROVE TypeOK'
  BY <1>6, SMTT(30) DEF TypeOK,
      RemoveItem, Drop, Present, ItemStatus
<1>7. ASSUME DeleteCurrent PROVE TypeOK'
  <2>1. lastRun[current] \in Runs
    BY <1>7, CurrentRun DEF DeleteCurrent
  <2>2. history' \subseteq {"started", "finished", "canceled"} \X Runs
    BY <1>7, <2>1, RecordType DEF DeleteCurrent
  <2> QED
    BY <1>7, <2>1, <2>2 DEF TypeOK, DeleteCurrent, QueueStatus
<1>8. ASSUME Stop PROVE TypeOK'
  <2>1. pendingCancel' \subseteq Runs
    BY <1>8, CurrentRun DEF Stop, TypeOK
  <2> QED
    BY <1>8, <2>1 DEF TypeOK, Stop, QueueStatus
<1>9. ASSUME Reset PROVE TypeOK'
  BY <1>9, SMTT(30) DEF TypeOK,
      Reset, QueueStatus
<1>10. ASSUME ResetDiagnostics PROVE TypeOK'
  <2>1. pendingReset' \in BOOLEAN /\ failures' \in 0..Threshold /\ preError' \in QueueStatus \cup {NULL}
    BY <1>10, ThresholdType DEF ResetDiagnostics
  <2>2. UNCHANGED <<queueVars, itemVars, tasks, runVars, pc, job, pick, execVars,
                    pendingCancel, deleting, quickChecked, budgets>>
    BY <1>10 DEF ResetDiagnostics
  <2> QED
    BY <2>1, <2>2, SMTT(30) DEF TypeOK
<1>11. ASSUME NEW r \in Runs, DeliverCancel(r) PROVE TypeOK'
  BY <1>11, SMTT(30) DEF TypeOK,
      DeliverCancel
<1>12. ASSUME GateOpens PROVE TypeOK'
  BY <1>12, SMTT(30) DEF TypeOK,
      GateOpens
<1>13. ASSUME NEW r \in Runs, CancelRun(r) PROVE TypeOK'
  BY <1>13, SMTT(30) DEF TypeOK,
      CancelRun
<1>14. ASSUME NEW r \in Runs, DeleteRun(r) PROVE TypeOK'
  BY <1>14, SMTT(30) DEF TypeOK,
      DeleteRun, JobStatus, Terminal
<1>15. ASSUME NEW t \in Tasks, CheckDeleteTask(t) PROVE TypeOK'
  BY <1>15, SMTT(30) DEF TypeOK,
      CheckDeleteTask
<1>16. ASSUME NEW t \in Tasks, DeleteTask(t) PROVE TypeOK'
  BY <1>16, SMTT(30) DEF TypeOK,
      DeleteTask, Drop, Present, ItemStatus
<1>17. ASSUME CheckQuick PROVE TypeOK'
  BY <1>17, SMTT(30) DEF TypeOK,
      CheckQuick
<1>18. ASSUME NEW r \in Runs, CreateQuick(r) PROVE TypeOK'
  <2>1. submitted' \in Seq(Runs)
    BY <1>18 DEF TypeOK, CreateQuick
  <2>2. jobStatus' \in [Runs -> JobStatus]
    BY <1>18 DEF TypeOK, CreateQuick, JobStatus
  <2>3. UNCHANGED <<queueVars, itemVars, tasks, statsCount, history, schedVars, exec,
                    cancelled, pendingCancel, pendingReset, deleting,
                    budgets>> /\ quickChecked' \in BOOLEAN
    BY <1>18 DEF CreateQuick
  <2> QED
    BY <2>1, <2>2, <2>3, SMTT(30) DEF TypeOK
<1>19. ASSUME AttemptRecovery PROVE TypeOK'
  BY <1>19, QueueAssumption, SMTT(30) DEF TypeOK,
      AttemptRecovery, QueueStatus, Places, QueueAssumption
<1>20. ASSUME TickSkips PROVE TypeOK'
  BY <1>20, SMTT(30) DEF TypeOK,
      TickSkips, Places
<1>21. ASSUME TickWaits PROVE TypeOK'
  BY <1>21, QueueAssumption, SMTT(30) DEF TypeOK,
      TickWaits, Succeed, Places, QueueAssumption
<1>22. ASSUME DispatchNone PROVE TypeOK'
  BY <1>22, QueueAssumption, SMTT(30) DEF TypeOK,
      DispatchNone, Succeed, QueueStatus, Places, QueueAssumption
<1>23. ASSUME NEW i \in Items, NEW r \in Runs, DispatchCreate(i, r) PROVE TypeOK'
  BY <1>23, SMTT(30) DEF TypeOK,
      DispatchCreate, JobStatus, Terminal, Places
<1>24. ASSUME NEW i \in Items, NEW r \in Runs, DispatchFails(i, r) PROVE TypeOK'
  <2>1. Drop({i}) /\ Succeed /\ UNCHANGED <<status, current, interval, session, tasks, execVars,
                                            reqVars, budgets>>
    BY <1>24 DEF DispatchFails
  <2>2. jobStatus' \in [Runs -> JobStatus] /\ statsCount' \in [Runs -> Nat]
    BY <1>24 DEF TypeOK, DispatchFails, CountRun, JobStatus, Terminal
  <2>3. gate' \in {"open", "closed"}
    BY <1>24 DEF DispatchFails, GateAfterRun
  <2>4. history' \subseteq {"started", "finished", "canceled"} \X Runs
    BY <1>24, RecordType DEF DispatchFails
  <2> QED
    BY <2>1, <2>2, <2>3, <2>4, DropType, ThresholdType, SMTT(30) DEF TypeOK, Succeed, Places
<1>25. ASSUME Link PROVE TypeOK'
  BY <1>25, SMTT(30) DEF TypeOK,
      Link, Waiting, ItemStatus, LinkOK, WorkOK, Places
<1>26. ASSUME LinkLost PROVE TypeOK'
  BY <1>26, QueueAssumption, SMTT(30) DEF TypeOK,
      LinkLost, Fail, Places, QueueAssumption
<1>27. ASSUME Resume PROVE TypeOK'
  BY <1>27, QueueAssumption, SMTT(30) DEF TypeOK,
      Resume, CurrentPresent, Present, ItemsOK, Places, QueueAssumption
<1>28. ASSUME RunBegins PROVE TypeOK'
  BY <1>28, SMTT(30) DEF TypeOK,
      RunBegins, BeginRun, LinkOK, WorkOK, JobStatus, Terminal, Places
<1>29. ASSUME RunMissing PROVE TypeOK'
  BY <1>29, SMTT(30) DEF TypeOK,
      RunMissing, Places
<1>30. ASSUME RunEnds PROVE TypeOK'
  BY <1>30, SMTT(30) DEF TypeOK,
      RunEnds, EndRun, Outcomes, LinkOK, WorkOK, JobStatus, Terminal, Places
<1>31. ASSUME QuickBegins PROVE TypeOK'
  BY <1>31, SMTT(30) DEF TypeOK,
      QuickBegins, BeginRun, JobStatus, Terminal
<1>32. ASSUME QuickEnds PROVE TypeOK'
  BY <1>32, SMTT(30) DEF TypeOK,
      QuickEnds, EndRun, Outcomes, JobStatus, Terminal
<1>33. ASSUME FinishLost PROVE TypeOK'
  BY <1>33, QueueAssumption, SMTT(30) DEF TypeOK,
      FinishLost, Succeed, Places, QueueAssumption
<1>34. ASSUME FinishStopped PROVE TypeOK'
  <2>1. current \in Items /\ lastRun[current] \in Runs
    BY <1>34, CurrentRun DEF FinishStopped
  <2>2. history' \subseteq {"started", "finished", "canceled"} \X Runs
    BY <1>34, <2>1, RecordType DEF FinishStopped, FinalAction
  <2>3. statsCount' \in [Runs -> Nat] /\ itemStatus' \in [Items -> ItemStatus] /\ lastRun' \in [Items -> Runs \cup {NULL}]
    BY <1>34, <2>1 DEF TypeOK, FinishStopped, CountRun, ItemStatus
  <2> QED
    BY <1>34, <2>2, <2>3, ThresholdType, SMTT(30) DEF TypeOK, FinishStopped, Succeed, QueueStatus,
         Places
<1>35. ASSUME FinishDropped PROVE TypeOK'
  <2>1. current \in Items /\ lastRun[current] \in Runs
    BY <1>35, CurrentRun DEF FinishDropped
  <2>2. history' \subseteq {"started", "finished", "canceled"} \X Runs
    BY <1>35, <2>1, RecordType DEF FinishDropped, FinalAction
  <2>3. statsCount' \in [Runs -> Nat]
    BY <1>35, <2>1 DEF TypeOK, FinishDropped, CountRun
  <2>4. status' \in QueueStatus /\ gate' \in {"open", "closed"}
    BY <1>35 DEF TypeOK, FinishDropped, StatusAfterDrop, GateAfterDrop, GateAfterRun, QueueStatus
  <2>5. Drop({current}) /\ Succeed /\ current' = NULL
        /\ UNCHANGED <<interval, session, tasks, jobStatus, execVars, reqVars, budgets>>
    BY <1>35 DEF FinishDropped
  <2> QED
    BY <2>2, <2>3, <2>4, <2>5, DropType, ThresholdType, SMTT(30) DEF TypeOK, Succeed, Places
<1>36. ASSUME TickFaults PROVE TypeOK'
  BY <1>36, QueueAssumption, SMTT(30) DEF TypeOK,
      TickFaults, Fail, MayFault, Places, QueueAssumption
<1>37. ASSUME PersistError PROVE TypeOK'
  BY <1>37, SMTT(30) DEF TypeOK,
      PersistError, QueueStatus, Places
<1>38. ASSUME PersistFaults PROVE TypeOK'
  BY <1>38, SMTT(30) DEF TypeOK,
      PersistFaults, MayFault, Places
<1>39. ASSUME QuickFaults PROVE TypeOK'
  BY <1>39, SMTT(30) DEF TypeOK,
      QuickFaults, MayFault
<1>40. ASSUME Crash PROVE TypeOK'
  <2>1. submitted' \in Seq(Runs)
    BY <1>40 DEF Crash
  <2>2. /\ pc' \in Places /\ job' \in Runs \cup {NULL} /\ pick' \in Items \cup {NULL}
        /\ failures' \in 0..Threshold /\ preError' \in QueueStatus \cup {NULL}
        /\ exec' \in Runs \cup {NULL} /\ cancelled' \subseteq Runs
    BY <1>40, ThresholdType DEF Crash, Places
  <2>3. /\ pendingCancel' \subseteq Runs /\ pendingReset' \in BOOLEAN
        /\ deleting' \subseteq Tasks /\ quickChecked' \in BOOLEAN
    BY <1>40 DEF Crash
  <2>4. UNCHANGED <<queueVars, itemVars, tasks, runVars, faults>> /\ crashes' = crashes + 1
    BY <1>40 DEF Crash
  <2> QED
    BY <2>1, <2>2, <2>3, <2>4, SMTT(30) DEF TypeOK
<1>41. ASSUME RecoverQueue PROVE TypeOK'
  <2>1. /\ pc' \in Places /\ current' \in Items \cup {NULL} /\ status' \in QueueStatus
        /\ UNCHANGED <<gate, interval, session, tasks, job, pick, failures, preError, execVars,
                       reqVars, budgets>>
    BY <1>41 DEF RecoverQueue, Places, QueueStatus
  <2>2. CASE ~CurrentPresent
    BY <1>41, <2>1, <2>2, SMTT(30) DEF TypeOK, RecoverQueue
  <2>3. CASE CurrentPresent
    <3>1. lastRun[current] \in Runs
      BY <2>3, CurrentRun
    <3>2. /\ Drop({current}) /\ Record("canceled", lastRun[current])
          /\ \/ CountRun(lastRun[current])
                /\ jobStatus' = [jobStatus EXCEPT ![lastRun[current]] = "failed"]
             \/ UNCHANGED <<jobStatus, statsCount>>
      BY <1>41, <2>3 DEF RecoverQueue
    <3>3. history' \subseteq {"started", "finished", "canceled"} \X Runs
      BY <3>1, <3>2, RecordType
    <3>4. jobStatus' \in [Runs -> JobStatus] /\ statsCount' \in [Runs -> Nat]
      <4>1. "failed" \in JobStatus
        BY DEF JobStatus, Terminal
      <4>2. CASE UNCHANGED <<jobStatus, statsCount>>
        BY <4>2 DEF TypeOK
      <4>3. CASE /\ CountRun(lastRun[current])
                 /\ jobStatus' = [jobStatus EXCEPT ![lastRun[current]] = "failed"]
        BY <3>1, <4>1, <4>3 DEF TypeOK, CountRun
      <4> QED BY <3>2, <4>2, <4>3
    <3>5. /\ itemStatus' \in [Items -> ItemStatus] /\ itemTask' \in [Items -> Tasks \cup {NULL}]
          /\ orderIndex' \in [Items -> Nat] /\ lastRun' \in [Items -> Runs \cup {NULL}]
      BY <3>2, DropType
    <3> QED
      BY <2>1, <3>3, <3>4, <3>5, SMTT(30) DEF TypeOK
  <2> QED BY <2>2, <2>3
<1>42. ASSUME RecoverJobs PROVE TypeOK'
  BY <1>42, SMTT(30) DEF TypeOK,
      RecoverJobs, JobStatus, Terminal, Places
<1> QED
  BY <1>1, <1>2, <1>3, <1>4, <1>5, <1>6, <1>7, <1>8, <1>9, <1>10, <1>11, <1>12, <1>13, <1>14,
       <1>15, <1>16, <1>17, <1>18, <1>19, <1>20, <1>21, <1>22, <1>23, <1>24, <1>25, <1>26, <1>27,
       <1>28, <1>29, <1>30, <1>31, <1>32, <1>33, <1>34, <1>35, <1>36, <1>37, <1>38, <1>39, <1>40,
       <1>41, <1>42
  DEF Next, Request, Handler, Scheduler, Dispatch, Executor, Recovery, Failure
-----------------------------------------------------------------------------
(***************************************************************************)
(* The items: only the steps below touch an item or the current item.      *)
(***************************************************************************)
\* Only the current item runs, before and after every step.
LEMMA ItemsStep == IInv /\ Next => ItemsOK'
<1> SUFFICES ASSUME TypeOK, ItemsOK, LinkOK, Next PROVE ItemsOK'
  BY DEF IInv
<1> USE QueueAssumption DEF QueueAssumption
<1>1. CASE UNCHANGED <<current, itemStatus, lastRun>>
  BY <1>1 DEF ItemsOK
<1>2. ASSUME NEW i \in Items, NEW t \in Tasks, NEW p \in Positions, Enqueue(i, t, p)
      PROVE  ItemsOK'
  BY <1>2 DEF ItemsOK, TypeOK, Enqueue, FreshItems, queueVars
<1>3. ASSUME NEW i \in Items, RemoveItem(i) PROVE ItemsOK'
  BY <1>3 DEF ItemsOK, TypeOK, RemoveItem, Drop, queueVars
<1>4. ASSUME NEW t \in Tasks, DeleteTask(t) PROVE ItemsOK'
  BY <1>4 DEF ItemsOK, TypeOK, DeleteTask, Drop, queueVars
<1>5. ASSUME NEW i \in Items, NEW r \in Runs, DispatchFails(i, r) PROVE ItemsOK'
  BY <1>5 DEF ItemsOK, TypeOK, DispatchFails, MayDispatch, Drop
<1>6. CASE Link
  BY <1>6 DEF ItemsOK, TypeOK, LinkOK, Link, Waiting
<1>7. CASE FinishLost
  BY <1>7 DEF ItemsOK, TypeOK, FinishLost, CurrentPresent, Present, itemVars, ItemStatus
<1>8. CASE FinishStopped
  BY <1>8, CurrentRun DEF ItemsOK, TypeOK, FinishStopped
<1>9. CASE FinishDropped
  BY <1>9, CurrentRun DEF ItemsOK, TypeOK, FinishDropped, Drop
<1>10. CASE RecoverQueue
  <2>1. CASE CurrentPresent
    <3>1. Drop({current}) /\ current' = NULL
      BY <1>10, <2>1 DEF RecoverQueue
    <3> QED
      BY <2>1, <3>1, CurrentRun DEF ItemsOK, TypeOK, Drop
  <2>2. CASE ~CurrentPresent
    BY <1>10, <2>2 DEF ItemsOK, TypeOK, RecoverQueue, CurrentPresent, Present, itemVars, ItemStatus
  <2> QED BY <2>1, <2>2
<1>11. CASE Request
  BY <1>1, <1>2, <1>3, <1>4, <1>11
     DEF Request, Start, Pause, DeleteCurrent, Stop, Reset, SetInterval, Reorder, CancelRun,
         DeleteRun, CheckDeleteTask, CheckQuick, itemVars, queueVars
<1>12. CASE Handler \/ GateOpens \/ Executor \/ Failure
  BY <1>1, <1>12 DEF Handler, ResetDiagnostics, DeliverCancel, CreateQuick, GateOpens, Executor,
     QuickBegins, QuickEnds, Failure, TickFaults, PersistFaults, QuickFaults, Crash, itemVars,
     queueVars
<1>13. CASE Scheduler \/ Recovery
  BY <1>1, <1>5, <1>6, <1>7, <1>8, <1>9, <1>10, <1>13
     DEF Scheduler, Dispatch, Recovery, AttemptRecovery, TickSkips, TickWaits, DispatchNone,
          DispatchCreate,
         LinkLost, Resume, RunBegins, RunMissing, RunEnds, PersistError, RecoverJobs, itemVars,
         queueVars
<1> QED
  BY <1>11, <1>12, <1>13 DEF Next
-----------------------------------------------------------------------------
(***************************************************************************)
(* The life of a run.                                                      *)
(***************************************************************************)
\* A run is created once; when it is over it can only be deleted, and then it
\* stays deleted.
LifeGoesOn(r) ==
  /\ jobStatus[r] # "none" => jobStatus'[r] # "none"
  /\ jobStatus[r] \in Terminal => jobStatus'[r] \in {jobStatus[r], "deleted"}
  /\ jobStatus[r] = "deleted" => jobStatus'[r] = "deleted"

\* No step takes a run back in its life.
LEMMA LifeStep == IInv /\ Next => \A r \in Runs : LifeGoesOn(r)
<1> SUFFICES ASSUME IInv, Next, NEW r \in Runs PROVE LifeGoesOn(r)
  OBVIOUS
<1> USE DEF LifeGoesOn, Terminal
<1>1. CASE UNCHANGED jobStatus
  BY <1>1
<1>2. ASSUME NEW q \in Runs, DeleteRun(q) PROVE LifeGoesOn(r)
  BY <1>2 DEF IInv, TypeOK, DeleteRun, Deletable
<1>3. ASSUME NEW q \in Runs, CreateQuick(q) PROVE LifeGoesOn(r)
  BY <1>3, FreshRunIsNew DEF IInv, TypeOK, CreateQuick
<1>4. ASSUME NEW i \in Items, NEW q \in Runs, DispatchCreate(i, q) PROVE LifeGoesOn(r)
  BY <1>4, FreshRunIsNew DEF IInv, TypeOK, DispatchCreate
<1>5. ASSUME NEW i \in Items, NEW q \in Runs, DispatchFails(i, q) PROVE LifeGoesOn(r)
  BY <1>5, FreshRunIsNew DEF IInv, TypeOK, DispatchFails
<1>6. CASE RunBegins
  BY <1>6 DEF IInv, TypeOK, WorkOK, RunBegins, BeginRun
<1>7. CASE RunEnds
  BY <1>7 DEF IInv, TypeOK, WorkOK, RunEnds, EndRun, Outcomes
<1>8. CASE QuickBegins
  <2>1. Head(submitted) \in Runs /\ jobStatus[Head(submitted)] \in {"queued", "running"}
    BY <1>8, HeadOpen DEF IInv, QuickBegins
  <2> QED
    BY <1>8, <2>1 DEF IInv, TypeOK, QuickBegins, BeginRun
<1>9. CASE QuickEnds
  <2>1. exec \in Runs /\ jobStatus[exec] \in {"queued", "running"}
    BY <1>9, HeadOpen DEF IInv, QuickEnds
  <2> QED
    BY <1>9, <2>1 DEF IInv, TypeOK, QuickEnds, EndRun, Outcomes
<1>10. CASE RecoverQueue
  BY <1>10 DEF IInv, TypeOK, RecoverQueue, Interrupted, runVars
<1>11. CASE RecoverJobs
  BY <1>11 DEF IInv, TypeOK, RecoverJobs, Interrupted
<1>12. CASE Request
  BY <1>1, <1>2, <1>12
     DEF Request, Start, Pause, DeleteCurrent, Stop, Reset, SetInterval, Enqueue, Reorder,
          RemoveItem,
         CancelRun, CheckDeleteTask, DeleteTask, CheckQuick, runVars
<1>13. CASE Handler \/ GateOpens \/ Failure
  BY <1>1, <1>3, <1>13 DEF Handler, ResetDiagnostics, DeliverCancel, GateOpens, Failure,
     TickFaults, PersistFaults, QuickFaults, Crash, runVars
<1>14. CASE Scheduler
  BY <1>1, <1>4, <1>5, <1>6, <1>7, <1>14
     DEF Scheduler, Dispatch, AttemptRecovery, TickSkips, TickWaits, DispatchNone, Link, LinkLost,
         Resume, RunMissing, FinishLost, FinishStopped, FinishDropped, PersistError, runVars
<1> QED
  BY <1>8, <1>9, <1>10, <1>11, <1>12, <1>13, <1>14 DEF Next, Executor, Recovery
-----------------------------------------------------------------------------
(***************************************************************************)
(* The place between the creation of a run and its link: what holds        *)
(* _queue_lock excludes, and what the other steps leave alone.             *)
(***************************************************************************)
\* The run just created and the item picked stay as they are until the link.
LEMMA LinkStep == IInv /\ Next => LinkOK'
<1> SUFFICES ASSUME IInv, Next PROVE LinkOK'
  OBVIOUS
<1> USE DEF IInv, LinkOK, Waiting, Heads
<1>1. CASE UNCHANGED <<pc, job, pick, current, itemStatus, orderIndex, jobStatus>>
  BY <1>1
<1>2. CASE pc' # "link"
  BY <1>2
<1>3. ASSUME NEW i \in Items, NEW r \in Runs, DispatchCreate(i, r) PROVE LinkOK'
  BY <1>3 DEF TypeOK, DispatchCreate, MayDispatch, queueVars, itemVars
<1>4. ASSUME NEW r \in Runs, DeleteRun(r) PROVE LinkOK'
  BY <1>4 DEF TypeOK, DeleteRun, Deletable, Terminal, queueVars, itemVars, schedVars
<1>5. ASSUME NEW t \in Tasks, DeleteTask(t) PROVE LinkOK'
  BY <1>5 DEF TypeOK, DeleteTask, Drop, queueVars, runVars, schedVars
<1>6. ASSUME NEW r \in Runs, CreateQuick(r) PROVE LinkOK'
  BY <1>6, FreshRunIsNew DEF TypeOK, CreateQuick, queueVars, itemVars, schedVars
<1>7. CASE QuickBegins
  BY <1>7, HeadOpen DEF TypeOK, QuickBegins, BeginRun, queueVars, itemVars, schedVars
<1>8. CASE QuickEnds
  BY <1>8, HeadOpen DEF TypeOK, QuickEnds, EndRun, queueVars, itemVars, schedVars
<1>9. CASE Request
  <2>1. CASE LockFree /\ UNCHANGED schedVars
    BY <1>2, <2>1 DEF LockFree, schedVars
  <2> QED
    BY <1>1, <1>4, <1>5, <1>9, <2>1
       DEF Request, Start, Pause, DeleteCurrent, Stop, Reset, SetInterval, Enqueue, Reorder,
            RemoveItem,
           CancelRun, CheckDeleteTask, CheckQuick, queueVars, itemVars, runVars, schedVars
<1>10. CASE Handler \/ GateOpens \/ Executor
  BY <1>1, <1>6, <1>7, <1>8, <1>10 DEF Handler, ResetDiagnostics, DeliverCancel, GateOpens,
       Executor,
     queueVars, itemVars, runVars, schedVars
<1>11. CASE Scheduler
  BY <1>2, <1>3, <1>11
     DEF Scheduler, Dispatch, AttemptRecovery, TickSkips, TickWaits, DispatchNone, DispatchFails,
          Link,
         LinkLost, Resume, RunBegins, RunMissing, RunEnds, FinishLost, FinishStopped, FinishDropped,
         PersistError, Succeed, Fail
<1>12. CASE Recovery \/ Failure
  BY <1>1, <1>2, <1>12
     DEF Recovery, RecoverQueue, RecoverJobs, Failure, TickFaults, PersistFaults, QuickFaults,
          Crash, Fail,
         queueVars, itemVars, runVars, schedVars
<1> QED
  BY <1>9, <1>10, <1>11, <1>12 DEF Next
-----------------------------------------------------------------------------
(***************************************************************************)
(* The job the scheduler works on.                                         *)
(***************************************************************************)
\* No step takes its job away from the scheduler or makes it another item's.
LEMMA WorkStep == IInv /\ Next => WorkOK'
<1> SUFFICES ASSUME IInv, Next PROVE WorkOK'
  OBVIOUS
<1> USE DEF IInv, WorkOK, CurrentPresent, Present
<1>1. CASE UNCHANGED <<pc, job, current, itemStatus, lastRun, jobStatus>>
  BY <1>1
<1>2. CASE pc' \notin {"run", "running", "finish"}
  BY <1>2
<1>3. ASSUME NEW i \in Items, NEW t \in Tasks, NEW p \in Positions, Enqueue(i, t, p)
      PROVE  WorkOK'
  <2>1. current # i
    BY <1>3, QueueAssumption DEF QueueAssumption, Enqueue, FreshItems, ItemsOK, TypeOK
  <2> QED
    BY <1>3, <2>1 DEF TypeOK, Enqueue, queueVars, runVars, schedVars
<1>4. ASSUME NEW i \in Items, RemoveItem(i) PROVE WorkOK'
  BY <1>4 DEF TypeOK, RemoveItem, Drop, queueVars, runVars, schedVars
<1>5. ASSUME NEW r \in Runs, DeleteRun(r) PROVE WorkOK'
  BY <1>5 DEF TypeOK, DeleteRun, Deletable, Terminal, queueVars, itemVars, schedVars
<1>6. ASSUME NEW t \in Tasks, DeleteTask(t) PROVE WorkOK'
  BY <1>6 DEF TypeOK, DeleteTask, Drop, queueVars, runVars, schedVars
<1>7. ASSUME NEW r \in Runs, CreateQuick(r) PROVE WorkOK'
  BY <1>7, FreshRunIsNew DEF TypeOK, RunsOK, CreateQuick, queueVars, itemVars, schedVars, Terminal
<1>8. CASE QuickBegins
  BY <1>8, HeadOpen DEF TypeOK, QuickBegins, BeginRun, queueVars, itemVars, schedVars
<1>9. CASE QuickEnds
  BY <1>9, HeadOpen DEF TypeOK, QuickEnds, EndRun, queueVars, itemVars, schedVars
<1>10. CASE Link
  BY <1>10 DEF TypeOK, LinkOK, Link, runVars
<1>11. CASE Resume
  <2>1. lastRun[current] \in Runs /\ current \in Items
    BY <1>11, CurrentRun DEF Resume
  <2>2. jobStatus[lastRun[current]] \in JobStatus \ {"none"}
    BY <2>1 DEF TypeOK, RunsOK
  <2> QED
    BY <1>11, <2>1, <2>2 DEF Resume, NeedRun, JobStatus, Terminal, queueVars, itemVars, runVars
<1>12. CASE RunBegins
  BY <1>12 DEF TypeOK, RunBegins, BeginRun, queueVars, itemVars
<1>13. CASE RunMissing
  BY <1>13 DEF RunMissing, queueVars, itemVars, runVars
<1>14. CASE RunEnds
  BY <1>14 DEF TypeOK, RunEnds, EndRun, Outcomes, Terminal, queueVars, itemVars
<1>15. CASE Request
  BY <1>1, <1>3, <1>4, <1>5, <1>6, <1>15
     DEF Request, Start, Pause, DeleteCurrent, Stop, Reset, SetInterval, Reorder, CancelRun,
         CheckDeleteTask, CheckQuick, queueVars, itemVars, runVars, schedVars
<1>16. CASE Handler \/ GateOpens \/ Executor
  BY <1>1, <1>7, <1>8, <1>9, <1>16 DEF Handler, ResetDiagnostics, DeliverCancel, GateOpens,
       Executor,
     queueVars, itemVars, runVars, schedVars
<1>17. CASE Scheduler
  BY <1>2, <1>10, <1>11, <1>12, <1>13, <1>14, <1>17
     DEF Scheduler, Dispatch, AttemptRecovery, TickSkips, TickWaits, DispatchNone, DispatchCreate,
         DispatchFails, LinkLost, FinishLost, FinishStopped, FinishDropped, PersistError, Succeed,
         Fail
<1>18. CASE Recovery \/ Failure
  BY <1>1, <1>2, <1>18
     DEF Recovery, RecoverQueue, RecoverJobs, Failure, TickFaults, PersistFaults, QuickFaults,
          Crash, Fail,
         queueVars, itemVars, runVars, schedVars
<1> QED
  BY <1>15, <1>16, <1>17, <1>18 DEF Next
-----------------------------------------------------------------------------
(***************************************************************************)
(* The recovery, the runs in use and those the executor has taken on.      *)
(***************************************************************************)
\* Only the recovery works on the queue before requests are served.
LEMMA RecoveryStep == IInv /\ Next => RecoveryOK'
<1> SUFFICES ASSUME IInv, Next PROVE RecoveryOK'
  OBVIOUS
<1> USE DEF IInv, RecoveryOK, Serving
<1>1. CASE UNCHANGED <<pc, status, current, submitted>>
  BY <1>1
<1>2. CASE Serving /\ Serving'
  BY <1>2
<1>3. CASE Request
  BY <1>1, <1>2, <1>3
     DEF Request, Start, Pause, DeleteCurrent, Stop, Reset, SetInterval, Enqueue, Reorder,
          RemoveItem,
         CancelRun, DeleteRun, CheckDeleteTask, DeleteTask, CheckQuick, LockFree, queueVars,
         schedVars,
         execVars
<1>4. CASE Handler \/ GateOpens \/ Executor
  BY <1>1, <1>2, <1>4
     DEF Handler, ResetDiagnostics, DeliverCancel, CreateQuick, GateOpens, Executor, QuickBegins,
         QuickEnds, queueVars, schedVars, execVars
<1>5. CASE Scheduler
  BY <1>2, <1>5
     DEF Scheduler, Dispatch, AttemptRecovery, TickSkips, TickWaits, DispatchNone, DispatchCreate,
         DispatchFails, Link, LinkLost, Resume, RunBegins, RunMissing, RunEnds, FinishLost,
         FinishStopped, FinishDropped, PersistError, Succeed, Fail, MayDispatch, AtTick,
         ReadsCurrent
<1>6. CASE RecoverQueue
  BY <1>6 DEF RecoverQueue, execVars
<1>7. CASE RecoverJobs
  BY <1>7 DEF RecoverJobs
<1>8. CASE Crash
  BY <1>8 DEF Crash
<1>9. CASE TickFaults \/ PersistFaults \/ QuickFaults
  BY <1>2, <1>9 DEF TickFaults, PersistFaults, QuickFaults, Fail, schedVars
<1> QED
  BY <1>3, <1>4, <1>5, <1>6, <1>7, <1>8, <1>9 DEF Next, Recovery, Failure

\* A run in use was created.
LEMMA RunsStep == IInv /\ Next => RunsOK'
<1> SUFFICES ASSUME IInv, Next PROVE RunsOK'
  OBVIOUS
<1>1. \A r \in Runs : jobStatus[r] # "none" => jobStatus'[r] # "none"
  BY LifeStep DEF LifeGoesOn
<1>2. lastRun' \in [Items -> Runs \cup {NULL}]
  BY TypeStep DEF TypeOK
<1> USE QueueAssumption DEF IInv, RunsOK, QueueAssumption
<1>3. CASE UNCHANGED <<job, lastRun>>
  BY <1>1, <1>3
<1>4. ASSUME NEW S, Drop(S), job' \in {job, NULL} PROVE RunsOK'
  BY <1>1, <1>2, <1>4 DEF TypeOK, Drop
<1>5. CASE job' = NULL /\ UNCHANGED lastRun
  BY <1>1, <1>5
<1>6. ASSUME NEW i \in Items, NEW r \in Runs, DispatchCreate(i, r) PROVE RunsOK'
  BY <1>1, <1>6 DEF TypeOK, DispatchCreate, itemVars
<1>7. CASE Link
  BY <1>7 DEF TypeOK, LinkOK, Link, runVars
<1>8. CASE Resume
  BY <1>8, CurrentRun DEF Resume, itemVars, runVars
<1>9. CASE FinishStopped
  BY <1>1, <1>2, <1>9 DEF TypeOK, FinishStopped, Succeed
<1>10. CASE Request \/ Handler \/ GateOpens \/ Executor
  <2>1. job' = job
    BY <1>10
       DEF Request, Start, Pause, DeleteCurrent, Stop, Reset, SetInterval, Enqueue, Reorder,
            RemoveItem,
           CancelRun, DeleteRun, CheckDeleteTask, DeleteTask, CheckQuick, Handler, ResetDiagnostics,
           DeliverCancel, CreateQuick, GateOpens, Executor, QuickBegins, QuickEnds, schedVars
  <2>2. lastRun' = lastRun \/ \E S : Drop(S)
    BY <1>10
       DEF Request, Start, Pause, DeleteCurrent, Stop, Reset, SetInterval, Enqueue, Reorder,
            RemoveItem,
           CancelRun, DeleteRun, CheckDeleteTask, DeleteTask, CheckQuick, Handler, ResetDiagnostics,
           DeliverCancel, CreateQuick, GateOpens, Executor, QuickBegins, QuickEnds, itemVars
  <2> QED
    BY <1>3, <1>4, <2>1, <2>2
<1>11. CASE Scheduler
  BY <1>3, <1>4, <1>5, <1>6, <1>7, <1>8, <1>9, <1>11
     DEF Scheduler, Dispatch, AttemptRecovery, TickSkips, TickWaits, DispatchNone,
         DispatchFails, LinkLost, RunBegins, RunMissing, RunEnds, FinishLost,
         FinishDropped, PersistError, Succeed, Fail, itemVars
<1>12. CASE RecoverQueue
  <2>1. job' = job /\ (lastRun' = lastRun \/ Drop({current}))
    BY <1>12 DEF RecoverQueue, itemVars
  <2> QED
    BY <1>3, <1>4, <2>1
<1>13. CASE RecoverJobs \/ Failure
  BY <1>3, <1>5, <1>13
     DEF RecoverJobs, Failure, TickFaults, PersistFaults, QuickFaults, Crash, Fail, itemVars,
          schedVars
<1> QED
  BY <1>10, <1>11, <1>12, <1>13 DEF Next, Recovery

\* A run the executor keeps: nothing but the executor changes it.
LEMMA SubmittedStep == IInv /\ Next => SubmittedOK'
<1> SUFFICES ASSUME IInv, Next PROVE SubmittedOK'
  OBVIOUS
<1>1. /\ submitted \in Seq(Runs) /\ jobStatus \in [Runs -> JobStatus]
      /\ \A k \in 1..Len(submitted) : submitted[k] \in Runs /\ submitted[k] # NULL
  BY QueueAssumption DEF QueueAssumption, IInv, TypeOK
<1>2. ASSUME UNCHANGED submitted, job' \in {job, NULL}, 
             \A k \in 1..Len(submitted) : jobStatus'[submitted[k]] = jobStatus[submitted[k]],
             \A i \in Items : lastRun'[i] \in {lastRun[i], NULL}
      PROVE  SubmittedOK'
  BY <1>1, <1>2 DEF IInv, SubmittedOK
<1>3. ASSUME NEW S, Drop(S) PROVE \A i \in Items : lastRun'[i] \in {lastRun[i], NULL}
  BY <1>3 DEF Drop
<1>4. ASSUME NEW r \in Runs, DeleteRun(r) PROVE SubmittedOK'
  BY <1>1, <1>4 DEF IInv, SubmittedOK, DeleteRun, Deletable, Terminal, itemVars, schedVars, execVars
<1>5. ASSUME NEW t \in Tasks, DeleteTask(t) PROVE SubmittedOK'
  BY <1>2, <1>3, <1>5 DEF DeleteTask, runVars, schedVars, execVars
<1>6. ASSUME NEW i \in Items, RemoveItem(i) PROVE SubmittedOK'
  BY <1>2, <1>3, <1>6 DEF RemoveItem, runVars, schedVars, execVars
<1>7. ASSUME NEW r \in Runs, CreateQuick(r) PROVE SubmittedOK'
  <2>1. jobStatus[r] = "none" /\ r # job /\ \A i \in Items : lastRun[i] # r
    BY <1>7, FreshRunIsNew DEF CreateQuick, IInv, TypeOK, RunsOK
  <2>2. \A k \in 1..Len(submitted) : submitted[k] # r
    BY <1>1, <2>1 DEF IInv, SubmittedOK
  <2>3. /\ Len(submitted') = Len(submitted) + 1 /\ submitted'[Len(submitted) + 1] = r
        /\ \A k \in 1..Len(submitted) : submitted'[k] = submitted[k]
    BY <1>1, <1>7 DEF CreateQuick
  <2>4. /\ jobStatus'[r] = "queued" /\ job' = job /\ lastRun' = lastRun
        /\ \A q \in Runs \ {r} : jobStatus'[q] = jobStatus[q]
    BY <1>1, <1>7 DEF CreateQuick, itemVars, schedVars
  <2> QED
    BY <1>1, <2>1, <2>2, <2>3, <2>4 DEF IInv, SubmittedOK
<1>8. ASSUME submitted # <<>>, submitted' = Tail(submitted), UNCHANGED <<job, lastRun>>,
             \A r \in Runs \ {Head(submitted)} : jobStatus'[r] = jobStatus[r]
      PROVE  SubmittedOK'
  <2>1. /\ Len(submitted') = Len(submitted) - 1 /\ Len(submitted) \in Nat
        /\ \A k \in 1..Len(submitted') : submitted'[k] = submitted[k + 1] /\ k + 1 \in 1..Len(submitted)
    BY <1>1, <1>8
  <2>2. 1 \in 1..Len(submitted) /\ Head(submitted) = submitted[1]
    BY <1>1, <1>8
  <2>3. \A k \in 1..Len(submitted') : submitted'[k] # Head(submitted)
    BY <2>1, <2>2 DEF IInv, SubmittedOK
  <2> QED
    BY <1>1, <1>8, <2>1, <2>3 DEF IInv, SubmittedOK
<1>9. CASE QuickBegins
  BY <1>1, <1>9 DEF IInv, SubmittedOK, QuickBegins, BeginRun, itemVars, schedVars
<1>10. CASE QuickEnds
  BY <1>1, <1>8, <1>10 DEF QuickEnds, EndRun, itemVars, schedVars
<1>11. CASE QuickFaults
  BY <1>8, <1>11 DEF QuickFaults, runVars, itemVars, schedVars
<1>12. ASSUME NEW i \in Items, NEW r \in Runs, DispatchCreate(i, r) PROVE SubmittedOK'
  <2>1. \A k \in 1..Len(submitted) : submitted[k] # r
    BY <1>1, <1>12, FreshRunIsNew DEF DispatchCreate, IInv, SubmittedOK
  <2> QED
    BY <1>1, <1>12, <2>1 DEF DispatchCreate, IInv, SubmittedOK, itemVars, execVars
<1>13. ASSUME NEW i \in Items, NEW r \in Runs, DispatchFails(i, r) PROVE SubmittedOK'
  <2>1. \A k \in 1..Len(submitted) : submitted[k] # r
    BY <1>1, <1>13, FreshRunIsNew DEF DispatchFails, IInv, SubmittedOK
  <2> QED
    BY <1>1, <1>2, <1>3, <1>13, <2>1 DEF DispatchFails, Succeed, execVars
<1>14. CASE Link
  BY <1>1, <1>14 DEF Link, IInv, TypeOK, SubmittedOK, runVars, execVars
<1>15. CASE Resume
  BY <1>1, <1>15, CurrentRun DEF Resume, IInv, SubmittedOK, itemVars, runVars, execVars
<1>16. CASE RunBegins \/ RunEnds
  BY <1>1, <1>2, <1>16 DEF RunBegins, BeginRun, RunEnds, EndRun, IInv, SubmittedOK, itemVars
<1>17. CASE FinishStopped
  BY <1>2, <1>17 DEF FinishStopped, Succeed, IInv, TypeOK, execVars
<1>18. CASE FinishDropped
  BY <1>2, <1>3, <1>18 DEF FinishDropped, Succeed, execVars
<1>19. CASE Recovery \/ Crash
  <2>1. submitted' = <<>>
    BY <1>19 DEF Recovery, RecoverQueue, RecoverJobs, Crash, execVars, IInv, RecoveryOK, Serving
  <2> QED
    BY <2>1 DEF SubmittedOK
<1>20. CASE Request
  BY <1>2, <1>4, <1>5, <1>6, <1>20
     DEF Request, Start, Pause, DeleteCurrent, Stop, Reset, SetInterval, Enqueue, Reorder,
         CancelRun, CheckDeleteTask, CheckQuick, itemVars, runVars, schedVars, execVars
<1>21. CASE Handler \/ GateOpens
  BY <1>2, <1>7, <1>21
     DEF Handler, ResetDiagnostics, DeliverCancel, GateOpens, itemVars, runVars, schedVars, execVars
<1>22. CASE Scheduler
  BY <1>2, <1>12, <1>13, <1>14, <1>15, <1>16, <1>17, <1>18, <1>22
     DEF Scheduler, Dispatch, AttemptRecovery, TickSkips, TickWaits, DispatchNone, LinkLost,
          RunMissing,
         FinishLost, PersistError, Succeed, Fail, itemVars, runVars, execVars
<1>23. CASE TickFaults \/ PersistFaults
  BY <1>2, <1>23 DEF TickFaults, PersistFaults, Fail, itemVars, runVars, execVars
<1> QED
  BY <1>9, <1>10, <1>11, <1>19, <1>20, <1>21, <1>22, <1>23 DEF Next, Executor, Failure

\* A counted run stays over and never comes back to an item.
LEMMA CountedStep == IInv /\ Next => CountedOnce'
<1> SUFFICES ASSUME IInv, Next, NEW r \in Runs, statsCount'[r] > 0
             PROVE  /\ statsCount'[r] = 1 /\ jobStatus'[r] \in Terminal \cup {"deleted"}
                    /\ \A i \in Items : lastRun'[i] # r
  BY DEF CountedOnce
<1>1. /\ statsCount \in [Runs -> Nat] /\ lastRun \in [Items -> Runs \cup {NULL}]
      /\ lastRun' \in [Items -> Runs \cup {NULL}] /\ r # NULL
      /\ jobStatus \in [Runs -> JobStatus]
  BY TypeStep, QueueAssumption DEF QueueAssumption, IInv, TypeOK
<1>2. jobStatus[r] \in Terminal \cup {"deleted"} => jobStatus'[r] \in Terminal \cup {"deleted"}
  BY LifeStep DEF LifeGoesOn
<1>3. CASE statsCount' = statsCount /\ \A i \in Items : lastRun'[i] \in {lastRun[i], NULL}
  BY <1>1, <1>2, <1>3 DEF IInv, CountedOnce
<1>4. ASSUME NEW S, Drop(S) PROVE \A i \in Items : lastRun'[i] \in {lastRun[i], NULL}
  BY <1>4 DEF Drop
<1>5. ASSUME NEW i \in Items, NEW q \in Runs, DispatchFails(i, q)
      PROVE  /\ statsCount'[r] = 1 /\ jobStatus'[r] \in Terminal \cup {"deleted"}
             /\ \A j \in Items : lastRun'[j] # r
  <2>1. jobStatus[q] = "none"
    BY <1>5, FreshRunIsNew DEF DispatchFails
  <2>2. \A j \in Items : lastRun'[j] \in {lastRun[j], NULL}
    BY <1>4, <1>5 DEF DispatchFails
  <2>3. CASE r = q
    BY <1>1, <1>5, <2>1, <2>2, <2>3 DEF IInv, CountedOnce, RunsOK, DispatchFails, CountRun, Terminal
  <2>4. CASE r # q
    BY <1>1, <1>2, <1>5, <2>2, <2>4 DEF IInv, CountedOnce, DispatchFails, CountRun
  <2> QED BY <2>3, <2>4
<1>6. CASE Link
  BY <1>1, <1>2, <1>6 DEF IInv, LinkOK, CountedOnce, Link, runVars, Terminal
<1>7. ASSUME pc = "finish", CurrentPresent, CountRun(lastRun[current]), UNCHANGED jobStatus,
             lastRun' = [lastRun EXCEPT ![current] = NULL] \/ Drop({current})
      PROVE  /\ statsCount'[r] = 1 /\ jobStatus'[r] \in Terminal \cup {"deleted"}
             /\ \A i \in Items : lastRun'[i] # r
  <2>1. /\ current \in Items /\ lastRun[current] \in Runs
        /\ jobStatus[lastRun[current]] \in Terminal \cup {"deleted"}
    BY <1>7, CurrentRun DEF IInv, WorkOK
  <2>2. \A i \in Items : lastRun'[i] \in {lastRun[i], NULL} /\ lastRun'[i] # lastRun[current]
    BY <1>1, <1>7, <2>1, QueueAssumption DEF QueueAssumption, IInv, ItemsOK, Drop
  <2> QED
    BY <1>1, <1>7, <2>1, <2>2 DEF IInv, CountedOnce, CountRun
<1>8. CASE FinishStopped \/ FinishDropped
  BY <1>7, <1>8 DEF FinishStopped, FinishDropped
<1>9. CASE RecoverQueue
  <2>1. CASE CurrentPresent /\ Interrupted(lastRun[current])
    <3>1. /\ Drop({current}) /\ CountRun(lastRun[current])
          /\ jobStatus' = [jobStatus EXCEPT ![lastRun[current]] = "failed"]
      BY <1>9, <2>1 DEF RecoverQueue
    <3>2. current \in Items /\ lastRun[current] \in Runs
      BY <2>1, CurrentRun DEF IInv
    <3>3. \A i \in Items : lastRun'[i] \in {lastRun[i], NULL} /\ lastRun'[i] # lastRun[current]
      BY <1>1, <3>1, <3>2, QueueAssumption DEF QueueAssumption, IInv, ItemsOK, Drop
    <3>4. jobStatus'[lastRun[current]] \in Terminal /\ statsCount[lastRun[current]] = 0
      BY <1>1, <3>1, <3>2 DEF IInv, CountedOnce, Terminal
    <3> QED
      BY <1>1, <1>2, <3>1, <3>2, <3>3, <3>4 DEF IInv, CountedOnce, CountRun
  <2>2. CASE ~(CurrentPresent /\ Interrupted(lastRun[current]))
    BY <1>3, <1>4, <1>9, <2>2 DEF RecoverQueue, runVars, itemVars
  <2> QED BY <2>1, <2>2
<1>10. CASE Request
  BY <1>3, <1>4, <1>10
     DEF Request, Start, Pause, DeleteCurrent, Stop, Reset, SetInterval, Enqueue, Reorder,
          RemoveItem,
         CancelRun, DeleteRun, CheckDeleteTask, DeleteTask, CheckQuick, itemVars, runVars
<1>11. CASE Handler \/ GateOpens \/ Executor \/ Failure \/ RecoverJobs
  BY <1>3, <1>11
     DEF Handler, ResetDiagnostics, DeliverCancel, CreateQuick, GateOpens, Executor, QuickBegins,
         QuickEnds, Failure, TickFaults, PersistFaults, QuickFaults, Crash, RecoverJobs, itemVars,
         runVars
<1>12. CASE Scheduler
  BY <1>3, <1>5, <1>6, <1>8, <1>12
     DEF Scheduler, Dispatch, AttemptRecovery, TickSkips, TickWaits, DispatchNone, DispatchCreate,
         LinkLost, Resume, RunBegins, RunMissing, RunEnds, FinishLost, PersistError, itemVars,
         runVars
<1> QED
  BY <1>9, <1>10, <1>11, <1>12 DEF Next, Recovery
-----------------------------------------------------------------------------
(***************************************************************************)
(* The theorems.                                                           *)
(***************************************************************************)
\* An empty queue satisfies the invariant.
LEMMA InitInv == Init => IInv
<1> SUFFICES ASSUME Init PROVE IInv
  OBVIOUS
<1> USE QueueAssumption DEF Init, QueueAssumption
<1>1. TypeOK
  <2>1. submitted \in Seq(Runs)
    OBVIOUS
  <2>2. pendingReset \in BOOLEAN /\ quickChecked \in BOOLEAN
    BY Zenon
  <2> QED
    BY <2>1, <2>2 DEF TypeOK, QueueStatus, ItemStatus, JobStatus, Places
<1>2. ItemsOK
  BY DEF ItemsOK
<1>3. LinkOK /\ WorkOK /\ RecoveryOK
  BY DEF LinkOK, WorkOK, RecoveryOK, Serving
<1>4. RunsOK /\ SubmittedOK
  BY DEF RunsOK, SubmittedOK
<1>5. CountedOnce
  BY DEF CountedOnce
<1> QED
  BY <1>1, <1>2, <1>3, <1>4, <1>5 DEF IInv

\* The invariant is kept by every step.
THEOREM Invariant == Spec => []IInv
<1>1. Init => IInv
  BY InitInv
<1>2. IInv /\ [Next]_vars => IInv'
  <2> SUFFICES ASSUME IInv, [Next]_vars PROVE IInv'
    OBVIOUS
  <2>1. CASE Next
    BY <2>1, TypeStep, ItemsStep, LinkStep, WorkStep, RecoveryStep, RunsStep, SubmittedStep,
         CountedStep
       DEF IInv
  <2>2. CASE UNCHANGED vars
    <3>1. UNCHANGED <<status, current, gate, interval, session>> /\ UNCHANGED <<itemStatus,
    itemTask, orderIndex, lastRun, tasks>>
          /\ UNCHANGED <<jobStatus, statsCount, history>> /\ UNCHANGED <<pc, job, pick, failures,
          preError>>
          /\ UNCHANGED <<exec, submitted, cancelled>> /\ UNCHANGED <<pendingCancel, pendingReset,
          deleting, quickChecked>>
          /\ UNCHANGED <<faults, crashes>>
      BY <2>2 DEF vars, queueVars, itemVars, runVars, schedVars, execVars, reqVars, budgets
    <3> QED
      BY <3>1 DEF IInv, TypeOK, ItemsOK, LinkOK, WorkOK, RecoveryOK, RunsOK, SubmittedOK,
           CountedOnce,
         CurrentPresent, Present, Waiting, Heads, Serving
  <2> QED BY <2>1, <2>2
<1> QED
  BY <1>1, <1>2, PTL DEF Spec

\* Every variable of the queue keeps its type, whatever is interleaved.
THEOREM TypeCorrect == Spec => []TypeOK
<1>1. IInv => TypeOK
  BY DEF IInv
<1> QED
  BY <1>1, Invariant, PTL

\* At most one item runs: it is the current one, and it has a run.
THEOREM OneItemRuns == Spec => []SingleRunning
<1>1. IInv => SingleRunning
  BY CurrentRun, QueueAssumption DEF QueueAssumption, IInv, ItemsOK, SingleRunning
<1> QED
  BY <1>1, Invariant, PTL

\* No run is counted twice in the statistics of its task, over any number of
\* stops, failed ticks and restarts.
THEOREM RunsCountedOnce == Spec => []CountedOnce
<1>1. IInv => CountedOnce
  BY DEF IInv
<1> QED
  BY <1>1, Invariant, PTL

\* A run that is over keeps its status or is deleted.
THEOREM RunsStayOver == Spec => TerminalStable
<1>1. IInv /\ [Next]_vars =>
        [\A r \in Runs : jobStatus[r] \in Terminal => jobStatus'[r] \in {jobStatus[r],
        "deleted"}]_vars
  BY LifeStep DEF LifeGoesOn
<1> QED
  BY <1>1, Invariant, PTL DEF Spec, TerminalStable

\* The item that starts running is the head at that moment, though it was
\* chosen two commits earlier.
THEOREM HeadIsServed == Spec => HeadFirst
<1> DEFINE Served == \A i \in Items : itemStatus[i] = "waiting" /\ itemStatus'[i] = "running" => i \in Heads
<1>1. IInv /\ [Next]_vars => [Served]_vars
  <2> SUFFICES ASSUME IInv, Next, NEW i \in Items, itemStatus[i] = "waiting",
  itemStatus'[i] = "running"
               PROVE  i \in Heads
    OBVIOUS
  <2>1. CASE Link
    BY <2>1 DEF IInv, LinkOK, TypeOK, Link, Waiting
  <2>2. ASSUME NEW S, Drop(S) PROVE FALSE
    BY <2>2 DEF Drop
  <2>3. CASE Request
    BY <2>2, <2>3
       DEF Request, Start, Pause, DeleteCurrent, Stop, Reset, SetInterval, Enqueue, Reorder,
            RemoveItem,
           CancelRun, DeleteRun, CheckDeleteTask, DeleteTask, CheckQuick, itemVars, IInv, TypeOK
  <2>4. CASE Handler \/ GateOpens \/ Executor \/ Recovery \/ Failure
    BY <2>2, <2>4
       DEF Handler, ResetDiagnostics, DeliverCancel, CreateQuick, GateOpens, Executor,
            QuickBegins, QuickEnds,
           Recovery, RecoverQueue, RecoverJobs, Failure, TickFaults, PersistFaults, QuickFaults,
           Crash, itemVars
  <2>5. CASE Scheduler
    BY <2>1, <2>2, <2>5, CurrentRun
       DEF Scheduler, Dispatch, AttemptRecovery, TickSkips, TickWaits, DispatchNone, DispatchCreate,
           DispatchFails, LinkLost, Resume, RunBegins, RunMissing, RunEnds, FinishLost,
           FinishStopped,
           FinishDropped, PersistError, itemVars, IInv, TypeOK
  <2> QED
    BY <2>3, <2>4, <2>5 DEF Next
<1> QED
  BY <1>1, Invariant, PTL DEF Spec, HeadFirst

\* A restart keeps every waiting item, its order and its task.
THEOREM WaitingSurvivesRestart == Spec => RestartKeepsWaiting
<1> DEFINE Kept == ~Serving \/ ~Serving' =>
             \A i \in Waiting : itemStatus'[i] = "waiting" /\ orderIndex'[i] = orderIndex[i]
                                /\ itemTask'[i] = itemTask[i]
<1>1. IInv /\ [Next]_vars => [Kept]_vars
  <2> SUFFICES ASSUME IInv, Next, ~Serving \/ ~Serving', NEW i \in Waiting
               PROVE  itemStatus'[i] = "waiting" /\ orderIndex'[i] = orderIndex[i] /\ itemTask'[i] = itemTask[i]
    OBVIOUS
  <2>1. CASE UNCHANGED itemVars
    BY <2>1 DEF itemVars, Waiting
  <2>2. CASE Serving /\ Serving'
    BY <2>2
  <2>3. CASE RecoverQueue
    <3>1. CASE CurrentPresent
      <4>1. Drop({current}) /\ i # current /\ i \in Items
        BY <2>3, <3>1, CurrentRun DEF RecoverQueue, IInv, Waiting
      <4> QED
        BY <4>1 DEF Drop, Waiting
    <3>2. CASE ~CurrentPresent
      BY <2>1, <2>3, <3>2 DEF RecoverQueue
    <3> QED BY <3>1, <3>2
  <2>4. CASE RecoverJobs \/ Failure
    BY <2>1, <2>4 DEF RecoverJobs, Failure, TickFaults, PersistFaults, QuickFaults, Crash
  <2>5. CASE Request
    BY <2>1, <2>2, <2>5
       DEF Request, Start, Pause, DeleteCurrent, Stop, Reset, SetInterval, Enqueue, Reorder,
            RemoveItem,
           CancelRun, DeleteRun, CheckDeleteTask, DeleteTask, CheckQuick, LockFree, Serving,
           schedVars
  <2>6. CASE Handler \/ GateOpens \/ Executor
    BY <2>1, <2>6
       DEF Handler, ResetDiagnostics, DeliverCancel, CreateQuick, GateOpens, Executor,
            QuickBegins, QuickEnds
  <2>7. CASE Scheduler
    BY <2>2, <2>7
       DEF Scheduler, Dispatch, AttemptRecovery, TickSkips, TickWaits, DispatchNone, DispatchCreate,
           DispatchFails, Link, LinkLost, Resume, RunBegins, RunMissing, RunEnds, FinishLost,
           FinishStopped,
           FinishDropped, PersistError, Succeed, Fail, MayDispatch, AtTick, ReadsCurrent, Serving
  <2> QED
    BY <2>3, <2>4, <2>5, <2>6, <2>7 DEF Next, Recovery
<1> QED
  BY <1>1, Invariant, PTL DEF Spec, RestartKeepsWaiting

\* After a restart requests meet an idle queue and no unfinished run.
THEOREM RestartCleansUp == Spec => RecoveredClean
<1> DEFINE Clean == ~Serving /\ Serving' =>
             /\ status' = "idle" /\ current' = NULL
             /\ \A i \in Items : itemStatus'[i] # "running"
             /\ \A r \in Runs : jobStatus'[r] \notin {"queued", "running"}
<1>1. IInv /\ [Next]_vars => [Clean]_vars
  <2> SUFFICES ASSUME IInv, Next, ~Serving, Serving'
               PROVE  /\ status' = "idle" /\ current' = NULL
                      /\ \A i \in Items : itemStatus'[i] # "running"
                      /\ \A r \in Runs : jobStatus'[r] \notin {"queued", "running"}
    OBVIOUS
  <2>1. CASE RecoverJobs
    <3>1. status' = "idle" /\ current = NULL /\ current' = NULL /\ itemStatus' = itemStatus
      BY <2>1 DEF RecoverJobs, IInv, RecoveryOK, queueVars, itemVars
    <3>2. \A i \in Items : itemStatus'[i] # "running"
      BY <3>1, QueueAssumption DEF QueueAssumption, IInv, ItemsOK
    <3>3. \A r \in Runs : jobStatus'[r] \notin {"queued", "running"}
      BY <2>1 DEF RecoverJobs, Interrupted
    <3> QED
      BY <3>1, <3>2, <3>3
  <2>2. CASE ~RecoverJobs
    <3>1. CASE Request \/ Handler \/ GateOpens \/ Executor
      BY <3>1
         DEF Request, Start, Pause, DeleteCurrent, Stop, Reset, SetInterval, Enqueue, Reorder,
              RemoveItem,
             CancelRun, DeleteRun, CheckDeleteTask, DeleteTask, CheckQuick, LockFree, Serving,
             schedVars,
             Handler, ResetDiagnostics, DeliverCancel, CreateQuick, GateOpens, Executor,
             QuickBegins, QuickEnds
    <3>2. CASE Scheduler
      BY <3>2
         DEF Scheduler, Dispatch, AttemptRecovery, TickSkips, TickWaits, DispatchNone,
              DispatchCreate,
             DispatchFails, Link, LinkLost, Resume, RunBegins, RunMissing, RunEnds, FinishLost,
             FinishStopped,
             FinishDropped, PersistError, MayDispatch, AtTick, ReadsCurrent, Serving
    <3>3. CASE RecoverQueue \/ Failure
      BY <3>3 DEF RecoverQueue, Failure, TickFaults, PersistFaults, QuickFaults, Crash, Serving,
           schedVars
    <3> QED
      BY <2>2, <3>1, <3>2, <3>3 DEF Next, Recovery
  <2> QED BY <2>1, <2>2
<1> QED
  BY <1>1, Invariant, PTL DEF Spec, RecoveredClean
=============================================================================
