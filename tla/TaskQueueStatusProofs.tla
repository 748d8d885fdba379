----------------------- MODULE TaskQueueStatusProofs -----------------------
(***************************************************************************)
(* Proofs about the queue as a whole: who executes and who owns its runs,  *)
(* that they are accounted for, what its status says, and the order of its *)
(* items.  A property that leaves out an operation holds for every set Ops *)
(* without it, whatever else Ops allows.                                   *)
(***************************************************************************)
EXTENDS TaskQueueProofs

-----------------------------------------------------------------------------
(***************************************************************************)
(* One benchmark at a time.                                                *)
(***************************************************************************)
\* The scheduler executes a run under EXECUTION_LOCK; no other is running.
ExecOK == /\ pc = "running" => exec = job
          /\ OneAtATime

\* No step starts a run beside another, or leaves one running without the lock.
LEMMA ExecStep == IInv /\ ExecOK /\ Next => ExecOK'
<1> SUFFICES ASSUME IInv, ExecOK, Next PROVE ExecOK'
  OBVIOUS
<1> USE DEF ExecOK, OneAtATime, Serving
<1>1. /\ jobStatus \in [Runs -> JobStatus] /\ faults \in Nat /\ NULL \notin Runs
      /\ \A r \in Runs : r = exec => exec # NULL
  BY QueueAssumption DEF QueueAssumption, IInv, TypeOK
<1>2. CASE UNCHANGED <<exec, faults, jobStatus>> /\ (Serving' => Serving) /\ (pc' = "running" => UNCHANGED <<pc, job>>)
  BY <1>2
<1>3. ASSUME NEW q \in Runs, NEW s \in JobStatus \ {"running"}, jobStatus' = [jobStatus EXCEPT ![q] = s],
             UNCHANGED <<exec, faults>>, Serving' => Serving, pc' = "running" => UNCHANGED <<pc, job>>
      PROVE  ExecOK'
  BY <1>1, <1>3
<1>4. CASE faults' = faults + 1 /\ (pc' = "running" => exec' = job')
  BY <1>1, <1>4
<1>5. CASE RunBegins
  BY <1>1, <1>5 DEF RunBegins, BeginRun, IInv, WorkOK, budgets
<1>6. CASE RunEnds
  <2>1. exec = job /\ job \in Runs
    BY <1>6 DEF RunEnds, IInv, WorkOK
  <2> QED BY <1>1, <1>6, <2>1 DEF RunEnds, EndRun, Outcomes, budgets
<1>7. CASE QuickBegins
  <2>1. Head(submitted) \in Runs
    BY <1>7, HeadOpen DEF QuickBegins, IInv
  <2>2. pc # "running"
    <3>1. pc = "running" => job \in Runs /\ exec = NULL
      BY <1>7 DEF QuickBegins, BeginRun, IInv, WorkOK
    <3> QED BY <1>1, <3>1
  <2> QED BY <1>1, <1>7, <2>1, <2>2 DEF QuickBegins, BeginRun, schedVars, budgets
<1>8. CASE QuickEnds
  <2>1. exec \in Runs /\ exec # job
    BY <1>8, HeadOpen DEF QuickEnds, IInv
  <2> QED BY <1>1, <1>8, <2>1 DEF QuickEnds, EndRun, Outcomes, schedVars, budgets
<1>9. CASE Crash
  BY <1>9 DEF Crash
<1>10. CASE RecoverQueue
  BY <1>10 DEF RecoverQueue
<1>11. CASE RecoverJobs
  BY <1>1, <1>11 DEF RecoverJobs, Interrupted
<1>12. CASE TickFaults \/ PersistFaults
  BY <1>4, <1>12 DEF TickFaults, PersistFaults, MayFault, Fail
<1>13. CASE QuickFaults
  <2>1. exec = Head(submitted) => exec # job
    BY <1>13, HeadOpen DEF QuickFaults, IInv
  <2> QED BY <1>4, <1>13, <2>1 DEF QuickFaults, MayFault, schedVars
<1>14. CASE Request
  <2>1. ASSUME NEW q \in Runs, DeleteRun(q) PROVE ExecOK'
    BY <1>3, <2>1 DEF DeleteRun, JobStatus, execVars, schedVars, budgets
  <2> QED
    BY <1>2, <1>14, <2>1
       DEF Request, Start, Pause, DeleteCurrent, Stop, Reset, SetInterval, Enqueue, Reorder, RemoveItem,
           CancelRun, CheckDeleteTask, DeleteTask, CheckQuick, runVars, schedVars, execVars, budgets
<1>15. CASE Handler \/ GateOpens
  <2>1. ASSUME NEW q \in Runs, CreateQuick(q) PROVE ExecOK'
    BY <1>3, <2>1 DEF CreateQuick, JobStatus, schedVars, budgets
  <2> QED
    BY <1>2, <1>15, <2>1 DEF Handler, ResetDiagnostics, DeliverCancel, GateOpens, runVars, schedVars, execVars,
                             budgets
<1>16. CASE Scheduler
  <2>1. ASSUME NEW i \in Items, NEW q \in Runs, DispatchCreate(i, q) PROVE ExecOK'
    BY <1>3, <2>1 DEF DispatchCreate, MayDispatch, AtTick, JobStatus, execVars, budgets
  <2>2. ASSUME NEW i \in Items, NEW q \in Runs, DispatchFails(i, q) PROVE ExecOK'
    BY <1>3, <2>2 DEF DispatchFails, MayDispatch, AtTick, Succeed, JobStatus, Terminal, execVars, budgets
  <2> QED
    BY <1>2, <1>5, <1>6, <1>16, <2>1, <2>2
       DEF Scheduler, Dispatch, AttemptRecovery, TickSkips, TickWaits, DispatchNone, Link, LinkLost, Resume,
           RunMissing, FinishLost, FinishStopped, FinishDropped, PersistError, MayDispatch, AtTick,
           ReadsCurrent, Succeed, Fail, runVars, execVars, budgets
<1> QED
  BY <1>7, <1>8, <1>9, <1>10, <1>11, <1>12, <1>13, <1>14, <1>15, <1>16 DEF Next, Executor, Recovery, Failure

\* Every reachable state satisfies it.
LEMMA ExecInvariant == Spec => []ExecOK
<1>1. Init => ExecOK
  BY DEF Init, ExecOK, OneAtATime
<1>2. IInv /\ ExecOK /\ [Next]_vars => ExecOK'
  <2>1. CASE UNCHANGED vars
    BY <2>1 DEF ExecOK, OneAtATime, Serving, vars, runVars, schedVars, execVars, budgets
  <2> QED BY <2>1, ExecStep
<1> QED BY <1>1, <1>2, Invariant, PTL DEF Spec

\* Until a step fails the only run that is running is the one that holds
\* EXECUTION_LOCK, whether the scheduler or the executor works on it.
THEOREM OneBenchmarkAtATime == Spec => []OneAtATime
<1>1. ExecOK => OneAtATime
  BY DEF ExecOK
<1> QED BY <1>1, ExecInvariant, PTL
-----------------------------------------------------------------------------
(***************************************************************************)
(* The job and the item the scheduler holds.                               *)
(***************************************************************************)
\* Between two ticks the scheduler holds no job; after the link it holds that
\* of the current item.
JobOK == /\ pc \notin {"link", "linked", "run", "running", "finish"} => job = NULL
         /\ pc = "linked" /\ CurrentPresent => job = lastRun[current]

\* Without task deletions the scheduler keeps its item until it lets go of it.
HeldOK == /\ deleting = {}
          /\ current # NULL => CurrentPresent
          /\ pc = "link" => pick \in Waiting
          /\ pc \in {"linked", "run", "running", "finish"} => current # NULL

\* No step makes the scheduler forget its job or keep one that it has left.
LEMMA JobStep == IInv /\ JobOK /\ Next => JobOK'
<1> SUFFICES ASSUME IInv, JobOK, Next PROVE JobOK'
  OBVIOUS
<1> USE DEF JobOK, CurrentPresent, Present
<1>1. CASE UNCHANGED <<pc, job>> /\ pc # "linked"
  BY <1>1
<1>2. CASE pc' \in {"run", "running", "finish", "link"} \/ (pc' # "linked" /\ job' = NULL)
  BY <1>2
<1>3. CASE UNCHANGED <<pc, job, current, itemStatus, lastRun>>
  BY <1>3
<1>4. CASE Link
  BY <1>4 DEF Link, IInv, TypeOK, LinkOK
<1>5. ASSUME NEW t \in Tasks, DeleteTask(t) PROVE JobOK'
  <2>1. CASE pc = "linked" /\ current \in Items /\ itemStatus'[current] \in {"waiting", "running"}
    BY <1>5, <2>1 DEF DeleteTask, Drop, IInv, TypeOK, schedVars, queueVars
  <2>2. CASE ~(pc = "linked" /\ current \in Items /\ itemStatus'[current] \in {"waiting", "running"})
    BY <1>5, <2>2 DEF DeleteTask, schedVars, queueVars
  <2> QED BY <2>1, <2>2
<1>6. CASE AttemptRecovery \/ TickSkips \/ RecoverQueue \/ RecoverJobs \/ PersistError \/ PersistFaults
  BY <1>1, <1>2, <1>6 DEF AttemptRecovery, TickSkips, AtTick, RecoverQueue, RecoverJobs, PersistError, PersistFaults
<1>7. CASE Request
  <2>1. CASE LockFree /\ UNCHANGED schedVars
    BY <1>1, <2>1 DEF LockFree, schedVars
  <2> QED
    BY <1>3, <1>5, <1>7, <2>1
       DEF Request, Start, Pause, DeleteCurrent, Stop, Reset, SetInterval, Enqueue, Reorder, RemoveItem,
           CancelRun, DeleteRun, CheckDeleteTask, CheckQuick, queueVars, itemVars, schedVars
<1>8. CASE Handler \/ GateOpens \/ Executor
  BY <1>3, <1>8 DEF Handler, ResetDiagnostics, DeliverCancel, CreateQuick, GateOpens, Executor, QuickBegins,
                    QuickEnds, queueVars, itemVars, schedVars
<1>9. CASE Scheduler
  BY <1>2, <1>4, <1>6, <1>9
     DEF Scheduler, Dispatch, TickWaits, DispatchNone, DispatchCreate, DispatchFails, LinkLost, Resume,
         RunBegins, RunMissing, RunEnds, FinishLost, FinishStopped, FinishDropped, Succeed, Fail
<1>10. CASE TickFaults \/ QuickFaults \/ Crash
  BY <1>2, <1>3, <1>10 DEF TickFaults, QuickFaults, Crash, Fail, queueVars, itemVars, schedVars
<1> QED
  BY <1>6, <1>7, <1>8, <1>9, <1>10 DEF Next, Recovery, Failure

\* Only the deletion of its task takes an item from under the scheduler.
LEMMA HeldStep == ASSUME "deleteTask" \notin Ops PROVE IInv /\ HeldOK /\ Next => HeldOK'
<1> SUFFICES ASSUME IInv, HeldOK, Next PROVE HeldOK'
  OBVIOUS
<1> USE DEF HeldOK, CurrentPresent, Present, Waiting
<1>1. CASE UNCHANGED <<deleting, current, itemStatus>> /\ (pc' = pc /\ pick' = pick)
  BY <1>1
<1>2. CASE UNCHANGED <<deleting, current, itemStatus>> /\ pc' \notin {"link", "linked", "run", "running", "finish"}
  BY <1>2
<1>3. CASE UNCHANGED <<deleting, current, itemStatus>> /\ current # NULL /\ pc' # "link"
  BY <1>3
<1>4. CASE deleting' \in {deleting, {}} /\ current' = NULL /\ pc' \in {"loop", "recoverJobs"}
  BY <1>4
<1>5. ASSUME NEW i \in Items, NEW t \in Tasks, NEW p \in Positions, Enqueue(i, t, p) PROVE HeldOK'
  BY <1>5 DEF Enqueue, LockFree, IInv, TypeOK, queueVars, schedVars, reqVars
<1>6. ASSUME NEW i \in Items, RemoveItem(i) PROVE HeldOK'
  BY <1>6 DEF RemoveItem, Drop, LockFree, IInv, TypeOK, queueVars, schedVars, reqVars
<1>7. ASSUME NEW i \in Items, NEW r \in Runs, DispatchCreate(i, r) PROVE HeldOK'
  BY <1>7 DEF DispatchCreate, MayDispatch, Heads, queueVars, itemVars, reqVars
<1>8. ASSUME NEW i \in Items, NEW r \in Runs, DispatchFails(i, r) PROVE HeldOK'
  BY <1>8 DEF DispatchFails, MayDispatch, Succeed, reqVars
<1>9. CASE Link
  BY <1>9, QueueAssumption DEF QueueAssumption, Link, IInv, TypeOK, LinkOK, reqVars
<1>10. CASE FinishLost \/ FinishStopped \/ FinishDropped
  BY <1>4, <1>10 DEF FinishLost, FinishStopped, FinishDropped, Succeed, reqVars
<1>11. CASE RecoverQueue
  BY <1>4, <1>11 DEF RecoverQueue, reqVars
<1>12. CASE Crash
  BY <1>12 DEF Crash, queueVars, itemVars
<1>13. CASE Request
  BY <1>1, <1>5, <1>6, <1>13
     DEF Request, Start, Pause, DeleteCurrent, Stop, Reset, SetInterval, Reorder, CancelRun, DeleteRun,
         CheckDeleteTask, DeleteTask, CheckQuick, queueVars, itemVars, schedVars, reqVars
<1>14. CASE Handler \/ GateOpens \/ Executor \/ QuickFaults
  BY <1>1, <1>14 DEF Handler, ResetDiagnostics, DeliverCancel, CreateQuick, GateOpens, Executor, QuickBegins,
                     QuickEnds, QuickFaults, queueVars, itemVars, schedVars, reqVars
<1>15. CASE RunBegins \/ RunMissing \/ RunEnds \/ Resume
  BY <1>3, <1>15 DEF RunBegins, RunMissing, RunEnds, Resume, queueVars, itemVars, reqVars
<1>16. CASE Scheduler
  BY <1>2, <1>7, <1>8, <1>9, <1>10, <1>15, <1>16
     DEF Scheduler, Dispatch, AttemptRecovery, TickSkips, TickWaits, DispatchNone, LinkLost, PersistError,
         Succeed, Fail, queueVars, itemVars, reqVars
<1>17. CASE RecoverJobs \/ TickFaults \/ PersistFaults
  BY <1>2, <1>17 DEF RecoverJobs, TickFaults, PersistFaults, Fail, queueVars, itemVars, reqVars
<1> QED
  BY <1>11, <1>12, <1>13, <1>14, <1>16, <1>17 DEF Next, Recovery, Failure

-----------------------------------------------------------------------------
(***************************************************************************)
(* Open runs have an owner.                                                *)
(***************************************************************************)
Open(r)  == jobStatus[r] \in {"queued", "running"}
Owned(r) == r = job \/ r \in Listed(submitted) \/ \E i \in Items : lastRun[i] = r

\* A queue without its head still lists everything but the head.
LEMMA ListedTail == ASSUME NEW S, NEW s \in Seq(S), s # <<>>, NEW x \in Listed(s)
                    PROVE  x = Head(s) \/ x \in Listed(Tail(s))
<1>1. PICK k \in 1..Len(s) : s[k] = x
  BY DEF Listed
<1>2. Len(Tail(s)) = Len(s) - 1 /\ \A l \in 1..(Len(s) - 1) : Tail(s)[l] = s[l + 1]
  OBVIOUS
<1>3. CASE k = 1
  BY <1>1, <1>3
<1>4. CASE k > 1
  <2>1. k - 1 \in 1..(Len(s) - 1) /\ Tail(s)[k - 1] = x
    BY <1>1, <1>2, <1>4
  <2>2. k - 1 \in DOMAIN Tail(s)
    BY <1>2, <2>1
  <2> QED BY <2>1, <2>2 DEF Listed
<1> QED BY <1>3, <1>4

\* A queue with one more at its end lists all it listed and the newcomer.
LEMMA ListedAppend == ASSUME NEW S, NEW s \in Seq(S), NEW y \in S
                      PROVE  Listed(s) \subseteq Listed(Append(s, y)) /\ y \in Listed(Append(s, y))
<1>1. Len(Append(s, y)) = Len(s) + 1 /\ Append(s, y)[Len(s) + 1] = y
      /\ \A k \in 1..Len(s) : Append(s, y)[k] = s[k]
  OBVIOUS
<1> QED BY <1>1 DEF Listed

\* An item that is not the current one has no run.
LEMMA OthersHaveNoRun == ASSUME IInv, NEW i \in Items, i # current \/ current = NULL
                         PROVE  lastRun[i] = NULL
  BY QueueAssumption DEF QueueAssumption, IInv, TypeOK, ItemsOK

\* Without task deletions nothing loses the only link to an open run.
LEMMA OwnedStep ==
  ASSUME "deleteTask" \notin Ops, IInv, JobOK, HeldOK, OpenRunIsOwned, Next
  PROVE  OpenRunIsOwned'
<1> USE DEF OpenRunIsOwned, Serving
<1>1. /\ jobStatus \in [Runs -> JobStatus] /\ faults \in Nat /\ submitted \in Seq(Runs)
      /\ lastRun \in [Items -> Runs \cup {NULL}] /\ NULL \notin Runs
  BY QueueAssumption DEF QueueAssumption, IInv, TypeOK
<1>2. ASSUME faults' = faults, Serving' => Serving,
             \A r \in Runs : Open(r)' => Owned(r)' \/ (Open(r) /\ (Owned(r) => Owned(r)'))
      PROVE  OpenRunIsOwned'
  <2> SUFFICES ASSUME Serving', faults' = 0, NEW r \in Runs, Open(r)' PROVE Owned(r)'
    BY DEF Open, Owned
  <2>1. Open(r) => Owned(r)
    BY <1>2 DEF Open, Owned
  <2> QED BY <1>2, <2>1
<1>3. CASE UNCHANGED <<jobStatus, faults, job, submitted, lastRun>> /\ (Serving' => Serving)
  BY <1>3
<1>4. CASE faults' = faults + 1
  BY <1>1, <1>4
<1>5. CASE UNCHANGED <<jobStatus, faults, submitted, lastRun>> /\ job = NULL /\ (Serving' => Serving)
  BY <1>1, <1>5
<1>6. ASSUME NEW i \in Items, Drop({i}), lastRun[i] = NULL PROVE lastRun' = lastRun
  BY <1>1, <1>6 DEF Drop
<1>7. ASSUME NEW i \in Items, RemoveItem(i) PROVE OpenRunIsOwned'
  <2>1. lastRun' = lastRun
    BY <1>6, <1>7, OthersHaveNoRun DEF RemoveItem
  <2> QED BY <1>3, <1>7, <2>1 DEF RemoveItem, runVars, schedVars, execVars, budgets
<1>8. ASSUME NEW r \in Runs, DeleteRun(r) PROVE OpenRunIsOwned'
  BY <1>1, <1>2, <1>8 DEF DeleteRun, Open, Owned, itemVars, schedVars, execVars, budgets
<1>9. ASSUME NEW r \in Runs, CreateQuick(r) PROVE OpenRunIsOwned'
  <2>1. Listed(submitted) \subseteq Listed(submitted') /\ r \in Listed(submitted')
    BY <1>1, <1>9, ListedAppend DEF CreateQuick
  <2> QED BY <1>1, <1>2, <1>9, <2>1 DEF CreateQuick, Open, Owned, itemVars, schedVars, budgets
<1>10. ASSUME NEW i \in Items, NEW r \in Runs, DispatchCreate(i, r) PROVE OpenRunIsOwned'
  <2>1. job = NULL
    BY <1>10 DEF DispatchCreate, MayDispatch, AtTick, JobOK
  <2> QED BY <1>1, <1>2, <1>10, <2>1 DEF DispatchCreate, MayDispatch, AtTick, Open, Owned, itemVars, execVars, budgets
<1>11. ASSUME NEW i \in Items, NEW r \in Runs, DispatchFails(i, r) PROVE OpenRunIsOwned'
  <2>1. job = NULL /\ Serving
    BY <1>11 DEF DispatchFails, MayDispatch, AtTick, JobOK
  <2>2. lastRun' = lastRun
    BY <1>6, <1>11, OthersHaveNoRun DEF DispatchFails, MayDispatch
  <2> QED BY <1>1, <1>2, <1>11, <2>1, <2>2 DEF DispatchFails, Open, Owned, execVars, budgets
<1>12. CASE Link
  <2>1. pick \in Items /\ lastRun[pick] = NULL
    BY <1>12, OthersHaveNoRun DEF Link, IInv, LinkOK
  <2>2. \A r \in Runs : Owned(r) => Owned(r)'
    BY <1>1, <1>12, <2>1 DEF Link, Owned, execVars
  <2> QED BY <1>2, <1>12, <2>2 DEF Link, Open, runVars, budgets
<1>13. CASE Resume
  <2>1. job = NULL \/ job = lastRun[current]
    BY <1>13 DEF Resume, ReadsCurrent, AtTick, JobOK
  <2>2. current \in Items
    BY <1>13, CurrentRun DEF Resume, IInv
  <2>3. \A r \in Runs : Owned(r) => Owned(r)'
    BY <1>1, <1>13, <2>1, <2>2 DEF Resume, Owned, itemVars, execVars
  <2> QED BY <1>2, <1>13, <2>3 DEF Resume, ReadsCurrent, AtTick, Open, runVars, budgets
<1>14. CASE RunBegins \/ RunEnds
  <2>1. job \in Runs
    BY <1>14 DEF RunBegins, RunEnds, IInv, WorkOK
  <2>2. \A r \in Runs : (Owned(r) => Owned(r)') /\ (Open(r)' => Open(r) \/ r = job)
    BY <1>1, <1>14, <2>1 DEF RunBegins, BeginRun, RunEnds, EndRun, Owned, Open, itemVars
  <2> QED BY <1>2, <1>14, <2>2 DEF RunBegins, RunEnds, Owned, budgets
<1>15. CASE QuickBegins
  <2>1. Head(submitted) \in Runs /\ Open(Head(submitted))
    BY <1>15, HeadOpen DEF QuickBegins, IInv, Open
  <2>2. \A r \in Runs : (Owned(r) => Owned(r)') /\ (Open(r)' => Open(r))
    BY <1>1, <1>15, <2>1 DEF QuickBegins, BeginRun, Owned, Open, itemVars, schedVars
  <2> QED BY <1>2, <1>15, <2>2 DEF QuickBegins, budgets
<1>16. CASE QuickEnds
  <2>1. Head(submitted) \in Runs /\ exec = Head(submitted) /\ submitted' = Tail(submitted) /\ submitted # <<>>
    BY <1>16, HeadOpen DEF QuickEnds, IInv
  <2>2. PICK s \in Terminal : jobStatus' = [jobStatus EXCEPT ![Head(submitted)] = s]
    BY <1>16, <2>1 DEF QuickEnds, EndRun, Outcomes, Terminal
  <2>3. \A r \in Runs : Open(r)' => Open(r) /\ r # Head(submitted)
    BY <1>1, <2>1, <2>2 DEF Open, Terminal
  <2>4. \A r \in Runs \ {Head(submitted)} : r \in Listed(submitted) => r \in Listed(submitted')
    BY <1>1, <2>1, ListedTail
  <2>5. UNCHANGED <<faults, job, lastRun, pc>>
    BY <1>16 DEF QuickEnds, itemVars, schedVars, budgets
  <2>6. \A r \in Runs \ {Head(submitted)} : Owned(r) => Owned(r)'
    BY <2>4, <2>5 DEF Owned
  <2> QED BY <1>2, <2>3, <2>5, <2>6
<1>17. CASE FinishStopped \/ FinishDropped
  <2>1. current \in Items /\ job = lastRun[current] /\ job \in Runs /\ ~Open(job)
    BY <1>17, CurrentRun DEF FinishStopped, FinishDropped, IInv, WorkOK, Open, Terminal
  <2>2. \A i \in Items \ {current} : lastRun'[i] = lastRun[i]
    BY <1>1, <1>17 DEF FinishStopped, FinishDropped, Drop
  <2>3. \A r \in Runs : Open(r)' => Open(r) /\ r # job
    BY <1>17, <2>1 DEF FinishStopped, FinishDropped, Open
  <2>4. \A r \in Runs \ {job} : Owned(r) => Owned(r)'
    BY <1>17, <2>1, <2>2 DEF FinishStopped, FinishDropped, Owned, execVars
  <2> QED BY <1>2, <1>17, <2>3, <2>4 DEF FinishStopped, FinishDropped, budgets
<1>18. CASE TickWaits \/ DispatchNone \/ LinkLost \/ FinishLost
  <2>1. job = NULL /\ Serving
    BY <1>18 DEF TickWaits, DispatchNone, MayDispatch, LinkLost, FinishLost, ReadsCurrent, AtTick, JobOK, HeldOK
  <2> QED
    BY <1>5, <1>18, <2>1 DEF TickWaits, DispatchNone, LinkLost, FinishLost, itemVars, runVars, execVars, budgets
<1>19. CASE RecoverJobs
  BY <1>1, <1>19 DEF RecoverJobs, Interrupted
<1>20. CASE RecoverQueue \/ Crash
  BY <1>20 DEF RecoverQueue, Crash
<1>21. CASE TickFaults \/ PersistFaults \/ QuickFaults
  BY <1>4, <1>21 DEF TickFaults, PersistFaults, QuickFaults, MayFault
<1>22. CASE Request
  <2>1. \A t \in Tasks : ~DeleteTask(t)
    BY DEF DeleteTask, HeldOK
  <2> QED
    BY <1>3, <1>7, <1>8, <1>22, <2>1
       DEF Request, Start, Pause, DeleteCurrent, Stop, Reset, SetInterval, Enqueue, Reorder, CancelRun,
           CheckDeleteTask, CheckQuick, itemVars, runVars, schedVars, execVars, budgets
<1>23. CASE Handler \/ GateOpens
  BY <1>3, <1>9, <1>23 DEF Handler, ResetDiagnostics, DeliverCancel, GateOpens, itemVars, runVars, schedVars,
                           execVars, budgets
<1>24. CASE Scheduler
  BY <1>3, <1>10, <1>11, <1>12, <1>13, <1>14, <1>17, <1>18, <1>24
     DEF Scheduler, Dispatch, AttemptRecovery, TickSkips, RunMissing, PersistError, AtTick, itemVars, runVars,
         execVars, budgets
<1> QED
  BY <1>15, <1>16, <1>19, <1>20, <1>21, <1>22, <1>23, <1>24 DEF Next, Executor, Recovery, Failure

\* The scheduler never forgets its job.
LEMMA JobInvariant == Spec => []JobOK
<1>1. Init => JobOK
  BY DEF Init, JobOK
<1>2. IInv /\ JobOK /\ [Next]_vars => JobOK'
  <2>1. CASE UNCHANGED vars
    BY <2>1 DEF JobOK, CurrentPresent, Present, vars, queueVars, itemVars, schedVars
  <2> QED BY <2>1, JobStep
<1> QED BY <1>1, <1>2, Invariant, PTL DEF Spec

\* Without task deletions it never loses its item.
LEMMA HeldInvariant == ASSUME "deleteTask" \notin Ops PROVE Spec => []HeldOK
<1>1. Init => HeldOK
  BY DEF Init, HeldOK
<1>2. IInv /\ HeldOK /\ [Next]_vars => HeldOK'
  <2>1. CASE UNCHANGED vars
    BY <2>1 DEF HeldOK, CurrentPresent, Present, Waiting, vars, queueVars, itemVars, schedVars, reqVars
  <2> QED BY <2>1, HeldStep
<1> QED BY <1>1, <1>2, Invariant, PTL DEF Spec

\* Without task deletions, and until a step fails, every run that is queued or
\* running belongs to the scheduler, to the executor or to an item, even right
\* after a restart: the recovery leaves none behind.
THEOREM OpenRunsAreOwned == ASSUME "deleteTask" \notin Ops PROVE Spec => []OpenRunIsOwned
<1>1. Init => OpenRunIsOwned
  BY DEF Init, OpenRunIsOwned
<1>2. IInv /\ JobOK /\ HeldOK /\ OpenRunIsOwned /\ [Next]_vars => OpenRunIsOwned'
  <2>1. CASE UNCHANGED vars
    BY <2>1 DEF OpenRunIsOwned, Serving, Listed, vars, itemVars, runVars, schedVars, execVars, budgets
  <2> QED BY <2>1, OwnedStep
<1> QED BY <1>1, <1>2, Invariant, JobInvariant, HeldInvariant, PTL DEF Spec

-----------------------------------------------------------------------------
(***************************************************************************)
(* The status of the queue.                                                *)
(***************************************************************************)
\* Without failures and task deletions no failure is counted and no tick is
\* skipped; a run is linked only to a running queue (the lock is kept).
CalmOK == /\ failures = 0 /\ status # "error" /\ pc \notin {"tick", "persist", "dead"}
          /\ pc = "link" => status = "running"
          /\ status = "idle" => current = NULL
          /\ status = "stopping" => current # NULL

\* Without failures and task deletions the status follows the current item.
LEMMA CalmStep ==
  ASSUME Ops \cap {"fault", "deleteTask"} = {}, IInv, HeldOK, CalmOK, Next
  PROVE  CalmOK'
<1> USE DEF CalmOK
<1>1. CASE UNCHANGED <<status, current, failures, pc>>
  BY <1>1
<1>2. CASE UNCHANGED <<status, current, failures>> /\ pc' \in {"loop", "linked", "run", "running", "finish", "recoverQueue"}
  BY <1>2
<1>3. CASE UNCHANGED <<status, current>> /\ failures' = 0 /\ pc' \in {pc, "loop", "recoverQueue"}
  BY <1>3
<1>4. CASE Start \/ Pause \/ Stop
  BY <1>4 DEF Start, Pause, Stop, LockFree, schedVars
<1>5. CASE DeleteCurrent
  BY <1>5 DEF DeleteCurrent, LockFree, CurrentPresent, schedVars
<1>6. CASE Reset
  BY <1>6 DEF Reset
<1>7. CASE Link
  BY <1>7, QueueAssumption DEF Link, IInv, LinkOK, QueueAssumption
<1>8. CASE LinkLost
  BY <1>8 DEF LinkLost, HeldOK
<1>9. ASSUME NEW i \in Items, NEW r \in Runs, DispatchCreate(i, r) PROVE CalmOK'
  BY <1>9 DEF DispatchCreate, MayDispatch, queueVars
<1>10. ASSUME NEW i \in Items, NEW r \in Runs, DispatchFails(i, r) PROVE CalmOK'
  BY <1>3, <1>10 DEF DispatchFails, Succeed
<1>11. CASE DispatchNone
  BY <1>11 DEF DispatchNone, MayDispatch, Succeed
<1>12. CASE TickWaits \/ TickSkips \/ AttemptRecovery \/ PersistError
  BY <1>2, <1>3, <1>12, QueueAssumption
     DEF TickWaits, TickSkips, AttemptRecovery, PersistError, Succeed, queueVars, QueueAssumption
<1>13. CASE Resume \/ RunBegins \/ RunMissing \/ RunEnds
  BY <1>2, <1>13 DEF Resume, RunBegins, RunMissing, RunEnds, queueVars
<1>14. CASE FinishLost
  BY <1>14 DEF FinishLost, HeldOK
<1>15. CASE FinishStopped
  BY <1>15 DEF FinishStopped, Succeed
<1>16. CASE FinishDropped
  BY <1>16 DEF FinishDropped, Succeed, StatusAfterDrop
<1>17. CASE Recovery
  BY <1>2, <1>17 DEF Recovery, RecoverQueue, RecoverJobs, queueVars
<1>18. CASE Failure
  BY <1>3, <1>18 DEF Failure, TickFaults, PersistFaults, QuickFaults, Crash, queueVars
<1>19. CASE Request
  BY <1>1, <1>4, <1>5, <1>6, <1>19
     DEF Request, SetInterval, Enqueue, Reorder, RemoveItem, CancelRun, DeleteRun, CheckDeleteTask,
         DeleteTask, CheckQuick, queueVars, schedVars
<1>20. CASE Handler \/ GateOpens \/ Executor
  BY <1>1, <1>3, <1>20 DEF Handler, ResetDiagnostics, DeliverCancel, CreateQuick, GateOpens, Executor,
                           QuickBegins, QuickEnds, queueVars, schedVars
<1> QED
  BY <1>7, <1>8, <1>9, <1>10, <1>11, <1>12, <1>13, <1>14, <1>15, <1>16, <1>17, <1>18, <1>19, <1>20
     DEF Next, Scheduler, Dispatch

\* Without failures and task deletions, restarts included: an idle queue has no
\* current item, and one that is stopping has the item whose end it waits for,
\* so the status stopping is left when that run ends.
THEOREM StatusFollowsCurrent ==
  ASSUME Ops \cap {"fault", "deleteTask"} = {} PROVE Spec => []StatusMatchesCurrent
<1>1. "deleteTask" \notin Ops
  OBVIOUS
<1>2. Init => CalmOK
  BY DEF Init, CalmOK
<1>3. IInv /\ HeldOK /\ CalmOK /\ [Next]_vars => CalmOK'
  <2>1. CASE UNCHANGED vars
    BY <2>1 DEF CalmOK, vars, queueVars, schedVars
  <2> QED BY <2>1, CalmStep
<1>4. HeldOK /\ CalmOK => StatusMatchesCurrent
  BY DEF HeldOK, CalmOK, StatusMatchesCurrent
<1>5. Spec => []HeldOK
  BY <1>1, HeldInvariant
<1> QED BY <1>2, <1>3, <1>4, <1>5, Invariant, PTL DEF Spec

-----------------------------------------------------------------------------
(***************************************************************************)
(* Failures are counted while the queue is in error.                       *)
(***************************************************************************)
\* Without resets the error state is stored by the failure that reaches the
\* threshold, and nothing but a recovery or a restart leaves it.
ErrorOK == /\ ~pendingReset
           /\ preError # NULL => preError # "error"
           /\ pc = "persist" => failures = Threshold
           /\ pc \in {"tick", "link", "linked", "run", "running", "finish"} => status # "error"
           /\ ErrorIsCounted

\* A failed tick is stored once the threshold is reached, and only then.
LEMMA FailCounts == ASSUME TypeOK, Fail
                    PROVE  /\ pc' = "persist" => failures' = Threshold
                           /\ pc' \in {"persist", "loop"}
                           /\ failures = Threshold => failures' = Threshold
  BY QueueAssumption DEF QueueAssumption, TypeOK, Fail

\* No step forgets the failures of a queue in error.
LEMMA ErrorStep == ASSUME "reset" \notin Ops, IInv, ErrorOK, Next PROVE ErrorOK'
<1> USE DEF ErrorOK, ErrorIsCounted
<1>1. CASE UNCHANGED <<status, failures, preError, pendingReset, pc>>
  BY <1>1
<1>2. ASSUME status' # "error", pc' # "persist", preError' \in {preError, NULL}, ~pendingReset'
      PROVE  ErrorOK'
  BY <1>2
<1>3. ASSUME status # "error", status' = status, pc' # "persist", preError' \in {preError, NULL}, ~pendingReset'
      PROVE  ErrorOK'
  BY <1>3
<1>4. ASSUME Fail, UNCHANGED <<status, pendingReset>>, pc # "recoverQueue" PROVE ErrorOK'
  BY <1>4, FailCounts DEF Fail, IInv
<1>5. CASE Start \/ Pause \/ DeleteCurrent \/ Stop
  <2>1. status' # "error" /\ UNCHANGED <<failures, preError, pendingReset, pc>>
    BY <1>5 DEF Start, Pause, DeleteCurrent, Stop, schedVars, reqVars
  <2> QED BY <2>1
<1>6. CASE AttemptRecovery
  BY <1>2, <1>6 DEF AttemptRecovery, reqVars
<1>7. CASE TickSkips
  BY <1>3, <1>7 DEF TickSkips, AtTick, queueVars, reqVars, IInv, TypeOK
<1>8. CASE DispatchNone \/ TickWaits
  BY <1>2, <1>3, <1>8 DEF DispatchNone, TickWaits, MayDispatch, ReadsCurrent, Succeed, queueVars, reqVars
<1>9. ASSUME NEW i \in Items, NEW r \in Runs, DispatchCreate(i, r) \/ DispatchFails(i, r) PROVE ErrorOK'
  BY <1>3, <1>9 DEF DispatchCreate, DispatchFails, MayDispatch, Succeed, queueVars, reqVars
<1>10. CASE Link \/ RunBegins \/ RunMissing \/ RunEnds
  BY <1>3, <1>10 DEF Link, RunBegins, RunMissing, RunEnds, queueVars, reqVars
<1>11. CASE Resume
  BY <1>3, <1>11 DEF Resume, ReadsCurrent, queueVars, reqVars
<1>12. CASE FinishLost \/ FinishStopped
  BY <1>2, <1>3, <1>12 DEF FinishLost, FinishStopped, Succeed, reqVars
<1>13. CASE FinishDropped
  BY <1>2, <1>13 DEF FinishDropped, StatusAfterDrop, Succeed, reqVars
<1>14. CASE LinkLost
  BY <1>4, <1>14 DEF LinkLost, queueVars, reqVars
<1>15. CASE PersistError
  BY <1>15 DEF PersistError, reqVars
<1>16. CASE TickFaults
  BY <1>4, <1>16 DEF TickFaults, queueVars, reqVars
<1>17. CASE PersistFaults
  BY <1>17 DEF PersistFaults, queueVars, reqVars
<1>18. CASE QuickFaults
  BY <1>1, <1>18 DEF QuickFaults, queueVars, schedVars, reqVars
<1>19. CASE Crash
  BY <1>19 DEF Crash
<1>20. CASE Recovery
  BY <1>20 DEF Recovery, RecoverQueue, RecoverJobs, IInv, RecoveryOK, queueVars, reqVars
<1>21. CASE Request
  BY <1>1, <1>5, <1>21
     DEF Request, Reset, SetInterval, Enqueue, Reorder, RemoveItem, CancelRun, DeleteRun, CheckDeleteTask,
         DeleteTask, CheckQuick, queueVars, schedVars, reqVars
<1>22. CASE Handler \/ GateOpens \/ Executor
  BY <1>1, <1>22 DEF Handler, ResetDiagnostics, DeliverCancel, CreateQuick, GateOpens, Executor,
                     QuickBegins, QuickEnds, queueVars, schedVars, reqVars
<1> QED
  BY <1>6, <1>7, <1>8, <1>9, <1>10, <1>11, <1>12, <1>13, <1>14, <1>15, <1>16, <1>17, <1>18, <1>19, <1>20,
     <1>21, <1>22 DEF Next, Scheduler, Dispatch, Failure

\* Without resets a queue in error has its failures counted, over any number of
\* recoveries, starts and restarts: the loop never waits in error for ever with
\* its accounting cleared.
THEOREM ErrorsStayCounted == ASSUME "reset" \notin Ops PROVE Spec => []ErrorIsCounted
<1>1. Init => ErrorOK
  BY DEF Init, ErrorOK, ErrorIsCounted
<1>2. IInv /\ ErrorOK /\ [Next]_vars => ErrorOK'
  <2>1. CASE UNCHANGED vars
    BY <2>1 DEF ErrorOK, ErrorIsCounted, vars, queueVars, schedVars, reqVars
  <2> QED BY <2>1, ErrorStep
<1>3. ErrorOK => ErrorIsCounted
  BY DEF ErrorOK
<1> QED BY <1>1, <1>2, <1>3, Invariant, PTL DEF Spec

-----------------------------------------------------------------------------
(***************************************************************************)
(* Every run is accounted for.                                             *)
(***************************************************************************)
\* A run that is over: still linked to its item, or counted with its history.
Over(r)      == jobStatus[r] \in Terminal \cup {"deleted"}
Accounted(r) == \/ \E i \in Items : lastRun[i] = r
                \/ statsCount[r] = 1 /\ history \cap {<<"finished", r>>, <<"canceled", r>>} # {}

\* Without restarts and quick runs the scheduler alone executes runs.
SoloOK == Serving /\ submitted = <<>> /\ ~quickChecked

\* Nothing but a quick request or a restart brings the executor into play.
LEMMA SoloStep == ASSUME Ops \cap {"crash", "quick"} = {}, SoloOK, Next PROVE SoloOK'
<1> USE DEF SoloOK, Serving
<1>1. CASE UNCHANGED <<submitted, quickChecked>> /\ pc' \notin {"recoverQueue", "recoverJobs"}
  BY <1>1
<1>2. CASE Request
  BY <1>1, <1>2
     DEF Request, Start, Pause, DeleteCurrent, Stop, Reset, SetInterval, Enqueue, Reorder, RemoveItem,
         CancelRun, DeleteRun, CheckDeleteTask, DeleteTask, CheckQuick, schedVars, execVars, reqVars
<1>3. CASE Handler \/ GateOpens \/ Executor
  BY <1>1, <1>3 DEF Handler, ResetDiagnostics, DeliverCancel, CreateQuick, GateOpens, Executor,
                    QuickBegins, QuickEnds, schedVars, execVars, reqVars
<1>4. CASE Scheduler
  BY <1>1, <1>4
     DEF Scheduler, Dispatch, AttemptRecovery, TickSkips, TickWaits, DispatchNone, DispatchCreate,
         DispatchFails, Link, LinkLost, Resume, RunBegins, RunMissing, RunEnds, FinishLost, FinishStopped,
         FinishDropped, PersistError, Succeed, Fail, execVars, reqVars
<1>5. CASE Recovery \/ Failure
  BY <1>1, <1>5 DEF Recovery, RecoverQueue, RecoverJobs, Failure, TickFaults, PersistFaults, QuickFaults,
                    Crash, Fail, execVars, reqVars
<1> QED BY <1>2, <1>3, <1>4, <1>5 DEF Next

\* The end of a run is counted and recorded in the commit that unlinks it.
LEMMA AccountedStep ==
  ASSUME Ops \cap {"crash", "deleteTask", "quick"} = {}, IInv, HeldOK, SoloOK, EveryRunAccounted, Next
  PROVE  EveryRunAccounted'
<1>1. /\ jobStatus \in [Runs -> JobStatus] /\ statsCount \in [Runs -> Nat] /\ NULL \notin Runs
      /\ lastRun \in [Items -> Runs \cup {NULL}]
  BY QueueAssumption DEF QueueAssumption, IInv, TypeOK
<1>2. SUFFICES ASSUME NEW r \in Runs, Over(r)' PROVE Accounted(r)'
  BY DEF EveryRunAccounted, Over, Accounted
<1>3. Over(r) => Accounted(r)
  BY DEF EveryRunAccounted, Over, Accounted
<1>4. ASSUME Over(r), UNCHANGED <<lastRun, statsCount, history>> PROVE Accounted(r)'
  BY <1>3, <1>4 DEF Accounted
<1>5. CASE UNCHANGED <<jobStatus, lastRun, statsCount>> /\ history \subseteq history'
  BY <1>2, <1>3, <1>5 DEF Over, Accounted
<1>6. ASSUME NEW i \in Items, Drop({i}), lastRun[i] = NULL PROVE lastRun' = lastRun
  BY <1>1, <1>6 DEF Drop
<1>7. ASSUME NEW i \in Items, RemoveItem(i) PROVE Accounted(r)'
  BY <1>5, <1>6, <1>7, OthersHaveNoRun DEF RemoveItem, runVars
<1>8. ASSUME NEW q \in Runs, DeleteRun(q) PROVE Accounted(r)'
  <2>1. Over(r)
    BY <1>1, <1>2, <1>8 DEF DeleteRun, Deletable, Over
  <2> QED BY <1>4, <1>8, <2>1 DEF DeleteRun, itemVars
<1>9. ASSUME NEW i \in Items, NEW q \in Runs, DispatchCreate(i, q) PROVE Accounted(r)'
  <2>1. Over(r)
    BY <1>1, <1>2, <1>9 DEF DispatchCreate, Over, Terminal
  <2> QED BY <1>4, <1>9, <2>1 DEF DispatchCreate, itemVars
<1>10. ASSUME NEW i \in Items, NEW q \in Runs, DispatchFails(i, q) PROVE Accounted(r)'
  <2>1. lastRun' = lastRun
    BY <1>6, <1>10, OthersHaveNoRun DEF DispatchFails, MayDispatch
  <2>2. statsCount[q] = 0
    BY <1>1, <1>10, FreshRunIsNew DEF DispatchFails, IInv, CountedOnce, Terminal
  <2>3. CASE r = q
    <3>1. <<"finished", r>> \in history' \cap {<<"finished", r>>, <<"canceled", r>>}
      BY <1>10, <2>3 DEF DispatchFails, Record
    <3>2. statsCount'[r] = 1
      BY <1>1, <1>10, <2>2, <2>3 DEF DispatchFails, CountRun
    <3> QED BY <3>1, <3>2 DEF Accounted
  <2>4. CASE r # q
    BY <1>1, <1>2, <1>3, <1>10, <2>1, <2>4 DEF DispatchFails, CountRun, Record, Over, Accounted
  <2> QED BY <2>3, <2>4
<1>11. CASE Link
  <2>1. pick \in Items /\ lastRun[pick] = NULL
    BY <1>11, OthersHaveNoRun DEF Link, IInv, LinkOK
  <2>2. Over(r)
    BY <1>2, <1>11 DEF Link, runVars, Over
  <2> QED BY <1>1, <1>3, <1>11, <2>1, <2>2 DEF Link, runVars, Accounted
<1>12. CASE RunBegins
  <2>1. Over(r)
    BY <1>1, <1>2, <1>12 DEF RunBegins, BeginRun, Over, Terminal
  <2> QED BY <1>4, <1>12, <2>1 DEF RunBegins, itemVars
<1>13. CASE RunEnds
  <2>1. current \in Items /\ job = lastRun[current]
    BY <1>13, CurrentRun DEF RunEnds, IInv, WorkOK, HeldOK
  <2>2. UNCHANGED <<lastRun, statsCount, history>>
    BY <1>13 DEF RunEnds, itemVars
  <2>3. CASE r = job
    BY <2>1, <2>2, <2>3 DEF Accounted
  <2>4. CASE r # job
    <3>1. jobStatus'[r] = jobStatus[r]
      BY <1>1, <1>13, <2>4 DEF RunEnds, EndRun
    <3> QED BY <1>2, <1>4, <2>2, <3>1 DEF Over
  <2> QED BY <2>3, <2>4
<1>14. CASE FinishStopped \/ FinishDropped
  <2>1. current \in Items /\ lastRun[current] \in Runs /\ statsCount[lastRun[current]] = 0
    BY <1>1, <1>14, CurrentRun DEF FinishStopped, FinishDropped, IInv, CountedOnce
  <2>2. /\ statsCount' = [statsCount EXCEPT ![lastRun[current]] = @ + 1] /\ jobStatus' = jobStatus
        /\ history' = history \cup {<<FinalAction(lastRun[current]), lastRun[current]>>}
        /\ \A i \in Items \ {current} : lastRun'[i] = lastRun[i]
    BY <1>1, <1>14 DEF FinishStopped, FinishDropped, Record, CountRun, Drop
  <2>3. CASE r = lastRun[current]
    <3>1. <<FinalAction(r), r>> \in history' \cap {<<"finished", r>>, <<"canceled", r>>}
      BY <2>2, <2>3 DEF FinalAction
    <3>2. statsCount'[r] = 1
      BY <1>1, <2>1, <2>2, <2>3
    <3> QED BY <3>1, <3>2 DEF Accounted
  <2>4. CASE r # lastRun[current]
    BY <1>1, <1>2, <1>3, <2>1, <2>2, <2>4 DEF Accounted, Over
  <2> QED BY <2>3, <2>4
<1>15. CASE Request
  <2>1. \A t \in Tasks : ~DeleteTask(t)
    BY DEF DeleteTask, HeldOK
  <2> QED
    BY <1>5, <1>7, <1>8, <1>15, <2>1
       DEF Request, Start, Pause, DeleteCurrent, Stop, Reset, SetInterval, Enqueue, Reorder, CancelRun,
           CheckDeleteTask, CheckQuick, Record, itemVars, runVars
<1>16. CASE Handler \/ GateOpens \/ Executor \/ Recovery
  BY <1>5, <1>16 DEF Handler, ResetDiagnostics, DeliverCancel, CreateQuick, GateOpens, Executor, QuickBegins,
                     QuickEnds, Recovery, RecoverQueue, RecoverJobs, SoloOK, Serving, itemVars, runVars
<1>17. CASE Failure
  BY <1>5, <1>17 DEF Failure, TickFaults, PersistFaults, QuickFaults, Crash, itemVars, runVars
<1>18. CASE Scheduler
  BY <1>5, <1>9, <1>10, <1>11, <1>12, <1>13, <1>14, <1>18
     DEF Scheduler, Dispatch, AttemptRecovery, TickSkips, TickWaits, DispatchNone, LinkLost, Resume, RunMissing,
         FinishLost, PersistError, itemVars, runVars
<1> QED BY <1>15, <1>16, <1>17, <1>18 DEF Next

\* Without restarts, task deletions and quick runs, but whatever steps fail: a
\* run that is over and has left its item is counted and has its history row.
THEOREM RunsAreAccounted ==
  ASSUME Ops \cap {"crash", "deleteTask", "quick"} = {} PROVE Spec => []EveryRunAccounted
<1>1. "deleteTask" \notin Ops /\ Ops \cap {"crash", "quick"} = {}
  OBVIOUS
<1>2. Init => SoloOK /\ EveryRunAccounted
  BY DEF Init, SoloOK, Serving, EveryRunAccounted, Terminal
<1>3. IInv /\ HeldOK /\ SoloOK /\ EveryRunAccounted /\ [Next]_vars => SoloOK' /\ EveryRunAccounted'
  <2>1. CASE UNCHANGED vars
    BY <2>1 DEF SoloOK, Serving, EveryRunAccounted, vars, itemVars, runVars, schedVars, execVars, reqVars
  <2> QED BY <1>1, <2>1, SoloStep, AccountedStep
<1>4. Spec => []HeldOK
  BY <1>1, HeldInvariant
<1> QED BY <1>2, <1>3, <1>4, Invariant, PTL DEF Spec

-----------------------------------------------------------------------------
(***************************************************************************)
(* First in, first out.                                                    *)
(***************************************************************************)
\* Requests that only append keep the items in the order of their creation.
LEMMA FifoStep ==
  ASSUME Positions \subseteq {0}, "reorder" \notin Ops, IInv, FifoOrder, Next
  PROVE  FifoOrder'
<1> USE DEF FifoOrder, Present
<1>1. /\ Items \subseteq Nat /\ orderIndex \in [Items -> Nat] /\ itemStatus \in [Items -> ItemStatus]
  BY QueueAssumption DEF QueueAssumption, IInv, TypeOK
<1>2. ASSUME \A i \in Present' : i \in Present /\ orderIndex'[i] = orderIndex[i] PROVE FifoOrder'
  BY <1>2
<1>3. CASE UNCHANGED <<itemStatus, orderIndex>>
  BY <1>3
<1>4. ASSUME NEW S, Drop(S) PROVE FifoOrder'
  BY <1>1, <1>2, <1>4 DEF Drop
<1>5. ASSUME NEW i \in Items, NEW t \in Tasks, NEW p \in Positions, Enqueue(i, t, p) PROVE FifoOrder'
  <2>1. p = 0
    OBVIOUS
  <2>2. PICK m \in {0} \cup {orderIndex[j] : j \in Present} :
          /\ \A j \in Present : orderIndex[j] <= m
          /\ orderIndex' = [j \in Items |-> IF j = i THEN m + 1 ELSE orderIndex[j]]
    BY <1>1, <1>5, <2>1 DEF Enqueue, NewIndex, TailIndex, Shifted
  <2>3. \A j \in Present' : j = i \/ (j \in Present /\ j < i)
    BY <1>1, <1>5 DEF Enqueue, FreshItems
  <2>4. m \in Nat
    BY <1>1, <2>2
  <2>5. \A j \in Present : orderIndex[j] < m + 1
    BY <1>1, <2>2, <2>4
  <2> QED BY <1>1, <2>2, <2>3, <2>5
<1>6. CASE Link
  BY <1>1, <1>2, <1>6 DEF Link, Waiting
<1>7. CASE FinishStopped
  BY <1>1, <1>2, <1>7 DEF FinishStopped, CurrentPresent
<1>8. CASE Request
  BY <1>3, <1>4, <1>5, <1>8
     DEF Request, Start, Pause, DeleteCurrent, Stop, Reset, SetInterval, Reorder, RemoveItem, CancelRun,
         DeleteRun, CheckDeleteTask, DeleteTask, CheckQuick, itemVars
<1>9. CASE Handler \/ GateOpens \/ Executor \/ Failure
  BY <1>3, <1>9 DEF Handler, ResetDiagnostics, DeliverCancel, CreateQuick, GateOpens, Executor, QuickBegins,
                    QuickEnds, Failure, TickFaults, PersistFaults, QuickFaults, Crash, itemVars
<1>10. CASE Recovery
  BY <1>3, <1>4, <1>10 DEF Recovery, RecoverQueue, RecoverJobs, itemVars
<1>11. CASE Scheduler
  BY <1>3, <1>4, <1>6, <1>7, <1>11
     DEF Scheduler, Dispatch, AttemptRecovery, TickSkips, TickWaits, DispatchNone, DispatchCreate,
         DispatchFails, LinkLost, Resume, RunBegins, RunMissing, RunEnds, FinishLost, FinishDropped,
         PersistError, itemVars
<1> QED BY <1>8, <1>9, <1>10, <1>11 DEF Next

\* With tail positions and no reorder the queue is first in, first out, over
\* stops that return the current item, removals, failures and restarts.
THEOREM QueueIsFifo ==
  ASSUME Positions \subseteq {0}, "reorder" \notin Ops PROVE Spec => []FifoOrder
<1>1. Init => FifoOrder
  BY DEF Init, FifoOrder, Present
<1>2. IInv /\ FifoOrder /\ [Next]_vars => FifoOrder'
  <2>1. CASE UNCHANGED vars
    BY <2>1 DEF FifoOrder, Present, vars, itemVars
  <2> QED BY <2>1, FifoStep
<1> QED BY <1>1, <1>2, Invariant, PTL DEF Spec

-----------------------------------------------------------------------------
(***************************************************************************)
(* A run of the queue lives as the engine promises: RunLife is what        *)
(* BenchmarkRun implements, and the queue is modelled with no other step.  *)
(***************************************************************************)
Engine(r) == INSTANCE RunLife WITH status <- jobStatus[r], held <- (exec = r), cancelled <- (r \in cancelled)

\* Between two restarts, a run that exists and is not deleted only begins, is
\* asked to cancel, ends or loses its end as RunLife says.
LivesByContract(r) ==
  Serving /\ Serving' /\ jobStatus[r] # "none" /\ jobStatus'[r] # "deleted"
    => Engine(r)!Next \/ UNCHANGED Engine(r)!vars
AsPromised == [][\A r \in Runs : LivesByContract(r)]_vars

\* Whoever executes the run and whatever fails, its steps are those promised.
LEMMA LifeIsKept == ASSUME IInv, ExecOK, Next, NEW r \in Runs PROVE LivesByContract(r)
<1> SUFFICES ASSUME Serving, Serving', jobStatus[r] # "none", jobStatus'[r] # "deleted"
             PROVE  Engine(r)!Next \/ UNCHANGED Engine(r)!vars
  BY DEF LivesByContract
<1> USE DEF Engine!vars
<1>1. /\ jobStatus \in [Runs -> JobStatus] /\ NULL \notin Runs
  BY QueueAssumption DEF QueueAssumption, IInv, TypeOK
<1>2. CASE UNCHANGED <<jobStatus, exec, cancelled>>
  BY <1>2
<1>3. ASSUME NEW q \in Runs, jobStatus[q] = "none" \/ jobStatus'[q] = "deleted", NEW s, jobStatus' = [jobStatus EXCEPT ![q] = s],
             UNCHANGED <<exec, cancelled>>
      PROVE  Engine(r)!Next \/ UNCHANGED Engine(r)!vars
  BY <1>1, <1>3
<1>4. CASE cancelled' = cancelled \cup {r} /\ UNCHANGED <<jobStatus, exec>>
  BY <1>4 DEF Engine!Next, Engine!Cancel
<1>5. CASE RunBegins
  <2>1. job \in Runs /\ jobStatus[job] \in {"queued", "running"} /\ job # NULL
    BY <1>1, <1>5 DEF RunBegins, IInv, WorkOK
  <2>2. CASE r = job
    BY <1>1, <1>5, <2>1, <2>2 DEF RunBegins, BeginRun, Engine!Next, Engine!Begin
  <2>3. CASE r # job
    BY <1>1, <1>5, <2>1, <2>3 DEF RunBegins, BeginRun
  <2> QED BY <2>2, <2>3
<1>6. CASE RunEnds
  <2>1. exec = job /\ job \in Runs /\ job # NULL
    BY <1>1, <1>6 DEF RunEnds, IInv, WorkOK, ExecOK
  <2>2. CASE r = job
    BY <1>1, <1>6, <2>1, <2>2
       DEF RunEnds, EndRun, Outcomes, Engine!Next, Engine!End, Engine!Outcomes
  <2>3. CASE r # job
    BY <1>1, <1>6, <2>1, <2>3 DEF RunEnds, EndRun
  <2> QED BY <2>2, <2>3
<1>7. CASE QuickBegins
  <2> DEFINE q == Head(submitted)
  <2>1. q \in Runs /\ jobStatus[q] \in {"queued", "running"} /\ q # NULL
    BY <1>1, <1>7, HeadOpen DEF QuickBegins, IInv
  <2>2. CASE r = q
    BY <1>1, <1>7, <2>1, <2>2 DEF QuickBegins, BeginRun, Engine!Next, Engine!Begin
  <2>3. CASE r # q
    BY <1>1, <1>7, <2>1, <2>3 DEF QuickBegins, BeginRun
  <2> QED BY <2>2, <2>3
<1>8. CASE QuickEnds
  <2>1. exec \in Runs /\ exec # NULL
    BY <1>1, <1>8, HeadOpen DEF QuickEnds, IInv
  <2>2. CASE r = exec
    BY <1>1, <1>8, <2>1, <2>2
       DEF QuickEnds, EndRun, Outcomes, Engine!Next, Engine!End, Engine!Outcomes
  <2>3. CASE r # exec
    BY <1>1, <1>8, <2>1, <2>3 DEF QuickEnds, EndRun
  <2> QED BY <2>2, <2>3
<1>9. CASE TickFaults
  <2>1. pc = "running" => exec = job
    BY DEF ExecOK
  <2>2. CASE pc = "running" /\ r = job
    BY <1>1, <1>9, <2>1, <2>2 DEF TickFaults, runVars, Engine!Next, Engine!Lose
  <2>3. CASE ~(pc = "running" /\ r = job)
    BY <1>1, <1>9, <2>1, <2>3 DEF TickFaults, runVars
  <2> QED BY <2>2, <2>3
<1>10. CASE QuickFaults
  <2>1. CASE exec = Head(submitted) /\ r = exec
    BY <1>1, <1>10, <2>1 DEF QuickFaults, runVars, Engine!Next, Engine!Lose
  <2>2. CASE ~(exec = Head(submitted) /\ r = exec)
    BY <1>1, <1>10, <2>2 DEF QuickFaults, runVars
  <2> QED BY <2>1, <2>2
<1>11. CASE PersistFaults \/ GateOpens
  BY <1>2, <1>11 DEF PersistFaults, GateOpens, runVars, execVars
<1>12. CASE Crash \/ Recovery
  BY <1>12 DEF Crash, Recovery, RecoverQueue, RecoverJobs, Serving
<1>13. CASE Request
  <2>1. ASSUME NEW q \in Runs, CancelRun(q) PROVE Engine(r)!Next \/ UNCHANGED Engine(r)!vars
    BY <1>1, <2>1 DEF CancelRun, runVars, Engine!Next, Engine!Cancel
  <2>2. ASSUME NEW q \in Runs, DeleteRun(q) PROVE Engine(r)!Next \/ UNCHANGED Engine(r)!vars
    BY <1>1, <1>3, <2>2 DEF DeleteRun, execVars
  <2> QED
    BY <1>2, <1>13, <2>1, <2>2
       DEF Request, Start, Pause, DeleteCurrent, Stop, Reset, SetInterval, Enqueue, Reorder, RemoveItem,
           CheckDeleteTask, DeleteTask, CheckQuick, runVars, execVars
<1>14. CASE Handler
  <2>1. ASSUME NEW q \in Runs, DeliverCancel(q) PROVE Engine(r)!Next \/ UNCHANGED Engine(r)!vars
    BY <1>1, <2>1 DEF DeliverCancel, runVars, Engine!Next, Engine!Cancel
  <2>2. ASSUME NEW q \in Runs, CreateQuick(q) PROVE Engine(r)!Next \/ UNCHANGED Engine(r)!vars
    BY <1>3, <2>2, FreshRunIsNew DEF CreateQuick
  <2> QED BY <1>2, <1>14, <2>1, <2>2 DEF Handler, ResetDiagnostics, runVars, execVars
<1>15. CASE Scheduler
  <2>1. ASSUME NEW i \in Items, NEW q \in Runs, DispatchCreate(i, q)
        PROVE  Engine(r)!Next \/ UNCHANGED Engine(r)!vars
    BY <1>3, <2>1, FreshRunIsNew DEF DispatchCreate, execVars
  <2>2. ASSUME NEW i \in Items, NEW q \in Runs, DispatchFails(i, q)
        PROVE  Engine(r)!Next \/ UNCHANGED Engine(r)!vars
    BY <1>3, <2>2, FreshRunIsNew DEF DispatchFails, execVars
  <2> QED
    BY <1>2, <1>5, <1>6, <1>15, <2>1, <2>2
       DEF Scheduler, Dispatch, AttemptRecovery, TickSkips, TickWaits, DispatchNone, Link, LinkLost, Resume,
           RunMissing, FinishLost, FinishStopped, FinishDropped, PersistError, runVars, execVars
<1> QED
  BY <1>7, <1>8, <1>9, <1>10, <1>11, <1>12, <1>13, <1>14, <1>15 DEF Next, Executor, Failure

\* The steps of a run in the queue are those the engine implements: what was
\* proved of the engine alone may be used for the runs of the queue.
THEOREM RunsLiveByContract == Spec => AsPromised
<1>1. IInv /\ ExecOK /\ [Next]_vars => [\A r \in Runs : LivesByContract(r)]_vars
  BY LifeIsKept
<1> QED BY <1>1, Invariant, ExecInvariant, PTL DEF Spec, AsPromised
=============================================================================
