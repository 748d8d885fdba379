------------------------ MODULE TaskQueueRefinement ------------------------
(***************************************************************************)
(* The proof that the task queue implements the serial queue, for any      *)
(* number of items, runs, failures and restarts.                           *)
(***************************************************************************)
EXTENDS TaskQueueProofs

\* What the refinement mapping shows of a run.
Life(r) == IF jobStatus[r] = "none" THEN "none"
           ELSE IF jobStatus[r] \in {"queued", "running"} THEN "open" ELSE "over"

\* Items leave, or runs end, or both: a step Retire of the serial queue.
LEMMA Retires ==
  ASSUME TypeOK, NEW S \in SUBSET Items, NEW R \in SUBSET Runs,
         \A i \in S : itemStatus[i] \in {"waiting", "running"},
         itemStatus' = [i \in Items |-> IF i \in S THEN "gone" ELSE itemStatus[i]],
         \A r \in Runs : Life(r)' = IF r \in R THEN "over" ELSE Life(r)
  PROVE  Contract!Next
<1>1. Contract!Retire(S, R)
  BY DEF Contract!Retire, Life
<1> QED
  BY <1>1 DEF Contract!Next

\* A step that changes no phase and no life.
LEMMA Stutters ==
  ASSUME TypeOK, itemStatus' = itemStatus, \A r \in Runs : Life(r)' = Life(r)
  PROVE  UNCHANGED Contract!vars
  BY DEF Contract!vars, Life

\* Items leave and no run ends.
LEMMA Drops ==
  ASSUME TypeOK, NEW S \in SUBSET Present, Drop(S), UNCHANGED jobStatus
  PROVE  Contract!Next
<1>1. \A r \in Runs : Life(r)' = Life(r)
  BY DEF Life
<1>2. /\ \A i \in S : itemStatus[i] \in {"waiting", "running"}
      /\ itemStatus' = [i \in Items |-> IF i \in S THEN "gone" ELSE itemStatus[i]]
  BY DEF Drop, Present
<1>3. \A r \in Runs : Life(r)' = IF r \in {} THEN "over" ELSE Life(r)
  BY <1>1
<1>4. S \in SUBSET Items /\ {} \in SUBSET Runs
  BY DEF Present
<1> QED
  BY <1>2, <1>3, <1>4, Retires

\* A run is created.
LEMMA Opens ==
  ASSUME TypeOK, NEW r \in FreshRuns, UNCHANGED itemStatus,
         jobStatus' = [jobStatus EXCEPT ![r] = "queued"]
  PROVE  Contract!Next
<1>1. r \in Runs /\ jobStatus[r] = "none"
  BY FreshRunIsNew
<1>2. Contract!Open(r)
  BY <1>1 DEF Contract!Open, TypeOK
<1> QED
  BY <1>1, <1>2 DEF Contract!Next

\* An open run ends.
LEMMA Ends ==
  ASSUME TypeOK, NEW r \in Runs, jobStatus[r] \in {"queued", "running"}, UNCHANGED itemStatus, EndRun(r)
  PROVE  Contract!Next
<1>1. \A q \in Runs : Life(q)' = IF q \in {r} THEN "over" ELSE Life(q)
  BY DEF TypeOK, EndRun, Outcomes, Life
<1>2. itemStatus' = [i \in Items |-> IF i \in {} THEN "gone" ELSE itemStatus[i]]
  BY DEF TypeOK
<1>3. {} \in SUBSET Items /\ {r} \in SUBSET Runs
  OBVIOUS
<1> QED
  BY <1>1, <1>2, <1>3, Retires

\* An open run is taken up.
LEMMA Begins ==
  ASSUME TypeOK, NEW r \in Runs, jobStatus[r] \in {"queued", "running"}, UNCHANGED itemStatus, BeginRun(r)
  PROVE  UNCHANGED Contract!vars
<1>1. \A q \in Runs : Life(q)' = Life(q)
  BY DEF TypeOK, BeginRun, Life
<1> QED
  BY <1>1, Stutters

\* Every step is a step of the serial queue or changes nothing of it.
LEMMA ContractStep == IInv /\ Next => [Contract!Next]_(Contract!vars)
<1> SUFFICES ASSUME IInv, Next PROVE Contract!Next \/ UNCHANGED Contract!vars
  OBVIOUS
<1> USE DEF IInv
<1>1. CASE UNCHANGED <<itemStatus, jobStatus>>
  BY <1>1, Stutters DEF Life
<1>2. ASSUME NEW i \in Items, NEW t \in Tasks, NEW p \in Positions, Enqueue(i, t, p)
      PROVE  Contract!Next
  <2>1. itemStatus[i] = "new"
    BY <1>2, QueueAssumption DEF QueueAssumption, Enqueue, FreshItems
  <2>2. Contract!Submit(i)
    BY <1>2, <2>1 DEF Contract!Submit, Enqueue, runVars
  <2> QED
    BY <2>2 DEF Contract!Next
<1>3. ASSUME NEW i \in Items, RemoveItem(i) PROVE Contract!Next
  BY <1>3, Drops DEF RemoveItem, runVars
<1>4. ASSUME NEW t \in Tasks, DeleteTask(t) PROVE Contract!Next
  BY <1>4, Drops DEF DeleteTask, runVars
<1>5. ASSUME NEW r \in Runs, DeleteRun(r) PROVE UNCHANGED Contract!vars
  <2>1. \A q \in Runs : Life(q)' = Life(q)
    BY <1>5 DEF DeleteRun, Deletable, Terminal, TypeOK, Life
  <2> QED
    BY <1>5, <2>1, Stutters DEF DeleteRun, itemVars
<1>6. ASSUME NEW r \in Runs, CreateQuick(r) PROVE Contract!Next
  BY <1>6, Opens DEF CreateQuick, itemVars
<1>7. ASSUME NEW i \in Items, NEW r \in Runs, DispatchCreate(i, r) PROVE Contract!Next
  BY <1>7, Opens DEF DispatchCreate, itemVars
<1>8. ASSUME NEW i \in Items, NEW r \in Runs, DispatchFails(i, r) PROVE Contract!Next
  <2>1. itemStatus[i] = "waiting" /\ jobStatus[r] = "none"
    BY <1>8, FreshRunIsNew DEF DispatchFails, Heads, Waiting
  <2>2. \A q \in Runs : Life(q)' = IF q \in {r} THEN "over" ELSE Life(q)
    BY <1>8, <2>1 DEF DispatchFails, TypeOK, Life
  <2>3. itemStatus' = [j \in Items |-> IF j \in {i} THEN "gone" ELSE itemStatus[j]]
    BY <1>8 DEF DispatchFails, Drop
  <2>4. {i} \in SUBSET Items /\ {r} \in SUBSET Runs /\ \A j \in {i} : itemStatus[j] \in {"waiting", "running"}
    BY <2>1
  <2> QED
    BY <2>2, <2>3, <2>4, Retires
<1>9. CASE Link
  <2>1. pick \in Items /\ itemStatus[pick] = "waiting" /\ \A j \in Items : itemStatus[j] # "running"
    BY <1>9, QueueAssumption DEF QueueAssumption, Link, LinkOK, ItemsOK, Waiting
  <2>2. Contract!Serve(pick)
    BY <1>9, <2>1 DEF Contract!Serve, Link, runVars
  <2> QED
    BY <2>1, <2>2 DEF Contract!Next
<1>10. CASE FinishStopped
  <2>1. current \in Items /\ itemStatus[current] = "running"
    BY <1>10, CurrentRun DEF FinishStopped
  <2>2. Contract!HandBack(current)
    BY <1>10, <2>1 DEF Contract!HandBack, FinishStopped
  <2> QED
    BY <2>1, <2>2 DEF Contract!Next
<1>11. CASE FinishDropped
  <2>1. {current} \in SUBSET Present
    BY <1>11 DEF FinishDropped, CurrentPresent
  <2> QED
    BY <1>11, <2>1, Drops DEF FinishDropped
<1>12. CASE RunBegins
  BY <1>12, Begins DEF RunBegins, WorkOK, itemVars
<1>13. CASE RunEnds
  BY <1>13, Ends DEF RunEnds, WorkOK, itemVars
<1>14. CASE QuickBegins
  BY <1>14, HeadOpen, Begins DEF QuickBegins, itemVars
<1>15. CASE QuickEnds
  BY <1>15, HeadOpen, Ends DEF QuickEnds, itemVars
<1>16. CASE RecoverQueue
  <2>1. CASE ~CurrentPresent
    BY <1>1, <1>16, <2>1 DEF RecoverQueue, itemVars, runVars
  <2>2. CASE CurrentPresent /\ ~Interrupted(lastRun[current])
    <3>1. Drop({current}) /\ UNCHANGED jobStatus /\ {current} \in SUBSET Present
      BY <1>16, <2>2 DEF RecoverQueue, CurrentPresent
    <3> QED
      BY <3>1, Drops
  <2>3. CASE CurrentPresent /\ Interrupted(lastRun[current])
    <3>1. /\ current \in Items /\ lastRun[current] \in Runs /\ itemStatus[current] = "running"
      BY <2>3, CurrentRun
    <3>2. /\ jobStatus' = [jobStatus EXCEPT ![lastRun[current]] = "failed"]
          /\ itemStatus' = [j \in Items |-> IF j \in {current} THEN "gone" ELSE itemStatus[j]]
      BY <1>16, <2>3 DEF RecoverQueue, Drop
    <3>3. \A q \in Runs : Life(q)' = IF q \in {lastRun[current]} THEN "over" ELSE Life(q)
      BY <3>1, <3>2 DEF TypeOK, Life
    <3>4. /\ {current} \in SUBSET Items /\ {lastRun[current]} \in SUBSET Runs
          /\ \A j \in {current} : itemStatus[j] \in {"waiting", "running"}
      BY <3>1
    <3> QED
      BY <3>2, <3>3, <3>4, Retires
  <2> QED BY <2>1, <2>2, <2>3
<1>17. CASE RecoverJobs
  <2> DEFINE R == {r \in Runs : Interrupted(r)}
  <2>1. \A q \in Runs : Life(q)' = IF q \in R THEN "over" ELSE Life(q)
    BY <1>17 DEF RecoverJobs, Interrupted, TypeOK, Life
  <2>2. itemStatus' = [i \in Items |-> IF i \in {} THEN "gone" ELSE itemStatus[i]]
    BY <1>17 DEF RecoverJobs, TypeOK, itemVars
  <2>3. {} \in SUBSET Items /\ R \in SUBSET Runs
    OBVIOUS
  <2> QED
    BY <2>1, <2>2, <2>3, Retires
<1>18. CASE Request
  BY <1>1, <1>2, <1>3, <1>4, <1>5, <1>18
     DEF Request, Start, Pause, DeleteCurrent, Stop, Reset, SetInterval, Reorder, CancelRun,
         CheckDeleteTask, CheckQuick, itemVars, runVars
<1>19. CASE Handler \/ GateOpens \/ Executor \/ Failure
  BY <1>1, <1>6, <1>14, <1>15, <1>19
     DEF Handler, ResetDiagnostics, DeliverCancel, GateOpens, Executor, Failure, TickFaults, PersistFaults,
         QuickFaults, Crash, itemVars, runVars
<1>20. CASE Scheduler
  BY <1>1, <1>7, <1>8, <1>9, <1>10, <1>11, <1>12, <1>13, <1>20
     DEF Scheduler, Dispatch, AttemptRecovery, TickSkips, TickWaits, DispatchNone, LinkLost, Resume,
         RunMissing, FinishLost, PersistError, itemVars, runVars
<1> QED
  BY <1>16, <1>17, <1>18, <1>19, <1>20 DEF Next, Recovery

\* The task queue, whatever fails or restarts, implements the serial queue.
THEOREM QueueIsSerial == Spec => ImplementsSerialQueue
<1>1. Init => Contract!Init
  BY DEF Init, Contract!Init
<1>2. IInv /\ [Next]_vars => [Contract!Next]_(Contract!vars)
  <2>1. UNCHANGED vars => UNCHANGED Contract!vars
    BY DEF vars, itemVars, runVars, Contract!vars
  <2> QED
    BY <2>1, ContractStep
<1> QED
  BY <1>1, <1>2, Invariant, PTL DEF Spec, ImplementsSerialQueue, Contract!Spec
=============================================================================
