------------------------------ MODULE TaskQueue ------------------------------
(***************************************************************************)
(* The benchmark task queue of LlamaLens: the queue service functions and  *)
(* their HTTP handlers, the scheduler thread, the execution of benchmark   *)
(* runs by that thread and by the quick-run executor, and the recovery at  *)
(* startup.  One step is one critical section, one database commit or one  *)
(* call made outside the queue lock.                                       *)
(***************************************************************************)
EXTENDS Integers, FiniteSets, Sequences

CONSTANTS
  Tasks,        \* benchmark tasks that exist at the start
  Items,        \* identities of queue items, numbered in the order of creation
  Runs,         \* identities of benchmark jobs, numbered likewise
  NULL,         \* SQL NULL and Python None
  Positions,    \* enqueue positions: 0 is the tail, n > 0 an index (1: head)
  Lists,        \* the item lists a client may send to reorder
  Threshold,    \* LLAMALENS_QUEUE_FAILURE_THRESHOLD
  MaxSessions,  \* bound on accepted starts
  MaxFaults,    \* bound on exceptions in the scheduler and the executor
  MaxCrashes,   \* bound on restarts of the process
  Ops           \* the operations and events this instance explores

ASSUME QueueAssumption ==
  /\ Items \subseteq Nat /\ Runs \subseteq Nat /\ Positions \subseteq Nat
  /\ Lists \subseteq Seq(Items)
  /\ Threshold \in Nat \ {0}
  /\ {MaxSessions, MaxFaults, MaxCrashes} \subseteq Nat
  /\ NULL \notin Tasks \cup Items \cup Runs

VARIABLES
  \* the task_queue row
  status, current, gate, interval, session,
  \* task_queue_items, benchmark_tasks
  itemStatus, itemTask, orderIndex, lastRun, tasks,
  \* benchmark_jobs, the calls of _update_task_stats, history rows with a run
  jobStatus, statsCount, history,
  \* the scheduler thread: where it is, locals of _tick, failure accounting
  pc, job, pick, failures, preError,
  \* EXECUTION_LOCK, the executor's queue, _cancelled_jobs
  exec, submitted, cancelled,
  \* request handlers between two of their steps
  pendingCancel, pendingReset, deleting, quickChecked,
  \* budgets already spent
  faults, crashes

queueVars == <<status, current, gate, interval, session>>
itemVars  == <<itemStatus, itemTask, orderIndex, lastRun>>
runVars   == <<jobStatus, statsCount, history>>
schedVars == <<pc, job, pick, failures, preError>>
execVars  == <<exec, submitted, cancelled>>
reqVars   == <<pendingCancel, pendingReset, deleting, quickChecked>>
budgets   == <<faults, crashes>>
vars == <<queueVars, itemVars, tasks, runVars, schedVars, execVars, reqVars, budgets>>

QueueStatus == {"idle", "running", "paused", "stopping", "stopping_queue", "error"}
ItemStatus  == {"new", "waiting", "running", "gone"}
Terminal    == {"succeeded", "failed", "cancelled"}
JobStatus   == {"none", "queued", "running", "deleted"} \cup Terminal
Places      == {"loop", "tick", "link", "linked", "run", "running", "finish", "persist",
                "dead", "recoverQueue", "recoverJobs"}

Waiting   == {i \in Items : itemStatus[i] = "waiting"}
Present   == {i \in Items : itemStatus[i] \in {"waiting", "running"}}

\* Identities are uuids in the code; numbering them loses no behaviour.
FreshItems == {i \in Items : \A j \in Items : itemStatus[j] = "new" <=> j >= i}
FreshRuns  == {r \in Runs : \A q \in Runs : jobStatus[q] = "none" <=> q >= r}

\* db.get(TaskQueueItem, current_item_id) is not None
CurrentPresent == current # NULL /\ current \in Present

(***************************************************************************)
(* Who may take a step: requests are served once the recovery is over, and *)
(* the scheduler is the only thread that keeps _queue_lock over several    *)
(* steps (the creation of a run, its link with the item, the reading back  *)
(* of the item).                                                           *)
(***************************************************************************)
Serving  == pc \notin {"recoverQueue", "recoverJobs"}

\* Mutant: the scheduler releases the lock between the two commits.
LockFree_NotHeld == Serving
LockFree == Serving /\ pc \notin {"link", "linked"}

\* Mutant: DELETE by task instead of by item.
Drop_ByTask(S) ==
  LET D == {i \in Present : \E j \in S : itemTask[j] = itemTask[i]} IN
  /\ itemStatus' = [i \in Items |-> IF i \in D THEN "gone" ELSE itemStatus[i]]
  /\ itemTask'   = [i \in Items |-> IF i \in D THEN NULL ELSE itemTask[i]]
  /\ orderIndex' = [i \in Items |-> IF i \in D THEN 0 ELSE orderIndex[i]]
  /\ lastRun'    = [i \in Items |-> IF i \in D THEN NULL ELSE lastRun[i]]

\* Rows leave the table: their columns take neutral values here.
Drop(S) ==
  /\ itemStatus' = [i \in Items |-> IF i \in S THEN "gone" ELSE itemStatus[i]]
  /\ itemTask'   = [i \in Items |-> IF i \in S THEN NULL ELSE itemTask[i]]
  /\ orderIndex' = [i \in Items |-> IF i \in S THEN 0 ELSE orderIndex[i]]
  /\ lastRun'    = [i \in Items |-> IF i \in S THEN NULL ELSE lastRun[i]]

Record(action, r) == history' = history \cup {<<action, r>>}
CountRun(r) == statsCount' = [statsCount EXCEPT ![r] = @ + 1]

-----------------------------------------------------------------------------
(***************************************************************************)
(* Init: an empty database after a first start, the scheduler about to     *)
(* tick.                                                                   *)
(***************************************************************************)
Init ==
  /\ status = "idle" /\ current = NULL /\ gate = "open"
  /\ interval \in BOOLEAN /\ session = 0
  /\ itemStatus = [i \in Items |-> "new"]
  /\ itemTask   = [i \in Items |-> NULL]
  /\ orderIndex = [i \in Items |-> 0]
  /\ lastRun    = [i \in Items |-> NULL]
  /\ tasks = Tasks
  /\ jobStatus  = [r \in Runs |-> "none"]
  /\ statsCount = [r \in Runs |-> 0]
  /\ history = {}
  /\ pc = "loop" /\ job = NULL /\ pick = NULL
  /\ failures = 0 /\ preError = NULL
  /\ exec = NULL /\ submitted = <<>> /\ cancelled = {}
  /\ pendingCancel = {} /\ pendingReset = FALSE
  /\ deleting = {} /\ quickChecked = FALSE
  /\ faults = 0 /\ crashes = 0

-----------------------------------------------------------------------------
(***************************************************************************)
(* Queue requests, each one critical section of _queue_lock.               *)
(***************************************************************************)
StartRefused == \/ status \in {"running", "stopping", "stopping_queue"}
                \/ exec # NULL

Start ==
  /\ "start" \in Ops /\ LockFree /\ session < MaxSessions
  /\ ~StartRefused
  /\ status' = "running" /\ session' = session + 1 /\ gate' = "open"
  /\ UNCHANGED <<current, interval, itemVars, tasks, runVars, schedVars,
                 execVars, reqVars, budgets>>

Pause ==
  /\ "pause" \in Ops /\ LockFree
  /\ status = "running"
  /\ status' = "paused"
  /\ UNCHANGED <<current, gate, interval, session, itemVars, tasks, runVars,
                 schedVars, execVars, reqVars, budgets>>

SetInterval(b) ==
  /\ "interval" \in Ops /\ LockFree
  /\ interval' = b
  /\ UNCHANGED <<status, current, gate, session, itemVars, tasks, runVars,
                 schedVars, execVars, reqVars, budgets>>

\* Mutant: the maximum is taken over waiting items only.
TailIndex_OfWaiting == {m + 1 : m \in {n \in {0} \cup {orderIndex[j] : j \in Waiting} :
                                         \A j \in Waiting : orderIndex[j] <= n}}

\* Mutant: a new item goes before the others.
TailIndex_BeforeAll == {m - 1 : m \in {n \in {0} \cup {orderIndex[j] : j \in Present} :
                                         \A j \in Present : n <= orderIndex[j]}}

\* order_index of a new item and the waiting items that make room for it
TailIndex == {m + 1 : m \in {n \in {0} \cup {orderIndex[j] : j \in Present} :
                               \A j \in Present : orderIndex[j] <= n}}
NewIndex(p) == IF p > 0 THEN {p} ELSE TailIndex
Shifted(p)  == {j \in Waiting : p > 0 /\ orderIndex[j] >= p}

Enqueue(i, t, p) ==
  /\ "enqueue" \in Ops /\ LockFree
  /\ i \in FreshItems /\ t \in tasks
  /\ \E n \in NewIndex(p) :
       orderIndex' = [j \in Items |-> IF j = i THEN n
                                      ELSE IF j \in Shifted(p) THEN orderIndex[j] + 1
                                      ELSE orderIndex[j]]
  /\ itemStatus' = [itemStatus EXCEPT ![i] = "waiting"]
  /\ itemTask'   = [itemTask EXCEPT ![i] = t]
  /\ UNCHANGED <<queueVars, lastRun, tasks, runVars, schedVars, execVars,
                 reqVars, budgets>>

\* A list may name an item twice: its last position counts.  Items that the
\* list does not name keep their index.
Listed(list) == {list[k] : k \in DOMAIN list}
Ranks(list)  == {f \in [Listed(list) -> DOMAIN list] :
                   \A k \in DOMAIN list : list[f[list[k]]] = list[k] /\ k <= f[list[k]]}

Reorder(list) ==
  /\ "reorder" \in Ops /\ LockFree
  /\ Listed(list) \subseteq Waiting
  /\ \E f \in Ranks(list) :
       orderIndex' = [i \in Items |-> IF i \in Listed(list) THEN f[i] ELSE orderIndex[i]]
  /\ UNCHANGED <<queueVars, itemStatus, itemTask, lastRun, tasks, runVars,
                 schedVars, execVars, reqVars, budgets>>

\* Mutant: the current item is deleted like any other.
RemoveItem_AnyItem(i) ==
  /\ "delete" \in Ops /\ LockFree
  /\ i \in Present
  /\ Drop({i})
  /\ UNCHANGED <<queueVars, tasks, runVars, schedVars, execVars, reqVars, budgets>>

RemoveItem(i) ==
  /\ "delete" \in Ops /\ LockFree
  /\ i \in Present /\ i # current
  /\ Drop({i})
  /\ UNCHANGED <<queueVars, tasks, runVars, schedVars, execVars, reqVars, budgets>>

\* The cancellation follows in a step of its own, outside the lock.
DeleteCurrent ==
  /\ "delete" \in Ops /\ LockFree
  /\ CurrentPresent
  /\ status' = "stopping"
  /\ Record("canceled", lastRun[current])
  /\ pendingCancel' = pendingCancel \cup {lastRun[current]}
  /\ UNCHANGED <<current, gate, interval, session, itemVars, tasks, jobStatus,
                 statsCount, schedVars, execVars, pendingReset, deleting,
                 quickChecked, budgets>>

Stop ==
  /\ "stop" \in Ops /\ LockFree
  /\ status \in {"running", "stopping"}
  /\ status' = "stopping_queue"
  /\ pendingCancel' = IF CurrentPresent THEN pendingCancel \cup {lastRun[current]}
                      ELSE pendingCancel
  /\ UNCHANGED <<current, gate, interval, session, itemVars, tasks, runVars,
                 schedVars, execVars, pendingReset, deleting, quickChecked, budgets>>

Reset ==
  /\ "reset" \in Ops /\ LockFree /\ ~pendingReset
  /\ status = "error"
  /\ status' = "idle" /\ pendingReset' = TRUE
  /\ UNCHANGED <<current, gate, interval, session, itemVars, tasks, runVars,
                 schedVars, execVars, pendingCancel, deleting, quickChecked, budgets>>

\* reset_diagnostics, after reset_queue has released the lock
ResetDiagnostics ==
  /\ Serving /\ pendingReset
  /\ pendingReset' = FALSE /\ failures' = 0 /\ preError' = NULL
  /\ UNCHANGED <<queueVars, itemVars, tasks, runVars, pc, job, pick, execVars,
                 pendingCancel, deleting, quickChecked, budgets>>

\* cancel_benchmark, after stop_queue or delete_item has released the lock
DeliverCancel(r) ==
  /\ Serving /\ r \in pendingCancel
  /\ pendingCancel' = pendingCancel \ {r}
  /\ cancelled' = cancelled \cup {r}
  /\ UNCHANGED <<queueVars, itemVars, tasks, runVars, schedVars, exec, submitted,
                 pendingReset, deleting, quickChecked, budgets>>

\* now >= next_dispatch_at
GateOpens ==
  /\ gate = "closed" /\ gate' = "open"
  /\ UNCHANGED <<status, current, interval, session, itemVars, tasks, runVars,
                 schedVars, execVars, reqVars, budgets>>

-----------------------------------------------------------------------------
(***************************************************************************)
(* Requests that do not take _queue_lock.                                  *)
(***************************************************************************)
\* POST /benchmarks/{id}/cancel, for any job in the database
CancelRun(r) ==
  /\ "cancel" \in Ops /\ Serving
  /\ jobStatus[r] \notin {"none", "deleted"}
  /\ cancelled' = cancelled \cup {r}
  /\ UNCHANGED <<queueVars, itemVars, tasks, runVars, schedVars, exec, submitted,
                 reqVars, budgets>>

\* DELETE /benchmarks/{id}
Deletable(r) == jobStatus[r] \in Terminal

DeleteRun(r) ==
  /\ "deleteRun" \in Ops /\ Serving
  /\ Deletable(r)
  /\ jobStatus' = [jobStatus EXCEPT ![r] = "deleted"]
  /\ UNCHANGED <<queueVars, itemVars, tasks, statsCount, history, schedVars,
                 execVars, reqVars, budgets>>

\* DELETE /tasks/{id} reads the queue, then deletes the task; the database
\* deletes the items of the task with it.
CheckDeleteTask(t) ==
  /\ "deleteTask" \in Ops /\ Serving
  /\ t \in tasks \ deleting
  /\ ~(CurrentPresent /\ itemTask[current] = t)
  /\ deleting' = deleting \cup {t}
  /\ UNCHANGED <<queueVars, itemVars, tasks, runVars, schedVars, execVars,
                 pendingCancel, pendingReset, quickChecked, budgets>>

DeleteTask(t) ==
  /\ Serving /\ t \in deleting
  /\ deleting' = deleting \ {t} /\ tasks' = tasks \ {t}
  /\ Drop({i \in Present : itemTask[i] = t})
  /\ UNCHANGED <<queueVars, runVars, schedVars, execVars, pendingCancel,
                 pendingReset, quickChecked, budgets>>

\* Bound: quick runs leave the identities that the queue itself can need (an
\* item is dispatched once, and again after a stop, a failure or a restart).
QueueDemand == Cardinality(Items) + MaxSessions - 1 + MaxFaults + MaxCrashes

\* POST /benchmarks reads the queue, then inserts and submits a quick run.
CheckQuick ==
  /\ "quick" \in Ops /\ Serving /\ ~quickChecked
  /\ Cardinality({r \in Runs : jobStatus[r] = "none"}) > QueueDemand
  /\ status \notin {"running", "paused", "stopping"} /\ current = NULL
  /\ quickChecked' = TRUE
  /\ UNCHANGED <<queueVars, itemVars, tasks, runVars, schedVars, execVars,
                 pendingCancel, pendingReset, deleting, budgets>>

CreateQuick(r) ==
  /\ Serving /\ quickChecked /\ r \in FreshRuns
  /\ quickChecked' = FALSE
  /\ jobStatus' = [jobStatus EXCEPT ![r] = "queued"]
  /\ submitted' = Append(submitted, r)
  /\ UNCHANGED <<queueVars, itemVars, tasks, statsCount, history, schedVars, exec,
                 cancelled, pendingCancel, pendingReset, deleting, budgets>>
-----------------------------------------------------------------------------
(***************************************************************************)
(* The scheduler thread.  A tick that did work clears the failure          *)
(* accounting; a tick that raised adds to it, saturating at the threshold. *)
(***************************************************************************)
Succeed == /\ pc' = "loop" /\ job' = NULL /\ pick' = NULL
           /\ failures' = 0 /\ preError' = NULL

Fail == /\ failures' = IF failures < Threshold THEN failures + 1 ELSE Threshold
        /\ pc' = IF failures' >= Threshold THEN "persist" ELSE "loop"
        /\ job' = NULL /\ pick' = NULL
        /\ UNCHANGED preError

AtTick == pc = "tick" \/ (pc = "loop" /\ failures < Threshold)

\* The current item is read in every tick, also right after its link.
ReadsCurrent == pc = "linked" \/ (AtTick /\ status \in {"running", "stopping"})

\* _attempt_error_recovery, ahead of the tick once the threshold is reached
AttemptRecovery ==
  /\ pc = "loop" /\ failures >= Threshold
  /\ status' = IF status # "error" THEN status
               ELSE IF preError # NULL THEN preError ELSE "running"
  /\ pc' = "tick"
  /\ UNCHANGED <<current, gate, interval, session, itemVars, tasks, runVars, job,
                 pick, failures, preError, execVars, reqVars, budgets>>

\* _tick returns False: it did nothing and the failures stay counted
TickSkips ==
  /\ AtTick /\ status \notin {"running", "stopping"}
  /\ pc' = "loop"
  /\ UNCHANGED <<queueVars, itemVars, tasks, runVars, job, pick, failures, preError,
                 execVars, reqVars, budgets>>

\* _tick returns True with nothing to run: the interval has not passed, the
\* queue is stopping without a current item, or the current item is missing
TickWaits ==
  /\ \/ AtTick /\ status = "running" /\ current = NULL /\ gate = "closed"
     \/ AtTick /\ status = "stopping" /\ current = NULL
     \/ ReadsCurrent /\ current # NULL /\ ~CurrentPresent
  /\ Succeed
  /\ UNCHANGED <<queueVars, itemVars, tasks, runVars, execVars, reqVars, budgets>>

\* Mutant: the current item is not looked at.
MayDispatch_Busy == AtTick /\ status = "running" /\ gate = "open"
MayDispatch == AtTick /\ status = "running" /\ current = NULL /\ gate = "open"

Heads == {i \in Waiting : \A j \in Waiting : orderIndex[i] <= orderIndex[j]}

\* Mutant: an empty queue stays running.
DispatchNone_StaysRunning ==
  /\ MayDispatch /\ Waiting = {}
  /\ Succeed
  /\ UNCHANGED <<queueVars, itemVars, tasks, runVars, execVars, reqVars, budgets>>

DispatchNone ==
  /\ MayDispatch /\ Waiting = {}
  /\ status' = "idle"
  /\ Succeed
  /\ UNCHANGED <<current, gate, interval, session, itemVars, tasks, runVars,
                 execVars, reqVars, budgets>>

\* create_run_for_task commits the job before the item is linked to it
DispatchCreate(i, r) ==
  /\ MayDispatch /\ i \in Heads /\ r \in FreshRuns
  /\ jobStatus' = [jobStatus EXCEPT ![r] = "queued"]
  /\ pc' = "link" /\ job' = r /\ pick' = i
  /\ UNCHANGED <<queueVars, itemVars, tasks, statsCount, history, failures, preError,
                 execVars, reqVars, budgets>>

\* next_dispatch_at = now + interval_ms
GateAfterRun == IF interval THEN "closed" ELSE "open"

\* The run cannot be built (archived service, lost configuration): one commit
\* stores a failed job and drops the item.
DispatchFails(i, r) ==
  /\ "invalid" \in Ops
  /\ MayDispatch /\ i \in Heads /\ r \in FreshRuns
  /\ jobStatus' = [jobStatus EXCEPT ![r] = "failed"]
  /\ CountRun(r) /\ Record("finished", r) /\ Drop({i})
  /\ gate' = GateAfterRun
  /\ Succeed
  /\ UNCHANGED <<status, current, interval, session, tasks, execVars, reqVars, budgets>>

\* The history row "started" is added after this commit and is lost with
\* the session.
Link ==
  /\ pc = "link" /\ pick \in Waiting
  /\ itemStatus' = [itemStatus EXCEPT ![pick] = "running"]
  /\ lastRun' = [lastRun EXCEPT ![pick] = job]
  /\ current' = pick
  /\ pc' = "linked" /\ pick' = NULL
  /\ UNCHANGED <<status, gate, interval, session, itemTask, orderIndex, tasks, runVars,
                 job, failures, preError, execVars, reqVars, budgets>>

\* The item was deleted with its task between the two commits: the update
\* matches no row and raises.
LinkLost ==
  /\ pc = "link" /\ pick \notin Waiting
  /\ Fail
  /\ UNCHANGED <<queueVars, itemVars, tasks, runVars, execVars, reqVars, budgets>>

\* Mutant: runs every job again.
NeedRun_Always(r) == TRUE
\* Mutant: takes a running job for a finished one.
NeedRun_Queued(r) == jobStatus[r] = "queued"
\* Run the job of the current item unless it is over.
NeedRun(r) == jobStatus[r] \notin Terminal

Resume ==
  /\ ReadsCurrent /\ CurrentPresent
  /\ job' = lastRun[current]
  /\ pc' = IF NeedRun(lastRun[current]) THEN "run" ELSE "finish"
  /\ UNCHANGED <<queueVars, itemVars, tasks, runVars, pick, failures, preError,
                 execVars, reqVars, budgets>>

-----------------------------------------------------------------------------
(***************************************************************************)
(* Runs.  EXECUTION_LOCK admits one at a time, whether the scheduler or    *)
(* the executor of quick runs works on it.                                 *)
(***************************************************************************)
\* Mutant: the lock is not taken.
BeginRun_Unlocked(r) == exec' = r /\ jobStatus' = [jobStatus EXCEPT ![r] = "running"]
BeginRun(r) == /\ exec = NULL /\ exec' = r
               /\ jobStatus' = [jobStatus EXCEPT ![r] = "running"]

Outcomes(r) == IF r \in cancelled THEN {"cancelled", "failed"} ELSE {"succeeded", "failed"}

\* Mutant: the lock is not released.
EndRun_KeepsLock(r) == /\ \E s \in Outcomes(r) : jobStatus' = [jobStatus EXCEPT ![r] = s]
                       /\ cancelled' = cancelled \ {r}
                       /\ UNCHANGED exec
EndRun(r) == /\ exec' = NULL
             /\ \E s \in Outcomes(r) : jobStatus' = [jobStatus EXCEPT ![r] = s]
             /\ cancelled' = cancelled \ {r}

RunBegins ==
  /\ pc = "run" /\ jobStatus[job] # "deleted"
  /\ BeginRun(job)
  /\ pc' = "running"
  /\ UNCHANGED <<queueVars, itemVars, tasks, statsCount, history, job, pick, failures,
                 preError, submitted, cancelled, reqVars, budgets>>

RunMissing ==
  /\ pc = "run" /\ jobStatus[job] = "deleted" /\ exec = NULL
  /\ pc' = "finish"
  /\ UNCHANGED <<queueVars, itemVars, tasks, runVars, job, pick, failures, preError,
                 execVars, reqVars, budgets>>

RunEnds ==
  /\ pc = "running"
  /\ EndRun(job)
  /\ pc' = "finish"
  /\ UNCHANGED <<queueVars, itemVars, tasks, statsCount, history, job, pick, failures,
                 preError, submitted, reqVars, budgets>>

QuickBegins ==
  /\ Serving /\ submitted # <<>>
  /\ BeginRun(Head(submitted))
  /\ UNCHANGED <<queueVars, itemVars, tasks, statsCount, history, schedVars, submitted,
                 cancelled, reqVars, budgets>>

QuickEnds ==
  /\ Serving /\ submitted # <<>> /\ exec = Head(submitted)
  /\ EndRun(exec)
  /\ submitted' = Tail(submitted)
  /\ UNCHANGED <<queueVars, itemVars, tasks, statsCount, history, schedVars, reqVars, budgets>>

-----------------------------------------------------------------------------
(***************************************************************************)
(* _handle_run_finished: one commit under the queue lock, by queue status. *)
(***************************************************************************)
FinalAction(r) == IF jobStatus[r] = "cancelled" THEN "canceled" ELSE "finished"

\* The item went away with its task while it ran.
FinishLost ==
  /\ pc = "finish" /\ ~CurrentPresent
  /\ current' = NULL
  /\ Succeed
  /\ UNCHANGED <<status, gate, interval, session, itemVars, tasks, runVars, execVars,
                 reqVars, budgets>>

\* Mutant: a stop drops the item.
HandsBack_Never == FALSE
\* stopping_queue: the item goes back to the queue where it was.
HandsBack == status = "stopping_queue"

FinishStopped ==
  /\ pc = "finish" /\ CurrentPresent /\ HandsBack
  /\ Record(FinalAction(lastRun[current]), lastRun[current])
  /\ CountRun(lastRun[current])
  /\ itemStatus' = [itemStatus EXCEPT ![current] = "waiting"]
  /\ lastRun' = [lastRun EXCEPT ![current] = NULL]
  /\ current' = NULL /\ status' = "idle" /\ gate' = "open"
  /\ Succeed
  /\ UNCHANGED <<interval, session, itemTask, orderIndex, tasks, jobStatus, execVars,
                 reqVars, budgets>>


\* Otherwise the item leaves.  The queue goes idle when nothing waits; a
\* stopping queue runs on, a running or paused one first waits the interval.
StatusAfterDrop == IF Waiting = {} THEN "idle"
                   ELSE IF status = "stopping" THEN "running" ELSE status
GateAfterDrop == IF Waiting = {} THEN "open"
                 ELSE IF status = "stopping" THEN gate ELSE GateAfterRun

FinishDropped ==
  /\ pc = "finish" /\ CurrentPresent /\ ~HandsBack
  /\ Record(FinalAction(lastRun[current]), lastRun[current])
  /\ CountRun(lastRun[current])
  /\ Drop({current})
  /\ current' = NULL /\ status' = StatusAfterDrop /\ gate' = GateAfterDrop
  /\ Succeed
  /\ UNCHANGED <<interval, session, tasks, jobStatus, execVars, reqVars, budgets>>
-----------------------------------------------------------------------------
(***************************************************************************)
(* Failures.  Persisting the error state happens outside the try of _loop: *)
(* an exception there ends the thread.                                     *)
(***************************************************************************)
MayFault == faults < MaxFaults /\ faults' = faults + 1

\* An exception before, between or instead of the commits of a tick.  In the
\* middle of a run neither its final status nor "failed" could be stored.
TickFaults ==
  /\ "fault" \in Ops /\ MayFault
  /\ pc \in {"loop", "tick", "link", "linked", "run", "running", "finish"}
  /\ exec' = IF pc = "running" THEN NULL ELSE exec
  /\ cancelled' = IF pc = "running" THEN cancelled \ {job} ELSE cancelled
  /\ Fail
  /\ UNCHANGED <<queueVars, itemVars, tasks, runVars, submitted, reqVars, crashes>>

\* Mutant: the status before the error is taken again while in error.
PersistError_Again ==
  /\ pc = "persist" /\ pc' = "loop"
  /\ status' = "error" /\ preError' = status
  /\ UNCHANGED <<current, gate, interval, session, itemVars, tasks, runVars, job, pick,
                 failures, execVars, reqVars, budgets>>

\* Mutant: the failures are forgotten once the error is stored.
PersistError_Forgets ==
  /\ pc = "persist" /\ pc' = "loop"
  /\ status' = "error" /\ preError' = status /\ failures' = 0
  /\ UNCHANGED <<current, gate, interval, session, itemVars, tasks, runVars, job, pick,
                 execVars, reqVars, budgets>>

PersistError ==
  /\ pc = "persist" /\ pc' = "loop"
  /\ IF status = "error" THEN UNCHANGED <<status, preError>>
     ELSE status' = "error" /\ preError' = status
  /\ UNCHANGED <<current, gate, interval, session, itemVars, tasks, runVars, job, pick,
                 failures, execVars, reqVars, budgets>>

PersistFaults ==
  /\ "persistFault" \in Ops /\ MayFault
  /\ pc = "persist" /\ pc' = "dead"
  /\ UNCHANGED <<queueVars, itemVars, tasks, runVars, job, pick, failures, preError,
                 execVars, reqVars, crashes>>

\* The executor drops the exception: the quick run stays as it is.
QuickFaults ==
  /\ "fault" \in Ops /\ MayFault
  /\ Serving /\ submitted # <<>>
  /\ exec' = IF exec = Head(submitted) THEN NULL ELSE exec
  /\ cancelled' = IF exec = Head(submitted) THEN cancelled \ {exec} ELSE cancelled
  /\ submitted' = Tail(submitted)
  /\ UNCHANGED <<queueVars, itemVars, tasks, runVars, schedVars, reqVars, crashes>>

\* The process ends and starts again: what it held in memory is lost, and
\* lifespan recovers before it serves requests or starts the scheduler.
Crash ==
  /\ "crash" \in Ops /\ crashes < MaxCrashes /\ crashes' = crashes + 1
  /\ pc' = "recoverQueue" /\ job' = NULL /\ pick' = NULL
  /\ failures' = 0 /\ preError' = NULL
  /\ exec' = NULL /\ submitted' = <<>> /\ cancelled' = {}
  /\ pendingCancel' = {} /\ pendingReset' = FALSE
  /\ deleting' = {} /\ quickChecked' = FALSE
  /\ UNCHANGED <<queueVars, itemVars, tasks, runVars, faults>>

\* Mutant: every job is failed by the recovery.
Interrupted_Any(r) == jobStatus[r] \notin {"none", "deleted"}
\* Mutant: the recovery forgets queued jobs.
Interrupted_Running(r) == jobStatus[r] = "running"
Interrupted(r) == jobStatus[r] \in {"queued", "running"}

RecoverQueue ==
  /\ pc = "recoverQueue" /\ pc' = "recoverJobs"
  /\ IF CurrentPresent
     THEN LET r == lastRun[current]
          IN  /\ Drop({current})
              /\ Record("canceled", r)
              /\ IF Interrupted(r)
                 THEN CountRun(r) /\ jobStatus' = [jobStatus EXCEPT ![r] = "failed"]
                 ELSE UNCHANGED <<jobStatus, statsCount>>
     ELSE UNCHANGED <<itemVars, runVars>>
  /\ current' = NULL /\ status' = "idle"
  /\ UNCHANGED <<gate, interval, session, tasks, job, pick, failures, preError,
                 execVars, reqVars, budgets>>

RecoverJobs ==
  /\ pc = "recoverJobs" /\ pc' = "loop"
  /\ jobStatus' = [r \in Runs |-> IF Interrupted(r) THEN "failed" ELSE jobStatus[r]]
  /\ UNCHANGED <<queueVars, itemVars, tasks, statsCount, history, job, pick, failures,
                 preError, execVars, reqVars, budgets>>

-----------------------------------------------------------------------------
Request ==
  \/ Start \/ Pause \/ DeleteCurrent \/ Stop \/ Reset
  \/ \E b \in BOOLEAN : SetInterval(b)
  \/ \E i \in Items, t \in Tasks, p \in Positions : Enqueue(i, t, p)
  \/ \E list \in Lists : Reorder(list)
  \/ \E i \in Items : RemoveItem(i)
  \/ \E r \in Runs : CancelRun(r) \/ DeleteRun(r)
  \/ \E t \in Tasks : CheckDeleteTask(t) \/ DeleteTask(t)
  \/ CheckQuick

\* Steps a handler owes once it has answered the first half of its request
Handler == \/ ResetDiagnostics
           \/ \E r \in Runs : DeliverCancel(r) \/ CreateQuick(r)

Dispatch == \/ DispatchNone \/ Link \/ LinkLost
            \/ \E i \in Items, r \in Runs : DispatchCreate(i, r) \/ DispatchFails(i, r)

Scheduler == \/ AttemptRecovery \/ TickSkips \/ TickWaits \/ Dispatch \/ Resume
             \/ RunBegins \/ RunMissing \/ RunEnds
             \/ FinishLost \/ FinishStopped \/ FinishDropped
             \/ PersistError

Executor == QuickBegins \/ QuickEnds

Recovery == RecoverQueue \/ RecoverJobs

Failure == TickFaults \/ PersistFaults \/ QuickFaults \/ Crash

Next == Request \/ Handler \/ GateOpens \/ Scheduler \/ Executor \/ Recovery \/ Failure

Spec == Init /\ [][Next]_vars

(***************************************************************************)
(* The loop wakes at least once a second (or after the cooldown), requests *)
(* in progress end, time passes, and a run ends: every HTTP request of an  *)
(* attempt has a timeout.  Nothing obliges a client to send a request.     *)
(***************************************************************************)
Fairness == /\ WF_vars(Scheduler) /\ WF_vars(Executor) /\ WF_vars(Recovery)
            /\ WF_vars(GateOpens) /\ WF_vars(ResetDiagnostics)
            /\ \A r \in Runs : WF_vars(DeliverCancel(r))

FairSpec == Spec /\ Fairness

-----------------------------------------------------------------------------
\* Every variable has its type.
TypeOK ==
  /\ status \in QueueStatus /\ current \in Items \cup {NULL}
  /\ gate \in {"open", "closed"} /\ interval \in BOOLEAN /\ session \in Nat
  /\ itemStatus \in [Items -> ItemStatus]
  /\ itemTask \in [Items -> Tasks \cup {NULL}]
  /\ orderIndex \in [Items -> Nat]
  /\ lastRun \in [Items -> Runs \cup {NULL}]
  /\ tasks \subseteq Tasks /\ deleting \subseteq Tasks
  /\ jobStatus \in [Runs -> JobStatus]
  /\ statsCount \in [Runs -> Nat]
  /\ history \subseteq {"started", "finished", "canceled"} \X Runs
  /\ pc \in Places /\ job \in Runs \cup {NULL} /\ pick \in Items \cup {NULL}
  /\ failures \in 0..Threshold /\ preError \in QueueStatus \cup {NULL}
  /\ exec \in Runs \cup {NULL} /\ submitted \in Seq(Runs)
  /\ cancelled \subseteq Runs /\ pendingCancel \subseteq Runs
  /\ pendingReset \in BOOLEAN /\ quickChecked \in BOOLEAN
  /\ faults \in Nat /\ crashes \in Nat
=============================================================================
