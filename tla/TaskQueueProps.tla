-------------------------- MODULE TaskQueueProps --------------------------
(***************************************************************************)
(* What the task queue must and must not do.  "Without failures" and the   *)
(* like name the operations and events that the instances which check a    *)
(* property leave out; without such a word it holds under all of them.     *)
(***************************************************************************)
EXTENDS TaskQueue

\* An item shown as running is the queue's current item, so at most one is;
\* the current item, while it exists, is running and linked to its run.
SingleRunning ==
  /\ \A i \in Items : itemStatus[i] = "running" => i = current
  /\ CurrentPresent => itemStatus[current] = "running" /\ lastRun[current] # NULL

\* A run is counted in its task's statistics at most once, after it is over
\* and has left its item: a crash, a stop or a retried tick never counts it twice.
CountedOnce ==
  \A r \in Runs : statsCount[r] > 0 =>
    /\ statsCount[r] = 1 /\ jobStatus[r] \in Terminal \cup {"deleted"}
    /\ \A i \in Items : lastRun[i] # r

\* Without failures, restarts, task deletions and quick runs: a queue run that
\* is over and has left its item is in the statistics and in the history.
EveryRunAccounted ==
  \A r \in Runs : jobStatus[r] \in Terminal \cup {"deleted"} =>
    \/ \E i \in Items : lastRun[i] = r
    \/ statsCount[r] = 1 /\ history \cap {<<"finished", r>>, <<"canceled", r>>} # {}

\* Until a step fails no run is left queued or running with nobody to execute
\* it, even right after a restart (task deletions aside).
OpenRunIsOwned ==
  Serving /\ faults = 0 => \A r \in Runs : jobStatus[r] \in {"queued", "running"} =>
    r = job \/ r \in Listed(submitted) \/ \E i \in Items : lastRun[i] = r

\* Until a step fails at most one benchmark has status running, and it is the
\* one that holds EXECUTION_LOCK (queue runs and quick runs alike).
OneAtATime ==
  Serving /\ faults = 0 => \A r \in Runs : jobStatus[r] = "running" => r = exec

\* Without failures: an idle queue has no current item, and a stopping one
\* (task deletions aside) has the item whose end it waits for.
StatusMatchesCurrent ==
  /\ status = "idle" => current = NULL
  /\ status = "stopping" /\ pc # "recoverQueue" => CurrentPresent

\* Without resets: a queue in error still has its failures counted, so the
\* loop keeps attempting the recovery; a tick skipped in error clears nothing.
ErrorIsCounted ==
  status = "error" /\ pc # "recoverQueue" => failures = Threshold

\* With tail positions only: items keep the order in which they were enqueued,
\* also after a stop has returned the current one and after removals.
FifoOrder ==
  \A i, j \in Present : i < j => orderIndex[i] < orderIndex[j]

\* The status of a run that is over never changes: nothing runs it again,
\* recovers it or fails it; it can only be deleted.
TerminalStable ==
  [][\A r \in Runs : jobStatus[r] \in Terminal =>
       jobStatus'[r] \in {jobStatus[r], "deleted"}]_vars

\* The item that starts running is the head of the queue at that moment: no
\* reorder or enqueue slips in between its choice and its link.
HeadFirst ==
  [][\A i \in Items : itemStatus[i] = "waiting" /\ itemStatus'[i] = "running" => i \in Heads]_vars

\* A restart loses no waiting item and keeps their order.
RestartKeepsWaiting ==
  [][~Serving \/ ~Serving' =>
       \A i \in Waiting : itemStatus'[i] = "waiting" /\ orderIndex'[i] = orderIndex[i]
                          /\ itemTask'[i] = itemTask[i]]_vars

\* When the recovery is over the queue is idle with no current item, no item
\* is running and no run is queued or running.
RecoveredClean ==
  [][~Serving /\ Serving' =>
       /\ status' = "idle" /\ current' = NULL
       /\ \A i \in Items : itemStatus'[i] # "running"
       /\ \A r \in Runs : jobStatus'[r] \notin {"queued", "running"}]_vars

\* Every step of the queue is a step of the serial queue, or changes nothing
\* that queue shows: items are served one at a time, runs never come back.
Contract == INSTANCE SerialQueue WITH
  phase <- itemStatus,
  life  <- [r \in Runs |-> IF jobStatus[r] = "none" THEN "none"
                           ELSE IF jobStatus[r] \in {"queued", "running"} THEN "open"
                           ELSE "over"]
ImplementsSerialQueue == Contract!Spec

-----------------------------------------------------------------------------
\* A started queue does not stay in running for ever: it drains and goes
\* idle, unless a client pauses or stops it first.
Drains == (status = "running") ~> (status # "running")


\* Unless a step fails, every run that was created is executed to an end, also
\* when a queue run and a quick run wait for each other at EXECUTION_LOCK and a
\* stop cancels the one that waits.
EveryRunEnds ==
  \A r \in Runs : (jobStatus[r] = "queued")
                    ~> (jobStatus[r] \notin {"queued", "running"} \/ faults > 0)

\* A stop that finds a current item completes with that item waiting again,
\* unless a client then deletes the item or a step fails (no tick works on a
\* queue in stopping_queue, so a run whose tick failed is not taken up again).
StopReturnsItem ==
  \A i \in Items : (status = "stopping_queue" /\ current = i)
                     ~> (itemStatus[i] = "waiting" \/ status = "stopping" \/ faults > 0)

\* Transient failures heal: a queue in error leaves it by itself.
AutoRecovery == (status = "error") ~> (status # "error")

-----------------------------------------------------------------------------
(***************************************************************************)
(* What the documentation says and the code does not do.                   *)
(***************************************************************************)
\* docs/batch2-design.md: stopping_queue is transient, the queue ends idle.
StopEnds == (status = "stopping_queue") ~> (status # "stopping_queue")

\* docs/task-queue-design.md: the start of a run is recorded in the history.
StartIsRecorded == pc = "running" => <<"started", job>> \in history

\* docs/task-queue-design.md: no quick run is accepted while the queue runs.
QuickRunRejected ==
  [][Len(submitted') > Len(submitted) => status # "running" /\ current = NULL]_vars
=============================================================================
