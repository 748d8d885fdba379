------------------------------- MODULE RunLife -------------------------------
(***************************************************************************)
(* What the rest of the system relies on when it hands a benchmark run to  *)
(* the engine: an execution holds the lock from its begin to its end, a    *)
(* cancellation asked for before the end is honoured, and a run that is    *)
(* over is not executed again.                                             *)
(***************************************************************************)
VARIABLES status,     \* status of the job
          held,       \* the execution holds EXECUTION_LOCK
          cancelled   \* its cancellation has been asked for

vars == <<status, held, cancelled>>

Init == status = "queued" /\ held = FALSE /\ cancelled = FALSE

Begin == /\ ~held /\ status \in {"queued", "running"}
         /\ held' = TRUE /\ status' = "running"
         /\ UNCHANGED cancelled

Cancel == /\ cancelled' = TRUE
          /\ UNCHANGED <<status, held>>

Outcomes == IF cancelled THEN {"cancelled", "failed"} ELSE {"succeeded", "failed"}

End == /\ held /\ held' = FALSE
       /\ status' \in Outcomes /\ cancelled' = FALSE

\* No final status could be stored: the run may be executed once more.
Lose == /\ held /\ held' = FALSE
        /\ cancelled' = FALSE
        /\ UNCHANGED status

Next == Begin \/ Cancel \/ End \/ Lose

Spec == Init /\ [][Next]_vars
=============================================================================
