---------------------------- MODULE BenchmarkRun ----------------------------
(***************************************************************************)
(* One benchmark run: the thread that executes it wave by wave, the pool   *)
(* of concurrent attempts of a wave, each with its HTTP request and the    *)
(* watcher that closes it on cancellation, the attempts it stores, and the *)
(* final status.  A run whose final status could not be stored is executed *)
(* again.                                                                  *)
(***************************************************************************)
EXTENDS Integers, FiniteSets

CONSTANTS
  Concurrency,  \* attempts of a wave
  Warmups,      \* warm-up waves
  Repeats,      \* measured waves
  MaxFaults     \* bound on exceptions while storing

ASSUME RunAssumption ==
  /\ Concurrency \in Nat \ {0} /\ Repeats \in Nat \ {0}
  /\ Warmups \in Nat /\ MaxFaults \in Nat

VARIABLES
  \* the benchmark_jobs row: status, counts of summary_json
  status, summary,
  \* rows of benchmark_attempts, and how often the run has been executed
  attempts, execution,
  \* the executing thread: its place, the waves it has finished, the first
  \* ordinal of the present or next wave, the futures it has looked at
  place, wave, ordinal, looked,
  \* the attempts of the pool, by ordinal
  request,
  \* the run is in _cancelled_jobs
  cancelled,
  faults

jobVars  == <<status, summary>>
rowVars  == <<attempts, execution>>
waveVars == <<wave, ordinal, looked>>
vars == <<jobVars, rowVars, place, waveVars, request, cancelled, faults>>

Ordinals == 1..((Warmups + Repeats) * Concurrency)
JobStatus == {"queued", "running", "succeeded", "failed", "cancelled"}
Places    == {"idle", "between", "wave", "drain", "abort"}
Busy      == {"pending", "connecting", "streaming", "paired"}
Ended     == {"ok", "error", "stopped"}
Attempts  == [execution : Nat, ordinal : Nat, warmup : BOOLEAN, ok : BOOLEAN]

Members  == ordinal..(ordinal + Concurrency - 1)
InFlight == {o \in Ordinals : request[o] \in Busy}
NoSummary == [successes |-> 0, failures |-> 0]

Init ==
  /\ status = "queued" /\ summary = NoSummary
  /\ attempts = {} /\ execution = 0
  /\ place = "idle" /\ wave = 0 /\ ordinal = 1 /\ looked = {}
  /\ request = [o \in Ordinals |-> "none"]
  /\ cancelled = FALSE /\ faults = 0

-----------------------------------------------------------------------------
(***************************************************************************)
(* The executing thread, which holds EXECUTION_LOCK unless it is idle.     *)
(***************************************************************************)
Begin ==
  /\ place = "idle" /\ status \in {"queued", "running"}
  /\ status' = "running" /\ place' = "between" /\ execution' = execution + 1
  /\ wave' = 0 /\ ordinal' = 1 /\ looked' = {}
  /\ request' = [o \in Ordinals |-> "none"]
  /\ UNCHANGED <<summary, attempts, cancelled, faults>>

\* The pauses between waves only delay this; a cancellation ends them.
MoreWaves == ~cancelled /\ wave < Warmups + Repeats

StartWave ==
  /\ place = "between" /\ MoreWaves
  /\ place' = "wave" /\ looked' = {}
  /\ request' = [o \in Ordinals |-> IF o \in Members THEN "pending" ELSE request[o]]
  /\ UNCHANGED <<jobVars, rowVars, wave, ordinal, cancelled, faults>>

\* as_completed yields futures that have ended, each once.
Yielded(o) == place = "wave" /\ o \in Members \ looked /\ request[o] \in Ended

Attempt(o, good) == [execution |-> execution, ordinal |-> o, warmup |-> wave < Warmups, ok |-> good]

\* A stream that was stopped has no result and is not stored.
Look(o) ==
  /\ Yielded(o) /\ ~cancelled
  /\ looked' = looked \cup {o}
  /\ attempts' = IF request[o] = "stopped" THEN attempts
                 ELSE attempts \cup {Attempt(o, request[o] = "ok")}
  /\ UNCHANGED <<jobVars, execution, place, wave, ordinal, request, cancelled, faults>>

\* Futures that have not begun are cancelled, the others are waited for and
\* their results are dropped.
BreakWave ==
  /\ \E o \in Members : Yielded(o)
  /\ cancelled
  /\ place' = "drain"
  /\ request' = [o \in Ordinals |-> IF request[o] = "pending" THEN "dropped" ELSE request[o]]
  /\ UNCHANGED <<jobVars, rowVars, waveVars, cancelled, faults>>

\* Mutant: leaving the pool does not wait for its threads.
PoolClosed_NoWait == TRUE
\* Leaving the pool waits for its threads.
PoolClosed == InFlight = {}

\* Mutant: the ordinal counts waves.
NextOrdinal_ByWave == ordinal + 1
NextOrdinal == ordinal + Concurrency

WaveOver ==
  /\ \/ place = "wave" /\ looked = Members
     \/ place = "drain"
  /\ PoolClosed
  /\ place' = "between" /\ wave' = wave + 1 /\ ordinal' = NextOrdinal
  /\ UNCHANGED <<jobVars, rowVars, looked, request, cancelled, faults>>

\* Mutant: warm-up attempts are summed up as well.
Summary_WithWarmups == [successes |-> Cardinality({a \in attempts : a.ok}),
                        failures  |-> Cardinality({a \in attempts : ~a.ok})]
\* Mutant: failures are those of the attempts asked for that did not succeed.
Summary_ByDifference == LET good == Cardinality({a \in attempts : a.ok /\ ~a.warmup})
                        IN  [successes |-> good, failures |-> Repeats * Concurrency - good]
\* All stored attempts of the run that are no warm-up.
Summary == [successes |-> Cardinality({a \in attempts : a.ok /\ ~a.warmup}),
            failures  |-> Cardinality({a \in attempts : ~a.ok /\ ~a.warmup})]

\* Mutant: a cancelled run is reported as a success.
FinalStatus_Succeeded == "succeeded"
FinalStatus == IF cancelled THEN "cancelled" ELSE "succeeded"

Finish ==
  /\ place = "between" /\ ~MoreWaves
  /\ status' = FinalStatus /\ summary' = Summary
  /\ place' = "idle" /\ cancelled' = FALSE
  /\ UNCHANGED <<rowVars, waveVars, request, faults>>

\* An exception has left the wave or the storing of the result.
AbortEnds ==
  /\ place = "abort" /\ PoolClosed
  /\ status' = "failed"
  /\ place' = "idle" /\ cancelled' = FALSE
  /\ UNCHANGED <<summary, rowVars, waveVars, request, faults>>

-----------------------------------------------------------------------------
(***************************************************************************)
(* An attempt: one streamed request, and a second one without streaming if *)
(* the stream brought no timings.  The watcher starts with the response.   *)
(***************************************************************************)
Moves(o, from, to) ==
  /\ request[o] \in from /\ request' = [request EXCEPT ![o] = to]
  /\ UNCHANGED <<jobVars, rowVars, place, waveVars, cancelled, faults>>

Send(o)       == Moves(o, {"pending"}, "connecting")
Answer(o)     == Moves(o, {"connecting"}, "streaming")
StreamEnds(o) == Moves(o, {"streaming"}, "ok") \/ Moves(o, {"streaming"}, "paired")
PairedEnds(o) == Moves(o, {"paired"}, "ok")
RequestFails(o) == Moves(o, {"connecting", "streaming", "paired"}, "error")

\* Mutant: there is no watcher.
StopStream_Never(o) == FALSE /\ Moves(o, {"streaming"}, "stopped")
StopStream(o) == cancelled /\ Moves(o, {"streaming"}, "stopped")

\* cancel_benchmark; a mark set after the end stays
Cancel ==
  /\ cancelled' = TRUE
  /\ UNCHANGED <<jobVars, rowVars, place, waveVars, request, faults>>

-----------------------------------------------------------------------------
(***************************************************************************)
(* Exceptions of the database.                                             *)
(***************************************************************************)
MayFault == faults < MaxFaults /\ faults' = faults + 1

\* Storing a good result raises: the attempt is stored as failed.
StoreFails(o) ==
  /\ MayFault
  /\ Yielded(o) /\ ~cancelled /\ request[o] = "ok"
  /\ looked' = looked \cup {o}
  /\ attempts' = attempts \cup {Attempt(o, FALSE)}
  /\ UNCHANGED <<jobVars, execution, place, wave, ordinal, request, cancelled>>

\* Storing a failed attempt, the summary or the final status raises.
Raises ==
  /\ MayFault
  /\ \/ ~cancelled /\ \E o \in Members : Yielded(o) /\ request[o] # "stopped"
     \/ place = "between" /\ ~MoreWaves
  /\ place' = "abort"
  /\ UNCHANGED <<jobVars, rowVars, waveVars, request, cancelled>>

\* Storing "failed" raises as well: the exception reaches the caller.
AbortRaises ==
  /\ MayFault
  /\ place = "abort" /\ PoolClosed
  /\ place' = "idle" /\ cancelled' = FALSE
  /\ UNCHANGED <<jobVars, rowVars, waveVars, request>>

-----------------------------------------------------------------------------
Thread == \/ StartWave \/ BreakWave \/ WaveOver \/ Finish \/ AbortEnds
          \/ \E o \in Ordinals : Look(o)

Request(o) == Send(o) \/ Answer(o) \/ StreamEnds(o) \/ PairedEnds(o) \/ RequestFails(o) \/ StopStream(o)

Failure == Raises \/ AbortRaises \/ \E o \in Ordinals : StoreFails(o)

Next == \/ Begin \/ Thread \/ Cancel \/ Failure
        \/ \E o \in Ordinals : Request(o)

Spec == Init /\ [][Next]_vars

(***************************************************************************)
(* The threads run, and a request is answered or times out before its      *)
(* first response and while it is paired.  A stream may last: the time-out *)
(* is one of silence.                                                      *)
(***************************************************************************)
Resolves(o) == /\ request[o] \in {"connecting", "paired"}
               /\ Answer(o) \/ PairedEnds(o) \/ RequestFails(o)

Fairness == /\ WF_vars(Thread)
            /\ \A o \in Ordinals : /\ WF_vars(Send(o)) /\ WF_vars(Resolves(o))
                                   /\ WF_vars(StopStream(o))

FairSpec == Spec /\ Fairness

-----------------------------------------------------------------------------
\* Every variable has its type.
TypeOK ==
  /\ status \in JobStatus /\ summary \in [successes : Nat, failures : Nat]
  /\ attempts \subseteq Attempts /\ execution \in Nat
  /\ place \in Places
  /\ wave \in 0..(Warmups + Repeats) /\ ordinal \in Nat \ {0}
  /\ looked \subseteq Ordinals
  /\ request \in [Ordinals -> Busy \cup Ended \cup {"none", "dropped"}]
  /\ cancelled \in BOOLEAN /\ faults \in Nat

\* Requests in flight belong to the present wave, and none is left when the
\* wave is over or EXECUTION_LOCK is released: no measurement disturbs another.
OneWave == /\ InFlight \subseteq Members
           /\ place \in {"idle", "between"} => InFlight = {}

Stored == {a \in attempts : a.execution = execution}

\* A has one attempt for each ordinal of S and no others, marked as warm-up
\* exactly in the warm-up waves.
OneEach(A, S) ==
  /\ \A a \in A : a.ordinal \in S /\ (a.warmup <=> a.ordinal <= Warmups * Concurrency)
  /\ \A o \in S : \E a \in A : a.ordinal = o
  /\ \A a, b \in A : a.ordinal = b.ordinal => a = b

\* A run that is reported as succeeded has all its attempts, whatever requests
\* failed and however a cancellation raced with the end of a wave.
SucceededIsComplete == status = "succeeded" => OneEach(Stored, Ordinals)

\* The summary of a run that succeeded at once covers each measured attempt.
SummaryIsComplete ==
  status = "succeeded" /\ execution = 1 =>
    summary.successes + summary.failures = Repeats * Concurrency

\* To the rest of the system a run begins, is cancelled and ends as RunLife
\* says: this is what the task queue is modelled with.
Life == INSTANCE RunLife WITH held <- place # "idle"
ImplementsRunLife == Life!Spec

\* A cancelled execution comes to its end even if the server streams for ever.
CancelEnds == (cancelled /\ place # "idle") ~> (place = "idle")
=============================================================================
