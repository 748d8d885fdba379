------------------------- MODULE BenchmarkRunProofs -------------------------
(***************************************************************************)
(* Proofs about the execution of a run, for every number of waves, of      *)
(* attempts per wave and of failures.                                      *)
(***************************************************************************)
EXTENDS BenchmarkRun, FiniteSetTheorems, TLAPS

USE RunAssumption DEF RunAssumption

Total == Warmups + Repeats

\* Ordinals are numbered through: a wave takes the next Concurrency of them.
Numbered == /\ ordinal = wave * Concurrency + 1
            /\ place \in {"wave", "drain"} => wave < Total

\* In a wave the thread has looked at members that have ended; a stopped one
\* and a broken wave imply that the run is cancelled.
WaveOK == /\ place = "wave" => /\ looked \subseteq Members
                               /\ \A o \in looked : request[o] \in Ended
                               /\ ~cancelled => \A o \in Members : request[o] # "stopped"
          /\ place = "drain" => cancelled

\* Unless the run is cancelled, what is stored is what was looked at so far.
Progress == ~cancelled => /\ place = "between" => OneEach(Stored, 1..(ordinal - 1))
                          /\ place = "wave" => OneEach(Stored, (1..(ordinal - 1)) \cup looked)

\* Attempts are finitely many, of this execution or of former ones; only a
\* running run is worked on.
Rests == /\ IsFiniteSet(attempts)
         /\ \A a \in attempts : a.execution <= execution
         /\ place # "idle" => status = "running"

IInv == /\ TypeOK /\ Numbered /\ OneWave /\ WaveOK /\ Progress /\ Rests
        /\ SucceededIsComplete

-----------------------------------------------------------------------------
\* A block of c numbers that starts before the n-th fits in front of it.
LEMMA Block == ASSUME NEW m \in Nat, NEW n \in Nat, NEW c \in Nat, m < n
               PROVE  m * c + c <= n * c
<1>1. PICK d \in Nat : n = m + 1 + d
  <2>1. n - m - 1 \in Nat /\ n = m + 1 + (n - m - 1)
    OBVIOUS
  <2> QED BY <2>1
<1>2. n * c = m * c + c + d * c
  BY <1>1
<1>3. d * c \in Nat /\ m * c \in Nat
  OBVIOUS
<1> QED BY <1>2, <1>3

\* Blocks of c numbers follow each other without a gap.
LEMMA NextBlock == ASSUME NEW m \in Nat, NEW c \in Nat
                   PROVE  (m + 1) * c = m * c + c /\ m * c \in Nat
OBVIOUS

\* The members of a wave are ordinals, and warm-ups in the warm-up waves only.
LEMMA MembersAreOrdinals ==
  ASSUME TypeOK, Numbered, wave < Total
  PROVE  /\ Members \subseteq Ordinals
         /\ \A o \in Members : wave < Warmups <=> o <= Warmups * Concurrency
         /\ \A o \in Members : o \notin 1..(ordinal - 1)
<1>1. wave \in Nat /\ Total \in Nat /\ ordinal = wave * Concurrency + 1 /\ wave * Concurrency \in Nat
  BY DEF TypeOK, Numbered, Total
<1>2. wave * Concurrency + Concurrency <= Total * Concurrency /\ Total * Concurrency \in Nat
  BY <1>1, Block
<1>3. Members \subseteq Ordinals
  BY <1>1, <1>2 DEF Members, Ordinals, Total
<1>4. ASSUME NEW o \in Members PROVE wave < Warmups <=> o <= Warmups * Concurrency
  <2>1. o \in Int /\ wave * Concurrency + 1 <= o /\ o <= wave * Concurrency + Concurrency
    BY <1>1 DEF Members
  <2>2. CASE wave < Warmups
    <3>1. wave * Concurrency + Concurrency <= Warmups * Concurrency
      BY <2>2, <1>1, Block
    <3> QED BY <3>1, <2>1, <2>2, <1>1
  <2>3. CASE ~(wave < Warmups)
    <3>1. CASE wave = Warmups
      BY <3>1, <2>1, <2>3, <1>1
    <3>2. CASE Warmups < wave
      <4>1. Warmups * Concurrency + Concurrency <= wave * Concurrency
        BY <3>2, <1>1, Block
      <4>2. Warmups * Concurrency \in Nat
        OBVIOUS
      <4> QED BY <4>1, <4>2, <2>1, <2>3, <1>1
    <3> QED BY <3>1, <3>2, <2>3, <1>1
  <2> QED BY <2>2, <2>3
<1>5. \A o \in Members : o \notin 1..(ordinal - 1)
  BY <1>1 DEF Members
<1> QED BY <1>3, <1>4, <1>5

\* No execution has begun: nothing is numbered, looked at or stored.
LEMMA InitInv == Init => IInv
<1> SUFFICES ASSUME Init PROVE IInv
  OBVIOUS
<1>1. TypeOK
  <2>1. 0 \in 0..(Warmups + Repeats) /\ summary \in [successes : Nat, failures : Nat]
    BY DEF Init, NoSummary
  <2>2. request \in [Ordinals -> Busy \cup Ended \cup {"none", "dropped"}]
    BY DEF Init
  <2>3. ordinal \in Nat \ {0} /\ execution \in Nat /\ faults \in Nat
    BY DEF Init
  <2>4. attempts \subseteq Attempts /\ looked \subseteq Ordinals
    BY DEF Init
  <2>5. cancelled \in BOOLEAN
    BY DEF Init
  <2> QED BY <2>1, <2>2, <2>3, <2>4, <2>5 DEF Init, TypeOK, JobStatus, Places
<1>2. Numbered /\ OneWave
  BY DEF Init, Numbered, OneWave, InFlight, Busy
<1>3. WaveOK /\ Progress /\ Rests /\ SucceededIsComplete
  BY FS_EmptySet DEF Init, WaveOK, Progress, Rests, SucceededIsComplete
<1> QED BY <1>1, <1>2, <1>3 DEF IInv

-----------------------------------------------------------------------------
(***************************************************************************)
(* Every step preserves the invariant.                                     *)
(***************************************************************************)
LEMMA SummaryType == Rests => Summary \in [successes : Nat, failures : Nat]
<1> SUFFICES ASSUME Rests PROVE Summary \in [successes : Nat, failures : Nat]
  OBVIOUS
<1> DEFINE Good == {a \in attempts : a.ok /\ ~a.warmup}
           Bad  == {a \in attempts : ~a.ok /\ ~a.warmup}
<1>1. IsFiniteSet(Good) /\ IsFiniteSet(Bad)
  BY FS_Subset DEF Rests
<1>2. Cardinality(Good) \in Nat /\ Cardinality(Bad) \in Nat
  BY <1>1, FS_CardinalityType
<1> QED BY <1>2 DEF Summary

\* Every step keeps the types, the local ordinal included.
LEMMA TypeStep == IInv /\ [Next]_vars => TypeOK'
<1> SUFFICES ASSUME IInv, [Next]_vars PROVE TypeOK'
  OBVIOUS
<1> USE DEF IInv, TypeOK, jobVars, rowVars, waveVars, JobStatus, Places
<1>1. CASE Begin
  BY <1>1 DEF Begin
<1>2. CASE StartWave
  BY <1>2 DEF StartWave, Busy
<1>3. CASE BreakWave
  BY <1>3 DEF BreakWave
<1>4. CASE WaveOver
  <2>1. wave < Total
    BY <1>4, NextBlock DEF WaveOver, Numbered
  <2> QED BY <1>4, <2>1 DEF WaveOver, NextOrdinal, Total
<1>5. CASE Finish
  BY <1>5, SummaryType DEF Finish, FinalStatus
<1>6. CASE AbortEnds
  BY <1>6 DEF AbortEnds
<1>7. ASSUME NEW o \in Ordinals, Look(o) PROVE TypeOK'
  <2>1. Attempt(o, request[o] = "ok") \in Attempts
    BY DEF Attempt, Attempts, Ordinals
  <2> QED BY <1>7, <2>1 DEF Look
<1>8. ASSUME NEW o \in Ordinals, StoreFails(o) PROVE TypeOK'
  <2>1. Attempt(o, FALSE) \in Attempts
    BY DEF Attempt, Attempts, Ordinals
  <2>2. faults' \in Nat
    BY <1>8 DEF StoreFails, MayFault
  <2> QED BY <1>8, <2>1, <2>2 DEF StoreFails
<1>9. ASSUME NEW o \in Ordinals, Request(o) PROVE TypeOK'
  BY <1>9 DEF Request, Send, Answer, StreamEnds, PairedEnds, RequestFails, StopStream, Moves, Busy, Ended
<1>10. CASE Cancel
  BY <1>10 DEF Cancel
<1>11. CASE Raises \/ AbortRaises
  <2>1. faults' \in Nat
    BY <1>11 DEF Raises, AbortRaises, MayFault
  <2> QED BY <1>11, <2>1 DEF Raises, AbortRaises
<1>12. CASE UNCHANGED vars
  BY <1>12 DEF vars
<1> QED BY <1>1, <1>2, <1>3, <1>4, <1>5, <1>6, <1>7, <1>8, <1>9, <1>10, <1>11, <1>12
        DEF Next, Thread, Failure

\* Only the end of a wave advances the ordinal, by a whole wave.
LEMMA NumberedStep == IInv /\ [Next]_vars => Numbered'
<1> SUFFICES ASSUME IInv, [Next]_vars PROVE Numbered'
  OBVIOUS
<1> USE DEF IInv, Numbered, jobVars, rowVars, waveVars
<1>1. CASE Begin
  BY <1>1 DEF Begin
<1>2. CASE StartWave
  BY <1>2 DEF StartWave, MoreWaves, Total
<1>3. CASE WaveOver
  <2>1. wave \in Nat /\ ordinal \in Nat /\ wave * Concurrency \in Nat
    BY DEF TypeOK
  <2>2. (wave + 1) * Concurrency = wave * Concurrency + Concurrency
    BY <2>1, NextBlock
  <2> QED BY <1>3, <2>1, <2>2 DEF WaveOver, NextOrdinal
<1>4. CASE Finish \/ AbortEnds \/ Cancel \/ Raises \/ AbortRaises
  BY <1>4 DEF Finish, AbortEnds, Cancel, Raises, AbortRaises
<1>5. CASE BreakWave
  BY <1>5 DEF BreakWave, Yielded
<1>6. ASSUME NEW o \in Ordinals, Look(o) \/ StoreFails(o) \/ Request(o) PROVE Numbered'
  BY <1>6 DEF Look, StoreFails, Request, Send, Answer, StreamEnds, PairedEnds, RequestFails,
              StopStream, Moves
<1>7. CASE UNCHANGED vars
  BY <1>7 DEF vars
<1> QED BY <1>1, <1>2, <1>3, <1>4, <1>5, <1>6, <1>7 DEF Next, Thread, Failure

\* A thread pool is left when its requests are over.
LEMMA OneWaveStep == IInv /\ [Next]_vars => OneWave'
<1> SUFFICES ASSUME IInv, [Next]_vars PROVE OneWave'
  OBVIOUS
<1> USE DEF IInv, OneWave, InFlight, jobVars, rowVars, waveVars
<1>1. CASE Begin
  BY <1>1 DEF Begin, Busy
<1>2. CASE StartWave
  BY <1>2 DEF StartWave, Members
<1>3. CASE BreakWave
  BY <1>3 DEF BreakWave, Members, Busy
<1>4. CASE WaveOver
  BY <1>4 DEF WaveOver, PoolClosed
<1>5. CASE Finish \/ AbortEnds \/ Cancel \/ Raises \/ AbortRaises
  BY <1>5 DEF Finish, AbortEnds, Cancel, Raises, AbortRaises, Members, PoolClosed
<1>6. ASSUME NEW o \in Ordinals, Look(o) \/ StoreFails(o) PROVE OneWave'
  BY <1>6 DEF Look, StoreFails, Members
<1>7. ASSUME NEW o \in Ordinals, Request(o) PROVE OneWave'
  <2>1. /\ request[o] \in Busy
        /\ \A p \in Ordinals : request'[p] = request[p] \/ p = o
        /\ UNCHANGED <<place, ordinal>>
    BY <1>7 DEF TypeOK, Request, Send, Answer, StreamEnds, PairedEnds, RequestFails, StopStream,
                Moves, Busy
  <2> QED BY <2>1 DEF Members
<1>8. CASE UNCHANGED vars
  BY <1>8 DEF vars, Members
<1> QED BY <1>1, <1>2, <1>3, <1>4, <1>5, <1>6, <1>7, <1>8 DEF Next, Thread, Failure

\* What as_completed yields has ended; a stopped future implies a mark.
LEMMA WaveStep == IInv /\ [Next]_vars => WaveOK'
<1> SUFFICES ASSUME IInv, [Next]_vars PROVE WaveOK'
  OBVIOUS
<1> USE DEF IInv, WaveOK, jobVars, rowVars, waveVars
<1>1. CASE Begin \/ Finish \/ AbortEnds \/ Raises \/ AbortRaises \/ WaveOver
  BY <1>1 DEF Begin, Finish, AbortEnds, Raises, AbortRaises, WaveOver
<1>2. CASE StartWave
  <2>1. Members' = Members /\ Members \subseteq Ordinals
    BY <1>2, MembersAreOrdinals DEF StartWave, MoreWaves, Members, Total
  <2> QED BY <1>2, <2>1 DEF StartWave
<1>3. CASE BreakWave
  BY <1>3 DEF BreakWave
<1>4. ASSUME NEW o \in Ordinals, Look(o) \/ StoreFails(o) PROVE WaveOK'
  BY <1>4 DEF Look, StoreFails, Yielded, Members
<1>5. ASSUME NEW o \in Ordinals, Request(o) PROVE WaveOK'
  <2>1. /\ request[o] \in Busy
        /\ \A p \in Ordinals : request'[p] = request[p] \/ p = o
        /\ request'[o] = "stopped" => cancelled
        /\ UNCHANGED <<place, waveVars, cancelled>>
    BY <1>5 DEF TypeOK, Request, Send, Answer, StreamEnds, PairedEnds, RequestFails, StopStream,
                Moves, Busy
  <2>2. Members' = Members
    BY <2>1 DEF Members
  <2>3. place = "wave" => Members \subseteq Ordinals
    BY MembersAreOrdinals DEF Numbered
  <2>4. request[o] \notin Ended
    BY <2>1 DEF Busy, Ended
  <2> QED BY <2>1, <2>2, <2>3, <2>4 DEF TypeOK
<1>6. CASE Cancel
  BY <1>6 DEF Cancel, Members
<1>7. CASE UNCHANGED vars
  BY <1>7 DEF vars, Members
<1> QED BY <1>1, <1>2, <1>3, <1>4, <1>5, <1>6, <1>7 DEF Next, Thread, Failure

\* Attempts are added one at a time and only for the present execution.
LEMMA RestsStep == IInv /\ [Next]_vars => Rests'
<1> SUFFICES ASSUME IInv, [Next]_vars PROVE Rests'
  OBVIOUS
<1> USE DEF IInv, Rests, jobVars, rowVars, waveVars
<1>1. CASE Begin
  <2>1. \A a \in attempts : a.execution \in Nat
    BY DEF TypeOK, Attempts
  <2> QED BY <1>1, <2>1 DEF Begin, TypeOK
<1>2. CASE StartWave \/ BreakWave \/ WaveOver \/ Finish \/ AbortEnds \/ Cancel \/ Raises \/ AbortRaises
  BY <1>2 DEF StartWave, BreakWave, Yielded, WaveOver, Finish, AbortEnds, Cancel, Raises, AbortRaises
<1>3. ASSUME NEW o \in Ordinals, Look(o) \/ StoreFails(o) PROVE Rests'
  <2>1. /\ UNCHANGED <<place, status, execution>>
        /\ attempts' = attempts \/ \E g \in BOOLEAN : attempts' = attempts \cup {Attempt(o, g)}
    BY <1>3 DEF Look, StoreFails
  <2>2. \A g \in BOOLEAN : IsFiniteSet(attempts \cup {Attempt(o, g)})
    BY FS_AddElement
  <2>3. \A g \in BOOLEAN : Attempt(o, g).execution <= execution
    BY DEF Attempt, TypeOK
  <2> QED BY <2>1, <2>2, <2>3
<1>4. ASSUME NEW o \in Ordinals, Request(o) PROVE Rests'
  BY <1>4 DEF Request, Send, Answer, StreamEnds, PairedEnds, RequestFails, StopStream, Moves
<1>5. CASE UNCHANGED vars
  BY <1>5 DEF vars
<1> QED BY <1>1, <1>2, <1>3, <1>4, <1>5 DEF Next, Thread, Failure

\* One more attempt, for an ordinal that has none.
LEMMA OneMore ==
  ASSUME NEW A, NEW S, OneEach(A, S), NEW o, o \notin S,
         NEW b, b.ordinal = o, b.warmup <=> o <= Warmups * Concurrency
  PROVE  OneEach(A \cup {b}, S \cup {o})
BY DEF OneEach

\* Each future looked at leaves one attempt with its ordinal.
LEMMA ProgressStep == IInv /\ [Next]_vars => Progress'
<1> SUFFICES ASSUME IInv, [Next]_vars PROVE Progress'
  OBVIOUS
<1> USE DEF IInv, Progress, Stored, jobVars, rowVars, waveVars
<1>1. CASE Begin
  <2>1. \A a \in attempts : a.execution \in Nat /\ a.execution # execution + 1
    BY DEF TypeOK, Attempts, Rests
  <2>2. /\ \A a \in Stored' : FALSE
        /\ \A o \in 1..(ordinal' - 1) : FALSE
        /\ place' = "between"
    BY <1>1, <2>1 DEF Begin
  <2>3. OneEach(Stored', 1..(ordinal' - 1))
    <3> HIDE DEF Stored
    <3> QED BY <2>2, Zenon DEF OneEach
  <2> QED BY <2>2, <2>3
<1>2. CASE StartWave
  <2>1. /\ place = "between" /\ place' = "wave" /\ looked' = {}
        /\ UNCHANGED <<attempts, execution, ordinal, cancelled>>
    BY <1>2 DEF StartWave
  <2>2. (1..(ordinal - 1)) \cup {} = 1..(ordinal - 1)
    OBVIOUS
  <2> QED BY <2>1, <2>2
<1>3. CASE WaveOver
  <2>1. /\ place \in {"wave", "drain"}
        /\ place = "wave" => looked = Members
        /\ place' = "between" /\ ordinal' = ordinal + Concurrency
        /\ UNCHANGED <<attempts, execution, cancelled>>
    BY <1>3 DEF WaveOver, NextOrdinal
  <2>2. CASE cancelled
    BY <2>1, <2>2
  <2>3. CASE ~cancelled
    <3>1. place = "wave" /\ looked = Members
      BY <2>1, <2>3 DEF WaveOK
    <3>2. (1..(ordinal - 1)) \cup Members = 1..(ordinal' - 1)
      BY <2>1 DEF TypeOK, Members
    <3>3. OneEach(Stored, (1..(ordinal - 1)) \cup Members)
      BY <3>1, <2>3
    <3>4. OneEach(Stored, 1..(ordinal' - 1))
      BY <3>2, <3>3, Zenon
    <3>5. Stored' = Stored
      BY <2>1
    <3> QED BY <3>4, <3>5, <2>1
  <2> QED BY <2>2, <2>3
<1>4. CASE BreakWave \/ Finish \/ AbortEnds \/ Cancel \/ Raises \/ AbortRaises
  BY <1>4 DEF BreakWave, Finish, AbortEnds, Cancel, Raises, AbortRaises
<1>5. ASSUME NEW o \in Ordinals, Look(o) \/ StoreFails(o) PROVE Progress'
  <2>1. /\ place = "wave" /\ ~cancelled /\ o \in Members \ looked
        /\ looked' = looked \cup {o}
        /\ UNCHANGED <<place, execution, ordinal, cancelled>>
    BY <1>5 DEF Look, StoreFails, Yielded
  <2>2. PICK g \in BOOLEAN : attempts' = attempts \cup {Attempt(o, g)}
    <3>1. request[o] # "stopped"
      BY <2>1 DEF WaveOK
    <3> QED BY <1>5, <3>1 DEF Look, StoreFails
  <2>3. /\ Stored' = Stored \cup {Attempt(o, g)}
        /\ Attempt(o, g).ordinal = o /\ Attempt(o, g).warmup = (wave < Warmups)
    BY <2>1, <2>2 DEF Attempt
  <2>4. wave < Warmups <=> o <= Warmups * Concurrency
    BY <2>1, MembersAreOrdinals DEF Numbered
  <2>5. o \notin (1..(ordinal - 1)) \cup looked
    BY <2>1, MembersAreOrdinals DEF Numbered
  <2>6. OneEach(Stored, (1..(ordinal - 1)) \cup looked)
    BY <2>1
  <2>7. ((1..(ordinal - 1)) \cup looked) \cup {o} = (1..(ordinal' - 1)) \cup looked'
    BY <2>1
  <2> HIDE DEF Stored
  <2>8. OneEach(Stored \cup {Attempt(o, g)}, ((1..(ordinal - 1)) \cup looked) \cup {o})
    BY <2>3, <2>4, <2>5, <2>6, OneMore
  <2>9. OneEach(Stored', (1..(ordinal' - 1)) \cup looked')
    BY <2>3, <2>7, <2>8, Zenon
  <2> QED BY <2>1, <2>9
<1>6. ASSUME NEW o \in Ordinals, Request(o) PROVE Progress'
  BY <1>6 DEF Request, Send, Answer, StreamEnds, PairedEnds, RequestFails, StopStream, Moves
<1>7. CASE UNCHANGED vars
  BY <1>7 DEF vars
<1> QED BY <1>1, <1>2, <1>3, <1>4, <1>5, <1>6, <1>7 DEF Next, Thread, Failure

\* A run succeeds only after its last wave, and is not executed again.
LEMMA CompleteStep == IInv /\ [Next]_vars => SucceededIsComplete'
<1> SUFFICES ASSUME IInv, [Next]_vars PROVE SucceededIsComplete'
  OBVIOUS
<1> USE DEF IInv, SucceededIsComplete, Rests, Stored, jobVars, rowVars, waveVars
<1>1. CASE Finish
  <2>1. CASE cancelled
    BY <1>1, <2>1 DEF Finish, FinalStatus
  <2>2. CASE ~cancelled
    <3>1. place = "between" /\ wave = Total /\ UNCHANGED <<attempts, execution>>
      BY <1>1, <2>2 DEF Finish, MoreWaves, TypeOK, Total
    <3>2. Ordinals = 1..(ordinal - 1)
      <4>1. ordinal = Total * Concurrency + 1 /\ Total * Concurrency \in Nat
        BY <3>1 DEF Numbered, Total
      <4> QED BY <4>1 DEF Ordinals, Total
    <3> QED BY <2>2, <3>1, <3>2 DEF Progress
  <2> QED BY <2>1, <2>2
<1>2. CASE Begin \/ AbortEnds
  BY <1>2 DEF Begin, AbortEnds
<1>3. CASE StartWave \/ BreakWave \/ WaveOver \/ Cancel \/ Raises \/ AbortRaises
  BY <1>3 DEF StartWave, BreakWave, WaveOver, Cancel, Raises, AbortRaises
<1>4. ASSUME NEW o \in Ordinals, Look(o) \/ StoreFails(o) PROVE SucceededIsComplete'
  BY <1>4 DEF Look, StoreFails, Yielded
<1>5. ASSUME NEW o \in Ordinals, Request(o) PROVE SucceededIsComplete'
  BY <1>5 DEF Request, Send, Answer, StreamEnds, PairedEnds, RequestFails, StopStream, Moves
<1>6. CASE UNCHANGED vars
  BY <1>6 DEF vars
<1> QED BY <1>1, <1>2, <1>3, <1>4, <1>5, <1>6 DEF Next, Thread, Failure
-----------------------------------------------------------------------------
\* The invariant, inductive: every state of every execution satisfies it.
THEOREM RunInvariant == Spec => []IInv
<1>1. IInv /\ [Next]_vars => IInv'
  BY TypeStep, NumberedStep, OneWaveStep, WaveStep, ProgressStep, RestsStep, CompleteStep DEF IInv
<1> QED BY InitInv, <1>1, PTL DEF Spec

\* TypeOK: what the engine stores and keeps in memory has its type, and no run
\* executes more waves than its configuration asks for.
THEOREM RunTypeCorrect == Spec => []TypeOK
<1>1. IInv => TypeOK
  BY DEF IInv
<1> QED BY RunInvariant, <1>1, PTL

\* OneWave: _run_wave leaves no request behind, even when it is cut short by a
\* cancellation or by an exception, so measurements of two waves or of two
\* runs never overlap.
THEOREM WavesDoNotOverlap == Spec => []OneWave
<1>1. IInv => OneWave
  BY DEF IInv
<1> QED BY RunInvariant, <1>1, PTL

\* SucceededIsComplete: _run_job_locked reports success only with one stored
\* attempt for each ordinal, for all concurrencies and numbers of waves.
THEOREM SuccessIsComplete == Spec => []SucceededIsComplete
<1>1. IInv => SucceededIsComplete
  BY DEF IInv
<1> QED BY RunInvariant, <1>1, PTL

-----------------------------------------------------------------------------
(***************************************************************************)
(* The summary of a run.                                                   *)
(***************************************************************************)
\* Attempts belong to executions that began; a run executed once that has
\* succeeded has its summary.
EarlyOK == /\ \A a \in attempts : a.execution >= 1
           /\ place # "idle" => execution >= 1
           /\ SummaryIsComplete

\* As many attempts are measured as the configuration asks for: they are the
\* attempts with the ordinals after the warm-up ones, one for each.
LEMMA MeasuredCount ==
  ASSUME IsFiniteSet(attempts), attempts \subseteq Attempts, OneEach(attempts, Ordinals)
  PROVE  Summary.successes + Summary.failures = Repeats * Concurrency
<1> DEFINE M == {a \in attempts : ~a.warmup}
           Good == {a \in attempts : a.ok /\ ~a.warmup}
           Bad  == {a \in attempts : ~a.ok /\ ~a.warmup}
           w == Warmups * Concurrency
           n == Repeats * Concurrency
           L == (w + 1)..(w + n)
           f == [a \in M |-> a.ordinal]
<1>1. /\ w \in Nat /\ n \in Nat \ {0}
      /\ Ordinals = 1..(w + n)
  <2>1. (Warmups + Repeats) * Concurrency = w + n
    OBVIOUS
  <2>2. w \in Nat /\ n \in Nat \ {0}
    OBVIOUS
  <2> QED BY <2>1, <2>2 DEF Ordinals
<1> HIDE DEF w, n
<1>2. IsFiniteSet(M) /\ IsFiniteSet(Good) /\ IsFiniteSet(Bad)
  BY FS_Subset
<1>3. ExistsBijection(M, L)
  <2>1. \A a \in M : a.ordinal \in L
    BY <1>1 DEF OneEach, Attempts, w
  <2>2. \A o \in L : \E a \in M : a.ordinal = o
    BY <1>1 DEF OneEach, w
  <2>3. \A a, b \in M : a.ordinal = b.ordinal => a = b
    BY DEF OneEach
  <2>4. f \in Injection(M, L)
    BY <2>1, <2>3 DEF Injection, IsInjective
  <2>5. f \in Surjection(M, L)
    BY <2>1, <2>2 DEF Surjection
  <2> QED BY <2>4, <2>5 DEF ExistsBijection, Bijection
<1>4. Cardinality(L) = Cardinality(M)
  BY <1>2, <1>3, FS_Bijection
<1>5. Cardinality(L) = n
  BY <1>1, FS_Interval
<1>6. Cardinality(Good \cup Bad) = Cardinality(Good) + Cardinality(Bad) - Cardinality(Good \cap Bad)
  BY <1>2, FS_Union
<1>7. Good \cup Bad = M /\ Good \cap Bad = {}
  OBVIOUS
<1>8. Cardinality({}) = 0 /\ Cardinality(Good) \in Nat /\ Cardinality(Bad) \in Nat
  BY <1>2, FS_EmptySet, FS_CardinalityType
<1>9. Cardinality(Good) + Cardinality(Bad) = n
  <2> HIDE DEF M, Good, Bad, L
  <2>1. Cardinality(M) = Cardinality(Good) + Cardinality(Bad) - 0
    BY <1>6, <1>7, <1>8
  <2> QED BY <2>1, <1>4, <1>5, <1>8
<1> QED BY <1>9 DEF Summary, n

\* The result of a first execution is summed up over all its attempts.
LEMMA EarlyStep == IInv /\ IInv' /\ EarlyOK /\ [Next]_vars => EarlyOK'
<1> SUFFICES ASSUME IInv, IInv', EarlyOK, [Next]_vars PROVE EarlyOK'
  OBVIOUS
<1> USE DEF EarlyOK, SummaryIsComplete, jobVars, rowVars, waveVars
<1>1. CASE Begin
  BY <1>1 DEF Begin, IInv, TypeOK
<1>2. CASE Finish
  <2>1. ASSUME status' = "succeeded", execution' = 1
        PROVE  summary'.successes + summary'.failures = Repeats * Concurrency
    <3>1. OneEach(Stored, Ordinals)
      <4>1. OneEach(Stored', Ordinals)
        BY <2>1 DEF IInv, SucceededIsComplete
      <4> QED BY <4>1, <1>2 DEF Finish, Stored
    <3>2. Stored = attempts
      <4>1. \A a \in attempts : a.execution \in Nat /\ a.execution >= 1 /\ a.execution <= execution
        BY DEF IInv, TypeOK, Attempts, Rests
      <4>2. execution = 1
        BY <1>2, <2>1 DEF Finish
      <4> QED BY <4>1, <4>2 DEF Stored
    <3>3. OneEach(attempts, Ordinals)
      BY <3>1, <3>2, Zenon
    <3> QED BY <1>2, <3>3, MeasuredCount DEF Finish, IInv, TypeOK, Rests
  <2> QED BY <1>2, <2>1 DEF Finish
<1>3. CASE AbortEnds
  BY <1>3 DEF AbortEnds
<1>4. CASE StartWave \/ BreakWave \/ WaveOver \/ Cancel \/ Raises \/ AbortRaises
  BY <1>4 DEF StartWave, BreakWave, Yielded, WaveOver, Cancel, Raises, AbortRaises, IInv, Rests
<1>5. ASSUME NEW o \in Ordinals, Look(o) \/ StoreFails(o) PROVE EarlyOK'
  <2>1. /\ UNCHANGED <<jobVars, execution, place>> /\ place = "wave"
        /\ attempts' = attempts \/ \E g \in BOOLEAN : attempts' = attempts \cup {Attempt(o, g)}
    BY <1>5 DEF Look, StoreFails, Yielded
  <2>2. \A g \in BOOLEAN : Attempt(o, g).execution = execution
    BY DEF Attempt
  <2> QED BY <2>1, <2>2
<1>6. ASSUME NEW o \in Ordinals, Request(o) PROVE EarlyOK'
  BY <1>6 DEF Request, Send, Answer, StreamEnds, PairedEnds, RequestFails, StopStream, Moves
<1>7. CASE UNCHANGED vars
  BY <1>7 DEF vars
<1> QED BY <1>1, <1>2, <1>3, <1>4, <1>5, <1>6, <1>7 DEF Next, Thread, Failure

\* SummaryIsComplete: the counts that summary_json shows for a run that
\* succeeded at once add up to Repeats * Concurrency, for all of them.
THEOREM SummaryAddsUp == Spec => []SummaryIsComplete
<1>1. Init => EarlyOK
  BY DEF Init, EarlyOK, SummaryIsComplete
<1>2. EarlyOK => SummaryIsComplete
  BY DEF EarlyOK
<1> QED BY <1>1, <1>2, EarlyStep, RunInvariant, PTL DEF Spec

-----------------------------------------------------------------------------
(***************************************************************************)
(* The execution of a run implements RunLife.                              *)
(***************************************************************************)
\* Begin, cancellation and end of a run are the only steps RunLife sees.
LEMMA LifeStep == TypeOK /\ [Next]_vars => [Life!Next]_Life!vars
<1> SUFFICES ASSUME TypeOK, [Next]_vars PROVE [Life!Next]_Life!vars
  OBVIOUS
<1> USE DEF Life!vars, jobVars, rowVars, waveVars
<1>1. CASE Begin
  BY <1>1 DEF Begin, Life!Next, Life!Begin
<1>2. CASE Finish
  BY <1>2 DEF Finish, FinalStatus, Life!Next, Life!End, Life!Outcomes
<1>3. CASE AbortEnds
  BY <1>3 DEF AbortEnds, Life!Next, Life!End, Life!Outcomes
<1>4. CASE AbortRaises
  BY <1>4 DEF AbortRaises, Life!Next, Life!Lose
<1>5. CASE Cancel
  BY <1>5 DEF Cancel, Life!Next, Life!Cancel
<1>6. CASE StartWave \/ BreakWave \/ WaveOver \/ Raises
  BY <1>6 DEF StartWave, BreakWave, Yielded, WaveOver, Raises
<1>7. ASSUME NEW o \in Ordinals, Look(o) \/ StoreFails(o) PROVE UNCHANGED Life!vars
  BY <1>7 DEF Look, StoreFails
<1>8. ASSUME NEW o \in Ordinals, Request(o) PROVE UNCHANGED Life!vars
  BY <1>8 DEF Request, Send, Answer, StreamEnds, PairedEnds, RequestFails, StopStream, Moves
<1>9. CASE UNCHANGED vars
  BY <1>9 DEF vars
<1> QED BY <1>1, <1>2, <1>3, <1>4, <1>5, <1>6, <1>7, <1>8, <1>9 DEF Next, Thread, Failure

\* ImplementsRunLife: whatever happens in the waves, the run begins, is
\* cancelled and ends as RunLife says: a cancellation asked for before the end
\* is never answered by "succeeded", and a run that is over never restarts.
THEOREM RunImplementsLife == Spec => ImplementsRunLife
<1>1. Init => Life!Init
  BY DEF Init, Life!Init
<1> QED BY <1>1, LifeStep, RunTypeCorrect, PTL DEF Spec, ImplementsRunLife, Life!Spec
=============================================================================
