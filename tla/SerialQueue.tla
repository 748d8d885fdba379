----------------------------- MODULE SerialQueue -----------------------------
(***************************************************************************)
(* What the task queue promises, without its scheduler, its lock or its    *)
(* database: an item is submitted once, served one at a time, possibly     *)
(* handed back, and retired for good; a benchmark run is opened once and,  *)
(* once it is over, stays over.                                            *)
(***************************************************************************)
CONSTANTS Items,   \* identities of queue items
          Runs     \* identities of benchmark runs

VARIABLES phase,   \* phase[i]: where item i is in its life
          life     \* life[r]: where run r is in its life

vars == <<phase, life>>

Init == /\ phase = [i \in Items |-> "new"]
        /\ life  = [r \in Runs |-> "none"]

Submit(i) == /\ phase[i] = "new"
             /\ phase' = [phase EXCEPT ![i] = "waiting"]
             /\ UNCHANGED life

\* Serving is exclusive: an item is taken only when none is being served.
Serve(i) == /\ phase[i] = "waiting"
            /\ \A j \in Items : phase[j] # "running"
            /\ phase' = [phase EXCEPT ![i] = "running"]
            /\ UNCHANGED life

HandBack(i) == /\ phase[i] = "running"
               /\ phase' = [phase EXCEPT ![i] = "waiting"]
               /\ UNCHANGED life

\* Finished, removed or deleted with its task: items leave together with
\* runs that are recorded as over in the same transaction.
Retire(S, R) == /\ \A i \in S : phase[i] \in {"waiting", "running"}
                /\ phase' = [i \in Items |-> IF i \in S THEN "gone" ELSE phase[i]]
                /\ life'  = [r \in Runs |-> IF r \in R THEN "over" ELSE life[r]]

Open(r) == /\ life[r] = "none"
           /\ life' = [life EXCEPT ![r] = "open"]
           /\ UNCHANGED phase

Next == \/ \E i \in Items : Submit(i) \/ Serve(i) \/ HandBack(i)
        \/ \E S \in SUBSET Items, R \in SUBSET Runs : Retire(S, R)
        \/ \E r \in Runs : Open(r)

Spec == Init /\ [][Next]_vars
=============================================================================
