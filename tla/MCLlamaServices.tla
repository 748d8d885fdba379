--------------------------- MODULE MCLlamaServices ---------------------------
(***************************************************************************)
(* LlamaServices for TLC.  The threads that serve requests and the         *)
(* configurations are interchangeable; each configuration has arguments of *)
(* its own.                                                                *)
(***************************************************************************)
EXTENDS LlamaServices, TLC

CONSTANTS s1, x1, x2, y1, y2, v1, v2

MCArgs == [c \in Configs |-> c]
MCDeployed == {s1}
MCFirstPayload == [s \in {s1} |-> [host |-> x1, port |-> y1, paths |-> v1]]

\* Every address; for the first one, a request that changes a path alone.
MCForms == {[host |-> x1, port |-> y1, paths |-> v2], [host |-> x1, port |-> y2, paths |-> v1],
            [host |-> x2, port |-> y1, paths |-> v1], [host |-> x2, port |-> y2, paths |-> v1]}

Symmetry == Permutations(Handlers) \cup Permutations(Configs)
=============================================================================
