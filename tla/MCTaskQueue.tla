----------------------------- MODULE MCTaskQueue -----------------------------
EXTENDS TaskQueueProps

\* No behaviour ends for want of a run identity.
ASSUME EnoughRuns == Cardinality(Runs) >= QueueDemand

ListsUpTo(n) == UNION {[1..k -> Items] : k \in 1..n}
NoLists == {}
Lists2 == ListsUpTo(2)
=============================================================================
