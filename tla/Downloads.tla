----------------------------- MODULE Downloads -----------------------------
(***************************************************************************)
(* The downloads of model files: the request that checks the disk and      *)
(* inserts a job, the pool that fetches a body chunk by chunk into a .part *)
(* file and renames it to its target, the cancellation marks that are read *)
(* between chunks, and the recovery at startup.                            *)
(*                                                                         *)
(* A file name leads to an inode, named after the job that created it: a   *)
(* job that opens an existing .part truncates and writes the same inode,   *)
(* and goes on writing to it after another job has renamed it.             *)
(***************************************************************************)
EXTENDS Integers, FiniteSets, Sequences

CONSTANTS
  Jobs,        \* download jobs, numbered in the order of creation
  Files,       \* names a client may ask for
  NULL,
  Chunks,      \* chunks of a response body
  Workers,     \* threads of EXECUTOR
  MaxFaults,   \* bound on failing commits and unlinks (a recovery counts once)
  MaxCrashes   \* bound on restarts of the process

ASSUME DownloadsAssumption ==
  /\ Jobs \subseteq Nat
  /\ Chunks \in Nat \ {0} /\ Workers \in Nat \ {0}
  /\ {MaxFaults, MaxCrashes} \subseteq Nat
  /\ NULL \notin Jobs \cup Files

VARIABLES
  \* download_jobs
  status, target,
  \* the disk: names, and for each inode the job that wrote each chunk
  part, file, data,
  \* threads: where each job is, the inode it has open, chunks it has written
  place, handle, offset,
  \* the queue of the pool, _cancelled_downloads
  submitted, marks,
  \* the process serves requests
  up,
  \* files for which a job was inserted although another was under way or a
  \* file had appeared since the check, and interrupted jobs whose .part the
  \* recovery could not remove (history: no guard reads them)
  shared, kept,
  faults, crashes

rowVars    == <<status, target>>
diskVars   == <<part, file, data>>
threadVars == <<place, handle, offset>>
history    == <<shared, kept>>
budgets    == <<faults, crashes>>
vars == <<rowVars, diskVars, threadVars, submitted, marks, up, history, budgets>>

Terminal == {"succeeded", "failed", "cancelled"}
Status   == {"none", "queued", "running"} \cup Terminal
Active   == {"request", "stream", "remove", "commit", "except"}
Places   == {"none", "checked", "submitted", "done", "unstored", "lost"} \cup Active

UnderWay(j) == place[j] \in {"submitted"} \cup Active
Fresh       == {j \in Jobs : \A k \in Jobs : place[k] = "none" <=> k >= j}
NoData      == [n \in 1..Chunks |-> NULL]

Init ==
  /\ status = [j \in Jobs |-> "none"] /\ target = [j \in Jobs |-> NULL]
  /\ part = [f \in Files |-> NULL] /\ file = [f \in Files |-> NULL]
  /\ data = [i \in Jobs |-> NoData]
  /\ place = [j \in Jobs |-> "none"]
  /\ handle = [j \in Jobs |-> NULL] /\ offset = [j \in Jobs |-> 0]
  /\ submitted = <<>> /\ marks = {}
  /\ up = TRUE /\ shared = {} /\ kept = {}
  /\ faults = 0 /\ crashes = 0

Goto(j, p) == place' = [place EXCEPT ![j] = p]
Store(j, s) == status' = [status EXCEPT ![j] = s]

-----------------------------------------------------------------------------
(***************************************************************************)
(* Requests.                                                               *)
(***************************************************************************)
\* Mutant: only a .part is looked for.
Free_PartOnly(f) == part[f] = NULL

Free(f) == file[f] = NULL /\ part[f] = NULL

Check(j, f) ==
  /\ up /\ j \in Fresh /\ Free(f)
  /\ Goto(j, "checked")
  /\ target' = [target EXCEPT ![j] = f]
  /\ UNCHANGED <<status, diskVars, handle, offset, submitted, marks, up, history, budgets>>

Rivals(j) == {k \in Jobs \ {j} : target[k] = target[j] /\ UnderWay(k)}

\* The commit of the row and its submission to the pool.
Insert(j) ==
  /\ place[j] = "checked"
  /\ Goto(j, "submitted") /\ Store(j, "queued")
  /\ submitted' = Append(submitted, j)
  /\ shared' = IF Rivals(j) = {} /\ Free(target[j]) THEN shared ELSE shared \cup {target[j]}
  /\ UNCHANGED <<target, diskVars, handle, offset, marks, up, kept, budgets>>

\* The mark of a job that has left _run_download is never read again and is
\* not kept here.
Cancel(j) ==
  /\ up /\ UnderWay(j)
  /\ marks' = marks \cup {j}
  /\ UNCHANGED <<rowVars, diskVars, threadVars, submitted, up, history, budgets>>

-----------------------------------------------------------------------------
(***************************************************************************)
(* _run_download, on a thread of the pool.                                 *)
(***************************************************************************)
\* Mutant: the mark is cleared when the job starts.
Begin_ClearsMark(j) ==
  /\ place[j] = "submitted" /\ submitted # <<>> /\ j = Head(submitted)
  /\ Cardinality({k \in Jobs : place[k] \in Active}) < Workers
  /\ submitted' = Tail(submitted) /\ marks' = marks \ {j}
  /\ Goto(j, "request") /\ Store(j, "running")
  /\ UNCHANGED <<target, diskVars, handle, offset, up, history, budgets>>

Begin(j) ==
  /\ place[j] = "submitted" /\ submitted # <<>> /\ j = Head(submitted)
  /\ Cardinality({k \in Jobs : place[k] \in Active}) < Workers
  /\ submitted' = Tail(submitted)
  /\ Goto(j, "request") /\ Store(j, "running")
  /\ UNCHANGED <<target, diskVars, handle, offset, marks, up, history, budgets>>

\* A 2xx answer: open("wb") creates the .part or truncates the one there.
Answer(j) ==
  LET f == target[j]
      i == IF part[f] = NULL THEN j ELSE part[f]
  IN /\ place[j] = "request"
     /\ Goto(j, "stream")
     /\ part' = [part EXCEPT ![f] = i]
     /\ data' = [data EXCEPT ![i] = NoData]
     /\ handle' = [handle EXCEPT ![j] = i]
     /\ UNCHANGED <<rowVars, file, offset, submitted, marks, up, history, budgets>>

\* Mutant: one chunk too many.
Chunk_OffByOne(j) ==
  /\ place[j] = "stream" /\ offset[j] <= Chunks /\ j \notin marks
  /\ offset' = [offset EXCEPT ![j] = @ + 1]
  /\ data' = [data EXCEPT ![handle[j]][offset[j] + 1] = j]
  /\ UNCHANGED <<rowVars, part, file, place, handle, submitted, marks, up, history, budgets>>

\* The mark is looked at before each chunk is written.
Chunk(j) ==
  /\ place[j] = "stream" /\ offset[j] < Chunks /\ j \notin marks
  /\ offset' = [offset EXCEPT ![j] = @ + 1]
  /\ data' = [data EXCEPT ![handle[j]][offset[j] + 1] = j]
  /\ UNCHANGED <<rowVars, part, file, place, handle, submitted, marks, up, history, budgets>>

\* Mutant: no return after the loop has been left.
StopAtChunk_FallsThrough(j) ==
  /\ place[j] = "stream" /\ offset[j] < Chunks /\ j \in marks
  /\ Goto(j, "commit") /\ Store(j, "cancelled")
  /\ UNCHANGED <<target, diskVars, handle, offset, submitted, marks, up, history, budgets>>

StopAtChunk(j) ==
  /\ place[j] = "stream" /\ offset[j] < Chunks /\ j \in marks
  /\ Goto(j, "remove") /\ Store(j, "cancelled")
  /\ UNCHANGED <<target, diskVars, handle, offset, submitted, marks, up, history, budgets>>

\* Leaves the function; the finally clause discards the mark.
Leave(j, p) == Goto(j, p) /\ marks' = marks \ {j}

RemovePart(j) ==
  /\ place[j] = "remove"
  /\ part' = [part EXCEPT ![target[j]] = NULL]
  /\ Leave(j, "done")
  /\ UNCHANGED <<rowVars, file, data, handle, offset, submitted, up, history, budgets>>

\* Mutant: a body that breaks off counts as complete.
Rename_AnyTime(j) ==
  LET f == target[j] IN
  /\ place[j] = "stream" /\ part[f] # NULL
  /\ file' = [file EXCEPT ![f] = part[f]] /\ part' = [part EXCEPT ![f] = NULL]
  /\ Goto(j, "commit")
  /\ UNCHANGED <<rowVars, data, handle, offset, submitted, marks, up, history, budgets>>

\* Mutant: the status is stored before the file is renamed.
Rename_CommitFirst(j) ==
  /\ place[j] = "stream" /\ offset[j] = Chunks
  /\ Goto(j, "commit")
  /\ UNCHANGED <<rowVars, diskVars, handle, offset, submitted, marks, up, history, budgets>>

\* The body is over: os.replace takes whatever is named .part now.
Rename(j) ==
  LET f == target[j] IN
  /\ place[j] = "stream" /\ offset[j] = Chunks /\ part[f] # NULL
  /\ file' = [file EXCEPT ![f] = part[f]] /\ part' = [part EXCEPT ![f] = NULL]
  /\ Goto(j, "commit")
  /\ UNCHANGED <<rowVars, data, handle, offset, submitted, marks, up, history, budgets>>

StoreSuccess(j) ==
  /\ place[j] = "commit"
  /\ Store(j, "succeeded") /\ Leave(j, "done")
  /\ UNCHANGED <<target, diskVars, handle, offset, submitted, up, history, budgets>>

\* No answer, an error status, a broken body, a full disk, no .part to rename.
Fails(j) ==
  /\ place[j] \in {"request", "stream"}
  /\ Goto(j, "except")
  /\ UNCHANGED <<rowVars, diskVars, handle, offset, submitted, marks, up, history, budgets>>

\* The unlink or the last commit raises.
Raises(j) ==
  /\ faults < MaxFaults /\ place[j] \in {"remove", "commit"}
  /\ Goto(j, "except") /\ faults' = faults + 1
  /\ UNCHANGED <<rowVars, diskVars, handle, offset, submitted, marks, up, history, crashes>>

StoreFailure(j) ==
  /\ place[j] = "except"
  /\ Store(j, "failed") /\ Leave(j, "done")
  /\ UNCHANGED <<target, diskVars, handle, offset, submitted, up, history, budgets>>

\* The commit of the failure raises as well: the row stays as it is.
LoseFailure(j) ==
  /\ faults < MaxFaults /\ place[j] = "except"
  /\ Leave(j, "unstored") /\ faults' = faults + 1
  /\ UNCHANGED <<rowVars, diskVars, handle, offset, submitted, up, history, crashes>>

-----------------------------------------------------------------------------
(***************************************************************************)
(* A restart: threads, marks and the queue of the pool are gone; the       *)
(* recovery runs before any request is served.                             *)
(***************************************************************************)
Crash ==
  /\ up /\ crashes < MaxCrashes
  /\ up' = FALSE /\ crashes' = crashes + 1
  /\ place' = [j \in Jobs |-> IF place[j] \in {"none", "done"} THEN place[j] ELSE "lost"]
  /\ submitted' = <<>> /\ marks' = {}
  /\ UNCHANGED <<rowVars, diskVars, handle, offset, history, faults>>

\* Mutant: jobs that were still waiting for a thread are overlooked.
Interrupted_RunningOnly == {j \in Jobs : status[j] = "running"}

Interrupted == {j \in Jobs : status[j] \in {"queued", "running"}}

\* Mutant: only the rows are recovered.
RecoverDownloads_RowsOnly ==
  /\ ~up
  /\ up' = TRUE
  /\ status' = [j \in Jobs |-> IF j \in Interrupted THEN "failed" ELSE status[j]]
  /\ UNCHANGED <<target, diskVars, threadVars, submitted, marks, history, budgets>>

\* Each unlink has a try of its own: one that fails is logged, its row is
\* stored as failed like the others.
RecoverDownloads ==
  \E failing \in SUBSET {j \in Interrupted : part[target[j]] # NULL} :
    /\ ~up /\ up' = TRUE
    /\ failing # {} => faults < MaxFaults
    /\ status' = [j \in Jobs |-> IF j \in Interrupted THEN "failed" ELSE status[j]]
    /\ part' = [f \in Files |-> IF \E j \in Interrupted \ failing : target[j] = f THEN NULL ELSE part[f]]
    /\ kept' = kept \cup failing
    /\ faults' = IF failing = {} THEN faults ELSE faults + 1
    /\ UNCHANGED <<target, file, data, threadVars, submitted, marks, shared, crashes>>

-----------------------------------------------------------------------------
Thread(j) ==
  \/ Begin(j) \/ Answer(j) \/ Chunk(j) \/ StopAtChunk(j) \/ RemovePart(j)
  \/ Rename(j) \/ StoreSuccess(j) \/ Fails(j) \/ StoreFailure(j)

Next ==
  \/ \E j \in Jobs : \/ \E f \in Files : Check(j, f)
                     \/ Insert(j) \/ Cancel(j)
                     \/ Thread(j) \/ Raises(j) \/ LoseFailure(j)
  \/ Crash \/ RecoverDownloads

Spec == Init /\ [][Next]_vars

\* Requests run to their end, threads run, every wait on the network has a
\* timeout, and the process is started again.
Fairness ==
  /\ \A j \in Jobs : WF_vars(Insert(j)) /\ WF_vars(Thread(j))
  /\ WF_vars(RecoverDownloads)

FairSpec == Spec /\ Fairness

-----------------------------------------------------------------------------
TypeOK ==
  /\ status \in [Jobs -> Status] /\ target \in [Jobs -> Files \cup {NULL}]
  /\ part \in [Files -> Jobs \cup {NULL}] /\ file \in [Files -> Jobs \cup {NULL}]
  /\ data \in [Jobs -> [1..Chunks -> Jobs \cup {NULL}]]
  /\ place \in [Jobs -> Places] /\ handle \in [Jobs -> Jobs \cup {NULL}]
  /\ offset \in [Jobs -> 0..Chunks]
  /\ submitted \in Seq(Jobs) /\ marks \subseteq Jobs
  /\ up \in BOOLEAN /\ shared \subseteq Files /\ kept \subseteq Jobs
  /\ faults \in 0..MaxFaults /\ crashes \in 0..MaxCrashes

\* The file a client finds under the name of a model holds every chunk of one
\* response: writing to .part and renaming hides the rest.
Whole(i) == \E j \in Jobs : \A n \in 1..Chunks : data[i][n] = j
TargetIsWhole == \A f \in Files \ shared : file[f] # NULL => Whole(file[f])

\* A download is reported as succeeded only if its file is in place.
SucceededHasFile ==
  \A j \in Jobs : status[j] = "succeeded" => file[target[j]] # NULL

\* While requests are served, a .part that no thread is writing was left by a
\* job that failed by itself, by one whose cancellation was stored just before
\* the process ended, or by an interrupted one whose unlink raised in the
\* recovery: the recovery overlooks none.  Such a .part makes create_download
\* refuse the name.
Owns(j) == \/ place[j] \in {"stream", "remove", "except", "unstored"}
           \/ place[j] = "done" /\ status[j] = "failed"
           \/ place[j] = "lost" /\ status[j] = "cancelled"
           \/ j \in kept
PartHasOwner ==
  up => \A f \in Files : part[f] # NULL => \E j \in Jobs : target[j] = f /\ Owns(j)

\* A model file is not replaced by a later download of the same name, unless
\* create_download answered from a check that did not see the other job.
NoOverwrite ==
  [][\A f \in Files \ shared : file[f] # NULL => file'[f] = file[f]]_vars

\* A final status stays, but for a cancelled job whose .part could not be
\* removed: the exception handler stores it as failed.
FinalStatus ==
  [][\A j \in Jobs : \/ status[j] \notin Terminal
                     \/ status'[j] = status[j]
                     \/ status[j] = "cancelled" /\ place[j] = "except"]_vars

\* A cancellation accepted while a chunk is still to come wins: the job never
\* succeeds, whatever place it was in.
InTime(j) == /\ j \in marks
             /\ \/ place[j] \in {"submitted", "request"}
                \/ place[j] = "stream" /\ offset[j] < Chunks
CancelInTime == \A j \in Jobs : [](InTime(j) => [](status[j] # "succeeded"))

\* Every accepted download comes to a final status, over restarts too, unless
\* the commit of its failure failed as well.
EveryDownloadEnds ==
  \A j \in Jobs : status[j] \in {"queued", "running"} ~>
                     (status[j] \in Terminal \/ place[j] = "unstored")
=============================================================================
