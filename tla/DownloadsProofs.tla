-------------------------- MODULE DownloadsProofs --------------------------
(***************************************************************************)
(* Proofs about the downloads, for every number of jobs, files, chunks,    *)
(* threads, failures and restarts.                                         *)
(***************************************************************************)
EXTENDS Downloads, TLAPS

USE DownloadsAssumption DEF DownloadsAssumption

\* Where a thread is tells the status of its job.
StatusOf(p) ==
  CASE p \in {"none", "checked"}              -> {"none"}
    [] p = "submitted"                        -> {"queued"}
    [] p \in {"request", "stream", "commit"}  -> {"running"}
    [] p = "remove"                           -> {"cancelled"}
    [] p \in {"except", "unstored"}           -> {"running", "cancelled"}
    [] p = "done"                             -> Terminal
    [] OTHER                                  -> Status

Rows == \A j \in Jobs :
  /\ status[j] \in StatusOf(place[j])
  /\ (place[j] = "none" <=> target[j] = NULL)
  /\ place[j] \in {"none", "checked", "submitted", "request"} => offset[j] = 0
  /\ ~up => place[j] \in {"none", "done", "lost"}

\* Names lead to inodes created for that name; a thread writes to one of them.
Links ==
  /\ \A f \in Files : part[f] # NULL => target[part[f]] = f
  /\ \A f \in Files : file[f] # NULL => target[file[f]] = f
  /\ \A j \in Jobs : place[j] = "stream" => /\ handle[j] # NULL
                                           /\ target[handle[j]] = target[j]

\* SucceededHasFile strengthened: the file is in place before the commit.
Placed == \A j \in Jobs : (place[j] = "commit" \/ status[j] = "succeeded")
                              => file[target[j]] # NULL

\* PartHasOwner strengthened: a job cut by a restart owns its .part until the
\* recovery, and after it if the unlink raised.
Owned == \A f \in Files : part[f] # NULL =>
           \E j \in Jobs : target[j] = f /\ (Owns(j) \/ (~up /\ status[j] = "running"))

\* On a file that no check has missed: one job at a time, which finds neither
\* a file nor a .part and writes its own inode in the order of the chunks.
Alone == \A j, k \in Jobs : (/\ UnderWay(j) /\ UnderWay(k) /\ target[j] = target[k]
                             /\ target[j] \notin shared) => j = k
Clean == \A j \in Jobs : target[j] \notin shared =>
  /\ place[j] \in {"submitted", "request", "stream", "remove"} => file[target[j]] = NULL
  /\ place[j] \in {"submitted", "request"} => part[target[j]] = NULL
  /\ place[j] = "stream" => /\ part[target[j]] = j /\ handle[j] = j
                            /\ \A n \in 1..offset[j] : data[j][n] = j

IInv == TypeOK /\ Rows /\ Links /\ Placed /\ Owned /\ Alone /\ Clean /\ TargetIsWhole

-----------------------------------------------------------------------------
\* Types are kept.
LEMMA TypeStep ==
  ASSUME TypeOK, Rows, Links, Next PROVE TypeOK'
<1>1. ASSUME NEW j \in Jobs, NEW f \in Files, Check(j, f) PROVE TypeOK'
  BY <1>1 DEF Check, Fresh, TypeOK, Places, Active, Status, Terminal, UnderWay, NoData, Goto, Store, Leave, rowVars, diskVars, threadVars, history, budgets
<1>2. ASSUME NEW j \in Jobs, Begin(j) PROVE TypeOK'
  BY <1>2 DEF Begin, TypeOK, Places, Active, Status, Terminal, UnderWay, NoData, Goto, Store, Leave, rowVars, diskVars, threadVars, history, budgets
<1>3. ASSUME NEW j \in Jobs, Answer(j) PROVE TypeOK'
  <2>1. target[j] \in Files /\ part[target[j]] \in Jobs \cup {NULL}
    BY <1>3 DEF Answer, TypeOK, Rows
  <2>2. NoData \in [1..Chunks -> Jobs \cup {NULL}]
    BY DEF NoData
  <2>3. \E i \in Jobs : part' = [part EXCEPT ![target[j]] = i] /\ data' = [data EXCEPT ![i] = NoData] /\ handle' = [handle EXCEPT ![j] = i]
    BY <1>3, <2>1 DEF Answer
  <2> QED BY <1>3, <2>1, <2>2, <2>3 DEF Answer, TypeOK, Places, Active, Goto, rowVars, history, budgets
<1>4. ASSUME NEW j \in Jobs, Chunk(j) PROVE TypeOK'
  <2>1. handle[j] \in Jobs /\ offset[j] + 1 \in 1..Chunks
    BY <1>4 DEF Chunk, TypeOK, Links
  <2>2. data' \in [Jobs -> [1..Chunks -> Jobs \cup {NULL}]]
    BY <1>4, <2>1 DEF Chunk, TypeOK
  <2>3. offset' \in [Jobs -> 0..Chunks]
    BY <1>4, <2>1 DEF Chunk, TypeOK
  <2> QED BY <1>4, <2>2, <2>3 DEF Chunk, TypeOK, rowVars, history, budgets
<1>5. ASSUME NEW j \in Jobs, StopAtChunk(j) PROVE TypeOK'
  BY <1>5 DEF StopAtChunk, TypeOK, Places, Active, Status, Terminal, UnderWay, NoData, Goto, Store, Leave, rowVars, diskVars, threadVars, history, budgets
<1>6. ASSUME NEW j \in Jobs, RemovePart(j) PROVE TypeOK'
  BY <1>6 DEF RemovePart, TypeOK, Places, Active, Status, Terminal, UnderWay, NoData, Goto, Store, Leave, rowVars, diskVars, threadVars, history, budgets
<1>7. ASSUME NEW j \in Jobs, Rename(j) PROVE TypeOK'
  BY <1>7 DEF Rename, TypeOK, Places, Active, Status, Terminal, UnderWay, NoData, Goto, Store, Leave, rowVars, diskVars, threadVars, history, budgets
<1>8. ASSUME NEW j \in Jobs, StoreSuccess(j) PROVE TypeOK'
  BY <1>8 DEF StoreSuccess, TypeOK, Places, Active, Status, Terminal, UnderWay, NoData, Goto, Store, Leave, rowVars, diskVars, threadVars, history, budgets
<1>9. ASSUME NEW j \in Jobs, Fails(j) PROVE TypeOK'
  BY <1>9 DEF Fails, TypeOK, Places, Active, Status, Terminal, UnderWay, NoData, Goto, Store, Leave, rowVars, diskVars, threadVars, history, budgets
<1>10. ASSUME NEW j \in Jobs, StoreFailure(j) PROVE TypeOK'
  BY <1>10 DEF StoreFailure, TypeOK, Places, Active, Status, Terminal, UnderWay, NoData, Goto, Store, Leave, rowVars, diskVars, threadVars, history, budgets
<1>11. ASSUME NEW j \in Jobs, Insert(j) PROVE TypeOK'
  <2>1. submitted' \in Seq(Jobs)
    BY <1>11 DEF Insert, TypeOK
  <2>2. shared' \subseteq Files
    BY <1>11 DEF Insert, TypeOK, Rows
  <2> QED BY <1>11, <2>1, <2>2 DEF Insert, TypeOK, Places, Active, Status, Goto, Store, Leave, rowVars, diskVars, threadVars, history, budgets
<1>12. ASSUME NEW j \in Jobs, Cancel(j) PROVE TypeOK'
  BY <1>12 DEF Cancel, TypeOK, Places, Active, Status, Terminal, UnderWay, NoData, Goto, Store, Leave, rowVars, diskVars, threadVars, history, budgets
<1>13. ASSUME NEW j \in Jobs, Raises(j) PROVE TypeOK'
  BY <1>13 DEF Raises, TypeOK, Places, Active, Status, Terminal, UnderWay, NoData, Goto, Store, Leave, rowVars, diskVars, threadVars, history, budgets
<1>14. ASSUME NEW j \in Jobs, LoseFailure(j) PROVE TypeOK'
  BY <1>14 DEF LoseFailure, TypeOK, Places, Active, Status, Terminal, UnderWay, NoData, Goto, Store, Leave, rowVars, diskVars, threadVars, history, budgets
<1>15. ASSUME Crash PROVE TypeOK'
  <2>1. place' \in [Jobs -> Places]
    BY <1>15 DEF Crash, TypeOK, Places
  <2>2. submitted' = <<>> /\ <<>> \in Seq(Jobs) /\ marks' = {} /\ up' = FALSE
    BY <1>15 DEF Crash
  <2>3. crashes' \in 0..MaxCrashes
    BY <1>15 DEF Crash, TypeOK
  <2> QED BY <1>15, <2>1, <2>2, <2>3 DEF Crash, TypeOK, Goto, Store, Leave, rowVars, diskVars, threadVars, history, budgets
<1>16. ASSUME RecoverDownloads PROVE TypeOK'
  <2>1. PICK failing \in SUBSET {j \in Interrupted : part[target[j]] # NULL} :
          /\ up' = TRUE
          /\ failing # {} => faults < MaxFaults
          /\ status' = [j \in Jobs |-> IF j \in Interrupted THEN "failed" ELSE status[j]]
          /\ part' = [f \in Files |-> IF \E j \in Interrupted \ failing : target[j] = f THEN NULL ELSE part[f]]
          /\ kept' = kept \cup failing
          /\ faults' = IF failing = {} THEN faults ELSE faults + 1
          /\ UNCHANGED <<target, file, data, threadVars, submitted, marks, shared, crashes>>
    BY <1>16 DEF RecoverDownloads
  <2>2. status' \in [Jobs -> Status] /\ part' \in [Files -> Jobs \cup {NULL}]
    BY <2>1 DEF TypeOK, Status, Terminal
  <2>3. kept' \subseteq Jobs
    BY <2>1 DEF Interrupted, TypeOK
  <2>4. faults' \in 0..MaxFaults
    BY <2>1 DEF TypeOK
  <2> QED BY <2>1, <2>2, <2>3, <2>4 DEF TypeOK, threadVars
<1> QED BY <1>1, <1>2, <1>3, <1>4, <1>5, <1>6, <1>7, <1>8, <1>9, <1>10, <1>11, <1>12, <1>13, <1>14, <1>15, <1>16 DEF Next, Thread

\* Rows is kept.
LEMMA RowsStep ==
  ASSUME TypeOK, Rows, Next PROVE Rows'
<1>1. ASSUME NEW j \in Jobs, NEW f \in Files, Check(j, f) PROVE Rows'
  BY <1>1 DEF Check, Fresh, TypeOK, Rows, StatusOf, Status, Terminal, Interrupted, UnderWay, Active, Places, Goto, Store, Leave, rowVars, diskVars, threadVars, history, budgets
<1>2. ASSUME NEW j \in Jobs, Begin(j) PROVE Rows'
  BY <1>2 DEF Begin, TypeOK, Rows, StatusOf, Status, Terminal, Interrupted, UnderWay, Active, Places, Goto, Store, Leave, rowVars, diskVars, threadVars, history, budgets
<1>3. ASSUME NEW j \in Jobs, Answer(j) PROVE Rows'
  BY <1>3 DEF Answer, TypeOK, Rows, StatusOf, Status, Terminal, Interrupted, UnderWay, Active, Places, Goto, Store, Leave, rowVars, diskVars, threadVars, history, budgets
<1>4. ASSUME NEW j \in Jobs, Chunk(j) PROVE Rows'
  BY <1>4 DEF Chunk, TypeOK, Rows, StatusOf, Status, Terminal, Interrupted, UnderWay, Active, Places, Goto, Store, Leave, rowVars, diskVars, threadVars, history, budgets
<1>5. ASSUME NEW j \in Jobs, StopAtChunk(j) PROVE Rows'
  BY <1>5 DEF StopAtChunk, TypeOK, Rows, StatusOf, Status, Terminal, Interrupted, UnderWay, Active, Places, Goto, Store, Leave, rowVars, diskVars, threadVars, history, budgets
<1>6. ASSUME NEW j \in Jobs, RemovePart(j) PROVE Rows'
  BY <1>6 DEF RemovePart, TypeOK, Rows, StatusOf, Status, Terminal, Interrupted, UnderWay, Active, Places, Goto, Store, Leave, rowVars, diskVars, threadVars, history, budgets
<1>7. ASSUME NEW j \in Jobs, Rename(j) PROVE Rows'
  BY <1>7 DEF Rename, TypeOK, Rows, StatusOf, Status, Terminal, Interrupted, UnderWay, Active, Places, Goto, Store, Leave, rowVars, diskVars, threadVars, history, budgets
<1>8. ASSUME NEW j \in Jobs, StoreSuccess(j) PROVE Rows'
  BY <1>8 DEF StoreSuccess, TypeOK, Rows, StatusOf, Status, Terminal, Interrupted, UnderWay, Active, Places, Goto, Store, Leave, rowVars, diskVars, threadVars, history, budgets
<1>9. ASSUME NEW j \in Jobs, Fails(j) PROVE Rows'
  BY <1>9 DEF Fails, TypeOK, Rows, StatusOf, Status, Terminal, Interrupted, UnderWay, Active, Places, Goto, Store, Leave, rowVars, diskVars, threadVars, history, budgets
<1>10. ASSUME NEW j \in Jobs, StoreFailure(j) PROVE Rows'
  BY <1>10 DEF StoreFailure, TypeOK, Rows, StatusOf, Status, Terminal, Interrupted, UnderWay, Active, Places, Goto, Store, Leave, rowVars, diskVars, threadVars, history, budgets
<1>11. ASSUME NEW j \in Jobs, Insert(j) PROVE Rows'
  BY <1>11 DEF Insert, TypeOK, Rows, StatusOf, Status, Terminal, Interrupted, UnderWay, Active, Places, Goto, Store, Leave, rowVars, diskVars, threadVars, history, budgets
<1>12. ASSUME NEW j \in Jobs, Cancel(j) PROVE Rows'
  BY <1>12 DEF Cancel, TypeOK, Rows, StatusOf, Status, Terminal, Interrupted, UnderWay, Active, Places, Goto, Store, Leave, rowVars, diskVars, threadVars, history, budgets
<1>13. ASSUME NEW j \in Jobs, Raises(j) PROVE Rows'
  BY <1>13 DEF Raises, TypeOK, Rows, StatusOf, Status, Terminal, Interrupted, UnderWay, Active, Places, Goto, Store, Leave, rowVars, diskVars, threadVars, history, budgets
<1>14. ASSUME NEW j \in Jobs, LoseFailure(j) PROVE Rows'
  BY <1>14 DEF LoseFailure, TypeOK, Rows, StatusOf, Status, Terminal, Interrupted, UnderWay, Active, Places, Goto, Store, Leave, rowVars, diskVars, threadVars, history, budgets
<1>15. ASSUME Crash PROVE Rows'
  BY <1>15 DEF Crash, TypeOK, Rows, StatusOf, Status, Terminal, Interrupted, UnderWay, Active, Places, Goto, Store, Leave, rowVars, diskVars, threadVars, history, budgets
<1>16. ASSUME RecoverDownloads PROVE Rows'
  BY <1>16 DEF RecoverDownloads, TypeOK, Rows, StatusOf, Status, Terminal, Interrupted, UnderWay, Active, Places, Goto, Store, Leave, rowVars, diskVars, threadVars, history, budgets
<1> QED BY <1>1, <1>2, <1>3, <1>4, <1>5, <1>6, <1>7, <1>8, <1>9, <1>10, <1>11, <1>12, <1>13, <1>14, <1>15, <1>16 DEF Next, Thread

\* Links is kept.
LEMMA LinksStep ==
  ASSUME TypeOK, Rows, Links, Next PROVE Links'
<1>1. ASSUME NEW j \in Jobs, NEW f \in Files, Check(j, f) PROVE Links'
  BY <1>1 DEF Check, Fresh, TypeOK, Rows, Links, Goto, Store, Leave, rowVars, diskVars, threadVars, history, budgets
<1>2. ASSUME NEW j \in Jobs, Begin(j) PROVE Links'
  BY <1>2 DEF Begin, TypeOK, Rows, Links, Goto, Store, Leave, rowVars, diskVars, threadVars, history, budgets
<1>3. ASSUME NEW j \in Jobs, Answer(j) PROVE Links'
  BY <1>3 DEF Answer, TypeOK, Rows, Links, Goto, Store, Leave, rowVars, diskVars, threadVars, history, budgets
<1>4. ASSUME NEW j \in Jobs, Chunk(j) PROVE Links'
  BY <1>4 DEF Chunk, TypeOK, Rows, Links, Goto, Store, Leave, rowVars, diskVars, threadVars, history, budgets
<1>5. ASSUME NEW j \in Jobs, StopAtChunk(j) PROVE Links'
  BY <1>5 DEF StopAtChunk, TypeOK, Rows, Links, Goto, Store, Leave, rowVars, diskVars, threadVars, history, budgets
<1>6. ASSUME NEW j \in Jobs, RemovePart(j) PROVE Links'
  BY <1>6 DEF RemovePart, TypeOK, Rows, Links, Goto, Store, Leave, rowVars, diskVars, threadVars, history, budgets
<1>7. ASSUME NEW j \in Jobs, Rename(j) PROVE Links'
  BY <1>7 DEF Rename, TypeOK, Rows, Links, Goto, Store, Leave, rowVars, diskVars, threadVars, history, budgets
<1>8. ASSUME NEW j \in Jobs, StoreSuccess(j) PROVE Links'
  BY <1>8 DEF StoreSuccess, TypeOK, Rows, Links, Goto, Store, Leave, rowVars, diskVars, threadVars, history, budgets
<1>9. ASSUME NEW j \in Jobs, Fails(j) PROVE Links'
  BY <1>9 DEF Fails, TypeOK, Rows, Links, Goto, Store, Leave, rowVars, diskVars, threadVars, history, budgets
<1>10. ASSUME NEW j \in Jobs, StoreFailure(j) PROVE Links'
  BY <1>10 DEF StoreFailure, TypeOK, Rows, Links, Goto, Store, Leave, rowVars, diskVars, threadVars, history, budgets
<1>11. ASSUME NEW j \in Jobs, Insert(j) PROVE Links'
  BY <1>11 DEF Insert, TypeOK, Rows, Links, Goto, Store, Leave, rowVars, diskVars, threadVars, history, budgets
<1>12. ASSUME NEW j \in Jobs, Cancel(j) PROVE Links'
  BY <1>12 DEF Cancel, TypeOK, Rows, Links, Goto, Store, Leave, rowVars, diskVars, threadVars, history, budgets
<1>13. ASSUME NEW j \in Jobs, Raises(j) PROVE Links'
  BY <1>13 DEF Raises, TypeOK, Rows, Links, Goto, Store, Leave, rowVars, diskVars, threadVars, history, budgets
<1>14. ASSUME NEW j \in Jobs, LoseFailure(j) PROVE Links'
  BY <1>14 DEF LoseFailure, TypeOK, Rows, Links, Goto, Store, Leave, rowVars, diskVars, threadVars, history, budgets
<1>15. ASSUME Crash PROVE Links'
  BY <1>15 DEF Crash, TypeOK, Rows, Links, Goto, Store, Leave, rowVars, diskVars, threadVars, history, budgets
<1>16. ASSUME RecoverDownloads PROVE Links'
  BY <1>16 DEF RecoverDownloads, TypeOK, Rows, Links, Goto, Store, Leave, rowVars, diskVars, threadVars, history, budgets
<1> QED BY <1>1, <1>2, <1>3, <1>4, <1>5, <1>6, <1>7, <1>8, <1>9, <1>10, <1>11, <1>12, <1>13, <1>14, <1>15, <1>16 DEF Next, Thread

\* Placed is kept.
LEMMA PlacedStep ==
  ASSUME TypeOK, Rows, Placed, Next PROVE Placed'
<1>1. ASSUME NEW j \in Jobs, NEW f \in Files, Check(j, f) PROVE Placed'
  <2>1. place[j] = "none" /\ status[j] = "none"
    BY <1>1 DEF Check, Fresh, Rows, StatusOf
  <2> QED BY <1>1, <2>1 DEF Check, TypeOK, Placed, Goto, Store, Leave, rowVars, diskVars, threadVars, history, budgets
<1>2. ASSUME NEW j \in Jobs, Begin(j) PROVE Placed'
  BY <1>2 DEF Begin, TypeOK, Rows, StatusOf, Terminal, Placed, Interrupted, Goto, Store, Leave, rowVars, diskVars, threadVars, history, budgets
<1>3. ASSUME NEW j \in Jobs, Answer(j) PROVE Placed'
  BY <1>3 DEF Answer, TypeOK, Rows, StatusOf, Terminal, Placed, Interrupted, Goto, Store, Leave, rowVars, diskVars, threadVars, history, budgets
<1>4. ASSUME NEW j \in Jobs, Chunk(j) PROVE Placed'
  BY <1>4 DEF Chunk, TypeOK, Rows, StatusOf, Terminal, Placed, Interrupted, Goto, Store, Leave, rowVars, diskVars, threadVars, history, budgets
<1>5. ASSUME NEW j \in Jobs, StopAtChunk(j) PROVE Placed'
  BY <1>5 DEF StopAtChunk, TypeOK, Rows, StatusOf, Terminal, Placed, Interrupted, Goto, Store, Leave, rowVars, diskVars, threadVars, history, budgets
<1>6. ASSUME NEW j \in Jobs, RemovePart(j) PROVE Placed'
  BY <1>6 DEF RemovePart, TypeOK, Rows, StatusOf, Terminal, Placed, Interrupted, Goto, Store, Leave, rowVars, diskVars, threadVars, history, budgets
<1>7. ASSUME NEW j \in Jobs, Rename(j) PROVE Placed'
  BY <1>7 DEF Rename, TypeOK, Rows, StatusOf, Terminal, Placed, Interrupted, Goto, Store, Leave, rowVars, diskVars, threadVars, history, budgets
<1>8. ASSUME NEW j \in Jobs, StoreSuccess(j) PROVE Placed'
  BY <1>8 DEF StoreSuccess, TypeOK, Rows, StatusOf, Terminal, Placed, Interrupted, Goto, Store, Leave, rowVars, diskVars, threadVars, history, budgets
<1>9. ASSUME NEW j \in Jobs, Fails(j) PROVE Placed'
  BY <1>9 DEF Fails, TypeOK, Rows, StatusOf, Terminal, Placed, Interrupted, Goto, Store, Leave, rowVars, diskVars, threadVars, history, budgets
<1>10. ASSUME NEW j \in Jobs, StoreFailure(j) PROVE Placed'
  BY <1>10 DEF StoreFailure, TypeOK, Rows, StatusOf, Terminal, Placed, Interrupted, Goto, Store, Leave, rowVars, diskVars, threadVars, history, budgets
<1>11. ASSUME NEW j \in Jobs, Insert(j) PROVE Placed'
  BY <1>11 DEF Insert, TypeOK, Rows, StatusOf, Terminal, Placed, Interrupted, Goto, Store, Leave, rowVars, diskVars, threadVars, history, budgets
<1>12. ASSUME NEW j \in Jobs, Cancel(j) PROVE Placed'
  BY <1>12 DEF Cancel, TypeOK, Rows, StatusOf, Terminal, Placed, Interrupted, Goto, Store, Leave, rowVars, diskVars, threadVars, history, budgets
<1>13. ASSUME NEW j \in Jobs, Raises(j) PROVE Placed'
  BY <1>13 DEF Raises, TypeOK, Rows, StatusOf, Terminal, Placed, Interrupted, Goto, Store, Leave, rowVars, diskVars, threadVars, history, budgets
<1>14. ASSUME NEW j \in Jobs, LoseFailure(j) PROVE Placed'
  BY <1>14 DEF LoseFailure, TypeOK, Rows, StatusOf, Terminal, Placed, Interrupted, Goto, Store, Leave, rowVars, diskVars, threadVars, history, budgets
<1>15. ASSUME Crash PROVE Placed'
  BY <1>15 DEF Crash, TypeOK, Rows, StatusOf, Terminal, Placed, Interrupted, Goto, Store, Leave, rowVars, diskVars, threadVars, history, budgets
<1>16. ASSUME RecoverDownloads PROVE Placed'
  BY <1>16 DEF RecoverDownloads, TypeOK, Rows, StatusOf, Terminal, Placed, Interrupted, Goto, Store, Leave, rowVars, diskVars, threadVars, history, budgets
<1> QED BY <1>1, <1>2, <1>3, <1>4, <1>5, <1>6, <1>7, <1>8, <1>9, <1>10, <1>11, <1>12, <1>13, <1>14, <1>15, <1>16 DEF Next, Thread

\* Owned is kept.
LEMMA OwnedStep ==
  ASSUME TypeOK, Rows, Owned, Next PROVE Owned'
<1>1. ASSUME NEW j \in Jobs, NEW f \in Files, Check(j, f) PROVE Owned'
  <2> SUFFICES ASSUME NEW g \in Files, part'[g] # NULL
               PROVE  \E k \in Jobs : target'[k] = g /\ (Owns(k)' \/ (~up' /\ status'[k] = "running"))
    BY DEF Owned
  <2>1. part[g] # NULL
    BY <1>1 DEF Check, Fresh, TypeOK, Rows, Goto, Store, Leave, rowVars, diskVars, threadVars, history, budgets
  <2>2. PICK k \in Jobs : target[k] = g /\ (Owns(k) \/ (~up /\ status[k] = "running"))
    BY <2>1 DEF Owned
  <2>3. target'[k] = g /\ (Owns(k)' \/ (~up' /\ status'[k] = "running"))
    BY <1>1, <2>2 DEF Check, Fresh, TypeOK, Rows, StatusOf, Terminal, Owns, Interrupted, Goto, Store, Leave, rowVars, diskVars, threadVars, history, budgets
  <2> QED BY <2>3
<1>2. ASSUME NEW j \in Jobs, Begin(j) PROVE Owned'
  <2> SUFFICES ASSUME NEW g \in Files, part'[g] # NULL
               PROVE  \E k \in Jobs : target'[k] = g /\ (Owns(k)' \/ (~up' /\ status'[k] = "running"))
    BY DEF Owned
  <2>1. part[g] # NULL
    BY <1>2 DEF Begin, TypeOK, Rows, Goto, Store, Leave, rowVars, diskVars, threadVars, history, budgets
  <2>2. PICK k \in Jobs : target[k] = g /\ (Owns(k) \/ (~up /\ status[k] = "running"))
    BY <2>1 DEF Owned
  <2>3. target'[k] = g /\ (Owns(k)' \/ (~up' /\ status'[k] = "running"))
    BY <1>2, <2>2 DEF Begin, TypeOK, Rows, StatusOf, Terminal, Owns, Interrupted, Goto, Store, Leave, rowVars, diskVars, threadVars, history, budgets
  <2> QED BY <2>3
<1>3. ASSUME NEW j \in Jobs, Answer(j) PROVE Owned'
  <2> SUFFICES ASSUME NEW g \in Files, part'[g] # NULL
               PROVE  \E k \in Jobs : target'[k] = g /\ (Owns(k)' \/ (~up' /\ status'[k] = "running"))
    BY DEF Owned
  <2>1. CASE target[j] = g
    <3>1. target'[j] = g /\ Owns(j)'
      BY <1>3, <2>1 DEF Answer, TypeOK, Owns, Goto, Store, Leave, rowVars, diskVars, threadVars, history, budgets
    <3> QED BY <3>1
  <2>2. CASE target[j] # g
    <3>1. part[g] # NULL
      BY <1>3, <2>2 DEF Answer, TypeOK, Rows, Goto, Store, Leave, rowVars, diskVars, threadVars, history, budgets
    <3>2. PICK k \in Jobs : target[k] = g /\ (Owns(k) \/ (~up /\ status[k] = "running"))
      BY <3>1 DEF Owned
    <3>3. target'[k] = g /\ (Owns(k)' \/ (~up' /\ status'[k] = "running"))
      BY <1>3, <2>2, <3>2 DEF Answer, TypeOK, Rows, Owns, Goto, Store, Leave, rowVars, diskVars, threadVars, history, budgets
    <3> QED BY <3>3
  <2> QED BY <2>1, <2>2
<1>4. ASSUME NEW j \in Jobs, Chunk(j) PROVE Owned'
  <2> SUFFICES ASSUME NEW g \in Files, part'[g] # NULL
               PROVE  \E k \in Jobs : target'[k] = g /\ (Owns(k)' \/ (~up' /\ status'[k] = "running"))
    BY DEF Owned
  <2>1. part[g] # NULL
    BY <1>4 DEF Chunk, TypeOK, Rows, Goto, Store, Leave, rowVars, diskVars, threadVars, history, budgets
  <2>2. PICK k \in Jobs : target[k] = g /\ (Owns(k) \/ (~up /\ status[k] = "running"))
    BY <2>1 DEF Owned
  <2>3. target'[k] = g /\ (Owns(k)' \/ (~up' /\ status'[k] = "running"))
    BY <1>4, <2>2 DEF Chunk, TypeOK, Rows, StatusOf, Terminal, Owns, Interrupted, Goto, Store, Leave, rowVars, diskVars, threadVars, history, budgets
  <2> QED BY <2>3
<1>5. ASSUME NEW j \in Jobs, StopAtChunk(j) PROVE Owned'
  <2> SUFFICES ASSUME NEW g \in Files, part'[g] # NULL
               PROVE  \E k \in Jobs : target'[k] = g /\ (Owns(k)' \/ (~up' /\ status'[k] = "running"))
    BY DEF Owned
  <2>1. part[g] # NULL
    BY <1>5 DEF StopAtChunk, TypeOK, Rows, Goto, Store, Leave, rowVars, diskVars, threadVars, history, budgets
  <2>2. PICK k \in Jobs : target[k] = g /\ (Owns(k) \/ (~up /\ status[k] = "running"))
    BY <2>1 DEF Owned
  <2>3. target'[k] = g /\ (Owns(k)' \/ (~up' /\ status'[k] = "running"))
    BY <1>5, <2>2 DEF StopAtChunk, TypeOK, Rows, StatusOf, Terminal, Owns, Interrupted, Goto, Store, Leave, rowVars, diskVars, threadVars, history, budgets
  <2> QED BY <2>3
<1>6. ASSUME NEW j \in Jobs, RemovePart(j) PROVE Owned'
  <2> SUFFICES ASSUME NEW g \in Files, part'[g] # NULL
               PROVE  \E k \in Jobs : target'[k] = g /\ (Owns(k)' \/ (~up' /\ status'[k] = "running"))
    BY DEF Owned
  <2>1. part[g] # NULL /\ target[j] # g
    BY <1>6 DEF RemovePart, TypeOK, Rows, Goto, Store, Leave, rowVars, diskVars, threadVars, history, budgets
  <2>2. PICK k \in Jobs : target[k] = g /\ (Owns(k) \/ (~up /\ status[k] = "running"))
    BY <2>1 DEF Owned
  <2>3. target'[k] = g /\ (Owns(k)' \/ (~up' /\ status'[k] = "running"))
    BY <1>6, <2>1, <2>2 DEF RemovePart, TypeOK, Rows, StatusOf, Terminal, Owns, Interrupted, Goto, Store, Leave, rowVars, diskVars, threadVars, history, budgets
  <2> QED BY <2>3
<1>7. ASSUME NEW j \in Jobs, Rename(j) PROVE Owned'
  <2> SUFFICES ASSUME NEW g \in Files, part'[g] # NULL
               PROVE  \E k \in Jobs : target'[k] = g /\ (Owns(k)' \/ (~up' /\ status'[k] = "running"))
    BY DEF Owned
  <2>1. part[g] # NULL /\ target[j] # g
    BY <1>7 DEF Rename, TypeOK, Rows, Goto, Store, Leave, rowVars, diskVars, threadVars, history, budgets
  <2>2. PICK k \in Jobs : target[k] = g /\ (Owns(k) \/ (~up /\ status[k] = "running"))
    BY <2>1 DEF Owned
  <2>3. target'[k] = g /\ (Owns(k)' \/ (~up' /\ status'[k] = "running"))
    BY <1>7, <2>1, <2>2 DEF Rename, TypeOK, Rows, StatusOf, Terminal, Owns, Interrupted, Goto, Store, Leave, rowVars, diskVars, threadVars, history, budgets
  <2> QED BY <2>3
<1>8. ASSUME NEW j \in Jobs, StoreSuccess(j) PROVE Owned'
  <2> SUFFICES ASSUME NEW g \in Files, part'[g] # NULL
               PROVE  \E k \in Jobs : target'[k] = g /\ (Owns(k)' \/ (~up' /\ status'[k] = "running"))
    BY DEF Owned
  <2>1. part[g] # NULL
    BY <1>8 DEF StoreSuccess, TypeOK, Rows, Goto, Store, Leave, rowVars, diskVars, threadVars, history, budgets
  <2>2. PICK k \in Jobs : target[k] = g /\ (Owns(k) \/ (~up /\ status[k] = "running"))
    BY <2>1 DEF Owned
  <2>3. target'[k] = g /\ (Owns(k)' \/ (~up' /\ status'[k] = "running"))
    BY <1>8, <2>2 DEF StoreSuccess, TypeOK, Rows, StatusOf, Terminal, Owns, Interrupted, Goto, Store, Leave, rowVars, diskVars, threadVars, history, budgets
  <2> QED BY <2>3
<1>9. ASSUME NEW j \in Jobs, Fails(j) PROVE Owned'
  <2> SUFFICES ASSUME NEW g \in Files, part'[g] # NULL
               PROVE  \E k \in Jobs : target'[k] = g /\ (Owns(k)' \/ (~up' /\ status'[k] = "running"))
    BY DEF Owned
  <2>1. part[g] # NULL
    BY <1>9 DEF Fails, TypeOK, Rows, Goto, Store, Leave, rowVars, diskVars, threadVars, history, budgets
  <2>2. PICK k \in Jobs : target[k] = g /\ (Owns(k) \/ (~up /\ status[k] = "running"))
    BY <2>1 DEF Owned
  <2>3. target'[k] = g /\ (Owns(k)' \/ (~up' /\ status'[k] = "running"))
    BY <1>9, <2>2 DEF Fails, TypeOK, Rows, StatusOf, Terminal, Owns, Interrupted, Goto, Store, Leave, rowVars, diskVars, threadVars, history, budgets
  <2> QED BY <2>3
<1>10. ASSUME NEW j \in Jobs, StoreFailure(j) PROVE Owned'
  <2> SUFFICES ASSUME NEW g \in Files, part'[g] # NULL
               PROVE  \E k \in Jobs : target'[k] = g /\ (Owns(k)' \/ (~up' /\ status'[k] = "running"))
    BY DEF Owned
  <2>1. part[g] # NULL
    BY <1>10 DEF StoreFailure, TypeOK, Rows, Goto, Store, Leave, rowVars, diskVars, threadVars, history, budgets
  <2>2. PICK k \in Jobs : target[k] = g /\ (Owns(k) \/ (~up /\ status[k] = "running"))
    BY <2>1 DEF Owned
  <2>3. target'[k] = g /\ (Owns(k)' \/ (~up' /\ status'[k] = "running"))
    BY <1>10, <2>2 DEF StoreFailure, TypeOK, Rows, StatusOf, Terminal, Owns, Interrupted, Goto, Store, Leave, rowVars, diskVars, threadVars, history, budgets
  <2> QED BY <2>3
<1>11. ASSUME NEW j \in Jobs, Insert(j) PROVE Owned'
  <2> SUFFICES ASSUME NEW g \in Files, part'[g] # NULL
               PROVE  \E k \in Jobs : target'[k] = g /\ (Owns(k)' \/ (~up' /\ status'[k] = "running"))
    BY DEF Owned
  <2>1. part[g] # NULL
    BY <1>11 DEF Insert, TypeOK, Rows, Goto, Store, Leave, rowVars, diskVars, threadVars, history, budgets
  <2>2. PICK k \in Jobs : target[k] = g /\ (Owns(k) \/ (~up /\ status[k] = "running"))
    BY <2>1 DEF Owned
  <2>3. target'[k] = g /\ (Owns(k)' \/ (~up' /\ status'[k] = "running"))
    BY <1>11, <2>2 DEF Insert, TypeOK, Rows, StatusOf, Terminal, Owns, Interrupted, Goto, Store, Leave, rowVars, diskVars, threadVars, history, budgets
  <2> QED BY <2>3
<1>12. ASSUME NEW j \in Jobs, Cancel(j) PROVE Owned'
  <2> SUFFICES ASSUME NEW g \in Files, part'[g] # NULL
               PROVE  \E k \in Jobs : target'[k] = g /\ (Owns(k)' \/ (~up' /\ status'[k] = "running"))
    BY DEF Owned
  <2>1. part[g] # NULL
    BY <1>12 DEF Cancel, TypeOK, Rows, Goto, Store, Leave, rowVars, diskVars, threadVars, history, budgets
  <2>2. PICK k \in Jobs : target[k] = g /\ (Owns(k) \/ (~up /\ status[k] = "running"))
    BY <2>1 DEF Owned
  <2>3. target'[k] = g /\ (Owns(k)' \/ (~up' /\ status'[k] = "running"))
    BY <1>12, <2>2 DEF Cancel, TypeOK, Rows, StatusOf, Terminal, Owns, Interrupted, Goto, Store, Leave, rowVars, diskVars, threadVars, history, budgets
  <2> QED BY <2>3
<1>13. ASSUME NEW j \in Jobs, Raises(j) PROVE Owned'
  <2> SUFFICES ASSUME NEW g \in Files, part'[g] # NULL
               PROVE  \E k \in Jobs : target'[k] = g /\ (Owns(k)' \/ (~up' /\ status'[k] = "running"))
    BY DEF Owned
  <2>1. part[g] # NULL
    BY <1>13 DEF Raises, TypeOK, Rows, Goto, Store, Leave, rowVars, diskVars, threadVars, history, budgets
  <2>2. PICK k \in Jobs : target[k] = g /\ (Owns(k) \/ (~up /\ status[k] = "running"))
    BY <2>1 DEF Owned
  <2>3. target'[k] = g /\ (Owns(k)' \/ (~up' /\ status'[k] = "running"))
    BY <1>13, <2>2 DEF Raises, TypeOK, Rows, StatusOf, Terminal, Owns, Interrupted, Goto, Store, Leave, rowVars, diskVars, threadVars, history, budgets
  <2> QED BY <2>3
<1>14. ASSUME NEW j \in Jobs, LoseFailure(j) PROVE Owned'
  <2> SUFFICES ASSUME NEW g \in Files, part'[g] # NULL
               PROVE  \E k \in Jobs : target'[k] = g /\ (Owns(k)' \/ (~up' /\ status'[k] = "running"))
    BY DEF Owned
  <2>1. part[g] # NULL
    BY <1>14 DEF LoseFailure, TypeOK, Rows, Goto, Store, Leave, rowVars, diskVars, threadVars, history, budgets
  <2>2. PICK k \in Jobs : target[k] = g /\ (Owns(k) \/ (~up /\ status[k] = "running"))
    BY <2>1 DEF Owned
  <2>3. target'[k] = g /\ (Owns(k)' \/ (~up' /\ status'[k] = "running"))
    BY <1>14, <2>2 DEF LoseFailure, TypeOK, Rows, StatusOf, Terminal, Owns, Interrupted, Goto, Store, Leave, rowVars, diskVars, threadVars, history, budgets
  <2> QED BY <2>3
<1>15. ASSUME Crash PROVE Owned'
  <2> SUFFICES ASSUME NEW g \in Files, part'[g] # NULL
               PROVE  \E k \in Jobs : target'[k] = g /\ (Owns(k)' \/ (~up' /\ status'[k] = "running"))
    BY DEF Owned
  <2>1. part[g] # NULL
    BY <1>15 DEF Crash, TypeOK, Rows, Goto, Store, Leave, rowVars, diskVars, threadVars, history, budgets
  <2>2. PICK k \in Jobs : target[k] = g /\ (Owns(k) \/ (~up /\ status[k] = "running"))
    BY <2>1 DEF Owned
  <2>3. target'[k] = g /\ (Owns(k)' \/ (~up' /\ status'[k] = "running"))
    BY <1>15, <2>2 DEF Crash, TypeOK, Rows, StatusOf, Terminal, Owns, Interrupted, Goto, Store, Leave, rowVars, diskVars, threadVars, history, budgets
  <2> QED BY <2>3
<1>16. ASSUME RecoverDownloads PROVE Owned'
  <2> SUFFICES ASSUME NEW g \in Files, part'[g] # NULL
               PROVE  \E k \in Jobs : target'[k] = g /\ (Owns(k)' \/ (~up' /\ status'[k] = "running"))
    BY DEF Owned
  <2>1. part[g] # NULL
    BY <1>16 DEF RecoverDownloads, TypeOK
  <2>2. PICK k \in Jobs : target[k] = g /\ (Owns(k) \/ (~up /\ status[k] = "running"))
    BY <2>1 DEF Owned
  <2>4. k \notin Interrupted \/ k \in kept'
    BY <1>16, <2>2 DEF RecoverDownloads, TypeOK
  <2>3. target'[k] = g /\ (Owns(k)' \/ (~up' /\ status'[k] = "running"))
    BY <1>16, <2>2, <2>4 DEF RecoverDownloads, TypeOK, Rows, StatusOf, Terminal, Owns, Interrupted, Goto, Store, Leave, rowVars, diskVars, threadVars, history, budgets
  <2> QED BY <2>3
<1> QED BY <1>1, <1>2, <1>3, <1>4, <1>5, <1>6, <1>7, <1>8, <1>9, <1>10, <1>11, <1>12, <1>13, <1>14, <1>15, <1>16 DEF Next, Thread

\* Alone is kept.
LEMMA AloneStep ==
  ASSUME TypeOK, Rows, Alone, Next PROVE Alone'
<1>1. ASSUME NEW j \in Jobs, NEW f \in Files, Check(j, f) PROVE Alone'
  BY <1>1 DEF Check, Fresh, TypeOK, Rows, Alone, UnderWay, Active, Rivals, Goto, Store, Leave, rowVars, diskVars, threadVars, history, budgets
<1>2. ASSUME NEW j \in Jobs, Begin(j) PROVE Alone'
  BY <1>2 DEF Begin, TypeOK, Rows, Alone, UnderWay, Active, Rivals, Goto, Store, Leave, rowVars, diskVars, threadVars, history, budgets
<1>3. ASSUME NEW j \in Jobs, Answer(j) PROVE Alone'
  BY <1>3 DEF Answer, TypeOK, Rows, Alone, UnderWay, Active, Rivals, Goto, Store, Leave, rowVars, diskVars, threadVars, history, budgets
<1>4. ASSUME NEW j \in Jobs, Chunk(j) PROVE Alone'
  BY <1>4 DEF Chunk, TypeOK, Rows, Alone, UnderWay, Active, Rivals, Goto, Store, Leave, rowVars, diskVars, threadVars, history, budgets
<1>5. ASSUME NEW j \in Jobs, StopAtChunk(j) PROVE Alone'
  BY <1>5 DEF StopAtChunk, TypeOK, Rows, Alone, UnderWay, Active, Rivals, Goto, Store, Leave, rowVars, diskVars, threadVars, history, budgets
<1>6. ASSUME NEW j \in Jobs, RemovePart(j) PROVE Alone'
  BY <1>6 DEF RemovePart, TypeOK, Rows, Alone, UnderWay, Active, Rivals, Goto, Store, Leave, rowVars, diskVars, threadVars, history, budgets
<1>7. ASSUME NEW j \in Jobs, Rename(j) PROVE Alone'
  BY <1>7 DEF Rename, TypeOK, Rows, Alone, UnderWay, Active, Rivals, Goto, Store, Leave, rowVars, diskVars, threadVars, history, budgets
<1>8. ASSUME NEW j \in Jobs, StoreSuccess(j) PROVE Alone'
  BY <1>8 DEF StoreSuccess, TypeOK, Rows, Alone, UnderWay, Active, Rivals, Goto, Store, Leave, rowVars, diskVars, threadVars, history, budgets
<1>9. ASSUME NEW j \in Jobs, Fails(j) PROVE Alone'
  BY <1>9 DEF Fails, TypeOK, Rows, Alone, UnderWay, Active, Rivals, Goto, Store, Leave, rowVars, diskVars, threadVars, history, budgets
<1>10. ASSUME NEW j \in Jobs, StoreFailure(j) PROVE Alone'
  BY <1>10 DEF StoreFailure, TypeOK, Rows, Alone, UnderWay, Active, Rivals, Goto, Store, Leave, rowVars, diskVars, threadVars, history, budgets
<1>11. ASSUME NEW j \in Jobs, Insert(j) PROVE Alone'
  BY <1>11 DEF Insert, TypeOK, Rows, Alone, UnderWay, Active, Rivals, Goto, Store, Leave, rowVars, diskVars, threadVars, history, budgets
<1>12. ASSUME NEW j \in Jobs, Cancel(j) PROVE Alone'
  BY <1>12 DEF Cancel, TypeOK, Rows, Alone, UnderWay, Active, Rivals, Goto, Store, Leave, rowVars, diskVars, threadVars, history, budgets
<1>13. ASSUME NEW j \in Jobs, Raises(j) PROVE Alone'
  BY <1>13 DEF Raises, TypeOK, Rows, Alone, UnderWay, Active, Rivals, Goto, Store, Leave, rowVars, diskVars, threadVars, history, budgets
<1>14. ASSUME NEW j \in Jobs, LoseFailure(j) PROVE Alone'
  BY <1>14 DEF LoseFailure, TypeOK, Rows, Alone, UnderWay, Active, Rivals, Goto, Store, Leave, rowVars, diskVars, threadVars, history, budgets
<1>15. ASSUME Crash PROVE Alone'
  BY <1>15 DEF Crash, TypeOK, Rows, Alone, UnderWay, Active, Rivals, Goto, Store, Leave, rowVars, diskVars, threadVars, history, budgets
<1>16. ASSUME RecoverDownloads PROVE Alone'
  BY <1>16 DEF RecoverDownloads, TypeOK, Rows, Alone, UnderWay, Active, Rivals, Goto, Store, Leave, rowVars, diskVars, threadVars, history, budgets
<1> QED BY <1>1, <1>2, <1>3, <1>4, <1>5, <1>6, <1>7, <1>8, <1>9, <1>10, <1>11, <1>12, <1>13, <1>14, <1>15, <1>16 DEF Next, Thread

\* Clean is kept.
LEMMA CleanStep ==
  ASSUME TypeOK, Rows, Links, Alone, Clean, Next PROVE Clean'
<1>1. ASSUME NEW j \in Jobs, NEW f \in Files, Check(j, f) PROVE Clean'
  BY <1>1 DEF Check, Fresh, TypeOK, Rows, Links, Alone, Clean, UnderWay, Active, Rivals, Free, Goto, Store, Leave, rowVars, diskVars, threadVars, history, budgets
<1>2. ASSUME NEW j \in Jobs, Begin(j) PROVE Clean'
  BY <1>2 DEF Begin, TypeOK, Rows, Links, Alone, Clean, UnderWay, Active, Rivals, Free, Goto, Store, Leave, rowVars, diskVars, threadVars, history, budgets
<1>3. ASSUME NEW j \in Jobs, Answer(j) PROVE Clean'
  BY <1>3 DEF Answer, TypeOK, Rows, Links, Alone, Clean, UnderWay, Active, Rivals, Free, Goto, Store, Leave, rowVars, diskVars, threadVars, history, budgets
<1>4. ASSUME NEW j \in Jobs, Chunk(j) PROVE Clean'
  BY <1>4 DEF Chunk, TypeOK, Rows, Links, Alone, Clean, UnderWay, Active, Rivals, Free, Goto, Store, Leave, rowVars, diskVars, threadVars, history, budgets
<1>5. ASSUME NEW j \in Jobs, StopAtChunk(j) PROVE Clean'
  BY <1>5 DEF StopAtChunk, TypeOK, Rows, Links, Alone, Clean, UnderWay, Active, Rivals, Free, Goto, Store, Leave, rowVars, diskVars, threadVars, history, budgets
<1>6. ASSUME NEW j \in Jobs, RemovePart(j) PROVE Clean'
  BY <1>6 DEF RemovePart, TypeOK, Rows, Links, Alone, Clean, UnderWay, Active, Rivals, Free, Goto, Store, Leave, rowVars, diskVars, threadVars, history, budgets
<1>7. ASSUME NEW j \in Jobs, Rename(j) PROVE Clean'
  BY <1>7 DEF Rename, TypeOK, Rows, Links, Alone, Clean, UnderWay, Active, Rivals, Free, Goto, Store, Leave, rowVars, diskVars, threadVars, history, budgets
<1>8. ASSUME NEW j \in Jobs, StoreSuccess(j) PROVE Clean'
  BY <1>8 DEF StoreSuccess, TypeOK, Rows, Links, Alone, Clean, UnderWay, Active, Rivals, Free, Goto, Store, Leave, rowVars, diskVars, threadVars, history, budgets
<1>9. ASSUME NEW j \in Jobs, Fails(j) PROVE Clean'
  BY <1>9 DEF Fails, TypeOK, Rows, Links, Alone, Clean, UnderWay, Active, Rivals, Free, Goto, Store, Leave, rowVars, diskVars, threadVars, history, budgets
<1>10. ASSUME NEW j \in Jobs, StoreFailure(j) PROVE Clean'
  BY <1>10 DEF StoreFailure, TypeOK, Rows, Links, Alone, Clean, UnderWay, Active, Rivals, Free, Goto, Store, Leave, rowVars, diskVars, threadVars, history, budgets
<1>11. ASSUME NEW j \in Jobs, Insert(j) PROVE Clean'
  BY <1>11 DEF Insert, TypeOK, Rows, Links, Alone, Clean, UnderWay, Active, Rivals, Free, Goto, Store, Leave, rowVars, diskVars, threadVars, history, budgets
<1>12. ASSUME NEW j \in Jobs, Cancel(j) PROVE Clean'
  BY <1>12 DEF Cancel, TypeOK, Rows, Links, Alone, Clean, UnderWay, Active, Rivals, Free, Goto, Store, Leave, rowVars, diskVars, threadVars, history, budgets
<1>13. ASSUME NEW j \in Jobs, Raises(j) PROVE Clean'
  BY <1>13 DEF Raises, TypeOK, Rows, Links, Alone, Clean, UnderWay, Active, Rivals, Free, Goto, Store, Leave, rowVars, diskVars, threadVars, history, budgets
<1>14. ASSUME NEW j \in Jobs, LoseFailure(j) PROVE Clean'
  BY <1>14 DEF LoseFailure, TypeOK, Rows, Links, Alone, Clean, UnderWay, Active, Rivals, Free, Goto, Store, Leave, rowVars, diskVars, threadVars, history, budgets
<1>15. ASSUME Crash PROVE Clean'
  BY <1>15 DEF Crash, TypeOK, Rows, Links, Alone, Clean, UnderWay, Active, Rivals, Free, Goto, Store, Leave, rowVars, diskVars, threadVars, history, budgets
<1>16. ASSUME RecoverDownloads PROVE Clean'
  BY <1>16 DEF RecoverDownloads, TypeOK, Rows, Links, Alone, Clean, UnderWay, Active, Rivals, Free, Goto, Store, Leave, rowVars, diskVars, threadVars, history, budgets
<1> QED BY <1>1, <1>2, <1>3, <1>4, <1>5, <1>6, <1>7, <1>8, <1>9, <1>10, <1>11, <1>12, <1>13, <1>14, <1>15, <1>16 DEF Next, Thread

\* TargetIsWhole is kept.
LEMMA WholeStep ==
  ASSUME TypeOK, Rows, Links, Alone, Clean, TargetIsWhole, Next PROVE TargetIsWhole'
<1>1. ASSUME NEW j \in Jobs, NEW f \in Files, Check(j, f) PROVE TargetIsWhole'
  BY <1>1 DEF Check, Fresh, TypeOK, Links, Clean, TargetIsWhole, Whole, Goto, Store, Leave, rowVars, diskVars, threadVars, history, budgets
<1>2. ASSUME NEW j \in Jobs, Begin(j) PROVE TargetIsWhole'
  BY <1>2 DEF Begin, TypeOK, Links, Clean, TargetIsWhole, Whole, Goto, Store, Leave, rowVars, diskVars, threadVars, history, budgets
<1>3. ASSUME NEW j \in Jobs, Answer(j) PROVE TargetIsWhole'
  <2>0. file' = file /\ shared' = shared
    BY <1>3 DEF Answer, history
  <2> SUFFICES ASSUME NEW g \in Files \ shared, file[g] # NULL
               PROVE  data'[file[g]] = data[file[g]]
    BY <2>0 DEF TargetIsWhole, Whole
  <2>1. file[g] \in Jobs /\ target[file[g]] = g /\ target[j] # g /\ target[j] \in Files
    BY <1>3 DEF Answer, TypeOK, Rows, Links, Clean
  <2>2. file[g] # j /\ file[g] # part[target[j]]
    BY <2>1 DEF TypeOK, Links
  <2> QED BY <1>3, <2>1, <2>2 DEF Answer, TypeOK
<1>4. ASSUME NEW j \in Jobs, Chunk(j) PROVE TargetIsWhole'
  <2> SUFFICES ASSUME NEW g \in Files \ shared, file[g] # NULL
               PROVE  data'[file[g]] = data[file[g]]
    BY <1>4 DEF Chunk, TypeOK, TargetIsWhole, Whole, history, budgets
  <2>1. file[g] \in Jobs /\ target[file[g]] = g /\ target[j] # g
    BY <1>4 DEF Chunk, TypeOK, Links, Clean
  <2>2. handle[j] \in Jobs /\ target[handle[j]] = target[j]
    BY <1>4 DEF Chunk, TypeOK, Links
  <2> QED BY <1>4, <2>1, <2>2 DEF Chunk, TypeOK
<1>5. ASSUME NEW j \in Jobs, StopAtChunk(j) PROVE TargetIsWhole'
  BY <1>5 DEF StopAtChunk, TypeOK, Links, Clean, TargetIsWhole, Whole, Goto, Store, Leave, rowVars, diskVars, threadVars, history, budgets
<1>6. ASSUME NEW j \in Jobs, RemovePart(j) PROVE TargetIsWhole'
  BY <1>6 DEF RemovePart, TypeOK, Links, Clean, TargetIsWhole, Whole, Goto, Store, Leave, rowVars, diskVars, threadVars, history, budgets
<1>7. ASSUME NEW j \in Jobs, Rename(j) PROVE TargetIsWhole'
  BY <1>7 DEF Rename, TypeOK, Links, Clean, TargetIsWhole, Whole, Goto, Store, Leave, rowVars, diskVars, threadVars, history, budgets
<1>8. ASSUME NEW j \in Jobs, StoreSuccess(j) PROVE TargetIsWhole'
  BY <1>8 DEF StoreSuccess, TypeOK, Links, Clean, TargetIsWhole, Whole, Goto, Store, Leave, rowVars, diskVars, threadVars, history, budgets
<1>9. ASSUME NEW j \in Jobs, Fails(j) PROVE TargetIsWhole'
  BY <1>9 DEF Fails, TypeOK, Links, Clean, TargetIsWhole, Whole, Goto, Store, Leave, rowVars, diskVars, threadVars, history, budgets
<1>10. ASSUME NEW j \in Jobs, StoreFailure(j) PROVE TargetIsWhole'
  BY <1>10 DEF StoreFailure, TypeOK, Links, Clean, TargetIsWhole, Whole, Goto, Store, Leave, rowVars, diskVars, threadVars, history, budgets
<1>11. ASSUME NEW j \in Jobs, Insert(j) PROVE TargetIsWhole'
  BY <1>11 DEF Insert, TypeOK, Links, Clean, TargetIsWhole, Whole, Goto, Store, Leave, rowVars, diskVars, threadVars, history, budgets
<1>12. ASSUME NEW j \in Jobs, Cancel(j) PROVE TargetIsWhole'
  BY <1>12 DEF Cancel, TypeOK, Links, Clean, TargetIsWhole, Whole, Goto, Store, Leave, rowVars, diskVars, threadVars, history, budgets
<1>13. ASSUME NEW j \in Jobs, Raises(j) PROVE TargetIsWhole'
  BY <1>13 DEF Raises, TypeOK, Links, Clean, TargetIsWhole, Whole, Goto, Store, Leave, rowVars, diskVars, threadVars, history, budgets
<1>14. ASSUME NEW j \in Jobs, LoseFailure(j) PROVE TargetIsWhole'
  BY <1>14 DEF LoseFailure, TypeOK, Links, Clean, TargetIsWhole, Whole, Goto, Store, Leave, rowVars, diskVars, threadVars, history, budgets
<1>15. ASSUME Crash PROVE TargetIsWhole'
  BY <1>15 DEF Crash, TypeOK, Links, Clean, TargetIsWhole, Whole, Goto, Store, Leave, rowVars, diskVars, threadVars, history, budgets
<1>16. ASSUME RecoverDownloads PROVE TargetIsWhole'
  BY <1>16 DEF RecoverDownloads, TypeOK, Links, Clean, TargetIsWhole, Whole, Goto, Store, Leave, rowVars, diskVars, threadVars, history, budgets
<1> QED BY <1>1, <1>2, <1>3, <1>4, <1>5, <1>6, <1>7, <1>8, <1>9, <1>10, <1>11, <1>12, <1>13, <1>14, <1>15, <1>16 DEF Next, Thread

\* At first no job, no file and no mark exists.
LEMMA InitIInv == Init => IInv
BY DEF Init, IInv, TypeOK, Rows, StatusOf, Links, Placed, Owned, Alone, Clean, TargetIsWhole,
       Places, Active, Status, Terminal, UnderWay, NoData

\* Every step of a handler, a thread or the environment keeps the invariant.
LEMMA StepIInv == IInv /\ [Next]_vars => IInv'
<1> SUFFICES ASSUME IInv, [Next]_vars PROVE IInv'
  OBVIOUS
<1>1. CASE Next
  BY <1>1, TypeStep, RowsStep, LinksStep, PlacedStep, OwnedStep, AloneStep, CleanStep, WholeStep DEF IInv
<1>2. CASE UNCHANGED vars
  <2> USE <1>2 DEF vars, rowVars, diskVars, threadVars, history, budgets
  <2>1. TypeOK'
    BY DEF IInv, TypeOK
  <2>2. Rows' /\ Links' /\ Placed'
    BY DEF IInv, Rows, Links, Placed
  <2>3. Owned' /\ Alone' /\ Clean'
    BY DEF IInv, Owned, Owns, Alone, Clean, UnderWay
  <2>4. TargetIsWhole'
    BY DEF IInv, TargetIsWhole, Whole
  <2> QED BY <2>1, <2>2, <2>3, <2>4 DEF IInv
<1> QED BY <1>1, <1>2

\* The invariant, inductive.
LEMMA Invariance == Spec => []IInv
BY InitIInv, StepIInv, PTL DEF Spec

-----------------------------------------------------------------------------
\* Every variable keeps its type.
THEOREM TypeCorrect == Spec => []TypeOK
BY Invariance, PTL DEF IInv

\* A model file that no missed check concerns is the whole of one response,
\* for any number of downloads, failures and restarts.
THEOREM WholeFiles == Spec => []TargetIsWhole
BY Invariance, PTL DEF IInv

\* Succeeded means that the file is in place, for missed checks too.
THEOREM SuccessIsReal == Spec => []SucceededHasFile
<1>1. IInv => SucceededHasFile
  BY DEF IInv, Placed, SucceededHasFile
<1> QED BY <1>1, Invariance, PTL

\* The .part files that make create_download refuse a name are those of
\* failed jobs, of cancellations cut by a restart, and of interrupted jobs
\* whose unlink raised in the recovery; for any number of jobs and restarts.
THEOREM PartsAreOwned == Spec => []PartHasOwner
<1>1. IInv => PartHasOwner
  BY DEF IInv, Owned, PartHasOwner
<1> QED BY <1>1, Invariance, PTL

\* No download replaces a model file unless a check was missed: the rename
\* finds no file under its target.
THEOREM NothingOverwritten == Spec => NoOverwrite
<1>1. IInv /\ [Next]_vars => [\A f \in Files \ shared : file[f] # NULL => file'[f] = file[f]]_vars
  <2> SUFFICES ASSUME IInv, Next, NEW f \in Files \ shared, file[f] # NULL
               PROVE  file'[f] = file[f]
    OBVIOUS
  <2>1. ASSUME NEW j \in Jobs, Rename(j) PROVE file'[f] = file[f]
    <3>1. target[j] # f
      BY <2>1 DEF IInv, Clean, Rename
    <3> QED BY <2>1, <3>1 DEF Rename, IInv, TypeOK
  <2>2. ASSUME file' = file PROVE file'[f] = file[f]
    BY <2>2
  <2> QED BY <2>1, <2>2 DEF Next, Thread, Check, Insert, Cancel, Begin, Answer, Chunk, StopAtChunk,
             RemovePart, StoreSuccess, Fails, StoreFailure, Raises, LoseFailure, Crash,
             RecoverDownloads, diskVars
<1> QED BY <1>1, Invariance, PTL DEF Spec, NoOverwrite

\* A final status is stored once, but for the cancelled job whose .part could
\* not be removed.
THEOREM StatusIsFinal == Spec => FinalStatus
<1>1. IInv /\ [Next]_vars =>
        [\A j \in Jobs : \/ status[j] \notin Terminal
                         \/ status'[j] = status[j]
                         \/ status[j] = "cancelled" /\ place[j] = "except"]_vars
  <2> SUFFICES ASSUME IInv, Next, NEW k \in Jobs, status[k] \in Terminal,
                      ~(status[k] = "cancelled" /\ place[k] = "except")
               PROVE  status'[k] = status[k]
    OBVIOUS
  <2>1. ASSUME NEW j \in Jobs, NEW s \in Status, Store(j, s), place[j] \in {"checked", "submitted",
               "request", "stream", "commit"} \/ (place[j] = "except" /\ j # k)
        PROVE  status'[k] = status[k]
    BY <2>1 DEF Store, IInv, TypeOK, Rows, StatusOf, Terminal
  <2>2. ASSUME status' = status PROVE status'[k] = status[k]
    BY <2>2
  <2>3. ASSUME NEW j \in Jobs, StoreFailure(j) PROVE status'[k] = status[k]
    <3>1. j # k
      BY <2>3 DEF StoreFailure, IInv, Rows, StatusOf, Terminal
    <3> QED BY <2>3, <3>1 DEF StoreFailure, Store, IInv, TypeOK
  <2>4. ASSUME RecoverDownloads PROVE status'[k] = status[k]
    BY <2>4 DEF RecoverDownloads, Interrupted, IInv, TypeOK, Terminal
  <2>5. ASSUME NEW j \in Jobs, Insert(j) \/ Begin(j) \/ StopAtChunk(j) \/ StoreSuccess(j)
        PROVE  status'[k] = status[k]
    BY <2>1, <2>5 DEF Insert, Begin, StopAtChunk, StoreSuccess, Status, Terminal
  <2> QED BY <2>2, <2>3, <2>4, <2>5 DEF Next, Thread, Check, Cancel, Answer, Chunk, RemovePart, Rename,
             Fails, Raises, LoseFailure, Crash, rowVars
<1> QED BY <1>1, Invariance, PTL DEF Spec, FinalStatus
-----------------------------------------------------------------------------
(***************************************************************************)
(* A cancellation in time wins.                                            *)
(***************************************************************************)
\* The job is marked with a chunk to come, or has left the stream without
\* success: no way leads from here to the rename.
Doomed(j) == InTime(j) \/ (/\ place[j] \in {"remove", "except", "unstored", "done", "lost"}
                           /\ status[j] # "succeeded")

\* A doomed job stays doomed, whatever it, other jobs and restarts do.
LEMMA DoomedStep == ASSUME NEW j \in Jobs, IInv, Doomed(j), Next PROVE Doomed(j)'
<1> USE DEF IInv, TypeOK, Doomed, InTime, Goto, Store, Leave, rowVars, diskVars, threadVars
<1>1. status[j] # "succeeded"
  BY DEF Rows, StatusOf
<1>2. ASSUME NEW k \in Jobs, NEW f \in Files, Check(k, f) PROVE Doomed(j)'
  BY <1>2 DEF Check, Fresh
<1>3. ASSUME NEW k \in Jobs, Insert(k) PROVE Doomed(j)'
  BY <1>3 DEF Insert
<1>4. ASSUME NEW k \in Jobs, Cancel(k) PROVE Doomed(j)'
  BY <1>4 DEF Cancel
<1>5. ASSUME NEW k \in Jobs, Begin(k) \/ Answer(k) \/ Chunk(k) PROVE Doomed(j)'
  BY <1>1, <1>5 DEF Begin, Answer, Chunk, Rows
<1>6. ASSUME NEW k \in Jobs, StopAtChunk(k) \/ RemovePart(k) PROVE Doomed(j)'
  BY <1>1, <1>6 DEF StopAtChunk, RemovePart
<1>7. ASSUME NEW k \in Jobs, Rename(k) \/ StoreSuccess(k) PROVE Doomed(j)'
  BY <1>1, <1>7 DEF Rename, StoreSuccess
<1>8. ASSUME NEW k \in Jobs, Fails(k) \/ StoreFailure(k) \/ Raises(k) \/ LoseFailure(k) PROVE Doomed(j)'
  BY <1>1, <1>8 DEF Fails, StoreFailure, Raises, LoseFailure
<1>9. CASE Crash
  BY <1>1, <1>9 DEF Crash
<1>10. CASE RecoverDownloads
  BY <1>1, <1>10 DEF RecoverDownloads, Rows
<1> QED BY <1>2, <1>3, <1>4, <1>5, <1>6, <1>7, <1>8, <1>9, <1>10 DEF Next, Thread

\* A cancellation accepted while the job waits, asks or still has a chunk to
\* write is never answered by "succeeded" later, restarts and failing commits
\* included: the mark is neither cleared by the start nor missed by the loop.
THEOREM CancellationWins == Spec => CancelInTime
<1>1. ASSUME NEW j \in Jobs PROVE Spec => [](InTime(j) => [](status[j] # "succeeded"))
  <2>1. IInv /\ Doomed(j) /\ [Next]_vars => Doomed(j)'
    <3>1. CASE UNCHANGED vars
      BY <3>1 DEF Doomed, InTime, vars, rowVars, threadVars
    <3> QED BY <3>1, DoomedStep
  <2>2. InTime(j) => Doomed(j)
    BY DEF Doomed
  <2>3. IInv /\ Doomed(j) => status[j] # "succeeded"
    BY DEF IInv, Rows, StatusOf, Doomed, InTime
  <2> QED BY <2>1, <2>2, <2>3, Invariance, PTL DEF Spec
<1> QED BY <1>1 DEF CancelInTime
=============================================================================
