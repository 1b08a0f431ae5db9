------------------------------ MODULE JobWorker ------------------------------
(***************************************************************************)
(* The import/export queue of personal maps: the API queues rows in        *)
(* workspace.jobs, workers (worker.py) claim and run them.  A worker holds *)
(* two connections: the handler's writes and the job's success are one     *)
(* transaction on the first; steps, heartbeats and failures are committed  *)
(* at once on the second.  The file a handler makes is outside the         *)
(* transaction: an undo callback removes it after a rollback.              *)
(* Jobs are claimed in the order of their numbers (created_at).  A worker  *)
(* may be asked to stop (SIGTERM raises SystemExit at the next bytecode),  *)
(* be killed, or lose its database connections.                            *)
(***************************************************************************)
EXTENDS Integers, FiniteSets

CONSTANTS
    NumJobs,    \* bound: jobs ever queued
    Exports,    \* the exports among them; the other jobs import a raster
    Workers,
    MaxStops    \* bound: stops, kills and lost connections

Jobs == 1 .. NumJobs
NoJob == 0

ASSUME QueueAssumption ==
    /\ NumJobs \in Nat /\ MaxStops \in Nat
    /\ Exports \subseteq Jobs

VARIABLES
    status,      \* status of each job; `new' before it is queued, `removed' when its row is gone
    step,        \* whether a step of the job shows as running
    beat,        \* whether heartbeat_at is within STALE_AFTER_SECONDS
    row,         \* the committed workspace.files row of the job's file: `due' once delete_after passed
    store,       \* the jobs whose finished file is in the file store
    pc,          \* where each worker is
    job,         \* the job it runs
    registered,  \* whether the undo callback is registered
    tx,          \* uncommitted writes of its transaction
    exiting,     \* whether it exits after the failure it is handling
    stops,       \* number of stops so far
    abandoned    \* jobs whose worker went, or was stopped, without running the undo to its end

vars == <<status, step, beat, row, store, pc, job, registered, tx, exiting, stops, abandoned>>
queue == <<status, step, beat>>
files == <<row, store>>
outages == <<stops, abandoned>>

\* Inside the try block of run_once.
InTry == {"start", "write", "finish", "succeed", "commit", "done"}

Running(j) == status[j] = "running"
\* The success a transaction has written holds the job's row until the transaction ends.
RowLocked(j) == \E w \in Workers : job[w] = j /\ "success" \in tx[w]
WorkedOn(j) == \E w \in Workers : job[w] = j

Goto(w, label) == pc' = [pc EXCEPT ![w] = label]

\* The worker lets go of its job, in state `label'.
LetGo(w, label) ==
    /\ Goto(w, label)
    /\ job' = [job EXCEPT ![w] = NoJob]
    /\ registered' = [registered EXCEPT ![w] = FALSE]
    /\ tx' = [tx EXCEPT ![w] = {}]
    /\ exiting' = [exiting EXCEPT ![w] = FALSE]

\* A step update on the side connection: only a running job is changed, and the update is a beat.
SetStep(j, running) ==
    IF Running(j)
    THEN /\ step' = [step EXCEPT ![j] = running]
         /\ beat' = [beat EXCEPT ![j] = TRUE]
         /\ UNCHANGED status
    ELSE UNCHANGED queue

\* fail and fail_stale: the jobs S become failed, their running step too.
FailJobs(S) ==
    /\ status' = [j \in Jobs |-> IF j \in S THEN "failed" ELSE status[j]]
    /\ step' = [j \in Jobs |-> step[j] /\ j \notin S]
    /\ UNCHANGED beat

-----------------------------------------------------------------------------
(* run_once *)

Claim(w, j) ==
    /\ pc[w] = "idle"
    /\ status[j] = "queued"
    /\ \A k \in Jobs : status[k] = "queued" => j <= k
    /\ status' = [status EXCEPT ![j] = "running"]
    /\ beat' = [beat EXCEPT ![j] = TRUE]
    /\ job' = [job EXCEPT ![w] = j]
    /\ Goto(w, "claimed")
    /\ UNCHANGED <<step, files, registered, tx, exiting, outages>>

\* The side connection is open and the heartbeat thread started.
Connect(w) ==
    /\ pc[w] = "claimed"
    /\ Goto(w, "start")
    /\ UNCHANGED <<queue, files, job, registered, tx, exiting, outages>>

StartStep(w) ==
    /\ pc[w] = "start"
    /\ SetStep(job[w], TRUE)
    /\ Goto(w, "write")
    /\ UNCHANGED <<files, job, registered, tx, exiting, outages>>

\* Mutant of PlaceFile: an export is placed before its undo is registered.
PlaceFileFirst(w) ==
    /\ pc[w] = "write" /\ job[w] \notin store
    /\ store' = store \cup {job[w]}
    /\ UNCHANGED <<queue, row, pc, job, registered, tx, exiting, outages>>

\* The finished file is renamed into place: by an export after, by a raster import before on_rollback.
PlaceFile(w) ==
    /\ pc[w] = "write" /\ job[w] \notin store
    /\ job[w] \in Exports => registered[w]
    /\ store' = store \cup {job[w]}
    /\ UNCHANGED <<queue, row, pc, job, registered, tx, exiting, outages>>

RegisterUndo(w) ==
    /\ pc[w] = "write" /\ ~registered[w]
    /\ job[w] \notin Exports => job[w] \in store
    /\ registered' = [registered EXCEPT ![w] = TRUE]
    /\ UNCHANGED <<queue, files, pc, job, tx, exiting, outages>>

\* The files row, and for an import the layer under the map's lock.
InsertRow(w) ==
    /\ pc[w] = "write" /\ registered[w] /\ job[w] \in store
    /\ job[w] \notin Exports => status[job[w]] # "removed"
    /\ tx' = [tx EXCEPT ![w] = {"row"}]
    /\ Goto(w, "finish")
    /\ UNCHANGED <<queue, files, job, registered, exiting, outages>>

FinishStep(w) ==
    /\ pc[w] = "finish"
    /\ SetStep(job[w], FALSE)
    /\ Goto(w, "succeed")
    /\ UNCHANGED <<files, job, registered, tx, exiting, outages>>

\* Mutant of Succeed: the writes are committed whether or not the job was still running.
SucceedUnchecked(w) ==
    /\ pc[w] = "succeed"
    /\ tx' = [tx EXCEPT ![w] = IF Running(job[w]) THEN @ \cup {"success"} ELSE @]
    /\ Goto(w, "commit")
    /\ UNCHANGED <<queue, files, job, registered, exiting, outages>>

\* The success joins the transaction; a job no longer running has its writes dropped instead.
Succeed(w) ==
    /\ pc[w] = "succeed"
    /\ tx' = [tx EXCEPT ![w] = IF Running(job[w]) THEN @ \cup {"success"} ELSE {}]
    /\ Goto(w, IF Running(job[w]) THEN "commit" ELSE "drop")
    /\ UNCHANGED <<queue, files, job, registered, exiting, outages>>

\* What COMMIT makes visible.
Committed(w) ==
    /\ status' = [status EXCEPT ![job[w]] = IF "success" \in tx[w] THEN "succeeded" ELSE @]
    /\ row' = [row EXCEPT ![job[w]] = IF "row" \in tx[w] THEN "live" ELSE @]

Commit(w) ==
    /\ pc[w] = "commit"
    /\ Committed(w)
    /\ tx' = [tx EXCEPT ![w] = {}]
    /\ Goto(w, "done")
    /\ UNCHANGED <<step, beat, store, job, registered, exiting, outages>>

Return(w) ==
    /\ pc[w] = "done"
    /\ LetGo(w, "idle")
    /\ UNCHANGED <<queue, files, outages>>

\* rolled_back, after a rollback: the file is removed if its callback is registered.
Undo(w) ==
    /\ pc[w] \in {"drop", "undo"}
    /\ store' = IF registered[w] THEN store \ {job[w]} ELSE store
    /\ IF pc[w] = "drop" THEN LetGo(w, "idle")
       ELSE /\ Goto(w, "fail")
            /\ registered' = [registered EXCEPT ![w] = FALSE]
            /\ UNCHANGED <<job, tx, exiting>>
    /\ UNCHANGED <<queue, row, outages>>

ReportFailure(w) ==
    /\ pc[w] = "fail"
    /\ FailJobs({job[w]} \cap {j \in Jobs : Running(j)})
    /\ LetGo(w, IF exiting[w] THEN "dead" ELSE "idle")
    /\ UNCHANGED <<files, outages>>

\* Mutant of FailStale: a stale job is queued again.
RequeueStale(w) ==
    /\ pc[w] = "idle"
    /\ LET stale == {j \in Jobs : Running(j) /\ ~beat[j]}
       IN  /\ stale # {}
           /\ \A j \in stale : ~RowLocked(j)
           /\ status' = [j \in Jobs |-> IF j \in stale THEN "queued" ELSE status[j]]
    /\ UNCHANGED <<step, beat, files, pc, job, registered, tx, exiting, outages>>

\* Every minute, before it looks for a job.
FailStale(w) ==
    /\ pc[w] = "idle"
    /\ LET stale == {j \in Jobs : Running(j) /\ ~beat[j]}
       IN  /\ stale # {}
           /\ \A j \in stale : ~RowLocked(j)
           /\ FailJobs(stale)
    /\ UNCHANGED <<files, pc, job, registered, tx, exiting, outages>>

-----------------------------------------------------------------------------
(* Failures, and time *)

\* An exception in the try block: the transaction is rolled back.
HandlerFails(w) ==
    /\ pc[w] \in InTry \ {"done"}
    /\ ~(pc[w] = "write" /\ job[w] \in store /\ ~registered[w])  \* nothing to fail between the two
    /\ tx' = [tx EXCEPT ![w] = {}]
    /\ Goto(w, "undo")
    /\ UNCHANGED <<queue, files, job, registered, exiting, outages>>

\* SIGTERM.  In the try block it is handled as a failure; elsewhere the worker just exits.  Inside the
\* callbacks of a dropped job it is handled as a failure that finds no callback left.
Terminate(w) ==
    /\ stops < MaxStops
    /\ stops' = stops + 1
    /\ \/ /\ pc[w] \in InTry \cup {"drop"}
          /\ tx' = [tx EXCEPT ![w] = {}]
          /\ exiting' = [exiting EXCEPT ![w] = TRUE]
          /\ Goto(w, "undo")
          /\ UNCHANGED <<job, registered, abandoned>>
       \/ /\ pc[w] = "drop" /\ registered[w]
          /\ registered' = [registered EXCEPT ![w] = FALSE]
          /\ abandoned' = abandoned \cup {job[w]}
          /\ exiting' = [exiting EXCEPT ![w] = TRUE]
          /\ Goto(w, "undo")
          /\ UNCHANGED <<job, tx>>
       \/ /\ pc[w] \in {"idle", "claimed", "undo", "fail"}
          /\ LetGo(w, "dead")
          /\ abandoned' = abandoned \cup ({job[w]} \ {NoJob})
    /\ UNCHANGED <<queue, files>>

Kill(w) ==
    /\ stops < MaxStops
    /\ pc[w] # "dead"
    /\ stops' = stops + 1
    /\ abandoned' = abandoned \cup ({job[w]} \ {NoJob})
    /\ LetGo(w, "dead")
    /\ UNCHANGED <<queue, files>>

\* ROLLBACK fails on a lost connection, and with it run_once: no undo, no failure reported.  A COMMIT
\* under way may have reached the server.
LoseConnection(w) ==
    /\ stops < MaxStops
    /\ pc[w] \in {"claimed", "drop", "fail"} \cup (InTry \ {"done"})
    /\ stops' = stops + 1
    /\ abandoned' = abandoned \cup ({job[w]} \ {NoJob})
    /\ \/ UNCHANGED <<status, row>>
       \/ pc[w] = "commit" /\ Committed(w)
    /\ LetGo(w, "idle")
    /\ UNCHANGED <<step, beat, store>>

Restart(w) ==
    /\ pc[w] = "dead"
    /\ Goto(w, "idle")
    /\ UNCHANGED <<queue, files, job, registered, tx, exiting, outages>>

\* Mutant of Lapse: claim records no heartbeat, so only a job that reported a step can become stale.
LapseAfterFirstStep(j) ==
    /\ Running(j) /\ beat[j] /\ step[j]
    /\ beat' = [beat EXCEPT ![j] = FALSE]
    /\ UNCHANGED <<status, step, files, pc, job, registered, tx, exiting, outages>>

Lapse(j) ==
    /\ Running(j) /\ beat[j]
    /\ beat' = [beat EXCEPT ![j] = FALSE]
    /\ UNCHANGED <<status, step, files, pc, job, registered, tx, exiting, outages>>

Heartbeat(w) ==
    /\ pc[w] \in InTry \cup {"drop", "undo", "fail"}
    /\ Running(job[w]) /\ ~beat[job[w]] /\ ~RowLocked(job[w])
    /\ beat' = [beat EXCEPT ![job[w]] = TRUE]
    /\ UNCHANGED <<status, step, files, pc, job, registered, tx, exiting, outages>>

-----------------------------------------------------------------------------
(* The API and the sweep *)

Enqueue(j) ==
    /\ status[j] = "new"
    /\ \A k \in 1 .. j - 1 : status[k] # "new"
    /\ status' = [status EXCEPT ![j] = "queued"]
    /\ UNCHANGED <<step, beat, files, pc, job, registered, tx, exiting, outages>>

\* The file of job j is given a delete_after of now.
MakeDue(j) == row' = [row EXCEPT ![j] = IF @ = "live" THEN "due" ELSE @]

\* An export that has ended is removed, its file made due.
RemoveJob(j) ==
    /\ j \in Exports /\ status[j] \in {"succeeded", "failed"}
    /\ status' = [status EXCEPT ![j] = "removed"]
    /\ MakeDue(j)
    /\ UNCHANGED <<step, beat, store, pc, job, registered, tx, exiting, outages>>

\* The map is deleted: its jobs go with it, its rasters' files are due.  An import that has written
\* holds the map.
DeleteMap(j) ==
    /\ status[j] \notin {"new", "removed"}
    /\ ~RowLocked(j)
    /\ j \notin Exports => \A w \in Workers : job[w] = j => tx[w] = {}
    /\ status' = [status EXCEPT ![j] = "removed"]
    /\ IF j \in Exports THEN UNCHANGED row ELSE MakeDue(j)
    /\ UNCHANGED <<step, beat, store, pc, job, registered, tx, exiting, outages>>

\* Seven days of an export, or the deletion of a raster layer.
FileDue(j) ==
    /\ row[j] = "live"
    /\ MakeDue(j)
    /\ UNCHANGED <<queue, store, pc, job, registered, tx, exiting, outages>>

\* deleteExpiredFiles: the file is unlinked, then the row deleted; a commit that fails leaves the row.
Sweep(j) ==
    /\ row[j] = "due"
    /\ store' = store \ {j}
    /\ \E after \in {"due", "none"} : row' = [row EXCEPT ![j] = after]
    /\ UNCHANGED <<queue, pc, job, registered, tx, exiting, outages>>

-----------------------------------------------------------------------------
Init ==
    /\ status = [j \in Jobs |-> "new"]
    /\ step = [j \in Jobs |-> FALSE]
    /\ beat = [j \in Jobs |-> TRUE]
    /\ row = [j \in Jobs |-> "none"]
    /\ store = {}
    /\ pc = [w \in Workers |-> "idle"]
    /\ job = [w \in Workers |-> NoJob]
    /\ registered = [w \in Workers |-> FALSE]
    /\ tx = [w \in Workers |-> {}]
    /\ exiting = [w \in Workers |-> FALSE]
    /\ stops = 0
    /\ abandoned = {}

Proceed(w) ==
    \/ \E j \in Jobs : Claim(w, j)
    \/ Connect(w) \/ StartStep(w) \/ PlaceFile(w) \/ RegisterUndo(w) \/ InsertRow(w) \/ FinishStep(w)
    \/ Succeed(w) \/ Commit(w) \/ Return(w) \/ Undo(w) \/ ReportFailure(w)

Next ==
    \/ \E w \in Workers : Proceed(w)
    \/ \E w \in Workers : FailStale(w)
    \/ \E w \in Workers : HandlerFails(w)
    \/ \E w \in Workers : Terminate(w)
    \/ \E w \in Workers : Kill(w)
    \/ \E w \in Workers : LoseConnection(w)
    \/ \E w \in Workers : Restart(w)
    \/ \E w \in Workers : Heartbeat(w)
    \/ \E j \in Jobs : Lapse(j)
    \/ \E j \in Jobs : Enqueue(j)
    \/ \E j \in Jobs : RemoveJob(j)
    \/ \E j \in Jobs : DeleteMap(j)
    \/ \E j \in Jobs : FileDue(j)
    \/ \E j \in Jobs : Sweep(j)

Spec == Init /\ [][Next]_vars

\* A handler that can go on does or fails; Compose restarts a worker that went; the stale check runs
\* every minute; a job no worker runs gets no more beats.
FairSpec ==
    /\ Spec
    /\ \A w \in Workers : /\ WF_vars(Proceed(w) \/ HandlerFails(w))
                          /\ WF_vars(FailStale(w))
                          /\ WF_vars(Restart(w))
    /\ \A j \in Jobs : WF_vars(Lapse(j) /\ ~WorkedOn(j))

-----------------------------------------------------------------------------
(* Properties *)

\* Types; a worker has a job exactly while it runs one, and a transaction only inside the handler.
TypeOK ==
    /\ status \in [Jobs -> {"new", "queued", "running", "succeeded", "failed", "removed"}]
    /\ step \in [Jobs -> BOOLEAN]
    /\ beat \in [Jobs -> BOOLEAN]
    /\ row \in [Jobs -> {"none", "live", "due"}]
    /\ store \subseteq Jobs
    /\ pc \in [Workers -> InTry \cup {"idle", "claimed", "drop", "undo", "fail", "dead"}]
    /\ job \in [Workers -> Jobs \cup {NoJob}]
    /\ registered \in [Workers -> BOOLEAN]
    /\ tx \in [Workers -> SUBSET {"row", "success"}]
    /\ exiting \in [Workers -> BOOLEAN]
    /\ stops \in 0 .. MaxStops
    /\ abandoned \subseteq Jobs
    /\ \A w \in Workers : job[w] = NoJob <=> pc[w] \in {"idle", "dead"}
    /\ \A w \in Workers : tx[w] # {} => pc[w] \in {"finish", "succeed", "commit"}

\* "A job never shows failed while its writes are in the map" (jobs_db.succeed), although the failure
\* comes from another connection or another worker than the writes.
FailedWroteNothing == \A j \in Jobs : status[j] = "failed" => row[j] = "none"

\* A job is never run twice, not even after it was failed as stale under a worker that is only slow.
RunOnce == \A w, u \in Workers : job[w] = job[u] /\ job[w] # NoJob => w = u

\* The step list of a job that has ended shows no step as running, however late the side connection's
\* last update is.
EndedShowsNoRunningStep == \A j \in Jobs : status[j] \in {"succeeded", "failed"} => ~step[j]

\* An export that does not commit leaves no file, unless its worker went, or was stopped, without running
\* the undo to its end.
ExportLeavesNoOrphan ==
    \A j \in Exports \ abandoned : row[j] = "none" /\ ~WorkedOn(j) => j \notin store

\* Every queued job comes to an end: workers may die, but never for good, and the job of a dead one is
\* failed as stale.
JobEnds == \A j \in Jobs : status[j] = "queued" ~> status[j] \in {"succeeded", "failed", "removed"}

\* worker.py on_rollback: "Run fn if the job's transaction is rolled back rather than committed".  So
\* a committed file that is not due is in the store.
CommittedFileStays == \A j \in Jobs : row[j] = "live" => j \in store
=============================================================================
