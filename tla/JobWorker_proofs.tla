--------------------------- MODULE JobWorker_proofs ---------------------------
(* Proofs about JobWorker, for any number of jobs, workers and stops. *)
EXTENDS JobWorker, TLAPS

LEMMA NoJobIsNoJob == NoJob \notin Jobs
  BY QueueAssumption DEF Jobs, NoJob

LEMMA TypeInit == Init => TypeOK
  BY QueueAssumption DEF Init, TypeOK, InTry, Jobs, NoJob

\* Types are preserved by every step.
LEMMA TypeStep == TypeOK /\ [Next]_vars => TypeOK'
<1> SUFFICES ASSUME TypeOK, [Next]_vars PROVE TypeOK'
  OBVIOUS
<1> USE NoJobIsNoJob DEF TypeOK, InTry
<1>1. ASSUME NEW w \in Workers, Proceed(w) PROVE TypeOK'
  <2>1. ASSUME NEW j \in Jobs, Claim(w, j) PROVE TypeOK'
    BY <2>1 DEF Claim, Goto, files, outages
  <2>2. CASE Connect(w)
    BY <2>2 DEF Connect, Goto, queue, files, outages
  <2>3. CASE StartStep(w)
    BY <2>3 DEF StartStep, SetStep, Goto, queue, files, outages
  <2>4. CASE PlaceFile(w)
    BY <2>4 DEF PlaceFile, queue, outages
  <2>5. CASE RegisterUndo(w)
    BY <2>5 DEF RegisterUndo, queue, files, outages
  <2>6. CASE InsertRow(w)
    BY <2>6 DEF InsertRow, Goto, queue, files, outages
  <2>7. CASE FinishStep(w)
    BY <2>7 DEF FinishStep, SetStep, Goto, queue, files, outages
  <2>8. CASE Succeed(w)
    BY <2>8 DEF Succeed, Goto, queue, files, outages
  <2>9. CASE Commit(w)
    BY <2>9 DEF Commit, Committed, Goto, outages
  <2>10. CASE Return(w)
    BY <2>10 DEF Return, LetGo, Goto, queue, files, outages
  <2>11. CASE Undo(w)
    <3>1. CASE pc[w] = "drop"
      <4>1. store' \subseteq Jobs
        BY <2>11 DEF Undo
      <4>2. LetGo(w, "idle") /\ UNCHANGED <<status, step, beat, row, stops, abandoned>>
        BY <2>11, <3>1 DEF Undo, queue, outages
      <4>3. QED
        BY <4>1, <4>2 DEF LetGo, Goto
    <3>2. CASE pc[w] = "undo"
      BY <2>11, <3>2 DEF Undo, Goto, queue, outages
    <3>3. QED
      BY <2>11, <3>1, <3>2 DEF Undo
  <2>12. CASE ReportFailure(w)
    BY <2>12 DEF ReportFailure, FailJobs, LetGo, Goto, files, outages
  <2>13. QED
    BY <1>1, <2>1, <2>2, <2>3, <2>4, <2>5, <2>6, <2>7, <2>8, <2>9, <2>10, <2>11, <2>12 DEF Proceed
<1>2. ASSUME NEW w \in Workers, FailStale(w) PROVE TypeOK'
  BY <1>2 DEF FailStale, FailJobs, files, outages
<1>3. ASSUME NEW w \in Workers, HandlerFails(w) PROVE TypeOK'
  BY <1>3 DEF HandlerFails, Goto, queue, files, outages
<1>4. ASSUME NEW w \in Workers, Terminate(w) PROVE TypeOK'
  <2>1. stops' \in 0 .. MaxStops
    BY <1>4, QueueAssumption DEF Terminate
  <2>2. abandoned' \subseteq Jobs
    BY <1>4 DEF Terminate
  <2>3. UNCHANGED <<status, step, beat, row, store>>
    BY <1>4 DEF Terminate, queue, files
  <2>4. CASE pc[w] \in InTry \cup {"drop"}
    BY <1>4, <2>1, <2>2, <2>3, <2>4 DEF Terminate, Goto
  <2>5. CASE pc[w] \in {"idle", "claimed", "undo", "fail"}
    <3>1. LetGo(w, "dead")
      BY <1>4, <2>5 DEF Terminate
    <3>2. QED
      BY <2>1, <2>2, <2>3, <3>1 DEF LetGo, Goto
  <2>6. QED
    BY <1>4, <2>4, <2>5 DEF Terminate
<1>5. ASSUME NEW w \in Workers, Kill(w) PROVE TypeOK'
  <2>1. stops' \in 0 .. MaxStops
    BY <1>5, QueueAssumption DEF Kill
  <2>2. abandoned' \subseteq Jobs
    BY <1>5 DEF Kill
  <2>3. QED
    BY <1>5, <2>1, <2>2 DEF Kill, LetGo, Goto, queue, files
<1>6. ASSUME NEW w \in Workers, LoseConnection(w) PROVE TypeOK'
  <2>1. stops' \in 0 .. MaxStops
    BY <1>6, QueueAssumption DEF LoseConnection
  <2>2. abandoned' \subseteq Jobs
    BY <1>6 DEF LoseConnection
  <2>3. QED
    BY <1>6, <2>1, <2>2 DEF LoseConnection, Committed, LetGo, Goto
<1>7. ASSUME NEW w \in Workers, Restart(w) PROVE TypeOK'
  BY <1>7 DEF Restart, Goto, queue, files, outages
<1>8. ASSUME NEW w \in Workers, Heartbeat(w) PROVE TypeOK'
  BY <1>8 DEF Heartbeat, files, outages
<1>9. ASSUME NEW j \in Jobs, Lapse(j) PROVE TypeOK'
  BY <1>9 DEF Lapse, files, outages
<1>10. ASSUME NEW j \in Jobs, Enqueue(j) PROVE TypeOK'
  BY <1>10 DEF Enqueue, files, outages
<1>11. ASSUME NEW j \in Jobs, RemoveJob(j) PROVE TypeOK'
  BY <1>11 DEF RemoveJob, MakeDue, outages
<1>12. ASSUME NEW j \in Jobs, DeleteMap(j) PROVE TypeOK'
  BY <1>12 DEF DeleteMap, MakeDue, outages
<1>13. ASSUME NEW j \in Jobs, FileDue(j) PROVE TypeOK'
  BY <1>13 DEF FileDue, MakeDue, queue, outages
<1>14. ASSUME NEW j \in Jobs, Sweep(j) PROVE TypeOK'
  BY <1>14 DEF Sweep, queue, outages
<1>15. CASE UNCHANGED vars
  BY <1>15 DEF vars
<1>16. QED
  BY <1>1, <1>2, <1>3, <1>4, <1>5, <1>6, <1>7, <1>8, <1>9, <1>10, <1>11, <1>12, <1>13, <1>14, <1>15 DEF Next

\* Every value a run of the queue can reach has its type.
THEOREM WorkerTypeCorrect == Spec => []TypeOK
  BY TypeInit, TypeStep, PTL DEF Spec

-----------------------------------------------------------------------------
(* The inductive invariant *)

\* A job that a worker has was queued before and will not be queued again.
ClaimedOnce == \A w \in Workers : job[w] # NoJob => status[job[w]] \notin {"new", "queued"}

\* A success is written last in its transaction, and the job stays running until it is committed.
SuccessHeld ==
    \A w \in Workers : /\ "success" \in tx[w] <=> pc[w] = "commit"
                       /\ pc[w] = "commit" => Running(job[w])

Ownership == RunOnce /\ ClaimedOnce /\ SuccessHeld

\* Only a commit that also ends the job writes its files row.
Unwritten == \A j \in Jobs : status[j] \in {"new", "queued", "running", "failed"} => row[j] = "none"

\* By the time a worker writes its success its step shows as ended, if the job is still running.
StepEnded ==
    \A w \in Workers : pc[w] \in {"succeed", "commit"} /\ Running(job[w]) => ~step[job[w]]

Steps == StepEnded /\ EndedShowsNoRunningStep

\* Where the file of a job may be: not before it is claimed, under a registered undo while an export
\* runs whose undo was not cut short, and with the committed row once it is done.
FileTracked ==
    /\ \A j \in Jobs : status[j] \in {"new", "queued"} => j \notin store
    /\ \A w \in Workers :
          /\ job[w] \in Exports \ abandoned /\ job[w] \in store => registered[w]
          /\ pc[w] = "fail" => ~registered[w]
          /\ pc[w] \in {"finish", "succeed", "commit"} => "row" \in tx[w]
          /\ pc[w] = "done" /\ job[w] \in store => row[job[w]] # "none"

FileState == FileTracked /\ ExportLeavesNoOrphan

IInv == TypeOK /\ Ownership /\ Unwritten /\ Steps /\ FileState

\* A job is claimed once, and its success holds it.
LEMMA OwnershipStep == TypeOK /\ Ownership /\ [Next]_vars => Ownership'
<1> SUFFICES ASSUME TypeOK, Ownership, [Next]_vars PROVE Ownership'
  OBVIOUS
<1> USE NoJobIsNoJob DEF TypeOK, InTry, Ownership, RunOnce, ClaimedOnce, SuccessHeld, Running, RowLocked
<1>1. ASSUME NEW w \in Workers, Proceed(w) PROVE Ownership'
  <2>1. ASSUME NEW j \in Jobs, Claim(w, j) PROVE Ownership'
    BY <2>1 DEF Claim, Goto, files, outages
  <2>2. CASE Connect(w)
    BY <2>2 DEF Connect, Goto, queue, files, outages
  <2>3. CASE StartStep(w)
    BY <2>3 DEF StartStep, SetStep, Goto, queue, files, outages
  <2>4. CASE PlaceFile(w)
    BY <2>4 DEF PlaceFile, queue, files, outages
  <2>5. CASE RegisterUndo(w)
    BY <2>5 DEF RegisterUndo, queue, files, outages
  <2>6. CASE InsertRow(w)
    BY <2>6 DEF InsertRow, Goto, queue, files, outages
  <2>7. CASE FinishStep(w)
    BY <2>7 DEF FinishStep, SetStep, Goto, queue, files, outages
  <2>8. CASE Succeed(w)
    BY <2>8 DEF Succeed, Goto, queue, files, outages
  <2>9. CASE Commit(w)
    BY <2>9 DEF Commit, Committed, Goto, queue, files, outages
  <2>10. CASE Return(w)
    BY <2>10 DEF Return, LetGo, Goto, queue, files, outages
  <2>11. CASE Undo(w)
    BY <2>11 DEF Undo, LetGo, Goto, queue, files, outages
  <2>12. CASE ReportFailure(w)
    BY <2>12 DEF ReportFailure, FailJobs, LetGo, Goto, queue, files, outages
  <2>13. QED
    BY <1>1, <2>1, <2>2, <2>3, <2>4, <2>5, <2>6, <2>7, <2>8, <2>9, <2>10, <2>11, <2>12 DEF Proceed
<1>2. ASSUME NEW w \in Workers, FailStale(w) PROVE Ownership'
  BY <1>2 DEF FailStale, FailJobs, queue, files, outages
<1>3. ASSUME NEW w \in Workers, HandlerFails(w) PROVE Ownership'
  BY <1>3 DEF HandlerFails, Goto, queue, files, outages
<1>4. ASSUME NEW w \in Workers, Terminate(w) PROVE Ownership'
  BY <1>4 DEF Terminate, LetGo, Goto, queue, files, outages
<1>5. ASSUME NEW w \in Workers, Kill(w) PROVE Ownership'
  BY <1>5 DEF Kill, LetGo, Goto, queue, files, outages
<1>6. ASSUME NEW w \in Workers, LoseConnection(w) PROVE Ownership'
  BY <1>6 DEF LoseConnection, Committed, LetGo, Goto, queue, files, outages
<1>7. ASSUME NEW w \in Workers, Restart(w) PROVE Ownership'
  BY <1>7 DEF Restart, Goto, queue, files, outages
<1>8. ASSUME NEW w \in Workers, Heartbeat(w) PROVE Ownership'
  BY <1>8 DEF Heartbeat, queue, files, outages
<1>9. ASSUME NEW j \in Jobs, Lapse(j) PROVE Ownership'
  BY <1>9 DEF Lapse, queue, files, outages
<1>10. ASSUME NEW j \in Jobs, Enqueue(j) PROVE Ownership'
  BY <1>10 DEF Enqueue, queue, files, outages
<1>11. ASSUME NEW j \in Jobs, RemoveJob(j) PROVE Ownership'
  BY <1>11 DEF RemoveJob, MakeDue, queue, files, outages
<1>12. ASSUME NEW j \in Jobs, DeleteMap(j) PROVE Ownership'
  BY <1>12 DEF DeleteMap, MakeDue, queue, files, outages
<1>13. ASSUME NEW j \in Jobs, FileDue(j) PROVE Ownership'
  BY <1>13 DEF FileDue, MakeDue, queue, files, outages
<1>14. ASSUME NEW j \in Jobs, Sweep(j) PROVE Ownership'
  BY <1>14 DEF Sweep, queue, files, outages
<1>15. CASE UNCHANGED vars
  BY <1>15 DEF vars
<1>16. QED
  BY <1>1, <1>2, <1>3, <1>4, <1>5, <1>6, <1>7, <1>8, <1>9, <1>10, <1>11, <1>12, <1>13, <1>14, <1>15 DEF Next

\* A files row appears with the success of its job only.
LEMMA UnwrittenStep == TypeOK /\ Ownership /\ Unwritten /\ [Next]_vars => Unwritten'
<1> SUFFICES ASSUME TypeOK, Ownership, Unwritten, [Next]_vars PROVE Unwritten'
  OBVIOUS
<1> USE NoJobIsNoJob DEF TypeOK, InTry, Ownership, SuccessHeld, Unwritten, Running
<1>1. ASSUME NEW w \in Workers, Proceed(w) PROVE Unwritten'
  <2>1. ASSUME NEW j \in Jobs, Claim(w, j) PROVE Unwritten'
    BY <2>1 DEF Claim, Goto, files, outages
  <2>2. CASE Connect(w)
    BY <2>2 DEF Connect, Goto, queue, files, outages
  <2>3. CASE StartStep(w)
    BY <2>3 DEF StartStep, SetStep, Goto, queue, files, outages
  <2>4. CASE PlaceFile(w)
    BY <2>4 DEF PlaceFile, queue, files, outages
  <2>5. CASE RegisterUndo(w)
    BY <2>5 DEF RegisterUndo, queue, files, outages
  <2>6. CASE InsertRow(w)
    BY <2>6 DEF InsertRow, Goto, queue, files, outages
  <2>7. CASE FinishStep(w)
    BY <2>7 DEF FinishStep, SetStep, Goto, queue, files, outages
  <2>8. CASE Succeed(w)
    BY <2>8 DEF Succeed, Goto, queue, files, outages
  <2>9. CASE Commit(w)
    BY <2>9 DEF Commit, Committed, Goto, queue, files, outages
  <2>10. CASE Return(w)
    BY <2>10 DEF Return, LetGo, Goto, queue, files, outages
  <2>11. CASE Undo(w)
    BY <2>11 DEF Undo, LetGo, Goto, queue, files, outages
  <2>12. CASE ReportFailure(w)
    BY <2>12 DEF ReportFailure, FailJobs, LetGo, Goto, queue, files, outages
  <2>13. QED
    BY <1>1, <2>1, <2>2, <2>3, <2>4, <2>5, <2>6, <2>7, <2>8, <2>9, <2>10, <2>11, <2>12 DEF Proceed
<1>2. ASSUME NEW w \in Workers, FailStale(w) PROVE Unwritten'
  BY <1>2 DEF FailStale, FailJobs, queue, files, outages
<1>3. ASSUME NEW w \in Workers, HandlerFails(w) PROVE Unwritten'
  BY <1>3 DEF HandlerFails, Goto, queue, files, outages
<1>4. ASSUME NEW w \in Workers, Terminate(w) PROVE Unwritten'
  BY <1>4 DEF Terminate, LetGo, Goto, queue, files, outages
<1>5. ASSUME NEW w \in Workers, Kill(w) PROVE Unwritten'
  BY <1>5 DEF Kill, LetGo, Goto, queue, files, outages
<1>6. ASSUME NEW w \in Workers, LoseConnection(w) PROVE Unwritten'
  BY <1>6 DEF LoseConnection, Committed, LetGo, Goto, queue, files, outages
<1>7. ASSUME NEW w \in Workers, Restart(w) PROVE Unwritten'
  BY <1>7 DEF Restart, Goto, queue, files, outages
<1>8. ASSUME NEW w \in Workers, Heartbeat(w) PROVE Unwritten'
  BY <1>8 DEF Heartbeat, queue, files, outages
<1>9. ASSUME NEW j \in Jobs, Lapse(j) PROVE Unwritten'
  BY <1>9 DEF Lapse, queue, files, outages
<1>10. ASSUME NEW j \in Jobs, Enqueue(j) PROVE Unwritten'
  BY <1>10 DEF Enqueue, queue, files, outages
<1>11. ASSUME NEW j \in Jobs, RemoveJob(j) PROVE Unwritten'
  BY <1>11 DEF RemoveJob, MakeDue, queue, files, outages
<1>12. ASSUME NEW j \in Jobs, DeleteMap(j) PROVE Unwritten'
  BY <1>12 DEF DeleteMap, MakeDue, queue, files, outages
<1>13. ASSUME NEW j \in Jobs, FileDue(j) PROVE Unwritten'
  BY <1>13 DEF FileDue, MakeDue, queue, files, outages
<1>14. ASSUME NEW j \in Jobs, Sweep(j) PROVE Unwritten'
  BY <1>14 DEF Sweep, queue, files, outages
<1>15. CASE UNCHANGED vars
  BY <1>15 DEF vars
<1>16. QED
  BY <1>1, <1>2, <1>3, <1>4, <1>5, <1>6, <1>7, <1>8, <1>9, <1>10, <1>11, <1>12, <1>13, <1>14, <1>15 DEF Next

\* A job that ends shows no running step.
LEMMA StepsStep == TypeOK /\ Ownership /\ Steps /\ [Next]_vars => Steps'
<1> SUFFICES ASSUME TypeOK, Ownership, Steps, [Next]_vars PROVE Steps'
  OBVIOUS
<1> USE NoJobIsNoJob DEF TypeOK, InTry, Ownership, RunOnce, ClaimedOnce, SuccessHeld, Steps, StepEnded,
        EndedShowsNoRunningStep, Running
<1>1. ASSUME NEW w \in Workers, Proceed(w) PROVE Steps'
  <2>1. ASSUME NEW j \in Jobs, Claim(w, j) PROVE Steps'
    BY <2>1 DEF Claim, Goto, files, outages
  <2>2. CASE Connect(w)
    BY <2>2 DEF Connect, Goto, queue, files, outages
  <2>3. CASE StartStep(w)
    BY <2>3 DEF StartStep, SetStep, Goto, queue, files, outages
  <2>4. CASE PlaceFile(w)
    BY <2>4 DEF PlaceFile, queue, files, outages
  <2>5. CASE RegisterUndo(w)
    BY <2>5 DEF RegisterUndo, queue, files, outages
  <2>6. CASE InsertRow(w)
    BY <2>6 DEF InsertRow, Goto, queue, files, outages
  <2>7. CASE FinishStep(w)
    BY <2>7 DEF FinishStep, SetStep, Goto, queue, files, outages
  <2>8. CASE Succeed(w)
    BY <2>8 DEF Succeed, Goto, queue, files, outages
  <2>9. CASE Commit(w)
    BY <2>9 DEF Commit, Committed, Goto, queue, files, outages
  <2>10. CASE Return(w)
    BY <2>10 DEF Return, LetGo, Goto, queue, files, outages
  <2>11. CASE Undo(w)
    BY <2>11 DEF Undo, LetGo, Goto, queue, files, outages
  <2>12. CASE ReportFailure(w)
    <3>1. ASSUME NEW j \in Jobs
          PROVE  /\ step'[j] => step[j]
                 /\ status'[j] = "running" => status[j] = "running"
                 /\ status'[j] \in {"succeeded", "failed"} => status[j] = status'[j] \/ ~step'[j]
      BY <2>12 DEF ReportFailure, FailJobs
    <3>2. ASSUME NEW u \in Workers, pc'[u] \in {"succeed", "commit"}
          PROVE  pc[u] = pc'[u] /\ job'[u] = job[u] /\ job[u] \in Jobs
      BY <2>12, <3>2 DEF ReportFailure, LetGo, Goto
    <3>3. QED
      BY <3>1, <3>2
  <2>13. QED
    BY <1>1, <2>1, <2>2, <2>3, <2>4, <2>5, <2>6, <2>7, <2>8, <2>9, <2>10, <2>11, <2>12 DEF Proceed
<1>2. ASSUME NEW w \in Workers, FailStale(w) PROVE Steps'
  BY <1>2 DEF FailStale, FailJobs, queue, files, outages
<1>3. ASSUME NEW w \in Workers, HandlerFails(w) PROVE Steps'
  BY <1>3 DEF HandlerFails, Goto, queue, files, outages
<1>4. ASSUME NEW w \in Workers, Terminate(w) PROVE Steps'
  BY <1>4 DEF Terminate, LetGo, Goto, queue, files, outages
<1>5. ASSUME NEW w \in Workers, Kill(w) PROVE Steps'
  BY <1>5 DEF Kill, LetGo, Goto, queue, files, outages
<1>6. ASSUME NEW w \in Workers, LoseConnection(w) PROVE Steps'
  BY <1>6 DEF LoseConnection, Committed, LetGo, Goto, queue, files, outages
<1>7. ASSUME NEW w \in Workers, Restart(w) PROVE Steps'
  BY <1>7 DEF Restart, Goto, queue, files, outages
<1>8. ASSUME NEW w \in Workers, Heartbeat(w) PROVE Steps'
  BY <1>8 DEF Heartbeat, queue, files, outages
<1>9. ASSUME NEW j \in Jobs, Lapse(j) PROVE Steps'
  BY <1>9 DEF Lapse, queue, files, outages
<1>10. ASSUME NEW j \in Jobs, Enqueue(j) PROVE Steps'
  BY <1>10 DEF Enqueue, queue, files, outages
<1>11. ASSUME NEW j \in Jobs, RemoveJob(j) PROVE Steps'
  BY <1>11 DEF RemoveJob, MakeDue, queue, files, outages
<1>12. ASSUME NEW j \in Jobs, DeleteMap(j) PROVE Steps'
  BY <1>12 DEF DeleteMap, MakeDue, queue, files, outages
<1>13. ASSUME NEW j \in Jobs, FileDue(j) PROVE Steps'
  BY <1>13 DEF FileDue, MakeDue, queue, files, outages
<1>14. ASSUME NEW j \in Jobs, Sweep(j) PROVE Steps'
  BY <1>14 DEF Sweep, queue, files, outages
<1>15. CASE UNCHANGED vars
  BY <1>15 DEF vars
<1>16. QED
  BY <1>1, <1>2, <1>3, <1>4, <1>5, <1>6, <1>7, <1>8, <1>9, <1>10, <1>11, <1>12, <1>13, <1>14, <1>15 DEF Next

\* Every way a worker leaves an export takes its file along, commits its row, or is counted.
LEMMA FileStateStep == TypeOK /\ Ownership /\ FileState /\ [Next]_vars => FileState'
<1> SUFFICES ASSUME TypeOK, Ownership, FileState, [Next]_vars PROVE FileState'
  OBVIOUS
<1> USE NoJobIsNoJob DEF TypeOK, InTry, Ownership, RunOnce, ClaimedOnce, FileState, FileTracked,
        ExportLeavesNoOrphan, WorkedOn
<1>1. ASSUME NEW w \in Workers, Proceed(w) PROVE FileState'
  <2>1. ASSUME NEW j \in Jobs, Claim(w, j) PROVE FileState'
    BY <2>1 DEF Claim, Goto, files, outages
  <2>2. CASE Connect(w)
    BY <2>2 DEF Connect, Goto, queue, files, outages
  <2>3. CASE StartStep(w)
    BY <2>3 DEF StartStep, SetStep, Goto, queue, files, outages
  <2>4. CASE PlaceFile(w)
    BY <2>4 DEF PlaceFile, queue, files, outages
  <2>5. CASE RegisterUndo(w)
    BY <2>5 DEF RegisterUndo, queue, files, outages
  <2>6. CASE InsertRow(w)
    BY <2>6 DEF InsertRow, Goto, queue, files, outages
  <2>7. CASE FinishStep(w)
    BY <2>7 DEF FinishStep, SetStep, Goto, queue, files, outages
  <2>8. CASE Succeed(w)
    BY <2>8 DEF Succeed, Goto, queue, files, outages
  <2>9. CASE Commit(w)
    BY <2>9 DEF Commit, Committed, Goto, queue, files, outages
  <2>10. CASE Return(w)
    BY <2>10 DEF Return, LetGo, Goto, queue, files, outages
  <2>11. CASE Undo(w)
    BY <2>11 DEF Undo, LetGo, Goto, queue, files, outages
  <2>12. CASE ReportFailure(w)
    BY <2>12 DEF ReportFailure, FailJobs, LetGo, Goto, queue, files, outages
  <2>13. QED
    BY <1>1, <2>1, <2>2, <2>3, <2>4, <2>5, <2>6, <2>7, <2>8, <2>9, <2>10, <2>11, <2>12 DEF Proceed
<1>2. ASSUME NEW w \in Workers, FailStale(w) PROVE FileState'
  BY <1>2 DEF FailStale, FailJobs, queue, files, outages
<1>3. ASSUME NEW w \in Workers, HandlerFails(w) PROVE FileState'
  BY <1>3 DEF HandlerFails, Goto, queue, files, outages
<1>4. ASSUME NEW w \in Workers, Terminate(w) PROVE FileState'
  <2>1. /\ UNCHANGED <<status, row, store>>
        /\ abandoned \subseteq abandoned'
    BY <1>4 DEF Terminate, queue, files
  <2>2. CASE pc[w] \in InTry \cup {"drop"} /\ tx' = [tx EXCEPT ![w] = {}] /\ UNCHANGED <<job, registered, abandoned>>
             /\ Goto(w, "undo")
    BY <2>1, <2>2 DEF Goto
  <2>3. CASE /\ pc[w] = "drop" /\ registered' = [registered EXCEPT ![w] = FALSE]
             /\ abandoned' = abandoned \cup {job[w]} /\ Goto(w, "undo") /\ UNCHANGED <<job, tx>>
    BY <2>1, <2>3 DEF Goto
  <2>4. CASE /\ pc[w] \in {"idle", "claimed", "undo", "fail"} /\ LetGo(w, "dead")
             /\ abandoned' = abandoned \cup ({job[w]} \ {NoJob})
    BY <2>1, <2>4 DEF LetGo, Goto
  <2>5. QED
    BY <1>4, <2>2, <2>3, <2>4 DEF Terminate
<1>5. ASSUME NEW w \in Workers, Kill(w) PROVE FileState'
  BY <1>5 DEF Kill, LetGo, Goto, queue, files, outages
<1>6. ASSUME NEW w \in Workers, LoseConnection(w) PROVE FileState'
  BY <1>6 DEF LoseConnection, Committed, LetGo, Goto, queue, files, outages
<1>7. ASSUME NEW w \in Workers, Restart(w) PROVE FileState'
  BY <1>7 DEF Restart, Goto, queue, files, outages
<1>8. ASSUME NEW w \in Workers, Heartbeat(w) PROVE FileState'
  BY <1>8 DEF Heartbeat, queue, files, outages
<1>9. ASSUME NEW j \in Jobs, Lapse(j) PROVE FileState'
  BY <1>9 DEF Lapse, queue, files, outages
<1>10. ASSUME NEW j \in Jobs, Enqueue(j) PROVE FileState'
  BY <1>10 DEF Enqueue, queue, files, outages
<1>11. ASSUME NEW j \in Jobs, RemoveJob(j) PROVE FileState'
  BY <1>11 DEF RemoveJob, MakeDue, queue, files, outages
<1>12. ASSUME NEW j \in Jobs, DeleteMap(j) PROVE FileState'
  BY <1>12 DEF DeleteMap, MakeDue, queue, files, outages
<1>13. ASSUME NEW j \in Jobs, FileDue(j) PROVE FileState'
  BY <1>13 DEF FileDue, MakeDue, queue, files, outages
<1>14. ASSUME NEW j \in Jobs, Sweep(j) PROVE FileState'
  BY <1>14 DEF Sweep, queue, files, outages
<1>15. CASE UNCHANGED vars
  BY <1>15 DEF vars
<1>16. QED
  BY <1>1, <1>2, <1>3, <1>4, <1>5, <1>6, <1>7, <1>8, <1>9, <1>10, <1>11, <1>12, <1>13, <1>14, <1>15 DEF Next

LEMMA InvInit == Init => IInv
  BY TypeInit, NoJobIsNoJob
     DEF Init, IInv, TypeOK, Ownership, RunOnce, ClaimedOnce, SuccessHeld, Unwritten, Steps, StepEnded,
         EndedShowsNoRunningStep, FileState, FileTracked, ExportLeavesNoOrphan

LEMMA InvStep == IInv /\ [Next]_vars => IInv'
  BY TypeStep, OwnershipStep, UnwrittenStep, StepsStep, FileStateStep DEF IInv

\* What the safety theorems below rest on.
THEOREM Invariance == Spec => []IInv
  BY InvInit, InvStep, PTL DEF Spec

-----------------------------------------------------------------------------
(* The safety properties of the queue *)

\* However a worker and the stale check race for the end of a job, and wherever the worker stops, a
\* failed job has no committed file.
THEOREM FailedWroteNothingHolds == Spec => []FailedWroteNothing
<1>1. IInv => FailedWroteNothing
  BY DEF IInv, Unwritten, FailedWroteNothing
<1>2. QED
  BY Invariance, <1>1, PTL

\* No two workers ever run the same job.
THEOREM RunOnceHolds == Spec => []RunOnce
<1>1. IInv => RunOnce
  BY DEF IInv, Ownership
<1>2. QED
  BY Invariance, <1>1, PTL

\* A late update of the side connection never leaves a step of an ended job running.
THEOREM EndedShowsNoRunningStepHolds == Spec => []EndedShowsNoRunningStep
<1>1. IInv => EndedShowsNoRunningStep
  BY DEF IInv, Steps
<1>2. QED
  BY Invariance, <1>1, PTL

\* An export whose worker came to its end in the code leaves no file without its row.
THEOREM ExportLeavesNoOrphanHolds == Spec => []ExportLeavesNoOrphan
<1>1. IInv => ExportLeavesNoOrphan
  BY DEF IInv, FileState
<1>2. QED
  BY Invariance, <1>1, PTL
=============================================================================
