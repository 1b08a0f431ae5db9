-------------------------- MODULE ImportedOriginals --------------------------
(***************************************************************************)
(* The life of one uploaded original that personal maps are imported from, *)
(* statement by statement under READ COMMITTED:                            *)
(*   - the API queues an import of it (enqueueImport);                     *)
(*   - a worker reads it, writes the map and keeps the original;           *)
(*   - the cleanup, one process, notices inactive maps, archives them,     *)
(*     which dates their originals, and removes what is past its date;     *)
(*   - its owner may open or delete a map, and may remove the upload.      *)
(* A transaction waits for a row at the label of the statement that locks  *)
(* it; what it has written shows when it commits.  How a worker may stop,  *)
(* and what becomes of the files it makes, is in JobWorker.                *)
(***************************************************************************)
EXTENDS RowLocks

CONSTANTS
    Jobs,     \* import jobs of the upload
    Maps,     \* personal maps of its owner
    Cleanup,  \* the cleanup process
    File, User,
    Raster    \* whether the upload is a raster, or a file of features

Actors == Jobs \cup {Cleanup}

ASSUME ActorsAssumption ==
    /\ Cleanup \notin Jobs
    /\ File # User /\ {File, User} \cap Maps = {}
    /\ Raster \in BOOLEAN

VARIABLES
    upload,    \* its files row: `kept' without a delete_after, `dated', `due' once that passed, or gone
    onDisk,    \* whether the file is in the store
    archived,  \* the maps with an archived_at
    deleted,   \* the maps whose rows are deleted, and with them those of their jobs
    noticed,   \* the maps with an inactivity notice
    status,    \* status of each job; `new' before it is queued
    mapOf,     \* the map it imports into
    pc,        \* the statement each actor is at
    locks,     \* granted row locks: <<actor, row, mode>>
    writes,    \* what the open transaction of an actor has written to the upload: `none', `kept' or `dated'
    late,      \* the jobs whose queueing transaction, not past the upload yet, began after its date
    archiving  \* the map the cleanup is archiving, if any

vars == <<upload, onDisk, archived, deleted, noticed, status, mapOf, pc, locks, writes, late, archiving>>
tables == <<upload, onDisk, archived, deleted, noticed, status, mapOf>>

Present == {"kept", "dated", "due"}
LiveImport == {"queued", "running", "succeeded"}

Live(m) == m \notin archived \cup deleted
JobRows == {j \in Jobs : mapOf[j] \notin deleted}

-----------------------------------------------------------------------------
(* Locks *)

\* The row and mode of the statement an actor is at, if it is a locking one.
Wanted(t) ==
    CASE pc[t] = "queueMap"    -> {<<mapOf[t], "KEY SHARE">>}
      [] pc[t] = "queueUser"   -> {<<User, "KEY SHARE">>}
      [] pc[t] = "queueFile"   -> {<<File, "UPDATE">>}
      [] pc[t] = "insertJob"   -> {<<mapOf[t], "KEY SHARE">>, <<User, "KEY SHARE">>}
      [] pc[t] = "lockMap"     -> {<<mapOf[t], "UPDATE">>}
      [] pc[t] = "insertCog"   -> {<<User, "KEY SHARE">>}
      [] pc[t] = "lockUser"    -> {<<User, "UPDATE">>}
      [] pc[t] = "clearDate"   -> {<<File, "NO KEY UPDATE">>}
      [] pc[t] = "archiveMap"  -> {<<m, "UPDATE">> : m \in archiving}
      [] pc[t] = "setDate"     -> {<<File, "NO KEY UPDATE">>}
      [] pc[t] = "sweepFile"   -> {<<File, "UPDATE">>}
      [] OTHER                 -> {}

WaitsFor(t) == UNION {HoldersAgainst(locks, t, r[1], r[2]) : r \in Wanted(t)}

\* For a transaction of a single statement.
Free(r, mode) == \A l \in locks : l[2] = r => <<l[3], mode>> \notin Conflicting

Goto(t, label) == pc' = [pc EXCEPT ![t] = label]

\* The statement of t gets its locks; the transaction goes on at `label'.
Lock(t, label) ==
    /\ WaitsFor(t) = {}
    /\ locks' = locks \cup {<<t, r[1], r[2]>> : r \in Wanted(t)}
    /\ Goto(t, label)

\* The end of a transaction, committed or not.
End(t, label) ==
    /\ locks' = {l \in locks : l[1] # t}
    /\ writes' = [writes EXCEPT ![t] = "none"]
    /\ Goto(t, label)

\* The upload's row once the transaction of t is committed.
Committed(t) == IF writes[t] = "none" \/ upload \notin Present THEN upload ELSE writes[t]

SetStatus(j, s) == status' = [status EXCEPT ![j] = s]

-----------------------------------------------------------------------------
(* enqueueImport *)

\* Mutant of BeginQueue: the upload is locked first, the map and the user by the job's foreign keys.
BeginQueueAtFile(j) ==
    /\ pc[j] = "new" /\ Live(mapOf[j])
    /\ Goto(j, "queueFile")
    /\ late' = IF upload = "due" THEN late \cup {j} ELSE late
    /\ UNCHANGED <<tables, locks, writes, archiving>>

\* mapRole: an archived map is nobody's, a deleted one is not found.
BeginQueue(j) ==
    /\ pc[j] = "new" /\ Live(mapOf[j])
    /\ Goto(j, "queueMap")
    /\ late' = IF upload = "due" THEN late \cup {j} ELSE late
    /\ UNCHANGED <<tables, locks, writes, archiving>>

QueueLocks(j) ==
    /\ \/ pc[j] = "queueMap" /\ Lock(j, "queueUser")
       \/ pc[j] = "queueUser" /\ Lock(j, "queueFile")
    /\ UNCHANGED <<tables, writes, late, archiving>>

\* An upload whose date has passed is gone; `now' is the beginning of the transaction.
Usable(j) == upload \in {"kept", "dated"} \/ (upload = "due" /\ j \notin late)

\* Mutant of FindUpload: a plain SELECT.
FindUploadUnlocked(j) ==
    /\ pc[j] = "queueFile"
    /\ IF Usable(j) THEN Goto(j, "insertJob") /\ UNCHANGED <<locks, writes>> ELSE End(j, "refused")
    /\ late' = late \ {j}
    /\ UNCHANGED <<tables, archiving>>

\* The upload is found and locked, or there is none to import.
FindUpload(j) ==
    /\ pc[j] = "queueFile"
    /\ IF Usable(j) THEN Lock(j, "insertJob") /\ UNCHANGED writes ELSE End(j, "refused")
    /\ late' = late \ {j}
    /\ UNCHANGED <<tables, archiving>>

\* Mutant of InsertJob: the date is cleared at once, not by the import that succeeds.
InsertJobClearingDate(j) ==
    /\ pc[j] = "insertJob" /\ WaitsFor(j) = {}
    /\ SetStatus(j, "queued")
    /\ upload' = "kept"
    /\ End(j, "queued")
    /\ UNCHANGED <<onDisk, archived, deleted, noticed, mapOf, late, archiving>>

\* The foreign key refuses the job of a map that has been deleted since.
InsertJob(j) ==
    /\ pc[j] = "insertJob" /\ WaitsFor(j) = {}
    /\ IF mapOf[j] \in deleted THEN End(j, "refused") /\ UNCHANGED status
       ELSE SetStatus(j, "queued") /\ End(j, "queued")
    /\ UNCHANGED <<upload, onDisk, archived, deleted, noticed, mapOf, late, archiving>>

-----------------------------------------------------------------------------
(* The worker *)

Claim(j) ==
    /\ pc[j] = "queued" /\ j \in JobRows
    /\ SetStatus(j, "running")
    /\ Goto(j, "readUpload")
    /\ UNCHANGED <<upload, onDisk, archived, deleted, noticed, mapOf, locks, writes, late, archiving>>

ReadUpload(j) ==
    /\ pc[j] = "readUpload" /\ onDisk
    /\ Goto(j, "lockMap")
    /\ UNCHANGED <<tables, locks, writes, late, archiving>>

\* lock_owned_map
LockMap(j) ==
    /\ pc[j] = "lockMap" /\ Live(mapOf[j])
    /\ Lock(j, IF Raster THEN "insertCog" ELSE "lockUser")
    /\ UNCHANGED <<tables, writes, late, archiving>>

\* The raster's COG becomes a file of the owner, whom the foreign key of the new row locks.
InsertCog(j) ==
    /\ pc[j] = "insertCog"
    /\ Lock(j, "lockUser")
    /\ UNCHANGED <<tables, writes, late, archiving>>

\* finish_map_write: the owner's row again, for the quota.
LockUser(j) ==
    /\ pc[j] = "lockUser"
    /\ Lock(j, "keepOriginal")
    /\ UNCHANGED <<tables, writes, late, archiving>>

\* keep_imported_original: only a row that has a date, as this statement sees it, is updated.
KeepImportedOriginal(j) ==
    /\ pc[j] = "keepOriginal"
    /\ Goto(j, IF upload \in {"dated", "due"} THEN "clearDate" ELSE "succeed")
    /\ UNCHANGED <<tables, locks, writes, late, archiving>>

ClearDate(j) ==
    /\ pc[j] = "clearDate"
    /\ Lock(j, "succeed")
    /\ writes' = [writes EXCEPT ![j] = "kept"]
    /\ UNCHANGED <<tables, late, archiving>>

\* From here on the job's own row is locked too.
Succeed(j) ==
    /\ pc[j] = "succeed" /\ status[j] = "running"
    /\ Goto(j, "commitImport")
    /\ UNCHANGED <<tables, locks, writes, late, archiving>>

CommitImport(j) ==
    /\ pc[j] = "commitImport"
    /\ SetStatus(j, "succeeded")
    /\ upload' = Committed(j)
    /\ noticed' = noticed \ {mapOf[j]}
    /\ End(j, "done")
    /\ UNCHANGED <<onDisk, archived, deleted, mapOf, late, archiving>>

\* The import fails, for whatever reason, a deadlock the server ends among them; the failure is reported,
\* if nobody has yet.
FailImport(j) ==
    /\ pc[j] \in {"readUpload", "lockMap", "insertCog", "lockUser", "keepOriginal", "clearDate", "succeed",
                  "commitImport"}
    /\ SetStatus(j, "failed")
    /\ End(j, "done")
    /\ UNCHANGED <<upload, onDisk, archived, deleted, noticed, mapOf, late, archiving>>

\* Another worker's stale check.
FailStale(j) ==
    /\ j \in JobRows /\ status[j] = "running" /\ pc[j] # "commitImport"
    /\ SetStatus(j, "failed")
    /\ UNCHANGED <<upload, onDisk, archived, deleted, noticed, mapOf, pc, locks, writes, late, archiving>>

-----------------------------------------------------------------------------
(* The cleanup *)

MarkInactive(m) ==
    /\ pc[Cleanup] = "idle"
    /\ Live(m) /\ m \notin noticed
    /\ Free(m, "NO KEY UPDATE")
    /\ noticed' = noticed \cup {m}
    /\ UNCHANGED <<upload, onDisk, archived, deleted, status, mapOf, pc, locks, writes, late, archiving>>

\* A map of the list archiveNoticed has read; it is locked, and looked at again, when its turn comes.
BeginArchive(m) ==
    /\ pc[Cleanup] = "idle"
    /\ m \in noticed \ archived
    /\ archiving' = {m}
    /\ Goto(Cleanup, "archiveMap")
    /\ UNCHANGED <<tables, locks, writes, late>>

\* Mutant of ArchiveMap: the notice is not looked at again under the lock.
ArchiveMapAsListed ==
    /\ pc[Cleanup] = "archiveMap"
    /\ Lock(Cleanup, "markOriginals")
    /\ UNCHANGED <<tables, writes, late, archiving>>

ArchiveMap ==
    /\ pc[Cleanup] = "archiveMap"
    /\ IF archiving \subseteq noticed \ archived
       THEN Lock(Cleanup, "markOriginals") /\ UNCHANGED <<writes, archiving>>
       ELSE End(Cleanup, "idle") /\ archiving' = {}
    /\ UNCHANGED <<tables, late>>

\* Whether the upload is an original of the maps being archived that no live map keeps.
IsOriginalToDate(ms) ==
    /\ upload \in Present
    /\ \E j \in JobRows : mapOf[j] \in ms /\ status[j] \in LiveImport
    /\ \A j \in JobRows : status[j] = "succeeded" => mapOf[j] \in archived \cup ms

\* The jobs are looked at when the statement begins, the row is locked and updated after that.
MarkArchivedOriginals ==
    /\ pc[Cleanup] = "markOriginals"
    /\ Goto(Cleanup, IF IsOriginalToDate(archiving) THEN "setDate" ELSE "commitArchive")
    /\ UNCHANGED <<tables, locks, writes, late, archiving>>

SetDate ==
    /\ pc[Cleanup] = "setDate"
    /\ Lock(Cleanup, "commitArchive")
    /\ writes' = [writes EXCEPT ![Cleanup] = "dated"]
    /\ UNCHANGED <<tables, late, archiving>>

CommitArchive ==
    /\ pc[Cleanup] = "commitArchive"
    /\ archived' = archived \cup archiving
    /\ archiving' = {}
    /\ upload' = Committed(Cleanup)
    /\ End(Cleanup, "idle")
    /\ UNCHANGED <<onDisk, deleted, noticed, status, mapOf, late>>

\* Mutant of BeingImported: a failed import holds the file, too.
EverImported == \E j \in JobRows : status[j] \in {"queued", "running", "failed"}

BeingImported == \E j \in JobRows : status[j] \in {"queued", "running"}

\* deleteExpiredFiles
BeginSweep ==
    /\ pc[Cleanup] = "idle"
    /\ upload = "due" /\ ~BeingImported
    /\ Goto(Cleanup, "sweepFile")
    /\ UNCHANGED <<tables, locks, writes, late, archiving>>

SweepFile ==
    /\ pc[Cleanup] = "sweepFile"
    /\ IF upload = "due" THEN Lock(Cleanup, "checkImports") /\ UNCHANGED writes
       ELSE End(Cleanup, "idle")
    /\ UNCHANGED <<tables, late, archiving>>

\* Imports are looked at in a statement of its own, under the lock.
CheckImports ==
    /\ pc[Cleanup] = "checkImports"
    /\ IF BeingImported THEN End(Cleanup, "idle") ELSE Goto(Cleanup, "unlink") /\ UNCHANGED <<locks, writes>>
    /\ UNCHANGED <<tables, late, archiving>>

UnlinkExpired ==
    /\ pc[Cleanup] = "unlink"
    /\ onDisk' = FALSE
    /\ Goto(Cleanup, "deleteRow")
    /\ UNCHANGED <<upload, archived, deleted, noticed, status, mapOf, locks, writes, late, archiving>>

DeleteRow ==
    /\ pc[Cleanup] = "deleteRow"
    /\ upload' = "swept"
    /\ End(Cleanup, "idle")
    /\ UNCHANGED <<onDisk, archived, deleted, noticed, status, mapOf, late, archiving>>

\* The transaction fails after the file is gone: the row stays for the next run.
DeleteFails ==
    /\ pc[Cleanup] = "deleteRow"
    /\ End(Cleanup, "idle")
    /\ UNCHANGED <<tables, late, archiving>>

-----------------------------------------------------------------------------
(* The owner, and time *)

\* mapsService.get: activity clears the notice, unless a write holds the map.
OpenMap(m) ==
    /\ m \in noticed \ archived
    /\ Free(m, "NO KEY UPDATE")
    /\ noticed' = noticed \ {m}
    /\ UNCHANGED <<upload, onDisk, archived, deleted, status, mapOf, pc, locks, writes, late, archiving>>

\* mapsService.remove: the rows of its jobs go with it; its uploads keep their dates.
RemoveMap(m) ==
    /\ Live(m)
    /\ Free(m, "UPDATE")
    /\ deleted' = deleted \cup {m}
    /\ noticed' = noticed \ {m}
    /\ UNCHANGED <<upload, onDisk, archived, status, mapOf, pc, locks, writes, late, archiving>>

\* uploads.remove: the row, then the file.
RemoveUpload ==
    /\ upload \in Present
    /\ Free(File, "UPDATE")
    /\ upload' = "removed"
    /\ UNCHANGED <<onDisk, archived, deleted, noticed, status, mapOf, pc, locks, writes, late, archiving>>

UnlinkRemoved ==
    /\ upload = "removed" /\ onDisk
    /\ onDisk' = FALSE
    /\ UNCHANGED <<upload, archived, deleted, noticed, status, mapOf, pc, locks, writes, late, archiving>>

DatePasses ==
    /\ upload = "dated"
    /\ upload' = "due"
    /\ UNCHANGED <<onDisk, archived, deleted, noticed, status, mapOf, pc, locks, writes, late, archiving>>

-----------------------------------------------------------------------------
Init ==
    /\ upload = "kept"
    /\ onDisk = TRUE
    /\ archived = {}
    /\ deleted = {}
    /\ noticed = {}
    /\ status = [j \in Jobs |-> "new"]
    /\ mapOf \in [Jobs -> Maps]
    /\ pc = [t \in Actors |-> IF t = Cleanup THEN "idle" ELSE "new"]
    /\ locks = {}
    /\ writes = [t \in Actors |-> "none"]
    /\ late = {}
    /\ archiving = {}

Import(j) ==
    \/ Claim(j) \/ ReadUpload(j) \/ LockMap(j) \/ InsertCog(j) \/ LockUser(j) \/ KeepImportedOriginal(j)
    \/ ClearDate(j) \/ Succeed(j) \/ CommitImport(j) \/ FailImport(j)

Archive == ArchiveMap \/ MarkArchivedOriginals \/ SetDate \/ CommitArchive
Sweep == BeginSweep \/ SweepFile \/ CheckImports \/ UnlinkExpired \/ DeleteRow

Enqueue(j) == QueueLocks(j) \/ FindUpload(j) \/ InsertJob(j)

Next ==
    \/ \E j \in Jobs : BeginQueue(j)
    \/ \E j \in Jobs : Enqueue(j)
    \/ \E j \in Jobs : Import(j)
    \/ \E j \in Jobs : FailStale(j)
    \/ \E m \in Maps : MarkInactive(m)
    \/ \E m \in Maps : BeginArchive(m)
    \/ Archive
    \/ Sweep
    \/ DeleteFails
    \/ \E m \in Maps : OpenMap(m)
    \/ \E m \in Maps : RemoveMap(m)
    \/ RemoveUpload
    \/ UnlinkRemoved
    \/ DatePasses

Spec == Init /\ [][Next]_vars

\* A transaction goes on or fails, jobs are claimed, and every run of the cleanup, whatever else it
\* does, gets to its sweep, which does not fail forever.
FairSpec ==
    /\ Spec
    /\ \A j \in Jobs : WF_vars(Enqueue(j) \/ Import(j))
    /\ WF_vars(Archive) /\ SF_vars(Sweep) /\ SF_vars(DeleteRow)

-----------------------------------------------------------------------------
(* Properties *)

TypeOK ==
    /\ upload \in Present \cup {"swept", "removed"}
    /\ onDisk \in BOOLEAN
    /\ archived \subseteq Maps
    /\ deleted \subseteq Maps \ archived
    /\ noticed \subseteq Maps
    /\ status \in [Jobs -> {"new", "queued", "running", "succeeded", "failed"}]
    /\ mapOf \in [Jobs -> Maps]
    /\ pc \in [Actors -> {"new", "queueMap", "queueUser", "queueFile", "insertJob", "queued", "refused",
                          "readUpload", "lockMap", "insertCog", "lockUser", "keepOriginal", "clearDate",
                          "succeed", "commitImport", "done", "idle", "archiveMap", "markOriginals", "setDate",
                          "commitArchive", "sweepFile", "checkImports", "unlink", "deleteRow"}]
    /\ locks \subseteq Actors \X (Maps \cup {File, User}) \X Modes
    /\ writes \in [Actors -> {"none", "kept", "dated"}]
    /\ late \subseteq Jobs
    /\ archiving \subseteq Maps

\* The sweep never takes a file away from an import that is queued or running, although it decides on
\* the file before it locks the row, and an import may be queued in between.
SweepSparesImports ==
    [][onDisk /\ ~onDisk' /\ upload \in Present => ~BeingImported]_vars

\* The raster imports that hold their owner's row for their COG and want it for the quota.
Upgrading == {j \in Jobs : Raster /\ pc[j] = "lockUser"}

\* Queueing, imports, archiving and the sweep take their locks in the order map, user, file (jobs.ts), and
\* whenever some of them wait for each other in a circle, two raster imports, into two maps of one owner,
\* wait for each other's hold on the owner's row; nothing else in the circle would have closed it.
DeadlockOnlyAtQuota ==
    \A S \in (SUBSET Actors) \ {{}} :
       \E t \in S : WaitsFor(t) \cap S \subseteq (IF t \in Upgrading THEN Upgrading ELSE {})

\* When every map an upload was ever imported into is archived, it has a date, or is gone: no failed
\* import, no order of archiving keeps it for good (a map that is deleted leaves it undated).
OriginalDated ==
    LET fed == {mapOf[j] : j \in {k \in Jobs : status[k] = "succeeded"}}
    IN  fed # {} /\ fed \subseteq archived => upload # "kept"

\* A map whose owner came back after it was listed for archiving is not archived.
ReturnedOwnerKeepsMap == [][archived' \ archived \subseteq noticed]_vars

\* What is past its date does not stay: imports of it end, and then a sweep removes it, unless it is
\* kept or dated again.
ExpiredGoes == upload = "due" ~> upload # "due"
=============================================================================
