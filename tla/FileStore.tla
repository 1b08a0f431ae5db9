------------------------------ MODULE FileStore ------------------------------
(* The files of personal maps: rows of workspace.files on one side, files in the store directory on
   the other, which no transaction spans. Uploads, map copies and raster imports write a file first
   and commit its row after; each takes the row of the user it counts against (FOR UPDATE) before it
   checks the quota, the copy and the import after the map's row. Files leave by the sweep of
   expired files, by the removal of an upload, and by the reconciliation of the store with the rows.
   A process may die anywhere, the answer to a COMMIT may be lost, and a worker may be stopped before
   it is through with a job it has committed. Every file has size 1. *)
EXTENDS Naturals, FiniteSets

CONSTANTS
    Users,
    MapOwner,     \* the owner of the one map that is imported into and copied
    Files,        \* file ids
    Sources,      \* the COGs that map shows at first
    Requests,
    KindOf,       \* request -> "upload", "copy" or "import"
    UserOf,       \* request -> the user whose quota it counts against
    Quota,
    MaxShare,     \* RECONCILE_MAX_SHARE, as one candidate in MaxShare files
    Nothing

Kinds == {"upload", "cog"}

ASSUME FileStoreAssumption ==
    /\ Files \subseteq Nat /\ IsFiniteSet(Files)
    /\ Sources \subseteq Files
    /\ MapOwner \in Users /\ Quota \in Nat
    /\ Nothing \notin Requests /\ Nothing \notin Users \X Kinds
    /\ KindOf \in [Requests -> {"upload", "copy", "import"}]
    /\ UserOf \in [Requests -> Users]
    /\ \A r \in Requests : KindOf[r] = "import" => UserOf[r] = MapOwner
    /\ \A r \in Requests : KindOf[r] = "copy" => UserOf[r] # MapOwner
    /\ Cardinality(Sources) <= Quota

VARIABLES
    row,         \* file -> "none", "live", or "expired" (delete_after has passed)
    about,       \* file -> its owner and kind once the id is given out
    onDisk,      \* the files in the store
    aged,        \* files last touched before the grace period of the reconciliation
    layers,      \* the COGs that raster layers show
    userLock,    \* user -> the request that holds the row
    mapLock,     \* the requests that hold the map's row
    request,     \* request -> [stage, todo, written]
    disowned     \* files their request was to undo although their COMMIT had succeeded

rows == <<row, about, layers>>
files == <<onDisk, aged>>
locks == <<userLock, mapLock>>
vars == <<rows, files, locks, request, disowned>>

Ended == {"done", "failed", "dead"}
Stages == {"idle", "streaming", "written", "copying", "inMap", "locked", "ready", "committed",
           "failing"} \cup Ended

TypeOK ==
    /\ row \in [Files -> {"none", "live", "expired"}]
    /\ about \in [Files -> {Nothing} \cup (Users \X Kinds)]
    /\ onDisk \subseteq Files /\ aged \subseteq Files /\ layers \subseteq Files
    /\ userLock \in [Users -> Requests \cup {Nothing}]
    /\ mapLock \subseteq Requests
    /\ request \in [Requests -> [stage: Stages, todo: SUBSET Files, written: SUBSET Files]]
    /\ disowned \subseteq Files

------------------------------------------------------------------------------
\* usage_bytes over the committed rows.
Usage(u) == Cardinality({f \in Files : row[f] = "live" /\ about[f][1] = u})

\* A random uuid in the code: which fresh id is taken is of no account.
Fresh(f) == about[f] = Nothing /\ \A g \in Files : about[g] = Nothing => f <= g
InMap(f) == about[f] = <<MapOwner, "cog">>

Init ==
    /\ row = [f \in Files |-> IF f \in Sources THEN "live" ELSE "none"]
    /\ about = [f \in Files |-> IF f \in Sources THEN <<MapOwner, "cog">> ELSE Nothing]
    /\ onDisk = Sources
    /\ aged = {}
    /\ layers = Sources
    /\ userLock = [u \in Users |-> Nothing]
    /\ mapLock = {}
    /\ request = [r \in Requests |-> [stage |-> "idle", todo |-> {}, written |-> {}]]
    /\ disowned = {}

Goes(r, from, to) ==
    /\ request[r].stage = from
    /\ request' = [request EXCEPT ![r].stage = to]

\* A request writes a file of its own, and holds it in `written` until it has ended.
Writes(r, from, to, kind) ==
    /\ request[r].stage = from
    /\ \E f \in Files :
        /\ Fresh(f)
        /\ about' = [about EXCEPT ![f] = <<UserOf[r], kind>>]
        /\ onDisk' = onDisk \cup {f}
        /\ request' = [request EXCEPT ![r].stage = to, ![r].written = @ \cup {f}]

------------------------------------------------------------------------------
\* upload: refused without room, else writeStream opens the file and the body streams in.
BeginUpload(r) ==
    /\ KindOf[r] = "upload"
    /\ IF Usage(UserOf[r]) < Quota
         THEN Writes(r, "idle", "streaming", "upload")
         ELSE Goes(r, "idle", "failed") /\ UNCHANGED <<about, onDisk>>
    /\ UNCHANGED <<row, aged, layers, locks, disowned>>

\* The body ends; or it is cut off, or larger than the room: writeStream unlinks the partial file.
BodyEnds(r) == Goes(r, "streaming", "written") /\ UNCHANGED <<rows, files, locks, disowned>>
BodyFails(r) == Goes(r, "streaming", "failing") /\ UNCHANGED <<rows, files, locks, disowned>>

\* run_import_raster: the COG is placed before the transaction that writes its row.
BeginImport(r) ==
    /\ KindOf[r] = "import"
    /\ Writes(r, "idle", "written", "cog")
    /\ UNCHANGED <<row, aged, layers, locks, disowned>>

\* lock_owned_map: FOR UPDATE, to the end of the job.
ImportTakesMap(r) ==
    /\ KindOf[r] = "import"
    /\ mapLock = {}
    /\ mapLock' = {r}
    /\ Goes(r, "written", "inMap")
    /\ UNCHANGED <<rows, files, userLock, disowned>>

\* copy: FOR SHARE of the source.
CopyTakesMap(r) ==
    /\ KindOf[r] = "copy"
    /\ \A other \in mapLock : KindOf[other] = "copy"
    /\ mapLock' = mapLock \cup {r}
    /\ Goes(r, "idle", "inMap")
    /\ UNCHANGED <<rows, files, userLock, disowned>>

\* Mutant of LockUser: the owner's row is not locked.
LockNoUser(r) ==
    LET copies == KindOf[r] = "copy"
    IN /\ request[r].stage = (IF KindOf[r] = "upload" THEN "written" ELSE "inMap")
       /\ request' = [request EXCEPT ![r].stage = IF copies THEN "copying" ELSE "locked",
                                     ![r].todo = IF copies THEN {f \in layers : InMap(f)} ELSE {}]
       /\ UNCHANGED <<rows, files, locks, disowned>>

\* SELECT ... FROM app.users ... FOR UPDATE: before an upload inserts its row, before a copy looks at
\* the layers, after an import has inserted its rows. (That the insert of its COG shares the row already
\* keeps others out a little earlier, and may deadlock two imports, one of which fails: ImportedOriginals.)
LockUser(r) ==
    LET u == UserOf[r]
        copies == KindOf[r] = "copy"
    IN /\ request[r].stage = (IF KindOf[r] = "upload" THEN "written" ELSE "inMap")
       /\ userLock[u] = Nothing
       /\ userLock' = [userLock EXCEPT ![u] = r]
       /\ request' = [request EXCEPT ![r].stage = IF copies THEN "copying" ELSE "locked",
                                     ![r].todo = IF copies THEN {f \in layers : InMap(f)} ELSE {}]
       /\ UNCHANGED <<rows, files, mapLock, disowned>>

\* copyCog for one layer; a COG without row or file is skipped.
CopyCog(r) ==
    \E f \in request[r].todo :
        /\ request[r].stage = "copying"
        /\ IF row[f] # "none" /\ f \in onDisk
             THEN \E copy \in Files :
                    /\ Fresh(copy)
                    /\ about' = [about EXCEPT ![copy] = <<UserOf[r], "cog">>]
                    /\ onDisk' = onDisk \cup {copy}
                    /\ request' = [request EXCEPT ![r].todo = @ \ {f}, ![r].written = @ \cup {copy}]
             ELSE /\ request' = [request EXCEPT ![r].todo = @ \ {f}]
                  /\ UNCHANGED <<about, onDisk>>
        /\ UNCHANGED <<row, aged, layers, locks, disowned>>

CopiedAll(r) ==
    /\ request[r].todo = {}
    /\ Goes(r, "copying", "locked")
    /\ UNCHANGED <<rows, files, locks, disowned>>

Unlocked(r) ==
    /\ userLock' = [u \in Users |-> IF userLock[u] = r THEN Nothing ELSE userLock[u]]
    /\ mapLock' = mapLock \ {r}

\* The recheck with the request's own rows inserted; over the quota, everything rolls back.
CheckQuota(r) ==
    /\ IF Usage(UserOf[r]) + Cardinality(request[r].written) > Quota
         THEN Goes(r, "locked", "failing") /\ Unlocked(r)
         ELSE Goes(r, "locked", "ready") /\ UNCHANGED locks
    /\ UNCHANGED <<rows, files, disowned>>

\* The rows of the request become visible, and with them the layers that show its COGs.
MakeVisible(r) ==
    /\ row' = [f \in Files |-> IF f \in request[r].written THEN "live" ELSE row[f]]
    /\ layers' = layers \cup {f \in request[r].written : about[f][2] = "cog"}

\* For a worker the job is over when run_once has returned, a little later.
Commit(r) ==
    /\ MakeVisible(r)
    /\ Goes(r, "ready", IF KindOf[r] = "import" THEN "committed" ELSE "done")
    /\ Unlocked(r)
    /\ UNCHANGED <<about, files, disowned>>

Return(r) == Goes(r, "committed", "done") /\ UNCHANGED <<rows, files, locks, disowned>>

\* SIGTERM while run_once is still in its `try': the committed job is rolled back like a failed one.
StopCommitted(r) ==
    /\ Goes(r, "committed", "failing")
    /\ disowned' = disowned \cup request[r].written
    /\ UNCHANGED <<rows, files, locks>>

\* The connection is lost at COMMIT, before or after the server carried it out: an error either way.
CommitLost(r) ==
    /\ Goes(r, "ready", "failing")
    /\ Unlocked(r)
    /\ \/ /\ MakeVisible(r)
          /\ disowned' = disowned \cup request[r].written
       \/ UNCHANGED <<row, layers, disowned>>
    /\ UNCHANGED <<about, files>>

\* Any statement, or the copying of a COG, may fail before COMMIT: everything rolls back.
StepFails(r) ==
    /\ \E stage \in {"written", "inMap", "copying", "locked"} : Goes(r, stage, "failing")
    /\ Unlocked(r)
    /\ UNCHANGED <<rows, files, disowned>>

\* The catch block: every file the request wrote is unlinked.
Undo(r) ==
    /\ Goes(r, "failing", "failed")
    /\ onDisk' = onDisk \ request[r].written
    /\ UNCHANGED <<rows, aged, locks, disowned>>

\* The process dies: PostgreSQL rolls back, the files stay.
Die(r) ==
    /\ request[r].stage \notin Ended \cup {"idle"}
    /\ request' = [request EXCEPT ![r].stage = "dead", ![r].todo = {}, ![r].written = {}]
    /\ Unlocked(r)
    /\ UNCHANGED <<rows, files, disowned>>

------------------------------------------------------------------------------
\* uploads.remove: the row first, then the file; a process that dies between leaves the file.
RemoveUpload(f, dies) ==
    /\ row[f] = "live"
    /\ about[f][2] = "upload"
    /\ row' = [row EXCEPT ![f] = "none"]
    /\ onDisk' = IF dies THEN onDisk ELSE onDisk \ {f}
    /\ UNCHANGED <<about, aged, layers, locks, request, disowned>>

\* Mutant of RemoveLayer: the COG is not scheduled for removal.
RemoveLayerOnly(f) ==
    /\ f \in layers
    /\ InMap(f) => mapLock = {}
    /\ layers' = layers \ {f}
    /\ UNCHANGED <<row, about, files, locks, request, disowned>>

\* Removing a raster layer: scheduleCogRemoval in the transaction that deletes it, the map locked.
RemoveLayer(f) ==
    /\ f \in layers
    /\ InMap(f) => mapLock = {}
    /\ layers' = layers \ {f}
    /\ row' = [row EXCEPT ![f] = "expired"]
    /\ UNCHANGED <<about, files, locks, request, disowned>>

\* deleteExpiredFiles: the file, then its row; stopped in between, the next sweep deletes the row.
SweepFile(f) ==
    /\ row[f] = "expired"
    /\ onDisk' = onDisk \ {f}
    /\ UNCHANGED <<rows, aged, locks, request, disowned>>
SweepRow(f) ==
    /\ row[f] = "expired" /\ f \notin onDisk
    /\ row' = [row EXCEPT ![f] = "none"]
    /\ UNCHANGED <<about, files, layers, locks, request, disowned>>

\* A file grows old. No request or job lasts as long as ORPHAN_FILE_GRACE_MS, a day.
GrowsOld(f) ==
    /\ f \in onDisk \ aged
    /\ \A r \in Requests : f \in request[r].written => request[r].stage \in Ended
    /\ aged' = aged \cup {f}
    /\ UNCHANGED <<rows, onDisk, locks, request, disowned>>

\* reconcileStore: walk the trees, drop the files that have a row, refuse what looks like a foreign
\* database or store, unlink the rest one by one (some may stay: a file in use, a run cut short). In
\* one step: a candidate has no row and never gets one, whatever commits after the scan.
\* Mutant of OldEnough: no grace period.
AnyAge(f) == f \in onDisk

OldEnough(f) == f \in aged
Reconcile ==
    LET orphans == {f \in onDisk : OldEnough(f) /\ row[f] = "none"}
    IN /\ \E f \in Files : row[f] # "none"
       /\ Cardinality(orphans) * MaxShare <= Cardinality(onDisk)
       /\ \E gone \in SUBSET orphans : onDisk' = onDisk \ gone
       /\ UNCHANGED <<rows, aged, locks, request, disowned>>

------------------------------------------------------------------------------
Runs(r) ==
    \/ BeginUpload(r) \/ BodyEnds(r) \/ BodyFails(r)
    \/ BeginImport(r) \/ ImportTakesMap(r) \/ CopyTakesMap(r)
    \/ LockUser(r) \/ CopyCog(r) \/ CopiedAll(r)
    \/ CheckQuota(r) \/ Commit(r) \/ Return(r) \/ StopCommitted(r) \/ CommitLost(r)
    \/ StepFails(r) \/ Undo(r)

Next ==
    \/ \E r \in Requests : Runs(r) \/ Die(r)
    \/ \E f \in Files :
         \/ \E dies \in BOOLEAN : RemoveUpload(f, dies)
         \/ RemoveLayer(f)
         \/ SweepFile(f) \/ SweepRow(f)
         \/ GrowsOld(f)
    \/ Reconcile

Spec == Init /\ [][Next]_vars

------------------------------------------------------------------------------
(* The files a user keeps never exceed the quota, with uploads, copies and imports checking it at
   the same time: each counts what is committed, so two that check together would both fit. *)
QuotaKept == \A u \in Users : Usage(u) <= Quota

(* A live row has its file: what a user is shown can be read. Requests that fail at any step, a
   sweep, a removal or a reconciliation beside them never take the file of a row that stays. The
   exceptions are named (`disowned'): a COMMIT that succeeded with its answer lost, and an import
   whose worker is stopped between its COMMIT and the end of run_once. *)
RowHasFile == \A f \in Files : row[f] = "live" => f \in onDisk \cup disowned

(* The COGs that count against a quota are the ones a layer shows: none is charged for after its
   layer is gone, and none a layer shows is scheduled for the sweep. *)
CogsMatchLayers == layers = {f \in Files : row[f] = "live" /\ about[f][2] = "cog"}
==============================================================================
