# WebAtlas: a verification development

TLA+ models of the parts of WebAtlas that keep state for many users at once, the TLC runs that check
them on small instances, and theorems about them whose proofs the TLA+ proof system (TLAPS) checks.
Every definition is translated from the code; `PROJECT.json` maps each one to the lines it stands for.

## 1. The system

WebAtlas is a water atlas: a Fastify API and a React client over PostGIS and GeoServer, a TypeScript
data pipeline that builds the layers, and a Python worker that imports and exports the files of
personal maps. State lives in PostgreSQL and in a file store on disk; processes interact through rows,
row locks, advisory locks and unique indexes, and hardly ever through messages.

| Component (code) | State it keeps | Operations | Interacts with | What makes it correct |
|---|---|---|---|---|
| **Version store** `packages/versioning` | `app.dataset_versions` (forest, one active version per layer), rows of the layer tables per version, `is_current`, `app.draft_resolutions`, `app.version_pins` | open, copy, edit, discard, rebase, publish a draft; load; retention | the feature API, the loader and edit copies call it, each in its own transaction | what a draft showed is what is published; nobody's edit is lost unseen; retention removes no ancestor of anything that is kept; the map shows what the active version resolves to |
| **River hierarchy and gates** `versioning/riverHierarchy.ts`, `riverGates.ts` | rows of levels 1 to 3 of the rivers layer, per version | rebuilt and gated by `activate` at every load and publish | version store | rivers are the connected reaches of one name; readers never see a derived row that no longer follows from its members; an editor is not refused for what the build derives |
| **Feature editing API** `modules/layers` | none of its own (minted external ids) | create, update, delete in a draft; direct write; publish authorisation | version store, jurisdiction of the user | ids are minted once; nobody publishes outside the jurisdiction |
| **Layer loader** `atlas-data/src/stages/loadGeojson.ts` | none | load new content over the layer's base, or re-stamp an unchanged one | version store, under its own locks | a load never hides an edit unless told to |
| **Edit copies** `workspace/editCopies.ts` | a draft seen from a personal map | edit starting from the row the map shows now | drafts of the version store | an upstream change is never overwritten unseen |
| **Import/export worker** `atlas-data/tools/workspace` | `workspace.jobs` (status, steps, heartbeat), files in the store, rows of `workspace.files` | claim, run, report steps, succeed, fail, fail stale jobs | API (queue, removal), sweep (file expiry), SIGTERM and Compose restarts | a job runs once, ends, and its status, writes and file agree |
| Job queue API `workspace/jobs.ts` | the same tables | enqueue, download, remove | worker | see worker |
| **File lifecycle and archive** `workspace/cleanup.ts`, `uploads.ts`, `fileStore.ts`, `rasters.ts` | `workspace.files`, the store directory, `delete_after`, archive dates of maps | upload, copy, remove, mark inactive, archive, expire, reconcile, discard orphan drafts | worker, maps | a row has its file; a file that is needed is there, one nobody needs goes; the quota is kept |
| **Personal maps, sharing** `workspace/maps.ts`, `sharing.ts`, `access.ts`, `freeLayers.ts` | maps with a revision, layers in a stacking order, drafts of edit copies, shares | read; every write under the map's lock and the revision last seen; copy | client, imports | no lost update on a map; layers and drafts stay paired |
| **Web client of personal maps** `features/my-maps/model` | cached detail, chain of writes, waiting style, drawn features, open form | style changes, feature saves, refetches | the API, over requests that may be late or lost | the last choice is kept or reported; a late answer hides no save |
| **Data dictionary** `modules/dictionary` | attributes, listed values, unit periods, history, the fields staff edited | edit, add, restore, correct a unit; sync with the code | optimistic concurrency, one advisory lock | a sync keeps staff edits the code still allows, and says so where it does not |
| **Build graph and runner** `atlas-data/src/runner.ts`, `state.ts`, `graph.ts`, `adopt.ts` | `app.dataset_stage_state`, lineage steps, the build lock | select, build, adopt, status | stages, files | a stage is skipped only when it and all it rests on are built from the present inputs |
| Access groups and users, assistant, scenarios, read APIs, shared types, rest of the client, infrastructure | mostly one statement per operation, or none | | | |

What is hard here, and where:

* **interleaving of transactions**: a publish is two `UPDATE`s under a partial unique index, a
  retention scan that locks many rows, and an advisory lock, next to loads that lock the same rows in
  another mode (`service.ts`, `retention.ts`, `loadGeojson.ts`, `repository.ts`);
* **long legal sequences**: load, edit, load, copy, publish, prune, rebase, in any order, over a
  forest whose `parent_version_id` cascades on delete;
* **stale reads**: a conflict choice made against a version that has been replaced, `is_current` as a
  materialised copy, an edit that starts from the official row of today;
* **two resources in one operation**: a file renamed into the store and a row committed elsewhere; a
  job's success on one connection and its failure on another;
* **derived state**: rows computed from other rows at every publish and written only where they differ
  (`riverHierarchy.ts`), hashes that stand for everything upstream (`state.ts`);
* **two writers with rules of their own**: staff edits checked by the API and the same fields checked
  again by the sync with another release of the code (`edit.ts`, `syncPlan.ts`);
* **late and lost answers**: a client whose copies of a map age apart from one another (`queries.ts`,
  `personalLayers.ts`);
* **crashes**: a worker, a build or an API process stopped between any two statements, killed, or cut off
  from its database.

`PROJECT.json` lists each hazard at its line with the properties that cover it.


## 2. Modules

| Module | Models | Its state in the code |
|---|---|---|
| `VersionStore` | one layer, one action per committed transaction: `Load`, `RestampUnchanged`, `OpenDraft`, `CopyDraft`, `DiscardDraft`, `EditDraft`, `ResolveMine`, `ResolveTheirs`, `RebaseDraft`, `PublishDraft`, `DirectWrite`, `Pin`, `Unpin` | `versions` = `app.dataset_versions`, `active` = `is_active`, `rows` = the layer table by version, `current` = `is_current`, `resolutions`, `pins` |
| `PublishedLayer` | the abstract promise: an official state and personal patches over the state they were opened on. No versions, chains, flags or retention | (specification only) |
| `EditCopyHistory` | `VersionStore` with a history variable: the official contents the rows of a draft answer for. An edit starts from the row the map shows (`UntouchedFrom`), as edit copies do | `seen` is history |
| `PublishProtocol` | the same transactions statement by statement, on row locks under READ COMMITTED, with the advisory lock, the unique index and the deadlock detector | `locks`, `want`, `todo` = PostgreSQL's lock table; `pc` = the next statement |
| `SerialPublishing` | the abstract promise: writes, loads and edits one after another, each on the version it replaces, with numbers that have no gap. No statements, locks or attempts | (specification only) |
| `JobWorker` | the queue, the workers with their two connections, undo callbacks, stops and restarts, the API's removal and the expiry sweep | `status`, `step`, `beat` = `workspace.jobs`; `row` = `workspace.files`; `store` = the directory; the rest is each worker's memory |
| `ImportedOriginals` | one uploaded original, statement by statement: `enqueueImport`, the import transaction, `markInactive`, `archiveNoticed`, `deleteExpiredFiles`, opening and deleting a map, removing the upload; with `Raster`, the import's `INSERT` of its COG, whose foreign key shares the owner's row | `upload`, `onDisk` = its `workspace.files` row and file; `archived`, `noticed`, `deleted` = `workspace.maps`; `status`, `mapOf` = `workspace.jobs`; `writes` = what an open transaction has not committed |
| `PersonalMaps` | all rows of the personal maps: create, the three statements of a read, add, import, change, move, remove, update, delete, share, copy, and the refusals of `lockMapForWrite` | `owner`, `revision` = `workspace.maps`; `layers` = `map_layers`; `drafts` = personal drafts of edit copies; `shares`; `reading`, `seen` = a tab |
| `RevisionedMaps` | the abstract promise: each step changes one map, and moves its revision by one if the map stays | (specification only) |
| `FileStore` | rows of files and files of the store, under uploads, copies and imports that fail, die, lose an answer or are stopped behind their COMMIT; sweep, removal, reconciliation | `row`, `about` = `workspace.files`; `onDisk`, `aged` = the store; `layers` = raster layers; `userLock`, `mapLock` = row locks |
| `MapEditing` | one tab: the cached detail and its GET, the style timer, the chain of writes, viewport reads, the form; the server with its revision | `cached`, `get` = TanStack Query; `pending` = `useLayerEditorPresenter`; `queue`, `writing`, `lost` = `useMapWrite`; `shown`, `reads` = `personalLayers`; `form` = `usePersonalEditingPresenter` |
| `BuildGraph` | the registry and what is computed from it: upstream, downstream, selection | the datasets of `descriptors` |
| `BuildRunner` | build and adopt statement by statement, the lock, status, kills, files changed, put back, lost and restored | `state` = `app.dataset_stage_state`; `content`, `absent` = the input files; `output` = what the stages made; `builds` = each command; `edits` and `begun` count for the bounds; `behind`, `owed`, `raced` are history |
| `Dictionary` | one attribute and its values: staff edits, restores, corrections, the form, and the sync of successive releases | `attr`, `values`, `periods`, `newest` = the dictionary's tables (`newest` of its history); `lock` = the advisory lock; `running` = the release deployed |
| `RiverHierarchy` | the rivers layer: load, drafts of ways, publish with vote, bridges, grouping, superseding writes and gates | `chain` = rows of the active version and its ancestors; `draft` = open drafts |
| `RowLocks` | PostgreSQL's row lock modes, conflicts and waits, for `PublishProtocol` and `ImportedOriginals` | |
| `MC...` | constants of the small instances | |
| `VersionStore_proofs`, `JobWorker_proofs`, `ImportedOriginals_proofs`, `PersonalMaps_proofs`, `FileStore_proofs`, `BuildRunner_proofs`, `PublishProtocol_proofs`, `Dictionary_proofs` | theorems | |

How code and model correspond:

* A transaction that throws rolls back, so in `VersionStore` a refused operation is a step that is not
  taken. `activate` is one operator used by load, publish and direct write; it includes stamping units,
  the current flag and retention, in the code's order.
* A version's chain is the least parent-closed set that contains it and its resolved state the nearest
  row per feature, both stated without recursion so that they can be reasoned about. The code's
  recursive query walks the same relation.
* A row's `content` stands for its attributes and geometry; `Rule` is the database function that gives
  a geometry its managing unit. The grants to create, update and delete are one set of units per user;
  an administrator, who passes every check, is a user with a national jurisdiction (`NoUnit` and all
  units).
* In `PublishProtocol` a statement that locks is two actions: it starts on its snapshot and names the
  row it wants (`Request`), and when the row is granted it re-evaluates its condition (`Granted` and
  the rest). The order in which a scan visits rows is open, since the queries have no `ORDER BY`.
* In `ImportedOriginals` the label of a transaction is its next statement; a statement that finds its row
  locked waits there. `markArchivedOriginals` is two actions, since its `UPDATE` reads the jobs in the
  snapshot it began with and locks the file's row afterwards; `keep_imported_original` likewise. The
  passing of time is `DatePasses`; a map may be noticed and archived whenever it has the notice. `now()` of
  `enqueueImport` is the beginning of its transaction (`late`).
* In `PersonalMaps` a write is one step, since it holds the map's row lock from its first statement to its
  commit; a read is three, on connections of the pool. A layer's content is the revision of the write that
  last changed it. `FileStore` opens up what that step does to files.
* In `FileStore` every request goes through `idle`, its statements in order, and `done`, `failed` or
  `dead`; rows become visible at `Commit`; `CommitLost` is an error with either outcome on the server. A
  worker's import is over when `run_once` has returned: until then it is `committed`, and a stop runs its
  undo all the same (`StopCommitted`). Such a file is remembered as `disowned`.
* In `MapEditing` the client's steps are its synchronous runs between awaits, so an answer may come at any
  point between them. A style is the number of the user's choice, a feature the revision of its last write.
* In `BuildRunner` every statement of `runBuild` that touches the database is a step and a kill may fall
  between any two. A stage's own work is one step with three outcomes. A load reads its file when
  its turn comes, while the plan of the command was hashed when it began; any other stage does what the
  code of the process says, which does not change under it. `behind`, `owed` and `raced` are history: what
  ran below whom, which stages ran without a process step since, and which loads last read another file
  than the one their build had hashed. The hash of a stage is the function
  from everything upstream to its input, which is what the chained digest distinguishes. A command whose
  lock connection is lost goes on, as in the code; no other begins after that (the bound that keeps
  the properties about commands the lock keeps apart). It begins with a new database, or on a machine where
  outputs of unknown origin are there, so that adopt finds something to record.
* In `Dictionary` staff writes are one step, under the lock they take first; the sync is two
  (`SyncReads`, `SyncCommits`), the form two. "label" stands for every text field of an attribute. The
  planner's search for edits the code no longer supports repeats until it takes nothing back; three fields
  have rules and every round but the last takes one back, so `Kept` is three rounds.
* In `RiverHierarchy` a way runs along one of a few courses, each with a distance to every sample point of
  every reach; the confidence of a name is its votes and twice the median distance. The walk downstream
  (recursive SQL in `riverHierarchy.ts` and `riverGates.ts`) is the least set closed under the next reach
  (`WalkEnds`), empty of ends where it runs into a cycle; `Content` is what the build reads of the resolved
  rows. A load, a publish and
  an edit are one step each; conflicts block a publish as `VersionStore` says, and are not resolved here.
* In `JobWorker` a stop may fall between any two statements of the handler. The handler's success and
  writes become visible at `Commit`; steps and failures at once. The undo callbacks are one step, or none
  where a stop falls into those of a job that was failed meanwhile: they are taken off the list before they
  run, so that the handling of the stop finds nothing left (`Terminate`).

## 3. Runs

Bounds are CONSTANTS; each configuration gives them. Deadlock checking is off where the bound on
versions, or the end of all transactions or jobs, legitimately leaves nothing to do.

| Run | Instance | Shows |
|---|---|---|
| `version_store` | 3 versions, 1 feature, 2 contents, 2 units, 1 pin, a national and a regional user, edits from the draft's own and from the map's state | `DraftIsolation`, `WithinJurisdiction`, `UnitSurvivesLoad`, `ForestIntact`, and the refinement `ImplementsPublishedLayer` |
| `edit_copy_history` | 4 versions, 1 feature, edits from the map's state | `NoSilentOverwrite`, `CurrentIsResolved` |
| `publish_protocol` | 4 transactions at a time: 2 direct writes, a draft editor and a load; or a write, an editor and 2 loads, of which one supersedes edits | the refinement `ImplementsSerialPublishing`, `LoadNeverHidesEdit`, `NumberedOnce` (external ids and labels), `EditorNeverInDeadlock`, and under fairness `EveryTransactionEnds` |
| `job_worker` | 2 workers, an export and a raster import, 2 stops | `FailedWroteNothing`, `RunOnce`, `ExportLeavesNoOrphan`, and under fairness `JobEnds` |
| `job_worker_undo` | 1 worker, 1 export, 1 stop | finding: `CommittedFileStays` is violated |
| `imported_originals` | 2 raster imports of one upload, into 2 maps or the same | `SweepSparesImports`, `DeadlockOnlyAtQuota`, `OriginalDated`, `ReturnedOwnerKeepsMap`, and under fairness `ExpiredGoes` |
| `personal_maps` | 2 maps, 4 layers (edit copies and rasters), an owner with two tabs, a reader through a group, revisions to 2 | `LayersIntact` (stacking order, drafts of edit copies), `NoLostUpdate` |
| `file_store` | an upload, a copy and an import; 4 files, quota 1 | `QuotaKept`, `RowHasFile`, `CogsMatchLayers` |
| `map_editing` | 2 style choices, 1 form, 1 change elsewhere, a map that may go | `LastChoiceKept`, `ChoicesInOrder`, `OwnSaveShown`, and under fairness `EveryWriteSettles` |
| `build_runner` | 2 datasets, 3 stages, 2 commands, 2 contents, 2 edits of one input or of two in turn, files lost and restored | `OkIsBuilt`, `LineageNeverBehind` |
| `dictionary` | 4 histories of 2 or 3 releases, 3 units of 2 dimensions, 2 codes, 2 users, 3 staff writes | `UnitsAgree` (the unit shown, dated corrections), `HistoryExplainsRow`, `SyncedRowsFollowCode`, `NoLostUpdate` |
| `river_hierarchy` | 5 reaches with 3 sample points, 4 networks, 3 courses, 2 names, 2 drafts, 2 edits, 3 versions | `RiversAreConnectedNames`, `RiverRowsFollowMembers`, `RebuildWritesNothing`, `EditsPassGates` |

Why the bounds are enough:

* Three versions are a load, a draft and a publish, load or second draft that overtakes it: the
  shortest history in which a rebase, a conflict and a lapsed choice occur. With `EarlierLoadsKept = 0`
  in `version_store`, retention already takes versions within it. Four, in the edit-copy run,
  add a second overtaking step after a choice was made.
* Retention needs a superseded chain with a pin or a draft on it: with three versions and no earlier
  load kept both occur, and so does a load that is dropped. `EarlierLoadsKept` is 2 in the code
  (`retention.ts:5`); the edit-copy run keeps one, and `ForestIntact` and
  `RetentionNeverRefuses` are proved for every value of every bound.
* Two contents and two units are what the properties tell apart. `MaxFeature = 1` is enough where
  features do not interact, and in `VersionStore` nothing relates two features of a version but the
  number the next one is minted with (`NumberedOnce`, in `PublishProtocol`).
* In `PublishProtocol`, two writers and a load are enough for an attempt at the active row to come back
  empty, and a second load for two numbers taken from one snapshot. Within its bounds retention
  removes nothing, so only its locks matter; removal is in
  `VersionStore`.
* Two workers are the race between a slow worker and the one that fails its job as stale; two stops
  hit both of them, or one of them twice.
* Two imports are one that puts the upload into a map that will be archived and one that races the
  archive or the sweep, or two that contend for a map; the initial states range over both. They are rasters' imports: one of a file of
  features does the same but for the statement that inserts the COG. The cleanup
  is one process: with two, each could archive a map while the other's still counts as live, and neither
  would date an original both maps share.
* Two maps and four layers let a map of two layers be copied, with and without its raster; a copy starts
  at revision 0, so that revision 2 leaves room to add a layer, move or remove one below it. Two tabs, an
  import and a copy are the writers that can come between the statements of a read. `SYMMETRY` permutes
  the tabs, both the owner's, and the maps.
* In `FileStore` a quota of one file makes every second file too many, and one candidate in two is the
  share at which the reconciliation still works on a store of two; an upload, a copy and an import are the
  three ways a file comes about.
* In `MapEditing` a style choice, one made while the first is on its way and one change elsewhere are
  enough for a refusal, a refetch and a late request; the form adds a write of another kind in the chain.
* In `BuildRunner` two datasets with one and two stages have a stage above in the same dataset, one in
  another, and one below; two commands are the one that is killed and the one that finds what it left. Two
  edits change a file during a build and put it back. `MaxContent = 1` suffices since a hash only says whether
  two contents are the same; one input at a time is not what it was at first, since the properties look at
  each stage for itself. `SYMMETRY` permutes the processes.
* In `Dictionary` each history is one way in which the code moves under an edit: a list of units that
  shrinks, a dimension that changes, an open list that closes, codes and an attribute that go. `SYMMETRY`
  permutes the two users.
* In `RiverHierarchy` five reaches have a confluence, a gap that can be bridged and two gaps in a row; two
  edits take a name away and bring it back; two of the networks, a cycle and one whose stream order falls
  downstream, are refused; ways of two names are loaded over the confluence only. `SYMMETRY` permutes the drafts, which no property names.

Each property of a passing run has a mutant: a plausible bug of the mapped code (a dropped guard, a
lock of the wrong mode, a swapped order), defined just before the definition it replaces, under which
TLC finds that property violated.

### Fairness

* `PublishProtocol!FairSpec`: every transaction's next statement is sent (a connected client goes on,
  and a client that goes away is a rollback), a lock that stays free is granted, and PostgreSQL's
  detector aborts a transaction of a cycle (`deadlock_timeout`). All are weak.
* `JobWorker!FairSpec`: a handler goes on or fails; Compose restarts a worker that exits or dies
  (`restart: unless-stopped`, `infra/docker-compose.yml`); an idle worker checks for stale jobs every
  minute (`STALE_CHECK_SECONDS`); a job on which no worker works gets no more heartbeats, so its beat
  lapses. A worker on a job is not assumed to be slow or fast: `Lapse` and `Heartbeat` may alternate.
  The number of stops is finite, otherwise nothing could be promised.
* `FairTab` of `MapEditing`: the client's own code goes on after an answer or an error, every request is in the
  end answered or given up on, and the style timer fires (`STYLE_SAVE_DELAY_MS`). All are weak; nothing is
  assumed of the other tabs, and answers may be lost each time.
* `ImportedOriginals!FairSpec`: an open transaction goes on or fails and a queued job is claimed (weak,
  per job; what makes a worker's job end is `JobEnds` of `JobWorker`), and so does the cleanup's. The sweep
  is strongly fair because every run of the cleanup script gets to it, but between its runs it may be
  refused for as long as imports come; a sweep that failed on every run would have its row "kept for a
  person to look at" (`cleanup.ts`), so its last step is strongly fair, too.

### Finding

**A stop after the commit undoes a committed file** (`job_worker_undo`). SIGTERM between
`conn.commit()` and the end of the `try` block (`worker.py:192`) runs the undo callbacks of a transaction
that is committed: the file is removed, its row stays. `Steps.on_rollback` promises the callback runs only
"if the job's transaction is rolled back rather than committed".

### Disagreements seen while modelling

These have no run of their own; each was met while a module was written, and the module's properties are
stated so that they hold beside it.

* *An edit of an upstream change is not always a conflict.* `editCopies.ts:79-83` starts an edit from the
  row the map shows now and says such an edit counts as a conflict at publish. A later publish that
  restores the earlier content makes the draft's base and the active version equal again, and the edit is
  published without a conflict. `NoSilentOverwrite` therefore speaks of the content the draft was built on when
  the feature was first edited, and leaves open what the editor was shown beside it.
* *An attempt that comes back empty keeps its lock.* The comment at `service.ts:17-22` promises that the
  next attempt locks the replacing version, or a `StaleDraftError`. Under READ COMMITTED the empty attempt has
  locked the replaced row; the publish it then waits for may want that row for its retention scan, and the
  server aborts one of them.
* *A raster is placed before its undo is registered.* `import_raster.py:278-279` renames the COG into place
  one statement before `on_rollback`; a stop in between leaves it in the store without a row.
  `export_vector.py:474-477` has the other order (`ExportLeavesNoOrphan`). The reconciliation of the store
  finds such a file a day later (`FileStore`).
* *The original of a live map may get a date.* While a map is archived, the `UPDATE` that dates its originals
  (`cleanup.ts:116`) does not see an import of another map that is about to commit, and that import finds no
  date to clear. Both commit; 90 days later the sweep takes an original that `cleanup.ts:106-110` says is
  kept.
* *Two raster imports of one owner can end in a deadlock.* The comments give the order map, user, file
  (`jobs.ts:317`) and map, user (`workspace_common.py:174-180`). A raster's import inserts its COG in between
  (`import_raster.py:298-302`); the foreign key of `files.owner_id` takes the owner's row `FOR KEY SHARE`, and
  `finish_map_write` then wants it `FOR UPDATE`. Two imports into two maps that have both inserted wait for each
  other; the server aborts one, whose job fails. `DeadlockOnlyAtQuota` says that this is the only circle.
* *A COMMIT whose answer is lost removes the file* of a row that is there: `uploads.ts:135`,
  `sharing.ts:299`. So does a stop of the worker behind the COMMIT of an import (the finding above).
  `RowHasFile` names these exceptions (`disowned`).
* *A file changed during a build and put back is taken for built.* `runner.ts:67` hashes every input when the
  build begins, a load reads its file when its turn comes (`runner.ts:130`), and its row is written with the
  first hash (`runner.ts:151`). Put back to what it was, the file agrees with the row, so the next build skips
  the stage although its output is made from the other file. `OkIsBuilt` excepts the stages over such a load
  (`raced`).
* *`atlas:adopt` can record a half-done dataset.* `runner.ts:124-128` marks a stage failed first because a
  failed row "blocks adopt". Adopt only looks at datasets without a row, and invalidation deletes rows: a
  dataset whose rows a build of its upstream deleted looks untracked, and is recorded ok when its probe finds
  what the earlier build left. `OkIsBuilt` excepts the rows adopt wrote.
* *A form filled from an old shape can still be saved.* The form sends the cached revision, which a refetch
  or another write of the same tab may have moved since the form was filled (`queries.ts:155-162`): the
  server compares the revision of the cache, not of the form.
* *A GET that was under way before a write can put the older revision back* (`queries.ts:165-167` sets the
  cache, a refetch that started earlier may settle after): the next write is then refused and reported,
  no more (`ChoicesInOrder`, `LastChoiceKept`).
* *A publish that merges or splits rivers makes other drafts conflict.* `rebase.ts:6-16` leaves only the
  administrative codes out of a row's content; the river link of a way, which the build derives, counts as
  content, so that another steward's draft of a way nobody touched conflicts.
* *In the dictionary*, a value added by the sync does not move the attribute's revision, which is harmless,
  since a form that adds the same code is refused by the key; a sync that reverts an edited stored unit
  writes no unit period, so that after it the last period need not be the row's unit (`UnitsAgree`
  speaks of corrections that stand).
* Nothing dates an original whose last live map is deleted rather than archived (`maps.ts:168-178`), so the
  originals of a map archived earlier stay; `OriginalDated` speaks of uploads all of whose maps were
  archived.
* The comment at `loadGeojson.ts:80-81` says a racing edit's own activation fails on the one-active-version
  index, while `lockActiveRow` and the rebase let it publish on top of the load (`PublishesOnTop`); `docs/architecture/database-architecture.md:286-288` still describes a
  refusal and retry where the code rebases.

## 4. Theorems

TLC checks an instance; the theorems hold for every value of the constants that satisfies the named
assumptions.

`VersionStore_proofs` (from `BoundsAssumption`, `DataAssumption`). `RetentionNeverRefuses` is not
inductive: that what is kept is parent-closed needs that every parent is stored, which a deletion
preserves only if nothing is built on what is deleted. The inductive invariant `Inv` therefore has three
parts: `Tables` (types, and parents that are stored and older), `References` (no version is built on a
draft; the active version, pins and choices name stored versions that are not drafts) and
`CurrentIsResolved`. The argument:

* chains: a chain is the least closed set, a version's chain is itself and its parent's chain, and a
  chain depends only on the part of the forest it lies in (`ChainLeast`, `ChainIsParents`,
  `ChainStable`);
* so a version resolves to the same rows after any change that leaves its chain alone
  (`ResolvedStable`); edits and discards of drafts are outside the active chain, and retention keeps it
  (`KeptClosed`, `KeptResolves`, `PruneStep`);
* one lemma per operation, put together in `InvStep`, gives `Invariance`, and from it `TypeCorrect`,
  `ForestStaysIntact`, `RetentionIsNeverRefused` and `MapShowsActiveVersion`.

What a reader of the layer relies on needs more than `Inv`. `LayerInv` (theorem `LayerInvariance`) adds that
every live row names its unit (`Managed`: activation stamps what has none), that every draft is built on a
version (`Based`), and that the map says one thing of a feature or nothing (`MapInv`). From it:

* `DraftIsolationHolds`: what a draft resolves to changes only with its revision, since nobody else writes its
  rows and no step, retention's included, takes anything from the chain of a draft;
* `WithinJurisdictionHolds`: a feature that a publish changes on the map has, before and after, a unit of the
  owner's jurisdiction;
* `UnitSurvivesLoadHolds`: a load moves no feature to another unit;
* `NoSilentOverwriteHolds`, whatever an edit starts from: on the history of `EditCopyHistory`, what its base says
  is among the contents each row of a draft answers for, and so is, where its side was chosen and the layer has
  not moved on, what the map says (`SeenInv`); a publish without a conflict replaces one or the other. The argument runs on the state of `PublishedLayer`,
  through the refinement's step lemmas;
* `ImplementsPublishedLayerHolds`: the refinement. `VersionStore` implements `PublishedLayer` under the mapping that reads
  the official state off the current rows and a draft's patch off its own rows and its parent's state. One
  lemma per operation says which abstract action it is; retention, pins and stamps are stutters.

`PublishProtocol_proofs` (from `ParticipantsAssumption`, `IdentitiesAssumption`), for any number of
transactions. A statement's snapshot may be older than what it locks, so no property follows from one
transaction's own steps. The inductive invariant `IInv` (theorem `Invariance`) says what each row lock
guards:

* locks are compatible (`Compatible`), editors lock the draft and nothing else (`Apart`), and a transaction
  waits only at a statement that locks (`InPlace`);
* from the lock it rebases under to its commit, a publish or direct write owns the row of the active version,
  and its parent is that version (`OnTop`): `PublishesOnTopHolds`;
* every load locks the first version before it activates anything (`Scanned`), which keeps the loads
  apart: the numbers given are 1 to n, and at most one more that a load under way is about to commit
  (`Numbers`): `NumberedOnceHolds`;
* what a load examined is still active when it activates, or an edit went live that it will find and refuse
  (`Examined`, `Clearing`): `LoadNeverHidesEditHolds`;
* an editor waits for the draft's row, or holding it for the advisory lock on external ids, and who has that
  one waits for nothing (`Apart`), so no editor is on a cycle: `EditorNeverInDeadlockHolds`.

Together they make the publishing serial, although every statement reads under READ COMMITTED:
`PublishingIsSerial` shows that `PublishProtocol` implements `SerialPublishing`. A transaction takes effect at
its commit: a write on the version that is then active (`OnTop`), a load over no edit it may not supersede
(`Examined`), and its number is then the next of those committed (`Numbers`, and the cardinality of 1 to n).
What a transaction has written by the place it is at is a second invariant (`Traces`): it carries a number if
it creates or loads, a write that commits has cleared a version, and nothing of it is published before.
`PublishesOnTop` follows from the refinement and has a theorem of its own.

The end of `PublishProtocol_proofs` is about `RiverHierarchy` (from `RiverAssumption`), the build that each of those
transactions runs before it commits, for any network, ways, courses and drafts and any number of versions. The
inductive invariant `RiverInv` (theorem `RiverInvariant`) says of the version in force:

* `Current`: the river and confidence of each reach, the river of each way and the rows of the rivers are what a
  build derives from the version's content. A build reads only the content, which it does not write, and writes
  every difference, so what the version then resolves to is what was derived, however many ancestors its rows
  come from (`BuildResolves`): `RebuildHolds`;
* `Drains`, `Rises`: every reach has a path to an outlet and no order falls downstream. The gates hold of a load
  when it is ingested, and edits touch no reach;
* rows and drafts are well formed (`AreTables`, `IsDraft`).

The walk from a reach comes to one end at most (`OneEnd`), and since the network drains, to one
(`RiversAreEnds`). Reaches that paths of their one name connect have the same end, as each of them flows into
the next, and those of one end are connected by their walks: `ConnectedNamesHold`. Each way of a name some reach
bears has a nearest of them, since among keys of three numbers the least is found number by number
(`LeastNumber`, `FirstOfAll`): `RowsFollowHold`. Every gate but the baseline's then holds of any build
over such a version (`GatesHold`): `EditsPassGatesHolds`. The baseline is a gate of loads only.

`JobWorker_proofs` (from `QueueAssumption`). The inductive invariant `IInv` adds to the checked
properties what ties them together: a job that is worked on was claimed (`ClaimedOnce`), a written
success holds the running job's row (`SuccessHeld`), a job that has not succeeded has no committed row
(`Unwritten`), and a file of an export is in the store only while its undo is registered or its row is
committed, unless its undo was cut short (`FileTracked`). There is one lemma per part and one step per action in each. `Invariance`
gives `WorkerTypeCorrect`, `FailedWroteNothingHolds`, `RunOnceHolds`, `EndedShowsNoRunningStepHolds` and
`ExportLeavesNoOrphanHolds`.

`ImportedOriginals_proofs` (from `ActorsAssumption`), for any number of imports and maps. The inductive
invariant `IInv` is about the lock table and what it guards:

* a lock is granted only where nobody holds the row against it (`Compatible`), and each actor holds what
  the statements behind it locked (`Owned`, `Queueing`). So no import can be queued while the sweep owns
  the file's row (`Spared`), nobody takes the notice of a map the archive owns (`Attended`), and nobody
  archives or deletes a map an import owns (`ImportLive`): `SweepSparesImportsHolds`,
  `ReturnedOwnerKeepsMapHolds`;
* an archive that found nothing to date commits without a date, a statement later; that it still has
  nothing to date (`Decided`) holds because no import can succeed into its map meanwhile, and what has
  succeeded into a live map stays: `OriginalDatedHolds`;
* rows are locked in the order map, user, file (`Ordered`), but that a raster's import that waits for the
  user's row may share it already; and the insert of a job waits for nobody, its foreign keys being held. Among
  actors that wait, then, none holds the file, so none waits for it; who is waited for at the user's row is an
  import that shares it and wants it for itself; and none holds a map's (`CirclesAreUpgrades`):
  `DeadlockOnlyAtQuotaHolds`.

`PersonalMaps_proofs` (from `PersonalMapsAssumption`), for any number of maps, layers, users and tabs. The
inductive invariant `IInv`:

* `Tables`: types; the rows of layers have ids of their own, belong to maps in use, and each layer of an
  edit copy has its own draft;
* `Placed`: the layers of a map stand in places 0 to n - 1, one in each. Removing and moving a layer are a
  renumbering of those behind it (`RenumberedFilled`); the copy gives a layer as its place the number of kept
  layers below it, which fills an initial segment (`BelowFills`);
* `Behind`: nothing a tab has read, or is reading, is ahead of its map; and `RevisionVouches`: a tab whose
  detail has the map's revision has its layers, although the detail was read by several statements.

Every write of content moves the revision of one map by one and leaves the rows of the others alone
(`ContentWriteInv`). From it follow `LayersIntactHolds`, `RevisionVouchesHolds` and `NoLostUpdateHolds` (a
write that is accepted was made on the layers that are there), and the refinement: `MapsAreRevisioned` shows
that `PersonalMaps` implements `RevisionedMaps`, since each step changes one map of the abstract state
(`OneMapChanges`) or none.

The end of `PersonalMaps_proofs` is about `MapEditing` (from `MapEditingAssumption`), the tab whose server is
one of those maps, for any number of choices, writes elsewhere and lost answers. The inductive invariant
`TabInv` (theorem `TabInvariant`):

* `TabRevisions`, `TabAnswer`: no revision in the cache, in a GET or in an answer is ahead of the server's, and a
  saved feature's is not ahead of the feature's;
* `TabFeatures`: what is on the map, in the form or in a read that will still be shown is not older than the
  tab's own last save (a save makes the reads under way stale), and what it saved is on the server;
* `TabOrder`: the chain of writes is first in, first out, so what is queued is newer than what was sent and what
  waits for the timer newer still; and since applying any choice raises the revision, a request the server would
  still take, late or not, is newer than every choice applied (`Fresh`): `ChoicesInOrderHolds`;
* `LastChoiceKept`: the last choice waits for the timer, is queued, is being written, or its end was told.

It gives `OwnSaveShownHolds`, `LastChoiceKeptHolds` and `ChoicesInOrderHolds`; that every write settles is
liveness.

`FileStore_proofs` (from `FileStoreAssumption`), for any number of users, files and requests, and any quota.
`IInv` says that an id not yet given out is nowhere (`FreshIsNowhere`), that no two requests write one file
(`Apart`), and what each request relies on (`Keeps`): its files are its own, in the store and without a row
until it commits, and what it counted against the quota stays true because it holds its user's row from the
count to the commit. The number of a user's files grows by what is committed and shrinks by what is removed
(`UsageGrows`, `UsageShrinks`, from the library's facts on finite sets). It gives `QuotaKeptHolds`,
`RowHasFileHolds` and `CogsMatchLayersHolds`. What a request undoes has no row, or is
`disowned`.

`BuildRunner_proofs` (from `GraphAssumption`, `RunnerAssumption`, `NothingAssumption`), for any registry without
cycles and any number of commands. Ancestors are a least closed set, so that upstream and downstream are
converse and transitive (`AncestorsLeast`, `UpDown`, `DownstreamClosed`). `IInv` is `TypeOK` and

* `Alone`: one command at a time, whether or not it still has its lock;
* `Progress` of a build under way: its plan tells one content of each input (`PlanTold`); what
  a built dataset depends on is built (`Ordered`); the stages it has been through say ok with the plan's hash
  (`Recorded`); nothing that rests on the stage at hand has a row (`Cleared`) and its own says failed while it
  runs (`Marked`); what has just run is made from what the plan tells, unless it is `raced` (`Fresh`);
* `Chain`: an ok row rests on ok rows that tell the same inputs; `Own`: an ok row tells what its output is
  made from, unless that is `raced` or adopt wrote the row.

`OkIsBuiltHolds` follows from `Chain` and `Own` (a stage shown as ok has a chain of rows that agree with the
files of now), `LineageNeverBehindHolds` from `Own`. Rows that adopt wrote are excepted, as the properties say.

`Dictionary_proofs` (from `DictionaryAssumption`, and `ReleasesAssumption`: every release passes
`validateDictionary`), for any number of users, codes and releases. The planner's operators come first: what
a plan writes is the code's value where nobody edited the field and the stored one where an edit is kept;
after `Kept`'s three rounds the rows planned satisfy the rules the code's rows do. `IInv` is `TypeOK`, the
checked invariants and

* `ReadFresh`: what a sync has read is what is stored, because it holds the advisory lock from before the
  read, and every staff write takes that lock. Without it a sync would write over an edit it has not seen;
* `Explained`: a field that differs from the code's has an edit in its history, also while a row is missing:
  `HistoryExplainsRowHolds`;
* `Followed`: after the sync of the running release every code it has is stored: `SyncedRowsFollowCodeHolds`;
  `UnitsAgreeHolds` follows from the validity of the planned rows and of what an edit may write;
* `Vouched`: a form whose revision is the attribute's shows what is stored, but for values a sync inserted
  since. Its step is that a sync that changes any row on display counts at least one write
  (`Bumps`): `NoLostUpdateHolds`.

Only model-checked, and why: the liveness properties (fairness and ENABLED are out of the prover's reach). Four
proved results have no run of their own, since a checked property says more or the theorem is enough:
`ImplementsRevisionedMaps`, `RevisionVouches`, `EndedShowsNoRunningStep` and `PublishesOnTop`. Nothing proved
rests on induction over data or on recursive operators: the walks the code makes
by recursion (versions, datasets, reaches) are stated as least closed sets.

## 5. Not modelled, and why

* Stamping of administrative codes inside `activate`, the feature count and the wording of labels: nothing
  depends on them but `NumberedOnce`, for which the label's number is modelled.
* An unchanged load re-stamps display data and runs retention; only retention changes what a property
  can see.
* `version_pins` has no writer in the code yet; `Pin` and `Unpin` are the rows its foreign key allows.
* In `JobWorker`: vector imports (rows in the database only, so the transaction covers them) and what
  parsing or warping does. In `ImportedOriginals`: how a worker stops (`JobWorker`).
* The sweep of orphan drafts (`cleanup.ts:370-399`): its re-check reads `map_layers` in the snapshot of the
  statement that waits for the lock, but the code gives no operation that attaches an existing old draft to
  a layer, so nothing can happen in between.
* In `PersonalMaps`: archived maps (`ImportedOriginals`), listing, table queries, validation of fields and
  geometries. In `MapEditing`: several layers and features, layers of edit copies (their saves go through the
  same chain), file uploads and the polling of jobs.
* In `BuildRunner`: the relabelling of legacy versions (`adoptLegacy.ts`), what probes look at, verify,
  debt, and the wrappers `up.ts` and `ensureSeeded.ts`, which run the same commands.
* In `Dictionary`: feature types (the same planner and edits with fewer fields), value types and the preview
  of a correction (a read).
* In `RiverHierarchy`: geometry beyond distances, the window of the nearest-neighbour search, retention and
  the stamps; a second ingest (it replaces the whole chain).
* The assistant's session store, access groups, audit rows, scenarios: one statement per operation, or state
  in the memory of one process.
* Drivers of external tools, read-only queries, rendering, wiring: no state to check. They are most of the
  repository: of its some 50,000 lines, the larger part is the map client's layout and rendering, scripts that
  drive a browser, stages that call GDAL, QGIS or HTTP, and read-only queries. The parts that keep shared state
  are the components listed as modelled or partly modelled above, and what is abstracted in them is parsing,
  validation of single values and SQL text. The map therefore covers a small share of all lines, and a larger
  one would have to translate code without state to check.

## 6. Plan

Done: `VersionStore`, its abstract specification and proofs; `PublishProtocol` and proofs; `JobWorker` and
proofs; `EditCopyHistory` and its proof (in `VersionStore_proofs`); `ImportedOriginals` and proofs;
`PersonalMaps`, its abstract specification and proofs; `FileStore` and proofs; `BuildRunner` and proofs;
`MapEditing` and its proofs (in `PersonalMaps_proofs`); `Dictionary` and proofs; `RiverHierarchy` and
its proofs (in `PublishProtocol_proofs`); `SerialPublishing`, that `PublishProtocol` implements it. Next, in this order:

1. That the serial order of `SerialPublishing` is the order of the transactions of `VersionStore`, so that the
   contents of the rows, which `PublishProtocol` leaves out, follow the locks.
2. `SessionStore` of the assistant (turns, budget, expiry) and the cached unit tree of access groups.
