----------------------- MODULE ImportedOriginals_proofs -----------------------
(* Proofs about ImportedOriginals, for any number of imports and maps. *)
EXTENDS ImportedOriginals, TLAPS

Rows == Maps \cup {File, User}

\* The labels between the archive's lock on its map and its commit.
ArchiveHolds == {"markOriginals", "setDate", "commitArchive"}

\* The labels between an import's lock on its map and its commit.
ImportHolds == {"insertCog", "lockUser", "keepOriginal", "clearDate", "succeed", "commitImport"}

\* The sweep and the queueing of an import own the upload's row, an import and the archive their map.
Owned ==
    /\ \A j \in Jobs : pc[j] = "insertJob" => <<j, File, "UPDATE">> \in locks
    /\ \A j \in Jobs : pc[j] \in ImportHolds => <<j, mapOf[j], "UPDATE">> \in locks
    /\ pc[Cleanup] \in {"checkImports", "unlink", "deleteRow"} => <<Cleanup, File, "UPDATE">> \in locks
    /\ pc[Cleanup] \in ArchiveHolds => \A m \in archiving : <<Cleanup, m, "UPDATE">> \in locks

\* Until the job is inserted, its map and user are held as its foreign keys will want them.
Queueing ==
    \A j \in Jobs : /\ pc[j] \in {"queueUser", "queueFile", "insertJob"} => <<j, mapOf[j], "KEY SHARE">> \in locks
                    /\ pc[j] \in {"queueFile", "insertJob"} => <<j, User, "KEY SHARE">> \in locks

\* The order map, user, file: the labels before the first lock, those with no more than a map's, and
\* those without the file's.
Unlocked == {"new", "queueMap", "queued", "refused", "readUpload", "lockMap", "done", "idle", "archiveMap", "sweepFile"}
MapOnly == {"queueUser", "insertCog", "markOriginals", "setDate"}
NoFile == {"queueFile", "lockUser", "keepOriginal", "clearDate"}

\* A lock that others may have, too.
Shared(mode) == mode = "KEY SHARE"

\* Before the quota is checked only a raster's import has the user's row, and shares it.
Ordered ==
    /\ \A l \in locks : /\ pc[l[1]] \notin Unlocked
                        /\ pc[l[1]] \in MapOnly => l[2] \in Maps
                        /\ pc[l[1]] \in NoFile => l[2] # File
                        /\ pc[l[1]] = "lockUser" /\ l[2] = User => Raster /\ Shared(l[3])
    /\ \A j \in Jobs : pc[j] = "insertCog" => Raster

\* No two actors hold a row in modes that exclude each other.
Compatible == \A k, l \in locks : k[2] = l[2] /\ <<k[3], l[3]>> \in Conflicting => k[1] = l[1]

\* No two actors own a row.
Exclusive == \A k, l \in locks : k[2] = l[2] /\ k[3] = "UPDATE" /\ l[3] = "UPDATE" => k[1] = l[1]

\* A job that waits to be claimed is queued, one that succeeded has ended; the cleanup clears no
\* date and queues nothing.
Settled ==
    /\ \A j \in Jobs : /\ pc[j] = "queued" => status[j] = "queued"
                       /\ status[j] = "succeeded" => pc[j] = "done"
    /\ writes[Cleanup] # "kept" /\ pc[Cleanup] \notin {"insertJob", "lockUser"}

\* A file about to be unlinked is not being imported.
Spared == pc[Cleanup] \in {"unlink", "deleteRow"} => ~BeingImported

\* A map that is being archived still has its notice.
Attended ==
    /\ pc[Cleanup] \in ArchiveHolds => archiving \subseteq noticed \ archived
    /\ noticed \cap deleted = {}

\* An import writes to a map that is there.
ImportLive == \A j \in Jobs : pc[j] \in ImportHolds => Live(mapOf[j])

\* An archive that is to commit without a date has nothing to date, for good.
Decided ==
    pc[Cleanup] = "commitArchive" /\ writes[Cleanup] = "none" =>
        \/ upload \notin Present
        \/ \A j \in Jobs : mapOf[j] \in archiving => status[j] # "succeeded"
        \/ \E j \in Jobs : status[j] = "succeeded" /\ mapOf[j] \notin archived \cup archiving

IInv ==
    /\ TypeOK /\ Settled /\ Owned /\ Compatible /\ Spared /\ Attended
    /\ ImportLive /\ Decided /\ OriginalDated /\ Queueing /\ Ordered

\* The cleanup is an actor of its own.
LEMMA CleanupIsNoJob == Cleanup \notin Jobs /\ Cleanup \in Actors /\ Jobs \subseteq Actors
  BY ActorsAssumption DEF Actors

\* The invariant holds before anything happens.
LEMMA InitHolds == Init => IInv
  BY CleanupIsNoJob DEF Init, IInv, TypeOK, Settled, Owned, Compatible, Spared, Attended, Queueing, Ordered,
     Present, ArchiveHolds, ImportHolds, ImportLive, Decided, OriginalDated, BeingImported, JobRows

-----------------------------------------------------------------------------
(* Locks *)

Locking == {"queueMap", "queueUser", "queueFile", "insertJob", "lockMap", "insertCog", "lockUser",
            "clearDate", "archiveMap", "setDate", "sweepFile"}

\* What each locking statement wants.
LEMMA WantedIs ==
  ASSUME NEW t
  PROVE  /\ pc[t] = "queueMap" => Wanted(t) = {<<mapOf[t], "KEY SHARE">>}
         /\ pc[t] \in {"queueUser", "insertCog"} => Wanted(t) = {<<User, "KEY SHARE">>}
         /\ pc[t] \in {"queueFile", "sweepFile"} => Wanted(t) = {<<File, "UPDATE">>}
         /\ pc[t] = "insertJob" => Wanted(t) = {<<mapOf[t], "KEY SHARE">>, <<User, "KEY SHARE">>}
         /\ pc[t] = "lockMap" => Wanted(t) = {<<mapOf[t], "UPDATE">>}
         /\ pc[t] = "lockUser" => Wanted(t) = {<<User, "UPDATE">>}
         /\ pc[t] \in {"clearDate", "setDate"} => Wanted(t) = {<<File, "NO KEY UPDATE">>}
         /\ pc[t] = "archiveMap" => Wanted(t) = {<<m, "UPDATE">> : m \in archiving}
  BY DEF Wanted

\* It is one of the rows.
LEMMA WantedType ==
  ASSUME TypeOK, NEW t \in Actors, t \in Jobs \/ pc[t] \in {"archiveMap", "setDate", "sweepFile"},
         pc[t] \in Locking,
         NEW r \in Wanted(t)
  PROVE  r \in Rows \X Modes
<1>1. t \in Jobs => mapOf[t] \in Maps
  BY DEF TypeOK
<1>2. archiving \subseteq Maps
  BY DEF TypeOK
<1>3. CASE pc[t] \in {"queueMap", "lockMap"}
  <2>1. PICK mode \in Modes : Wanted(t) = {<<mapOf[t], mode>>}
    BY <1>3, WantedIs DEF Modes
  <2>2. mapOf[t] \in Rows
    BY <1>1, <1>3 DEF Rows
  <2>3. QED
    BY <2>1, <2>2
<1>4. CASE pc[t] = "insertJob"
  <2>1. Wanted(t) = {<<mapOf[t], "KEY SHARE">>, <<User, "KEY SHARE">>}
    BY <1>4, WantedIs
  <2>2. PICK x \in {mapOf[t], User} : r = <<x, "KEY SHARE">>
    BY <2>1
  <2>3. x \in Rows
    BY <1>1, <1>4, <2>2 DEF Rows
  <2>4. QED
    BY <2>2, <2>3 DEF Modes
<1>5. CASE pc[t] \in {"queueUser", "insertCog", "lockUser", "queueFile", "clearDate", "setDate", "sweepFile"}
  <2>1. PICK x \in {File, User}, mode \in Modes : Wanted(t) = {<<x, mode>>}
    BY <1>5, WantedIs DEF Modes
  <2>2. QED
    BY <2>1 DEF Rows
<1>6. CASE pc[t] = "archiveMap"
  <2>1. Wanted(t) = {<<m, "UPDATE">> : m \in archiving}
    BY <1>6, WantedIs
  <2>2. PICK m \in archiving : r = <<m, "UPDATE">>
    BY <2>1
  <2>3. QED
    BY <1>2, <2>2 DEF Rows, Modes
<1>7. QED
  BY <1>3, <1>4, <1>5, <1>6 DEF Locking

\* Every step takes locks it need not wait for, gives all of an actor's back, or leaves them alone.
LEMMA LocksStep ==
  ASSUME TypeOK, [Next]_vars
  PROVE  \/ locks' = locks
         \/ \E t \in Actors : locks' = {l \in locks : l[1] # t}
         \/ \E t \in Actors :
               /\ WaitsFor(t) = {}
               /\ t \in Jobs \/ pc[t] \in {"archiveMap", "setDate", "sweepFile"}
               /\ pc[t] \in Locking
               /\ locks' = locks \cup {<<t, r[1], r[2]>> : r \in Wanted(t)}
<1> USE CleanupIsNoJob
<1> DEFINE Goal ==
               \/ locks' = locks
               \/ \E t \in Actors : locks' = {l \in locks : l[1] # t}
               \/ \E t \in Actors :
                     /\ WaitsFor(t) = {}
                     /\ t \in Jobs \/ pc[t] \in {"archiveMap", "setDate", "sweepFile"}
                     /\ pc[t] \in Locking
                     /\ locks' = locks \cup {<<t, r[1], r[2]>> : r \in Wanted(t)}
<1> SUFFICES Goal OBVIOUS
<1>1. ASSUME NEW j \in Jobs, BeginQueue(j) PROVE Goal
  BY <1>1 DEF BeginQueue
<1>2. ASSUME NEW j \in Jobs, QueueLocks(j) PROVE Goal
  BY <1>2 DEF QueueLocks, Lock, Locking
<1>3. ASSUME NEW j \in Jobs, FindUpload(j) PROVE Goal
  BY <1>3 DEF FindUpload, Lock, Locking, End
<1>4. ASSUME NEW j \in Jobs, InsertJob(j) PROVE Goal
  BY <1>4 DEF InsertJob, End
<1>5. ASSUME NEW j \in Jobs, Claim(j) PROVE Goal
  BY <1>5 DEF Claim
<1>6. ASSUME NEW j \in Jobs, ReadUpload(j) PROVE Goal
  BY <1>6 DEF ReadUpload
<1>7. ASSUME NEW j \in Jobs, LockMap(j) PROVE Goal
  BY <1>7 DEF LockMap, Lock, Locking
<1>34. ASSUME NEW j \in Jobs, InsertCog(j) PROVE Goal
  BY <1>34 DEF InsertCog, Lock, Locking
<1>8. ASSUME NEW j \in Jobs, LockUser(j) PROVE Goal
  BY <1>8 DEF LockUser, Lock, Locking
<1>9. ASSUME NEW j \in Jobs, KeepImportedOriginal(j) PROVE Goal
  BY <1>9 DEF KeepImportedOriginal
<1>10. ASSUME NEW j \in Jobs, ClearDate(j) PROVE Goal
  BY <1>10 DEF ClearDate, Lock, Locking
<1>11. ASSUME NEW j \in Jobs, Succeed(j) PROVE Goal
  BY <1>11 DEF Succeed
<1>12. ASSUME NEW j \in Jobs, CommitImport(j) PROVE Goal
  BY <1>12 DEF CommitImport, End
<1>13. ASSUME NEW j \in Jobs, FailImport(j) PROVE Goal
  BY <1>13 DEF FailImport, End
<1>14. ASSUME NEW j \in Jobs, FailStale(j) PROVE Goal
  BY <1>14 DEF FailStale
<1>15. ASSUME NEW m \in Maps, MarkInactive(m) PROVE Goal
  BY <1>15 DEF MarkInactive
<1>16. ASSUME NEW m \in Maps, BeginArchive(m) PROVE Goal
  BY <1>16 DEF BeginArchive
<1>17. ASSUME NEW m \in Maps, OpenMap(m) PROVE Goal
  BY <1>17 DEF OpenMap
<1>18. ASSUME NEW m \in Maps, RemoveMap(m) PROVE Goal
  BY <1>18 DEF RemoveMap
<1>19. CASE ArchiveMap
  BY <1>19 DEF ArchiveMap, Lock, Locking, End
<1>20. CASE MarkArchivedOriginals
  BY <1>20 DEF MarkArchivedOriginals
<1>21. CASE SetDate
  BY <1>21 DEF SetDate, Lock, Locking
<1>22. CASE CommitArchive
  BY <1>22 DEF CommitArchive, End
<1>23. CASE BeginSweep
  BY <1>23 DEF BeginSweep
<1>24. CASE SweepFile
  BY <1>24 DEF SweepFile, Lock, Locking, End
<1>25. CASE CheckImports
  BY <1>25 DEF CheckImports, End
<1>26. CASE UnlinkExpired
  BY <1>26 DEF UnlinkExpired
<1>27. CASE DeleteRow
  BY <1>27 DEF DeleteRow, End
<1>28. CASE DeleteFails
  BY <1>28 DEF DeleteFails, End
<1>29. CASE RemoveUpload
  BY <1>29 DEF RemoveUpload
<1>30. CASE UnlinkRemoved
  BY <1>30 DEF UnlinkRemoved
<1>31. CASE DatePasses
  BY <1>31 DEF DatePasses
<1>32. CASE UNCHANGED vars
  BY <1>32 DEF vars
<1>33. QED
  BY <1>1, <1>2, <1>3, <1>4, <1>5, <1>6, <1>7, <1>8, <1>9, <1>10, <1>11, <1>12, <1>13, <1>14, <1>15,
     <1>16, <1>17, <1>18, <1>19, <1>20, <1>21, <1>22, <1>23, <1>24, <1>25, <1>26, <1>27, <1>28,
     <1>29, <1>30, <1>31, <1>32, <1>34
  DEF Next, Enqueue, Import, Archive, Sweep

\* Modes exclude each other both ways.
LEMMA ConflictingIsSymmetric ==
  ASSUME NEW a, NEW b, <<a, b>> \in Conflicting
  PROVE  <<b, a>> \in Conflicting
<1> DEFINE half == {<<"KEY SHARE", "UPDATE">>, <<"NO KEY UPDATE", "NO KEY UPDATE">>,
                    <<"NO KEY UPDATE", "UPDATE">>, <<"UPDATE", "UPDATE">>}
<1>1. Conflicting = half \cup {<<p[2], p[1]>> : p \in half}
  BY DEF Conflicting
<1>2. CASE <<a, b>> \in half
  <2>1. PICK p \in half : p = <<a, b>>
    BY <1>2
  <2>2. <<p[2], p[1]>> \in Conflicting
    BY <1>1
  <2>3. QED
    BY <2>1, <2>2
<1>3. CASE \E p \in half : <<a, b>> = <<p[2], p[1]>>
  <2>1. PICK p \in half : <<a, b>> = <<p[2], p[1]>>
    BY <1>3
  <2>2. a = p[2] /\ b = p[1]
    BY <2>1
  <2>3. p = <<p[1], p[2]>>
    <3>1. PICK x, y : p = <<x, y>>
      BY <2>1
    <3>2. QED
      BY <3>1
  <2>4. <<b, a>> = p
    BY <2>2, <2>3
  <2>5. QED
    BY <1>1, <2>4
<1>4. QED
  BY <1>1, <1>2, <1>3

\* An owner excludes an owner.
LEMMA OwnersExclude == Compatible => Exclusive
  BY DEF Compatible, Exclusive, Conflicting

\* A statement takes no lock but those it wants.
LEMMA Taken ==
  ASSUME NEW t, NEW label, Lock(t, label), NEW l \in locks'
  PROVE  l \in locks \/ \E r \in Wanted(t) : l[1] = t /\ l[2] = r[1] /\ l[3] = r[2]
  BY DEF Lock

\* The rows that are wanted.
LEMMA WantedRows ==
  ASSUME NEW t, NEW r \in Wanted(t)
  PROVE  /\ pc[t] \in Locking
         /\ pc[t] \in {"queueMap", "lockMap"} => r[1] = mapOf[t]
         /\ pc[t] \in {"queueUser", "insertCog", "lockUser"} => r[1] = User
         /\ pc[t] \in {"queueUser", "insertCog"} => Shared(r[2])
         /\ pc[t] \in {"queueFile", "sweepFile", "clearDate", "setDate"} => r[1] = File
         /\ pc[t] = "archiveMap" => r[1] \in archiving
         /\ pc[t] = "insertJob" => r[2] = "KEY SHARE" /\ (r[1] = mapOf[t] \/ r[1] = User)
<1>1. pc[t] \in Locking
  BY DEF Wanted, Locking
<1>2. CASE pc[t] \in {"queueMap", "lockMap"}
  <2>1. PICK mode : Wanted(t) = {<<mapOf[t], mode>>}
    BY <1>2, WantedIs
  <2>2. r[1] = mapOf[t]
    BY <2>1
  <2>3. QED
    BY <1>1, <1>2, <2>2
<1>3. CASE pc[t] \in {"queueUser", "insertCog", "lockUser"}
  <2>1. PICK mode : Wanted(t) = {<<User, mode>>} /\ (pc[t] # "lockUser" => Shared(mode))
    <3>1. pc[t] # "lockUser" => Wanted(t) = {<<User, "KEY SHARE">>} /\ Shared("KEY SHARE")
      BY <1>3, WantedIs DEF Shared
    <3>2. pc[t] = "lockUser" => Wanted(t) = {<<User, "UPDATE">>}
      BY WantedIs
    <3>3. QED
      BY <3>1, <3>2
  <2>2. r[1] = User /\ r[2] = mode
    BY <2>1
  <2>3. QED
    BY <1>1, <1>3, <2>1, <2>2
<1>4. CASE pc[t] \in {"queueFile", "sweepFile", "clearDate", "setDate"}
  <2>1. PICK mode : Wanted(t) = {<<File, mode>>}
    BY <1>4, WantedIs
  <2>2. r[1] = File
    BY <2>1
  <2>3. QED
    BY <1>1, <1>4, <2>2
<1>5. CASE pc[t] = "archiveMap"
  <2>1. Wanted(t) = {<<m, "UPDATE">> : m \in archiving}
    BY <1>5, WantedIs
  <2>2. r[1] \in archiving
    BY <2>1
  <2>3. QED
    BY <1>1, <1>5, <2>2
<1>6. CASE pc[t] = "insertJob"
  <2>1. Wanted(t) = {<<mapOf[t], "KEY SHARE">>, <<User, "KEY SHARE">>}
    BY <1>6, WantedIs
  <2>2. CASE r = <<mapOf[t], "KEY SHARE">>
    BY <1>1, <1>6, <2>2
  <2>3. CASE r = <<User, "KEY SHARE">>
    BY <1>1, <1>6, <2>3
  <2>4. QED
    BY <2>1, <2>2, <2>3
<1>7. QED
  BY <1>1, <1>2, <1>3, <1>4, <1>5, <1>6 DEF Locking

\* The rows of the locks it takes.
LEMMA TakenRows ==
  ASSUME NEW t, NEW label, Lock(t, label), NEW l \in locks', l \notin locks
  PROVE  /\ l[1] = t
         /\ pc[t] \in {"queueMap", "lockMap"} => l[2] = mapOf[t]
         /\ pc[t] \in {"queueUser", "insertCog", "lockUser"} => l[2] = User
         /\ pc[t] = "insertCog" => Shared(l[3])
         /\ pc[t] \in {"queueFile", "sweepFile"} => l[2] = File
         /\ pc[t] = "archiveMap" => l[2] \in archiving
<1>1. PICK r \in Wanted(t) : l[1] = t /\ l[2] = r[1] /\ l[3] = r[2]
  BY Taken
<1>2. QED
  BY <1>1, WantedRows

\* What a statement wants it has when it is granted.
LEMMA Granted ==
  ASSUME NEW t, NEW label, NEW x, NEW mode, Lock(t, label), <<x, mode>> \in Wanted(t)
  PROVE  <<t, x, mode>> \in locks'
<1> DEFINE r == <<x, mode>>
<1>1. <<t, r[1], r[2]>> \in locks'
  BY DEF Lock
<1>2. QED
  BY <1>1

\* Locks are on rows of the maps, the file and the user.
LEMMA LocksType ==
  ASSUME TypeOK, [Next]_vars
  PROVE  locks' \subseteq Actors \X Rows \X Modes
<1>1. locks \subseteq Actors \X Rows \X Modes
  BY DEF TypeOK, Rows
<1>2. ASSUME NEW t \in Actors, t \in Jobs \/ pc[t] \in {"archiveMap", "setDate", "sweepFile"}, pc[t] \in Locking,
             NEW r \in Wanted(t)
      PROVE  <<t, r[1], r[2]>> \in Actors \X Rows \X Modes
  <2>1. r \in Rows \X Modes
    BY <1>2, WantedType
  <2>2. QED
    BY <2>1
<1>3. QED
  BY <1>1, <1>2, LocksStep

\* A lock is granted only where nobody holds the row against it.
LEMMA CompatibleStep == TypeOK /\ Compatible /\ [Next]_vars => Compatible'
<1> SUFFICES ASSUME TypeOK, Compatible, [Next]_vars PROVE Compatible'
  OBVIOUS
<1>1. CASE locks' = locks
  BY <1>1 DEF Compatible
<1>2. ASSUME NEW t \in Actors, locks' = {l \in locks : l[1] # t} PROVE Compatible'
  BY <1>2 DEF Compatible
<1>3. ASSUME NEW t \in Actors, WaitsFor(t) = {}, locks' = locks \cup {<<t, r[1], r[2]>> : r \in Wanted(t)}
      PROVE  Compatible'
  <2>1. ASSUME NEW k \in locks, NEW r \in Wanted(t), k[2] = r[1], <<k[3], r[2]>> \in Conflicting
        PROVE  k[1] = t
    <3>1. SUFFICES ASSUME k[1] # t PROVE FALSE
      OBVIOUS
    <3>2. k[1] \in HoldersAgainst(locks, t, r[1], r[2])
      BY <2>1, <3>1 DEF HoldersAgainst
    <3>3. QED
      BY <1>3, <3>2 DEF WaitsFor
  <2>2. ASSUME NEW k \in locks', NEW l \in locks', k[2] = l[2], <<k[3], l[3]>> \in Conflicting
        PROVE  k[1] = l[1]
    <3>1. CASE k \in locks /\ l \in locks
      BY <2>2, <3>1 DEF Compatible
    <3>2. ASSUME NEW r \in Wanted(t), l = <<t, r[1], r[2]>>, k \in locks PROVE k[1] = l[1]
      BY <2>1, <2>2, <3>2
    <3>3. ASSUME NEW r \in Wanted(t), k = <<t, r[1], r[2]>>, l \in locks PROVE k[1] = l[1]
      <4>1. <<l[3], r[2]>> \in Conflicting
        BY <2>2, <3>3, ConflictingIsSymmetric
      <4>2. QED
        BY <2>1, <2>2, <3>3, <4>1
    <3>4. ASSUME NEW r \in Wanted(t), NEW s \in Wanted(t), k = <<t, r[1], r[2]>>, l = <<t, s[1], s[2]>>
          PROVE  k[1] = l[1]
      BY <3>4
    <3>5. QED
      BY <1>3, <3>1, <3>2, <3>3, <3>4
  <2>3. QED
    BY <2>2 DEF Compatible
<1>4. QED
  BY <1>1, <1>2, <1>3, LocksStep

-----------------------------------------------------------------------------
(* The inductive invariant *)

\* Types are preserved by every step; an archived map is no deleted one because it has its notice.
LEMMA TypeStep == TypeOK /\ Attended /\ [Next]_vars => TypeOK'
<1> SUFFICES ASSUME TypeOK, Attended, [Next]_vars PROVE TypeOK'
  OBVIOUS
<1>0. locks' \subseteq Actors \X (Maps \cup {File, User}) \X Modes
  BY LocksType DEF Rows
<1> USE CleanupIsNoJob, <1>0 DEF TypeOK, Present
<1>1. ASSUME NEW j \in Jobs, BeginQueue(j) PROVE TypeOK'
  BY <1>1 DEF BeginQueue, Goto, tables
<1>2. ASSUME NEW j \in Jobs, QueueLocks(j) PROVE TypeOK'
  BY <1>2 DEF QueueLocks, Lock, Goto, tables
<1>3. ASSUME NEW j \in Jobs, FindUpload(j) PROVE TypeOK'
  BY <1>3 DEF FindUpload, Lock, Goto, End, tables
<1>4. ASSUME NEW j \in Jobs, InsertJob(j) PROVE TypeOK'
  BY <1>4 DEF InsertJob, SetStatus, Goto, End
<1>5. ASSUME NEW j \in Jobs, Claim(j) PROVE TypeOK'
  BY <1>5 DEF Claim, SetStatus, Goto
<1>6. ASSUME NEW j \in Jobs, ReadUpload(j) PROVE TypeOK'
  BY <1>6 DEF ReadUpload, Goto, tables
<1>7. ASSUME NEW j \in Jobs, LockMap(j) PROVE TypeOK'
  BY <1>7 DEF LockMap, Lock, Goto, tables
<1>34. ASSUME NEW j \in Jobs, InsertCog(j) PROVE TypeOK'
  BY <1>34 DEF InsertCog, Lock, Goto, tables
<1>8. ASSUME NEW j \in Jobs, LockUser(j) PROVE TypeOK'
  BY <1>8 DEF LockUser, Lock, Goto, tables
<1>9. ASSUME NEW j \in Jobs, KeepImportedOriginal(j) PROVE TypeOK'
  BY <1>9 DEF KeepImportedOriginal, Goto, tables
<1>10. ASSUME NEW j \in Jobs, ClearDate(j) PROVE TypeOK'
  BY <1>10 DEF ClearDate, Lock, Goto, tables
<1>11. ASSUME NEW j \in Jobs, Succeed(j) PROVE TypeOK'
  BY <1>11 DEF Succeed, Goto, tables
<1>12. ASSUME NEW j \in Jobs, CommitImport(j) PROVE TypeOK'
  BY <1>12 DEF CommitImport, Committed, SetStatus, Goto, End
<1>13. ASSUME NEW j \in Jobs, FailImport(j) PROVE TypeOK'
  BY <1>13 DEF FailImport, SetStatus, Goto, End
<1>14. ASSUME NEW j \in Jobs, FailStale(j) PROVE TypeOK'
  BY <1>14 DEF FailStale, SetStatus
<1>15. ASSUME NEW m \in Maps, MarkInactive(m) PROVE TypeOK'
  BY <1>15 DEF MarkInactive
<1>16. ASSUME NEW m \in Maps, BeginArchive(m) PROVE TypeOK'
  BY <1>16 DEF BeginArchive, Goto, tables
<1>17. ASSUME NEW m \in Maps, OpenMap(m) PROVE TypeOK'
  BY <1>17 DEF OpenMap
<1>18. ASSUME NEW m \in Maps, RemoveMap(m) PROVE TypeOK'
  BY <1>18 DEF RemoveMap, Live
<1>19. CASE ArchiveMap
  BY <1>19 DEF ArchiveMap, Lock, Goto, End, tables
<1>20. CASE MarkArchivedOriginals
  BY <1>20 DEF MarkArchivedOriginals, Goto, tables
<1>21. CASE SetDate
  BY <1>21 DEF SetDate, Lock, Goto, tables
<1>22. CASE CommitArchive
  BY <1>22 DEF CommitArchive, Committed, Attended, ArchiveHolds, Goto, End
<1>23. CASE BeginSweep
  BY <1>23 DEF BeginSweep, Goto, tables
<1>24. CASE SweepFile
  BY <1>24 DEF SweepFile, Lock, Goto, End, tables
<1>25. CASE CheckImports
  BY <1>25 DEF CheckImports, Goto, End, tables
<1>26. CASE UnlinkExpired
  BY <1>26 DEF UnlinkExpired, Goto
<1>27. CASE DeleteRow
  BY <1>27 DEF DeleteRow, Goto, End
<1>28. CASE DeleteFails
  BY <1>28 DEF DeleteFails, Goto, End, tables
<1>29. CASE RemoveUpload
  BY <1>29 DEF RemoveUpload
<1>30. CASE UnlinkRemoved
  BY <1>30 DEF UnlinkRemoved
<1>31. CASE DatePasses
  BY <1>31 DEF DatePasses
<1>32. CASE UNCHANGED vars
  BY <1>32 DEF vars
<1>33. QED
  BY <1>1, <1>2, <1>3, <1>4, <1>5, <1>6, <1>7, <1>8, <1>9, <1>10, <1>11, <1>12, <1>13, <1>14, <1>15,
     <1>16, <1>17, <1>18, <1>19, <1>20, <1>21, <1>22, <1>23, <1>24, <1>25, <1>26, <1>27, <1>28,
     <1>29, <1>30, <1>31, <1>32, <1>34
  DEF Next, Enqueue, Import, Archive, Sweep

\* An owner keeps its locks to the end of its transaction.
LEMMA OwnedStep == TypeOK /\ Owned /\ [Next]_vars => Owned'
<1> SUFFICES ASSUME TypeOK, Owned, [Next]_vars PROVE Owned'
  OBVIOUS
<1>0. pc = [t \in Actors |-> pc[t]]
  BY DEF TypeOK
<1> USE CleanupIsNoJob, <1>0 DEF Owned, ArchiveHolds, ImportHolds
<1>1. ASSUME NEW j \in Jobs, BeginQueue(j) PROVE Owned'
  BY <1>1 DEF BeginQueue, Goto, tables
<1>2. ASSUME NEW j \in Jobs, QueueLocks(j) PROVE Owned'
  BY <1>2 DEF QueueLocks, Lock, Goto, tables
<1>3. ASSUME NEW j \in Jobs, FindUpload(j) PROVE Owned'
  <2>1. CASE Usable(j)
    <3>1. <<j, File, "UPDATE">> \in locks'
      BY <1>3, <2>1, WantedIs, Granted DEF FindUpload
    <3>2. locks \subseteq locks' /\ pc' = [pc EXCEPT ![j] = "insertJob"]
      BY <1>3, <2>1 DEF FindUpload, Lock, Goto
    <3>3. QED
      BY <1>3, <3>1, <3>2 DEF FindUpload, tables
  <2>2. CASE ~Usable(j)
    BY <1>3, <2>2 DEF FindUpload, Goto, End, tables
  <2>3. QED
    BY <2>1, <2>2
<1>4. ASSUME NEW j \in Jobs, InsertJob(j) PROVE Owned'
  BY <1>4 DEF InsertJob, Goto, End
<1>5. ASSUME NEW j \in Jobs, Claim(j) PROVE Owned'
  BY <1>5 DEF Claim, Goto
<1>6. ASSUME NEW j \in Jobs, ReadUpload(j) PROVE Owned'
  BY <1>6 DEF ReadUpload, Goto, tables
<1>7. ASSUME NEW j \in Jobs, LockMap(j) PROVE Owned'
  <2>1. <<j, mapOf[j], "UPDATE">> \in locks'
    BY <1>7, WantedIs, Granted DEF LockMap
  <2>2. locks \subseteq locks' /\ pc' = [pc EXCEPT ![j] = IF Raster THEN "insertCog" ELSE "lockUser"]
    BY <1>7 DEF LockMap, Lock, Goto
  <2>3. QED
    BY <1>7, <2>1, <2>2 DEF LockMap, tables
<1>34. ASSUME NEW j \in Jobs, InsertCog(j) PROVE Owned'
  BY <1>34 DEF InsertCog, Lock, Goto, tables
<1>8. ASSUME NEW j \in Jobs, LockUser(j) PROVE Owned'
  BY <1>8 DEF LockUser, Lock, Goto, tables
<1>9. ASSUME NEW j \in Jobs, KeepImportedOriginal(j) PROVE Owned'
  BY <1>9 DEF KeepImportedOriginal, Goto, tables
<1>10. ASSUME NEW j \in Jobs, ClearDate(j) PROVE Owned'
  BY <1>10 DEF ClearDate, Lock, Goto, tables
<1>11. ASSUME NEW j \in Jobs, Succeed(j) PROVE Owned'
  BY <1>11 DEF Succeed, Goto, tables
<1>12. ASSUME NEW j \in Jobs, CommitImport(j) PROVE Owned'
  BY <1>12 DEF CommitImport, Goto, End
<1>13. ASSUME NEW j \in Jobs, FailImport(j) PROVE Owned'
  BY <1>13 DEF FailImport, Goto, End
<1>14. ASSUME NEW j \in Jobs, FailStale(j) PROVE Owned'
  BY <1>14 DEF FailStale
<1>15. ASSUME NEW m \in Maps, MarkInactive(m) PROVE Owned'
  BY <1>15 DEF MarkInactive
<1>16. ASSUME NEW m \in Maps, BeginArchive(m) PROVE Owned'
  BY <1>16 DEF BeginArchive, Goto, tables
<1>17. ASSUME NEW m \in Maps, OpenMap(m) PROVE Owned'
  BY <1>17 DEF OpenMap
<1>18. ASSUME NEW m \in Maps, RemoveMap(m) PROVE Owned'
  BY <1>18 DEF RemoveMap
<1>19. CASE ArchiveMap
  <2>1. CASE archiving \subseteq noticed \ archived
    <3>1. \A m \in archiving : <<Cleanup, m, "UPDATE">> \in locks'
      BY <1>19, <2>1, WantedIs, Granted DEF ArchiveMap
    <3>2. locks \subseteq locks' /\ pc' = [pc EXCEPT ![Cleanup] = "markOriginals"]
      BY <1>19, <2>1 DEF ArchiveMap, Lock, Goto
    <3>3. QED
      BY <1>19, <3>1, <3>2 DEF ArchiveMap, tables
  <2>2. CASE ~(archiving \subseteq noticed \ archived)
    BY <1>19, <2>2 DEF ArchiveMap, Goto, End, tables
  <2>3. QED
    BY <2>1, <2>2
<1>20. CASE MarkArchivedOriginals
  BY <1>20 DEF MarkArchivedOriginals, Goto, tables
<1>21. CASE SetDate
  BY <1>21 DEF SetDate, Lock, Goto, tables
<1>22. CASE CommitArchive
  BY <1>22 DEF CommitArchive, Goto, End
<1>23. CASE BeginSweep
  BY <1>23 DEF BeginSweep, Goto, tables
<1>24. CASE SweepFile
  <2>1. CASE upload = "due"
    <3>1. <<Cleanup, File, "UPDATE">> \in locks'
      BY <1>24, <2>1, WantedIs, Granted DEF SweepFile
    <3>2. locks \subseteq locks' /\ pc' = [pc EXCEPT ![Cleanup] = "checkImports"]
      BY <1>24, <2>1 DEF SweepFile, Lock, Goto
    <3>3. QED
      BY <1>24, <3>1, <3>2 DEF SweepFile, tables
  <2>2. CASE upload # "due"
    BY <1>24, <2>2 DEF SweepFile, Goto, End, tables
  <2>3. QED
    BY <2>1, <2>2
<1>25. CASE CheckImports
  BY <1>25 DEF CheckImports, Goto, End, tables
<1>26. CASE UnlinkExpired
  BY <1>26 DEF UnlinkExpired, Goto
<1>27. CASE DeleteRow
  BY <1>27 DEF DeleteRow, Goto, End
<1>28. CASE DeleteFails
  BY <1>28 DEF DeleteFails, Goto, End, tables
<1>29. CASE RemoveUpload
  BY <1>29 DEF RemoveUpload
<1>30. CASE UnlinkRemoved
  BY <1>30 DEF UnlinkRemoved
<1>31. CASE DatePasses
  BY <1>31 DEF DatePasses
<1>32. CASE UNCHANGED vars
  BY <1>32 DEF vars
<1>33. QED
  BY <1>1, <1>2, <1>3, <1>4, <1>5, <1>6, <1>7, <1>8, <1>9, <1>10, <1>11, <1>12, <1>13, <1>14, <1>15,
     <1>16, <1>17, <1>18, <1>19, <1>20, <1>21, <1>22, <1>23, <1>24, <1>25, <1>26, <1>27, <1>28,
     <1>29, <1>30, <1>31, <1>32, <1>34
  DEF Next, Enqueue, Import, Archive, Sweep

\* A job's status fits the statement it is at.
LEMMA SettledStep == TypeOK /\ Settled /\ [Next]_vars => Settled'
<1> SUFFICES ASSUME TypeOK, Settled, [Next]_vars PROVE Settled'
  OBVIOUS
<1>0. /\ pc = [t \in Actors |-> pc[t]]
      /\ status = [j \in Jobs |-> status[j]]
      /\ writes = [t \in Actors |-> writes[t]]
  BY DEF TypeOK
<1> USE CleanupIsNoJob, <1>0 DEF Settled
<1>1. ASSUME NEW j \in Jobs, BeginQueue(j) PROVE Settled'
  BY <1>1 DEF BeginQueue, Goto, tables
<1>2. ASSUME NEW j \in Jobs, QueueLocks(j) PROVE Settled'
  BY <1>2 DEF QueueLocks, Lock, Goto, tables
<1>3. ASSUME NEW j \in Jobs, FindUpload(j) PROVE Settled'
  BY <1>3 DEF FindUpload, Lock, Goto, End, tables
<1>4. ASSUME NEW j \in Jobs, InsertJob(j) PROVE Settled'
  BY <1>4 DEF InsertJob, SetStatus, Goto, End
<1>5. ASSUME NEW j \in Jobs, Claim(j) PROVE Settled'
  BY <1>5 DEF Claim, SetStatus, Goto
<1>6. ASSUME NEW j \in Jobs, ReadUpload(j) PROVE Settled'
  BY <1>6 DEF ReadUpload, Goto, tables
<1>7. ASSUME NEW j \in Jobs, LockMap(j) PROVE Settled'
  BY <1>7 DEF LockMap, Lock, Goto, tables
<1>34. ASSUME NEW j \in Jobs, InsertCog(j) PROVE Settled'
  BY <1>34 DEF InsertCog, Lock, Goto, tables
<1>8. ASSUME NEW j \in Jobs, LockUser(j) PROVE Settled'
  BY <1>8 DEF LockUser, Lock, Goto, tables
<1>9. ASSUME NEW j \in Jobs, KeepImportedOriginal(j) PROVE Settled'
  BY <1>9 DEF KeepImportedOriginal, Goto, tables
<1>10. ASSUME NEW j \in Jobs, ClearDate(j) PROVE Settled'
  BY <1>10 DEF ClearDate, Lock, Goto, tables
<1>11. ASSUME NEW j \in Jobs, Succeed(j) PROVE Settled'
  BY <1>11 DEF Succeed, Goto, tables
<1>12. ASSUME NEW j \in Jobs, CommitImport(j) PROVE Settled'
  BY <1>12 DEF CommitImport, SetStatus, Goto, End
<1>13. ASSUME NEW j \in Jobs, FailImport(j) PROVE Settled'
  BY <1>13 DEF FailImport, SetStatus, Goto, End
<1>14. ASSUME NEW j \in Jobs, FailStale(j) PROVE Settled'
  BY <1>14 DEF FailStale, SetStatus
<1>15. ASSUME NEW m \in Maps, MarkInactive(m) PROVE Settled'
  BY <1>15 DEF MarkInactive
<1>16. ASSUME NEW m \in Maps, BeginArchive(m) PROVE Settled'
  BY <1>16 DEF BeginArchive, Goto, tables
<1>17. ASSUME NEW m \in Maps, OpenMap(m) PROVE Settled'
  BY <1>17 DEF OpenMap
<1>18. ASSUME NEW m \in Maps, RemoveMap(m) PROVE Settled'
  BY <1>18 DEF RemoveMap
<1>19. CASE ArchiveMap
  BY <1>19 DEF ArchiveMap, Lock, Goto, End, tables
<1>20. CASE MarkArchivedOriginals
  BY <1>20 DEF MarkArchivedOriginals, Goto, tables
<1>21. CASE SetDate
  BY <1>21 DEF SetDate, Lock, Goto, tables
<1>22. CASE CommitArchive
  BY <1>22 DEF CommitArchive, Goto, End
<1>23. CASE BeginSweep
  BY <1>23 DEF BeginSweep, Goto, tables
<1>24. CASE SweepFile
  BY <1>24 DEF SweepFile, Lock, Goto, End, tables
<1>25. CASE CheckImports
  BY <1>25 DEF CheckImports, Goto, End, tables
<1>26. CASE UnlinkExpired
  BY <1>26 DEF UnlinkExpired, Goto
<1>27. CASE DeleteRow
  BY <1>27 DEF DeleteRow, Goto, End
<1>28. CASE DeleteFails
  BY <1>28 DEF DeleteFails, Goto, End, tables
<1>29. CASE RemoveUpload
  BY <1>29 DEF RemoveUpload
<1>30. CASE UnlinkRemoved
  BY <1>30 DEF UnlinkRemoved
<1>31. CASE DatePasses
  BY <1>31 DEF DatePasses
<1>32. CASE UNCHANGED vars
  BY <1>32 DEF vars
<1>33. QED
  BY <1>1, <1>2, <1>3, <1>4, <1>5, <1>6, <1>7, <1>8, <1>9, <1>10, <1>11, <1>12, <1>13, <1>14, <1>15,
     <1>16, <1>17, <1>18, <1>19, <1>20, <1>21, <1>22, <1>23, <1>24, <1>25, <1>26, <1>27, <1>28,
     <1>29, <1>30, <1>31, <1>32, <1>34
  DEF Next, Enqueue, Import, Archive, Sweep

\* While the sweep owns the file's row no import of it can be queued.
LEMMA SparedStep == TypeOK /\ Settled /\ Owned /\ Exclusive /\ Spared /\ [Next]_vars => Spared'
<1> SUFFICES ASSUME TypeOK, Settled, Owned, Exclusive, Spared, [Next]_vars PROVE Spared'
  OBVIOUS
<1>0. pc = [t \in Actors |-> pc[t]] /\ status = [j \in Jobs |-> status[j]]
  BY DEF TypeOK
<1> USE CleanupIsNoJob, <1>0 DEF Spared, BeingImported, JobRows
<1>1. ASSUME NEW j \in Jobs, BeginQueue(j) PROVE Spared'
  BY <1>1 DEF BeginQueue, Goto, tables
<1>2. ASSUME NEW j \in Jobs, QueueLocks(j) PROVE Spared'
  BY <1>2 DEF QueueLocks, Lock, Goto, tables
<1>3. ASSUME NEW j \in Jobs, FindUpload(j) PROVE Spared'
  BY <1>3 DEF FindUpload, Lock, Goto, End, tables
<1>4. ASSUME NEW j \in Jobs, InsertJob(j) PROVE Spared'
  <2>1. <<j, File, "UPDATE">> \in locks
    BY <1>4 DEF InsertJob, Owned
  <2>2. pc[Cleanup] \notin {"unlink", "deleteRow"}
    <3>1. SUFFICES ASSUME pc[Cleanup] \in {"unlink", "deleteRow"} PROVE FALSE
      OBVIOUS
    <3>2. <<Cleanup, File, "UPDATE">> \in locks
      BY <3>1 DEF Owned
    <3>3. j = Cleanup
      BY <2>1, <3>2 DEF Exclusive
    <3>4. QED
      BY <3>3
  <2>3. QED
    BY <1>4, <2>2 DEF InsertJob, End, Goto
<1>5. ASSUME NEW j \in Jobs, Claim(j) PROVE Spared'
  <2>1. status[j] = "queued" /\ j \in JobRows
    BY <1>5 DEF Claim, Settled
  <2>2. ~(pc[Cleanup] \in {"unlink", "deleteRow"})
    BY <2>1
  <2>3. pc'[Cleanup] = pc[Cleanup]
    BY <1>5 DEF Claim, Goto
  <2>4. QED
    BY <2>2, <2>3
<1>6. ASSUME NEW j \in Jobs, ReadUpload(j) PROVE Spared'
  BY <1>6 DEF ReadUpload, Goto, tables
<1>7. ASSUME NEW j \in Jobs, LockMap(j) PROVE Spared'
  BY <1>7 DEF LockMap, Lock, Goto, tables
<1>34. ASSUME NEW j \in Jobs, InsertCog(j) PROVE Spared'
  BY <1>34 DEF InsertCog, Lock, Goto, tables
<1>8. ASSUME NEW j \in Jobs, LockUser(j) PROVE Spared'
  BY <1>8 DEF LockUser, Lock, Goto, tables
<1>9. ASSUME NEW j \in Jobs, KeepImportedOriginal(j) PROVE Spared'
  BY <1>9 DEF KeepImportedOriginal, Goto, tables
<1>10. ASSUME NEW j \in Jobs, ClearDate(j) PROVE Spared'
  BY <1>10 DEF ClearDate, Lock, Goto, tables
<1>11. ASSUME NEW j \in Jobs, Succeed(j) PROVE Spared'
  BY <1>11 DEF Succeed, Goto, tables
<1>12. ASSUME NEW j \in Jobs, CommitImport(j) PROVE Spared'
  BY <1>12 DEF CommitImport, SetStatus, Goto, End
<1>13. ASSUME NEW j \in Jobs, FailImport(j) PROVE Spared'
  BY <1>13 DEF FailImport, SetStatus, Goto, End
<1>14. ASSUME NEW j \in Jobs, FailStale(j) PROVE Spared'
  BY <1>14 DEF FailStale, SetStatus
<1>15. ASSUME NEW m \in Maps, MarkInactive(m) PROVE Spared'
  BY <1>15 DEF MarkInactive
<1>16. ASSUME NEW m \in Maps, BeginArchive(m) PROVE Spared'
  BY <1>16 DEF BeginArchive, Goto, tables
<1>17. ASSUME NEW m \in Maps, OpenMap(m) PROVE Spared'
  BY <1>17 DEF OpenMap
<1>18. ASSUME NEW m \in Maps, RemoveMap(m) PROVE Spared'
  BY <1>18 DEF RemoveMap
<1>19. CASE ArchiveMap
  BY <1>19 DEF ArchiveMap, Lock, Goto, End, tables
<1>20. CASE MarkArchivedOriginals
  BY <1>20 DEF MarkArchivedOriginals, Goto, tables
<1>21. CASE SetDate
  BY <1>21 DEF SetDate, Lock, Goto, tables
<1>22. CASE CommitArchive
  BY <1>22 DEF CommitArchive, Goto, End
<1>23. CASE BeginSweep
  BY <1>23 DEF BeginSweep, Goto, tables
<1>24. CASE SweepFile
  BY <1>24 DEF SweepFile, Lock, Goto, End, tables
<1>25. CASE CheckImports
  BY <1>25 DEF CheckImports, Goto, End, tables
<1>26. CASE UnlinkExpired
  BY <1>26 DEF UnlinkExpired, Goto
<1>27. CASE DeleteRow
  BY <1>27 DEF DeleteRow, Goto, End
<1>28. CASE DeleteFails
  BY <1>28 DEF DeleteFails, Goto, End, tables
<1>29. CASE RemoveUpload
  BY <1>29 DEF RemoveUpload
<1>30. CASE UnlinkRemoved
  BY <1>30 DEF UnlinkRemoved
<1>31. CASE DatePasses
  BY <1>31 DEF DatePasses
<1>32. CASE UNCHANGED vars
  BY <1>32 DEF vars
<1>33. QED
  BY <1>1, <1>2, <1>3, <1>4, <1>5, <1>6, <1>7, <1>8, <1>9, <1>10, <1>11, <1>12, <1>13, <1>14, <1>15,
     <1>16, <1>17, <1>18, <1>19, <1>20, <1>21, <1>22, <1>23, <1>24, <1>25, <1>26, <1>27, <1>28,
     <1>29, <1>30, <1>31, <1>32, <1>34
  DEF Next, Enqueue, Import, Archive, Sweep

\* Nobody takes the notice from a map, or deletes it, while the archive owns it.
LEMMA AttendedStep == TypeOK /\ Owned /\ Exclusive /\ Attended /\ [Next]_vars => Attended'
<1> SUFFICES ASSUME TypeOK, Owned, Exclusive, Attended, [Next]_vars PROVE Attended'
  OBVIOUS
<1>0. pc = [t \in Actors |-> pc[t]]
  BY DEF TypeOK
<1> USE CleanupIsNoJob, <1>0 DEF Attended, ArchiveHolds
<1>1. ASSUME NEW j \in Jobs, BeginQueue(j) PROVE Attended'
  BY <1>1 DEF BeginQueue, Goto, tables
<1>2. ASSUME NEW j \in Jobs, QueueLocks(j) PROVE Attended'
  BY <1>2 DEF QueueLocks, Lock, Goto, tables
<1>3. ASSUME NEW j \in Jobs, FindUpload(j) PROVE Attended'
  BY <1>3 DEF FindUpload, Lock, Goto, End, tables
<1>4. ASSUME NEW j \in Jobs, InsertJob(j) PROVE Attended'
  BY <1>4 DEF InsertJob, Goto, End
<1>5. ASSUME NEW j \in Jobs, Claim(j) PROVE Attended'
  BY <1>5 DEF Claim, Goto
<1>6. ASSUME NEW j \in Jobs, ReadUpload(j) PROVE Attended'
  BY <1>6 DEF ReadUpload, Goto, tables
<1>7. ASSUME NEW j \in Jobs, LockMap(j) PROVE Attended'
  BY <1>7 DEF LockMap, Lock, Goto, tables
<1>34. ASSUME NEW j \in Jobs, InsertCog(j) PROVE Attended'
  BY <1>34 DEF InsertCog, Lock, Goto, tables
<1>8. ASSUME NEW j \in Jobs, LockUser(j) PROVE Attended'
  BY <1>8 DEF LockUser, Lock, Goto, tables
<1>9. ASSUME NEW j \in Jobs, KeepImportedOriginal(j) PROVE Attended'
  BY <1>9 DEF KeepImportedOriginal, Goto, tables
<1>10. ASSUME NEW j \in Jobs, ClearDate(j) PROVE Attended'
  BY <1>10 DEF ClearDate, Lock, Goto, tables
<1>11. ASSUME NEW j \in Jobs, Succeed(j) PROVE Attended'
  BY <1>11 DEF Succeed, Goto, tables
<1>12. ASSUME NEW j \in Jobs, CommitImport(j) PROVE Attended'
  <2>1. ASSUME pc[Cleanup] \in ArchiveHolds PROVE mapOf[j] \notin archiving
    <3>1. SUFFICES ASSUME mapOf[j] \in archiving PROVE FALSE
      OBVIOUS
    <3>2. <<Cleanup, mapOf[j], "UPDATE">> \in locks /\ <<j, mapOf[j], "UPDATE">> \in locks
      BY <1>12, <2>1, <3>1 DEF Owned, ImportHolds, CommitImport
    <3>3. j = Cleanup
      BY <3>2 DEF Exclusive
    <3>4. QED
      BY <3>3
  <2>2. QED
    BY <1>12, <2>1 DEF CommitImport, End, Goto
<1>13. ASSUME NEW j \in Jobs, FailImport(j) PROVE Attended'
  BY <1>13 DEF FailImport, Goto, End
<1>14. ASSUME NEW j \in Jobs, FailStale(j) PROVE Attended'
  BY <1>14 DEF FailStale
<1>15. ASSUME NEW m \in Maps, MarkInactive(m) PROVE Attended'
  BY <1>15 DEF MarkInactive, Live
<1>16. ASSUME NEW m \in Maps, BeginArchive(m) PROVE Attended'
  BY <1>16 DEF BeginArchive, Goto, tables
<1>17. ASSUME NEW m \in Maps, OpenMap(m) PROVE Attended'
  <2>1. ASSUME pc[Cleanup] \in ArchiveHolds PROVE m \notin archiving
    <3>1. SUFFICES ASSUME m \in archiving PROVE FALSE
      OBVIOUS
    <3>2. <<Cleanup, m, "UPDATE">> \in locks
      BY <2>1, <3>1 DEF Owned
    <3>3. <<"UPDATE", "NO KEY UPDATE">> \in Conflicting
      BY DEF Conflicting
    <3>4. QED
      BY <1>17, <3>2, <3>3 DEF OpenMap, Free
  <2>2. QED
    BY <1>17, <2>1 DEF OpenMap
<1>18. ASSUME NEW m \in Maps, RemoveMap(m) PROVE Attended'
  <2>1. ASSUME pc[Cleanup] \in ArchiveHolds PROVE m \notin archiving
    <3>1. SUFFICES ASSUME m \in archiving PROVE FALSE
      OBVIOUS
    <3>2. <<Cleanup, m, "UPDATE">> \in locks
      BY <2>1, <3>1 DEF Owned
    <3>3. <<"UPDATE", "UPDATE">> \in Conflicting
      BY DEF Conflicting
    <3>4. QED
      BY <1>18, <3>2, <3>3 DEF RemoveMap, Free
  <2>2. QED
    BY <1>18, <2>1 DEF RemoveMap
<1>19. CASE ArchiveMap
  BY <1>19 DEF ArchiveMap, Lock, Goto, End, tables
<1>20. CASE MarkArchivedOriginals
  BY <1>20 DEF MarkArchivedOriginals, Goto, tables
<1>21. CASE SetDate
  BY <1>21 DEF SetDate, Lock, Goto, tables
<1>22. CASE CommitArchive
  BY <1>22 DEF CommitArchive, Goto, End
<1>23. CASE BeginSweep
  BY <1>23 DEF BeginSweep, Goto, tables
<1>24. CASE SweepFile
  BY <1>24 DEF SweepFile, Lock, Goto, End, tables
<1>25. CASE CheckImports
  BY <1>25 DEF CheckImports, Goto, End, tables
<1>26. CASE UnlinkExpired
  BY <1>26 DEF UnlinkExpired, Goto
<1>27. CASE DeleteRow
  BY <1>27 DEF DeleteRow, Goto, End
<1>28. CASE DeleteFails
  BY <1>28 DEF DeleteFails, Goto, End, tables
<1>29. CASE RemoveUpload
  BY <1>29 DEF RemoveUpload
<1>30. CASE UnlinkRemoved
  BY <1>30 DEF UnlinkRemoved
<1>31. CASE DatePasses
  BY <1>31 DEF DatePasses
<1>32. CASE UNCHANGED vars
  BY <1>32 DEF vars
<1>33. QED
  BY <1>1, <1>2, <1>3, <1>4, <1>5, <1>6, <1>7, <1>8, <1>9, <1>10, <1>11, <1>12, <1>13, <1>14, <1>15,
     <1>16, <1>17, <1>18, <1>19, <1>20, <1>21, <1>22, <1>23, <1>24, <1>25, <1>26, <1>27, <1>28,
     <1>29, <1>30, <1>31, <1>32, <1>34
  DEF Next, Enqueue, Import, Archive, Sweep

\* Nobody archives or deletes a map while an import owns it.
LEMMA ImportLiveStep == TypeOK /\ Owned /\ Exclusive /\ ImportLive /\ [Next]_vars => ImportLive'
<1> SUFFICES ASSUME TypeOK, Owned, Exclusive, ImportLive, [Next]_vars PROVE ImportLive'
  OBVIOUS
<1>0. pc = [t \in Actors |-> pc[t]]
  BY DEF TypeOK
<1> USE CleanupIsNoJob, <1>0 DEF ImportLive, ImportHolds, Live
<1>1. ASSUME NEW j \in Jobs, BeginQueue(j) PROVE ImportLive'
  BY <1>1 DEF BeginQueue, Goto, tables
<1>2. ASSUME NEW j \in Jobs, QueueLocks(j) PROVE ImportLive'
  BY <1>2 DEF QueueLocks, Lock, Goto, tables
<1>3. ASSUME NEW j \in Jobs, FindUpload(j) PROVE ImportLive'
  BY <1>3 DEF FindUpload, Lock, Goto, End, tables
<1>4. ASSUME NEW j \in Jobs, InsertJob(j) PROVE ImportLive'
  BY <1>4 DEF InsertJob, Goto, End
<1>5. ASSUME NEW j \in Jobs, Claim(j) PROVE ImportLive'
  BY <1>5 DEF Claim, Goto
<1>6. ASSUME NEW j \in Jobs, ReadUpload(j) PROVE ImportLive'
  BY <1>6 DEF ReadUpload, Goto, tables
<1>7. ASSUME NEW j \in Jobs, LockMap(j) PROVE ImportLive'
  BY <1>7 DEF LockMap, Lock, Goto, tables
<1>34. ASSUME NEW j \in Jobs, InsertCog(j) PROVE ImportLive'
  BY <1>34 DEF InsertCog, Lock, Goto, tables
<1>8. ASSUME NEW j \in Jobs, LockUser(j) PROVE ImportLive'
  BY <1>8 DEF LockUser, Lock, Goto, tables
<1>9. ASSUME NEW j \in Jobs, KeepImportedOriginal(j) PROVE ImportLive'
  BY <1>9 DEF KeepImportedOriginal, Goto, tables
<1>10. ASSUME NEW j \in Jobs, ClearDate(j) PROVE ImportLive'
  BY <1>10 DEF ClearDate, Lock, Goto, tables
<1>11. ASSUME NEW j \in Jobs, Succeed(j) PROVE ImportLive'
  BY <1>11 DEF Succeed, Goto, tables
<1>12. ASSUME NEW j \in Jobs, CommitImport(j) PROVE ImportLive'
  BY <1>12 DEF CommitImport, Goto, End
<1>13. ASSUME NEW j \in Jobs, FailImport(j) PROVE ImportLive'
  BY <1>13 DEF FailImport, Goto, End
<1>14. ASSUME NEW j \in Jobs, FailStale(j) PROVE ImportLive'
  BY <1>14 DEF FailStale
<1>15. ASSUME NEW m \in Maps, MarkInactive(m) PROVE ImportLive'
  BY <1>15 DEF MarkInactive
<1>16. ASSUME NEW m \in Maps, BeginArchive(m) PROVE ImportLive'
  BY <1>16 DEF BeginArchive, Goto, tables
<1>17. ASSUME NEW m \in Maps, OpenMap(m) PROVE ImportLive'
  BY <1>17 DEF OpenMap
<1>18. ASSUME NEW m \in Maps, RemoveMap(m) PROVE ImportLive'
  <2>1. ASSUME NEW j \in Jobs, pc[j] \in ImportHolds PROVE mapOf[j] # m
    <3>1. SUFFICES ASSUME mapOf[j] = m PROVE FALSE
      OBVIOUS
    <3>2. <<j, m, "UPDATE">> \in locks
      BY <2>1, <3>1 DEF Owned
    <3>3. <<"UPDATE", "UPDATE">> \in Conflicting
      BY DEF Conflicting
    <3>4. QED
      BY <1>18, <3>2, <3>3 DEF RemoveMap, Free
  <2>2. QED
    BY <1>18, <2>1 DEF RemoveMap
<1>19. CASE ArchiveMap
  BY <1>19 DEF ArchiveMap, Lock, Goto, End, tables
<1>20. CASE MarkArchivedOriginals
  BY <1>20 DEF MarkArchivedOriginals, Goto, tables
<1>21. CASE SetDate
  BY <1>21 DEF SetDate, Lock, Goto, tables
<1>22. CASE CommitArchive
  <2>1. ASSUME NEW j \in Jobs, pc[j] \in ImportHolds PROVE mapOf[j] \notin archiving
    <3>1. SUFFICES ASSUME mapOf[j] \in archiving PROVE FALSE
      OBVIOUS
    <3>2. <<Cleanup, mapOf[j], "UPDATE">> \in locks /\ <<j, mapOf[j], "UPDATE">> \in locks
      BY <1>22, <2>1, <3>1 DEF Owned, ArchiveHolds, CommitArchive
    <3>3. j = Cleanup
      BY <3>2 DEF Exclusive
    <3>4. QED
      BY <3>3
  <2>2. QED
    BY <1>22, <2>1 DEF CommitArchive, End, Goto
<1>23. CASE BeginSweep
  BY <1>23 DEF BeginSweep, Goto, tables
<1>24. CASE SweepFile
  BY <1>24 DEF SweepFile, Lock, Goto, End, tables
<1>25. CASE CheckImports
  BY <1>25 DEF CheckImports, Goto, End, tables
<1>26. CASE UnlinkExpired
  BY <1>26 DEF UnlinkExpired, Goto
<1>27. CASE DeleteRow
  BY <1>27 DEF DeleteRow, Goto, End
<1>28. CASE DeleteFails
  BY <1>28 DEF DeleteFails, Goto, End, tables
<1>29. CASE RemoveUpload
  BY <1>29 DEF RemoveUpload
<1>30. CASE UnlinkRemoved
  BY <1>30 DEF UnlinkRemoved
<1>31. CASE DatePasses
  BY <1>31 DEF DatePasses
<1>32. CASE UNCHANGED vars
  BY <1>32 DEF vars
<1>33. QED
  BY <1>1, <1>2, <1>3, <1>4, <1>5, <1>6, <1>7, <1>8, <1>9, <1>10, <1>11, <1>12, <1>13, <1>14, <1>15,
     <1>16, <1>17, <1>18, <1>19, <1>20, <1>21, <1>22, <1>23, <1>24, <1>25, <1>26, <1>27, <1>28,
     <1>29, <1>30, <1>31, <1>32, <1>34
  DEF Next, Enqueue, Import, Archive, Sweep

\* What the archive found holds until it commits: no import can put the file into its map, and what an
\* import put into a live map stays there.
LEMMA DecidedStep ==
  TypeOK /\ Settled /\ Owned /\ Exclusive /\ Attended /\ Decided /\ [Next]_vars => Decided'
<1> SUFFICES ASSUME TypeOK, Settled, Owned, Exclusive, Attended, Decided, [Next]_vars PROVE Decided'
  OBVIOUS
<1>0. /\ pc = [t \in Actors |-> pc[t]]
      /\ status = [j \in Jobs |-> status[j]]
      /\ writes = [t \in Actors |-> writes[t]]
  BY DEF TypeOK
<1> USE CleanupIsNoJob, <1>0 DEF Decided, Present
<1>1. ASSUME NEW j \in Jobs, BeginQueue(j) PROVE Decided'
  BY <1>1 DEF BeginQueue, Goto, tables
<1>2. ASSUME NEW j \in Jobs, QueueLocks(j) PROVE Decided'
  BY <1>2 DEF QueueLocks, Lock, Goto, tables
<1>3. ASSUME NEW j \in Jobs, FindUpload(j) PROVE Decided'
  BY <1>3 DEF FindUpload, Lock, Goto, End, tables
<1>4. ASSUME NEW j \in Jobs, InsertJob(j) PROVE Decided'
  BY <1>4 DEF InsertJob, Settled, SetStatus, Goto, End
<1>5. ASSUME NEW j \in Jobs, Claim(j) PROVE Decided'
  <2>1. status[j] # "succeeded"
    BY <1>5 DEF Claim, Settled
  <2>2. status' = [status EXCEPT ![j] = "running"]
    BY <1>5 DEF Claim, SetStatus
  <2>3. QED
    BY <2>1, <2>2, <1>5 DEF Claim, Goto
<1>6. ASSUME NEW j \in Jobs, ReadUpload(j) PROVE Decided'
  BY <1>6 DEF ReadUpload, Goto, tables
<1>7. ASSUME NEW j \in Jobs, LockMap(j) PROVE Decided'
  BY <1>7 DEF LockMap, Lock, Goto, tables
<1>34. ASSUME NEW j \in Jobs, InsertCog(j) PROVE Decided'
  BY <1>34 DEF InsertCog, Lock, Goto, tables
<1>8. ASSUME NEW j \in Jobs, LockUser(j) PROVE Decided'
  BY <1>8 DEF LockUser, Lock, Goto, tables
<1>9. ASSUME NEW j \in Jobs, KeepImportedOriginal(j) PROVE Decided'
  BY <1>9 DEF KeepImportedOriginal, Goto, tables
<1>10. ASSUME NEW j \in Jobs, ClearDate(j) PROVE Decided'
  BY <1>10 DEF ClearDate, Lock, Goto, tables
<1>11. ASSUME NEW j \in Jobs, Succeed(j) PROVE Decided'
  BY <1>11 DEF Succeed, Goto, tables
<1>12. ASSUME NEW j \in Jobs, CommitImport(j) PROVE Decided'
  <2>1. ASSUME pc[Cleanup] \in ArchiveHolds PROVE mapOf[j] \notin archiving
    <3>1. SUFFICES ASSUME mapOf[j] \in archiving PROVE FALSE
      OBVIOUS
    <3>2. <<Cleanup, mapOf[j], "UPDATE">> \in locks /\ <<j, mapOf[j], "UPDATE">> \in locks
      BY <1>12, <2>1, <3>1 DEF Owned, ImportHolds, CommitImport
    <3>3. j = Cleanup
      BY <3>2 DEF Exclusive
    <3>4. QED
      BY <3>3
  <2>2. QED
    BY <1>12, <2>1 DEF CommitImport, Committed, ArchiveHolds, SetStatus, End, Goto
<1>13. ASSUME NEW j \in Jobs, FailImport(j) PROVE Decided'
  BY <1>13 DEF FailImport, Settled, SetStatus, Goto, End
<1>14. ASSUME NEW j \in Jobs, FailStale(j) PROVE Decided'
  BY <1>14 DEF FailStale, Settled, SetStatus
<1>15. ASSUME NEW m \in Maps, MarkInactive(m) PROVE Decided'
  BY <1>15 DEF MarkInactive
<1>16. ASSUME NEW m \in Maps, BeginArchive(m) PROVE Decided'
  BY <1>16 DEF BeginArchive, Goto, tables
<1>17. ASSUME NEW m \in Maps, OpenMap(m) PROVE Decided'
  BY <1>17 DEF OpenMap
<1>18. ASSUME NEW m \in Maps, RemoveMap(m) PROVE Decided'
  BY <1>18 DEF RemoveMap
<1>19. CASE ArchiveMap
  BY <1>19 DEF ArchiveMap, Lock, Goto, End, tables
<1>20. CASE MarkArchivedOriginals
  <2>1. ASSUME ~IsOriginalToDate(archiving), upload \in Present
        PROVE  \/ \A j \in Jobs : mapOf[j] \in archiving => status[j] # "succeeded"
               \/ \E j \in Jobs : status[j] = "succeeded" /\ mapOf[j] \notin archived \cup archiving
    <3>1. \A j \in Jobs : mapOf[j] \in archiving => j \in JobRows
      BY <1>20 DEF MarkArchivedOriginals, Attended, ArchiveHolds, JobRows
    <3>2. QED
      BY <2>1, <3>1 DEF IsOriginalToDate, LiveImport, JobRows
  <2>2. QED
    BY <1>20, <2>1 DEF MarkArchivedOriginals, Goto, tables
<1>21. CASE SetDate
  BY <1>21 DEF SetDate, Lock, Goto, tables
<1>22. CASE CommitArchive
  BY <1>22 DEF CommitArchive, Goto, End
<1>23. CASE BeginSweep
  BY <1>23 DEF BeginSweep, Goto, tables
<1>24. CASE SweepFile
  BY <1>24 DEF SweepFile, Lock, Goto, End, tables
<1>25. CASE CheckImports
  BY <1>25 DEF CheckImports, Goto, End, tables
<1>26. CASE UnlinkExpired
  BY <1>26 DEF UnlinkExpired, Goto
<1>27. CASE DeleteRow
  BY <1>27 DEF DeleteRow, Goto, End
<1>28. CASE DeleteFails
  BY <1>28 DEF DeleteFails, Goto, End, tables
<1>29. CASE RemoveUpload
  BY <1>29 DEF RemoveUpload
<1>30. CASE UnlinkRemoved
  BY <1>30 DEF UnlinkRemoved
<1>31. CASE DatePasses
  BY <1>31 DEF DatePasses
<1>32. CASE UNCHANGED vars
  BY <1>32 DEF vars
<1>33. QED
  BY <1>1, <1>2, <1>3, <1>4, <1>5, <1>6, <1>7, <1>8, <1>9, <1>10, <1>11, <1>12, <1>13, <1>14, <1>15,
     <1>16, <1>17, <1>18, <1>19, <1>20, <1>21, <1>22, <1>23, <1>24, <1>25, <1>26, <1>27, <1>28,
     <1>29, <1>30, <1>31, <1>32, <1>34
  DEF Next, Enqueue, Import, Archive, Sweep

\* The archive of the last map that shows the file dates it.
LEMMA OriginalDatedStep ==
  TypeOK /\ Settled /\ ImportLive /\ Decided /\ OriginalDated /\ [Next]_vars => OriginalDated'
<1> SUFFICES ASSUME TypeOK, Settled, ImportLive, Decided, OriginalDated, [Next]_vars PROVE OriginalDated'
  OBVIOUS
<1>0. status = [j \in Jobs |-> status[j]] /\ writes = [t \in Actors |-> writes[t]]
  BY DEF TypeOK
<1> USE CleanupIsNoJob, <1>0 DEF OriginalDated
<1>1. ASSUME NEW j \in Jobs, BeginQueue(j) PROVE OriginalDated'
  BY <1>1 DEF BeginQueue, tables
<1>2. ASSUME NEW j \in Jobs, QueueLocks(j) PROVE OriginalDated'
  BY <1>2 DEF QueueLocks, tables
<1>3. ASSUME NEW j \in Jobs, FindUpload(j) PROVE OriginalDated'
  BY <1>3 DEF FindUpload, tables
<1>4. ASSUME NEW j \in Jobs, InsertJob(j) PROVE OriginalDated'
  BY <1>4 DEF InsertJob, Settled, SetStatus
<1>5. ASSUME NEW j \in Jobs, Claim(j) PROVE OriginalDated'
  <2>1. status[j] # "succeeded"
    BY <1>5 DEF Claim, Settled
  <2>2. status' = [status EXCEPT ![j] = "running"]
    BY <1>5 DEF Claim, SetStatus
  <2>3. QED
    BY <2>1, <2>2, <1>5 DEF Claim
<1>6. ASSUME NEW j \in Jobs, ReadUpload(j) PROVE OriginalDated'
  BY <1>6 DEF ReadUpload, tables
<1>7. ASSUME NEW j \in Jobs, LockMap(j) PROVE OriginalDated'
  BY <1>7 DEF LockMap, tables
<1>34. ASSUME NEW j \in Jobs, InsertCog(j) PROVE OriginalDated'
  BY <1>34 DEF InsertCog, tables
<1>8. ASSUME NEW j \in Jobs, LockUser(j) PROVE OriginalDated'
  BY <1>8 DEF LockUser, tables
<1>9. ASSUME NEW j \in Jobs, KeepImportedOriginal(j) PROVE OriginalDated'
  BY <1>9 DEF KeepImportedOriginal, tables
<1>10. ASSUME NEW j \in Jobs, ClearDate(j) PROVE OriginalDated'
  BY <1>10 DEF ClearDate, tables
<1>11. ASSUME NEW j \in Jobs, Succeed(j) PROVE OriginalDated'
  BY <1>11 DEF Succeed, tables
<1>12. ASSUME NEW j \in Jobs, CommitImport(j) PROVE OriginalDated'
  <2>1. Live(mapOf[j]) /\ status'[j] = "succeeded" /\ UNCHANGED <<archived, mapOf>>
    BY <1>12 DEF CommitImport, ImportLive, ImportHolds, SetStatus
  <2>2. QED
    BY <2>1 DEF Live
<1>13. ASSUME NEW j \in Jobs, FailImport(j) PROVE OriginalDated'
  BY <1>13 DEF FailImport, Settled, SetStatus
<1>14. ASSUME NEW j \in Jobs, FailStale(j) PROVE OriginalDated'
  BY <1>14 DEF FailStale, Settled, SetStatus
<1>15. ASSUME NEW m \in Maps, MarkInactive(m) PROVE OriginalDated'
  BY <1>15 DEF MarkInactive
<1>16. ASSUME NEW m \in Maps, BeginArchive(m) PROVE OriginalDated'
  BY <1>16 DEF BeginArchive, tables
<1>17. ASSUME NEW m \in Maps, OpenMap(m) PROVE OriginalDated'
  BY <1>17 DEF OpenMap
<1>18. ASSUME NEW m \in Maps, RemoveMap(m) PROVE OriginalDated'
  BY <1>18 DEF RemoveMap
<1>19. CASE ArchiveMap
  BY <1>19 DEF ArchiveMap, tables
<1>20. CASE MarkArchivedOriginals
  BY <1>20 DEF MarkArchivedOriginals, tables
<1>21. CASE SetDate
  BY <1>21 DEF SetDate, tables
<1>22. CASE CommitArchive
  <2>1. CASE upload \notin Present
    BY <1>22, <2>1 DEF CommitArchive, Committed, Present
  <2>2. CASE upload \in Present /\ writes[Cleanup] # "none"
    BY <1>22, <2>2 DEF CommitArchive, Committed, Settled
  <2>3. CASE upload \in Present /\ writes[Cleanup] = "none"
    BY <1>22, <2>3 DEF CommitArchive, Committed, Decided, Present
  <2>4. QED
    BY <2>1, <2>2, <2>3
<1>23. CASE BeginSweep
  BY <1>23 DEF BeginSweep, tables
<1>24. CASE SweepFile
  BY <1>24 DEF SweepFile, tables
<1>25. CASE CheckImports
  BY <1>25 DEF CheckImports, tables
<1>26. CASE UnlinkExpired
  BY <1>26 DEF UnlinkExpired
<1>27. CASE DeleteRow
  BY <1>27 DEF DeleteRow
<1>28. CASE DeleteFails
  BY <1>28 DEF DeleteFails, tables
<1>29. CASE RemoveUpload
  BY <1>29 DEF RemoveUpload
<1>30. CASE UnlinkRemoved
  BY <1>30 DEF UnlinkRemoved
<1>31. CASE DatePasses
  BY <1>31 DEF DatePasses
<1>32. CASE UNCHANGED vars
  BY <1>32 DEF vars
<1>33. QED
  BY <1>1, <1>2, <1>3, <1>4, <1>5, <1>6, <1>7, <1>8, <1>9, <1>10, <1>11, <1>12, <1>13, <1>14, <1>15,
     <1>16, <1>17, <1>18, <1>19, <1>20, <1>21, <1>22, <1>23, <1>24, <1>25, <1>26, <1>27, <1>28,
     <1>29, <1>30, <1>31, <1>32, <1>34
  DEF Next, Enqueue, Import, Archive, Sweep

\* The foreign keys of a job to be inserted are locked from when its transaction passed them.
LEMMA QueueingStep == TypeOK /\ Queueing /\ [Next]_vars => Queueing'
<1> SUFFICES ASSUME TypeOK, Queueing, [Next]_vars PROVE Queueing'
  OBVIOUS
<1>0. pc = [t \in Actors |-> pc[t]]
  BY DEF TypeOK
<1> USE CleanupIsNoJob, <1>0 DEF Queueing
<1>1. ASSUME NEW j \in Jobs, BeginQueue(j) PROVE Queueing'
  BY <1>1 DEF BeginQueue, Goto, tables
<1>2. ASSUME NEW j \in Jobs, QueueLocks(j) PROVE Queueing'
  <2>1. ASSUME pc[j] = "queueMap", Lock(j, "queueUser") PROVE Queueing'
    <3>1. <<j, mapOf[j], "KEY SHARE">> \in locks'
      BY <2>1, WantedIs, Granted
    <3>2. locks \subseteq locks' /\ pc' = [pc EXCEPT ![j] = "queueUser"] /\ mapOf' = mapOf
      BY <1>2, <2>1 DEF QueueLocks, Lock, Goto, tables
    <3>3. QED
      BY <2>1, <3>1, <3>2
  <2>2. ASSUME pc[j] = "queueUser", Lock(j, "queueFile") PROVE Queueing'
    <3>1. <<j, User, "KEY SHARE">> \in locks'
      BY <2>2, WantedIs, Granted
    <3>2. locks \subseteq locks' /\ pc' = [pc EXCEPT ![j] = "queueFile"] /\ mapOf' = mapOf
      BY <1>2, <2>2 DEF QueueLocks, Lock, Goto, tables
    <3>3. QED
      BY <2>2, <3>1, <3>2
  <2>3. QED
    BY <1>2, <2>1, <2>2 DEF QueueLocks
<1>3. ASSUME NEW j \in Jobs, FindUpload(j) PROVE Queueing'
  BY <1>3 DEF FindUpload, Lock, Goto, End, tables
<1>4. ASSUME NEW j \in Jobs, InsertJob(j) PROVE Queueing'
  BY <1>4 DEF InsertJob, Goto, End
<1>5. ASSUME NEW j \in Jobs, Claim(j) PROVE Queueing'
  BY <1>5 DEF Claim, Goto
<1>6. ASSUME NEW j \in Jobs, ReadUpload(j) PROVE Queueing'
  BY <1>6 DEF ReadUpload, Goto, tables
<1>7. ASSUME NEW j \in Jobs, LockMap(j) PROVE Queueing'
  BY <1>7 DEF LockMap, Lock, Goto, tables
<1>34. ASSUME NEW j \in Jobs, InsertCog(j) PROVE Queueing'
  BY <1>34 DEF InsertCog, Lock, Goto, tables
<1>8. ASSUME NEW j \in Jobs, LockUser(j) PROVE Queueing'
  BY <1>8 DEF LockUser, Lock, Goto, tables
<1>9. ASSUME NEW j \in Jobs, KeepImportedOriginal(j) PROVE Queueing'
  BY <1>9 DEF KeepImportedOriginal, Goto, tables
<1>10. ASSUME NEW j \in Jobs, ClearDate(j) PROVE Queueing'
  BY <1>10 DEF ClearDate, Lock, Goto, tables
<1>11. ASSUME NEW j \in Jobs, Succeed(j) PROVE Queueing'
  BY <1>11 DEF Succeed, Goto, tables
<1>12. ASSUME NEW j \in Jobs, CommitImport(j) PROVE Queueing'
  BY <1>12 DEF CommitImport, Goto, End
<1>13. ASSUME NEW j \in Jobs, FailImport(j) PROVE Queueing'
  BY <1>13 DEF FailImport, Goto, End
<1>14. ASSUME NEW j \in Jobs, FailStale(j) PROVE Queueing'
  BY <1>14 DEF FailStale
<1>15. ASSUME NEW m \in Maps, MarkInactive(m) PROVE Queueing'
  BY <1>15 DEF MarkInactive
<1>16. ASSUME NEW m \in Maps, BeginArchive(m) PROVE Queueing'
  BY <1>16 DEF BeginArchive, Goto, tables
<1>17. ASSUME NEW m \in Maps, OpenMap(m) PROVE Queueing'
  BY <1>17 DEF OpenMap
<1>18. ASSUME NEW m \in Maps, RemoveMap(m) PROVE Queueing'
  BY <1>18 DEF RemoveMap
<1>19. CASE ArchiveMap
  BY <1>19 DEF ArchiveMap, Lock, Goto, End, tables
<1>20. CASE MarkArchivedOriginals
  BY <1>20 DEF MarkArchivedOriginals, Goto, tables
<1>21. CASE SetDate
  BY <1>21 DEF SetDate, Lock, Goto, tables
<1>22. CASE CommitArchive
  BY <1>22 DEF CommitArchive, Goto, End
<1>23. CASE BeginSweep
  BY <1>23 DEF BeginSweep, Goto, tables
<1>24. CASE SweepFile
  BY <1>24 DEF SweepFile, Lock, Goto, End, tables
<1>25. CASE CheckImports
  BY <1>25 DEF CheckImports, Goto, End, tables
<1>26. CASE UnlinkExpired
  BY <1>26 DEF UnlinkExpired, Goto
<1>27. CASE DeleteRow
  BY <1>27 DEF DeleteRow, Goto, End
<1>28. CASE DeleteFails
  BY <1>28 DEF DeleteFails, Goto, End, tables
<1>29. CASE RemoveUpload
  BY <1>29 DEF RemoveUpload
<1>30. CASE UnlinkRemoved
  BY <1>30 DEF UnlinkRemoved
<1>31. CASE DatePasses
  BY <1>31 DEF DatePasses
<1>32. CASE UNCHANGED vars
  BY <1>32 DEF vars
<1>33. QED
  BY <1>1, <1>2, <1>3, <1>4, <1>5, <1>6, <1>7, <1>8, <1>9, <1>10, <1>11, <1>12, <1>13, <1>14, <1>15,
     <1>16, <1>17, <1>18, <1>19, <1>20, <1>21, <1>22, <1>23, <1>24, <1>25, <1>26, <1>27, <1>28,
     <1>29, <1>30, <1>31, <1>32, <1>34
  DEF Next, Enqueue, Import, Archive, Sweep

\* A map is locked first, then the user, then the file, by every transaction that locks more than one.
LEMMA OrderedStep == TypeOK /\ Ordered /\ [Next]_vars => Ordered'
<1> SUFFICES ASSUME TypeOK, Ordered, [Next]_vars PROVE Ordered'
  OBVIOUS
<1>0. pc = [t \in Actors |-> pc[t]]
  BY DEF TypeOK
<1>a. File \notin Maps /\ User \notin Maps /\ File # User
  BY ActorsAssumption
<1>b. archiving \subseteq Maps /\ \A j \in Jobs : mapOf[j] \in Maps
  BY DEF TypeOK
<1> USE CleanupIsNoJob, <1>0, <1>a, <1>b DEF Ordered, Unlocked, MapOnly, NoFile
<1>1. ASSUME NEW j \in Jobs, BeginQueue(j) PROVE Ordered'
  BY <1>1 DEF BeginQueue, Goto, tables
<1>2. ASSUME NEW j \in Jobs, QueueLocks(j) PROVE Ordered'
  <2>1. ASSUME pc[j] = "queueMap", Lock(j, "queueUser") PROVE Ordered'
    <3>1. \A l \in locks' : l \in locks \/ (l[1] = j /\ l[2] \in Maps)
      BY <2>1, TakenRows
    <3>2. pc' = [pc EXCEPT ![j] = "queueUser"]
      BY <2>1 DEF Lock, Goto
    <3>3. QED
      BY <2>1, <3>1, <3>2
  <2>2. ASSUME pc[j] = "queueUser", Lock(j, "queueFile") PROVE Ordered'
    <3>1. \A l \in locks' : l \in locks \/ (l[1] = j /\ l[2] = User)
      BY <2>2, TakenRows
    <3>2. pc' = [pc EXCEPT ![j] = "queueFile"]
      BY <2>2 DEF Lock, Goto
    <3>3. QED
      BY <2>2, <3>1, <3>2
  <2>3. QED
    BY <1>2, <2>1, <2>2 DEF QueueLocks
<1>3. ASSUME NEW j \in Jobs, FindUpload(j) PROVE Ordered'
  <2>1. ASSUME pc[j] = "queueFile", Lock(j, "insertJob") PROVE Ordered'
    <3>1. \A l \in locks' : l \in locks \/ (l[1] = j /\ l[2] = File)
      BY <2>1, TakenRows
    <3>2. pc' = [pc EXCEPT ![j] = "insertJob"]
      BY <2>1 DEF Lock, Goto
    <3>3. QED
      BY <2>1, <3>1, <3>2
  <2>2. ASSUME End(j, "refused") PROVE Ordered'
    BY <2>2 DEF End, Goto
  <2>3. CASE Usable(j)
    <3>1. pc[j] = "queueFile" /\ Lock(j, "insertJob")
      BY <1>3, <2>3 DEF FindUpload
    <3>2. QED
      BY <2>1, <3>1
  <2>4. CASE ~Usable(j)
    <3>1. End(j, "refused")
      BY <1>3, <2>4 DEF FindUpload
    <3>2. QED
      BY <2>2, <3>1
  <2>5. QED
    BY <2>3, <2>4
<1>4. ASSUME NEW j \in Jobs, InsertJob(j) PROVE Ordered'
  <2>1. ASSUME NEW label \in {"refused", "queued"}, End(j, label) PROVE Ordered'
    BY <2>1 DEF End, Goto
  <2>2. QED
    BY <1>4, <2>1 DEF InsertJob
<1>5. ASSUME NEW j \in Jobs, Claim(j) PROVE Ordered'
  BY <1>5 DEF Claim, Goto
<1>6. ASSUME NEW j \in Jobs, ReadUpload(j) PROVE Ordered'
  BY <1>6 DEF ReadUpload, Goto, tables
<1>7. ASSUME NEW j \in Jobs, LockMap(j) PROVE Ordered'
  <2> DEFINE label == IF Raster THEN "insertCog" ELSE "lockUser"
  <2>1. ASSUME pc[j] = "lockMap", Lock(j, label) PROVE Ordered'
    <3>1. \A l \in locks' : l \in locks \/ (l[1] = j /\ l[2] \in Maps)
      BY <2>1, TakenRows
    <3>2. pc' = [pc EXCEPT ![j] = label] /\ label \in {"insertCog", "lockUser"} /\ (label = "insertCog" => Raster)
      BY <2>1 DEF Lock, Goto
    <3>3. QED
      BY <2>1, <3>1, <3>2
  <2>2. QED
    BY <1>7, <2>1 DEF LockMap
<1>34. ASSUME NEW j \in Jobs, InsertCog(j) PROVE Ordered'
  <2>1. ASSUME pc[j] = "insertCog", Lock(j, "lockUser") PROVE Ordered'
    <3>1. \A l \in locks' : l \in locks \/ (l[1] = j /\ l[2] = User /\ Shared(l[3]))
      BY <2>1, TakenRows
    <3>2. pc' = [pc EXCEPT ![j] = "lockUser"]
      BY <2>1 DEF Lock, Goto
    <3>3. QED
      BY <2>1, <3>1, <3>2
  <2>2. QED
    BY <1>34, <2>1 DEF InsertCog
<1>8. ASSUME NEW j \in Jobs, LockUser(j) PROVE Ordered'
  <2>1. ASSUME pc[j] = "lockUser", Lock(j, "keepOriginal") PROVE Ordered'
    <3>1. \A l \in locks' : l \in locks \/ (l[1] = j /\ l[2] = User)
      BY <2>1, TakenRows
    <3>2. pc' = [pc EXCEPT ![j] = "keepOriginal"]
      BY <2>1 DEF Lock, Goto
    <3>3. QED
      BY <2>1, <3>1, <3>2
  <2>2. QED
    BY <1>8, <2>1 DEF LockUser
<1>9. ASSUME NEW j \in Jobs, KeepImportedOriginal(j) PROVE Ordered'
  BY <1>9 DEF KeepImportedOriginal, Goto, tables
<1>10. ASSUME NEW j \in Jobs, ClearDate(j) PROVE Ordered'
  BY <1>10 DEF ClearDate, Lock, Goto, tables
<1>11. ASSUME NEW j \in Jobs, Succeed(j) PROVE Ordered'
  BY <1>11 DEF Succeed, Goto, tables
<1>12. ASSUME NEW j \in Jobs, CommitImport(j) PROVE Ordered'
  BY <1>12 DEF CommitImport, Goto, End
<1>13. ASSUME NEW j \in Jobs, FailImport(j) PROVE Ordered'
  BY <1>13 DEF FailImport, Goto, End
<1>14. ASSUME NEW j \in Jobs, FailStale(j) PROVE Ordered'
  BY <1>14 DEF FailStale
<1>15. ASSUME NEW m \in Maps, MarkInactive(m) PROVE Ordered'
  BY <1>15 DEF MarkInactive
<1>16. ASSUME NEW m \in Maps, BeginArchive(m) PROVE Ordered'
  BY <1>16 DEF BeginArchive, Goto, tables
<1>17. ASSUME NEW m \in Maps, OpenMap(m) PROVE Ordered'
  BY <1>17 DEF OpenMap
<1>18. ASSUME NEW m \in Maps, RemoveMap(m) PROVE Ordered'
  BY <1>18 DEF RemoveMap
<1>19. CASE ArchiveMap
  <2>1. ASSUME pc[Cleanup] = "archiveMap", Lock(Cleanup, "markOriginals") PROVE Ordered'
    <3>1. \A l \in locks' : l \in locks \/ (l[1] = Cleanup /\ l[2] \in Maps)
      BY <2>1, TakenRows
    <3>2. pc' = [pc EXCEPT ![Cleanup] = "markOriginals"]
      BY <2>1 DEF Lock, Goto
    <3>3. QED
      BY <2>1, <3>1, <3>2
  <2>2. ASSUME End(Cleanup, "idle") PROVE Ordered'
    BY <2>2 DEF End, Goto
  <2>3. QED
    BY <1>19, <2>1, <2>2 DEF ArchiveMap
<1>20. CASE MarkArchivedOriginals
  BY <1>20 DEF MarkArchivedOriginals, Goto, tables
<1>21. CASE SetDate
  BY <1>21 DEF SetDate, Lock, Goto, tables
<1>22. CASE CommitArchive
  BY <1>22 DEF CommitArchive, Goto, End
<1>23. CASE BeginSweep
  BY <1>23 DEF BeginSweep, Goto, tables
<1>24. CASE SweepFile
  <2>1. ASSUME pc[Cleanup] = "sweepFile", Lock(Cleanup, "checkImports") PROVE Ordered'
    <3>1. \A l \in locks' : l \in locks \/ (l[1] = Cleanup /\ l[2] = File)
      BY <2>1, TakenRows
    <3>2. pc' = [pc EXCEPT ![Cleanup] = "checkImports"]
      BY <2>1 DEF Lock, Goto
    <3>3. QED
      BY <2>1, <3>1, <3>2
  <2>2. ASSUME End(Cleanup, "idle") PROVE Ordered'
    BY <2>2 DEF End, Goto
  <2>3. CASE upload = "due"
    <3>1. pc[Cleanup] = "sweepFile" /\ Lock(Cleanup, "checkImports")
      BY <1>24, <2>3 DEF SweepFile
    <3>2. QED
      BY <2>1, <3>1
  <2>4. CASE upload # "due"
    <3>1. End(Cleanup, "idle")
      BY <1>24, <2>4 DEF SweepFile
    <3>2. QED
      BY <2>2, <3>1
  <2>5. QED
    BY <2>3, <2>4
<1>25. CASE CheckImports
  <2>1. CASE BeingImported
    <3>1. End(Cleanup, "idle")
      BY <1>25, <2>1 DEF CheckImports
    <3>2. QED
      BY <3>1 DEF End, Goto
  <2>2. CASE ~BeingImported
    <3>1. pc' = [pc EXCEPT ![Cleanup] = "unlink"] /\ locks' = locks
      BY <1>25, <2>2 DEF CheckImports, Goto
    <3>2. QED
      BY <3>1
  <2>3. QED
    BY <2>1, <2>2
<1>26. CASE UnlinkExpired
  BY <1>26 DEF UnlinkExpired, Goto
<1>27. CASE DeleteRow
  BY <1>27 DEF DeleteRow, Goto, End
<1>28. CASE DeleteFails
  BY <1>28 DEF DeleteFails, Goto, End, tables
<1>29. CASE RemoveUpload
  BY <1>29 DEF RemoveUpload
<1>30. CASE UnlinkRemoved
  BY <1>30 DEF UnlinkRemoved
<1>31. CASE DatePasses
  BY <1>31 DEF DatePasses
<1>32. CASE UNCHANGED vars
  BY <1>32 DEF vars
<1>33. QED
  BY <1>1, <1>2, <1>3, <1>4, <1>5, <1>6, <1>7, <1>8, <1>9, <1>10, <1>11, <1>12, <1>13, <1>14, <1>15,
     <1>16, <1>17, <1>18, <1>19, <1>20, <1>21, <1>22, <1>23, <1>24, <1>25, <1>26, <1>27, <1>28,
     <1>29, <1>30, <1>31, <1>32, <1>34
  DEF Next, Enqueue, Import, Archive, Sweep

-----------------------------------------------------------------------------
(* Deadlock *)

\* The job's insert waits for nobody.
LEMMA InsertNeverWaits ==
  ASSUME Queueing, Compatible, NEW j \in Jobs, pc[j] = "insertJob"
  PROVE  WaitsFor(j) = {}
<1>1. ASSUME NEW r \in Wanted(j) PROVE <<j, r[1], r[2]>> \in locks
  BY WantedRows DEF Queueing
<1>2. ASSUME NEW r \in Wanted(j) PROVE HoldersAgainst(locks, j, r[1], r[2]) = {}
  <2>1. SUFFICES ASSUME NEW k \in locks, k[1] # j, k[2] = r[1], <<k[3], r[2]>> \in Conflicting PROVE FALSE
    BY DEF HoldersAgainst
  <2>2. <<j, r[1], r[2]>> \in locks
    BY <1>1
  <2>3. QED
    BY <2>1, <2>2 DEF Compatible
<1>3. QED
  BY <1>2 DEF WaitsFor

\* One mode keeps the other from being granted.
Excludes(held, wanted) == <<held, wanted>> \in Conflicting

\* Whoever is waited for holds the row that is wanted, in a mode that excludes the one wanted.
LEMMA WaitedForHolds ==
  ASSUME NEW t, NEW u \in WaitsFor(t)
  PROVE  \E r \in Wanted(t) : \E l \in locks : l[1] = u /\ l[2] = r[1] /\ Excludes(l[3], r[2])
  BY DEF WaitsFor, HoldersAgainst, Excludes

\* Those that share a row do not wait for each other.
LEMMA SharersAgree ==
  ASSUME NEW a, NEW b, Shared(a), Shared(b)
  PROVE  ~Excludes(a, b)
<1> DEFINE half == {<<"KEY SHARE", "UPDATE">>, <<"NO KEY UPDATE", "NO KEY UPDATE">>,
                    <<"NO KEY UPDATE", "UPDATE">>, <<"UPDATE", "UPDATE">>}
<1>1. Conflicting = half \cup {<<p[2], p[1]>> : p \in half}
  BY DEF Conflicting
<1>2. ASSUME NEW p \in half PROVE ~Shared(p[2])
  <2>1. ~Shared("UPDATE") /\ ~Shared("NO KEY UPDATE")
    BY DEF Shared
  <2>2. PICK x, y : p = <<x, y>> /\ ~Shared(y)
    BY <1>2, <2>1
  <2>3. p[2] = y
    BY <2>2
  <2>4. QED
    BY <2>2, <2>3
<1>3. <<a, b>> \notin half
  <2>1. SUFFICES ASSUME NEW p \in half, p = <<a, b>> PROVE FALSE
    OBVIOUS
  <2>2. p[2] = b
    BY <2>1
  <2>3. QED
    BY <1>2, <2>1, <2>2
<1>4. ASSUME NEW p \in half, <<a, b>> = <<p[2], p[1]>> PROVE FALSE
  <2>1. a = p[2]
    BY <1>4
  <2>2. QED
    BY <1>2, <1>4, <2>1
<1>5. QED
  BY <1>1, <1>3, <1>4 DEF Excludes

\* Among those that wait, other than raster imports for each other, nobody holds a file, so nobody waits
\* for one; then nobody that is waited for holds the user's row, and then nobody a map's.
LEMMA CirclesAreUpgrades == TypeOK /\ Settled /\ Queueing /\ Compatible /\ Ordered => DeadlockOnlyAtQuota
<1> SUFFICES ASSUME TypeOK, Settled, Queueing, Compatible, Ordered, NEW S \in (SUBSET Actors) \ {{}},
                    ~\E t \in S : WaitsFor(t) \cap S \subseteq (IF t \in Upgrading THEN Upgrading ELSE {})
             PROVE  FALSE
  BY DEF DeadlockOnlyAtQuota
<1>0. \A t \in S : \E u \in S : u \in WaitsFor(t) /\ (t \notin Upgrading \/ u \notin Upgrading)
  <2> SUFFICES ASSUME NEW t \in S
               PROVE  \E u \in S : u \in WaitsFor(t) /\ (t \notin Upgrading \/ u \notin Upgrading)
    OBVIOUS
  <2>1. PICK u \in WaitsFor(t) \cap S : u \notin (IF t \in Upgrading THEN Upgrading ELSE {})
    OBVIOUS
  <2>2. QED
    BY <2>1
<1>1. \A t \in S : pc[t] \in Locking \ {"insertJob"}
  <2> SUFFICES ASSUME NEW t \in S PROVE pc[t] \in Locking \ {"insertJob"}
    OBVIOUS
  <2>1. WaitsFor(t) # {} /\ Wanted(t) # {}
    BY <1>0 DEF WaitsFor
  <2>2. pc[t] \in Locking
    BY <2>1, WantedRows
  <2>3. pc[t] # "insertJob"
    BY <2>1, InsertNeverWaits DEF Settled, Actors
  <2>4. QED
    BY <2>2, <2>3
<1>2. \A t \in S : pc[t] \notin {"queueFile", "clearDate", "setDate", "sweepFile"}
  <2> SUFFICES ASSUME NEW t \in S, pc[t] \in {"queueFile", "clearDate", "setDate", "sweepFile"} PROVE FALSE
    OBVIOUS
  <2>1. PICK u \in S : u \in WaitsFor(t)
    BY <1>0
  <2>2. \A r \in Wanted(t) : r[1] = File
    BY WantedRows
  <2>3. PICK l \in locks : l[1] = u /\ l[2] = File
    BY <2>1, <2>2, WaitedForHolds
  <2>4. QED
    BY <1>1, <2>1, <2>3, ActorsAssumption DEF Ordered, Locking, Unlocked, MapOnly, NoFile
<1>3. \A t \in S : pc[t] \notin {"queueUser", "insertCog", "lockUser"}
  <2> SUFFICES ASSUME NEW t \in S, pc[t] \in {"queueUser", "insertCog", "lockUser"} PROVE FALSE
    OBVIOUS
  <2>1. PICK u \in S : u \in WaitsFor(t) /\ (t \notin Upgrading \/ u \notin Upgrading)
    BY <1>0
  <2>2. \A r \in Wanted(t) : r[1] = User /\ (pc[t] # "lockUser" => Shared(r[2]))
    BY WantedRows
  <2>3. PICK r \in Wanted(t), l \in locks : l[1] = u /\ l[2] = r[1] /\ Excludes(l[3], r[2])
    BY <2>1, WaitedForHolds
  <2>4. l[2] = User
    BY <2>2, <2>3
  <2>5. pc[u] = "lockUser"
    BY <1>1, <1>2, <2>1, <2>3, <2>4, ActorsAssumption DEF Ordered, Locking, Unlocked, MapOnly
  <2>6. Raster /\ Shared(l[3])
    BY <2>3, <2>4, <2>5 DEF Ordered
  <2>7. pc[t] = "lockUser"
    BY <2>2, <2>3, <2>6, SharersAgree
  <2>8. \A v \in S : pc[v] = "lockUser" => v \in Jobs
    BY DEF Settled, Actors
  <2>9. QED
    BY <2>1, <2>5, <2>6, <2>7, <2>8 DEF Upgrading
<1>4. PICK t \in S : TRUE
  OBVIOUS
<1>5. PICK u \in S : u \in WaitsFor(t)
  BY <1>0, <1>4
<1>6. PICK l \in locks : l[1] = u
  BY <1>5, WaitedForHolds
<1>7. QED
  BY <1>1, <1>2, <1>3, <1>5, <1>6 DEF Ordered, Locking, Unlocked

\* Only the sweep and the removal of the upload take the file away, only the archive archives a map.
LEMMA Frame ==
  ASSUME [Next]_vars
  PROVE  /\ UnlinkExpired \/ UnlinkRemoved \/ onDisk' = onDisk
         /\ CommitArchive \/ archived' = archived
<1> DEFINE Kept == UNCHANGED <<onDisk, archived>>
<1>1. ASSUME NEW j \in Jobs, BeginQueue(j) \/ Enqueue(j) \/ FailStale(j) PROVE Kept
  BY <1>1 DEF BeginQueue, Enqueue, QueueLocks, FindUpload, InsertJob, FailStale, tables
<1>2. ASSUME NEW j \in Jobs, Import(j) PROVE Kept
  BY <1>2 DEF Import, Claim, ReadUpload, LockMap, LockUser, InsertCog, KeepImportedOriginal, ClearDate,
     Succeed, CommitImport, FailImport, tables
<1>3. ASSUME NEW m \in Maps, MarkInactive(m) \/ BeginArchive(m) \/ OpenMap(m) \/ RemoveMap(m) PROVE Kept
  BY <1>3 DEF MarkInactive, BeginArchive, OpenMap, RemoveMap, tables
<1>4. ASSUME Archive, ~CommitArchive PROVE Kept
  BY <1>4 DEF Archive, ArchiveMap, MarkArchivedOriginals, SetDate, tables
<1>5. ASSUME Sweep \/ DeleteFails, ~UnlinkExpired PROVE Kept
  BY <1>5 DEF Sweep, BeginSweep, SweepFile, CheckImports, DeleteRow, DeleteFails, tables
<1>6. ASSUME RemoveUpload \/ DatePasses \/ UNCHANGED vars PROVE Kept
  BY <1>6 DEF RemoveUpload, DatePasses, vars
<1>7. (CommitArchive => onDisk' = onDisk) /\ (UnlinkExpired \/ UnlinkRemoved => archived' = archived)
  BY DEF CommitArchive, UnlinkExpired, UnlinkRemoved
<1>8. QED
  BY <1>1, <1>2, <1>3, <1>4, <1>5, <1>6, <1>7 DEF Next


-----------------------------------------------------------------------------
(* Theorems *)

\* The invariant holds in every state.
THEOREM Invariance == Spec => []IInv
<1>1. IInv /\ [Next]_vars => IInv'
  BY TypeStep, SettledStep, OwnedStep, CompatibleStep, OwnersExclude, SparedStep, AttendedStep, ImportLiveStep, DecidedStep,
     OriginalDatedStep, QueueingStep, OrderedStep DEF IInv
<1>2. QED
  BY InitHolds, <1>1, PTL DEF Spec

\* The upload, its imports, the maps and the lock table keep their types.
THEOREM OriginalsTypeCorrect == Spec => []TypeOK
<1>1. IInv => TypeOK
  BY DEF IInv
<1>2. QED
  BY Invariance, <1>1, PTL

\* No sweep takes the file of an import that is queued or running, for any number of imports
\* (deleteExpiredFiles against enqueueImport).
THEOREM SweepSparesImportsHolds == Spec => SweepSparesImports
<1> DEFINE Spares == onDisk /\ ~onDisk' /\ upload \in Present => ~BeingImported
<1>1. IInv /\ [Next]_vars => [Spares]_vars
  <2> SUFFICES ASSUME IInv, [Next]_vars PROVE Spares
    OBVIOUS
  <2>1. CASE UnlinkExpired
    BY <2>1 DEF UnlinkExpired, IInv, Spared
  <2>2. CASE UnlinkRemoved
    BY <2>2 DEF UnlinkRemoved, Present
  <2>3. CASE onDisk' = onDisk
    BY <2>3
  <2>4. QED
    BY <2>1, <2>2, <2>3, Frame
<1>2. QED
  BY Invariance, <1>1, PTL DEF Spec, SweepSparesImports

\* No map is archived whose notice is gone, whoever opens, changes or deletes it meanwhile
\* (archiveNoticed).
THEOREM ReturnedOwnerKeepsMapHolds == Spec => ReturnedOwnerKeepsMap
<1> DEFINE Keeps == archived' \ archived \subseteq noticed
<1>1. IInv /\ [Next]_vars => [Keeps]_vars
  <2> SUFFICES ASSUME IInv, [Next]_vars PROVE Keeps
    OBVIOUS
  <2>1. CASE CommitArchive
    BY <2>1 DEF CommitArchive, IInv, Attended, ArchiveHolds
  <2>2. CASE archived' = archived
    BY <2>2
  <2>3. QED
    BY <2>1, <2>2, Frame
<1>2. QED
  BY Invariance, <1>1, PTL DEF Spec, ReturnedOwnerKeepsMap

\* An upload all of whose maps are archived has a date, or is gone, whatever imports were queued, failed or
\* succeeded meanwhile (markArchivedOriginals, keep_imported_original).
THEOREM OriginalDatedHolds == Spec => []OriginalDated
<1>1. IInv => OriginalDated
  BY DEF IInv
<1>2. QED
  BY Invariance, <1>1, PTL

\* Whenever queueing, imports, archiving and the sweep wait for each other in a circle, two raster imports
\* of one owner do, at the quota: the order map, user, file (jobs.ts) leaves nothing else, however many
\* imports and maps there are.
THEOREM DeadlockOnlyAtQuotaHolds == Spec => []DeadlockOnlyAtQuota
<1>1. IInv => DeadlockOnlyAtQuota
  BY CirclesAreUpgrades DEF IInv
<1>2. QED
  BY Invariance, <1>1, PTL
=============================================================================
