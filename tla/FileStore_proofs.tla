--------------------------- MODULE FileStore_proofs ---------------------------
(* Proofs about FileStore, for any number of users, files and requests, and any quota. *)
EXTENDS FileStore, TLAPS, FiniteSetTheorems

------------------------------------------------------------------------------
(* The inductive invariant *)

\* An id that was not given out is nowhere.
FreshIsNowhere ==
    \A f \in Files : about[f] = Nothing =>
        /\ row[f] = "none" /\ f \notin onDisk /\ f \notin aged
        /\ \A r \in Requests : f \notin request[r].written

\* No two requests write one file.
Apart ==
    \A r, q \in Requests : r # q => request[r].written \cap request[q].written = {}

Kind(r) == IF KindOf[r] = "upload" THEN "upload" ELSE "cog"
Open == {"streaming", "written", "copying", "inMap", "locked", "ready"}
Holding == {"copying", "locked", "ready"}

\* What a request can rely on: the files it wrote are its own, in the store and without a row until it
\* commits; what it counted stays true because it holds its user's row.
Keeps(r) ==
    LET written == request[r].written
        stage == request[r].stage
    IN  /\ stage = "idle" => written = {}
        /\ \A f \in written : about[f] = <<UserOf[r], Kind(r)>>
        /\ stage \in Open => \A f \in written : row[f] = "none" /\ f \in onDisk /\ f \notin aged
        /\ stage = "failing" => \A f \in written : row[f] = "none" \/ f \in disowned
        /\ stage = "copying" => KindOf[r] = "copy"
        /\ stage \in Holding => userLock[UserOf[r]] = r
        /\ stage = "ready" => Usage(UserOf[r]) + Cardinality(written) <= Quota

IInv ==
    /\ TypeOK /\ FreshIsNowhere /\ Apart
    /\ \A r \in Requests : Keeps(r)
    /\ QuotaKept /\ RowHasFile /\ CogsMatchLayers

------------------------------------------------------------------------------
(* Counting *)

Counted(u) == {f \in Files : row[f] = "live" /\ about[f][1] = u}

LEMMA Finite ==
  /\ IsFiniteSet(Files) /\ \A S \in SUBSET Files : IsFiniteSet(S) /\ Cardinality(S) \in Nat
  /\ Quota \in Nat
BY FileStoreAssumption, FS_Subset, FS_CardinalityType

LEMMA UsageIsCount == \A u \in Users : Usage(u) = Cardinality(Counted(u)) /\ Usage(u) \in Nat
<1>1. \A u \in Users : Counted(u) \in SUBSET Files
  BY DEF Counted
<1>2. QED
  BY <1>1, Finite DEF Usage, Counted

\* A user to whom no live row is added does not keep more.
LEMMA UsageShrinks ==
  ASSUME NEW u \in Users,
         \A f \in Files : row'[f] = "live" /\ about'[f][1] = u => row[f] = "live" /\ about[f][1] = u
  PROVE  Usage(u)' <= Usage(u) /\ Usage(u) \in Nat /\ Usage(u)' \in Nat
<1> DEFINE S == {f \in Files : row[f] = "live" /\ about[f][1] = u}
           T == {f \in Files : row'[f] = "live" /\ about'[f][1] = u}
<1>1. T \subseteq S /\ S \in SUBSET Files /\ T \in SUBSET Files
  OBVIOUS
<1>2. Usage(u) = Cardinality(S) /\ Usage(u)' = Cardinality(T)
  BY DEF Usage
<1> HIDE DEF S, T
<1>3. Cardinality(T) <= Cardinality(S)
  BY <1>1, Finite, FS_Subset
<1>4. QED
  BY <1>1, <1>2, <1>3, Finite

\* The rows of the files in W become live: at most so many more.
LEMMA UsageGrows ==
  ASSUME NEW u \in Users, NEW W \in SUBSET Files,
         \A f \in Files \ W : row'[f] = "live" /\ about'[f][1] = u => row[f] = "live" /\ about[f][1] = u
  PROVE  /\ Usage(u)' <= Usage(u) + Cardinality(W)
         /\ Usage(u) \in Nat /\ Usage(u)' \in Nat /\ Cardinality(W) \in Nat
<1> DEFINE S == {f \in Files : row[f] = "live" /\ about[f][1] = u}
           T == {f \in Files : row'[f] = "live" /\ about'[f][1] = u}
<1>1. T \subseteq S \cup W /\ S \in SUBSET Files /\ T \in SUBSET Files /\ S \cup W \in SUBSET Files
      /\ S \cap W \in SUBSET Files
  OBVIOUS
<1>2. Usage(u) = Cardinality(S) /\ Usage(u)' = Cardinality(T)
  BY DEF Usage
<1> HIDE DEF S, T
<1>3. Cardinality(T) <= Cardinality(S \cup W)
  BY <1>1, Finite, FS_Subset
<1>4. Cardinality(S \cup W) = Cardinality(S) + Cardinality(W) - Cardinality(S \cap W)
  BY <1>1, Finite, FS_Union
<1>5. /\ Cardinality(S) \in Nat /\ Cardinality(W) \in Nat /\ Cardinality(S \cap W) \in Nat
      /\ Cardinality(T) \in Nat /\ Cardinality(S \cup W) \in Nat
  BY <1>1, Finite
<1>6. QED
  BY <1>2, <1>3, <1>4, <1>5

------------------------------------------------------------------------------
(* Steps of one request that touch neither rows nor files *)

Request == [stage: Stages, todo: SUBSET Files, written: SUBSET Files]

LEMMA Typed ==
  ASSUME TypeOK, NEW r \in Requests
  PROVE  /\ request[r] \in Request /\ UserOf[r] \in Users
         /\ KindOf[r] \in {"upload", "copy", "import"} /\ Kind(r) \in Kinds
         /\ request[r].written \in SUBSET Files /\ Cardinality(request[r].written) \in Nat
<1>1. request[r] \in Request
  BY DEF TypeOK, Request
<1>2. request[r].written \in SUBSET Files
  BY <1>1 DEF Request
<1>3. QED
  BY <1>1, <1>2, FileStoreAssumption, Finite DEF Kind, Kinds

\* The request goes on without taking files; the others keep the locks they hold.
LEMMA MoveInv ==
  ASSUME IInv, NEW r \in Requests, NEW new \in Request, request' = [request EXCEPT ![r] = new],
         new.written \subseteq request[r].written,
         UNCHANGED <<rows, files>>,
         disowned' = disowned \/ disowned' = disowned \cup request[r].written,
         userLock' \in [Users -> Requests \cup {Nothing}], mapLock' \subseteq Requests,
         \A u \in Users, q \in Requests \ {r} : userLock[u] = q => userLock'[u] = q,
         new.stage = "idle" => new.written = {},
         new.stage \in Open => request[r].stage \in Open \/ new.written = {},
         new.stage = "failing" => request[r].stage \in Open \/ disowned' = disowned \cup request[r].written,
         new.stage = "copying" => KindOf[r] = "copy",
         new.stage \in Holding => userLock'[UserOf[r]] = r,
         new.stage = "ready" => Usage(UserOf[r]) + Cardinality(new.written) <= Quota
  PROVE  IInv'
<1>1. /\ UNCHANGED <<row, about, layers, onDisk, aged>> /\ UNCHANGED <<rows, files>>
  BY DEF rows, files
<1>2. TypeOK /\ FreshIsNowhere /\ Apart /\ \A q \in Requests : Keeps(q)
  BY DEF IInv
<1>a. disowned' \in SUBSET Files /\ disowned \subseteq disowned'
  BY <1>2, Typed DEF TypeOK
<1>3. /\ request'[r] = new /\ \A q \in Requests \ {r} : request'[q] = request[q]
      /\ request' \in [Requests -> Request]
  BY <1>2 DEF TypeOK, Request
<1>4. TypeOK'
  BY <1>1, <1>a, <1>2, <1>3 DEF TypeOK, Request
<1>5. FreshIsNowhere' /\ Apart'
  <2>1. \A q \in Requests : request'[q].written \subseteq request[q].written
    BY <1>3
  <2>2. QED
    BY <1>1, <1>2, <2>1 DEF FreshIsNowhere, Apart
<1>6. \A u : Usage(u)' = Usage(u)
  BY <1>1 DEF Usage
<1>7. QuotaKept' /\ RowHasFile' /\ CogsMatchLayers'
  BY <1>1, <1>a, <1>6 DEF IInv, QuotaKept, RowHasFile, CogsMatchLayers
<1>8. ASSUME NEW q \in Requests PROVE Keeps(q)'
  <2>1. CASE q = r
    <3>1. Keeps(r)
      BY <1>2
    <3>2. QED
      BY <1>1, <1>a, <1>3, <1>6, <2>1, <3>1 DEF Keeps, Open, Holding
  <2>2. CASE q # r
    <3>1. Keeps(q) /\ UserOf[q] \in Users
      BY <1>2, FileStoreAssumption
    <3>2. QED
      BY <1>1, <1>a, <1>3, <1>6, <2>2, <3>1 DEF Keeps
  <2>3. QED
    BY <2>1, <2>2
<1>9. QED
  BY <1>4, <1>5, <1>7, <1>8 DEF IInv

\* The locks of a request that ends.
LEMMA UnlockedType ==
  ASSUME TypeOK, NEW r \in Requests, Unlocked(r)
  PROVE  /\ userLock' \in [Users -> Requests \cup {Nothing}] /\ mapLock' \subseteq Requests
         /\ \A u \in Users, q \in Requests \ {r} : userLock[u] = q => userLock'[u] = q
  BY DEF TypeOK, Unlocked

LEMMA GoesIs ==
  ASSUME TypeOK, NEW r \in Requests, NEW from, NEW to \in Stages, Goes(r, from, to)
  PROVE  /\ request[r].stage = from
         /\ [request[r] EXCEPT !.stage = to] \in Request
         /\ request' = [request EXCEPT ![r] = [request[r] EXCEPT !.stage = to]]
         /\ [request[r] EXCEPT !.stage = to].stage = to
         /\ [request[r] EXCEPT !.stage = to].written = request[r].written
<1>1. request[r] \in Request
  BY Typed
<1>2. QED
  BY <1>1 DEF Goes, Request

\* What a request does between its first file and its commit, and when it fails.
LEMMA StagesInv ==
  ASSUME IInv, NEW r \in Requests,
         \/ BodyEnds(r) \/ BodyFails(r) \/ ImportTakesMap(r) \/ CopyTakesMap(r) \/ CopiedAll(r)
         \/ CheckQuota(r) \/ StepFails(r) \/ Return(r) \/ StopCommitted(r)
  PROVE  IInv'
<1>1. TypeOK /\ Keeps(r)
  BY DEF IInv
<1>2. userLock \in [Users -> Requests \cup {Nothing}] /\ mapLock \subseteq Requests
  BY <1>1 DEF TypeOK
<1> DEFINE new(to) == [request[r] EXCEPT !.stage = to]
<1>3. CASE BodyEnds(r)
  <2>1. Goes(r, "streaming", "written") /\ UNCHANGED <<rows, files, disowned>> /\ UNCHANGED <<userLock, mapLock>>
    BY <1>3 DEF BodyEnds, locks
  <2>2. /\ request[r].stage = "streaming" /\ new("written") \in Request /\ request' = [request EXCEPT ![r] = new("written")]
        /\ new("written").stage = "written" /\ new("written").written = request[r].written
    BY <1>1, <2>1, GoesIs DEF Stages
  <2> HIDE DEF new
  <2>3. QED
    BY <1>2, <2>1, <2>2, MoveInv DEF Open, Holding
<1>4. CASE BodyFails(r)
  <2>1. Goes(r, "streaming", "failing") /\ UNCHANGED <<rows, files, disowned>> /\ UNCHANGED <<userLock, mapLock>>
    BY <1>4 DEF BodyFails, locks
  <2>2. /\ request[r].stage = "streaming" /\ new("failing") \in Request /\ request' = [request EXCEPT ![r] = new("failing")]
        /\ new("failing").stage = "failing" /\ new("failing").written = request[r].written
    BY <1>1, <2>1, GoesIs DEF Stages
  <2> HIDE DEF new
  <2>3. QED
    BY <1>2, <2>1, <2>2, MoveInv DEF Open, Holding
<1>5. CASE ImportTakesMap(r) \/ CopyTakesMap(r)
  <2>1. PICK from \in {"written", "idle"} : Goes(r, from, "inMap")
    BY <1>5 DEF ImportTakesMap, CopyTakesMap
  <2>2. UNCHANGED <<rows, files, disowned>> /\ UNCHANGED userLock /\ mapLock' \subseteq Requests
    BY <1>2, <1>5 DEF ImportTakesMap, CopyTakesMap
  <2>3. /\ request[r].stage = from /\ new("inMap") \in Request /\ request' = [request EXCEPT ![r] = new("inMap")]
        /\ new("inMap").stage = "inMap" /\ new("inMap").written = request[r].written
    BY <1>1, <2>1, GoesIs DEF Stages
  <2>4. from = "idle" => request[r].written = {}
    BY <1>1, <2>3 DEF Keeps
  <2> HIDE DEF new
  <2>5. QED
    BY <1>2, <2>1, <2>2, <2>3, <2>4, MoveInv DEF Open, Holding
<1>6. CASE CopiedAll(r)
  <2>1. Goes(r, "copying", "locked") /\ UNCHANGED <<rows, files, disowned>> /\ UNCHANGED <<userLock, mapLock>>
    BY <1>6 DEF CopiedAll, locks
  <2>2. /\ request[r].stage = "copying" /\ new("locked") \in Request /\ request' = [request EXCEPT ![r] = new("locked")]
        /\ new("locked").stage = "locked" /\ new("locked").written = request[r].written
    BY <1>1, <2>1, GoesIs DEF Stages
  <2>3. userLock[UserOf[r]] = r
    BY <1>1, <2>2 DEF Keeps, Holding
  <2> HIDE DEF new
  <2>4. QED
    BY <1>2, <2>1, <2>2, <2>3, MoveInv DEF Open, Holding
<1>7. CASE CheckQuota(r) /\ Goes(r, "locked", "ready") /\ UNCHANGED locks
  <2>1. UNCHANGED <<rows, files, disowned>> /\ UNCHANGED <<userLock, mapLock>>
    BY <1>7 DEF CheckQuota, locks
  <2>2. /\ request[r].stage = "locked" /\ new("ready") \in Request /\ request' = [request EXCEPT ![r] = new("ready")]
        /\ new("ready").stage = "ready" /\ new("ready").written = request[r].written
    BY <1>1, <1>7, GoesIs DEF Stages
  <2>3. userLock[UserOf[r]] = r
    BY <1>1, <2>2 DEF Keeps, Holding
  <2>4. Usage(UserOf[r]) + Cardinality(request[r].written) <= Quota
    <3>1. ~ (Usage(UserOf[r]) + Cardinality(request[r].written) > Quota)
      <4>1. request' # [request EXCEPT ![r].stage = "failing"]
        BY <1>1, <2>2 DEF TypeOK
      <4>2. QED
        BY <1>7, <4>1 DEF CheckQuota, Goes
    <3>2. Usage(UserOf[r]) \in Nat /\ Cardinality(request[r].written) \in Nat
      BY <1>1, Typed, UsageIsCount
    <3>3. QED
      BY <3>1, <3>2, Finite
  <2> HIDE DEF new
  <2>5. QED
    BY <1>2, <2>1, <2>2, <2>3, <2>4, MoveInv DEF Open, Holding
<1>8. CASE StepFails(r) \/ (CheckQuota(r) /\ Goes(r, "locked", "failing") /\ Unlocked(r))
  <2>1. PICK from \in {"written", "inMap", "copying", "locked"} : Goes(r, from, "failing")
    BY <1>8 DEF StepFails
  <2>2. UNCHANGED <<rows, files, disowned>> /\ Unlocked(r)
    BY <1>8 DEF StepFails, CheckQuota
  <2>3. /\ request[r].stage = from /\ new("failing") \in Request /\ request' = [request EXCEPT ![r] = new("failing")]
        /\ new("failing").stage = "failing" /\ new("failing").written = request[r].written
    BY <1>1, <2>1, GoesIs DEF Stages
  <2>4. /\ userLock' \in [Users -> Requests \cup {Nothing}] /\ mapLock' \subseteq Requests
        /\ \A u \in Users, q \in Requests \ {r} : userLock[u] = q => userLock'[u] = q
    BY <1>1, <2>2, UnlockedType
  <2> HIDE DEF new
  <2>5. QED
    BY <2>1, <2>2, <2>3, <2>4, MoveInv DEF Open, Holding
<1>9. CheckQuota(r) => \/ Goes(r, "locked", "failing") /\ Unlocked(r)
                       \/ Goes(r, "locked", "ready") /\ UNCHANGED locks
  BY DEF CheckQuota
<1>11. CASE Return(r)
  <2>1. Goes(r, "committed", "done") /\ UNCHANGED <<rows, files, disowned>> /\ UNCHANGED <<userLock, mapLock>>
    BY <1>11 DEF Return, locks
  <2>2. /\ new("done") \in Request /\ request' = [request EXCEPT ![r] = new("done")]
        /\ new("done").stage = "done" /\ new("done").written = request[r].written
    BY <1>1, <2>1, GoesIs DEF Stages, Ended
  <2> HIDE DEF new
  <2>3. QED
    BY <1>2, <2>1, <2>2, MoveInv DEF Open, Holding
<1>12. CASE StopCommitted(r)
  <2>1. /\ Goes(r, "committed", "failing") /\ disowned' = disowned \cup request[r].written
        /\ UNCHANGED <<rows, files>> /\ UNCHANGED <<userLock, mapLock>>
    BY <1>12 DEF StopCommitted, locks
  <2>2. /\ new("failing") \in Request /\ request' = [request EXCEPT ![r] = new("failing")]
        /\ new("failing").stage = "failing" /\ new("failing").written = request[r].written
    BY <1>1, <2>1, GoesIs DEF Stages
  <2> HIDE DEF new
  <2>3. QED
    BY <1>2, <2>1, <2>2, MoveInv DEF Open, Holding
<1>13. QED
  BY <1>3, <1>4, <1>5, <1>6, <1>7, <1>8, <1>9, <1>11, <1>12

LEMMA LockUserInv == ASSUME IInv, NEW r \in Requests, LockUser(r) PROVE IInv'
<1>1. TypeOK /\ Keeps(r) /\ request[r] \in Request /\ UserOf[r] \in Users /\ Nothing \notin Requests
  BY Typed, FileStoreAssumption DEF IInv
<1> DEFINE stage == IF KindOf[r] = "copy" THEN "copying" ELSE "locked"
           todo == IF KindOf[r] = "copy" THEN {f \in layers : InMap(f)} ELSE {}
           new == [request[r] EXCEPT !.stage = stage, !.todo = todo]
<1>2. /\ request[r].stage \in {"written", "inMap"} /\ userLock[UserOf[r]] = Nothing
      /\ userLock' = [userLock EXCEPT ![UserOf[r]] = r]
      /\ UNCHANGED <<rows, files, disowned>> /\ UNCHANGED mapLock
  BY DEF LockUser
<1>3. request' = [request EXCEPT ![r] = new]
  BY <1>1 DEF LockUser, TypeOK, Request
<1>4. /\ new \in Request /\ new.written = request[r].written /\ new.stage \in {"copying", "locked"}
      /\ new.stage = "copying" => KindOf[r] = "copy"
  <2>1. todo \in SUBSET Files /\ stage \in {"copying", "locked"} /\ (stage = "copying" => KindOf[r] = "copy")
    BY <1>1 DEF TypeOK
  <2> HIDE DEF stage, todo
  <2>2. QED
    BY <1>1, <2>1 DEF Request, Stages
<1>5. /\ userLock' \in [Users -> Requests \cup {Nothing}] /\ mapLock' \subseteq Requests
      /\ \A u \in Users, q \in Requests \ {r} : userLock[u] = q => userLock'[u] = q
      /\ userLock'[UserOf[r]] = r
  BY <1>1, <1>2 DEF TypeOK
<1> HIDE DEF new
<1>6. QED
  BY <1>2, <1>3, <1>4, <1>5, MoveInv DEF Open, Holding

LEMMA DieInv == ASSUME IInv, NEW r \in Requests, Die(r) PROVE IInv'
<1>1. TypeOK /\ request[r] \in Request
  BY Typed DEF IInv
<1> DEFINE new == [request[r] EXCEPT !.stage = "dead", !.todo = {}, !.written = {}]
<1>2. UNCHANGED <<rows, files, disowned>> /\ Unlocked(r)
  BY DEF Die
<1>3. request' = [request EXCEPT ![r] = new]
  BY <1>1 DEF Die, TypeOK, Request
<1>4. new \in Request /\ new.written = {} /\ new.stage = "dead"
  BY <1>1 DEF Request, Stages, Ended
<1>5. /\ userLock' \in [Users -> Requests \cup {Nothing}] /\ mapLock' \subseteq Requests
      /\ \A u \in Users, q \in Requests \ {r} : userLock[u] = q => userLock'[u] = q
  BY <1>1, <1>2, UnlockedType
<1> HIDE DEF new
<1>6. QED
  BY <1>2, <1>3, <1>4, <1>5, MoveInv DEF Open, Holding

\* A request takes a file of its own: an id nobody has, and so nowhere yet.
LEMMA WritesInv ==
  ASSUME IInv, NEW r \in Requests, NEW f \in Files, Fresh(f), NEW new \in Request,
         request[r].stage \in {"idle", "copying"}, new.stage \in {"streaming", "written", "copying"},
         new.stage = "copying" => request[r].stage = "copying",
         new.written = request[r].written \cup {f},
         request' = [request EXCEPT ![r] = new],
         about' = [about EXCEPT ![f] = <<UserOf[r], Kind(r)>>], onDisk' = onDisk \cup {f},
         UNCHANGED <<row, aged, layers, locks, disowned>>
  PROVE  IInv'
<1>1. TypeOK /\ FreshIsNowhere /\ Apart /\ RowHasFile /\ CogsMatchLayers /\ QuotaKept
      /\ \A q \in Requests : Keeps(q)
  BY DEF IInv
<1>2. /\ about[f] = Nothing /\ row[f] = "none" /\ f \notin onDisk /\ f \notin aged
      /\ \A q \in Requests : f \notin request[q].written
  BY <1>1 DEF Fresh, FreshIsNowhere
<1>3. <<UserOf[r], Kind(r)>> \in Users \X Kinds /\ <<UserOf[r], Kind(r)>> # Nothing
  BY <1>1, Typed, FileStoreAssumption
<1>4. /\ request'[r] = new /\ \A q \in Requests \ {r} : request'[q] = request[q]
      /\ request' \in [Requests -> Request]
      /\ about' \in [Files -> {Nothing} \cup (Users \X Kinds)]
      /\ about'[f] = <<UserOf[r], Kind(r)>> /\ \A g \in Files \ {f} : about'[g] = about[g]
      /\ UNCHANGED <<row, aged, layers, userLock, mapLock, disowned>>
  BY <1>1, <1>3 DEF TypeOK, Request, locks
<1>5. TypeOK'
  BY <1>1, <1>4 DEF TypeOK, Request
<1>6. FreshIsNowhere'
  <2> SUFFICES ASSUME NEW g \in Files, about'[g] = Nothing
               PROVE  /\ row'[g] = "none" /\ g \notin onDisk' /\ g \notin aged'
                      /\ \A q \in Requests : g \notin request'[q].written
    BY DEF FreshIsNowhere
  <2>1. g # f /\ about[g] = Nothing
    BY <1>3, <1>4
  <2>2. QED
    BY <1>1, <1>4, <2>1 DEF FreshIsNowhere
<1>7. Apart'
  BY <1>1, <1>2, <1>4 DEF Apart
<1>8. \A u \in Users : Usage(u)' = Usage(u)
  BY <1>2, <1>4 DEF Usage
<1>9. QuotaKept' /\ RowHasFile' /\ CogsMatchLayers'
  <2>1. QuotaKept'
    BY <1>1, <1>8 DEF QuotaKept
  <2>2. RowHasFile'
    BY <1>1, <1>4 DEF RowHasFile
  <2>3. CogsMatchLayers'
    BY <1>1, <1>2, <1>4 DEF CogsMatchLayers
  <2>4. QED
    BY <2>1, <2>2, <2>3
<1>10. ASSUME NEW q \in Requests PROVE Keeps(q)'
  <2>0. Keeps(q) /\ UserOf[q] \in Users /\ request[q].written \in SUBSET Files
    BY <1>1, Typed
  <2>1. CASE q = r
    <3>1. request[r].stage = "copying" => userLock[UserOf[r]] = r /\ KindOf[r] = "copy"
      BY <2>0, <2>1 DEF Keeps, Holding
    <3>2. \A g \in request[r].written : /\ about[g] = <<UserOf[r], Kind(r)>> /\ g # f
                                       /\ row[g] = "none" /\ g \in onDisk /\ g \notin aged
      BY <1>2, <2>0, <2>1 DEF Keeps, Open
    <3>3. \A g \in new.written : about'[g] = <<UserOf[r], Kind(r)>> /\ row'[g] = "none" /\ g \in onDisk' /\ g \notin aged'
      BY <1>2, <1>4, <2>0, <2>1, <3>2
    <3>4. new.stage \notin {"idle", "failing", "ready"} /\ (new.stage \in Holding => new.stage = "copying")
      BY DEF Holding
    <3>5. QED
      BY <1>4, <2>1, <3>1, <3>3, <3>4 DEF Keeps
  <2>2. CASE q # r
    <3>1. \A g \in request[q].written : about'[g] = about[g]
      BY <1>2, <1>4, <2>0
    <3>2. QED
      BY <1>4, <1>8, <2>0, <2>2, <3>1 DEF Keeps
  <2>3. QED
    BY <2>1, <2>2
<1>11. QED
  BY <1>5, <1>6, <1>7, <1>9, <1>10 DEF IInv

LEMMA BeginsInv == ASSUME IInv, NEW r \in Requests, BeginUpload(r) \/ BeginImport(r) PROVE IInv'
<1>1. TypeOK /\ request[r] \in Request
  BY Typed DEF IInv
<1>2. ASSUME NEW to \in {"streaming", "written"}, NEW kind \in Kinds, kind = Kind(r), Writes(r, "idle", to, kind),
             UNCHANGED <<row, aged, layers, locks, disowned>>
      PROVE  IInv'
  <2>1. PICK f \in Files :
           /\ Fresh(f) /\ about' = [about EXCEPT ![f] = <<UserOf[r], kind>>] /\ onDisk' = onDisk \cup {f}
           /\ request' = [request EXCEPT ![r].stage = to, ![r].written = @ \cup {f}]
    BY <1>2 DEF Writes
  <2> DEFINE new == [request[r] EXCEPT !.stage = to, !.written = @ \cup {f}]
  <2>2. request' = [request EXCEPT ![r] = new]
    BY <1>1, <2>1 DEF TypeOK, Request
  <2>3. new \in Request /\ new.stage = to /\ new.written = request[r].written \cup {f}
    BY <1>1 DEF Request, Stages
  <2>4. request[r].stage = "idle"
    BY <1>2 DEF Writes
  <2> HIDE DEF new
  <2>5. QED
    BY <1>2, <2>1, <2>2, <2>3, <2>4, WritesInv
<1>3. CASE BeginUpload(r) /\ Writes(r, "idle", "streaming", "upload")
  <2>1. Kind(r) = "upload" /\ "upload" \in Kinds /\ UNCHANGED <<row, aged, layers, locks, disowned>>
    BY <1>3 DEF BeginUpload, Kind, Kinds
  <2>2. QED
    BY <1>2, <1>3, <2>1
<1>4. CASE BeginUpload(r) /\ Goes(r, "idle", "failed") /\ UNCHANGED <<about, onDisk>>
  <2> DEFINE new == [request[r] EXCEPT !.stage = "failed"]
  <2>1. /\ request[r].stage = "idle" /\ new \in Request /\ request' = [request EXCEPT ![r] = new]
        /\ new.stage = "failed" /\ new.written = request[r].written
    BY <1>1, <1>4, GoesIs DEF Stages, Ended
  <2>2. UNCHANGED <<rows, files, disowned>> /\ UNCHANGED <<userLock, mapLock>>
    BY <1>4 DEF BeginUpload, rows, files, locks
  <2>3. userLock \in [Users -> Requests \cup {Nothing}] /\ mapLock \subseteq Requests
    BY <1>1 DEF TypeOK
  <2> HIDE DEF new
  <2>4. QED
    BY <2>1, <2>2, <2>3, MoveInv DEF Open, Holding
<1>5. CASE BeginImport(r)
  <2>1. Kind(r) = "cog" /\ "cog" \in Kinds /\ Writes(r, "idle", "written", "cog")
        /\ UNCHANGED <<row, aged, layers, locks, disowned>>
    BY <1>5 DEF BeginImport, Kind, Kinds
  <2>2. QED
    BY <1>2, <2>1
<1>6. QED
  BY <1>3, <1>4, <1>5 DEF BeginUpload

LEMMA CopyCogInv == ASSUME IInv, NEW r \in Requests, CopyCog(r) PROVE IInv'
<1>1. TypeOK /\ Keeps(r) /\ request[r] \in Request /\ userLock \in [Users -> Requests \cup {Nothing}] /\ mapLock \subseteq Requests
  BY Typed DEF IInv, TypeOK
<1>2. PICK f \in request[r].todo :
        /\ request[r].stage = "copying" /\ UNCHANGED <<row, aged, layers, locks, disowned>>
        /\ \/ \E copy \in Files :
                /\ Fresh(copy) /\ about' = [about EXCEPT ![copy] = <<UserOf[r], "cog">>] /\ onDisk' = onDisk \cup {copy}
                /\ request' = [request EXCEPT ![r].todo = @ \ {f}, ![r].written = @ \cup {copy}]
           \/ request' = [request EXCEPT ![r].todo = @ \ {f}] /\ UNCHANGED <<about, onDisk>>
  BY DEF CopyCog
<1>3. KindOf[r] = "copy" /\ Kind(r) = "cog" /\ userLock[UserOf[r]] = r
  BY <1>1, <1>2 DEF Keeps, Kind, Holding
<1>4. CASE request' = [request EXCEPT ![r].todo = @ \ {f}] /\ UNCHANGED <<about, onDisk>>
  <2> DEFINE new == [request[r] EXCEPT !.todo = @ \ {f}]
  <2>1. request' = [request EXCEPT ![r] = new]
    BY <1>1, <1>4 DEF TypeOK, Request
  <2>2. new \in Request /\ new.stage = "copying" /\ new.written = request[r].written
    BY <1>1, <1>2 DEF Request
  <2>3. UNCHANGED <<rows, files, disowned>> /\ UNCHANGED <<userLock, mapLock>>
    BY <1>2, <1>4 DEF rows, files, locks
  <2> HIDE DEF new
  <2>4. QED
    BY <1>1, <1>2, <1>3, <2>1, <2>2, <2>3, MoveInv DEF Open, Holding
<1>5. ASSUME NEW copy \in Files, Fresh(copy), about' = [about EXCEPT ![copy] = <<UserOf[r], "cog">>],
             onDisk' = onDisk \cup {copy},
             request' = [request EXCEPT ![r].todo = @ \ {f}, ![r].written = @ \cup {copy}]
      PROVE  IInv'
  <2> DEFINE new == [request[r] EXCEPT !.todo = @ \ {f}, !.written = @ \cup {copy}]
  <2>1. request' = [request EXCEPT ![r] = new]
    BY <1>1, <1>5 DEF TypeOK, Request
  <2>2. new \in Request /\ new.stage = "copying" /\ new.written = request[r].written \cup {copy}
    BY <1>1, <1>2 DEF Request
  <2> HIDE DEF new
  <2>3. QED
    BY <1>2, <1>3, <1>5, <2>1, <2>2, WritesInv
<1>6. QED
  BY <1>2, <1>4, <1>5

------------------------------------------------------------------------------
(* The commit: nobody else of the same user can have counted, since the user's row is held. *)

LEMMA VisibleInv ==
  ASSUME IInv, NEW r \in Requests, request[r].stage = "ready", MakeVisible(r), Unlocked(r),
         NEW to \in {"committed", "done", "failing"}, request' = [request EXCEPT ![r].stage = to],
         disowned' \in SUBSET Files, disowned \subseteq disowned',
         to = "failing" => request[r].written \subseteq disowned',
         UNCHANGED <<about, onDisk, aged>>
  PROVE  IInv'
<1> DEFINE W == request[r].written
<1>1. TypeOK /\ FreshIsNowhere /\ Apart /\ RowHasFile /\ CogsMatchLayers /\ QuotaKept
      /\ \A q \in Requests : Keeps(q)
  BY DEF IInv
<1>2. /\ \A f \in W : about[f] = <<UserOf[r], Kind(r)>> /\ row[f] = "none" /\ f \in onDisk /\ f \notin aged
      /\ userLock[UserOf[r]] = r /\ Usage(UserOf[r]) + Cardinality(W) <= Quota
  BY <1>1 DEF Keeps, Open, Holding
<1>3. W \in SUBSET Files /\ Kind(r) \in Kinds /\ UserOf[r] \in Users /\ request[r] \in Request
  BY <1>1, Typed
<1>4. /\ row' = [f \in Files |-> IF f \in W THEN "live" ELSE row[f]]
      /\ layers' = layers \cup {f \in W : about[f][2] = "cog"}
  BY DEF MakeVisible
<1>5. /\ request'[r].stage = to /\ request'[r].written = W
      /\ \A q \in Requests \ {r} : request'[q] = request[q]
      /\ request' \in [Requests -> Request]
  BY <1>1, <1>3 DEF TypeOK, Request, Stages, Ended
<1>6. /\ userLock' \in [Users -> Requests \cup {Nothing}] /\ mapLock' \subseteq Requests
      /\ \A u \in Users, q \in Requests \ {r} : userLock[u] = q => userLock'[u] = q
  BY <1>1, UnlockedType
<1> HIDE DEF W
<1>7. TypeOK'
  <2>1. row' \in [Files -> {"none", "live", "expired"}] /\ layers' \subseteq Files
    BY <1>1, <1>3, <1>4 DEF TypeOK
  <2>2. QED
    BY <1>1, <1>5, <1>6, <2>1 DEF TypeOK, Request
<1>8. FreshIsNowhere'
  <2>1. \A f \in Files : about[f] = Nothing => f \notin W
    BY <1>1 DEF FreshIsNowhere, W
  <2>2. \A q \in Requests : request'[q].written = request[q].written
    BY <1>5 DEF W
  <2>3. QED
    BY <1>1, <1>4, <2>1, <2>2 DEF FreshIsNowhere
<1>9. Apart'
  <2>1. \A q \in Requests : request'[q].written = request[q].written
    BY <1>5 DEF W
  <2>2. QED
    BY <1>1, <2>1 DEF Apart
<1>10. \A u \in Users \ {UserOf[r]} : Usage(u)' <= Usage(u) /\ Usage(u) \in Nat /\ Usage(u)' \in Nat
  <2> SUFFICES ASSUME NEW u \in Users \ {UserOf[r]}
               PROVE Usage(u)' <= Usage(u) /\ Usage(u) \in Nat /\ Usage(u)' \in Nat
    OBVIOUS
  <2>1. \A f \in Files : row'[f] = "live" /\ about'[f][1] = u => row[f] = "live" /\ about[f][1] = u
    BY <1>2, <1>4
  <2>2. QED
    BY <2>1, UsageShrinks
<1>11. Usage(UserOf[r])' <= Usage(UserOf[r]) + Cardinality(W) /\ Usage(UserOf[r])' <= Quota
  <2>1. \A f \in Files \ W : row'[f] = "live" /\ about'[f][1] = UserOf[r] => row[f] = "live" /\ about[f][1] = UserOf[r]
    BY <1>4
  <2>2. /\ Usage(UserOf[r])' <= Usage(UserOf[r]) + Cardinality(W)
        /\ Usage(UserOf[r]) \in Nat /\ Usage(UserOf[r])' \in Nat /\ Cardinality(W) \in Nat
    BY <1>3, <2>1, UsageGrows
  <2>3. QED
    BY <1>2, <2>2, Finite
<1>12. QuotaKept'
  BY <1>1, <1>10, <1>11, Finite DEF QuotaKept
<1>13. RowHasFile'
  BY <1>1, <1>2, <1>4 DEF RowHasFile
<1>14. CogsMatchLayers'
  BY <1>1, <1>3, <1>4 DEF CogsMatchLayers, TypeOK
<1>15. ASSUME NEW q \in Requests PROVE Keeps(q)'
  <2>1. CASE q = r
    <3>1. /\ request'[q].written = W /\ request'[q].stage \in {"committed", "done", "failing"}
          /\ \A f \in W : about'[f] = <<UserOf[q], Kind(q)>>
      BY <1>2, <1>5, <2>1
    <3>2. request'[q].stage = "failing" => \A f \in W : f \in disowned'
      BY <1>5, <2>1 DEF W
    <3>3. QED
      BY <3>1, <3>2 DEF Keeps, Open, Holding
  <2>2. CASE q # r
    <3>1. Keeps(q) /\ UserOf[q] \in Users /\ request[q].written \in SUBSET Files /\ Cardinality(request[q].written) \in Nat
      BY <1>1, Typed
    <3>2. request[q].written \cap W = {}
      BY <1>1, <2>2 DEF Apart, W
    <3>3. \A f \in request[q].written : row'[f] = row[f]
      BY <1>4, <3>1, <3>2
    <3>4. request[q].stage \in Holding => UserOf[q] # UserOf[r]
      BY <1>2, <2>2, <3>1 DEF Keeps
    <3>5. request[q].stage = "ready" => Usage(UserOf[q])' + Cardinality(request[q].written) <= Quota
      <4>1. SUFFICES ASSUME request[q].stage = "ready" PROVE Usage(UserOf[q])' + Cardinality(request[q].written) <= Quota
        OBVIOUS
      <4>2. Usage(UserOf[q]) + Cardinality(request[q].written) <= Quota
        BY <3>1, <4>1 DEF Keeps
      <4>3. Usage(UserOf[q])' <= Usage(UserOf[q]) /\ Usage(UserOf[q]) \in Nat /\ Usage(UserOf[q])' \in Nat
        BY <1>10, <3>1, <3>4, <4>1 DEF Holding
      <4>4. QED
        BY <3>1, <4>2, <4>3, Finite
    <3>6. request[q].stage \in Holding => userLock'[UserOf[q]] = q
      BY <1>6, <2>2, <3>1 DEF Keeps
    <3>7. request'[q] = request[q]
      BY <1>5, <2>2
    <3>8. QED
      BY <3>1, <3>3, <3>5, <3>6, <3>7 DEF Keeps
  <2>3. QED
    BY <2>1, <2>2
<1>16. QED
  BY <1>7, <1>8, <1>9, <1>12, <1>13, <1>14, <1>15 DEF IInv

LEMMA CommitInv == ASSUME IInv, NEW r \in Requests, Commit(r) \/ CommitLost(r) PROVE IInv'
<1>1. TypeOK /\ request[r] \in Request /\ Keeps(r) /\ request[r].written \in SUBSET Files
  BY Typed DEF IInv
<1>2. disowned \in SUBSET Files
  BY <1>1 DEF TypeOK
<1>3. CASE Commit(r)
  <2>1. PICK to \in {"committed", "done"} : request[r].stage = "ready" /\ request' = [request EXCEPT ![r].stage = to]
    BY <1>3 DEF Commit, Goes
  <2>2. QED
    BY <1>2, <1>3, <2>1, VisibleInv DEF Commit, files
<1>4. CASE CommitLost(r) /\ MakeVisible(r) /\ disowned' = disowned \cup request[r].written
  <2>1. /\ request[r].stage = "ready" /\ request' = [request EXCEPT ![r].stage = "failing"] /\ Unlocked(r)
        /\ UNCHANGED <<about, onDisk, aged>>
    BY <1>4 DEF CommitLost, Goes, files
  <2>2. QED
    BY <1>1, <1>2, <1>4, <2>1, VisibleInv
<1>5. CASE CommitLost(r) /\ UNCHANGED <<row, layers, disowned>>
  <2> DEFINE new == [request[r] EXCEPT !.stage = "failing"]
  <2>1. Goes(r, "ready", "failing") /\ Unlocked(r) /\ UNCHANGED <<rows, files, disowned>>
    BY <1>5 DEF CommitLost, rows, files
  <2>2. /\ request[r].stage = "ready" /\ new \in Request /\ request' = [request EXCEPT ![r] = new]
        /\ new.stage = "failing" /\ new.written = request[r].written
    BY <1>1, <2>1, GoesIs DEF Stages
  <2>3. /\ userLock' \in [Users -> Requests \cup {Nothing}] /\ mapLock' \subseteq Requests
        /\ \A u \in Users, q \in Requests \ {r} : userLock[u] = q => userLock'[u] = q
    BY <1>1, <2>1, UnlockedType
  <2> HIDE DEF new
  <2>4. QED
    BY <2>1, <2>2, <2>3, MoveInv DEF Open, Holding
<1>6. QED
  BY <1>3, <1>4, <1>5 DEF CommitLost

------------------------------------------------------------------------------
(* Files that go *)

\* A step that leaves the requests alone, gives no file, and takes from the store only what no request and
\* no live row needs.
LEMMA FilesInv ==
  ASSUME IInv, UNCHANGED <<about, locks, request, disowned>>,
         row' \in [Files -> {"none", "live", "expired"}], layers' \subseteq Files,
         onDisk' \subseteq onDisk, aged' \subseteq Files,
         \A f \in Files : /\ row'[f] = "live" => row[f] = "live" /\ (f \in onDisk => f \in onDisk')
                          /\ row[f] = "none" => row'[f] = "none"
                          /\ f \in aged' => f \in aged \/ f \in onDisk,
         \A r \in Requests : request[r].stage \in Open =>
            \A f \in request[r].written : (f \in onDisk => f \in onDisk') /\ (f \in aged' => f \in aged),
         layers' = {f \in Files : row'[f] = "live" /\ about[f][2] = "cog"}
  PROVE  IInv'
<1>1. TypeOK /\ FreshIsNowhere /\ Apart /\ RowHasFile /\ CogsMatchLayers /\ QuotaKept
      /\ \A q \in Requests : Keeps(q)
  BY DEF IInv
<1>2. UNCHANGED <<about, userLock, mapLock, request, disowned>>
  BY DEF locks
<1>3. TypeOK'
  BY <1>1, <1>2 DEF TypeOK
<1>4. FreshIsNowhere' /\ Apart' /\ RowHasFile' /\ CogsMatchLayers'
  BY <1>1, <1>2 DEF FreshIsNowhere, Apart, RowHasFile, CogsMatchLayers
<1>5. \A u \in Users : Usage(u)' <= Usage(u) /\ Usage(u) \in Nat /\ Usage(u)' \in Nat
  BY <1>2, UsageShrinks
<1>6. QuotaKept'
  BY <1>1, <1>5, Finite DEF QuotaKept
<1>7. ASSUME NEW q \in Requests PROVE Keeps(q)'
  <2>1. Keeps(q) /\ UserOf[q] \in Users /\ request[q].written \in SUBSET Files /\ Cardinality(request[q].written) \in Nat
    BY <1>1, Typed
  <2>2. request[q].stage = "ready" => Usage(UserOf[q])' + Cardinality(request[q].written) <= Quota
    <3>1. SUFFICES ASSUME request[q].stage = "ready" PROVE Usage(UserOf[q])' + Cardinality(request[q].written) <= Quota
      OBVIOUS
    <3>2. Usage(UserOf[q]) + Cardinality(request[q].written) <= Quota
      BY <2>1, <3>1 DEF Keeps
    <3>3. QED
      BY <1>5, <2>1, <3>2, Finite
  <2>3. request[q].stage \in Open => \A f \in request[q].written : row'[f] = "none" /\ f \in onDisk' /\ f \notin aged'
    BY <2>1 DEF Keeps
  <2>4. QED
    BY <1>2, <2>1, <2>2, <2>3 DEF Keeps
<1>8. QED
  BY <1>3, <1>4, <1>6, <1>7 DEF IInv

LEMMA RemovalsInv ==
  ASSUME IInv, NEW f \in Files,
         \/ \E dies \in BOOLEAN : RemoveUpload(f, dies)
         \/ RemoveLayer(f) \/ SweepFile(f) \/ SweepRow(f) \/ GrowsOld(f)
  PROVE  IInv'
<1>1. TypeOK /\ CogsMatchLayers /\ \A q \in Requests : Keeps(q)
  BY DEF IInv
<1>2. /\ row \in [Files -> {"none", "live", "expired"}] /\ layers = {g \in Files : row[g] = "live" /\ about[g][2] = "cog"}
      /\ onDisk \subseteq Files /\ aged \subseteq Files
  BY <1>1 DEF TypeOK, CogsMatchLayers
<1>3. \A q \in Requests : request[q].stage \in Open => \A g \in request[q].written : row[g] = "none" /\ g \notin aged
  BY <1>1 DEF Keeps
<1>4. ASSUME NEW dies \in BOOLEAN, RemoveUpload(f, dies) PROVE IInv'
  <2>1. /\ row[f] = "live" /\ about[f][2] = "upload" /\ row' = [row EXCEPT ![f] = "none"]
        /\ onDisk' = (IF dies THEN onDisk ELSE onDisk \ {f})
        /\ UNCHANGED <<about, locks, request, disowned>> /\ aged' = aged /\ layers' = layers
    BY <1>4 DEF RemoveUpload
  <2>2. row' \in [Files -> {"none", "live", "expired"}] /\ \A g \in Files : row'[g] = IF g = f THEN "none" ELSE row[g]
    BY <1>2, <2>1
  <2>3. onDisk' \subseteq onDisk /\ \A g \in onDisk : g # f => g \in onDisk'
    BY <2>1
  <2>4. layers' = {g \in Files : row'[g] = "live" /\ about[g][2] = "cog"}
    BY <1>2, <2>1, <2>2
  <2>5. \A q \in Requests : request[q].stage \in Open => \A g \in request[q].written : g # f
    BY <1>3, <2>1
  <2>6. QED
    BY <1>2, <2>1, <2>2, <2>3, <2>4, <2>5, FilesInv
<1>5. CASE RemoveLayer(f)
  <2>1. /\ f \in layers /\ layers' = layers \ {f} /\ row' = [row EXCEPT ![f] = "expired"]
        /\ UNCHANGED <<about, locks, request, disowned>> /\ aged' = aged /\ onDisk' = onDisk
    BY <1>5 DEF RemoveLayer, files
  <2>2. row' \in [Files -> {"none", "live", "expired"}] /\ \A g \in Files : row'[g] = IF g = f THEN "expired" ELSE row[g]
    BY <1>2, <2>1
  <2>3. layers' = {g \in Files : row'[g] = "live" /\ about[g][2] = "cog"} /\ row[f] = "live"
    BY <1>2, <2>1, <2>2
  <2>4. QED
    BY <1>2, <2>1, <2>2, <2>3, FilesInv
<1>6. CASE SweepFile(f)
  <2>1. /\ row[f] = "expired" /\ onDisk' = onDisk \ {f} /\ row' = row /\ layers' = layers
        /\ UNCHANGED <<about, locks, request, disowned>> /\ aged' = aged
    BY <1>6 DEF SweepFile, rows
  <2>2. \A q \in Requests : request[q].stage \in Open => \A g \in request[q].written : g # f
    BY <1>3, <2>1
  <2>3. QED
    BY <1>2, <2>1, <2>2, FilesInv
<1>7. CASE SweepRow(f)
  <2>1. /\ row[f] = "expired" /\ row' = [row EXCEPT ![f] = "none"] /\ layers' = layers
        /\ UNCHANGED <<about, locks, request, disowned>> /\ aged' = aged /\ onDisk' = onDisk
    BY <1>7 DEF SweepRow, files
  <2>2. row' \in [Files -> {"none", "live", "expired"}] /\ \A g \in Files : row'[g] = IF g = f THEN "none" ELSE row[g]
    BY <1>2, <2>1
  <2>3. layers' = {g \in Files : row'[g] = "live" /\ about[g][2] = "cog"}
    BY <1>2, <2>1, <2>2
  <2>4. QED
    BY <1>2, <2>1, <2>2, <2>3, FilesInv
<1>8. CASE GrowsOld(f)
  <2>1. /\ f \in onDisk /\ aged' = aged \cup {f} /\ row' = row /\ layers' = layers /\ onDisk' = onDisk
        /\ \A q \in Requests : f \in request[q].written => request[q].stage \in Ended
        /\ UNCHANGED <<about, locks, request, disowned>>
    BY <1>8 DEF GrowsOld, rows
  <2>2. \A q \in Requests : request[q].stage \in Open => f \notin request[q].written
    BY <2>1 DEF Open, Ended
  <2>3. QED
    BY <1>2, <2>1, <2>2, FilesInv
<1>9. QED
  BY <1>4, <1>5, <1>6, <1>7, <1>8

\* What the reconciliation may take is old and without a row: no request still counts on it.
LEMMA ReconcileInv == ASSUME IInv, Reconcile PROVE IInv'
<1>1. TypeOK /\ CogsMatchLayers /\ \A q \in Requests : Keeps(q)
  BY DEF IInv
<1>2. /\ row \in [Files -> {"none", "live", "expired"}] /\ layers = {g \in Files : row[g] = "live" /\ about[g][2] = "cog"}
      /\ onDisk \subseteq Files /\ aged \subseteq Files
  BY <1>1 DEF TypeOK, CogsMatchLayers
<1>3. \A q \in Requests : request[q].stage \in Open => \A g \in request[q].written : row[g] = "none" /\ g \notin aged
  BY <1>1 DEF Keeps
<1>4. PICK gone \in SUBSET {f \in onDisk : OldEnough(f) /\ row[f] = "none"} : onDisk' = onDisk \ gone
  BY DEF Reconcile
<1>5. UNCHANGED <<about, locks, request, disowned>> /\ row' = row /\ layers' = layers /\ aged' = aged
  BY DEF Reconcile, rows
<1>6. \A f \in gone : f \in aged /\ row[f] = "none"
  BY <1>4 DEF OldEnough
<1>7. QED
  BY <1>2, <1>3, <1>4, <1>5, <1>6, FilesInv

\* A request that failed, or was stopped, takes its own files back; none of them is a live row's, unless its
\* commit went through.
LEMMA UndoInv == ASSUME IInv, NEW r \in Requests, Undo(r) PROVE IInv'
<1>1. TypeOK /\ FreshIsNowhere /\ Apart /\ RowHasFile /\ CogsMatchLayers /\ QuotaKept
      /\ \A q \in Requests : Keeps(q)
  BY DEF IInv
<1> DEFINE new == [request[r] EXCEPT !.stage = "failed"]
<1>2. Goes(r, "failing", "failed") /\ onDisk' = onDisk \ request[r].written
      /\ UNCHANGED <<row, about, layers, aged, userLock, mapLock, disowned>>
  BY DEF Undo, rows, locks
<1>3. /\ request[r].stage = "failing" /\ new \in Request /\ request' = [request EXCEPT ![r] = new]
      /\ new.stage = "failed" /\ new.written = request[r].written
  BY <1>1, <1>2, GoesIs DEF Stages, Ended
<1> HIDE DEF new
<1>4. /\ request'[r] = new /\ \A q \in Requests \ {r} : request'[q] = request[q]
      /\ request' \in [Requests -> Request] /\ \A q \in Requests : request'[q].written = request[q].written
  BY <1>1, <1>3 DEF TypeOK, Request
<1>5. TypeOK' /\ FreshIsNowhere' /\ Apart' /\ CogsMatchLayers'
  BY <1>1, <1>2, <1>4 DEF TypeOK, FreshIsNowhere, Apart, CogsMatchLayers, Request
<1>6. RowHasFile'
  <2>1. \A f \in request[r].written : row[f] = "none" \/ f \in disowned
    BY <1>1, <1>3 DEF Keeps
  <2>2. QED
    BY <1>1, <1>2, <2>1 DEF RowHasFile
<1>7. \A u : Usage(u)' = Usage(u)
  BY <1>2 DEF Usage
<1>8. QuotaKept'
  BY <1>1, <1>7 DEF QuotaKept
<1>9. ASSUME NEW q \in Requests PROVE Keeps(q)'
  <2>1. CASE q = r
    BY <1>1, <1>2, <1>3, <1>4, <2>1 DEF Keeps, Open, Holding
  <2>2. CASE q # r
    <3>1. Keeps(q) /\ request[q].written \cap request[r].written = {}
      BY <1>1, <2>2 DEF Apart
    <3>2. QED
      BY <1>2, <1>4, <1>7, <2>2, <3>1 DEF Keeps
  <2>3. QED
    BY <2>1, <2>2
<1>10. QED
  BY <1>5, <1>6, <1>8, <1>9 DEF IInv

------------------------------------------------------------------------------
LEMMA InitInv == Init => IInv
<1> SUFFICES ASSUME Init PROVE IInv
  OBVIOUS
<1>1. /\ Sources \subseteq Files /\ <<MapOwner, "cog">> \in Users \X Kinds /\ Nothing \notin Users \X Kinds
      /\ <<MapOwner, "cog">>[1] = MapOwner /\ <<MapOwner, "cog">>[2] = "cog"
  BY FileStoreAssumption DEF Kinds
<1>2. TypeOK
  BY <1>1 DEF Init, TypeOK, Stages, Ended
<1>3. FreshIsNowhere
  BY <1>1 DEF Init, FreshIsNowhere
<1>4. \A r \in Requests : request[r].stage = "idle" /\ request[r].written = {}
  BY DEF Init
<1>5. Apart /\ \A r \in Requests : Keeps(r)
  BY <1>4 DEF Apart, Keeps, Open, Holding
<1>6. QuotaKept
  <2> SUFFICES ASSUME NEW u \in Users PROVE Usage(u) <= Quota
    BY DEF QuotaKept
  <2>1. Counted(u) \subseteq Sources /\ Counted(u) \in SUBSET Files
    BY <1>1 DEF Counted, Init
  <2>2. IsFiniteSet(Sources) /\ Cardinality(Sources) \in Nat /\ Cardinality(Counted(u)) \in Nat
    BY <1>1, <2>1, Finite
  <2>3. Cardinality(Counted(u)) <= Cardinality(Sources)
    BY <2>1, <2>2, FS_Subset
  <2>4. Cardinality(Sources) <= Quota
    BY FileStoreAssumption
  <2>5. QED
    BY <2>2, <2>3, <2>4, UsageIsCount, Finite
<1>7. RowHasFile /\ CogsMatchLayers
  BY <1>1 DEF Init, RowHasFile, CogsMatchLayers
<1>8. QED
  BY <1>2, <1>3, <1>5, <1>6, <1>7 DEF IInv

LEMMA NextInv == IInv /\ [Next]_vars => IInv'
<1> SUFFICES ASSUME IInv, [Next]_vars PROVE IInv'
  OBVIOUS
<1>1. CASE UNCHANGED vars
  <2>1. TypeOK /\ CogsMatchLayers
    BY DEF IInv
  <2>2. QED
    BY <1>1, <2>1, FilesInv DEF vars, rows, files, TypeOK, CogsMatchLayers
<1>2. ASSUME NEW r \in Requests, Runs(r) \/ Die(r) PROVE IInv'
  BY <1>2, BeginsInv, StagesInv, LockUserInv, CopyCogInv, CommitInv, UndoInv, DieInv DEF Runs
<1>3. ASSUME NEW f \in Files,
             \/ \E dies \in BOOLEAN : RemoveUpload(f, dies)
             \/ RemoveLayer(f) \/ SweepFile(f) \/ SweepRow(f) \/ GrowsOld(f)
      PROVE  IInv'
  BY <1>3, RemovalsInv
<1>4. CASE Reconcile
  BY <1>4, ReconcileInv
<1>5. QED
  BY <1>1, <1>2, <1>3, <1>4 DEF Next

(* What every step of the file store can rely on: ids belong to one request, its files are in the store and
   without a row until it commits, and what it counted stays true while it holds its user's row. *)
THEOREM FileInvariant == Spec => []IInv
  BY InitInv, NextInv, PTL DEF Spec

(* Rows, files and requests keep their types. *)
THEOREM FilesTypeCorrect == Spec => []TypeOK
<1>1. IInv => TypeOK
  BY DEF IInv
<1>2. QED
  BY <1>1, FileInvariant, PTL

(* The quota holds for any number of uploads, copies and imports that check it at the same time. *)
THEOREM QuotaKeptHolds == Spec => []QuotaKept
<1>1. IInv => QuotaKept
  BY DEF IInv
<1>2. QED
  BY <1>1, FileInvariant, PTL

(* A live row has its file, whatever fails, dies, is swept or reconciled beside it; the exceptions are a
   COMMIT whose answer was lost and an import whose worker was stopped after its COMMIT. *)
THEOREM RowHasFileHolds == Spec => []RowHasFile
<1>1. IInv => RowHasFile
  BY DEF IInv
<1>2. QED
  BY <1>1, FileInvariant, PTL

(* The COGs that count are exactly the ones a layer shows. *)
THEOREM CogsMatchLayersHolds == Spec => []CogsMatchLayers
<1>1. IInv => CogsMatchLayers
  BY DEF IInv
<1>2. QED
  BY <1>1, FileInvariant, PTL

===============================================================================
