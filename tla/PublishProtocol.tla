--------------------------- MODULE PublishProtocol ---------------------------
(***************************************************************************)
(* The transactions that write one layer's versions, statement by          *)
(* statement, on PostgreSQL row locks under READ COMMITTED:                *)
(*   - a direct write opens a draft, applies one operation, publishes it;  *)
(*   - a draft editor changes a durable draft;                             *)
(*   - a load replaces the layer's base content.                           *)
(* A statement reads its snapshot when it begins.  A locking statement     *)
(* then waits for the row, locks it, and only then re-checks its WHERE on  *)
(* the row as it is: a row that no longer qualifies is dropped from the    *)
(* result, and stays locked.  A cycle of waiting transactions is broken by *)
(* the server's deadlock detector.  What the rows say is in VersionStore;  *)
(* retention removes nothing within these bounds (fewer than four loads),  *)
(* so of pruneVersions the locking statement is left.                      *)
(***************************************************************************)
EXTENDS Integers, RowLocks

CONSTANTS
    Writers,     \* direct writes
    Editors,     \* operations on the durable draft
    Loads,       \* loads with new content
    Superseding, \* the loads run with --supersede-edits
    Creating,    \* the writes and edits that mint an external_id
    Base,        \* the layer's stored versions at the start, all loads
    FirstActive, \* the active one of them
    TheDraft,    \* a durable draft of the layer
    Casts,       \* the sets of transactions that may run together; the others never begin
    None

Tx      == Writers \cup Editors \cup Loads
Version == Base \cup {TheDraft} \cup Writers \cup Loads   \* a transaction's version carries its name
Attempts == 3

ASSUME ParticipantsAssumption ==
    /\ FirstActive \in Base
    /\ Superseding \subseteq Loads
    /\ Creating \subseteq Writers \cup Editors
    /\ None \notin Tx \cup Version
    /\ Casts # {} /\ \A cast \in Casts : cast \subseteq Tx

\* A transaction is of one kind, and neither a stored version nor the draft is one that it publishes.
ASSUME IdentitiesAssumption ==
    /\ Writers \cap Editors = {} /\ Writers \cap Loads = {} /\ Editors \cap Loads = {}
    /\ Base \cap Tx = {}
    /\ TheDraft \notin Base \cup Writers \cup Loads
    /\ None \notin Version \X Modes

VARIABLES
    active,    \* the version with is_active, as committed
    published, \* the committed versions that are not drafts
    parent,    \* parent_version_id of a write's own version, as its transaction sees it
    locks,     \* granted row locks: <<transaction, version, mode>>
    advisory,  \* holder of the external_id advisory lock, or None
    ids,       \* minted external ids: <<transaction, number>>, of open or committed transactions
    labels,    \* "version N" labels: <<load, N>>, of open or committed loads
    pc,        \* where each transaction is
    want,      \* the row lock its current statement waits for: <<version, mode>>, or None
    todo,      \* rows a locking scan has still to visit
    tries,     \* attempts of lockActiveRow
    cleared    \* the version whose is_active the transaction cleared, or None

vars == <<active, published, parent, locks, advisory, ids, labels, pc, want, todo, tries, cleared>>

-----------------------------------------------------------------------------
(* Row locks *)

\* The unique index makes a second activation wait for the first one's transaction.
Activating(t) == {u \in Tx \ {t} : cleared[u] # None /\ pc[u] \in {"prune", "scanPrune", "commit"}}

\* The transactions t cannot go on without.
WaitsFor(t) ==
    CASE want[t] # None                        -> HoldersAgainst(locks, t, want[t][1], want[t][2])
      [] want[t] = None /\ pc[t] = "mint"      -> {advisory} \ {None, t}
      [] want[t] = None /\ pc[t] = "activate"  -> Activating(t)
      [] OTHER                                 -> {}

InCycle(t) == WaitsFor(t) # {} /\ t \in Behind([u \in Tx |-> WaitsFor(u)], t)

-----------------------------------------------------------------------------
Goto(t, label) == pc' = [pc EXCEPT ![t] = label]

\* Begin a statement that locks row v and then goes to `label'.
Request(t, v, mode, label) ==
    /\ want' = [want EXCEPT ![t] = <<v, mode>>]
    /\ Goto(t, label)

\* The row t waits for is granted to it; the rest of the statement is the action's.
Granted(t) ==
    /\ want[t] # None
    /\ WaitsFor(t) = {}
    /\ locks' = locks \cup {<<t, want[t][1], want[t][2]>>}
    /\ want' = [want EXCEPT ![t] = None]

\* Mutant of End: the advisory lock is held by the session and outlives the transaction.
EndKeepingAdvisory(t, outcome) ==
    /\ Goto(t, outcome)
    /\ locks' = {l \in locks : l[1] # t}
    /\ want' = [want EXCEPT ![t] = None]
    /\ todo' = [todo EXCEPT ![t] = {}]
    /\ UNCHANGED advisory

End(t, outcome) ==
    /\ Goto(t, outcome)
    /\ locks' = {l \in locks : l[1] # t}
    /\ advisory' = IF advisory = t THEN None ELSE advisory
    /\ want' = [want EXCEPT ![t] = None]
    /\ todo' = [todo EXCEPT ![t] = {}]

\* ROLLBACK, with what the caller is told.
Abort(t, outcome) ==
    /\ End(t, outcome)
    /\ ids' = {i \in ids : i[1] # t}
    /\ labels' = {l \in labels : l[1] # t}
    /\ cleared' = [cleared EXCEPT ![t] = None]
    /\ UNCHANGED <<active, published, parent, tries>>

-----------------------------------------------------------------------------
(* A direct write: openDraft, one operation, publishDraft *)

\* openDraft reads the active version; inserting the draft takes the foreign key's lock on its parent.
OpenDraft(t) ==
    /\ t \in Writers /\ pc[t] = "start"
    /\ parent' = [parent EXCEPT ![t] = active]
    /\ Request(t, active, "KEY SHARE", "insert")
    /\ UNCHANGED <<active, published, locks, advisory, ids, labels, todo, tries, cleared>>

InsertDraft(t) ==
    /\ pc[t] = "insert"
    /\ Granted(t)
    /\ Goto(t, IF t \in Creating THEN "mint" ELSE "lockActive")
    /\ UNCHANGED <<active, published, parent, advisory, ids, labels, todo, tries, cleared>>

\* max + 1 over the numbers that committed transactions have given.
NextNumber(given) ==
    LET visible == {g[2] : g \in {h \in given : pc[h[1]] = "done"}}
    IN  CHOOSE n \in {m + 1 : m \in visible \cup {0}} : \A m \in visible : m < n

\* Mutant of MintExternalId: no advisory lock.
MintUnlocked(t) ==
    /\ pc[t] = "mint"
    /\ ids' = ids \cup {<<t, NextNumber(ids)>>}
    /\ Goto(t, IF t \in Editors THEN "commit" ELSE "lockActive")
    /\ UNCHANGED <<active, published, parent, locks, advisory, labels, want, todo, tries, cleared>>

\* mintExternalId: the advisory lock, then the highest id any row carries, plus one.
MintExternalId(t) ==
    /\ pc[t] = "mint"
    /\ advisory = None
    /\ advisory' = t
    /\ ids' = ids \cup {<<t, NextNumber(ids)>>}
    /\ Goto(t, IF t \in Editors THEN "commit" ELSE "lockActive")
    /\ UNCHANGED <<active, published, parent, locks, labels, want, todo, tries, cleared>>

\* lockActiveRow: one attempt begins on the version its snapshot sees.
LockActive(t) ==
    /\ pc[t] = "lockActive" /\ want[t] = None
    /\ IF tries[t] < Attempts
       THEN /\ Request(t, active, "NO KEY UPDATE", "lockActive")
            /\ tries' = [tries EXCEPT ![t] = @ + 1]
            /\ UNCHANGED <<active, published, parent, locks, advisory, ids, labels, todo, cleared>>
       ELSE Abort(t, "stale")

\* The row is locked: it is the active one still, or the attempt came back empty.
ActiveLocked(t) ==
    /\ pc[t] = "lockActive"
    /\ Granted(t)
    /\ Goto(t, IF want[t][1] = active THEN "rebase" ELSE "lockActive")
    /\ UNCHANGED <<active, published, parent, advisory, ids, labels, todo, tries, cleared>>

\* Mutant of Rebase: the draft goes live on the version it was opened on.
RebaseSkipped(t) ==
    /\ pc[t] = "rebase"
    /\ Goto(t, "clear")
    /\ UNCHANGED <<active, published, parent, locks, advisory, ids, labels, want, todo, tries, cleared>>

\* rebaseDraft: nothing to do, no conflict, or a conflict that refuses the publish; then the guard.
Rebase(t) ==
    /\ pc[t] = "rebase"
    /\ parent' = [parent EXCEPT ![t] = active]
    /\ Goto(t, "clear")
    /\ UNCHANGED <<active, published, locks, advisory, ids, labels, want, todo, tries, cleared>>

Refuse(t) ==
    /\ pc[t] = "rebase"
    /\ Abort(t, "refused")

-----------------------------------------------------------------------------
(* activate and pruneVersions, for a write and for a load *)

ClearActive(t) ==
    /\ pc[t] = "clear" /\ want[t] = None
    /\ Request(t, active, "NO KEY UPDATE", "clear")
    /\ UNCHANGED <<active, published, parent, locks, advisory, ids, labels, todo, tries, cleared>>

ActiveCleared(t) ==
    /\ pc[t] = "clear"
    /\ Granted(t)
    /\ cleared' = [cleared EXCEPT ![t] = IF want[t][1] = active THEN active ELSE None]
    /\ Goto(t, "activate")
    /\ UNCHANGED <<active, published, parent, advisory, ids, labels, todo, tries>>

\* Set is_active: the index accepts it unless another version is active that t did not clear.
SetActive(t) ==
    /\ pc[t] = "activate"
    /\ WaitsFor(t) = {}
    /\ IF cleared[t] = active
       THEN /\ Goto(t, "prune")
            /\ UNCHANGED <<active, published, parent, locks, advisory, ids, labels, want, todo, tries, cleared>>
       ELSE Abort(t, "unique")

\* Mutant of ScanRows: drafts are locked as well.
ScanRowsAndDrafts(t) == published \cup {TheDraft}

\* Both scans lock, in any order, the versions that are not drafts in their snapshot.
ScanRows(t) == published

\* Mutant of BeginScan: a load looks at the active chain without locking anything.
BeginWithoutScan(t) ==
    /\ \/ t \in Loads /\ pc[t] = "start" /\ Goto(t, "examine") /\ UNCHANGED todo
       \/ pc[t] = "prune" /\ Goto(t, "scanPrune") /\ todo' = [todo EXCEPT ![t] = ScanRows(t)]
    /\ UNCHANGED <<active, published, parent, locks, advisory, ids, labels, want, tries, cleared>>

BeginScan(t) ==
    /\ \/ t \in Loads /\ pc[t] = "start" /\ Goto(t, "scan")
       \/ pc[t] = "prune" /\ Goto(t, "scanPrune")
    /\ todo' = [todo EXCEPT ![t] = ScanRows(t)]
    /\ UNCHANGED <<active, published, parent, locks, advisory, ids, labels, want, tries, cleared>>

ScanMode(t) == IF pc[t] = "scan" THEN "UPDATE" ELSE "NO KEY UPDATE"

VisitRow(t, v) ==
    /\ pc[t] \in {"scan", "scanPrune"} /\ want[t] = None
    /\ v \in todo[t]
    /\ todo' = [todo EXCEPT ![t] = @ \ {v}]
    /\ Request(t, v, ScanMode(t), pc[t])
    /\ UNCHANGED <<active, published, parent, locks, advisory, ids, labels, tries, cleared>>

RowLocked(t) ==
    /\ pc[t] \in {"scan", "scanPrune"}
    /\ Granted(t)
    /\ Goto(t, IF todo[t] # {} THEN pc[t] ELSE IF pc[t] = "scan" THEN "relock" ELSE "commit")
    /\ UNCHANGED <<active, published, parent, advisory, ids, labels, todo, tries, cleared>>

\* A version that went live is committed: its row, the pointer and the cleared flag at once.
Commit(t) ==
    /\ pc[t] = "commit"
    /\ IF t \in Editors \/ cleared[t] = None THEN UNCHANGED <<active, published>>
       ELSE active' = t /\ published' = published \cup {t}
    /\ End(t, "done")
    /\ cleared' = [cleared EXCEPT ![t] = None]
    /\ UNCHANGED <<parent, ids, labels, tries>>

-----------------------------------------------------------------------------
(* A load *)

\* The active row again, in a statement of its own and in one attempt.
RelockActive(t) ==
    /\ pc[t] = "relock" /\ want[t] = None
    /\ Request(t, active, "UPDATE", "relock")
    /\ UNCHANGED <<active, published, parent, locks, advisory, ids, labels, todo, tries, cleared>>

ActiveRelocked(t) ==
    /\ pc[t] = "relock"
    /\ Granted(t)
    /\ Goto(t, "examine")
    /\ UNCHANGED <<active, published, parent, advisory, ids, labels, todo, tries, cleared>>

\* Unchanged content goes straight to retention; edits on top stop a load that may not supersede them.
ExamineChain(t) ==
    /\ pc[t] = "examine"
    /\ \/ /\ Goto(t, "prune")
          /\ UNCHANGED <<active, published, parent, locks, advisory, ids, labels, want, todo, tries, cleared>>
       \/ /\ active \notin Writers \/ t \in Superseding
          /\ Goto(t, "clear")
          /\ labels' = labels \cup {<<t, NextNumber(labels)>>}
          /\ UNCHANGED <<active, published, parent, locks, advisory, ids, want, todo, tries, cleared>>
       \/ /\ active \in Writers /\ t \notin Superseding
          /\ Abort(t, "edits on top")

-----------------------------------------------------------------------------
(* A draft editor *)

LockDraft(t) ==
    /\ t \in Editors /\ pc[t] = "start"
    /\ Request(t, TheDraft, "UPDATE", "edit")
    /\ UNCHANGED <<active, published, parent, locks, advisory, ids, labels, todo, tries, cleared>>

DraftLocked(t) ==
    /\ pc[t] = "edit"
    /\ Granted(t)
    /\ Goto(t, IF t \in Creating THEN "mint" ELSE "commit")
    /\ UNCHANGED <<active, published, parent, advisory, ids, labels, todo, tries, cleared>>

-----------------------------------------------------------------------------
\* The server aborts one transaction of a cycle of waiting ones.
BreakDeadlock(t) ==
    /\ InCycle(t)
    /\ Abort(t, "deadlock")

Ended == {"done", "stale", "refused", "unique", "edits on top", "deadlock"}

Init ==
    /\ active = FirstActive
    /\ published = Base
    /\ parent = [t \in Tx |-> None]
    /\ locks = {}
    /\ advisory = None
    /\ ids = {}
    /\ labels = {}
    /\ \E cast \in Casts : pc = [t \in Tx |-> IF t \in cast THEN "start" ELSE "done"]
    /\ want = [t \in Tx |-> None]
    /\ todo = [t \in Tx |-> {}]
    /\ tries = [t \in Tx |-> 0]
    /\ cleared = [t \in Tx |-> None]

Statement(t) ==
    \/ OpenDraft(t) \/ InsertDraft(t) \/ MintExternalId(t)
    \/ LockActive(t) \/ ActiveLocked(t) \/ Rebase(t) \/ Refuse(t)
    \/ ClearActive(t) \/ ActiveCleared(t) \/ SetActive(t)
    \/ BeginScan(t) \/ (\E v \in Version : VisitRow(t, v)) \/ RowLocked(t) \/ Commit(t)
    \/ RelockActive(t) \/ ActiveRelocked(t) \/ ExamineChain(t)
    \/ LockDraft(t) \/ DraftLocked(t)

Next == \E t \in Tx : Statement(t) \/ BreakDeadlock(t)

Spec == Init /\ [][Next]_vars

\* A connected client sends its next statement, a free lock is granted, the detector runs.
FairSpec == Spec /\ \A t \in Tx : WF_vars(Statement(t)) /\ WF_vars(BreakDeadlock(t))

-----------------------------------------------------------------------------
(* Properties *)

\* A published edit is built on the very version it replaces: no version that went live in between is
\* dropped from the active chain.
PublishesOnTop ==
    [][\A t \in Writers : active' = t /\ active # t => parent[t] = active]_vars

\* A load that was not told to supersede edits replaces only a load: no edit published while it ran is
\* deactivated by it, unseen by the check it made before reading its files.
LoadNeverHidesEdit ==
    [][\A t \in Loads \ Superseding : active' = t => active \notin Writers]_vars

\* A draft editor is never in a deadlock, although it holds its draft and may wait for the external_id
\* lock of a publishing write: retention.ts and loadGeojson.ts leave drafts out of their scans for this.
EditorNeverInDeadlock == \A t \in Editors : ~InCycle(t)

\* No two transactions ever carry the same minted external_id, open or committed: the resolver would
\* silently drop one of the two features.
MintedOnce == \A i, j \in ids : i[2] = j[2] => i[1] = j[1]

\* No two loads of the layer ever carry the same "version N" label.
LabelledOnce == \A k, l \in labels : k[2] = l[2] => k[1] = l[1]

\* Both numbers are one above the highest that is stored or being written, and no unique constraint
\* stands behind either: only the locks taken before the highest is read keep them apart.
NumberedOnce == MintedOnce /\ LabelledOnce

\* Every transaction ends: no lock outlives its transaction and no attempt is repeated forever.
EveryTransactionEnds == \A t \in Tx : <>(pc[t] \in Ended)

\* The numbers that committed transactions have given.
Committed(given) == {g[2] : g \in {h \in given : pc[h[1]] = "done"}}

\* However their statements interleave, the transactions take effect one after another, each when it
\* commits: serializable publishing, from READ COMMITTED and the row locks.
Serial == INSTANCE SerialPublishing
            WITH builtOn <- {<<t, parent[t]>> : t \in Writers \cap published},
                 identified <- Committed(ids), labelled <- Committed(labels)
ImplementsSerialPublishing == Serial!Spec
=============================================================================
