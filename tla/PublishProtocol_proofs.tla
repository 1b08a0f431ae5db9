------------------------ MODULE PublishProtocol_proofs ------------------------
(***************************************************************************)
(* Proofs about PublishProtocol, for any number of direct writes, draft    *)
(* editors and loads, any stored versions and any choice of who runs       *)
(* together.  The argument is ownership of rows: a transaction that is     *)
(* about to replace the active version, or that has examined it, holds the *)
(* row in a mode nobody else who would replace it can hold.                *)
(*                                                                         *)
(* The last part is about RiverHierarchy, the build that every such        *)
(* transaction runs before it commits, for any network, ways, courses and  *)
(* drafts and any number of versions.  What a build derives depends on the *)
(* content of the rows only, and what it writes is what the version then   *)
(* resolves to; so every version is current.                               *)
(***************************************************************************)
EXTENDS PublishProtocol, RiverHierarchy, TLAPS, FiniteSetTheorems, WellFoundedInduction

\* The labels each kind of transaction goes through.
Activation == {"clear", "activate", "prune", "scanPrune", "commit"}
WriterLabels == {"start", "insert", "mint", "lockActive", "rebase"} \cup Activation \cup Ended
LoadLabels == {"start", "scan", "relock", "examine"} \cup Activation \cup Ended
EditorLabels == {"start", "edit", "mint", "commit"} \cup Ended
Labels == WriterLabels \cup LoadLabels \cup EditorLabels

TypeOK ==
    /\ Base \subseteq published /\ published \subseteq Version \ {TheDraft}
    /\ active \in published
    /\ parent \in [Tx -> Version \cup {None}]
    /\ locks \subseteq Tx \X Version \X Modes
    /\ advisory \in Tx \cup {None}
    /\ ids \subseteq Tx \X Nat /\ labels \subseteq Tx \X Nat
    /\ pc \in [Tx -> Labels]
    /\ want \in [Tx -> (Version \X Modes) \cup {None}]
    /\ todo \in [Tx -> SUBSET (Version \ {TheDraft})]
    /\ tries \in [Tx -> 0 .. Attempts]
    /\ cleared \in [Tx -> Version \cup {None}]

\* A transaction is where its kind goes, and waits for the rows and modes of that place.
InPlace(t) ==
    /\ t \in Writers => pc[t] \in WriterLabels
    /\ t \in Loads => pc[t] \in LoadLabels
    /\ t \in Editors => pc[t] \in EditorLabels
    /\ want[t] # None =>
          /\ pc[t] \in {"insert", "lockActive", "clear", "scan", "scanPrune", "relock", "edit"}
          /\ pc[t] \in {"lockActive", "clear"} => want[t][2] = "NO KEY UPDATE"
          /\ pc[t] \in {"scan", "relock"} => want[t][2] = "UPDATE"
          /\ pc[t] = "edit" <=> want[t][1] = TheDraft
    /\ cleared[t] # None => pc[t] \in Activation \ {"clear"}

\* Only editors lock the draft, and nothing else; one that has the external_id lock waits for nothing.
Apart ==
    /\ \A l \in locks : /\ l[1] \in Editors <=> l[2] = TheDraft
                        /\ l[1] \in Editors => pc[l[1]] \in {"mint", "commit"}
    /\ advisory \in Editors => pc[advisory] = "commit"
    /\ \A t \in Editors : cleared[t] = None

\* No two transactions hold a row in modes that exclude each other.
Compatible == \A k, l \in locks : k[2] = l[2] /\ <<k[3], l[3]>> \in Conflicting => k[1] = l[1]

\* A load that is past its scan owns the stored versions, so loads are past it one at a time.
Scanned(t) ==
    /\ pc[t] = "scan" => \/ FirstActive \in todo[t]
                         \/ want[t] = <<FirstActive, "UPDATE">>
                         \/ <<t, FirstActive, "UPDATE">> \in locks
    /\ pc[t] \in {"relock", "examine"} \cup Activation => <<t, FirstActive, "UPDATE">> \in locks

\* A transaction that is about to activate a version has locked the one it replaces.
Clearing(t) ==
    /\ cleared[t] # None => <<t, cleared[t], "NO KEY UPDATE">> \in locks
    /\ cleared[t] # None /\ pc[t] # "activate" => cleared[t] = active

\* A write holds the active version from the lock it rebases under to its commit.
OnTop(t) ==
    /\ pc[t] \in {"rebase"} \cup Activation => <<t, active, "NO KEY UPDATE">> \in locks
    /\ pc[t] \in Activation => parent[t] = active

\* The version a load examined is still active, or an edit went live that it will find.
Examined(t) ==
    /\ pc[t] = "relock" /\ want[t] # None => active \in Writers \/ want[t] = <<active, "UPDATE">>
    /\ pc[t] = "examine" => active \in Writers \/ <<t, active, "UPDATE">> \in locks
    /\ pc[t] \in {"clear", "activate"} \/ cleared[t] # None =>
          t \in Superseding \/ (active \notin Writers /\ <<t, active, "UPDATE">> \in locks)

\* Committed numbers have no gap, and the one being written, by the holder of the lock, is the next.
Numbers(given, writing) ==
    \E n \in Nat :
       /\ {g[2] : g \in {h \in given : pc[h[1]] = "done"}} = 1 .. n
       /\ \A g \in given : pc[g[1]] = "done" \/ (g[2] = n + 1 /\ g[1] \in writing)

Labelling == {t \in Loads : pc[t] \in Activation}

IInv ==
    /\ TypeOK
    /\ \A t \in Tx : InPlace(t) /\ Clearing(t)
    /\ \A t \in Writers : OnTop(t)
    /\ \A t \in Loads : Scanned(t) /\ Examined(t)
    /\ Apart /\ Compatible
    /\ Numbers(ids, {advisory}) /\ Numbers(labels, Labelling)
    /\ NumberedOnce

-----------------------------------------------------------------------------
(* One step *)

\* A step of t leaves the other transactions, their locks and their numbers alone.
Others(t) ==
    /\ \A u \in Tx \ {t} : /\ pc'[u] = pc[u] /\ want'[u] = want[u] /\ todo'[u] = todo[u]
                           /\ cleared'[u] = cleared[u] /\ parent'[u] = parent[u]
    /\ \A l : l[1] # t => (l \in locks' <=> l \in locks)

\* What ending a transaction does.
LEMMA AbortEffect ==
    ASSUME TypeOK, NEW t \in Tx, NEW outcome, Abort(t, outcome)
    PROVE  /\ pc' = [pc EXCEPT ![t] = outcome] /\ want' = [want EXCEPT ![t] = None]
           /\ todo' = [todo EXCEPT ![t] = {}] /\ cleared' = [cleared EXCEPT ![t] = None]
           /\ locks' = {l \in locks : l[1] # t}
           /\ advisory' = IF advisory = t THEN None ELSE advisory
           /\ ids' = {i \in ids : i[1] # t} /\ labels' = {l \in labels : l[1] # t}
           /\ UNCHANGED <<active, published, parent, tries>>
  BY DEF Abort, End, Goto

\* Locks are granted one at a time, to a transaction that waits for nobody, or given back all at once.
LEMMA LocksStep ==
    ASSUME TypeOK, NEW t \in Tx, Statement(t) \/ BreakDeadlock(t)
    PROVE  \/ locks' = locks
           \/ locks' = {l \in locks : l[1] # t}
           \/ Granted(t)
<1>1. ASSUME OpenDraft(t) \/ MintExternalId(t) \/ Rebase(t) \/ ClearActive(t) \/ BeginScan(t) \/ RelockActive(t)
             \/ LockDraft(t)
      PROVE  locks' = locks
  BY <1>1 DEF OpenDraft, MintExternalId, Rebase, ClearActive, BeginScan, RelockActive, LockDraft
<1>2. ASSUME InsertDraft(t) \/ ActiveLocked(t) \/ ActiveCleared(t) \/ RowLocked(t) \/ ActiveRelocked(t) \/ DraftLocked(t)
      PROVE  Granted(t)
  BY <1>2 DEF InsertDraft, ActiveLocked, ActiveCleared, RowLocked, ActiveRelocked, DraftLocked
<1>3. ASSUME NEW outcome, Abort(t, outcome) PROVE locks' = {l \in locks : l[1] # t}
  BY <1>3, AbortEffect
<1>4. ASSUME Refuse(t) \/ BreakDeadlock(t) PROVE locks' = {l \in locks : l[1] # t}
  BY <1>3, <1>4 DEF Refuse, BreakDeadlock
<1>5. ASSUME LockActive(t) \/ SetActive(t) \/ ExamineChain(t)
      PROVE  locks' = locks \/ locks' = {l \in locks : l[1] # t}
  BY <1>3, <1>5 DEF LockActive, SetActive, ExamineChain
<1>6. ASSUME NEW v \in Version, VisitRow(t, v) PROVE locks' = locks
  BY <1>6 DEF VisitRow
<1>7. ASSUME Commit(t) PROVE locks' = {l \in locks : l[1] # t}
  BY <1>7 DEF Commit, End
<1>8. QED
  BY <1>1, <1>2, <1>4, <1>5, <1>6, <1>7 DEF Statement

\* A step of t leaves the other transactions and their locks alone.
LEMMA OthersStay ==
    ASSUME TypeOK, NEW t \in Tx, Statement(t) \/ BreakDeadlock(t)
    PROVE  Others(t)
<1>1. \A l : l[1] # t => (l \in locks' <=> l \in locks)
  <2>1. ASSUME Granted(t), NEW l, l[1] # t PROVE l \in locks' <=> l \in locks
    BY <2>1 DEF Granted
  <2>2. QED
    BY <2>1, LocksStep
<1>2. ASSUME NEW outcome, Abort(t, outcome) PROVE Others(t)
  BY <1>1, <1>2, AbortEffect DEF Others, TypeOK
<1> USE <1>1 DEF Others, TypeOK, Goto
<1>3. ASSUME OpenDraft(t) \/ ClearActive(t) \/ RelockActive(t) \/ LockDraft(t) PROVE Others(t)
  BY <1>3 DEF OpenDraft, ClearActive, RelockActive, LockDraft, Request
<1>4. ASSUME MintExternalId(t) \/ Rebase(t) \/ BeginScan(t) PROVE Others(t)
  BY <1>4 DEF MintExternalId, Rebase, BeginScan
<1>5. ASSUME InsertDraft(t) \/ ActiveLocked(t) \/ RowLocked(t) \/ ActiveRelocked(t) \/ DraftLocked(t) PROVE Others(t)
  BY <1>5 DEF InsertDraft, ActiveLocked, RowLocked, ActiveRelocked, DraftLocked, Granted
<1>6. ASSUME ActiveCleared(t) PROVE Others(t)
  BY <1>6 DEF ActiveCleared, Granted
<1>7. ASSUME Refuse(t) \/ BreakDeadlock(t) PROVE Others(t)
  BY <1>2, <1>7 DEF Refuse, BreakDeadlock
<1>8. ASSUME LockActive(t) PROVE Others(t)
  BY <1>2, <1>8 DEF LockActive, Request
<1>9. ASSUME SetActive(t) PROVE Others(t)
  BY <1>2, <1>9 DEF SetActive
<1>10. ASSUME ExamineChain(t) PROVE Others(t)
  BY <1>2, <1>10 DEF ExamineChain
<1>11. ASSUME NEW v \in Version, VisitRow(t, v) PROVE Others(t)
  BY <1>11 DEF VisitRow, Request
<1>12. ASSUME Commit(t) PROVE Others(t)
  BY <1>12 DEF Commit, End
<1>13. QED
  BY <1>3, <1>4, <1>5, <1>6, <1>7, <1>8, <1>9, <1>10, <1>11, <1>12 DEF Statement

\* The active version changes only when a transaction commits that has cleared one.
LEMMA ActiveStep ==
    ASSUME NEW t \in Tx, Statement(t) \/ BreakDeadlock(t)
    PROVE  \/ active' = active /\ published' = published
           \/ /\ Commit(t) /\ t \notin Editors /\ pc[t] = "commit" /\ cleared[t] # None
              /\ active' = t /\ published' = published \cup {t}
<1>1. ASSUME NEW outcome, Abort(t, outcome) PROVE active' = active /\ published' = published
  BY <1>1 DEF Abort
<1>2. ASSUME NEW v \in Version, VisitRow(t, v) PROVE active' = active /\ published' = published
  BY <1>2 DEF VisitRow
<1>3. ASSUME Statement(t) \/ BreakDeadlock(t), ~Commit(t), \A v \in Version : ~VisitRow(t, v)
      PROVE  active' = active /\ published' = published
  BY <1>1, <1>3 DEF Statement, BreakDeadlock, OpenDraft, MintExternalId, Rebase, ClearActive, BeginScan, RelockActive,
     LockDraft, InsertDraft, ActiveLocked, ActiveCleared, RowLocked, ActiveRelocked, DraftLocked, Refuse,
     LockActive, SetActive, ExamineChain
<1>4. ASSUME Commit(t)
      PROVE  \/ active' = active /\ published' = published
             \/ /\ t \notin Editors /\ pc[t] = "commit" /\ cleared[t] # None
                /\ active' = t /\ published' = published \cup {t}
  BY <1>4 DEF Commit
<1>5. QED
  BY <1>2, <1>3, <1>4

-----------------------------------------------------------------------------
(* Types and places *)

\* The next number is a number.
LEMMA NextNumberStep ==
    ASSUME NEW given, given \subseteq Tx \X Nat, NEW lockHolders, Numbers(given, lockHolders),
           \A g \in given : pc[g[1]] # "done" => g[1] \notin lockHolders
    PROVE  \E n \in Nat : /\ {g[2] : g \in given} = 1 .. n
                          /\ \A g \in given : pc[g[1]] = "done"
                          /\ NextNumber(given) = n + 1
<1>1. PICK n \in Nat :
         /\ {g[2] : g \in {h \in given : pc[h[1]] = "done"}} = 1 .. n
         /\ \A g \in given : pc[g[1]] = "done" \/ (g[2] = n + 1 /\ g[1] \in lockHolders)
  BY DEF Numbers
<1>2. \A g \in given : pc[g[1]] = "done"
  BY <1>1
<1>3. {h \in given : pc[h[1]] = "done"} = given
  BY <1>2
<1> DEFINE visible == {g[2] : g \in {h \in given : pc[h[1]] = "done"}}
           next(k) == k \in {m + 1 : m \in visible \cup {0}} /\ \A m \in visible : m < k
<1>4. visible = 1 .. n
  BY <1>1
<1> HIDE DEF visible
<1>5. next(n + 1)
  <2>1. n \in visible \cup {0}
    BY <1>4
  <2>2. \A m \in visible : m < n + 1
    BY <1>4
  <2>3. QED
    BY <2>1, <2>2
<1>6. ASSUME NEW k, next(k) PROVE k = n + 1
  <2>1. PICK m \in visible \cup {0} : k = m + 1
    BY <1>6
  <2>2. m \in 0 .. n
    BY <1>4, <2>1
  <2>3. n \in visible => n < k
    BY <1>6
  <2>4. n # 0 => n \in visible
    BY <1>4
  <2>5. QED
    BY <2>1, <2>2, <2>3, <2>4
<1>7. NextNumber(given) = CHOOSE k \in {m + 1 : m \in visible \cup {0}} : \A m \in visible : m < k
  BY DEF NextNumber, visible
<1>8. NextNumber(given) = n + 1
  <2>1. next(CHOOSE k \in {m + 1 : m \in visible \cup {0}} : \A m \in visible : m < k)
    BY <1>5
  <2>2. QED
    BY <1>6, <1>7, <2>1
<1>9. QED
  BY <1>1, <1>2, <1>3, <1>8

\* Every variable keeps its type.
LEMMA TypeStep ==
    ASSUME TypeOK, NEW t \in Tx, Statement(t) \/ BreakDeadlock(t),
           MintExternalId(t) => NextNumber(ids) \in Nat, ExamineChain(t) => NextNumber(labels) \in Nat
    PROVE  TypeOK'
<1> USE DEF TypeOK
<1>0. /\ locks' \subseteq Tx \X Version \X Modes
      /\ Base \subseteq published' /\ published' \subseteq Version \ {TheDraft} /\ active' \in published'
  <2>1. Base \subseteq published' /\ published' \subseteq Version \ {TheDraft} /\ active' \in published'
    BY ActiveStep, IdentitiesAssumption DEF Tx, Version
  <2>2. ASSUME Granted(t) PROVE locks' \subseteq Tx \X Version \X Modes
    BY <2>2 DEF Granted
  <2>3. QED
    BY <2>1, <2>2, LocksStep
<1>1. ASSUME NEW outcome \in Ended, Abort(t, outcome) PROVE TypeOK'
  <2>1. outcome \in Labels
    BY DEF WriterLabels, Labels
  <2>2. QED
    BY <1>0, <1>1, <2>1, AbortEffect
<1>2. ASSUME NEW v \in Version, NEW mode \in Modes, NEW label \in Labels, Request(t, v, mode, label)
      PROVE  pc' \in [Tx -> Labels] /\ want' \in [Tx -> (Version \X Modes) \cup {None}]
  BY <1>2 DEF Request, Goto
<1>3. active \in Version /\ TheDraft \in Version
  BY DEF Version
<1>4. ASSUME NEW label \in Labels, Goto(t, label) PROVE pc' \in [Tx -> Labels]
  BY <1>4 DEF Goto
<1>5. ASSUME Granted(t) PROVE want' \in [Tx -> (Version \X Modes) \cup {None}]
  BY <1>5 DEF Granted
<1>6. \A label \in Ended \cup Activation \cup {"start", "insert", "mint", "lockActive", "rebase", "scan", "relock",
                                              "examine", "edit"} : label \in Labels
  BY DEF Labels, WriterLabels, LoadLabels, EditorLabels
<1>11. ASSUME OpenDraft(t) PROVE TypeOK'
  BY <1>0, <1>2, <1>3, <1>6, <1>11 DEF OpenDraft, Modes
<1>12. ASSUME InsertDraft(t) PROVE TypeOK'
  BY <1>0, <1>4, <1>5, <1>6, <1>12 DEF InsertDraft
<1>13. ASSUME MintExternalId(t) PROVE TypeOK'
  <2>1. NextNumber(ids) \in Nat
    BY <1>13
  <2>2. ids' \subseteq Tx \X Nat
    BY <1>13, <2>1 DEF MintExternalId
  <2>3. pc' \in [Tx -> Labels]
    BY <1>4, <1>6, <1>13 DEF MintExternalId, Activation
  <2>4. advisory' = t /\ UNCHANGED <<parent, labels, want, todo, tries, cleared>>
    BY <1>13 DEF MintExternalId
  <2>5. QED
    BY <1>0, <2>2, <2>3, <2>4
<1>14. ASSUME LockActive(t) PROVE TypeOK'
  <2>1. CASE tries[t] < Attempts
    <3>1. /\ Request(t, active, "NO KEY UPDATE", "lockActive") /\ tries' = [tries EXCEPT ![t] = @ + 1]
          /\ UNCHANGED <<parent, advisory, ids, labels, todo, cleared>>
      BY <1>14, <2>1 DEF LockActive
    <3>2. tries' \in [Tx -> 0 .. Attempts]
      <4>1. tries[t] + 1 \in 0 .. Attempts
        BY <2>1 DEF Attempts
      <4>2. QED
        BY <3>1, <4>1
    <3>3. pc' \in [Tx -> Labels] /\ want' \in [Tx -> (Version \X Modes) \cup {None}]
      BY <1>2, <1>3, <1>6, <3>1 DEF Modes
    <3>4. QED
      BY <1>0, <3>1, <3>2, <3>3
  <2>2. CASE ~(tries[t] < Attempts)
    BY <1>1, <1>14, <2>2 DEF LockActive, Ended
  <2>3. QED
    BY <2>1, <2>2
<1>15. ASSUME ActiveLocked(t) PROVE TypeOK'
  BY <1>0, <1>4, <1>5, <1>6, <1>15 DEF ActiveLocked
<1>16. ASSUME Rebase(t) PROVE TypeOK'
  BY <1>0, <1>3, <1>4, <1>6, <1>16 DEF Rebase, Activation
<1>17. ASSUME Refuse(t) \/ BreakDeadlock(t) PROVE TypeOK'
  BY <1>1, <1>17 DEF Refuse, BreakDeadlock, Ended
<1>18. ASSUME ClearActive(t) PROVE TypeOK'
  BY <1>0, <1>2, <1>3, <1>6, <1>18 DEF ClearActive, Modes, Activation
<1>19. ASSUME ActiveCleared(t) PROVE TypeOK'
  BY <1>0, <1>3, <1>4, <1>5, <1>6, <1>19 DEF ActiveCleared, Activation
<1>20. ASSUME SetActive(t) PROVE TypeOK'
  BY <1>0, <1>1, <1>4, <1>6, <1>20 DEF SetActive, Activation, Ended
<1>21. ASSUME BeginScan(t) PROVE TypeOK'
  BY <1>0, <1>4, <1>6, <1>21 DEF BeginScan, Activation, ScanRows
<1>22. ASSUME NEW v \in Version, VisitRow(t, v) PROVE TypeOK'
  BY <1>0, <1>2, <1>6, <1>22 DEF VisitRow, Activation, ScanMode, Modes
<1>23. ASSUME RowLocked(t) PROVE TypeOK'
  BY <1>0, <1>4, <1>5, <1>6, <1>23 DEF RowLocked, Activation
<1>24. ASSUME Commit(t) PROVE TypeOK'
  BY <1>0, <1>4, <1>6, <1>24 DEF Commit, End, Ended
<1>25. ASSUME RelockActive(t) PROVE TypeOK'
  BY <1>0, <1>2, <1>3, <1>6, <1>25 DEF RelockActive, Modes
<1>26. ASSUME ActiveRelocked(t) PROVE TypeOK'
  BY <1>0, <1>4, <1>5, <1>6, <1>26 DEF ActiveRelocked
<1>27. ASSUME ExamineChain(t) PROVE TypeOK'
  <2>1. CASE Goto(t, "prune") /\ UNCHANGED <<active, published, parent, locks, advisory, ids, labels, want, todo, tries, cleared>>
    BY <1>0, <1>4, <1>6, <2>1 DEF Activation
  <2>2. CASE /\ Goto(t, "clear") /\ labels' = labels \cup {<<t, NextNumber(labels)>>}
             /\ UNCHANGED <<active, published, parent, locks, advisory, ids, want, todo, tries, cleared>>
    <3>1. NextNumber(labels) \in Nat
      BY <1>27
    <3>2. labels' \subseteq Tx \X Nat
      BY <2>2, <3>1
    <3>3. QED
      BY <1>0, <1>4, <1>6, <2>2, <3>2 DEF Activation
  <2>3. CASE Abort(t, "edits on top")
    BY <1>1, <2>3 DEF Ended
  <2>4. QED
    BY <1>27, <2>1, <2>2, <2>3 DEF ExamineChain
<1>28. ASSUME LockDraft(t) PROVE TypeOK'
  BY <1>0, <1>2, <1>3, <1>6, <1>28 DEF LockDraft, Modes
<1>29. ASSUME DraftLocked(t) PROVE TypeOK'
  BY <1>0, <1>4, <1>5, <1>6, <1>29 DEF DraftLocked, Activation
<1>30. QED
  BY <1>11, <1>12, <1>13, <1>14, <1>15, <1>16, <1>17, <1>18, <1>19, <1>20, <1>21, <1>22, <1>23, <1>24, <1>25,
     <1>26, <1>27, <1>28, <1>29 DEF Statement

\* A transaction stays where its kind goes.
LEMMA InPlaceStep ==
    ASSUME TypeOK, NEW t \in Tx, InPlace(t), Statement(t) \/ BreakDeadlock(t)
    PROVE  InPlace(t)'
<1>0. None \notin Version \X Modes /\ TheDraft \notin published /\ active \in published
  BY IdentitiesAssumption DEF TypeOK
<1>k. /\ t \in Writers => t \notin Loads /\ t \notin Editors
      /\ t \in Loads => t \notin Editors
  BY IdentitiesAssumption
<1>1. ASSUME NEW outcome \in Ended, Abort(t, outcome) PROVE InPlace(t)'
  <2>1. pc'[t] = outcome /\ want'[t] = None /\ cleared'[t] = None
    BY <1>1, AbortEffect DEF TypeOK
  <2>2. QED
    BY <2>1 DEF InPlace, WriterLabels, LoadLabels, EditorLabels
<1> USE <1>0, <1>k DEF TypeOK, InPlace, Goto, WriterLabels, LoadLabels, EditorLabels, Activation, Ended
<1>11. ASSUME OpenDraft(t) PROVE InPlace(t)'
  BY <1>11 DEF OpenDraft, Request
<1>12. ASSUME InsertDraft(t) PROVE InPlace(t)'
  BY <1>12 DEF InsertDraft, Granted
<1>13. ASSUME MintExternalId(t) PROVE InPlace(t)'
  <2>1. /\ pc[t] = "mint" /\ UNCHANGED <<want, cleared>>
        /\ pc' = [pc EXCEPT ![t] = IF t \in Editors THEN "commit" ELSE "lockActive"]
    BY <1>13 DEF MintExternalId
  <2>2. t \notin Loads
    BY <2>1
  <2>3. want[t] = None /\ cleared[t] = None
    BY <2>1
  <2>4. QED
    BY <2>1, <2>2, <2>3
<1>14. ASSUME LockActive(t) PROVE InPlace(t)'
  <2>1. CASE tries[t] < Attempts
    <3>1. /\ pc' = [pc EXCEPT ![t] = "lockActive"] /\ want' = [want EXCEPT ![t] = <<active, "NO KEY UPDATE">>]
          /\ pc[t] = "lockActive" /\ cleared' = cleared
      BY <1>14, <2>1 DEF LockActive, Request
    <3>2. QED
      BY <3>1
  <2>2. CASE ~(tries[t] < Attempts)
    BY <1>1, <1>14, <2>2 DEF LockActive
  <2>3. QED
    BY <2>1, <2>2
<1>15. ASSUME ActiveLocked(t) PROVE InPlace(t)'
  BY <1>15 DEF ActiveLocked, Granted
<1>16. ASSUME Rebase(t) PROVE InPlace(t)'
  BY <1>16 DEF Rebase
<1>17. ASSUME Refuse(t) \/ BreakDeadlock(t) PROVE InPlace(t)'
  BY <1>1, <1>17 DEF Refuse, BreakDeadlock
<1>18. ASSUME ClearActive(t) PROVE InPlace(t)'
  BY <1>18 DEF ClearActive, Request
<1>19. ASSUME ActiveCleared(t) PROVE InPlace(t)'
  BY <1>19 DEF ActiveCleared, Granted
<1>20. ASSUME SetActive(t) PROVE InPlace(t)'
  BY <1>1, <1>20 DEF SetActive
<1>21. ASSUME BeginScan(t) PROVE InPlace(t)'
  BY <1>21 DEF BeginScan
<1>22. ASSUME NEW v \in Version, VisitRow(t, v) PROVE InPlace(t)'
  BY <1>22 DEF VisitRow, Request, ScanMode
<1>23. ASSUME RowLocked(t) PROVE InPlace(t)'
  BY <1>23 DEF RowLocked, Granted
<1>24. ASSUME Commit(t) PROVE InPlace(t)'
  BY <1>24 DEF Commit, End
<1>25. ASSUME RelockActive(t) PROVE InPlace(t)'
  BY <1>25 DEF RelockActive, Request
<1>26. ASSUME ActiveRelocked(t) PROVE InPlace(t)'
  BY <1>26 DEF ActiveRelocked, Granted
<1>27. ASSUME ExamineChain(t) PROVE InPlace(t)'
  BY <1>1, <1>27 DEF ExamineChain
<1>28. ASSUME LockDraft(t) PROVE InPlace(t)'
  BY <1>28 DEF LockDraft, Request
<1>29. ASSUME DraftLocked(t) PROVE InPlace(t)'
  BY <1>29 DEF DraftLocked, Granted
<1>30. QED
  BY <1>11, <1>12, <1>13, <1>14, <1>15, <1>16, <1>17, <1>18, <1>19, <1>20, <1>21, <1>22, <1>23, <1>24, <1>25,
     <1>26, <1>27, <1>28, <1>29 DEF Statement

-----------------------------------------------------------------------------
(* Row locks *)

\* Modes exclude each other both ways, and these three do.
LEMMA ConflictingModes ==
    /\ \A a, b : <<a, b>> \in Conflicting => <<b, a>> \in Conflicting
    /\ <<"NO KEY UPDATE", "NO KEY UPDATE">> \in Conflicting
    /\ <<"NO KEY UPDATE", "UPDATE">> \in Conflicting /\ <<"UPDATE", "UPDATE">> \in Conflicting
<1> DEFINE half == {<<"KEY SHARE", "UPDATE">>, <<"NO KEY UPDATE", "NO KEY UPDATE">>,
                    <<"NO KEY UPDATE", "UPDATE">>, <<"UPDATE", "UPDATE">>}
<1>1. Conflicting = half \cup {<<p[2], p[1]>> : p \in half}
  BY DEF Conflicting
<1>2. ASSUME NEW a, NEW b, <<a, b>> \in Conflicting PROVE <<b, a>> \in Conflicting
  <2>1. CASE <<a, b>> \in half
    <3>1. PICK p \in half : p = <<a, b>>
      BY <2>1
    <3>2. <<p[2], p[1]>> \in Conflicting
      BY <1>1
    <3>3. QED
      BY <3>1, <3>2
  <2>2. CASE \E p \in half : <<a, b>> = <<p[2], p[1]>>
    <3>1. PICK p \in half : <<a, b>> = <<p[2], p[1]>>
      BY <2>2
    <3>2. a = p[2] /\ b = p[1]
      BY <3>1
    <3>3. PICK x, y : p = <<x, y>>
      BY <3>1
    <3>4. p = <<p[1], p[2]>>
      BY <3>3
    <3>5. <<b, a>> = p
      BY <3>2, <3>4
    <3>6. QED
      BY <1>1, <3>5
  <2>3. QED
    BY <1>1, <1>2, <2>1, <2>2
<1>3. QED
  BY <1>1, <1>2

\* A row is locked only where nobody holds it against the transaction.
LEMMA CompatibleStep ==
    ASSUME TypeOK, Compatible, NEW t \in Tx, Statement(t) \/ BreakDeadlock(t)
    PROVE  Compatible'
<1>1. CASE locks' = locks \/ locks' = {l \in locks : l[1] # t}
  BY <1>1 DEF Compatible
<1>2. CASE Granted(t)
  <2> DEFINE r == want[t]
             new == <<t, r[1], r[2]>>
  <2>1. locks' = locks \cup {new} /\ HoldersAgainst(locks, t, r[1], r[2]) = {}
    BY <1>2 DEF Granted, WaitsFor
  <2>2. ASSUME NEW k \in locks, k[2] = r[1], <<k[3], r[2]>> \in Conflicting PROVE k[1] = t
    BY <2>1, <2>2 DEF HoldersAgainst
  <2>3. new[1] = t /\ new[2] = r[1] /\ new[3] = r[2]
    OBVIOUS
  <2> HIDE DEF new
  <2>4. ASSUME NEW k \in locks', NEW l \in locks', k[2] = l[2], <<k[3], l[3]>> \in Conflicting PROVE k[1] = l[1]
    <3>1. CASE k \in locks /\ l \in locks
      BY <2>4, <3>1 DEF Compatible
    <3>2. CASE k \in locks /\ l = new
      BY <2>2, <2>3, <2>4, <3>2
    <3>3. CASE k = new /\ l \in locks
      BY <2>2, <2>3, <2>4, <3>3, ConflictingModes
    <3>4. QED
      BY <2>1, <3>1, <3>2, <3>3
  <2>5. QED
    BY <2>4 DEF Compatible
<1>3. QED
  BY <1>1, <1>2, LocksStep

\* Two transactions that own a row, or one that owns it and one that locks it for an update, are one.
LEMMA OneHolder ==
    ASSUME Compatible, NEW t, NEW u, NEW v,
           NEW m \in {"NO KEY UPDATE", "UPDATE"}, NEW n \in {"NO KEY UPDATE", "UPDATE"},
           <<t, v, m>> \in locks, <<u, v, n>> \in locks
    PROVE  t = u
<1> DEFINE k == <<t, v, m>>
           l == <<u, v, n>>
<1>1. <<m, n>> \in Conflicting
  BY ConflictingModes
<1>2. k[1] = t /\ k[2] = v /\ k[3] = m /\ l[1] = u /\ l[2] = v /\ l[3] = n
  OBVIOUS
<1>3. k \in locks /\ l \in locks
  OBVIOUS
<1> HIDE DEF k, l
<1>4. QED
  BY <1>1, <1>2, <1>3 DEF Compatible

\* The lock that is granted.
LEMMA GrantedLock ==
    ASSUME TypeOK, NEW t \in Tx, Granted(t)
    PROVE  /\ want[t] = <<want[t][1], want[t][2]>> /\ <<t, want[t][1], want[t][2]>> \in locks'
           /\ want[t] # None /\ want' = [want EXCEPT ![t] = None] /\ locks \subseteq locks'
           /\ \A l \in locks' : l \in locks \/ (l[1] = t /\ l[2] = want[t][1])
<1>1. want[t] \in Version \X Modes
  BY DEF Granted, TypeOK
<1>2. QED
  BY <1>1 DEF Granted

\* What an editor does: it locks its draft, then the external_id lock where it creates, and commits.
LEMMA EditorStep ==
    ASSUME TypeOK, NEW t \in Editors, InPlace(t), cleared[t] = None, Statement(t) \/ BreakDeadlock(t)
    PROVE  /\ cleared'[t] = None
           /\ \/ locks' = {l \in locks : l[1] # t} /\ advisory' # t
              \/ pc[t] = "start" /\ locks' = locks /\ advisory' = advisory
              \/ pc[t] = "edit" /\ pc'[t] \in {"mint", "commit"} /\ advisory' = advisory
              \/ pc[t] = "mint" /\ pc'[t] = "commit" /\ locks' = locks
<1>0. /\ pc[t] \in {"start", "edit", "mint", "commit"} \cup Ended /\ t \notin Loads /\ t \notin Writers /\ t \in Tx
      /\ None \notin Tx
  BY IdentitiesAssumption, ParticipantsAssumption DEF InPlace, EditorLabels, Tx
<1>1. ASSUME NEW outcome, Abort(t, outcome)
      PROVE  locks' = {l \in locks : l[1] # t} /\ advisory' # t /\ cleared'[t] = None
  BY <1>0, <1>1, AbortEffect DEF TypeOK
<1>2. CASE BreakDeadlock(t)
  BY <1>1, <1>2 DEF BreakDeadlock
<1>3. CASE LockDraft(t)
  BY <1>3 DEF LockDraft
<1>4. CASE DraftLocked(t)
  BY <1>0, <1>4 DEF DraftLocked, Goto, TypeOK
<1>5. CASE MintExternalId(t)
  BY <1>0, <1>5 DEF MintExternalId, Goto, TypeOK
<1>6. CASE Commit(t)
  BY <1>0, <1>6 DEF Commit, End, TypeOK
<1>7. CASE Statement(t) /\ ~(LockDraft(t) \/ DraftLocked(t) \/ MintExternalId(t) \/ Commit(t))
  <2>1. pc[t] \in {"insert", "lockActive", "rebase", "clear", "activate", "prune", "scan", "scanPrune", "relock", "examine"}
        \/ t \in Writers \/ t \in Loads
    BY <1>7 DEF Statement, OpenDraft, InsertDraft, LockActive, ActiveLocked, Rebase, Refuse, ClearActive, ActiveCleared,
       SetActive, BeginScan, VisitRow, RowLocked, RelockActive, ActiveRelocked, ExamineChain
  <2>2. QED
    BY <1>0, <2>1 DEF Ended
<1>8. QED
  BY <1>2, <1>3, <1>4, <1>5, <1>6, <1>7

\* The external_id lock is taken where it is free, and given back at the end.
LEMMA AdvisoryStep ==
    ASSUME TypeOK, NEW t \in Tx, Statement(t) \/ BreakDeadlock(t)
    PROVE  advisory' \in {advisory, t, None}
<1>1. ASSUME NEW outcome, Abort(t, outcome) PROVE advisory' \in {advisory, t, None}
  BY <1>1, AbortEffect
<1>2. ASSUME NEW v \in Version, VisitRow(t, v) PROVE advisory' \in {advisory, t, None}
  BY <1>2 DEF VisitRow
<1>3. ASSUME Statement(t) \/ BreakDeadlock(t), \A v \in Version : ~VisitRow(t, v)
      PROVE  advisory' \in {advisory, t, None}
  BY <1>1, <1>3 DEF Statement, BreakDeadlock, OpenDraft, MintExternalId, Rebase, ClearActive, BeginScan, RelockActive,
     LockDraft, InsertDraft, ActiveLocked, ActiveCleared, RowLocked, ActiveRelocked, DraftLocked, Refuse,
     LockActive, SetActive, ExamineChain, Commit, End
<1>4. QED
  BY <1>2, <1>3

\* Editors and the others stay apart.
LEMMA ApartStep ==
    ASSUME TypeOK, Apart, NEW t \in Tx, InPlace(t), Statement(t) \/ BreakDeadlock(t)
    PROVE  Apart'
<1>0. Others(t)
  BY OthersStay
<1>k. /\ t \in Editors => t \notin Loads /\ t \notin Writers
      /\ t \in Editors \/ t \in Loads \/ t \in Writers
      /\ None \notin Editors /\ Editors \subseteq Tx
  BY IdentitiesAssumption, ParticipantsAssumption DEF Tx
<1>1. ASSUME NEW l \in locks' PROVE l[1] \in Editors <=> l[2] = TheDraft
  <2>1. CASE l \in locks
    BY <2>1 DEF Apart
  <2>2. CASE l \notin locks
    <3>1. Granted(t) /\ l[1] = t /\ l[2] = want[t][1]
      BY <1>1, <2>2, LocksStep, GrantedLock
    <3>2. want[t] # None /\ (pc[t] = "edit" <=> want[t][1] = TheDraft)
      BY <3>1, GrantedLock DEF InPlace
    <3>3. pc[t] = "edit" <=> t \in Editors
      BY <3>2, <1>k DEF InPlace, WriterLabels, LoadLabels, EditorLabels, Activation, Ended
    <3>4. QED
      BY <3>1, <3>2, <3>3
  <2>3. QED
    BY <2>1, <2>2
<1>2. ASSUME NEW l \in locks', l[1] \in Editors PROVE pc'[l[1]] \in {"mint", "commit"}
  <2>1. CASE l[1] # t
    BY <1>0, <1>2, <1>k, <2>1 DEF Others, Apart
  <2>2. CASE l[1] = t
    BY <1>2, <2>2, EditorStep DEF Apart
  <2>3. QED
    BY <2>1, <2>2
<1>3. advisory' \in Editors => pc'[advisory'] = "commit"
  <2>1. CASE t \in Editors /\ advisory' = t
    BY <2>1, EditorStep DEF Apart
  <2>2. CASE t \notin Editors \/ advisory' # t
    BY <1>0, <1>k, <2>2, AdvisoryStep DEF Others, Apart
  <2>3. QED
    BY <2>1, <2>2
<1>4. ASSUME NEW u \in Editors PROVE cleared'[u] = None
  <2>1. CASE u = t
    BY <2>1, EditorStep DEF Apart
  <2>2. CASE u # t
    BY <1>0, <1>k, <2>2 DEF Others, Apart
  <2>3. QED
    BY <2>1, <2>2
<1>5. QED
  BY <1>1, <1>2, <1>3, <1>4 DEF Apart

-----------------------------------------------------------------------------
(* A transaction that goes on *)

\* Where a step that ends nothing comes from, and what it has then.
Onward(t) ==
    /\ active' = active /\ locks \subseteq locks'
    /\ pc'[t] = "rebase" => pc[t] = "lockActive" /\ Granted(t) /\ want[t][1] = active
    /\ pc'[t] \in Activation => \/ pc[t] \in Activation /\ parent'[t] = parent[t]
                                \/ pc[t] = "rebase" /\ parent'[t] = active
                                \/ pc[t] = "examine" \/ t \in Editors
    /\ pc'[t] = "clear" => pc[t] \in {"clear", "rebase", "examine"}
    /\ pc'[t] = "activate" =>
          pc[t] = "clear" /\ Granted(t) /\ cleared'[t] = IF want[t][1] = active THEN active ELSE None
    /\ pc'[t] # "activate" => cleared'[t] = cleared[t] /\ (pc[t] = "activate" => cleared[t] = active)
    /\ pc'[t] = "scan" => \/ pc[t] = "start" /\ todo'[t] = published
                          \/ pc[t] = "scan" /\ Granted(t) /\ todo'[t] = todo[t]
                          \/ /\ pc[t] = "scan" /\ want[t] = None
                             /\ \E v : todo'[t] = todo[t] \ {v} /\ want'[t] = <<v, "UPDATE">>
    /\ pc'[t] = "relock" => \/ pc[t] = "scan" /\ Granted(t) /\ todo[t] = {}
                            \/ pc[t] = "relock" /\ want'[t] = <<active, "UPDATE">>
    /\ pc'[t] = "examine" => pc[t] = "relock" /\ Granted(t)
    /\ pc[t] = "examine" => \/ pc'[t] = "prune"
                            \/ pc'[t] = "clear" /\ (active \in Writers => t \in Superseding)

\* Every step of a transaction that does not end it is one of these.
LEMMA OnwardStep ==
    ASSUME TypeOK, NEW t \in Tx, InPlace(t), Statement(t) \/ BreakDeadlock(t)
    PROVE  (pc'[t] \in Ended /\ cleared'[t] = None) \/ Onward(t)
<1> DEFINE Ends == pc'[t] \in Ended /\ cleared'[t] = None
<1>1. ASSUME NEW outcome \in Ended, Abort(t, outcome) PROVE Ends
  BY <1>1, AbortEffect DEF TypeOK
<1>2. Granted(t) => locks \subseteq locks'
  BY DEF Granted
<1>3. cleared[t] # None => pc[t] \in Activation \ {"clear"}
  BY DEF InPlace
<1>k. t \in Editors \/ t \in Loads \/ t \in Writers
  BY DEF Tx
<1> USE <1>2, <1>3, <1>k DEF TypeOK, Goto, Activation, Onward
<1>11. ASSUME OpenDraft(t) PROVE Onward(t)
  BY <1>11 DEF OpenDraft, Request
<1>12. ASSUME InsertDraft(t) PROVE Onward(t)
  BY <1>12 DEF InsertDraft
<1>13. ASSUME MintExternalId(t) PROVE Onward(t)
  <2>1. /\ pc[t] = "mint" /\ UNCHANGED <<active, parent, locks, want, todo, cleared>>
        /\ pc' = [pc EXCEPT ![t] = IF t \in Editors THEN "commit" ELSE "lockActive"]
    BY <1>13 DEF MintExternalId
  <2>2. QED
    BY <2>1
<1>14. ASSUME LockActive(t) PROVE Ends \/ Onward(t)
  <2>1. CASE tries[t] < Attempts
    <3>1. /\ pc' = [pc EXCEPT ![t] = "lockActive"] /\ UNCHANGED <<active, parent, locks, todo, cleared>>
          /\ pc[t] = "lockActive"
      BY <1>14, <2>1 DEF LockActive, Request
    <3>2. QED
      BY <3>1
  <2>2. CASE ~(tries[t] < Attempts)
    BY <1>1, <1>14, <2>2 DEF LockActive, Ended
  <2>3. QED
    BY <2>1, <2>2
<1>15. ASSUME ActiveLocked(t) PROVE Onward(t)
  BY <1>15 DEF ActiveLocked
<1>16. ASSUME Rebase(t) PROVE Onward(t)
  BY <1>16 DEF Rebase
<1>17. ASSUME Refuse(t) \/ BreakDeadlock(t) PROVE Ends
  BY <1>1, <1>17 DEF Refuse, BreakDeadlock, Ended
<1>18. ASSUME ClearActive(t) PROVE Onward(t)
  BY <1>18 DEF ClearActive, Request
<1>19. ASSUME ActiveCleared(t) PROVE Onward(t)
  BY <1>19 DEF ActiveCleared
<1>20. ASSUME SetActive(t) PROVE Ends \/ Onward(t)
  <2>1. CASE cleared[t] = active
    BY <1>20, <2>1 DEF SetActive
  <2>2. CASE cleared[t] # active
    BY <1>1, <1>20, <2>2 DEF SetActive, Ended
  <2>3. QED
    BY <2>1, <2>2
<1>21. ASSUME BeginScan(t) PROVE Onward(t)
  BY <1>21 DEF BeginScan, ScanRows
<1>22. ASSUME NEW v \in Version, VisitRow(t, v) PROVE Onward(t)
  <2>1. /\ pc[t] \in {"scan", "scanPrune"} /\ want[t] = None /\ pc'[t] = pc[t]
        /\ todo'[t] = todo[t] \ {v} /\ want'[t] = <<v, ScanMode(t)>>
        /\ UNCHANGED <<active, parent, locks, cleared>>
    BY <1>22 DEF VisitRow, Request
  <2>2. pc[t] = "scan" => want'[t] = <<v, "UPDATE">>
    BY <2>1 DEF ScanMode
  <2>3. QED
    BY <2>1, <2>2
<1>23. ASSUME RowLocked(t) PROVE Onward(t)
  BY <1>23 DEF RowLocked
<1>24. ASSUME Commit(t) PROVE Ends
  BY <1>24 DEF Commit, End, Ended
<1>25. ASSUME RelockActive(t) PROVE Onward(t)
  BY <1>25 DEF RelockActive, Request
<1>26. ASSUME ActiveRelocked(t) PROVE Onward(t)
  BY <1>26 DEF ActiveRelocked
<1>27. ASSUME ExamineChain(t) PROVE Ends \/ Onward(t)
  BY <1>1, <1>27 DEF ExamineChain, Ended
<1>28. ASSUME LockDraft(t) PROVE Onward(t)
  BY <1>28 DEF LockDraft, Request
<1>29. ASSUME DraftLocked(t) PROVE Onward(t)
  <2>1. t \in Editors
    BY <1>29 DEF DraftLocked, InPlace, WriterLabels, LoadLabels, Ended
  <2>2. QED
    BY <1>29, <2>1 DEF DraftLocked
<1>30. QED
  BY <1>11, <1>12, <1>13, <1>14, <1>15, <1>16, <1>17, <1>18, <1>19, <1>20, <1>21, <1>22, <1>23, <1>24, <1>25,
     <1>26, <1>27, <1>28, <1>29 DEF Statement

-----------------------------------------------------------------------------
(* The active version *)

\* Who makes a version active has locked the one it replaces, and it still is the active one.
LEMMA ActivatorHolds ==
    ASSUME NEW t \in Tx, Clearing(t), active' # active, Statement(t) \/ BreakDeadlock(t)
    PROVE  /\ active' = t /\ t \notin Editors /\ pc[t] = "commit" /\ cleared[t] = active
           /\ <<t, active, "NO KEY UPDATE">> \in locks
<1>1. /\ t \notin Editors /\ pc[t] = "commit" /\ cleared[t] # None /\ active' = t
  BY ActiveStep
<1>2. cleared[t] = active
  BY <1>1 DEF Clearing
<1>3. QED
  BY <1>1, <1>2 DEF Clearing

\* Nobody replaces a version somebody else has locked to replace it or to load on it.
LEMMA HeldStaysActive ==
    ASSUME Compatible, NEW t \in Tx, Clearing(t), Statement(t) \/ BreakDeadlock(t),
           NEW u, u # t, NEW m \in {"NO KEY UPDATE", "UPDATE"}, <<u, active, m>> \in locks
    PROVE  active' = active
<1>1. SUFFICES ASSUME active' # active PROVE FALSE
  OBVIOUS
<1>2. <<t, active, "NO KEY UPDATE">> \in locks
  BY <1>1, ActivatorHolds
<1>3. QED
  BY <1>2, OneHolder

\* What a transaction has cleared is locked, and is the active version once it has passed the index.
LEMMA ClearingStep ==
    ASSUME TypeOK, Compatible, NEW t \in Tx, InPlace(t), Statement(t) \/ BreakDeadlock(t),
           \A u \in Tx : Clearing(u)
    PROVE  \A u \in Tx : Clearing(u)'
<1>1. ASSUME NEW u \in Tx, u # t PROVE Clearing(u)'
  <2>1. /\ pc'[u] = pc[u] /\ cleared'[u] = cleared[u]
        /\ <<u, cleared[u], "NO KEY UPDATE">> \in locks' <=> <<u, cleared[u], "NO KEY UPDATE">> \in locks
    BY <1>1, OthersStay DEF Others
  <2>2. CASE active' = active
    BY <2>1, <2>2 DEF Clearing
  <2>3. CASE active' # active
    <3>1. <<u, active, "NO KEY UPDATE">> \notin locks
      BY <1>1, <2>3, HeldStaysActive
    <3>2. cleared[u] # active \/ cleared[u] = None
      BY <3>1 DEF Clearing
    <3>3. cleared[u] # None => pc[u] = "activate"
      BY <3>2 DEF Clearing
    <3>4. QED
      BY <2>1, <3>3 DEF Clearing
  <2>4. QED
    BY <2>2, <2>3
<1>2. Clearing(t)'
  <2>1. CASE pc'[t] \in Ended /\ cleared'[t] = None
    BY <2>1 DEF Clearing
  <2>2. CASE Onward(t)
    <3>1. active' = active /\ locks \subseteq locks'
      BY <2>2 DEF Onward
    <3>2. CASE pc'[t] = "activate"
      <4>1. Granted(t) /\ pc[t] = "clear" /\ cleared'[t] = IF want[t][1] = active THEN active ELSE None
        BY <2>2, <3>2 DEF Onward
      <4>2. <<t, want[t][1], "NO KEY UPDATE">> \in locks'
        BY <4>1, GrantedLock DEF InPlace
      <4>3. QED
        BY <3>1, <3>2, <4>1, <4>2 DEF Clearing
    <3>3. CASE pc'[t] # "activate"
      <4>1. cleared'[t] = cleared[t] /\ (pc[t] = "activate" => cleared[t] = active)
        BY <2>2, <3>3 DEF Onward
      <4>2. QED
        BY <3>1, <4>1 DEF Clearing
    <3>4. QED
      BY <3>2, <3>3
  <2>3. QED
    BY <2>1, <2>2, OnwardStep
<1>3. QED
  BY <1>1, <1>2

\* A write keeps the active version it rebased on, and nobody takes it away.
LEMMA OnTopStep ==
    ASSUME TypeOK, Compatible, NEW t \in Tx, InPlace(t), Statement(t) \/ BreakDeadlock(t), Clearing(t),
           \A u \in Writers : OnTop(u)
    PROVE  \A u \in Writers : OnTop(u)'
<1>1. ASSUME NEW u \in Writers, u # t PROVE OnTop(u)'
  <2>1. /\ pc'[u] = pc[u] /\ parent'[u] = parent[u]
        /\ <<u, active, "NO KEY UPDATE">> \in locks' <=> <<u, active, "NO KEY UPDATE">> \in locks
    BY <1>1, OthersStay DEF Others, Tx
  <2>2. CASE active' = active
    BY <2>1, <2>2 DEF OnTop
  <2>3. CASE active' # active
    <3>1. <<u, active, "NO KEY UPDATE">> \notin locks
      BY <1>1, <2>3, HeldStaysActive
    <3>2. QED
      BY <2>1, <3>1 DEF OnTop
  <2>4. QED
    BY <2>2, <2>3
<1>2. ASSUME t \in Writers PROVE OnTop(t)'
  <2>1. CASE pc'[t] \in Ended
    BY <2>1 DEF OnTop, Ended, Activation
  <2>2. CASE Onward(t)
    <3>1. active' = active /\ locks \subseteq locks'
      BY <2>2 DEF Onward
    <3>2. CASE pc'[t] = "rebase"
      <4>1. Granted(t) /\ pc[t] = "lockActive" /\ want[t][1] = active
        BY <2>2, <3>2 DEF Onward
      <4>2. <<t, active, "NO KEY UPDATE">> \in locks'
        BY <4>1, GrantedLock DEF InPlace
      <4>3. QED
        BY <3>1, <3>2, <4>2 DEF OnTop, Activation
    <3>3. CASE pc'[t] \in Activation
      <4>1. \/ pc[t] \in Activation /\ parent'[t] = parent[t]
            \/ pc[t] = "rebase" /\ parent'[t] = active
        BY <1>2, <2>2, <3>3, IdentitiesAssumption DEF Onward, InPlace, WriterLabels, Activation, Ended
      <4>2. QED
        BY <1>2, <3>1, <4>1 DEF OnTop
    <3>4. QED
      BY <3>2, <3>3 DEF OnTop
  <2>3. QED
    BY <2>1, <2>2, OnwardStep
<1>3. QED
  BY <1>1, <1>2

\* A load locks the active version of the start on its scan: it is never dropped from the rows it visits.
LEMMA ScannedStep ==
    ASSUME TypeOK, NEW t \in Tx, InPlace(t), Statement(t) \/ BreakDeadlock(t),
           \A u \in Loads : Scanned(u)
    PROVE  \A u \in Loads : Scanned(u)'
<1>1. ASSUME NEW u \in Loads, u # t PROVE Scanned(u)'
  <2>1. /\ pc'[u] = pc[u] /\ todo'[u] = todo[u] /\ want'[u] = want[u]
        /\ <<u, FirstActive, "UPDATE">> \in locks' <=> <<u, FirstActive, "UPDATE">> \in locks
    BY <1>1, OthersStay DEF Others, Tx
  <2>2. QED
    BY <2>1 DEF Scanned
<1>2. ASSUME t \in Loads PROVE Scanned(t)'
  <2>1. CASE pc'[t] \in Ended
    BY <2>1 DEF Scanned, Ended, Activation
  <2>2. CASE Onward(t)
    <3>1. locks \subseteq locks'
      BY <2>2 DEF Onward
    <3>2. CASE pc'[t] = "scan"
      <4>1. CASE todo'[t] = published
        BY <3>2, <4>1, ParticipantsAssumption DEF TypeOK, Scanned, Activation
      <4>2. CASE pc[t] = "scan" /\ Granted(t) /\ todo'[t] = todo[t]
        <5>1. want[t] = <<FirstActive, "UPDATE">> => <<t, FirstActive, "UPDATE">> \in locks'
          BY <4>2, GrantedLock
        <5>2. QED
          BY <1>2, <3>1, <3>2, <4>2, <5>1 DEF Scanned, Activation
      <4>3. ASSUME pc[t] = "scan", want[t] = None, NEW v, todo'[t] = todo[t] \ {v}, want'[t] = <<v, "UPDATE">>
            PROVE  Scanned(t)'
        <5>1. want[t] # <<FirstActive, "UPDATE">>
          <6>1. FirstActive \in Version /\ "UPDATE" \in Modes
            BY ParticipantsAssumption DEF Version, Modes
          <6>2. <<FirstActive, "UPDATE">> \in Version \X Modes
            BY <6>1
          <6>3. QED
            BY <4>3, <6>2, IdentitiesAssumption
        <5>2. QED
          BY <1>2, <3>1, <3>2, <4>3, <5>1 DEF Scanned, Activation
      <4>4. QED
        BY <2>2, <3>2, <4>1, <4>2, <4>3 DEF Onward
    <3>3. CASE pc'[t] = "relock"
      <4>1. CASE pc[t] = "scan" /\ Granted(t) /\ todo[t] = {}
        <5>1. want[t] = <<FirstActive, "UPDATE">> => <<t, FirstActive, "UPDATE">> \in locks'
          BY <4>1, GrantedLock
        <5>2. QED
          BY <1>2, <3>1, <3>3, <4>1, <5>1 DEF Scanned, Activation
      <4>2. CASE pc[t] = "relock"
        BY <1>2, <3>1, <3>3, <4>2 DEF Scanned, Activation
      <4>3. QED
        BY <2>2, <3>3, <4>1, <4>2 DEF Onward
    <3>4. CASE pc'[t] \in {"examine"} \cup Activation
      <4>1. pc[t] \in {"relock", "examine"} \cup Activation
        <5>1. pc[t] # "rebase" /\ t \notin Editors
          BY <1>2, IdentitiesAssumption DEF InPlace, LoadLabels, Activation, Ended
        <5>2. QED
          BY <2>2, <3>4, <5>1 DEF Onward
      <4>2. <<t, FirstActive, "UPDATE">> \in locks'
        BY <1>2, <3>1, <4>1 DEF Scanned
      <4>3. QED
        BY <3>4, <4>2 DEF Scanned, Activation
    <3>5. QED
      BY <3>2, <3>3, <3>4 DEF Scanned
  <2>3. QED
    BY <2>1, <2>2, OnwardStep
<1>3. QED
  BY <1>1, <1>2

\* What a load has examined stays active while it holds it: only a write can have come before.
LEMMA ExaminedStep ==
    ASSUME TypeOK, Compatible, NEW t \in Tx, \A u \in Tx : InPlace(u), Statement(t) \/ BreakDeadlock(t), Clearing(t),
           \A u \in Loads : Scanned(u) /\ Examined(u)
    PROVE  \A u \in Loads : Examined(u)'
<1>1. ASSUME NEW u \in Loads, u # t PROVE Examined(u)'
  <2>1. /\ pc'[u] = pc[u] /\ want'[u] = want[u] /\ cleared'[u] = cleared[u] /\ u \in Tx
        /\ <<u, active, "UPDATE">> \in locks' <=> <<u, active, "UPDATE">> \in locks
    BY <1>1, OthersStay DEF Others, Tx
  <2>2. CASE active' = active
    BY <1>1, <2>1, <2>2 DEF Examined
  <2>3. CASE active' # active
    <3>1. <<u, active, "UPDATE">> \notin locks
      BY <1>1, <2>3, HeldStaysActive
    <3>2. active' = t /\ t \notin Editors /\ pc[t] = "commit"
      BY <2>3, ActivatorHolds
    <3>3. CASE t \in Writers
      BY <1>1, <2>1, <3>1, <3>2, <3>3 DEF Examined
    <3>4. CASE t \in Loads
      <4>1. <<t, FirstActive, "UPDATE">> \in locks
        BY <3>2, <3>4 DEF Scanned, Activation
      <4>2. pc[u] \notin {"relock", "examine"} \cup Activation
        <5>1. <<u, FirstActive, "UPDATE">> \notin locks
          BY <1>1, <4>1, OneHolder
        <5>2. QED
          BY <1>1, <5>1 DEF Scanned
      <4>3. cleared[u] = None
        BY <2>1, <4>2 DEF InPlace
      <4>4. QED
        BY <2>1, <4>2, <4>3 DEF Examined, Activation
    <3>5. QED
      BY <3>2, <3>3, <3>4 DEF Tx
  <2>4. QED
    BY <2>2, <2>3
<1>2. ASSUME t \in Loads PROVE Examined(t)'
  <2>1. CASE pc'[t] \in Ended /\ cleared'[t] = None
    BY <2>1 DEF Examined, Ended
  <2>2. CASE Onward(t)
    <3>0. InPlace(t) /\ Examined(t)
      BY <1>2
    <3>1. active' = active /\ locks \subseteq locks'
      BY <2>2 DEF Onward
    <3>2. CASE pc'[t] = "relock"
      <4>1. cleared[t] = None /\ cleared'[t] = None
        <5>1. pc[t] \in {"scan", "relock"}
          BY <2>2, <3>2 DEF Onward
        <5>2. cleared[t] = None
          BY <3>0, <5>1 DEF InPlace, Activation
        <5>3. QED
          BY <2>2, <3>2, <5>2 DEF Onward
      <4>2. CASE pc[t] = "scan" /\ Granted(t)
        <5>1. want'[t] = None
          BY <4>2 DEF Granted, TypeOK
        <5>2. QED
          BY <3>2, <4>1, <5>1 DEF Examined
      <4>3. CASE want'[t] = <<active, "UPDATE">>
        BY <3>1, <3>2, <4>1, <4>3 DEF Examined
      <4>4. QED
        BY <2>2, <3>2, <4>2, <4>3 DEF Onward
    <3>3. CASE pc'[t] = "examine"
      <4>1. pc[t] = "relock" /\ Granted(t)
        BY <2>2, <3>3 DEF Onward
      <4>2. cleared'[t] = None
        BY <2>2, <3>0, <3>3, <4>1 DEF Onward, InPlace, Activation
      <4>3. want[t] # None
        BY <4>1 DEF Granted
      <4>4. active \in Writers \/ <<t, active, "UPDATE">> \in locks'
        <5>1. CASE want[t] = <<active, "UPDATE">>
          BY <4>1, <5>1, GrantedLock
        <5>2. QED
          BY <3>0, <4>1, <4>3, <5>1 DEF Examined
      <4>5. QED
        BY <3>1, <3>3, <4>2, <4>4 DEF Examined
    <3>4. CASE pc[t] = "examine" /\ pc'[t] \notin {"relock", "examine"}
      <4>1. cleared'[t] = None
        BY <2>2, <3>0, <3>4 DEF Onward, InPlace, Activation
      <4>2. CASE pc'[t] = "prune"
        BY <4>1, <4>2 DEF Examined
      <4>3. CASE pc'[t] = "clear" /\ (active \in Writers => t \in Superseding)
        BY <3>0, <3>1, <3>4, <4>3 DEF Examined
      <4>4. QED
        BY <2>2, <3>4, <4>2, <4>3 DEF Onward
    <3>5. CASE pc[t] # "examine" /\ pc'[t] \notin {"relock", "examine"}
      <4>1. pc'[t] = "clear" => pc[t] = "clear"
        <5>1. pc[t] # "rebase"
          BY <1>2, <3>0, IdentitiesAssumption DEF InPlace, LoadLabels, Activation, Ended
        <5>2. QED
          BY <2>2, <3>5, <5>1 DEF Onward
      <4>2. pc'[t] = "activate" => pc[t] = "clear"
        BY <2>2 DEF Onward
      <4>3. pc'[t] # "activate" => cleared'[t] = cleared[t]
        BY <2>2 DEF Onward
      <4>4. pc'[t] \in {"clear", "activate"} \/ cleared'[t] # None =>
               t \in Superseding \/ (active \notin Writers /\ <<t, active, "UPDATE">> \in locks)
        BY <3>0, <4>1, <4>2, <4>3 DEF Examined
      <4>5. QED
        BY <3>1, <3>5, <4>4 DEF Examined
    <3>6. QED
      BY <3>2, <3>3, <3>4, <3>5
  <2>3. QED
    BY <1>2, <2>1, <2>2, OnwardStep
<1>3. QED
  BY <1>1, <1>2

-----------------------------------------------------------------------------
(* Numbers *)

\* What a step does to the numbers given and to the lock they are given under.
LEMMA NumberingStep ==
    ASSUME TypeOK, NEW t \in Tx, InPlace(t), Statement(t) \/ BreakDeadlock(t)
    PROVE  /\ pc[t] # "done"
           /\ \/ \E outcome \in Ended \ {"done"} : Abort(t, outcome)
              \/ Commit(t)
              \/ /\ pc'[t] # "done" /\ (pc[t] \in Activation => pc'[t] \in Activation)
                 /\ (ids' = ids /\ advisory' = advisory) \/ MintExternalId(t)
                 /\ \/ labels' = labels
                    \/ /\ pc[t] = "examine" /\ pc'[t] = "clear" /\ t \in Loads
                       /\ labels' = labels \cup {<<t, NextNumber(labels)>>}
<1> DEFINE Goes == /\ pc'[t] # "done" /\ (pc[t] \in Activation => pc'[t] \in Activation)
                   /\ (ids' = ids /\ advisory' = advisory) \/ MintExternalId(t)
                   /\ \/ labels' = labels
                      \/ /\ pc[t] = "examine" /\ pc'[t] = "clear" /\ t \in Loads
                         /\ labels' = labels \cup {<<t, NextNumber(labels)>>}
           Aborts == \E outcome \in Ended \ {"done"} : Abort(t, outcome)
<1>1. ASSUME BreakDeadlock(t) PROVE pc[t] # "done" /\ Aborts
  <2>1. Aborts
    BY <1>1 DEF BreakDeadlock, Ended
  <2>2. WaitsFor(t) # {}
    BY <1>1 DEF BreakDeadlock, InCycle
  <2>3. want[t] # None \/ pc[t] \in {"mint", "activate"}
    BY <2>2 DEF WaitsFor
  <2>4. QED
    BY <2>1, <2>3 DEF InPlace
<1> USE DEF TypeOK, Goto, Activation
<1>11. ASSUME OpenDraft(t) \/ ClearActive(t) \/ RelockActive(t) \/ LockDraft(t) PROVE pc[t] # "done" /\ Goes
  BY <1>11 DEF OpenDraft, ClearActive, RelockActive, LockDraft, Request
<1>12. ASSUME InsertDraft(t) \/ ActiveLocked(t) \/ DraftLocked(t) \/ RowLocked(t) \/ ActiveRelocked(t) \/ ActiveCleared(t)
       PROVE  pc[t] # "done" /\ Goes
  BY <1>12 DEF InsertDraft, ActiveLocked, DraftLocked, RowLocked, ActiveRelocked, ActiveCleared
<1>13. ASSUME MintExternalId(t) PROVE pc[t] # "done" /\ Goes
  <2>1. /\ pc[t] = "mint" /\ labels' = labels
        /\ pc' = [pc EXCEPT ![t] = IF t \in Editors THEN "commit" ELSE "lockActive"]
    BY <1>13 DEF MintExternalId
  <2>2. QED
    BY <1>13, <2>1
<1>14. ASSUME LockActive(t) PROVE pc[t] # "done" /\ (Aborts \/ Goes)
  <2>1. CASE tries[t] < Attempts
    <3>1. /\ pc' = [pc EXCEPT ![t] = "lockActive"] /\ UNCHANGED <<ids, labels, advisory>> /\ pc[t] = "lockActive"
      BY <1>14, <2>1 DEF LockActive, Request
    <3>2. QED
      BY <3>1
  <2>2. CASE ~(tries[t] < Attempts)
    BY <1>14, <2>2 DEF LockActive, Ended
  <2>3. QED
    BY <2>1, <2>2
<1>15. ASSUME Rebase(t) \/ BeginScan(t) PROVE pc[t] # "done" /\ Goes
  BY <1>15 DEF Rebase, BeginScan
<1>16. ASSUME Refuse(t) PROVE pc[t] # "done" /\ Aborts
  BY <1>16 DEF Refuse, Ended
<1>17. ASSUME SetActive(t) PROVE pc[t] # "done" /\ (Aborts \/ Goes)
  BY <1>17 DEF SetActive, Ended
<1>18. ASSUME NEW v \in Version, VisitRow(t, v) PROVE pc[t] # "done" /\ Goes
  BY <1>18 DEF VisitRow, Request
<1>19. ASSUME Commit(t) PROVE pc[t] # "done"
  BY <1>19 DEF Commit
<1>20. ASSUME ExamineChain(t) PROVE pc[t] # "done" /\ (Aborts \/ Goes)
  <2>1. pc[t] = "examine"
    BY <1>20 DEF ExamineChain
  <2>2. t \in Loads
    BY <2>1 DEF InPlace, WriterLabels, EditorLabels, Ended, Tx
  <2>3. QED
    BY <1>20, <2>1, <2>2 DEF ExamineChain, Ended
<1>21. QED
  BY <1>1, <1>11, <1>12, <1>13, <1>14, <1>15, <1>16, <1>17, <1>18, <1>19, <1>20 DEF Statement

\* Numbers, with the places p of the transactions as a parameter.
NumbersOf(p, given, writing) ==
    \E n \in Nat :
       /\ {g[2] : g \in {h \in given : p[h[1]] = "done"}} = 1 .. n
       /\ \A g \in given : p[g[1]] = "done" \/ (g[2] = n + 1 /\ g[1] \in writing)

OneEach(given) == \A i, j \in given : i[2] = j[2] => i[1] = j[1]

\* A step that gives no number, by a transaction that goes on, or is undone with its numbers.
LEMMA NumbersKept ==
    ASSUME NEW p, NEW q, NEW G, NEW H, NEW W, NEW V, NEW t, NumbersOf(p, G, W),
           \A g \in G : g[1] # t => q[g[1]] = p[g[1]], p[t] # "done",
           H \subseteq G, \A g \in G : g[1] # t => g \in H,
           \A g \in H : p[g[1]] # "done" /\ g[1] \in W => g[1] \in V,
           q[t] # "done"
    PROVE  NumbersOf(q, H, V)
<1>1. PICK n \in Nat : /\ {g[2] : g \in {h \in G : p[h[1]] = "done"}} = 1 .. n
                       /\ \A g \in G : p[g[1]] = "done" \/ (g[2] = n + 1 /\ g[1] \in W)
  BY DEF NumbersOf
<1>2. {h \in G : p[h[1]] = "done"} = {h \in H : q[h[1]] = "done"}
  OBVIOUS
<1>3. \A g \in H : q[g[1]] = "done" \/ (g[2] = n + 1 /\ g[1] \in V)
  BY <1>1
<1>4. QED
  BY <1>1, <1>2, <1>3 DEF NumbersOf

\* A transaction commits: what it wrote is the next number, and nobody else was writing one.
LEMMA NumbersCommitted ==
    ASSUME NEW p, NEW q, NEW G, NEW W, NEW V, NEW t, NumbersOf(p, G, W),
           \A g \in G : g[1] # t => q[g[1]] = p[g[1]], p[t] # "done", q[t] = "done",
           \A g \in G : p[g[1]] # "done" /\ g[1] \in W => g[1] = t \/ g[1] \in V,
           t \in W => \A g \in G : p[g[1]] # "done" /\ g[1] \in W => g[1] = t
    PROVE  NumbersOf(q, G, V)
<1>1. PICK n \in Nat : /\ {g[2] : g \in {h \in G : p[h[1]] = "done"}} = 1 .. n
                       /\ \A g \in G : p[g[1]] = "done" \/ (g[2] = n + 1 /\ g[1] \in W)
  BY DEF NumbersOf
<1> DEFINE before == {h \in G : p[h[1]] = "done"}
           after == {h \in G : q[h[1]] = "done"}
           numbers(S) == {g[2] : g \in S}
<1>2. CASE \A g \in G : g[1] # t
  <2>1. before = after
    BY <1>2
  <2>2. \A g \in G : q[g[1]] = "done" \/ (g[2] = n + 1 /\ g[1] \in V)
    BY <1>1, <1>2
  <2>3. QED
    BY <1>1, <2>1, <2>2 DEF NumbersOf
<1>3. CASE \E g \in G : g[1] = t
  <2>1. PICK g \in G : g[1] = t
    BY <1>3
  <2>2. g[2] = n + 1 /\ t \in W
    BY <1>1, <2>1
  <2>3. \A h \in G : q[h[1]] = "done"
    BY <1>1, <2>2
  <2>4. \A h \in G : h \in before \/ h[2] = n + 1
    BY <1>1
  <2>5. numbers(G) = numbers(before) \cup {n + 1}
    BY <2>1, <2>2, <2>4
  <2>6. numbers(after) = 1 .. (n + 1)
    <3>1. after = G
      BY <2>3
    <3>2. numbers(before) = 1 .. n
      BY <1>1
    <3> HIDE DEF numbers, before, after
    <3>3. (1 .. n) \cup {n + 1} = 1 .. (n + 1)
      OBVIOUS
    <3>4. QED
      BY <2>5, <3>1, <3>2, <3>3
  <2>7. n + 1 \in Nat
    OBVIOUS
  <2>8. QED
    BY <2>3, <2>6, <2>7 DEF NumbersOf
<1>4. QED
  BY <1>2, <1>3

\* The next number is given, where every number so far is committed.
LEMMA NumberGiven ==
    ASSUME NEW p, NEW q, NEW G, NEW H, NEW V, NEW t, NEW n \in Nat, {g[2] : g \in G} = 1 .. n, OneEach(G),
           \A g \in G : p[g[1]] = "done", \A g \in G : g[1] # t => q[g[1]] = p[g[1]], p[t] # "done", q[t] # "done",
           H = G \cup {<<t, n + 1>>}, t \in V
    PROVE  NumbersOf(q, H, V) /\ OneEach(H)
<1> DEFINE new == <<t, n + 1>>
<1>0. new[1] = t /\ new[2] = n + 1
  OBVIOUS
<1> HIDE DEF new
<1>0a. H = G \cup {new}
  BY DEF new
<1>1. {h \in H : q[h[1]] = "done"} = G
  BY <1>0, <1>0a
<1>2. \A g \in H : q[g[1]] = "done" \/ (g[2] = n + 1 /\ g[1] \in V)
  BY <1>0, <1>0a
<1>3. \A g \in G : g[2] \in 1 .. n
  OBVIOUS
<1>4. \A g \in G : g[2] # n + 1
  BY <1>3
<1>5. OneEach(H)
  BY <1>0, <1>0a, <1>4 DEF OneEach
<1>6. QED
  BY <1>1, <1>2, <1>5 DEF NumbersOf

\* Minted external ids: one transaction mints at a time, and the lock is kept to the commit.
LEMMA IdsStep ==
    ASSUME TypeOK, NEW t \in Tx, InPlace(t), Statement(t) \/ BreakDeadlock(t), Numbers(ids, {advisory}), MintedOnce
    PROVE  Numbers(ids, {advisory})' /\ MintedOnce'
<1>0. pc[t] # "done" /\ None \notin Tx
  BY NumberingStep, ParticipantsAssumption
<1>1. \A g \in ids : g[1] \in Tx
  BY DEF TypeOK
<1>2. \A g \in ids : g[1] # t => pc'[g[1]] = pc[g[1]]
  BY <1>1, OthersStay DEF Others
<1>3. NumbersOf(pc, ids, {advisory})
  BY DEF NumbersOf, Numbers
<1>4. SUFFICES NumbersOf(pc', ids', {advisory'}) /\ MintedOnce'
  BY DEF NumbersOf, Numbers
<1>5. ASSUME NEW outcome \in Ended \ {"done"}, Abort(t, outcome)
      PROVE  NumbersOf(pc', ids', {advisory'}) /\ MintedOnce'
  <2>1. /\ ids' = {i \in ids : i[1] # t} /\ pc'[t] = outcome
        /\ advisory' = IF advisory = t THEN None ELSE advisory
    BY <1>5, AbortEffect DEF TypeOK
  <2>2. MintedOnce'
    BY <2>1 DEF MintedOnce
  <2>3. /\ ids' \subseteq ids /\ \A g \in ids : g[1] # t => g \in ids'
        /\ \A g \in ids' : pc[g[1]] # "done" /\ g[1] \in {advisory} => g[1] \in {advisory'}
        /\ pc'[t] # "done"
    BY <2>1
  <2>4. QED
    BY <1>0, <1>2, <1>3, <2>2, <2>3, NumbersKept
<1>6. CASE Commit(t)
  <2>1. ids' = ids /\ pc'[t] = "done" /\ advisory' = IF advisory = t THEN None ELSE advisory
    BY <1>6 DEF Commit, End, Goto, TypeOK
  <2>2. MintedOnce'
    BY <2>1 DEF MintedOnce
  <2>3. \A g \in ids : pc[g[1]] # "done" /\ g[1] \in {advisory} => g[1] = t \/ g[1] \in {advisory'}
    BY <2>1
  <2>4. t \in {advisory} => \A g \in ids : pc[g[1]] # "done" /\ g[1] \in {advisory} => g[1] = t
    OBVIOUS
  <2>5. NumbersOf(pc', ids, {advisory'})
    BY <1>0, <1>2, <1>3, <2>1, <2>3, <2>4, NumbersCommitted
  <2>6. QED
    BY <2>1, <2>2, <2>5
<1>7. CASE MintExternalId(t)
  <2>1. /\ pc[t] = "mint" /\ advisory = None /\ advisory' = t /\ ids' = ids \cup {<<t, NextNumber(ids)>>}
        /\ pc' = [pc EXCEPT ![t] = IF t \in Editors THEN "commit" ELSE "lockActive"]
    BY <1>7 DEF MintExternalId, Goto
  <2>2. PICK n \in Nat : {g[2] : g \in ids} = 1 .. n /\ (\A g \in ids : pc[g[1]] = "done") /\ NextNumber(ids) = n + 1
    <3>1. \A g \in ids : pc[g[1]] # "done" => g[1] \notin {advisory}
      BY <1>0, <1>1, <2>1
    <3>2. ids \subseteq Tx \X Nat
      BY DEF TypeOK
    <3>3. QED
      BY <3>1, <3>2, NextNumberStep
  <2>3. ids' = ids \cup {<<t, n + 1>>} /\ pc'[t] # "done" /\ t \in {advisory'}
    BY <2>1, <2>2 DEF TypeOK
  <2>4. OneEach(ids)
    BY DEF OneEach, MintedOnce
  <2>5. NumbersOf(pc', ids', {advisory'}) /\ OneEach(ids')
    BY <1>0, <1>2, <2>2, <2>3, <2>4, NumberGiven
  <2>6. QED
    BY <2>5 DEF OneEach, MintedOnce
<1>8. CASE pc'[t] # "done" /\ ids' = ids /\ advisory' = advisory
  <2>1. MintedOnce'
    BY <1>8 DEF MintedOnce
  <2>2. NumbersOf(pc', ids, {advisory'})
    BY <1>0, <1>2, <1>3, <1>8, NumbersKept
  <2>3. QED
    BY <1>8, <2>1, <2>2
<1>9. QED
  BY <1>5, <1>6, <1>7, <1>8, NumberingStep

\* "version N" labels: a load gives one under the lock on the active version of the start, up to its commit.
LEMMA LabelsStep ==
    ASSUME TypeOK, Compatible, NEW t \in Tx, InPlace(t), Statement(t) \/ BreakDeadlock(t),
           \A u \in Loads : Scanned(u), Numbers(labels, Labelling), LabelledOnce
    PROVE  Numbers(labels, Labelling)' /\ LabelledOnce'
<1>0. pc[t] # "done" /\ Loads \subseteq Tx
  BY NumberingStep DEF Tx
<1>1. \A g \in labels : g[1] \in Tx
  BY DEF TypeOK
<1>2. \A u \in Tx : u # t => pc'[u] = pc[u]
  BY OthersStay DEF Others
<1>2a. \A g \in labels : g[1] # t => pc'[g[1]] = pc[g[1]]
  BY <1>1, <1>2
<1>3. NumbersOf(pc, labels, Labelling)
  BY DEF NumbersOf, Numbers
<1>4. SUFFICES NumbersOf(pc', labels', Labelling') /\ LabelledOnce'
  BY DEF NumbersOf, Numbers
<1>5. \A u \in Labelling : u # t => u \in Labelling'
  BY <1>0, <1>2 DEF Labelling
<1>6. ASSUME t \in Loads, pc[t] \in {"examine"} \cup Activation, NEW u \in Labelling PROVE u = t
  <2>1. <<t, FirstActive, "UPDATE">> \in locks /\ <<u, FirstActive, "UPDATE">> \in locks
    BY <1>6 DEF Scanned, Labelling
  <2>2. QED
    BY <2>1, OneHolder
<1>7. ASSUME NEW outcome \in Ended \ {"done"}, Abort(t, outcome)
      PROVE  NumbersOf(pc', labels', Labelling') /\ LabelledOnce'
  <2>1. labels' = {l \in labels : l[1] # t} /\ pc'[t] = outcome
    BY <1>7, AbortEffect DEF TypeOK
  <2>2. LabelledOnce'
    BY <2>1 DEF LabelledOnce
  <2>3. /\ labels' \subseteq labels /\ \A g \in labels : g[1] # t => g \in labels'
        /\ \A g \in labels' : pc[g[1]] # "done" /\ g[1] \in Labelling => g[1] \in Labelling'
        /\ pc'[t] # "done"
    BY <1>5, <2>1
  <2>4. QED
    BY <1>0, <1>2a, <1>3, <2>2, <2>3, NumbersKept
<1>8. CASE Commit(t)
  <2>1. labels' = labels /\ pc'[t] = "done" /\ pc[t] = "commit"
    BY <1>8 DEF Commit, End, Goto, TypeOK
  <2>2. LabelledOnce'
    BY <2>1 DEF LabelledOnce
  <2>3. \A g \in labels : pc[g[1]] # "done" /\ g[1] \in Labelling => g[1] = t \/ g[1] \in Labelling'
    BY <1>5
  <2>4. t \in Labelling => \A g \in labels : pc[g[1]] # "done" /\ g[1] \in Labelling => g[1] = t
    BY <1>6 DEF Labelling
  <2>5. NumbersOf(pc', labels, Labelling')
    <3>1. ASSUME NEW W, NEW V, NumbersOf(pc, labels, W),
                 \A g \in labels : pc[g[1]] # "done" /\ g[1] \in W => g[1] = t \/ g[1] \in V,
                 t \in W => \A g \in labels : pc[g[1]] # "done" /\ g[1] \in W => g[1] = t
          PROVE  NumbersOf(pc', labels, V)
      <4>1. pc[t] # "done" /\ pc'[t] = "done"
        BY <1>0, <2>1
      <4>2. QED
        BY <1>2a, <3>1, <4>1, NumbersCommitted
    <3>2. QED
      BY <1>3, <2>3, <2>4, <3>1
  <2>6. QED
    BY <2>1, <2>2, <2>5
<1>9. CASE pc[t] = "examine" /\ pc'[t] = "clear" /\ t \in Loads /\ labels' = labels \cup {<<t, NextNumber(labels)>>}
  <2>1. t \notin Labelling /\ t \in Labelling'
    BY <1>9 DEF Labelling, Activation
  <2>2. PICK n \in Nat : /\ {g[2] : g \in labels} = 1 .. n
                         /\ \A g \in labels : pc[g[1]] = "done"
                         /\ NextNumber(labels) = n + 1
    <3>1. \A g \in labels : pc[g[1]] # "done" => g[1] \notin Labelling
      BY <1>6, <1>9, <2>1
    <3>2. labels \subseteq Tx \X Nat
      BY DEF TypeOK
    <3>3. QED
      BY <3>1, <3>2, NextNumberStep
  <2>3. labels' = labels \cup {<<t, n + 1>>} /\ pc'[t] # "done"
    BY <1>9, <2>2
  <2>4. OneEach(labels)
    BY DEF OneEach, LabelledOnce
  <2>5. NumbersOf(pc', labels', Labelling') /\ OneEach(labels')
    <3>1. pc[t] # "done" /\ \A g \in labels : g[1] # t => pc'[g[1]] = pc[g[1]]
      BY <1>0, <1>2a
    <3>2. {g[2] : g \in labels} = 1 .. n /\ \A g \in labels : pc[g[1]] = "done"
      BY <2>2
    <3>3. ASSUME NEW V, t \in V PROVE NumbersOf(pc', labels', V) /\ OneEach(labels')
      BY <2>3, <2>4, <3>1, <3>2, <3>3, NumberGiven
    <3>4. QED
      BY <2>1, <3>3
  <2>6. QED
    BY <2>5 DEF OneEach, LabelledOnce
<1>10. CASE pc'[t] # "done" /\ (pc[t] \in Activation => pc'[t] \in Activation) /\ labels' = labels
  <2>1. LabelledOnce'
    BY <1>10 DEF LabelledOnce
  <2>2. \A g \in labels : pc[g[1]] # "done" /\ g[1] \in Labelling => g[1] \in Labelling'
    BY <1>5, <1>10 DEF Labelling
  <2>3. NumbersOf(pc', labels, Labelling')
    BY <1>0, <1>2a, <1>3, <1>10, <2>2, NumbersKept
  <2>4. QED
    BY <1>10, <2>1, <2>3
<1>11. QED
  BY <1>7, <1>8, <1>9, <1>10, NumberingStep

\* Both numbers are numbers, when they are given.
LEMMA MintedNumber ==
    ASSUME TypeOK, NEW t \in Tx, Numbers(ids, {advisory}), MintExternalId(t)
    PROVE  NextNumber(ids) \in Nat
<1>1. \A g \in ids : g[1] \notin {advisory}
  BY ParticipantsAssumption DEF MintExternalId, TypeOK
<1>2. QED
  BY <1>1, NextNumberStep DEF TypeOK

\* A load that gives a label finds every label before it committed.
LEMMA LabelledNumber ==
    ASSUME TypeOK, Compatible, NEW t \in Tx, InPlace(t), \A u \in Loads : Scanned(u),
           Numbers(labels, Labelling), ExamineChain(t)
    PROVE  NextNumber(labels) \in Nat
<1>1. pc[t] = "examine" /\ t \in Loads
  BY DEF ExamineChain, InPlace, WriterLabels, EditorLabels, Activation, Ended, Tx
<1>2. ASSUME NEW u \in Labelling PROVE FALSE
  <2>1. u \in Loads /\ pc[u] \in Activation /\ u # t
    BY <1>1 DEF Labelling, Activation
  <2>2. <<t, FirstActive, "UPDATE">> \in locks /\ <<u, FirstActive, "UPDATE">> \in locks
    BY <1>1, <2>1 DEF Scanned
  <2>3. QED
    BY <2>1, <2>2, OneHolder
<1>3. QED
  BY <1>2, NextNumberStep DEF TypeOK

-----------------------------------------------------------------------------
(* The invariant *)

\* The invariant holds at the start.
LEMMA InitHolds == Init => IInv
<1> SUFFICES ASSUME Init PROVE IInv
  OBVIOUS
<1>1. TypeOK
  <2>1. Base \subseteq Version \ {TheDraft} /\ FirstActive \in Base
    BY ParticipantsAssumption, IdentitiesAssumption DEF Version
  <2>2. pc \in [Tx -> Labels]
    BY DEF Init, Labels, WriterLabels, Ended
  <2>3. QED
    BY <2>1, <2>2 DEF Init, TypeOK, Attempts
<1>2. \A t \in Tx : pc[t] \in {"start", "done"} /\ want[t] = None /\ cleared[t] = None
  BY DEF Init
<1>3. ids = {} /\ labels = {} /\ locks = {} /\ advisory = None /\ None \notin Tx
  BY ParticipantsAssumption DEF Init
<1>4. \A t \in Tx : InPlace(t) /\ Clearing(t)
  BY <1>2 DEF InPlace, Clearing, WriterLabels, LoadLabels, EditorLabels, Ended
<1>5. /\ \A t \in Writers : OnTop(t)
      /\ \A t \in Loads : Scanned(t) /\ Examined(t)
  BY <1>2 DEF OnTop, Scanned, Examined, Activation, Tx
<1>6. Apart /\ Compatible
  BY <1>2, <1>3 DEF Apart, Compatible, Tx
<1>7. Numbers({}, {advisory}) /\ Numbers({}, Labelling)
  <2>1. ASSUME NEW W PROVE Numbers({}, W)
    <3>1. {g[2] : g \in {h \in {} : pc[h[1]] = "done"}} = 1 .. 0
      OBVIOUS
    <3>2. \A g \in {} : pc[g[1]] = "done" \/ (g[2] = 0 + 1 /\ g[1] \in W)
      OBVIOUS
    <3>3. QED
      BY <3>1, <3>2 DEF Numbers
  <2>2. QED
    BY <2>1
<1>8. NumberedOnce
  BY <1>3 DEF NumberedOnce, MintedOnce, LabelledOnce
<1>9. QED
  BY <1>1, <1>3, <1>4, <1>5, <1>6, <1>7, <1>8 DEF IInv

\* No step of any transaction breaks the invariant.
LEMMA NextKeeps == IInv /\ [Next]_vars => IInv'
<1> SUFFICES ASSUME IInv, [Next]_vars PROVE IInv'
  OBVIOUS
<1>1. ASSUME NEW t \in Tx, Statement(t) \/ BreakDeadlock(t) PROVE IInv'
  <2>1. /\ TypeOK /\ Apart /\ Compatible /\ InPlace(t) /\ Clearing(t)
        /\ Numbers(ids, {advisory}) /\ Numbers(labels, Labelling) /\ MintedOnce /\ LabelledOnce
        /\ \A u \in Tx : InPlace(u) /\ Clearing(u)
        /\ \A u \in Writers : OnTop(u)
        /\ \A u \in Loads : Scanned(u) /\ Examined(u)
    BY DEF IInv, NumberedOnce
  <2>2. Numbers(ids, {advisory})' /\ Numbers(labels, Labelling)' /\ NumberedOnce'
    BY <1>1, <2>1, IdsStep, LabelsStep DEF NumberedOnce
  <2>3. /\ MintExternalId(t) => NextNumber(ids) \in Nat
        /\ ExamineChain(t) => NextNumber(labels) \in Nat
    BY <2>1, MintedNumber, LabelledNumber
  <2>4. TypeOK'
    BY <1>1, <2>1, <2>3, TypeStep
  <2>5. \A u \in Tx : InPlace(u)'
    <3>1. InPlace(t)'
      BY <1>1, <2>1, InPlaceStep
    <3>2. ASSUME NEW u \in Tx, u # t PROVE InPlace(u)'
      <4>1. pc'[u] = pc[u] /\ want'[u] = want[u] /\ cleared'[u] = cleared[u] /\ InPlace(u)
        BY <1>1, <2>1, <3>2, OthersStay DEF Others
      <4>2. QED
        BY <4>1 DEF InPlace
    <3>3. QED
      BY <3>1, <3>2
  <2>6. \A u \in Tx : Clearing(u)'
    BY <1>1, <2>1, ClearingStep
  <2>7. \A u \in Writers : OnTop(u)'
    BY <1>1, <2>1, OnTopStep
  <2>8. \A u \in Loads : Scanned(u)'
    BY <1>1, <2>1, ScannedStep
  <2>9. \A u \in Loads : Examined(u)'
    BY <1>1, <2>1, ExaminedStep
  <2>10. Apart' /\ Compatible'
    BY <1>1, <2>1, ApartStep, CompatibleStep
  <2>11. QED
    BY <2>2, <2>4, <2>5, <2>6, <2>7, <2>8, <2>9, <2>10, ZenonT(60) DEF IInv
<1>2. CASE UNCHANGED vars
  <2>1. TypeOK' /\ Apart' /\ Compatible' /\ NumberedOnce'
    BY <1>2 DEF vars, IInv, TypeOK, Apart, Compatible, NumberedOnce, MintedOnce, LabelledOnce
  <2>2. Numbers(ids, {advisory})' /\ Numbers(labels, Labelling)'
    BY <1>2 DEF vars, IInv, Numbers, Labelling
  <2>3. /\ \A t \in Tx : InPlace(t)' /\ Clearing(t)'
        /\ \A t \in Writers : OnTop(t)'
        /\ \A t \in Loads : Scanned(t)' /\ Examined(t)'
    BY <1>2 DEF vars, IInv, InPlace, Clearing, OnTop, Scanned, Examined
  <2>4. QED
    BY <2>1, <2>2, <2>3 DEF IInv
<1>3. QED
  BY <1>1, <1>2 DEF Next

-----------------------------------------------------------------------------
(* Who waits for whom *)

\* The transactions that wait for no draft: all but the editors, and an editor that goes on to commit.
Calm == {u \in Tx : u \in Editors => pc[u] = "commit"}

\* An editor that holds its draft waits for transactions that wait for no draft.
LEMMA WhoWaits ==
    ASSUME TypeOK, Apart, NEW u \in Tx, InPlace(u)
    PROVE  /\ u \notin Editors \/ pc[u] = "mint" => WaitsFor(u) \subseteq Calm
           /\ u \in Editors /\ pc[u] = "edit" => WaitsFor(u) \subseteq {e \in Editors : pc[e] \in {"mint", "commit"}}
           /\ u \in Editors /\ pc[u] \notin {"mint", "edit"} => WaitsFor(u) = {}
<1>0. Editors \subseteq Tx /\ None \notin Tx
  BY ParticipantsAssumption DEF Tx
<1>1. CASE want[u] # None
  <2>1. WaitsFor(u) = HoldersAgainst(locks, u, want[u][1], want[u][2])
    BY <1>1 DEF WaitsFor
  <2>2. ASSUME NEW h \in WaitsFor(u) PROVE \E l \in locks : l[1] = h /\ l[2] = want[u][1]
    BY <2>1, <2>2 DEF HoldersAgainst
  <2>3. ASSUME NEW h \in WaitsFor(u)
        PROVE  h \in Tx /\ (h \in Editors <=> pc[u] = "edit") /\ (h \in Editors => pc[h] \in {"mint", "commit"})
    <3>1. PICK l \in locks : l[1] = h /\ l[2] = want[u][1]
      BY <2>2, <2>3
    <3>2. h \in Tx
      BY <3>1 DEF TypeOK
    <3>3. h \in Editors <=> want[u][1] = TheDraft
      BY <3>1 DEF Apart
    <3>4. h \in Editors => pc[h] \in {"mint", "commit"}
      BY <3>1 DEF Apart
    <3>5. QED
      BY <1>1, <3>2, <3>3, <3>4 DEF InPlace
  <2>4. pc[u] = "edit" <=> u \in Editors
    BY <1>1 DEF InPlace, WriterLabels, LoadLabels, EditorLabels, Activation, Ended, Tx
  <2>5. pc[u] # "mint"
    BY <1>1 DEF InPlace
  <2>6. QED
    BY <2>3, <2>4, <2>5 DEF Calm
<1>2. CASE want[u] = None /\ pc[u] = "mint"
  <2>1. WaitsFor(u) = {advisory} \ {None, u}
    BY <1>2 DEF WaitsFor
  <2>2. QED
    BY <1>2, <2>1 DEF Apart, Calm, TypeOK
<1>3. CASE want[u] = None /\ pc[u] = "activate"
  <2>1. WaitsFor(u) = Activating(u)
    BY <1>3 DEF WaitsFor
  <2>2. WaitsFor(u) \subseteq Tx \ Editors
    BY <2>1 DEF Activating, Apart
  <2>3. u \notin Editors
    BY <1>3 DEF InPlace, EditorLabels, Ended
  <2>4. QED
    BY <1>3, <2>2, <2>3 DEF Calm
<1>4. CASE want[u] = None /\ pc[u] \notin {"mint", "activate"}
  BY <1>4 DEF WaitsFor
<1>5. QED
  BY <1>1, <1>2, <1>3, <1>4

\* Nobody is behind itself who has a set that contains what it waits for, is closed, and leaves it out.
LEMMA NotBehind ==
    ASSUME NEW t \in Tx, NEW S \in SUBSET Tx, WaitsFor(t) \subseteq S, \A u \in S : WaitsFor(u) \subseteq S, t \notin S
    PROVE  ~InCycle(t)
<1> DEFINE waits == [u \in Tx |-> WaitsFor(u)]
           closed == {R \in SUBSET DOMAIN waits : waits[t] \subseteq R /\ \A u \in R : waits[u] \subseteq R}
<1>1. DOMAIN waits = Tx /\ \A u \in Tx : waits[u] = WaitsFor(u)
  OBVIOUS
<1>2. InCycle(t) => t \in Behind(waits, t)
  BY DEF InCycle
<1>3. Behind(waits, t) = {u \in DOMAIN waits : \A R \in closed : u \in R}
  BY DEF Behind
<1>4. S \in closed
  <2> HIDE DEF waits
  <2>1. QED
    BY <1>1
<1> HIDE DEF closed, waits
<1>5. QED
  BY <1>2, <1>3, <1>4

-----------------------------------------------------------------------------
(* The theorems *)

\* The inductive invariant holds throughout: types, places, row ownership and numbers without a gap,
\* for openDraft, publishDraft, createIngestVersion, pruneVersions and the draft edits run together.
THEOREM Invariance == Spec => []IInv
  BY InitHolds, NextKeeps, PTL DEF Spec

\* No two transactions ever carry the same minted external_id, and no two loads the same "version N"
\* label: mintExternalId and createIngestVersion read the highest number under a lock they keep.
THEOREM NumberedOnceHolds == Spec => []NumberedOnce
<1>1. IInv => NumberedOnce
  BY DEF IInv
<1>2. QED
  BY <1>1, Invariance, PTL

\* A draft editor is in no circle of waiting transactions: what it waits for never waits for a draft,
\* because the scans of retention and of a load leave drafts out.
THEOREM EditorNeverInDeadlockHolds == Spec => []EditorNeverInDeadlock
<1>1. ASSUME IInv PROVE EditorNeverInDeadlock
  <2>1. TypeOK /\ Apart /\ (\A u \in Tx : InPlace(u)) /\ Editors \subseteq Tx
    BY <1>1 DEF IInv, Tx
  <2>2. ASSUME NEW t \in Editors PROVE ~InCycle(t)
    <3>1. CASE pc[t] = "mint"
      <4>1. /\ Calm \in SUBSET Tx /\ t \notin Calm /\ WaitsFor(t) \subseteq Calm
        BY <2>1, <3>1, WhoWaits DEF Calm
      <4>2. ASSUME NEW u \in Calm PROVE WaitsFor(u) \subseteq Calm
        BY <2>1, <4>2, WhoWaits DEF Calm
      <4>3. QED
        BY <2>1, <4>1, <4>2, NotBehind
    <3>2. CASE pc[t] = "edit"
      <4> DEFINE S == Calm \cup {e \in Editors : pc[e] \in {"mint", "commit"}}
      <4>1. S \in SUBSET Tx /\ t \notin S /\ WaitsFor(t) \subseteq S
        BY <2>1, <3>2, WhoWaits DEF Calm
      <4>2. ASSUME NEW u \in S PROVE WaitsFor(u) \subseteq S
        BY <2>1, <4>2, WhoWaits DEF Calm
      <4> HIDE DEF S
      <4>3. QED
        BY <2>1, <4>1, <4>2, NotBehind
    <3>3. CASE pc[t] \notin {"mint", "edit"}
      BY <2>1, <3>3, WhoWaits DEF InCycle
    <3>4. QED
      BY <3>1, <3>2, <3>3
  <2>3. QED
    BY <2>2 DEF EditorNeverInDeadlock
<1>2. QED
  BY <1>1, Invariance, PTL

\* Every publish replaces the version its draft was rebased on: lockActiveRow's lock is held from the
\* rebase to the commit, and whoever else would activate a version needs the same row.
THEOREM PublishesOnTopHolds == Spec => PublishesOnTop
<1>1. ASSUME IInv, Next PROVE \A t \in Writers : active' = t /\ active # t => parent[t] = active
  <2>1. SUFFICES ASSUME NEW t \in Writers, active' = t, active # t PROVE parent[t] = active
    OBVIOUS
  <2>2. PICK u \in Tx : Statement(u) \/ BreakDeadlock(u)
    BY <1>1 DEF Next
  <2>3. active' = u /\ pc[u] = "commit"
    BY <1>1, <2>1, <2>2, ActivatorHolds DEF IInv
  <2>4. OnTop(t) /\ pc[t] = "commit"
    BY <1>1, <2>1, <2>3 DEF IInv
  <2>5. QED
    BY <2>4 DEF OnTop, Activation
<1>2. ASSUME IInv, [Next]_vars PROVE [\A t \in Writers : active' = t /\ active # t => parent[t] = active]_vars
  BY <1>1, <1>2
<1>3. QED
  BY <1>2, Invariance, PTL DEF Spec, PublishesOnTop

\* A load without --supersede-edits never replaces an edit, although edits are published while it
\* waits for its locks: it examines the chain only after it has locked the active version again.
THEOREM LoadNeverHidesEditHolds == Spec => LoadNeverHidesEdit
<1>1. ASSUME IInv, Next PROVE \A t \in Loads \ Superseding : active' = t => active \notin Writers
  <2>1. SUFFICES ASSUME NEW t \in Loads \ Superseding, active' = t PROVE active \notin Writers
    OBVIOUS
  <2>2. CASE active' = active
    BY <2>1, <2>2, IdentitiesAssumption
  <2>3. CASE active' # active
    <3>1. PICK u \in Tx : Statement(u) \/ BreakDeadlock(u)
      BY <1>1 DEF Next
    <3>2. active' = u /\ cleared[u] = active
      BY <1>1, <2>3, <3>1, ActivatorHolds DEF IInv
    <3>3. active # None
      BY <1>1, ParticipantsAssumption DEF IInv, TypeOK
    <3>4. Examined(t) /\ cleared[t] # None
      BY <1>1, <2>1, <3>2, <3>3 DEF IInv
    <3>5. QED
      BY <2>1, <3>4 DEF Examined
  <2>4. QED
    BY <2>2, <2>3
<1>2. ASSUME IInv, [Next]_vars PROVE [\A t \in Loads \ Superseding : active' = t => active \notin Writers]_vars
  BY <1>1, <1>2
<1>3. QED
  BY <1>2, Invariance, PTL DEF Spec, LoadNeverHidesEdit

-----------------------------------------------------------------------------
(* The serial order *)

\* What a transaction has written by the place it is at: a number if it creates or loads, a version to
\* replace if it writes; and what is published was published by a transaction that is done.
Numbered(t, given) == \E g \in given : g[1] = t
Unminted == {"start", "insert", "edit", "mint"}
Unlabelled == {"start", "scan", "relock", "examine"}
Retention == {"prune", "scanPrune", "commit"}

Trace(t) ==
    /\ t \in published => pc[t] = "done"
    /\ pc[t] = "mint" => t \in Creating
    /\ t \in Loads => ~Numbered(t, ids)
    /\ t \notin Loads => ~Numbered(t, labels)
    /\ t \notin Loads /\ pc[t] \in Unminted => ~Numbered(t, ids)
    /\ t \notin Loads /\ pc[t] \notin Unminted \cup Ended => (Numbered(t, ids) <=> t \in Creating)
    /\ t \in Loads /\ pc[t] \in Unlabelled => ~Numbered(t, labels)
    /\ t \in Loads /\ pc[t] \in {"clear", "activate"} => Numbered(t, labels)
    /\ t \in Loads /\ pc[t] \in Retention => (Numbered(t, labels) <=> cleared[t] # None)
    /\ t \in Writers /\ pc[t] \in Retention => cleared[t] # None
Traces == \A t \in Tx : Trace(t)

\* A step of t writes no number of another transaction.
LEMMA OthersNumbers ==
    ASSUME TypeOK, NEW t \in Tx, InPlace(t), Statement(t) \/ BreakDeadlock(t)
    PROVE  /\ \A g : g[1] # t => (g \in ids' <=> g \in ids) /\ (g \in labels' <=> g \in labels)
           /\ \A u : u # t => (Numbered(u, ids') <=> Numbered(u, ids)) /\ (Numbered(u, labels') <=> Numbered(u, labels))
<1>1. ASSUME NEW outcome, Abort(t, outcome)
      PROVE  \A g : g[1] # t => (g \in ids' <=> g \in ids) /\ (g \in labels' <=> g \in labels)
  BY <1>1, AbortEffect
<1>2. ASSUME ids' = ids \/ MintExternalId(t),
             labels' = labels \/ labels' = labels \cup {<<t, NextNumber(labels)>>}, MintExternalId(t) => labels' = labels
      PROVE  \A g : g[1] # t => (g \in ids' <=> g \in ids) /\ (g \in labels' <=> g \in labels)
  BY <1>2 DEF MintExternalId
<1>3. MintExternalId(t) => labels' = labels
  BY DEF MintExternalId
<1>4. Commit(t) => ids' = ids /\ labels' = labels
  BY DEF Commit
<1>5. \A g : g[1] # t => (g \in ids' <=> g \in ids) /\ (g \in labels' <=> g \in labels)
  BY <1>1, <1>2, <1>3, <1>4, NumberingStep
<1>6. QED
  BY <1>5 DEF Numbered

LEMMA TraceStep ==
    ASSUME TypeOK, NEW t \in Tx, InPlace(t), Trace(t), Statement(t) \/ BreakDeadlock(t)
    PROVE  Trace(t)'
<1>1. pc \in [Tx -> Labels] /\ cleared \in [Tx -> Version \cup {None}]
  BY DEF TypeOK
<1>2. pc[t] # "done" /\ t \notin published /\ None # active
  BY NumberingStep, ParticipantsAssumption DEF TypeOK, Trace
<1>3. pc'[t] = "done" \/ t \notin published'
  <2>1. Commit(t) => pc'[t] = "done"
    BY <1>1 DEF Commit, End, Goto
  <2>2. QED
    BY <1>2, <2>1, ActiveStep
<1>4. /\ t \in Writers => t \notin Loads /\ t \notin Editors
      /\ t \in Loads => t \notin Editors
      /\ t \in Writers \/ t \in Loads \/ t \in Editors
  BY IdentitiesAssumption DEF Tx
<1>5. /\ pc[t] \in {"insert", "lockActive", "rebase"} => t \in Writers
      /\ pc[t] \in {"scan", "relock", "examine"} => t \in Loads
      /\ pc[t] = "edit" => t \in Editors
      /\ pc[t] = "mint" => t \notin Loads
      /\ pc[t] \in {"clear", "activate", "prune", "scanPrune"} => t \notin Editors
  BY <1>4, Zenon DEF InPlace, WriterLabels, LoadLabels, EditorLabels, Activation, Ended
<1>6. ASSUME NEW outcome \in Ended, Abort(t, outcome) PROVE Trace(t)'
  <2>1. pc'[t] = outcome /\ ids' = {i \in ids : i[1] # t} /\ labels' = {l \in labels : l[1] # t}
    BY <1>1, <1>6, AbortEffect
  <2>2. ~Numbered(t, ids') /\ ~Numbered(t, labels')
    BY <2>1 DEF Numbered
  <2>3. /\ pc'[t] \notin Unminted /\ pc'[t] \notin Unlabelled /\ pc'[t] \notin Retention
        /\ pc'[t] \notin {"clear", "activate"} /\ pc'[t] \in Ended /\ pc'[t] # "mint"
    BY <2>1, Zenon DEF Ended, Unminted, Unlabelled, Retention
  <2>4. QED
    BY <1>3, <2>2, <2>3 DEF Trace
<1>7. /\ \A label : Goto(t, label) => pc'[t] = label
      /\ \A v, mode, label : Request(t, v, mode, label) => pc'[t] = label
  BY <1>1 DEF Request, Goto
<1>8. /\ \A label \in {"start", "insert", "edit", "mint", "lockActive", "rebase", "clear", "activate", "prune",
                       "scanPrune", "commit", "scan", "relock", "examine"} : label \notin Ended
      /\ "done" \in Ended
  BY Zenon DEF Ended
<1>9. \A outcome \in {"stale", "refused", "unique", "edits on top", "deadlock"} : outcome \in Ended
  BY Zenon DEF Ended
<1> DEFINE Writes(from, to) == pc[t] = from /\ pc'[t] = to /\ ids' = ids /\ labels' = labels
           Moves(from, to) == Writes(from, to) /\ cleared'[t] = cleared[t]
<1> USE <1>2, <1>3, <1>4, <1>5, <1>8 DEF Trace, Unminted, Unlabelled, Retention
<1>11. ASSUME OpenDraft(t) \/ LockDraft(t) PROVE Trace(t)'
  <2>1. (t \in Writers /\ Moves("start", "insert")) \/ (t \in Editors /\ Moves("start", "edit"))
    BY <1>7, <1>11, Zenon DEF OpenDraft, LockDraft
  <2>2. QED
    BY <2>1
<1>12. ASSUME InsertDraft(t) PROVE Trace(t)'
  <2>1. Moves("insert", IF t \in Creating THEN "mint" ELSE "lockActive")
    BY <1>1, <1>12 DEF InsertDraft, Goto
  <2>2. QED
    BY <2>1
<1>13. ASSUME MintExternalId(t) PROVE Trace(t)'
  <2>1. /\ pc[t] = "mint" /\ labels' = labels
        /\ pc'[t] = IF t \in Editors THEN "commit" ELSE "lockActive"
    BY <1>1, <1>13 DEF MintExternalId, Goto
  <2>2. t \in Creating /\ t \notin Loads
    BY <2>1
  <2>3. Numbered(t, ids')
    <3>1. <<t, NextNumber(ids)>> \in ids' /\ <<t, NextNumber(ids)>>[1] = t
      BY <1>13 DEF MintExternalId
    <3>2. QED
      BY <3>1 DEF Numbered
  <2>4. QED
    BY <2>1, <2>2, <2>3
<1>14. ASSUME LockActive(t) PROVE Trace(t)'
  <2>1. CASE tries[t] < Attempts
    <3>1. Moves("lockActive", "lockActive")
      BY <1>7, <1>14, <2>1, Zenon DEF LockActive
    <3>2. QED
      BY <3>1
  <2>2. CASE ~(tries[t] < Attempts)
    BY <1>6, <1>9, <1>14, <2>2, Zenon DEF LockActive
  <2>3. QED
    BY <2>1, <2>2
<1>15. ASSUME ActiveLocked(t) PROVE Trace(t)'
  <2>1. \E to \in {"rebase", "lockActive"} : Moves("lockActive", to)
    BY <1>1, <1>15 DEF ActiveLocked, Goto
  <2>2. QED
    BY <2>1
<1>16. ASSUME Rebase(t) PROVE Trace(t)'
  <2>1. Moves("rebase", "clear")
    BY <1>1, <1>16 DEF Rebase, Goto
  <2>2. QED
    BY <2>1
<1>17. ASSUME Refuse(t) \/ BreakDeadlock(t) PROVE Trace(t)'
  BY <1>6, <1>9, <1>17, Zenon DEF Refuse, BreakDeadlock
<1>18. ASSUME ClearActive(t) PROVE Trace(t)'
  <2>1. Moves("clear", "clear")
    BY <1>7, <1>18, Zenon DEF ClearActive
  <2>2. QED
    BY <2>1
<1>19. ASSUME ActiveCleared(t) PROVE Trace(t)'
  <2>1. Writes("clear", "activate")
    BY <1>1, <1>19 DEF ActiveCleared, Goto
  <2>2. QED
    BY <2>1
<1>20. ASSUME SetActive(t) PROVE Trace(t)'
  <2>1. CASE cleared[t] = active
    <3>1. Moves("activate", "prune")
      BY <1>1, <1>20, <2>1 DEF SetActive, Goto
    <3>2. QED
      BY <2>1, <3>1
  <2>2. CASE cleared[t] # active
    BY <1>6, <1>9, <1>20, <2>2, Zenon DEF SetActive
  <2>3. QED
    BY <2>1, <2>2
<1>21. ASSUME BeginScan(t) PROVE Trace(t)'
  <2>1. (t \in Loads /\ Moves("start", "scan")) \/ Moves("prune", "scanPrune")
    BY <1>7, <1>21, Zenon DEF BeginScan
  <2>2. QED
    BY <2>1
<1>22. ASSUME NEW v \in Version, VisitRow(t, v) PROVE Trace(t)'
  <2>1. \E at \in {"scan", "scanPrune"} : Moves(at, at)
    BY <1>7, <1>22, Zenon DEF VisitRow
  <2>2. QED
    BY <2>1
<1>23. ASSUME RowLocked(t) PROVE Trace(t)'
  <2>1. \/ \E at \in {"scan", "scanPrune"} : Moves(at, at)
        \/ Moves("scan", "relock") \/ Moves("scanPrune", "commit")
    BY <1>7, <1>23, Zenon DEF RowLocked
  <2>2. QED
    BY <2>1
<1>24. ASSUME Commit(t) PROVE Trace(t)'
  <2>1. Writes("commit", "done")
    BY <1>1, <1>24 DEF Commit, End, Goto
  <2>2. QED
    BY <2>1
<1>25. ASSUME RelockActive(t) PROVE Trace(t)'
  <2>1. Moves("relock", "relock")
    BY <1>7, <1>25, Zenon DEF RelockActive
  <2>2. QED
    BY <2>1
<1>26. ASSUME ActiveRelocked(t) PROVE Trace(t)'
  <2>1. Moves("relock", "examine")
    BY <1>1, <1>26 DEF ActiveRelocked, Goto
  <2>2. QED
    BY <2>1
<1>27. ASSUME ExamineChain(t), cleared[t] = None PROVE Trace(t)'
  <2>1. CASE Goto(t, "prune") /\ UNCHANGED <<active, published, parent, locks, advisory, ids, labels, want, todo, tries, cleared>>
    <3>1. Moves("examine", "prune")
      BY <1>1, <1>27, <2>1 DEF ExamineChain, Goto
    <3>2. QED
      BY <1>27, <3>1
  <2>2. CASE /\ Goto(t, "clear") /\ labels' = labels \cup {<<t, NextNumber(labels)>>}
             /\ UNCHANGED <<active, published, parent, locks, advisory, ids, want, todo, tries, cleared>>
    <3>1. Numbered(t, labels')
      <4>1. <<t, NextNumber(labels)>> \in labels' /\ <<t, NextNumber(labels)>>[1] = t
        BY <2>2
      <4>2. QED
        BY <4>1 DEF Numbered
    <3>2. pc[t] = "examine" /\ pc'[t] = "clear" /\ ids' = ids
      BY <1>7, <1>27, <2>2, Zenon DEF ExamineChain
    <3>3. QED
      BY <3>1, <3>2
  <2>3. CASE Abort(t, "edits on top")
    BY <1>6, <1>9, <2>3, Zenon
  <2>4. QED
    BY <1>27, <2>1, <2>2, <2>3, Zenon DEF ExamineChain
<1>28. ExamineChain(t) => cleared[t] = None
  BY Zenon DEF ExamineChain, InPlace, Activation
<1>29. ASSUME DraftLocked(t) PROVE Trace(t)'
  <2>1. Moves("edit", IF t \in Creating THEN "mint" ELSE "commit")
    BY <1>1, <1>29 DEF DraftLocked, Goto
  <2>2. QED
    BY <2>1
<1> HIDE DEF Trace
<1>30. QED
  BY <1>11, <1>12, <1>13, <1>14, <1>15, <1>16, <1>17, <1>18, <1>19, <1>20, <1>21, <1>22, <1>23, <1>24, <1>25,
     <1>26, <1>27, <1>28, <1>29 DEF Statement

LEMMA TracesKept == IInv /\ Traces /\ [Next]_vars => Traces'
<1>1. SUFFICES ASSUME IInv, Traces, [Next]_vars PROVE Traces'
  OBVIOUS
<1>2. CASE UNCHANGED vars
  BY <1>1, <1>2 DEF vars, Traces, Trace, Numbered
<1>3. CASE Next
  <2>1. PICK t \in Tx : Statement(t) \/ BreakDeadlock(t)
    BY <1>3 DEF Next
  <2>2. TypeOK /\ InPlace(t) /\ Trace(t)
    BY <1>1 DEF IInv, Traces
  <2>3. Trace(t)'
    BY <2>1, <2>2, TraceStep
  <2>4. ASSUME NEW u \in Tx, u # t PROVE Trace(u)'
    <3>1. pc'[u] = pc[u] /\ cleared'[u] = cleared[u]
      BY <2>1, <2>2, <2>4, OthersStay DEF Others
    <3>2. (Numbered(u, ids') <=> Numbered(u, ids)) /\ (Numbered(u, labels') <=> Numbered(u, labels))
      BY <2>1, <2>2, <2>4, OthersNumbers
    <3>3. u \in published' => u \in published
      BY <2>1, <2>4, ActiveStep
    <3>4. Trace(u)
      BY <1>1 DEF Traces
    <3>5. QED
      BY <3>1, <3>2, <3>3, <3>4 DEF Trace
  <2>5. QED
    BY <2>3, <2>4 DEF Traces
<1>4. QED
  BY <1>1, <1>2, <1>3

LEMMA TracesInitially == Init => Traces
<1>1. ASSUME Init, NEW t \in Tx PROVE Trace(t)
  <2>1. PICK cast \in Casts : pc = [u \in Tx |-> IF u \in cast THEN "start" ELSE "done"]
    BY <1>1 DEF Init
  <2>2. ids = {} /\ labels = {} /\ published = Base /\ pc[t] \in {"start", "done"}
    BY <1>1, <2>1 DEF Init
  <2>3. ~Numbered(t, ids) /\ ~Numbered(t, labels)
    BY <2>2 DEF Numbered
  <2>4. t \notin Base
    BY IdentitiesAssumption
  <2>5. "done" \in Ended
    BY Zenon DEF Ended
  <2>6. QED
    BY <2>2, <2>3, <2>4, <2>5 DEF Trace, Unminted, Unlabelled, Retention
<1>2. QED
  BY <1>1 DEF Traces

BuiltOn == {<<t, parent[t]>> : t \in Writers \cap published}

\* Committed, with the places p of the transactions as a parameter.
CommittedOf(p, given) == {g[2] : g \in {h \in given : p[h[1]] = "done"}}

\* A transaction that does not commit changes none of the committed numbers.
LEMMA CommittedStays ==
    ASSUME NEW p, NEW q, NEW G, NEW H, NEW t, p[t] # "done", q[t] # "done",
           \A g : g[1] # t => (g \in H <=> g \in G), \A g \in G : g[1] # t => q[g[1]] = p[g[1]]
    PROVE  CommittedOf(q, H) = CommittedOf(p, G)
<1>1. {h \in G : p[h[1]] = "done"} = {h \in H : q[h[1]] = "done"}
  OBVIOUS
<1>2. QED
  BY <1>1 DEF CommittedOf

\* One that commits without a number, too.
LEMMA CommittedUnnumbered ==
    ASSUME NEW p, NEW q, NEW G, NEW t, ~Numbered(t, G), \A g \in G : g[1] # t => q[g[1]] = p[g[1]]
    PROVE  CommittedOf(q, G) = CommittedOf(p, G)
<1>1. \A g \in G : q[g[1]] = p[g[1]]
  BY DEF Numbered
<1>2. {h \in G : p[h[1]] = "done"} = {h \in G : q[h[1]] = "done"}
  BY <1>1
<1>3. QED
  BY <1>2 DEF CommittedOf

\* And the number of one that commits with it is the next.
LEMMA CommittedNext ==
    ASSUME NEW p, NEW q, NEW G, NEW W, NEW t, NumbersOf(p, G, W), Numbered(t, G), p[t] # "done", q[t] = "done",
           \A g \in G : g[1] # t => q[g[1]] = p[g[1]]
    PROVE  CommittedOf(q, G) = CommittedOf(p, G) \cup {Cardinality(CommittedOf(p, G)) + 1}
<1>1. PICK n \in Nat : /\ CommittedOf(p, G) = 1 .. n
                       /\ \A g \in G : p[g[1]] = "done" \/ (g[2] = n + 1 /\ g[1] \in W)
  BY DEF NumbersOf, CommittedOf
<1>2. Cardinality(CommittedOf(p, G)) = n
  <2>1. Cardinality(1 .. n) = IF 1 > n THEN 0 ELSE n - 1 + 1
    BY FS_Interval
  <2>2. QED
    BY <1>1, <2>1
<1>3. PICK own \in G : own[1] = t
  BY DEF Numbered
<1>4. own[2] = n + 1
  BY <1>1, <1>3
<1>5. ASSUME NEW k PROVE k \in CommittedOf(q, G) <=> k \in CommittedOf(p, G) \/ k = n + 1
  <2>1. ASSUME k \in CommittedOf(q, G) PROVE k \in CommittedOf(p, G) \/ k = n + 1
    <3>1. PICK g \in G : q[g[1]] = "done" /\ g[2] = k
      BY <2>1 DEF CommittedOf
    <3>2. p[g[1]] = "done" \/ g[2] = n + 1
      BY <1>1
    <3>3. QED
      BY <3>1, <3>2 DEF CommittedOf
  <2>2. ASSUME k \in CommittedOf(p, G) PROVE k \in CommittedOf(q, G)
    <3>1. PICK g \in G : p[g[1]] = "done" /\ g[2] = k
      BY <2>2 DEF CommittedOf
    <3>2. q[g[1]] = "done"
      BY <3>1
    <3>3. QED
      BY <3>1, <3>2 DEF CommittedOf
  <2>3. n + 1 \in CommittedOf(q, G)
    BY <1>3, <1>4 DEF CommittedOf
  <2>4. QED
    BY <2>1, <2>2, <2>3
<1>6. QED
  BY <1>2, <1>5

\* The serial order counts as this module does.
LEMMA SerialNumber == \A given : Serial!WithNext(given) = given \cup {Cardinality(given) + 1}
<1>1. \A given : Serial!Cardinality(given) = Cardinality(given)
  BY DEF Serial!Cardinality, Cardinality
<1>2. QED
  BY <1>1 DEF Serial!WithNext

\* The steps of the serial order, from what they change.
LEMMA SerialWrite ==
    ASSUME NEW t \in Writers, t \notin published, active' = t, published' = published \cup {t},
           BuiltOn' = BuiltOn \cup {<<t, active>>},
           Committed(ids)' = IF t \in Creating THEN Serial!WithNext(Committed(ids)) ELSE Committed(ids),
           Committed(labels)' = Committed(labels)
    PROVE  Serial!Next
<1>1. Serial!Write(t)
  BY Zenon DEF Serial!Write, Serial!GoesLive, Serial!Identify, BuiltOn
<1>2. QED
  BY <1>1, Zenon DEF Serial!Next

LEMMA SerialLoad ==
    ASSUME NEW t \in Loads, active \in Writers => t \in Superseding, t \notin published,
           active' = t, published' = published \cup {t}, BuiltOn' = BuiltOn,
           Committed(labels)' = Serial!WithNext(Committed(labels)), Committed(ids)' = Committed(ids)
    PROVE  Serial!Next
<1>1. Serial!Load(t)
  BY Zenon DEF Serial!Load, Serial!GoesLive, BuiltOn
<1>2. QED
  BY <1>1, Zenon DEF Serial!Next

LEMMA SerialEdit ==
    ASSUME NEW t \in Editors, active' = active, published' = published, BuiltOn' = BuiltOn,
           Committed(ids)' = IF t \in Creating THEN Serial!WithNext(Committed(ids)) ELSE Committed(ids),
           Committed(labels)' = Committed(labels)
    PROVE  Serial!Next
<1>1. Serial!Edit(t)
  BY Zenon DEF Serial!Edit, Serial!Identify, BuiltOn
<1>2. QED
  BY <1>1, Zenon DEF Serial!Next

\* What the writes are built on changes with a write that goes live.
LEMMA BuiltOnStep ==
    ASSUME TypeOK, NEW t \in Tx, t \notin published, Statement(t) \/ BreakDeadlock(t)
    PROVE  /\ published' = published => BuiltOn' = BuiltOn
           /\ t \notin Writers /\ (published' = published \/ published' = published \cup {t}) => BuiltOn' = BuiltOn
           /\ t \in Writers /\ published' = published \cup {t} => BuiltOn' = BuiltOn \cup {<<t, parent'[t]>>}
<1>1. \A u \in Writers \cap published : parent'[u] = parent[u]
  BY OthersStay DEF Others, Tx
<1>2. ASSUME Writers \cap published' = Writers \cap published PROVE BuiltOn' = BuiltOn
  BY <1>1, <1>2 DEF BuiltOn
<1>3. ASSUME t \in Writers, published' = published \cup {t} PROVE BuiltOn' = BuiltOn \cup {<<t, parent'[t]>>}
  <2>1. Writers \cap published' = (Writers \cap published) \cup {t}
    BY <1>3
  <2>2. BuiltOn' = {<<u, parent'[u]>> : u \in (Writers \cap published) \cup {t}}
    BY <2>1 DEF BuiltOn
  <2>3. QED
    BY <1>1, <2>2 DEF BuiltOn
<1>4. QED
  BY <1>2, <1>3

\* Every step is a step of the serial order, taken at the commit, or none of its business.
LEMMA SerialStep ==
    ASSUME IInv, Traces, [Next]_vars
    PROVE  \/ Serial!Next
           \/ /\ active' = active /\ published' = published /\ BuiltOn' = BuiltOn
              /\ Committed(ids)' = Committed(ids) /\ Committed(labels)' = Committed(labels)
<1>1. CASE UNCHANGED vars
  BY <1>1 DEF vars, BuiltOn, Committed
<1>2. ASSUME NEW t \in Tx, Statement(t) \/ BreakDeadlock(t)
      PROVE  \/ Serial!Next
             \/ /\ active' = active /\ published' = published /\ BuiltOn' = BuiltOn
                /\ Committed(ids)' = Committed(ids) /\ Committed(labels)' = Committed(labels)
  <2>1. /\ TypeOK /\ InPlace(t) /\ Trace(t)
        /\ NumbersOf(pc, ids, {advisory}) /\ NumbersOf(pc, labels, Labelling)
    BY DEF IInv, Traces, Numbers, NumbersOf
  <2>2. pc[t] # "done" /\ t \notin published
    BY <1>2, <2>1, NumberingStep DEF Trace
  <2>3. /\ \A g \in ids : g[1] # t => pc'[g[1]] = pc[g[1]]
        /\ \A g \in labels : g[1] # t => pc'[g[1]] = pc[g[1]]
    BY <1>2, <2>1, OthersStay DEF Others, TypeOK
  <2>4. /\ \A given : Committed(given) = CommittedOf(pc, given)
        /\ Committed(ids)' = CommittedOf(pc', ids') /\ Committed(labels)' = CommittedOf(pc', labels')
    BY DEF Committed, CommittedOf
  <2>5. CASE ~Commit(t)
    <3>1. pc'[t] # "done"
      <4>1. ASSUME NEW outcome \in Ended \ {"done"}, Abort(t, outcome) PROVE pc'[t] # "done"
        <5>1. pc' = [pc EXCEPT ![t] = outcome] /\ pc \in [Tx -> Labels]
          BY <2>1, <4>1, AbortEffect DEF TypeOK
        <5>2. QED
          BY <5>1
      <4>2. QED
        BY <1>2, <2>1, <2>5, <4>1, NumberingStep
    <3>2. /\ \A g : g[1] # t => (g \in ids' <=> g \in ids)
          /\ \A g : g[1] # t => (g \in labels' <=> g \in labels)
      BY <1>2, <2>1, OthersNumbers
    <3>3. CommittedOf(pc', ids') = CommittedOf(pc, ids)
      BY <2>2, <2>3, <3>1, <3>2, CommittedStays
    <3>4. CommittedOf(pc', labels') = CommittedOf(pc, labels)
      BY <2>2, <2>3, <3>1, <3>2, CommittedStays
    <3>5. active' = active /\ published' = published
      BY <1>2, <2>5, ActiveStep
    <3>6. BuiltOn' = BuiltOn
      BY <1>2, <2>1, <2>2, <3>5, BuiltOnStep
    <3>7. QED
      BY <2>4, <3>3, <3>4, <3>5, <3>6
  <2>6. CASE Commit(t)
    <3>1. /\ pc[t] = "commit" /\ pc'[t] = "done" /\ ids' = ids /\ labels' = labels /\ parent' = parent
          /\ IF t \in Editors \/ cleared[t] = None THEN active' = active /\ published' = published
             ELSE active' = t /\ published' = published \cup {t}
      BY <2>1, <2>6 DEF Commit, End, Goto, TypeOK
    <3>2. "commit" \in Retention /\ "commit" \notin Unminted \cup Ended
      BY Zenon DEF Retention, Unminted, Ended
    <3>3. /\ Numbered(t, ids) => Committed(ids)' = Serial!WithNext(Committed(ids))
          /\ ~Numbered(t, ids) => Committed(ids)' = Committed(ids)
      <4>1. ASSUME Numbered(t, ids) PROVE CommittedOf(pc', ids) = CommittedOf(pc, ids) \cup {Cardinality(CommittedOf(pc, ids)) + 1}
        BY <2>1, <2>2, <2>3, <3>1, <4>1, CommittedNext
      <4>2. ASSUME ~Numbered(t, ids) PROVE CommittedOf(pc', ids) = CommittedOf(pc, ids)
        BY <2>3, <4>2, CommittedUnnumbered
      <4>3. Committed(ids) = CommittedOf(pc, ids) /\ Committed(ids)' = CommittedOf(pc', ids)
        BY <2>4, <3>1
      <4>4. Serial!WithNext(Committed(ids)) = CommittedOf(pc, ids) \cup {Cardinality(CommittedOf(pc, ids)) + 1}
        BY <4>3, SerialNumber
      <4>5. QED
        BY <4>1, <4>2, <4>3, <4>4
    <3>4. /\ Numbered(t, labels) => Committed(labels)' = Serial!WithNext(Committed(labels))
          /\ ~Numbered(t, labels) => Committed(labels)' = Committed(labels)
      <4>1. ASSUME Numbered(t, labels)
            PROVE  CommittedOf(pc', labels) = CommittedOf(pc, labels) \cup {Cardinality(CommittedOf(pc, labels)) + 1}
        BY <2>1, <2>2, <2>3, <3>1, <4>1, CommittedNext
      <4>2. ASSUME ~Numbered(t, labels) PROVE CommittedOf(pc', labels) = CommittedOf(pc, labels)
        BY <2>3, <4>2, CommittedUnnumbered
      <4>3. Committed(labels) = CommittedOf(pc, labels) /\ Committed(labels)' = CommittedOf(pc', labels)
        BY <2>4, <3>1
      <4>4. Serial!WithNext(Committed(labels)) = CommittedOf(pc, labels) \cup {Cardinality(CommittedOf(pc, labels)) + 1}
        BY <4>3, SerialNumber
      <4>5. QED
        BY <4>1, <4>2, <4>3, <4>4
    <3>5. CASE t \in Editors
      <4>1. t \notin Loads
        BY <3>5, IdentitiesAssumption
      <4>2. (Numbered(t, ids) <=> t \in Creating) /\ ~Numbered(t, labels)
        BY <2>1, <3>1, <3>2, <4>1 DEF Trace
      <4>3. BuiltOn' = BuiltOn /\ active' = active /\ published' = published
        BY <1>2, <2>1, <2>2, <3>1, <3>5, BuiltOnStep
      <4>4. QED
        BY <3>3, <3>4, <3>5, <4>2, <4>3, SerialEdit
    <3>6. CASE t \in Writers
      <4>1. t \notin Loads /\ t \notin Editors
        BY <3>6, IdentitiesAssumption
      <4>2. (Numbered(t, ids) <=> t \in Creating) /\ ~Numbered(t, labels) /\ cleared[t] # None
        BY <2>1, <3>1, <3>2, <3>6, <4>1 DEF Trace
      <4>3. active' = t /\ published' = published \cup {t}
        BY <3>1, <4>1, <4>2
      <4>4. OnTop(t)
        BY <3>6 DEF IInv
      <4>5. parent'[t] = active
        BY <3>1, <4>4, Zenon DEF OnTop, Activation
      <4>6. BuiltOn' = BuiltOn \cup {<<t, active>>}
        BY <1>2, <2>1, <2>2, <3>6, <4>3, <4>5, BuiltOnStep
      <4>7. QED
        BY <2>2, <3>3, <3>4, <3>6, <4>2, <4>3, <4>6, SerialWrite
    <3>7. CASE t \in Loads
      <4>1. t \notin Writers /\ t \notin Editors
        BY <3>7, IdentitiesAssumption
      <4>2. (Numbered(t, labels) <=> cleared[t] # None) /\ ~Numbered(t, ids)
        BY <2>1, <3>1, <3>2, <3>7 DEF Trace
      <4>3. BuiltOn' = BuiltOn
        BY <1>2, <2>1, <2>2, <3>1, <4>1, BuiltOnStep
      <4>4. CASE cleared[t] = None
        BY <3>1, <3>3, <3>4, <4>2, <4>3, <4>4
      <4>5. CASE cleared[t] # None
        <5>1. active \in Writers => t \in Superseding
          BY <3>7, <4>5 DEF IInv, Examined
        <5>2. QED
          BY <2>2, <3>1, <3>3, <3>4, <3>7, <4>1, <4>2, <4>3, <4>5, <5>1, SerialLoad
      <4>6. QED
        BY <4>4, <4>5
    <3>8. QED
      BY <3>5, <3>6, <3>7 DEF Tx
  <2>7. QED
    BY <2>5, <2>6
<1>3. QED
  BY <1>1, <1>2 DEF Next

\* However their statements interleave, the transactions that write a layer take effect one after another,
\* each at its commit: a write on the version it was rebased on, a load over no edit it may not supersede,
\* and with the next number each, without a gap, though every one reads under READ COMMITTED.
THEOREM PublishingIsSerial == Spec => ImplementsSerialPublishing
<1>1. Init => Serial!Init
  <2>1. ASSUME Init PROVE BuiltOn = {} /\ Committed(ids) = {} /\ Committed(labels) = {}
    <3>1. Writers \cap published = {}
      BY <2>1, IdentitiesAssumption DEF Init, Tx
    <3>2. ids = {} /\ labels = {}
      BY <2>1 DEF Init
    <3>3. QED
      BY <3>1, <3>2 DEF BuiltOn, Committed
  <2>2. QED
    BY <2>1, Zenon DEF Init, Serial!Init, BuiltOn
<1>2. ASSUME IInv, Traces, [Next]_vars
      PROVE  [Serial!Next]_<<active, published, {<<t, parent[t]>> : t \in Writers \cap published}, Committed(ids), Committed(labels)>>
  BY <1>2, SerialStep DEF BuiltOn
<1>3. Spec => []Traces
  BY Invariance, TracesInitially, TracesKept, PTL DEF Spec
<1>4. QED
  BY <1>1, <1>2, <1>3, Invariance, PTL DEF Spec, ImplementsSerialPublishing, Serial!Spec

-----------------------------------------------------------------------------
(* Tables of rows. *)

LEMMA EvaluatedIs == ASSUME NEW f PROVE Evaluated(f) = f
BY DEF Evaluated

\* Every set of numbers that is not empty has a least one.
LEMMA LeastNumber ==
  ASSUME NEW S \in SUBSET Nat, S # {}
  PROVE  \E x \in S : \A y \in S : x <= y
<1> DEFINE R == {p \in Nat \X Nat : p[1] < p[2]}
<1>1. IsWellFoundedOn(R, Nat)
  BY NatLessThanWellFounded DEF OpToRel
<1> HIDE DEF R
<1>2. S \subseteq Nat
  OBVIOUS
<1>3. PICK x \in S : \A y \in S : ~ (<<y, x>> \in R)
  BY <1>1, <1>2, WFMin, Zenon
<1>4. ASSUME NEW y \in S PROVE x <= y
  <2>1. x \in Nat /\ y \in Nat /\ <<y, x>> \in Nat \X Nat
    BY <1>2
  <2>2. ~ (y < x)
    BY <1>3, <2>1, Zenon DEF R
  <2>3. QED
    BY <2>1, <2>2
<1>5. QED
  BY <1>4

\* The least of a set that has one.
LEMMA MinIs ==
  ASSUME NEW S \in SUBSET Nat, NEW x \in S, \A y \in S : x <= y
  PROVE  Min(S) = x
<1>1. Min(S) \in S /\ \A y \in S : Min(S) <= y
  BY Zenon DEF Min
<1>2. Min(S) \in Nat /\ x \in Nat /\ Min(S) <= x /\ x <= Min(S)
  BY <1>1
<1>3. QED
  BY <1>2

LEMMA OverIs ==
  ASSUME NEW f, NEW g
  PROVE  /\ \A id : id \in DOMAIN Over(f, g) <=> id \in DOMAIN f \/ id \in DOMAIN g
         /\ \A id \in DOMAIN f : Over(f, g)[id] = f[id]
         /\ \A id \in DOMAIN g : id \notin DOMAIN f => Over(f, g)[id] = g[id]
<1>1. Over(f, g) = [id \in DOMAIN f \cup DOMAIN g |-> IF id \in DOMAIN f THEN f[id] ELSE g[id]]
  BY EvaluatedIs, Zenon DEF Over
<1>2. QED
  BY <1>1

LEMMA OverWithin ==
  ASSUME NEW f, NEW g, DOMAIN f \subseteq DOMAIN g
  PROVE  DOMAIN Over(f, g) = DOMAIN g
BY OverIs

LEMMA OverIsFunction ==
  ASSUME NEW f, NEW g
  PROVE  Over(f, g) = [id \in DOMAIN Over(f, g) |-> Over(f, g)[id]]
<1>1. Over(f, g) = [id \in DOMAIN f \cup DOMAIN g |-> IF id \in DOMAIN f THEN f[id] ELSE g[id]]
  BY EvaluatedIs, Zenon DEF Over
<1>2. QED
  BY <1>1

LEMMA LiveIs ==
  ASSUME NEW rows
  PROVE  /\ \A id : id \in DOMAIN Live(rows) <=> id \in DOMAIN rows /\ ~rows[id].deleted
         /\ \A id \in DOMAIN Live(rows) : Live(rows)[id] = rows[id]
<1>1. Live(rows) = [id \in {id \in DOMAIN rows : ~rows[id].deleted} |-> rows[id]]
  BY EvaluatedIs, Zenon DEF Live
<1>2. QED
  BY <1>1

LEMMA LiveIsFunction ==
  ASSUME NEW rows
  PROVE  Live(rows) = [id \in DOMAIN Live(rows) |-> Live(rows)[id]]
<1>1. Live(rows) = [id \in {id \in DOMAIN rows : ~rows[id].deleted} |-> rows[id]]
  BY EvaluatedIs, Zenon DEF Live
<1>2. QED
  BY <1>1

\* The nearest rows of the tables of a version and its ancestors: its own, then theirs.
LEMMA NearestOver ==
  ASSUME NEW s, NEW t, NEW n \in Nat,
         DOMAIN s = 1..n, DOMAIN t = 1..(n + 1),
         \A i \in 1..n : t[i + 1] = s[i]
  PROVE  Nearest(t) = Over(t[1], Nearest(s))
<1> DEFINE With(f, id) == {i \in DOMAIN f : id \in DOMAIN f[i]}
           All(f) == UNION {DOMAIN f[i] : i \in DOMAIN f}
<1>1. \A f : Nearest(f) = [id \in All(f) |-> f[Min(With(f, id))][id]]
  BY EvaluatedIs, Zenon DEF Nearest
<1>2. \A id : id \in DOMAIN t[1] => Min(With(t, id)) = 1
  <2> SUFFICES ASSUME NEW id, id \in DOMAIN t[1] PROVE Min(With(t, id)) = 1
    OBVIOUS
  <2>1. With(t, id) \in SUBSET Nat /\ 1 \in With(t, id) /\ \A y \in With(t, id) : 1 <= y
    OBVIOUS
  <2>2. QED
    BY <2>1, MinIs
<1>3. \A id : id \in All(s) /\ id \notin DOMAIN t[1] => t[Min(With(t, id))] = s[Min(With(s, id))]
  <2> SUFFICES ASSUME NEW id, id \in All(s), id \notin DOMAIN t[1]
               PROVE  t[Min(With(t, id))] = s[Min(With(s, id))]
    OBVIOUS
  <2>1. With(s, id) \in SUBSET Nat /\ With(s, id) # {}
    OBVIOUS
  <2>2. PICK x \in With(s, id) : \A y \in With(s, id) : x <= y
    BY <2>1, LeastNumber
  <2>3. Min(With(s, id)) = x
    BY <2>1, <2>2, MinIs
  <2>4. x + 1 \in With(t, id) /\ With(t, id) \in SUBSET Nat
    BY <2>2
  <2>5. ASSUME NEW y \in With(t, id) PROVE x + 1 <= y
    <3>1. y \in 1..(n + 1) /\ y # 1
      OBVIOUS
    <3>2. y - 1 \in 1..n /\ t[(y - 1) + 1] = s[y - 1] /\ (y - 1) + 1 = y
      BY <3>1
    <3>3. y - 1 \in With(s, id)
      BY <3>2
    <3>4. QED
      BY <3>3, <3>1, <2>2
  <2>6. Min(With(t, id)) = x + 1
    BY <2>4, <2>5, MinIs
  <2>7. QED
    BY <2>2, <2>3, <2>6
<1>4. All(t) = DOMAIN t[1] \cup All(s)
  <2>1. ASSUME NEW id \in All(t) PROVE id \in DOMAIN t[1] \cup All(s)
    <3>1. PICK i \in 1..(n + 1) : id \in DOMAIN t[i]
      OBVIOUS
    <3>2. CASE i = 1
      BY <3>1, <3>2
    <3>3. CASE i # 1
      <4>1. i - 1 \in 1..n /\ t[(i - 1) + 1] = s[i - 1] /\ (i - 1) + 1 = i
        BY <3>1, <3>3
      <4>2. QED
        BY <4>1, <3>1
    <3>4. QED
      BY <3>2, <3>3
  <2>2. ASSUME NEW id \in All(s) PROVE id \in All(t)
    <3>1. PICK i \in 1..n : id \in DOMAIN s[i]
      OBVIOUS
    <3>2. i + 1 \in 1..(n + 1) /\ id \in DOMAIN t[i + 1]
      BY <3>1
    <3>3. QED
      BY <3>2
  <2>3. DOMAIN t[1] \subseteq All(t)
    <3>1. 1 \in DOMAIN t
      OBVIOUS
    <3>2. QED
      BY <3>1
  <2>4. QED
    BY <2>1, <2>2, <2>3
<1> HIDE DEF With, All
<1>5. DOMAIN Nearest(s) = All(s) /\ DOMAIN Nearest(t) = All(t)
  BY <1>1
<1>6. ASSUME NEW id \in All(t) PROVE Nearest(t)[id] = Over(t[1], Nearest(s))[id]
  <2>1. CASE id \in DOMAIN t[1]
    BY <2>1, <1>1, <1>2, OverIs
  <2>2. CASE id \notin DOMAIN t[1]
    <3>1. id \in All(s)
      BY <2>2, <1>4
    <3>2. Over(t[1], Nearest(s))[id] = s[Min(With(s, id))][id]
      BY <3>1, <2>2, <1>1, <1>5, OverIs
    <3>3. QED
      BY <3>1, <3>2, <2>2, <1>1, <1>3
  <2>3. QED
    BY <2>1, <2>2
<1>7. QED
  <2>1. Over(t[1], Nearest(s)) = [id \in All(t) |-> Over(t[1], Nearest(s))[id]]
    BY OverIs, OverIsFunction, <1>4, <1>5
  <2>2. Nearest(t) = [id \in All(t) |-> Nearest(t)[id]]
    BY <1>1
  <2>3. QED
    BY <2>1, <2>2, <1>6

\* Building over rows keeps which features are live, and replaces the rows of some of them.
LEMMA LiveOver ==
  ASSUME NEW W, NEW own, NEW above,
         DOMAIN W \subseteq DOMAIN Live(Over(own, above)),
         \A id \in DOMAIN W : ~W[id].deleted
  PROVE  Live(Over(Over(W, own), above)) = Over(W, Live(Over(own, above)))
<1> DEFINE old == Over(own, above)
           new == Over(Over(W, own), above)
<1>1. DOMAIN new = DOMAIN old
  <2>1. \A id \in DOMAIN W : id \in DOMAIN old
    BY LiveIs
  <2>2. \A id : id \in DOMAIN new <=> id \in DOMAIN W \/ id \in DOMAIN own \/ id \in DOMAIN above
    BY OverIs
  <2>3. \A id : id \in DOMAIN old <=> id \in DOMAIN own \/ id \in DOMAIN above
    BY OverIs
  <2> HIDE DEF old, new
  <2>4. QED
    BY <2>1, <2>2, <2>3
<1>2. \A id \in DOMAIN new : new[id] = IF id \in DOMAIN W THEN W[id] ELSE old[id]
  BY OverIs
<1>3. DOMAIN W \subseteq DOMAIN Live(old)
  OBVIOUS
<1> HIDE DEF old, new
<1>4. ASSUME NEW id PROVE id \in DOMAIN Live(new) <=> id \in DOMAIN Live(old)
  <2>1. CASE id \in DOMAIN W
    <3>1. id \in DOMAIN Live(old) /\ id \in DOMAIN new /\ ~W[id].deleted
      BY <2>1, <1>3, <1>1, LiveIs
    <3>2. new[id] = W[id]
      BY <3>1, <2>1, <1>2
    <3>3. QED
      BY <3>1, <3>2, LiveIs
  <2>2. CASE id \notin DOMAIN W
    <3>1. id \in DOMAIN old => new[id] = old[id]
      BY <2>2, <1>1, <1>2
    <3>2. QED
      BY <3>1, <1>1, LiveIs
  <2>3. QED
    BY <2>1, <2>2
<1>5. DOMAIN Live(new) = DOMAIN Live(old)
  BY <1>4
<1>6. ASSUME NEW id \in DOMAIN Live(new) PROVE Live(new)[id] = Over(W, Live(old))[id]
  BY <1>1, <1>2, <1>5, LiveIs, OverIs
<1>7. DOMAIN Over(W, Live(old)) = DOMAIN Live(new)
  BY OverIs, <1>3, <1>5
<1>8. QED
  <2>1. Over(W, Live(old)) = [id \in DOMAIN Live(new) |-> Over(W, Live(old))[id]]
    BY OverIsFunction, <1>7
  <2>2. QED
    BY <2>1, <1>6, LiveIsFunction DEF old, new

\* The rows of each level that a chain of tables comes to, tombstones among them.
ReachRows(tables) == Nearest([i \in DOMAIN tables |-> tables[i].reach])
WayRows(tables) == Nearest([i \in DOMAIN tables |-> tables[i].way])
RiverRows(tables) == Nearest([i \in DOMAIN tables |-> tables[i].river])

IsReachRow(row) ==
    row = [flows |-> row.flows, order |-> row.order, parent |-> row.parent,
           confidence |-> row.confidence, deleted |-> row.deleted]
IsWayRow(row) ==
    /\ row = [name |-> row.name, course |-> row.course, parent |-> row.parent, deleted |-> row.deleted]
    /\ row.course \in Course
IsRiverRow(row) ==
    row = [name |-> row.name, order |-> row.order, geom |-> row.geom,
           flows |-> row.flows, deleted |-> row.deleted]

AreWays(rows) == \A w \in DOMAIN rows : IsWayRow(rows[w])

IsTable(t) ==
    /\ \A r \in DOMAIN t.reach : r \in Reach /\ IsReachRow(t.reach[r])
    /\ AreWays(t.way)
    /\ \A x \in DOMAIN t.river : IsRiverRow(t.river[x])

AreTables(tables) ==
    /\ tables \in Seq({tables[i] : i \in DOMAIN tables})
    /\ \A i \in DOMAIN tables : IsTable(tables[i])

LEMMA Stacking ==
  ASSUME NEW tables, AreTables(tables), NEW own, IsTable(own)
  PROVE  /\ AreTables(<<own>> \o tables)
         /\ Len(tables) \in Nat /\ DOMAIN tables = 1..Len(tables)
         /\ DOMAIN (<<own>> \o tables) = 1..(Len(tables) + 1)
         /\ (<<own>> \o tables)[1] = own
         /\ \A i \in 1..Len(tables) : (<<own>> \o tables)[i + 1] = tables[i]
<1> DEFINE T == {tables[i] : i \in DOMAIN tables} \cup {own}
           all == <<own>> \o tables
<1>1. tables \in Seq(T) /\ <<own>> \in Seq(T)
  BY DEF AreTables
<1>2. Len(tables) \in Nat /\ DOMAIN tables = 1..Len(tables)
  BY <1>1
<1>3. all \in Seq(T) /\ Len(all) = Len(tables) + 1
  BY <1>1
<1>4. DOMAIN all = 1..(Len(tables) + 1)
  BY <1>3
<1>5. all[1] = own /\ \A i \in 1..Len(tables) : all[i + 1] = tables[i]
  BY <1>1, <1>2
<1>6. \A i \in DOMAIN all : IsTable(all[i])
  <2> SUFFICES ASSUME NEW i \in 1..(Len(tables) + 1) PROVE IsTable(all[i])
    BY <1>4
  <2>1. CASE i = 1
    BY <2>1, <1>5
  <2>2. CASE i # 1
    <3>1. i - 1 \in 1..Len(tables) /\ all[(i - 1) + 1] = tables[i - 1] /\ (i - 1) + 1 = i
      BY <2>2, <1>2, <1>5
    <3>2. QED
      BY <3>1, <1>2 DEF AreTables
  <2>3. QED
    BY <2>1, <2>2
<1>7. all \in Seq({all[i] : i \in DOMAIN all})
  <2> DEFINE R == {all[i] : i \in DOMAIN all}
  <2>1. Len(all) \in Nat /\ DOMAIN all = 1..Len(all) /\ all = [i \in 1..Len(all) |-> all[i]]
    BY <1>2, <1>3, <1>4
  <2>2. \A i \in 1..Len(all) : all[i] \in R
    BY <2>1
  <2> HIDE DEF R, all
  <2>3. all \in [1..Len(all) -> R]
    BY <2>1, <2>2
  <2>4. all \in Seq(R)
    BY <2>1, <2>3
  <2>5. QED
    BY <2>4 DEF R
<1>8. QED
  BY <1>2, <1>4, <1>5, <1>6, <1>7 DEF AreTables

LEMMA RowsOver ==
  ASSUME NEW tables, AreTables(tables), NEW own, IsTable(own)
  PROVE  /\ ReachRows(<<own>> \o tables) = Over(own.reach, ReachRows(tables))
         /\ WayRows(<<own>> \o tables) = Over(own.way, WayRows(tables))
         /\ RiverRows(<<own>> \o tables) = Over(own.river, RiverRows(tables))
<1> DEFINE all == <<own>> \o tables
           n == Len(tables)
<1>1. /\ n \in Nat /\ DOMAIN tables = 1..n /\ DOMAIN all = 1..(n + 1)
      /\ all[1] = own /\ \A i \in 1..n : all[i + 1] = tables[i]
  BY Stacking
<1> HIDE DEF all, n
<1>2. ReachRows(all) = Over(own.reach, ReachRows(tables))
  <2> DEFINE s == [i \in DOMAIN tables |-> tables[i].reach]
             t == [i \in DOMAIN all |-> all[i].reach]
  <2>1. DOMAIN s = 1..n /\ DOMAIN t = 1..(n + 1) /\ t[1] = own.reach /\ \A i \in 1..n : t[i + 1] = s[i]
    BY <1>1
  <2> HIDE DEF s, t
  <2>2. Nearest(t) = Over(t[1], Nearest(s))
    BY <2>1, <1>1, NearestOver
  <2>3. QED
    BY <2>1, <2>2 DEF ReachRows, s, t
<1>3. WayRows(all) = Over(own.way, WayRows(tables))
  <2> DEFINE s == [i \in DOMAIN tables |-> tables[i].way]
             t == [i \in DOMAIN all |-> all[i].way]
  <2>1. DOMAIN s = 1..n /\ DOMAIN t = 1..(n + 1) /\ t[1] = own.way /\ \A i \in 1..n : t[i + 1] = s[i]
    BY <1>1
  <2> HIDE DEF s, t
  <2>2. Nearest(t) = Over(t[1], Nearest(s))
    BY <2>1, <1>1, NearestOver
  <2>3. QED
    BY <2>1, <2>2 DEF WayRows, s, t
<1>4. RiverRows(all) = Over(own.river, RiverRows(tables))
  <2> DEFINE s == [i \in DOMAIN tables |-> tables[i].river]
             t == [i \in DOMAIN all |-> all[i].river]
  <2>1. DOMAIN s = 1..n /\ DOMAIN t = 1..(n + 1) /\ t[1] = own.river /\ \A i \in 1..n : t[i + 1] = s[i]
    BY <1>1
  <2> HIDE DEF s, t
  <2>2. Nearest(t) = Over(t[1], Nearest(s))
    BY <2>1, <1>1, NearestOver
  <2>3. QED
    BY <2>1, <2>2 DEF RiverRows, s, t
<1>5. QED
  BY <1>2, <1>3, <1>4 DEF all

\* Every nearest row is a row of one of the tables.
LEMMA NearestFrom ==
  ASSUME NEW t, NEW n \in Nat, DOMAIN t = 1..n, NEW id \in DOMAIN Nearest(t)
  PROVE  \E i \in DOMAIN t : id \in DOMAIN t[i] /\ Nearest(t)[id] = t[i][id]
<1> DEFINE With == {i \in DOMAIN t : id \in DOMAIN t[i]}
<1>1. id \in UNION {DOMAIN t[i] : i \in DOMAIN t} /\ Nearest(t)[id] = t[Min(With)][id]
  BY EvaluatedIs DEF Nearest
<1>2. With \in SUBSET Nat /\ With # {}
  BY <1>1
<1>3. PICK i \in With : \A j \in With : i <= j
  BY <1>2, LeastNumber
<1>4. Min(With) = i
  BY <1>2, <1>3, MinIs
<1>5. QED
  BY <1>1, <1>3, <1>4

LEMMA ResolvedIs ==
  ASSUME NEW tables
  PROVE  /\ Resolved(tables).reach = Live(ReachRows(tables))
         /\ Resolved(tables).way = Live(WayRows(tables))
         /\ Resolved(tables).river = Live(RiverRows(tables))
BY DEF Resolved, ReachRows, WayRows, RiverRows

LEMMA ResolvedIsTable ==
  ASSUME NEW tables, AreTables(tables)
  PROVE  IsTable(Resolved(tables))
<1> DEFINE n == Len(tables)
           res == Resolved(tables)
<1>1. n \in Nat /\ DOMAIN tables = 1..n
  BY DEF AreTables
<1> HIDE DEF n, res
<1>2. ASSUME NEW r \in DOMAIN res.reach PROVE r \in Reach /\ IsReachRow(res.reach[r])
  <2> DEFINE t == [i \in DOMAIN tables |-> tables[i].reach]
  <2>1. r \in DOMAIN Nearest(t) /\ res.reach[r] = Nearest(t)[r]
    BY ResolvedIs, LiveIs DEF ReachRows, res
  <2>2. PICK i \in DOMAIN t : r \in DOMAIN t[i] /\ Nearest(t)[r] = t[i][r]
    BY <1>1, <2>1, NearestFrom
  <2>3. QED
    BY <2>1, <2>2 DEF AreTables, IsTable
<1>3. ASSUME NEW w \in DOMAIN res.way PROVE IsWayRow(res.way[w])
  <2> DEFINE t == [i \in DOMAIN tables |-> tables[i].way]
  <2>1. w \in DOMAIN Nearest(t) /\ res.way[w] = Nearest(t)[w]
    BY ResolvedIs, LiveIs DEF WayRows, res
  <2>2. PICK i \in DOMAIN t : w \in DOMAIN t[i] /\ Nearest(t)[w] = t[i][w]
    BY <1>1, <2>1, NearestFrom
  <2>3. QED
    BY <2>1, <2>2 DEF AreTables, IsTable, AreWays
<1>4. ASSUME NEW x \in DOMAIN res.river PROVE IsRiverRow(res.river[x])
  <2> DEFINE t == [i \in DOMAIN tables |-> tables[i].river]
  <2>1. x \in DOMAIN Nearest(t) /\ res.river[x] = Nearest(t)[x]
    BY ResolvedIs, LiveIs DEF RiverRows, res
  <2>2. PICK i \in DOMAIN t : x \in DOMAIN t[i] /\ Nearest(t)[x] = t[i][x]
    BY <1>1, <2>1, NearestFrom
  <2>3. QED
    BY <2>1, <2>2 DEF AreTables, IsTable
<1>5. QED
  BY <1>2, <1>3, <1>4 DEF IsTable, AreWays, res

-----------------------------------------------------------------------------
(* What a build writes is what the version then resolves to. *)

\* The derived columns of res are those a build derives from the rest of it.
Current(res) ==
    LET derived == Derived(Content(res))
    IN  /\ \A r \in DOMAIN res.reach : /\ res.reach[r].parent = derived.river[r]
                                       /\ res.reach[r].confidence = derived.confidence[r]
        /\ \A w \in DOMAIN res.way : res.way[w].parent = derived.ofWay[w]
        /\ res.river = derived.rivers

LEMMA RiversAreRows ==
  ASSUME NEW net
  PROVE  LET rivers == Derived(net).rivers
         IN  /\ \A x \in DOMAIN rivers : IsRiverRow(rivers[x]) /\ rivers[x].deleted = FALSE
             /\ rivers = [x \in DOMAIN rivers |-> rivers[x]]
<1> DEFINE rivers == Derived(net).rivers
<1>1. PICK named, riverOf, wayRiver : rivers = NewRivers(net, named, riverOf, wayRiver)
  BY DEF Derived
<1> HIDE DEF rivers
<1> DEFINE Members(x) == {r \in DOMAIN riverOf : riverOf[r] = x}
           Ways(x) == {w \in DOMAIN wayRiver : wayRiver[w] = x}
           Below(x) == LET down == net.reach[x].flows
                       IN  IF down \in DOMAIN riverOf /\ riverOf[down] # x THEN riverOf[down] ELSE Null
           Geom(x) == IF Ways(x) # {}
                      THEN [ways |-> {<<w, net.way[w].course>> : w \in Ways(x)}, reaches |-> {}]
                      ELSE [ways |-> {}, reaches |-> Members(x)]
           Order(x) == Max({net.reach[r].order : r \in Members(x)})
<1>2. rivers = [x \in {riverOf[r] : r \in DOMAIN riverOf} |->
                   [name |-> named[x].name, order |-> Order(x), geom |-> Geom(x),
                    flows |-> Below(x), deleted |-> FALSE]]
  BY <1>1, EvaluatedIs, Zenon DEF NewRivers
<1> HIDE DEF Order, Geom, Below
<1>3. /\ \A x \in DOMAIN rivers : IsRiverRow(rivers[x]) /\ rivers[x].deleted = FALSE
      /\ rivers = [x \in DOMAIN rivers |-> rivers[x]]
  BY <1>2 DEF IsRiverRow
<1>4. QED
  BY <1>3 DEF rivers

\* G and N are what is written to make the stored rivers the new ones.
Replaces(stored, new, G, N) ==
    /\ \A x \in DOMAIN new : new[x].deleted = FALSE
    /\ DOMAIN G = RiversGone(stored, new) /\ \A x \in DOMAIN G : G[x].deleted = TRUE
    /\ DOMAIN N = RiversToWrite(stored, new) /\ \A x \in DOMAIN N : N[x] = new[x]

LEMMA RiversReplaced ==
  ASSUME NEW own, NEW above, NEW new, NEW G, NEW N,
         Replaces(Live(Over(own, above)), new, G, N)
  PROVE  LET all == Over(Over(G, Over(N, own)), above)
         IN  DOMAIN Live(all) = DOMAIN new /\ \A x \in DOMAIN new : Live(all)[x] = new[x]
<1> DEFINE stored == Live(Over(own, above))
           old == Over(own, above)
           all == Over(Over(G, Over(N, own)), above)
<1> USE DEF Replaces
<1>1. ASSUME NEW x, x \in DOMAIN new PROVE x \in DOMAIN Live(all) /\ Live(all)[x] = new[x]
  <2>1. x \notin DOMAIN G
    BY <1>1 DEF RiversGone
  <2>2. CASE x \in DOMAIN N
    <3>1. x \in DOMAIN all /\ all[x] = N[x] /\ N[x] = new[x]
      BY <2>1, <2>2, OverIs
    <3>2. QED
      BY <3>1, <1>1, LiveIs
  <2>3. CASE x \notin DOMAIN N
    <3>1. x \in DOMAIN stored /\ stored[x] = new[x]
      BY <2>3, <1>1 DEF RiversToWrite
    <3>2. x \in DOMAIN old /\ old[x] = new[x]
      BY <3>1, LiveIs
    <3>3. x \in DOMAIN all /\ all[x] = old[x]
      BY <2>1, <2>3, <3>2, OverIs
    <3>4. QED
      BY <3>2, <3>3, <1>1, LiveIs
  <2>4. QED
    BY <2>2, <2>3
<1>2. ASSUME NEW x, x \in DOMAIN Live(all), x \notin DOMAIN new PROVE FALSE
  <2>1. x \in DOMAIN all /\ ~all[x].deleted /\ x \notin DOMAIN N
    BY <1>2, LiveIs DEF RiversToWrite
  <2>2. CASE x \in DOMAIN G
    <3>1. all[x] = G[x]
      BY <2>2, OverIs
    <3>2. QED
      BY <3>1, <2>1, <2>2
  <2>3. CASE x \notin DOMAIN G
    <3>1. x \in DOMAIN old /\ all[x] = old[x]
      BY <2>1, <2>3, OverIs
    <3>2. x \in DOMAIN stored
      BY <3>1, <2>1, LiveIs
    <3>3. QED
      BY <3>2, <2>3, <1>2 DEF RiversGone
  <2>4. QED
    BY <2>2, <2>3
<1>3. QED
  BY <1>1, <1>2

LEMMA BuildResolves ==
  ASSUME NEW own, IsTable(own), NEW above, AreTables(above),
         NEW built, built = Build(own, above),
         NEW before, before = Resolved(<<own>> \o above),
         NEW after, after = Resolved(<<built>> \o above)
  PROVE  /\ IsTable(built)
         /\ Content(after) = Content(before)
         /\ Current(after)
<1> DEFINE derived == Derived(Content(before))
           reaches == {r \in DOMAIN before.reach :
                          \/ IsDistinctFrom(before.reach[r].parent, derived.river[r])
                          \/ IsDistinctFrom(before.reach[r].confidence, derived.confidence[r])}
           ways == {w \in DOMAIN before.way : IsDistinctFrom(before.way[w].parent, derived.ofWay[w])}
           W == [r \in reaches |-> [before.reach[r] EXCEPT !.parent = derived.river[r],
                                                           !.confidence = derived.confidence[r]]]
           V == [w \in ways |-> [before.way[w] EXCEPT !.parent = derived.ofWay[w]]]
           G == [x \in RiversGone(before.river, derived.rivers) |->
                    [before.river[x] EXCEPT !.flows = Null, !.deleted = TRUE]]
           N == [x \in RiversToWrite(before.river, derived.rivers) |-> derived.rivers[x]]
<1>1. /\ built.reach = Over(W, own.reach)
      /\ built.way = Over(V, own.way)
      /\ built.river = Over(G, Over(N, own.river))
  <2>1. built = Superseded(own, before, derived)
    BY DEF Build
  <2>2. built = [reach |-> Over(W, own.reach), way |-> Over(V, own.way), river |-> Over(G, Over(N, own.river))]
    BY <2>1, Zenon DEF Superseded
  <2> HIDE DEF W, V, G, N
  <2>3. QED
    BY <2>2
<1>2. IsTable(before)
  BY Stacking, ResolvedIsTable
<1>3. /\ before.reach = Live(Over(own.reach, ReachRows(above)))
      /\ before.way = Live(Over(own.way, WayRows(above)))
      /\ before.river = Live(Over(own.river, RiverRows(above)))
  BY RowsOver, ResolvedIs
<1>4. /\ \A x \in DOMAIN derived.rivers : IsRiverRow(derived.rivers[x]) /\ derived.rivers[x].deleted = FALSE
      /\ derived.rivers = [x \in DOMAIN derived.rivers |-> derived.rivers[x]]
  BY RiversAreRows
<1>5. /\ DOMAIN W = reaches /\ reaches \subseteq DOMAIN before.reach
      /\ DOMAIN V = ways /\ ways \subseteq DOMAIN before.way
      /\ DOMAIN G = RiversGone(before.river, derived.rivers)
  OBVIOUS
<1>6. ASSUME NEW r \in DOMAIN W
      PROVE  /\ IsReachRow(W[r]) /\ W[r].flows = before.reach[r].flows /\ W[r].order = before.reach[r].order
             /\ W[r].parent = derived.river[r] /\ W[r].confidence = derived.confidence[r]
             /\ W[r].deleted = before.reach[r].deleted
  <2> DEFINE row == before.reach[r]
             new == [row EXCEPT !.parent = derived.river[r], !.confidence = derived.confidence[r]]
  <2>1. r \in DOMAIN before.reach /\ W[r] = new
    BY Zenon
  <2> HIDE DEF derived, W
  <2>2. IsReachRow(row)
    BY <2>1, <1>2 DEF IsTable
  <2> HIDE DEF row
  <2>3. new = [row EXCEPT !.parent = derived.river[r], !.confidence = derived.confidence[r]]
    OBVIOUS
  <2> HIDE DEF new
  <2>4. /\ IsReachRow(new) /\ new.flows = row.flows /\ new.order = row.order
        /\ new.parent = derived.river[r] /\ new.confidence = derived.confidence[r] /\ new.deleted = row.deleted
    BY <2>2, <2>3 DEF IsReachRow
  <2>5. QED
    BY <2>1, <2>4 DEF row, new
<1>7. ASSUME NEW w \in DOMAIN V
      PROVE  /\ IsWayRow(V[w]) /\ V[w].name = before.way[w].name /\ V[w].course = before.way[w].course
             /\ V[w].parent = derived.ofWay[w] /\ V[w].deleted = before.way[w].deleted
  <2> DEFINE row == before.way[w]
             new == [row EXCEPT !.parent = derived.ofWay[w]]
  <2>1. IsWayRow(row) /\ V[w] = new
    BY <1>2, <1>5 DEF IsTable, AreWays
  <2> HIDE DEF row, derived, V
  <2>2. /\ IsWayRow(new) /\ new.name = row.name /\ new.course = row.course
        /\ new.parent = derived.ofWay[w] /\ new.deleted = row.deleted
    BY <2>1 DEF IsWayRow
  <2> HIDE DEF new
  <2>3. QED
    BY <2>1, <2>2 DEF row
<1>8. ASSUME NEW x \in DOMAIN G PROVE IsRiverRow(G[x]) /\ G[x].deleted = TRUE
  <2> DEFINE row == before.river[x]
             new == [row EXCEPT !.flows = Null, !.deleted = TRUE]
  <2>1. x \in DOMAIN before.river /\ G[x] = new
    BY Zenon DEF RiversGone
  <2>2. IsRiverRow(row)
    BY <2>1, <1>2 DEF IsTable
  <2> HIDE DEF row, G
  <2>3. new = [row EXCEPT !.flows = Null, !.deleted = TRUE]
    OBVIOUS
  <2> HIDE DEF new
  <2>4. IsRiverRow(new) /\ new.deleted = TRUE
    BY <2>2, <2>3 DEF IsRiverRow
  <2>5. QED
    BY <2>1, <2>4, Zenon DEF new
<1>9. \A r \in DOMAIN before.reach :
         r \notin DOMAIN W => /\ before.reach[r].parent = derived.river[r]
                              /\ before.reach[r].confidence = derived.confidence[r]
  BY DEF IsDistinctFrom
<1>10. \A w \in DOMAIN before.way : w \notin DOMAIN V => before.way[w].parent = derived.ofWay[w]
  BY DEF IsDistinctFrom
<1>11. /\ DOMAIN N \subseteq DOMAIN derived.rivers
       /\ \A x \in DOMAIN N : N[x] = derived.rivers[x]
       /\ N = [x \in RiversToWrite(before.river, derived.rivers) |-> derived.rivers[x]]
  BY DEF RiversToWrite
<1> HIDE DEF W, V, G, N, reaches, ways, derived
<1>12. IsTable(built)
  <2>1. ASSUME NEW r \in DOMAIN built.reach PROVE r \in Reach /\ IsReachRow(built.reach[r])
    BY <1>1, <1>2, <1>5, <1>6, OverIs DEF IsTable
  <2>2. ASSUME NEW w \in DOMAIN built.way PROVE IsWayRow(built.way[w])
    BY <1>1, <1>7, OverIs DEF IsTable, AreWays
  <2>3. ASSUME NEW x \in DOMAIN built.river PROVE IsRiverRow(built.river[x])
    <3>1. CASE x \in DOMAIN G
      <4>1. built.river[x] = G[x]
        BY <3>1, <1>1, OverIs
      <4>2. IsRiverRow(G[x])
        BY <3>1, <1>8
      <4>3. QED
        BY <4>1, <4>2, Zenon
    <3>2. CASE x \notin DOMAIN G
      <4>1. x \in DOMAIN Over(N, own.river) /\ built.river[x] = Over(N, own.river)[x]
        BY <3>2, <1>1, OverIs
      <4>2. CASE x \in DOMAIN N
        <5>1. IsRiverRow(N[x])
          BY <4>2, <1>4, <1>11
        <5>2. QED
          BY <5>1, <4>1, <4>2, OverIs
      <4>3. CASE x \notin DOMAIN N
        BY <4>1, <4>3, OverIs DEF IsTable
      <4>4. QED
        BY <4>2, <4>3
    <3>3. QED
      BY <3>1, <3>2
  <2>4. QED
    BY <2>1, <2>2, <2>3 DEF IsTable, AreWays
<1>13. /\ after.reach = Live(Over(Over(W, own.reach), ReachRows(above)))
       /\ after.way = Live(Over(Over(V, own.way), WayRows(above)))
       /\ after.river = Live(Over(Over(G, Over(N, own.river)), RiverRows(above)))
  BY <1>1, <1>12, RowsOver, ResolvedIs
<1>14. after.reach = Over(W, before.reach)
  <2>1. \A r \in DOMAIN W : ~W[r].deleted
    BY <1>3, <1>5, <1>6, LiveIs
  <2>2. QED
    BY <2>1, <1>3, <1>5, <1>13, LiveOver
<1>15. after.way = Over(V, before.way)
  <2>1. \A w \in DOMAIN V : ~V[w].deleted
    BY <1>3, <1>5, <1>7, LiveIs
  <2>2. QED
    BY <2>1, <1>3, <1>5, <1>13, LiveOver
<1>16. after.river = derived.rivers
  <2> DEFINE all == Over(Over(G, Over(N, own.river)), RiverRows(above))
  <2>1. Replaces(Live(Over(own.river, RiverRows(above))), derived.rivers, G, N)
    BY <1>3, <1>4, <1>5, <1>8, <1>11 DEF Replaces
  <2>2. /\ DOMAIN Live(all) = DOMAIN derived.rivers
        /\ \A x \in DOMAIN derived.rivers : Live(all)[x] = derived.rivers[x]
    BY <2>1, RiversReplaced
  <2> HIDE DEF all
  <2>3. Live(all) = [x \in DOMAIN derived.rivers |-> Live(all)[x]]
    BY <2>2, LiveIsFunction
  <2>4. Live(all) = derived.rivers
    BY <2>2, <2>3, <1>4
  <2>5. QED
    BY <2>4, <1>13 DEF all
<1>17. DOMAIN after.reach = DOMAIN before.reach /\ DOMAIN after.way = DOMAIN before.way
  <2>1. DOMAIN after.reach = DOMAIN before.reach
    BY <1>5, <1>14, OverWithin
  <2>2. DOMAIN after.way = DOMAIN before.way
    BY <1>5, <1>15, OverWithin
  <2>3. QED
    BY <2>1, <2>2
<1>18. ASSUME NEW r \in DOMAIN after.reach
       PROVE  /\ after.reach[r].flows = before.reach[r].flows /\ after.reach[r].order = before.reach[r].order
              /\ after.reach[r].parent = derived.river[r] /\ after.reach[r].confidence = derived.confidence[r]
  BY <1>6, <1>9, <1>14, <1>17, OverIs
<1>19. ASSUME NEW w \in DOMAIN after.way
       PROVE  /\ after.way[w].name = before.way[w].name /\ after.way[w].course = before.way[w].course
              /\ after.way[w].parent = derived.ofWay[w]
  BY <1>7, <1>10, <1>15, <1>17, OverIs
<1>20. Content(after) = Content(before)
  <2>1. [r \in DOMAIN after.reach |-> [flows |-> after.reach[r].flows, order |-> after.reach[r].order]]
          = [r \in DOMAIN before.reach |-> [flows |-> before.reach[r].flows, order |-> before.reach[r].order]]
    BY <1>17, <1>18
  <2>2. [w \in DOMAIN after.way |-> [name |-> after.way[w].name, course |-> after.way[w].course]]
          = [w \in DOMAIN before.way |-> [name |-> before.way[w].name, course |-> before.way[w].course]]
    BY <1>17, <1>19
  <2>3. QED
    BY <2>1, <2>2, Zenon DEF Content
<1>21. Current(after)
  BY <1>16, <1>18, <1>19, <1>20 DEF Current, derived
<1>22. QED
  BY <1>12, <1>20, <1>21

LEMMA NoRowsIsTable == IsTable(NoRows)
BY DEF NoRows, IsTable, AreWays

LEMMA LiveOverNothing ==
  ASSUME NEW rows PROVE Live(Over(<<>>, rows)) = Live(rows)
<1> DEFINE all == Over(<<>>, rows)
<1>1. DOMAIN all = DOMAIN rows /\ \A id \in DOMAIN rows : all[id] = rows[id]
  <2>1. DOMAIN <<>> = {}
    OBVIOUS
  <2>2. DOMAIN all = DOMAIN rows
    BY <2>1, OverIs
  <2>3. QED
    BY <2>1, <2>2, OverIs
<1> HIDE DEF all
<1>2. ASSUME NEW id PROVE id \in DOMAIN Live(all) <=> id \in DOMAIN Live(rows)
  BY <1>1, LiveIs
<1>3. DOMAIN Live(all) = DOMAIN Live(rows)
  BY <1>2
<1>4. \A id \in DOMAIN Live(rows) : Live(all)[id] = Live(rows)[id]
  BY <1>1, <1>3, LiveIs
<1>5. QED
  BY <1>3, <1>4, LiveIsFunction DEF all

\* A version without rows of its own shows its ancestors'.
LEMMA ResolvedOfNoRows ==
  ASSUME NEW tables, AreTables(tables)
  PROVE  Resolved(<<NoRows>> \o tables) = Resolved(tables)
<1>1. /\ ReachRows(<<NoRows>> \o tables) = Over(<<>>, ReachRows(tables))
      /\ WayRows(<<NoRows>> \o tables) = Over(<<>>, WayRows(tables))
      /\ RiverRows(<<NoRows>> \o tables) = Over(<<>>, RiverRows(tables))
  <2>1. NoRows.reach = <<>> /\ NoRows.way = <<>> /\ NoRows.river = <<>>
    BY DEF NoRows
  <2>2. QED
    BY <2>1, RowsOver, NoRowsIsTable
<1>2. ASSUME NEW t
      PROVE  Resolved(t) = [reach |-> Live(ReachRows(t)), way |-> Live(WayRows(t)), river |-> Live(RiverRows(t))]
  BY Zenon DEF Resolved, ReachRows, WayRows, RiverRows
<1>3. QED
  BY <1>1, <1>2, LiveOverNothing

LEMMA NothingToWrite ==
  ASSUME NEW tables, AreTables(tables), Current(Resolved(tables)), NEW level \in Level
  PROVE  DOMAIN Build(NoRows, tables)[level] = {}
<1> DEFINE res == Resolved(tables)
           derived == Derived(Content(res))
           built == Build(NoRows, tables)
           reaches == {r \in DOMAIN res.reach :
                          \/ IsDistinctFrom(res.reach[r].parent, derived.river[r])
                          \/ IsDistinctFrom(res.reach[r].confidence, derived.confidence[r])}
           ways == {w \in DOMAIN res.way : IsDistinctFrom(res.way[w].parent, derived.ofWay[w])}
           W == [r \in reaches |-> [res.reach[r] EXCEPT !.parent = derived.river[r],
                                                        !.confidence = derived.confidence[r]]]
           V == [w \in ways |-> [res.way[w] EXCEPT !.parent = derived.ofWay[w]]]
           G == [x \in RiversGone(res.river, derived.rivers) |->
                    [res.river[x] EXCEPT !.flows = Null, !.deleted = TRUE]]
           N == [x \in RiversToWrite(res.river, derived.rivers) |-> derived.rivers[x]]
<1>1. built = [reach |-> Over(W, <<>>), way |-> Over(V, <<>>), river |-> Over(G, Over(N, <<>>))]
  <2>1. built = Superseded(NoRows, res, derived)
    BY ResolvedOfNoRows DEF Build
  <2>2. Superseded(NoRows, res, derived)
           = [reach |-> Over(W, NoRows.reach), way |-> Over(V, NoRows.way), river |-> Over(G, Over(N, NoRows.river))]
    BY Zenon DEF Superseded
  <2>3. NoRows.reach = <<>> /\ NoRows.way = <<>> /\ NoRows.river = <<>>
    BY DEF NoRows
  <2> HIDE DEF W, V, G, N
  <2>4. QED
    BY <2>1, <2>2, <2>3
<1>2. /\ \A r \in DOMAIN res.reach : /\ res.reach[r].parent = derived.river[r]
                                     /\ res.reach[r].confidence = derived.confidence[r]
      /\ \A w \in DOMAIN res.way : res.way[w].parent = derived.ofWay[w]
      /\ res.river = derived.rivers
  BY Zenon DEF Current
<1> HIDE DEF res, derived, built
<1>3. DOMAIN W = {} /\ DOMAIN V = {}
  BY <1>2 DEF IsDistinctFrom
<1>4. DOMAIN G = {} /\ DOMAIN N = {}
  BY <1>2 DEF RiversGone, RiversToWrite
<1> HIDE DEF W, V, G, N
<1>5. DOMAIN Over(W, <<>>) = {} /\ DOMAIN Over(V, <<>>) = {}
  <2>1. DOMAIN <<>> = {}
    OBVIOUS
  <2>2. QED
    BY <2>1, <1>3, OverWithin
<1>6. DOMAIN Over(G, Over(N, <<>>)) = {}
  <2>1. DOMAIN <<>> = {}
    OBVIOUS
  <2>2. DOMAIN Over(N, <<>>) = {}
    BY <2>1, <1>4, OverWithin
  <2>3. QED
    BY <2>2, <1>4, OverWithin
<1>7. DOMAIN built.reach = {} /\ DOMAIN built.way = {} /\ DOMAIN built.river = {}
  BY <1>1, <1>5, <1>6
<1>8. QED
  BY <1>7 DEF Level, built

-----------------------------------------------------------------------------
(* Walks downstream. *)

Closed(next, S) ==
    S \subseteq DOMAIN next /\ \A s \in S : next[s] \in DOMAIN next => next[s] \in S

\* What next leads to from r.
Walk(next, r) == {s \in DOMAIN next : \A S \in SUBSET DOMAIN next : Closed(next, S) /\ r \in S => s \in S}

LEMMA EndsAre ==
  ASSUME NEW next
  PROVE  /\ DOMAIN WalkEnds(next) = DOMAIN next
         /\ \A r \in DOMAIN next : \A s :
               s \in WalkEnds(next)[r] <=> s \in Walk(next, r) /\ next[s] \notin DOMAIN next
<1> DEFINE points == DOMAIN next
           closed == {S \in SUBSET points : \A s \in S : next[s] \in points => next[s] \in S}
           last == {s \in points : next[s] \notin points}
<1>1. WalkEnds(next) = [r \in points |-> {s \in last : \A S \in closed : r \in S => s \in S}]
  BY EvaluatedIs, Zenon DEF WalkEnds
<1>2. \A S : S \in closed <=> S \in SUBSET points /\ Closed(next, S)
  BY DEF Closed
<1> HIDE DEF closed
<1>3. QED
  BY <1>1, <1>2 DEF Walk

LEMMA WalkCloses ==
  ASSUME NEW next, NEW r \in DOMAIN next
  PROVE  Closed(next, Walk(next, r)) /\ r \in Walk(next, r)
BY DEF Closed, Walk

LEMMA WalkIsLeast ==
  ASSUME NEW next, NEW r, NEW S, Closed(next, S), r \in S
  PROVE  Walk(next, r) \subseteq S
BY DEF Closed, Walk

\* A walk comes to one end at most.
LEMMA OneEnd ==
  ASSUME NEW next, NEW r \in DOMAIN next, NEW s \in WalkEnds(next)[r], NEW t \in WalkEnds(next)[r]
  PROVE  s = t
<1>1. /\ s \in Walk(next, r) /\ s \in DOMAIN next /\ next[s] \notin DOMAIN next
      /\ t \in Walk(next, r) /\ t \in DOMAIN next /\ next[t] \notin DOMAIN next
  BY EndsAre DEF Walk
<1> DEFINE S == {v \in DOMAIN next : s \in Walk(next, v)}
<1>2. ASSUME NEW v \in S, next[v] \in DOMAIN next PROVE next[v] \in S
  <2> DEFINE onward == {v} \cup Walk(next, next[v])
  <2>1. Closed(next, Walk(next, next[v])) /\ next[v] \in Walk(next, next[v])
    BY <1>2, WalkCloses
  <2>2. Closed(next, onward) /\ v \in onward
    BY <2>1 DEF Closed
  <2>3. s \in onward
    BY <2>2, WalkIsLeast
  <2>4. s # v
    BY <1>1, <1>2
  <2>5. QED
    BY <2>3, <2>4, <1>2
<1>3. Closed(next, S) /\ r \in S
  BY <1>1, <1>2 DEF Closed
<1>4. s \in Walk(next, t)
  BY <1>1, <1>3, WalkIsLeast
<1>5. Closed(next, {t})
  BY <1>1 DEF Closed
<1>6. QED
  BY <1>4, <1>5, WalkIsLeast

\* Every reach has a path to an outlet.
Drains(reach) == Draining(reach) = DOMAIN reach

\* The reach of a river is the one its members' walks come to: of their name, and of itself.
LEMMA RiversAreEnds ==
  ASSUME NEW net, NEW named, NEW riverOf, riverOf = RiverOfReach(net, named),
         NEW next, next = NextOfName(net, named),
         DOMAIN named \subseteq DOMAIN net.reach, Null \notin DOMAIN net.reach, Drains(net.reach)
  PROVE  /\ DOMAIN riverOf = DOMAIN named
         /\ \A r \in DOMAIN named : /\ riverOf[r] \in DOMAIN named
                                    /\ riverOf[riverOf[r]] = riverOf[r]
                                    /\ named[riverOf[r]].name = named[r].name
                                    /\ riverOf[r] \in Walk(next, r)
                                    /\ next[r] \in DOMAIN named => riverOf[next[r]] = riverOf[r]
                                    /\ next[r] \notin DOMAIN named => riverOf[r] = r
<1>1. /\ DOMAIN next = DOMAIN named
      /\ \A r \in DOMAIN named : next[r] \in DOMAIN named =>
            next[r] = net.reach[r].flows /\ named[next[r]].name = named[r].name
  BY DEF NextOfName
<1>2. ASSUME NEW r \in DOMAIN named PROVE WalkEnds(next)[r] # {}
  <2> SUFFICES ASSUME WalkEnds(next)[r] = {} PROVE FALSE
    OBVIOUS
  <2> DEFINE flows == [q \in DOMAIN net.reach |-> net.reach[q].flows]
             path == Walk(next, r)
  <2>1. r \in DOMAIN flows /\ r \in path /\ Closed(next, path)
    BY <1>1, WalkCloses
  <2>2. \A s \in path : s \in DOMAIN next /\ next[s] \in DOMAIN next
    BY <1>1, EndsAre DEF Walk
  <2>3. \A s \in path : flows[s] \in path
    BY <2>1, <2>2, <1>1 DEF Closed
  <2>4. Closed(flows, path)
    BY <2>2, <2>3, <1>1 DEF Closed
  <2>5. WalkEnds(flows)[r] # {}
    BY <2>1 DEF Drains, Draining
  <2> HIDE DEF flows, path
  <2>6. PICK s : s \in Walk(flows, r) /\ flows[s] \notin DOMAIN flows
    BY <2>1, <2>5, EndsAre
  <2>7. s \in path
    BY <2>1, <2>4, <2>6, WalkIsLeast
  <2>8. QED
    BY <2>3, <2>4, <2>6, <2>7 DEF Closed
<1>3. /\ DOMAIN riverOf = DOMAIN named
      /\ \A r \in DOMAIN named : riverOf[r] \in WalkEnds(next)[r]
  <2> DEFINE ends == WalkEnds(Evaluated(NextOfName(net, named)))
  <2>1. riverOf = [r \in {r \in DOMAIN named : ends[r] # {}} |-> CHOOSE s \in ends[r] : TRUE]
    BY EvaluatedIs, Zenon DEF RiverOfReach
  <2>2. ends = WalkEnds(next)
    BY EvaluatedIs
  <2> HIDE DEF ends
  <2>3. QED
    BY <2>1, <2>2, <1>2
<1>4. ASSUME NEW r \in DOMAIN named
      PROVE  /\ riverOf[r] \in Walk(next, r) /\ riverOf[r] \in DOMAIN named
             /\ next[riverOf[r]] \notin DOMAIN named
  BY <1>1, <1>3, EndsAre DEF Walk
<1>5. ASSUME NEW r \in DOMAIN named, NEW s, s \in Walk(next, r), next[s] \notin DOMAIN next
      PROVE  riverOf[r] = s
  <2>1. riverOf[r] \in WalkEnds(next)[r] /\ r \in DOMAIN next
    BY <1>1, <1>3
  <2>2. s \in WalkEnds(next)[r]
    BY <2>1, <1>5, EndsAre
  <2>3. QED
    BY <2>1, <2>2, OneEnd
<1>6. ASSUME NEW r \in DOMAIN named PROVE named[riverOf[r]].name = named[r].name
  <2> DEFINE S == {s \in DOMAIN named : named[s].name = named[r].name}
  <2>1. Closed(next, S) /\ r \in S
    BY <1>1 DEF Closed
  <2>2. QED
    BY <2>1, <1>4, WalkIsLeast
<1>7. ASSUME NEW r \in DOMAIN named PROVE riverOf[riverOf[r]] = riverOf[r]
  BY <1>1, <1>4, <1>5, WalkCloses
<1>8. ASSUME NEW r \in DOMAIN named, next[r] \in DOMAIN named PROVE riverOf[next[r]] = riverOf[r]
  <2>1. Closed(next, Walk(next, r)) /\ r \in Walk(next, r)
    BY <1>1, WalkCloses
  <2>2. next[r] \in Walk(next, r)
    BY <2>1, <1>1, <1>8 DEF Closed
  <2>3. riverOf[next[r]] \in Walk(next, r) /\ next[riverOf[next[r]]] \notin DOMAIN next
    BY <2>1, <2>2, <1>1, <1>4, <1>8, WalkIsLeast
  <2>4. QED
    BY <2>3, <1>5
<1>9. ASSUME NEW r \in DOMAIN named, next[r] \notin DOMAIN named PROVE riverOf[r] = r
  BY <1>1, <1>5, <1>9, WalkCloses
<1>10. QED
  BY <1>3, <1>4, <1>6, <1>7, <1>8, <1>9

\* A name is given to reaches of the network only.
LEMMA NamesOfReaches ==
  ASSUME NEW net
  PROVE  DOMAIN Names(net) \subseteq DOMAIN net.reach
<1>1. \A b \in Ballots(net) : b.reach \in DOMAIN net.reach
  <2> DEFINE away == Evaluated([w \in {w \in DOMAIN net.way : net.way[w].name # Null} |->
                                   DistanceOf[net.way[w].course]])
  <2>1. \A r, i, a, way : \A b \in Cast(r, i, a, way) : b.reach = r
    BY DEF Cast
  <2>2. Ballots(net) = UNION {Cast(p[1], p[2], away, net.way) : p \in (DOMAIN net.reach) \X (1..Samples)}
    BY Zenon DEF Ballots
  <2> HIDE DEF away
  <2>3. QED
    BY <2>1, <2>2
<1>2. \A t \in Tallies(Ballots(net)) : t.reach \in DOMAIN net.reach
  <2> DEFINE ballots == Ballots(net)
             Votes(c) == {<<b.distance, b.sample>> : b \in {b \in ballots : <<b.reach, b.name>> = c}}
  <2>1. \A r, n, votes : Tally(r, n, votes).reach = r
    BY DEF Tally
  <2>2. Tallies(ballots) = {Tally(c[1], c[2], Votes(c)) : c \in {<<b.reach, b.name>> : b \in ballots}}
    BY Zenon DEF Tallies
  <2> HIDE DEF ballots, Votes
  <2>3. QED
    BY <1>1, <2>1, <2>2 DEF ballots
<1>3. DOMAIN Voted(net) \subseteq DOMAIN net.reach
  <2> DEFINE tallies == Tallies(Ballots(net))
             Rank(t) == <<-t.votes, t.median, t.name>>
             First(r) == CHOOSE t \in tallies : /\ t.reach = r
                                                /\ \A u \in tallies : u.reach = r => u = t \/ Before(Rank(t), Rank(u))
  <2>1. Voted(net) = [r \in {r \in {t.reach : t \in tallies} : Trusted(First(r))} |-> First(r)]
    BY EvaluatedIs, Zenon DEF Voted, Elected
  <2> HIDE DEF First, tallies
  <2>2. QED
    BY <1>2, <2>1 DEF tallies
<1>4. DOMAIN Bridges(net, Voted(net)) \subseteq DOMAIN net.reach
  BY DEF Bridges
<1>5. QED
  BY <1>3, <1>4, OverIs DEF Names, Bridged

-----------------------------------------------------------------------------
(* The river of a way. *)

\* Among ids with two numbers each there is one that comes before every other.
LEMMA FirstOfAll ==
  ASSUME NEW Q \in SUBSET Nat, Q # {}, NEW a \in [Q -> Nat], NEW b \in [Q -> Nat]
  PROVE  \E r \in Q : \A q \in Q \ {r} : Before(<<a[r], b[r], r>>, <<a[q], b[q], q>>)
<1> DEFINE A == {a[q] : q \in Q}
<1>1. A \in SUBSET Nat /\ A # {}
  OBVIOUS
<1>2. PICK x \in A : \A y \in A : x <= y
  BY <1>1, LeastNumber
<1> DEFINE B == {b[q] : q \in {q \in Q : a[q] = x}}
<1>3. B \in SUBSET Nat /\ B # {}
  BY <1>2
<1>4. PICK z \in B : \A y \in B : z <= y
  BY <1>3, LeastNumber
<1> DEFINE C == {q \in Q : a[q] = x /\ b[q] = z}
<1>5. C \in SUBSET Nat /\ C # {}
  BY <1>4
<1>6. PICK r \in C : \A y \in C : r <= y
  BY <1>5, LeastNumber
<1>7. ASSUME NEW q \in Q \ {r} PROVE Before(<<a[r], b[r], r>>, <<a[q], b[q], q>>)
  <2> DEFINE k == <<a[r], b[r], r>>
             l == <<a[q], b[q], q>>
  <2>1. /\ a[r] = x /\ b[r] = z /\ x \in Nat /\ z \in Nat /\ r \in Nat
        /\ a[q] \in Nat /\ b[q] \in Nat /\ q \in Nat /\ x <= a[q]
    BY <1>1, <1>2, <1>3, <1>4, <1>5, <1>6
  <2>2. CASE a[q] # x
    <3>1. 1 \in DOMAIN k /\ k[1] < l[1] /\ \A j \in 1..(1 - 1) : k[j] = l[j]
      BY <2>1, <2>2
    <3>2. QED
      BY <3>1 DEF Before
  <2>3. CASE a[q] = x /\ b[q] # z
    <3>1. z <= b[q]
      BY <2>3, <1>4
    <3>2. 2 \in DOMAIN k /\ k[2] < l[2] /\ \A j \in 1..(2 - 1) : k[j] = l[j]
      BY <2>1, <2>3, <3>1
    <3>3. QED
      BY <3>2 DEF Before
  <2>4. CASE a[q] = x /\ b[q] = z
    <3>1. r <= q /\ r # q
      BY <2>4, <1>6
    <3>2. 3 \in DOMAIN k /\ k[3] < l[3] /\ \A j \in 1..(3 - 1) : k[j] = l[j]
      BY <2>1, <2>4, <3>1
    <3>3. QED
      BY <3>2 DEF Before
  <2>5. QED
    BY <2>2, <2>3, <2>4
<1>8. QED
  BY <1>6, <1>7

\* A way joins a river of its name if there is one.
LEMMA WaysJoin ==
  ASSUME NEW net, NEW riverOf, NEW named, NEW wayRiver, wayRiver = RiverOfWay(net, riverOf, named),
         \A r \in DOMAIN riverOf : r \in Reach /\ riverOf[r] \in Reach,
         \A w \in DOMAIN net.way : net.way[w].course \in Course
  PROVE  /\ DOMAIN wayRiver = DOMAIN net.way
         /\ \A w \in DOMAIN net.way :
               \/ /\ wayRiver[w] = Null
                  /\ \A r \in DOMAIN riverOf : named[r].name # net.way[w].name
               \/ \E r \in DOMAIN riverOf : named[r].name = net.way[w].name /\ wayRiver[w] = riverOf[r]
<1> DEFINE OfName(w) == {r \in DOMAIN riverOf : named[r].name = net.way[w].name}
           Away(w, r) == Min({Distance(net, w, r, i) : i \in 1..Samples})
           Rank(w, r) == <<Away(w, r), riverOf[r], r>>
           First(w) == CHOOSE r \in OfName(w) : \A q \in OfName(w) \ {r} : Before(Rank(w, r), Rank(w, q))
<1>1. wayRiver = [w \in DOMAIN net.way |-> IF OfName(w) = {} THEN Null ELSE riverOf[First(w)]]
  BY EvaluatedIs, Zenon DEF RiverOfWay
<1>2. ASSUME NEW w \in DOMAIN net.way, OfName(w) # {} PROVE First(w) \in OfName(w)
  <2>1. OfName(w) \in SUBSET Nat
    BY RiverAssumption
  <2>2. ASSUME NEW r \in OfName(w) PROVE Away(w, r) \in Nat /\ riverOf[r] \in Nat
    <3> DEFINE D == {Distance(net, w, r, i) : i \in 1..Samples}
    <3>1. r \in Reach /\ riverOf[r] \in Nat /\ net.way[w].course \in Course
      BY RiverAssumption
    <3>2. D \in SUBSET Nat
      BY <3>1, RiverAssumption DEF Distance
    <3>3. 1 \in 1..Samples
      BY RiverAssumption
    <3>4. D # {}
      BY <3>3
    <3> HIDE DEF D
    <3>5. PICK x \in D : \A y \in D : x <= y
      BY <3>2, <3>4, LeastNumber
    <3>6. Min(D) = x
      BY <3>2, <3>5, MinIs
    <3>7. QED
      BY <3>1, <3>2, <3>5, <3>6 DEF D
  <2> HIDE DEF OfName, Away
  <2> DEFINE a == [r \in OfName(w) |-> Away(w, r)]
             b == [r \in OfName(w) |-> riverOf[r]]
  <2>3. a \in [OfName(w) -> Nat] /\ b \in [OfName(w) -> Nat]
    BY <2>2
  <2> HIDE DEF a, b
  <2>4. PICK r \in OfName(w) : \A q \in OfName(w) \ {r} : Before(<<a[r], b[r], r>>, <<a[q], b[q], q>>)
    BY <1>2, <2>1, <2>3, FirstOfAll
  <2>5. \A q \in OfName(w) : <<a[q], b[q], q>> = Rank(w, q)
    BY DEF a, b
  <2>6. \A q \in OfName(w) \ {r} : Before(Rank(w, r), Rank(w, q))
    BY <2>4, <2>5
  <2> HIDE DEF Rank
  <2>7. QED
    BY <2>6, Zenon
<1> HIDE DEF First
<1>3. ASSUME NEW w \in DOMAIN net.way
      PROVE  \/ /\ wayRiver[w] = Null
                /\ \A r \in DOMAIN riverOf : named[r].name # net.way[w].name
             \/ \E r \in DOMAIN riverOf : named[r].name = net.way[w].name /\ wayRiver[w] = riverOf[r]
  <2>1. CASE OfName(w) = {}
    BY <2>1, <1>1
  <2>2. CASE OfName(w) # {}
    BY <2>2, <1>1, <1>2
  <2>3. QED
    BY <2>1, <2>2
<1>4. QED
  BY <1>1, <1>3

-----------------------------------------------------------------------------
(* A version that is current, and whose reaches all drain. *)

LEMMA ContentIs ==
  ASSUME NEW res, NEW net, net = Content(res)
  PROVE  /\ DOMAIN net.reach = DOMAIN res.reach
         /\ \A r \in DOMAIN res.reach : /\ net.reach[r].flows = res.reach[r].flows
                                        /\ net.reach[r].order = res.reach[r].order
         /\ DOMAIN net.way = DOMAIN res.way
         /\ \A w \in DOMAIN res.way : /\ net.way[w].name = res.way[w].name
                                      /\ net.way[w].course = res.way[w].course
<1>1. net = [reach |-> [r \in DOMAIN res.reach |-> [flows |-> res.reach[r].flows, order |-> res.reach[r].order]],
             way |-> [w \in DOMAIN res.way |-> [name |-> res.way[w].name, course |-> res.way[w].course]]]
  BY EvaluatedIs DEF Content
<1>2. QED
  BY <1>1

LEMMA SameDrains ==
  ASSUME NEW f, NEW g, DOMAIN f = DOMAIN g, \A r \in DOMAIN f : f[r].flows = g[r].flows, Drains(f)
  PROVE  Drains(g)
<1>1. [r \in DOMAIN f |-> f[r].flows] = [r \in DOMAIN g |-> g[r].flows]
  OBVIOUS
<1> DEFINE ends == WalkEnds([r \in DOMAIN g |-> g[r].flows])
<1>2. Draining(g) = {r \in DOMAIN g : ends[r] # {}} /\ Draining(f) = {r \in DOMAIN f : ends[r] # {}}
  BY <1>1 DEF Draining
<1> HIDE DEF ends
<1>3. QED
  BY <1>2 DEF Drains

\* What the columns of a current version are.
LEMMA Grouped ==
  ASSUME NEW res, IsTable(res), Current(res), Drains(res.reach),
         NEW net, net = Content(res), NEW named, named = Names(net),
         NEW riverOf, riverOf = RiverOfReach(net, named),
         NEW next, next = NextOfName(net, named)
  PROVE  /\ DOMAIN named \subseteq DOMAIN res.reach /\ DOMAIN res.reach \subseteq Reach
         /\ DOMAIN riverOf = DOMAIN named /\ DOMAIN next = DOMAIN named
         /\ \A r \in DOMAIN named : next[r] = IF /\ res.reach[r].flows \in DOMAIN named
                                                 /\ named[res.reach[r].flows].name = named[r].name
                                              THEN res.reach[r].flows ELSE Null
         /\ \A r \in DOMAIN named : /\ riverOf[r] \in DOMAIN named
                                    /\ riverOf[riverOf[r]] = riverOf[r]
                                    /\ named[riverOf[r]].name = named[r].name
                                    /\ riverOf[r] \in Walk(next, r)
                                    /\ next[r] \in DOMAIN named => riverOf[next[r]] = riverOf[r]
                                    /\ next[r] \notin DOMAIN named => riverOf[r] = r
         /\ \A r \in DOMAIN named : res.reach[r].parent = riverOf[r]
         /\ \A r \in (DOMAIN res.reach) \ (DOMAIN named) :
               res.reach[r].parent = Null /\ res.reach[r].confidence = Null
<1>1. /\ DOMAIN net.reach = DOMAIN res.reach
      /\ \A r \in DOMAIN res.reach : net.reach[r].flows = res.reach[r].flows
  BY ContentIs
<1>2. DOMAIN named \subseteq DOMAIN res.reach
  BY <1>1, NamesOfReaches
<1>3. DOMAIN res.reach \subseteq Reach /\ Null \notin DOMAIN res.reach
  BY RiverAssumption DEF IsTable
<1>4. Drains(net.reach)
  BY <1>1, SameDrains
<1>5. /\ DOMAIN riverOf = DOMAIN named
      /\ \A r \in DOMAIN named : /\ riverOf[r] \in DOMAIN named
                                 /\ riverOf[riverOf[r]] = riverOf[r]
                                 /\ named[riverOf[r]].name = named[r].name
                                 /\ riverOf[r] \in Walk(next, r)
                                 /\ next[r] \in DOMAIN named => riverOf[next[r]] = riverOf[r]
                                 /\ next[r] \notin DOMAIN named => riverOf[r] = r
  BY <1>1, <1>2, <1>3, <1>4, RiversAreEnds
<1>6. /\ DOMAIN next = DOMAIN named
      /\ \A r \in DOMAIN named : next[r] = IF /\ res.reach[r].flows \in DOMAIN named
                                              /\ named[res.reach[r].flows].name = named[r].name
                                           THEN res.reach[r].flows ELSE Null
  BY <1>1, <1>2 DEF NextOfName
<1>7. ASSUME NEW r \in DOMAIN res.reach
      PROVE  /\ res.reach[r].parent = IF r \in DOMAIN riverOf THEN riverOf[r] ELSE Null
             /\ r \notin DOMAIN riverOf => res.reach[r].confidence = Null
  <2>1. /\ Derived(net).river = [q \in DOMAIN net.reach |-> IF q \in DOMAIN riverOf THEN riverOf[q] ELSE Null]
        /\ Derived(net).confidence = [q \in DOMAIN net.reach |-> IF q \in DOMAIN riverOf
                                                                 THEN <<named[q].votes, named[q].median>> ELSE Null]
    BY DEF Derived
  <2>2. res.reach[r].parent = Derived(net).river[r] /\ res.reach[r].confidence = Derived(net).confidence[r]
    BY DEF Current
  <2>3. QED
    BY <2>1, <2>2, <1>1
<1>8. QED
  BY <1>2, <1>3, <1>5, <1>6, <1>7

LEMMA WaysGrouped ==
  ASSUME NEW res, IsTable(res), Current(res), Drains(res.reach),
         NEW named, named = Names(Content(res)),
         NEW riverOf, riverOf = RiverOfReach(Content(res), named), NEW w \in DOMAIN res.way
  PROVE  \/ /\ res.way[w].parent = Null
            /\ \A r \in DOMAIN riverOf : named[r].name # res.way[w].name
         \/ \E r \in DOMAIN riverOf : named[r].name = res.way[w].name /\ res.way[w].parent = riverOf[r]
<1> DEFINE net == Content(res)
           wayRiver == RiverOfWay(net, riverOf, named)
<1>1. /\ DOMAIN net.way = DOMAIN res.way
      /\ \A v \in DOMAIN res.way : net.way[v].name = res.way[v].name /\ net.way[v].course = res.way[v].course
  BY ContentIs
<1>2. res.way[w].parent = wayRiver[w]
  BY DEF Current, Derived
<1> HIDE DEF net
<1>3. \A v \in DOMAIN net.way : net.way[v].course \in Course
  BY <1>1 DEF IsTable, AreWays, IsWayRow
<1>4. \A r \in DOMAIN riverOf : r \in Reach /\ riverOf[r] \in Reach
  BY Grouped DEF net
<1> HIDE DEF wayRiver
<1>5. \/ /\ wayRiver[w] = Null
         /\ \A r \in DOMAIN riverOf : named[r].name # net.way[w].name
      \/ \E r \in DOMAIN riverOf : named[r].name = net.way[w].name /\ wayRiver[w] = riverOf[r]
  BY <1>1, <1>3, <1>4, WaysJoin DEF wayRiver
<1>6. QED
  BY <1>1, <1>2, <1>5

\* The rows of the rivers of res, by the river of each reach.
RowsOf(res, net, named, riverOf) ==
    /\ DOMAIN res.river = {riverOf[r] : r \in DOMAIN riverOf}
    /\ \A x \in DOMAIN res.river : LET ways == {w \in DOMAIN res.way : res.way[w].parent = x} IN
         /\ res.river[x].name = named[x].name
         /\ res.river[x].order = Max({net.reach[r].order : r \in {r \in DOMAIN riverOf : riverOf[r] = x}})
         /\ res.river[x].geom.ways = {<<w, res.way[w].course>> : w \in ways}
         /\ ways = {} => res.river[x].geom.reaches = {r \in DOMAIN riverOf : riverOf[r] = x}
         /\ res.river[x].flows =
              IF net.reach[x].flows \in DOMAIN riverOf /\ riverOf[net.reach[x].flows] # x
              THEN riverOf[net.reach[x].flows] ELSE Null

LEMMA RowsGrouped ==
  ASSUME NEW res, Current(res), NEW net, net = Content(res), NEW named, named = Names(net),
         NEW riverOf, riverOf = RiverOfReach(net, named)
  PROVE  RowsOf(res, net, named, riverOf)
<1> DEFINE wayRiver == RiverOfWay(net, riverOf, named)
           Members(x) == {r \in DOMAIN riverOf : riverOf[r] = x}
           Ways(x) == {w \in DOMAIN wayRiver : wayRiver[w] = x}
           Below(x) == LET down == net.reach[x].flows
                       IN  IF down \in DOMAIN riverOf /\ riverOf[down] # x THEN riverOf[down] ELSE Null
           Geom(x) == IF Ways(x) # {}
                      THEN [ways |-> {<<w, net.way[w].course>> : w \in Ways(x)}, reaches |-> {}]
                      ELSE [ways |-> {}, reaches |-> Members(x)]
           Order(x) == Max({net.reach[r].order : r \in Members(x)})
<1>1. res.river = NewRivers(net, named, riverOf, wayRiver)
  BY DEF Current, Derived
<1>2. NewRivers(net, named, riverOf, wayRiver)
         = [x \in {riverOf[r] : r \in DOMAIN riverOf} |->
               [name |-> named[x].name, order |-> Order(x), geom |-> Geom(x), flows |-> Below(x), deleted |-> FALSE]]
  BY EvaluatedIs, Zenon DEF NewRivers
<1>3. DOMAIN wayRiver = DOMAIN net.way
  BY EvaluatedIs DEF RiverOfWay
<1>4. DOMAIN net.way = DOMAIN res.way /\ \A w \in DOMAIN res.way : net.way[w].course = res.way[w].course
  BY ContentIs
<1>5. \A w \in DOMAIN res.way : res.way[w].parent = wayRiver[w]
  BY DEF Current, Derived
<1> HIDE DEF wayRiver
<1>6. ASSUME NEW x PROVE /\ Ways(x) = {w \in DOMAIN res.way : res.way[w].parent = x}
                         /\ {<<w, net.way[w].course>> : w \in Ways(x)} = {<<w, res.way[w].course>> : w \in Ways(x)}
  BY <1>3, <1>4, <1>5
<1>7. ASSUME NEW x PROVE /\ Geom(x).ways = {<<w, net.way[w].course>> : w \in Ways(x)}
                         /\ Ways(x) = {} => Geom(x).reaches = Members(x)
  OBVIOUS
<1> HIDE DEF Order, Geom, Below
<1>8. /\ DOMAIN res.river = {riverOf[r] : r \in DOMAIN riverOf}
      /\ \A x \in DOMAIN res.river : /\ res.river[x].name = named[x].name /\ res.river[x].order = Order(x)
                                     /\ res.river[x].geom = Geom(x) /\ res.river[x].flows = Below(x)
  BY <1>1, <1>2
<1>9. ASSUME NEW x \in DOMAIN res.river
      PROVE  /\ res.river[x].geom.ways = {<<w, res.way[w].course>> : w \in Ways(x)}
             /\ Ways(x) = {} => res.river[x].geom.reaches = Members(x)
  <2>1. res.river[x].geom = Geom(x)
    BY <1>8
  <2>2. {<<w, net.way[w].course>> : w \in Ways(x)} = {<<w, res.way[w].course>> : w \in Ways(x)}
    BY <1>6
  <2> HIDE DEF Ways, Members
  <2>3. Geom(x).ways = {<<w, net.way[w].course>> : w \in Ways(x)} /\ (Ways(x) = {} => Geom(x).reaches = Members(x))
    BY <1>7
  <2>4. QED
    BY <2>1, <2>2, <2>3
<1>10. \A x : Ways(x) = {w \in DOMAIN res.way : res.way[w].parent = x}
  BY <1>6
<1> HIDE DEF Ways
<1>11. QED
  BY <1>8, <1>9, <1>10, Zenon DEF RowsOf, Order, Members, Below

Rises(reach) ==
    \A r \in DOMAIN reach : reach[r].flows \in DOMAIN reach => reach[reach[r].flows].order >= reach[r].order

\* The gates that an edit passes.
LEMMA GatesHold ==
  ASSUME NEW res, IsTable(res), Current(res), Drains(res.reach), Rises(res.reach)
  PROVE  Gates(res, FALSE)
<1> DEFINE net == Content(res)
           named == Names(net)
           riverOf == RiverOfReach(net, named)
           next == NextOfName(net, named)
<1>1. /\ DOMAIN named \subseteq DOMAIN res.reach /\ DOMAIN res.reach \subseteq Reach
      /\ DOMAIN riverOf = DOMAIN named
      /\ \A r \in DOMAIN named : riverOf[r] \in DOMAIN named /\ res.reach[r].parent = riverOf[r]
      /\ \A r \in (DOMAIN res.reach) \ (DOMAIN named) : res.reach[r].parent = Null
  BY Grouped
<1>2. DOMAIN res.river = {riverOf[r] : r \in DOMAIN riverOf}
  BY RowsGrouped DEF RowsOf
<1>3. ASSUME NEW w \in DOMAIN res.way, res.way[w].parent # Null PROVE res.way[w].parent \in DOMAIN res.river
  <2>1. PICK r \in DOMAIN riverOf : res.way[w].parent = riverOf[r]
    BY <1>3, WaysGrouped
  <2>2. QED
    BY <2>1, <1>2
<1> HIDE DEF net, named, riverOf, next
<1> DEFINE withRiver == {r \in DOMAIN res.reach : res.reach[r].parent # Null}
<1>4. \A x \in DOMAIN res.river : \E r \in withRiver : res.reach[r].parent = x
  BY <1>1, <1>2, RiverAssumption
<1>5. \A r \in withRiver : res.reach[r].parent \in DOMAIN res.river
  BY <1>1, <1>2
<1>6. QED
  BY <1>3, <1>4, <1>5 DEF Gates, Drains, Rises

LEMMA GroupsAreConnected ==
  ASSUME NEW res, IsTable(res), Current(res), Drains(res.reach)
  PROVE  ConnectedNames(res)
<1> DEFINE net == Content(res)
           named == Names(net)
           riverOf == RiverOfReach(net, named)
           next == NextOfName(net, named)
           bearing == DOMAIN named
           Joined(r, s) == res.reach[r].flows = s /\ named[r].name = named[s].name
           apart == {S \in SUBSET bearing : \A r, s \in bearing : Joined(r, s) => (r \in S <=> s \in S)}
           Group(r) == {s \in bearing : \A S \in apart : r \in S => s \in S}
           River(r) == res.reach[r].parent
<1>1. /\ bearing \subseteq Reach /\ DOMAIN riverOf = bearing /\ DOMAIN next = bearing
      /\ \A r \in bearing : next[r] = IF /\ res.reach[r].flows \in bearing
                                         /\ named[res.reach[r].flows].name = named[r].name
                                      THEN res.reach[r].flows ELSE Null
      /\ \A r \in bearing : /\ riverOf[r] \in bearing /\ riverOf[r] \in Walk(next, r)
                            /\ next[r] \in bearing => riverOf[next[r]] = riverOf[r]
      /\ \A r \in bearing : River(r) = riverOf[r]
      /\ \A r \in (DOMAIN res.reach) \ bearing : River(r) = Null /\ res.reach[r].confidence = Null
  BY Grouped
<1> HIDE DEF net, riverOf, next, named
<1>2. Null \notin bearing
  BY <1>1, RiverAssumption
<1>3. \A r, s \in bearing : Joined(r, s) <=> next[r] = s
  BY <1>1, <1>2
<1>4. ASSUME NEW S \in apart PROVE Closed(next, S) /\ Closed(next, bearing \ S)
  BY <1>1, <1>3 DEF Closed
<1>5. ASSUME NEW r \in bearing PROVE {s \in bearing : River(s) = River(r)} = Group(r)
  <2> DEFINE same == {s \in bearing : River(s) = River(r)}
  <2>1. same \in apart /\ r \in same
    BY <1>1, <1>3
  <2>2. ASSUME NEW s \in same, NEW S \in apart, r \in S PROVE s \in S
    <3>1. riverOf[r] \in S
      BY <1>1, <1>4, <2>2, WalkIsLeast
    <3>2. ASSUME s \notin S PROVE riverOf[s] \notin S
      <4> DEFINE rest == bearing \ S
      <4>1. Closed(next, rest) /\ s \in rest /\ riverOf[s] \in Walk(next, s)
        BY <1>1, <1>4, <3>2
      <4> HIDE DEF rest
      <4>2. riverOf[s] \in rest
        BY <4>1, WalkIsLeast
      <4>3. QED
        BY <4>2 DEF rest
    <3>3. riverOf[s] = riverOf[r]
      BY <1>1
    <3>4. QED
      BY <3>1, <3>2, <3>3
  <2>3. QED
    BY <2>1, <2>2
<1>6. ASSUME NEW r \in bearing PROVE River(r) # Null
  BY <1>1, <1>2
<1>7. \A r \in (DOMAIN res.reach) \ bearing : River(r) = Null /\ res.reach[r].confidence = Null
  BY <1>1
<1>8. QED
  BY <1>5, <1>6, <1>7, Zenon DEF ConnectedNames, net, named

LEMMA RowsAreOfMembers ==
  ASSUME NEW res, IsTable(res), Current(res), Drains(res.reach)
  PROVE  RowsFollow(res)
<1> DEFINE net == Content(res)
           named == Names(net)
           riverOf == RiverOfReach(net, named)
           next == NextOfName(net, named)
           Members(x) == {r \in DOMAIN res.reach : res.reach[r].parent = x}
           Ways(x) == {w \in DOMAIN res.way : res.way[w].parent = x}
           Outflows(x) == {res.reach[res.reach[r].flows].parent :
                              r \in {m \in Members(x) : res.reach[m].flows \in DOMAIN res.reach}} \ {x, Null}
<1>1. /\ DOMAIN named \subseteq DOMAIN res.reach /\ DOMAIN res.reach \subseteq Reach
      /\ DOMAIN riverOf = DOMAIN named
      /\ \A r \in DOMAIN named : next[r] = IF /\ res.reach[r].flows \in DOMAIN named
                                              /\ named[res.reach[r].flows].name = named[r].name
                                           THEN res.reach[r].flows ELSE Null
      /\ \A r \in DOMAIN named : /\ riverOf[r] \in DOMAIN named
                                 /\ riverOf[riverOf[r]] = riverOf[r]
                                 /\ named[riverOf[r]].name = named[r].name
                                 /\ next[r] \in DOMAIN named => riverOf[next[r]] = riverOf[r]
                                 /\ next[r] \notin DOMAIN named => riverOf[r] = r
      /\ \A r \in DOMAIN named : res.reach[r].parent = riverOf[r]
      /\ \A r \in (DOMAIN res.reach) \ (DOMAIN named) : res.reach[r].parent = Null
  BY Grouped
<1>2. RowsOf(res, net, named, riverOf)
  BY RowsGrouped
<1>3. \A w \in DOMAIN res.way :
         \/ /\ res.way[w].parent = Null
            /\ \A r \in DOMAIN riverOf : named[r].name # res.way[w].name
         \/ \E r \in DOMAIN riverOf : named[r].name = res.way[w].name /\ res.way[w].parent = riverOf[r]
  BY WaysGrouped
<1>4. \A r \in DOMAIN res.reach : net.reach[r].flows = res.reach[r].flows /\ net.reach[r].order = res.reach[r].order
  BY ContentIs
<1> HIDE DEF net, named, riverOf, next
<1>5. /\ DOMAIN res.river = {riverOf[r] : r \in DOMAIN riverOf}
      /\ \A x \in DOMAIN res.river : res.river[x].name = named[x].name
  BY <1>2, Zenon DEF RowsOf
<1>6. ASSUME NEW x \in DOMAIN res.river
      PROVE  res.river[x].flows =
                IF net.reach[x].flows \in DOMAIN riverOf /\ riverOf[net.reach[x].flows] # x
                THEN riverOf[net.reach[x].flows] ELSE Null
  BY <1>2, Zenon DEF RowsOf
<1>7. ASSUME NEW x \in DOMAIN res.river
      PROVE  res.river[x].order = Max({net.reach[r].order : r \in {r \in DOMAIN riverOf : riverOf[r] = x}})
  BY <1>2, Zenon DEF RowsOf
<1>8. Null \notin DOMAIN res.reach
  BY <1>1, RiverAssumption
<1>9. ASSUME NEW x \in DOMAIN res.river PROVE x \in DOMAIN named /\ x # Null /\ riverOf[x] = x
  BY <1>1, <1>5, <1>8
<1>10. ASSUME NEW x \in DOMAIN res.river PROVE Members(x) = {r \in DOMAIN riverOf : riverOf[r] = x}
  BY <1>1, <1>9
<1>11. ASSUME NEW x \in DOMAIN res.river, NEW w \in Ways(x) PROVE res.way[w].name = res.river[x].name
  <2>1. PICK r \in DOMAIN riverOf : named[r].name = res.way[w].name /\ res.way[w].parent = riverOf[r]
    BY <1>3, <1>9
  <2>2. riverOf[r] = x
    BY <2>1
  <2>3. QED
    BY <2>1, <2>2, <1>1, <1>5
<1>12. ASSUME NEW x \in DOMAIN res.river PROVE res.river[x].order = Max({res.reach[r].order : r \in Members(x)})
  <2>1. {net.reach[r].order : r \in Members(x)} = {res.reach[r].order : r \in Members(x)}
    BY <1>4
  <2>2. QED
    BY <2>1, <1>7, <1>10
<1>13. ASSUME NEW x \in DOMAIN res.river PROVE Outflows(x) = {res.river[x].flows} \ {Null}
  <2> DEFINE down == res.reach[x].flows
  <2>1. res.river[x].flows = IF down \in DOMAIN riverOf /\ riverOf[down] # x THEN riverOf[down] ELSE Null
    BY <1>1, <1>6, <1>4, <1>9
  <2>2. x \in Members(x)
    BY <1>1, <1>9
  <2>3. ASSUME NEW m \in Members(x), res.reach[m].flows \in DOMAIN res.reach,
               res.reach[res.reach[m].flows].parent \notin {x, Null}
        PROVE  m = x
    <3>1. m \in DOMAIN named /\ riverOf[m] = x
      BY <1>1, <1>10
    <3>2. next[m] \in DOMAIN named => next[m] = res.reach[m].flows
      BY <3>1, <1>1, <1>8
    <3>3. next[m] \in DOMAIN named => res.reach[res.reach[m].flows].parent = x
      BY <3>1, <3>2, <1>1
    <3>4. QED
      BY <3>1, <3>3, <2>3, <1>1
  <2>4. ASSUME NEW y \in Outflows(x) PROVE y = res.river[x].flows
    <3>1. down \in DOMAIN res.reach /\ y = res.reach[down].parent /\ y \notin {x, Null}
      BY <2>3
    <3>2. down \in DOMAIN named /\ y = riverOf[down]
      BY <3>1, <1>1
    <3>3. QED
      BY <3>1, <3>2, <2>1, <1>1
  <2>5. ASSUME res.river[x].flows # Null PROVE res.river[x].flows \in Outflows(x)
    <3>1. down \in DOMAIN riverOf /\ riverOf[down] # x /\ res.river[x].flows = riverOf[down]
      BY <2>1, <2>5
    <3>2. down \in DOMAIN res.reach /\ res.reach[down].parent = riverOf[down]
      BY <3>1, <1>1
    <3>3. QED
      BY <3>1, <3>2, <2>2, <2>5
  <2>6. QED
    BY <2>4, <2>5
<1>14. ASSUME NEW w \in DOMAIN res.way
       PROVE  res.way[w].parent = Null <=> ~\E x \in DOMAIN res.river : res.river[x].name = res.way[w].name
  <2>1. CASE \E r \in DOMAIN riverOf : named[r].name = res.way[w].name /\ res.way[w].parent = riverOf[r]
    <3>1. PICK r \in DOMAIN riverOf : named[r].name = res.way[w].name /\ res.way[w].parent = riverOf[r]
      BY <2>1
    <3>2. riverOf[r] \in DOMAIN res.river /\ res.river[riverOf[r]].name = named[r].name
      BY <3>1, <1>1, <1>5
    <3>3. QED
      BY <3>1, <3>2, <1>9
  <2>2. CASE res.way[w].parent = Null /\ \A r \in DOMAIN riverOf : named[r].name # res.way[w].name
    <3>1. \A x \in DOMAIN res.river : x \in DOMAIN riverOf /\ res.river[x].name = named[x].name
      BY <1>1, <1>5, <1>9
    <3>2. QED
      BY <2>2, <3>1
  <2>3. QED
    BY <2>1, <2>2, <1>3
<1>15. \A x \in DOMAIN res.river : /\ res.river[x].geom.ways = {<<w, res.way[w].course>> : w \in Ways(x)}
                                   /\ Ways(x) = {} => res.river[x].geom.reaches = Members(x)
  <2>1. ASSUME NEW x \in DOMAIN res.river
        PROVE  /\ res.river[x].geom.ways = {<<w, res.way[w].course>> : w \in Ways(x)}
               /\ Ways(x) = {} => res.river[x].geom.reaches = {r \in DOMAIN riverOf : riverOf[r] = x}
    BY <1>2, Zenon DEF RowsOf
  <2>2. QED
    BY <2>1, <1>10
<1>16. QED
  BY <1>11, <1>12, <1>13, <1>14, <1>15, Zenon DEF RowsFollow

-----------------------------------------------------------------------------
(* The invariant. *)

IsDraft(dr) == dr = [base |-> dr.base, way |-> dr.way] /\ AreWays(dr.base) /\ AreWays(dr.way)

\* The chain holds well-formed rows, what it resolves to is what a build of it would
\* derive, its reaches drain without falling in order, and drafts hold rows of ways.
RiverInv ==
    /\ AreTables(chain)
    /\ Current(Active) /\ Drains(Active.reach) /\ Rises(Active.reach)
    /\ DOMAIN draft = Draft
    /\ \A d \in Draft : draft[d] # Null => IsDraft(draft[d])

LEMMA RiverInvStarts ==
  ASSUME RiverInit PROVE RiverInv
<1>1. chain = <<>>
  BY DEF RiverInit
<1>2. AreTables(chain)
  BY <1>1 DEF AreTables
<1>3. ASSUME NEW f, DOMAIN f = {} PROVE DOMAIN Nearest(f) = {}
  <2> DEFINE all == UNION {DOMAIN f[i] : i \in DOMAIN f}
  <2>1. Nearest(f) = [id \in all |-> f[Min({i \in DOMAIN f : id \in DOMAIN f[i]})][id]]
    BY EvaluatedIs, Zenon DEF Nearest
  <2>2. all = {}
    BY <1>3
  <2> HIDE DEF all
  <2>3. QED
    BY <2>1, <2>2
<1>4. /\ DOMAIN [i \in DOMAIN chain |-> chain[i].reach] = {}
      /\ DOMAIN [i \in DOMAIN chain |-> chain[i].way] = {}
      /\ DOMAIN [i \in DOMAIN chain |-> chain[i].river] = {}
  BY <1>1
<1>5. DOMAIN ReachRows(chain) = {} /\ DOMAIN WayRows(chain) = {} /\ DOMAIN RiverRows(chain) = {}
  BY <1>3, <1>4 DEF ReachRows, WayRows, RiverRows
<1>6. DOMAIN Active.reach = {} /\ DOMAIN Active.way = {} /\ DOMAIN Active.river = {}
  BY <1>5, ResolvedIs, LiveIs DEF Active
<1>7. Drains(Active.reach) /\ Rises(Active.reach)
  BY <1>6 DEF Drains, Draining, Rises
<1>8. Active.river = Derived(Content(Active)).rivers
  <2> DEFINE net == Content(Active)
             named == Names(net)
             riverOf == RiverOfReach(net, named)
             wayRiver == RiverOfWay(net, riverOf, named)
             rivers == Derived(net).rivers
  <2>1. DOMAIN named = {}
    BY <1>6, ContentIs, NamesOfReaches
  <2>2. rivers = NewRivers(net, named, riverOf, wayRiver)
    BY DEF Derived
  <2> HIDE DEF net, named
  <2>3. DOMAIN riverOf = {}
    BY <2>1, EvaluatedIs DEF RiverOfReach
  <2> HIDE DEF riverOf, wayRiver
  <2>4. DOMAIN NewRivers(net, named, riverOf, wayRiver) = {riverOf[r] : r \in DOMAIN riverOf}
    BY EvaluatedIs DEF NewRivers
  <2>5. DOMAIN rivers = {} /\ rivers = [x \in DOMAIN rivers |-> rivers[x]]
    BY <2>2, <2>3, <2>4, RiversAreRows
  <2>6. Active.river = Live(RiverRows(chain))
    BY ResolvedIs DEF Active
  <2> HIDE DEF rivers
  <2>7. Active.river = rivers
    BY <2>5, <2>6, <1>6, LiveIsFunction
  <2>8. QED
    BY <2>7 DEF rivers, net
<1>9. Current(Active)
  BY <1>6, <1>8 DEF Current
<1>10. DOMAIN draft = Draft /\ \A d \in Draft : draft[d] = Null
  BY DEF RiverInit
<1>11. QED
  BY <1>2, <1>7, <1>9, <1>10 DEF RiverInv

LEMMA LoadedIsTable ==
  ASSUME NEW network \in Networks PROVE IsTable(Loaded(network))
<1> DEFINE rows == Loaded(network)
<1>1. /\ DOMAIN network.reach \subseteq Reach
      /\ \A w \in DOMAIN network.way : network.way[w].course \in Course
  BY RiverAssumption
<1>2. /\ rows.reach = [r \in DOMAIN network.reach |->
                          [flows |-> network.reach[r].flows, order |-> network.reach[r].order,
                           parent |-> Null, confidence |-> Null, deleted |-> FALSE]]
      /\ rows.way = [w \in DOMAIN network.way |->
                        [name |-> network.way[w].name, course |-> network.way[w].course,
                         parent |-> Null, deleted |-> FALSE]]
      /\ rows.river = <<>>
  BY DEF Loaded
<1> HIDE DEF rows
<1>3. ASSUME NEW r \in DOMAIN rows.reach PROVE r \in Reach /\ IsReachRow(rows.reach[r])
  <2>1. /\ r \in DOMAIN network.reach
        /\ rows.reach[r] = [flows |-> network.reach[r].flows, order |-> network.reach[r].order,
                            parent |-> Null, confidence |-> Null, deleted |-> FALSE]
    BY <1>2
  <2>2. QED
    BY <2>1, <1>1 DEF IsReachRow
<1>4. ASSUME NEW w \in DOMAIN rows.way PROVE IsWayRow(rows.way[w])
  <2>1. /\ w \in DOMAIN network.way
        /\ rows.way[w] = [name |-> network.way[w].name, course |-> network.way[w].course,
                          parent |-> Null, deleted |-> FALSE]
    BY <1>2
  <2>2. QED
    BY <2>1, <1>1 DEF IsWayRow
<1>5. \A x \in DOMAIN rows.river : IsRiverRow(rows.river[x])
  BY <1>2
<1>6. QED
  BY <1>3, <1>4, <1>5 DEF IsTable, AreWays, rows

LEMMA IngestKeeps ==
  ASSUME RiverInv, NEW network \in Networks, Ingest(network) PROVE RiverInv'
<1> DEFINE built == Build(Loaded(network), <<>>)
<1>1. /\ chain' = <<built>> /\ Gates(Resolved(<<built>>), TRUE) /\ UNCHANGED draft
  BY Zenon DEF Ingest
<1>2. AreTables(<<>>) /\ IsTable(Loaded(network))
  BY LoadedIsTable DEF AreTables
<1>3. IsTable(built) /\ Current(Resolved(<<built>> \o <<>>))
  BY <1>2, BuildResolves
<1> HIDE DEF built
<1>4. <<built>> \o <<>> = <<built>>
  OBVIOUS
<1>5. AreTables(<<built>>)
  BY <1>2, <1>3, <1>4, Stacking
<1>6. Drains(Resolved(<<built>>).reach) /\ Rises(Resolved(<<built>>).reach)
  BY <1>1 DEF Gates, Drains, Rises
<1>7. AreTables(chain)' /\ Current(Active)' /\ Drains(Active.reach)' /\ Rises(Active.reach)'
  BY <1>1, <1>3, <1>4, <1>5, <1>6 DEF Active
<1>8. QED
  BY <1>1, <1>7 DEF RiverInv

\* The rows of a draft, as the rows of a version.
LEMMA DraftIsTable ==
  ASSUME NEW ways, AreWays(ways), NEW own, own = [NoRows EXCEPT !.way = ways]
  PROVE  IsTable(own) /\ own.reach = <<>> /\ own.way = ways /\ own.river = <<>>
<1>1. own = [reach |-> <<>>, way |-> ways, river |-> <<>>]
  BY DEF NoRows
<1>2. QED
  BY <1>1 DEF IsTable

LEMMA PublishKeeps ==
  ASSUME RiverInv, NEW d \in Draft, Publish(d) PROVE RiverInv'
<1> DEFINE own == [NoRows EXCEPT !.way = draft[d].way]
           built == Build(own, chain)
<1>1. /\ draft[d] # Null /\ chain' = <<built>> \o chain /\ Gates(Resolved(<<built>> \o chain), FALSE)
      /\ draft' = [draft EXCEPT ![d] = Null]
  BY Zenon DEF Publish, BuiltDraft
<1>2. IsTable(own) /\ AreTables(chain)
  BY <1>1, DraftIsTable DEF RiverInv, IsDraft
<1> HIDE DEF own
<1>3. IsTable(built) /\ Current(Resolved(<<built>> \o chain))
  BY <1>2, BuildResolves
<1> HIDE DEF built
<1>4. AreTables(<<built>> \o chain)
  BY <1>2, <1>3, Stacking
<1>5. Drains(Resolved(<<built>> \o chain).reach) /\ Rises(Resolved(<<built>> \o chain).reach)
  BY <1>1 DEF Gates, Drains, Rises
<1>6. AreTables(chain)' /\ Current(Active)' /\ Drains(Active.reach)' /\ Rises(Active.reach)'
  BY <1>1, <1>3, <1>4, <1>5 DEF Active
<1>7. DOMAIN draft' = Draft /\ \A c \in Draft : draft'[c] # Null => IsDraft(draft'[c])
  BY <1>1 DEF RiverInv
<1>8. QED
  BY <1>6, <1>7 DEF RiverInv

\* The ways a draft shows are well formed.
LEMMA ShownAreWays ==
  ASSUME RiverInv, NEW d \in Draft, draft[d] # Null PROVE AreWays(Shown(d))
<1>1. AreWays(draft[d].base) /\ AreWays(draft[d].way)
  BY DEF RiverInv, IsDraft
<1> DEFINE all == Over(draft[d].way, draft[d].base)
<1>2. AreWays(all)
  BY <1>1, OverIs DEF AreWays
<1> HIDE DEF all
<1>3. AreWays(Live(all))
  BY <1>2, LiveIs DEF AreWays
<1>4. QED
  BY <1>3 DEF Shown, all

LEMMA TouchKeeps ==
  ASSUME RiverInv, NEW d \in Draft, draft[d] # Null, NEW w, NEW row, IsWayRow(row), Touch(d, w, row)
  PROVE  RiverInv'
<1>1. /\ chain' = chain /\ draft' = [draft EXCEPT ![d].way = Over([v \in {w} |-> row], @)]
  BY DEF Touch
<1>2. DOMAIN draft = Draft /\ IsDraft(draft[d])
  BY DEF RiverInv
<1> DEFINE ways == Over([v \in {w} |-> row], draft[d].way)
<1>3. AreWays(ways)
  BY <1>2, OverIs DEF AreWays, IsDraft
<1>4. draft' = [draft EXCEPT ![d] = [draft[d] EXCEPT !.way = ways]]
  BY <1>1
<1> HIDE DEF ways
<1>5. [draft[d] EXCEPT !.way = ways] = [base |-> draft[d].base, way |-> ways]
  BY <1>2 DEF IsDraft
<1>6. IsDraft(draft'[d]) /\ DOMAIN draft' = Draft
  <2>1. draft'[d] = [base |-> draft[d].base, way |-> ways] /\ DOMAIN draft' = Draft
    BY <1>2, <1>4, <1>5
  <2>2. QED
    BY <2>1, <1>2, <1>3 DEF IsDraft
<1>7. \A c \in Draft : draft'[c] # Null => IsDraft(draft'[c])
  <2> SUFFICES ASSUME NEW c \in Draft, draft'[c] # Null PROVE IsDraft(draft'[c])
    OBVIOUS
  <2>1. CASE c = d
    BY <2>1, <1>6
  <2>2. CASE c # d
    <3>1. draft'[c] = draft[c]
      BY <2>2, <1>2, <1>4
    <3>2. QED
      BY <3>1 DEF RiverInv
  <2>3. QED
    BY <2>1, <2>2
<1>8. Active' = Active
  BY <1>1 DEF Active
<1>9. QED
  BY <1>1, <1>6, <1>7, <1>8 DEF RiverInv

LEMMA RiverStepKeeps ==
  ASSUME RiverInv, [RiverNext]_riverVars PROVE RiverInv'
<1>1. ASSUME NEW network \in Networks, Ingest(network) PROVE RiverInv'
  BY <1>1, IngestKeeps
<1>2. ASSUME NEW d \in Draft, OpenRiverDraft(d) PROVE RiverInv'
  <2>1. /\ chain' = chain /\ draft' = [draft EXCEPT ![d] = [base |-> Active.way, way |-> <<>>]]
    BY <1>2 DEF OpenRiverDraft
  <2>2. AreWays(Active.way) /\ AreWays(<<>>)
    BY ResolvedIsTable DEF RiverInv, Active, IsTable, AreWays
  <2>3. IsDraft([base |-> Active.way, way |-> <<>>])
    BY <2>2 DEF IsDraft
  <2>4. DOMAIN draft' = Draft /\ \A c \in Draft : draft'[c] # Null => IsDraft(draft'[c])
    BY <2>1, <2>3 DEF RiverInv
  <2>5. Active' = Active
    BY <2>1 DEF Active
  <2>6. QED
    BY <2>1, <2>4, <2>5 DEF RiverInv
<1>3. ASSUME NEW d \in Draft, Publish(d) PROVE RiverInv'
  BY <1>3, PublishKeeps
<1>4. ASSUME NEW d \in Draft, Discard(d) PROVE RiverInv'
  <2>1. chain' = chain /\ draft' = [draft EXCEPT ![d] = Null]
    BY <1>4 DEF Discard
  <2>2. DOMAIN draft' = Draft /\ \A c \in Draft : draft'[c] # Null => IsDraft(draft'[c])
    BY <2>1 DEF RiverInv
  <2>3. Active' = Active
    BY <2>1 DEF Active
  <2>4. QED
    BY <2>1, <2>2, <2>3 DEF RiverInv
<1>5. ASSUME NEW d \in Draft, NEW w \in Way, DeleteWay(d, w) PROVE RiverInv'
  <2> DEFINE old == Shown(d)[w]
             row == [old EXCEPT !.parent = Null, !.deleted = TRUE]
  <2>1. draft[d] # Null /\ w \in DOMAIN Shown(d) /\ Touch(d, w, row)
    BY <1>5 DEF DeleteWay
  <2>2. IsWayRow(old)
    BY <2>1, ShownAreWays DEF AreWays
  <2> HIDE DEF old
  <2>3. row = [old EXCEPT !.parent = Null, !.deleted = TRUE]
    OBVIOUS
  <2> HIDE DEF row
  <2>4. IsWayRow(row)
    BY <2>2, <2>3 DEF IsWayRow
  <2>5. QED
    BY <2>1, <2>4, TouchKeeps
<1>6. ASSUME NEW d \in Draft, NEW w \in Way, NEW row \in WayRow, EditWay(d, w, row) PROVE RiverInv'
  <2>1. draft[d] # Null /\ Touch(d, w, row)
    BY <1>6 DEF EditWay
  <2>2. IsWayRow(row)
    BY DEF WayRow, IsWayRow
  <2>3. QED
    BY <2>1, <2>2, TouchKeeps
<1>7. CASE UNCHANGED riverVars
  <2>1. chain' = chain /\ draft' = draft
    BY <1>7 DEF riverVars
  <2>2. QED
    BY <2>1 DEF RiverInv, Active
<1>8. QED
  BY <1>1, <1>2, <1>3, <1>4, <1>5, <1>6, <1>7, Zenon DEF RiverNext

\* What every version is, and what the drafts hold.
THEOREM RiverInvariant == RiverSpec => []RiverInv
<1>1. RiverInit => RiverInv
  BY RiverInvStarts
<1>2. RiverInv /\ [RiverNext]_riverVars => RiverInv'
  BY RiverStepKeeps
<1>3. QED
  BY <1>1, <1>2, PTL DEF RiverSpec

\* The rivers of the version in force are the connected groups of reaches of one name,
\* however many versions its rows come from.
THEOREM ConnectedNamesHold == RiverSpec => []RiversAreConnectedNames
<1>1. RiverInv => RiversAreConnectedNames
  <2> SUFFICES ASSUME RiverInv PROVE RiversAreConnectedNames
    OBVIOUS
  <2>1. IsTable(Active) /\ Current(Active) /\ Drains(Active.reach)
    BY ResolvedIsTable DEF RiverInv, Active
  <2>2. ConnectedNames(Active)
    BY <2>1, GroupsAreConnected
  <2>3. QED
    BY <2>2 DEF RiversAreConnectedNames
<1>2. QED
  BY <1>1, RiverInvariant, PTL

\* The row of every river is what its reaches and ways are now.
THEOREM RowsFollowHold == RiverSpec => []RiverRowsFollowMembers
<1>1. RiverInv => RiverRowsFollowMembers
  <2> SUFFICES ASSUME RiverInv PROVE RiverRowsFollowMembers
    OBVIOUS
  <2>1. IsTable(Active) /\ Current(Active) /\ Drains(Active.reach)
    BY ResolvedIsTable DEF RiverInv, Active
  <2>2. RowsFollow(Active)
    BY <2>1, RowsAreOfMembers
  <2>3. QED
    BY <2>2 DEF RiverRowsFollowMembers
<1>2. QED
  BY <1>1, RiverInvariant, PTL

\* Building the version in force again writes nothing.
THEOREM RebuildHolds == RiverSpec => []RebuildWritesNothing
<1>1. RiverInv => RebuildWritesNothing
  BY NothingToWrite, Zenon DEF RiverInv, RebuildWritesNothing, Active
<1>2. QED
  BY <1>1, RiverInvariant, PTL

\* No edit of ways makes a version that a gate refuses.
THEOREM EditsPassGatesHolds == RiverSpec => []EditsPassGates
<1>1. RiverInv => EditsPassGates
  <2> SUFFICES ASSUME RiverInv, NEW d \in Draft, draft[d] # Null
               PROVE  Gates(Resolved(<<BuiltDraft(d)>> \o chain), FALSE)
    BY DEF EditsPassGates
  <2> DEFINE own == [NoRows EXCEPT !.way = draft[d].way]
             built == Build(own, chain)
             before == Resolved(<<own>> \o chain)
             after == Resolved(<<built>> \o chain)
  <2>1. AreTables(chain) /\ Drains(Active.reach) /\ Rises(Active.reach)
    BY DEF RiverInv
  <2>2. IsTable(own) /\ own.reach = <<>>
    BY DraftIsTable DEF RiverInv, IsDraft
  <2> HIDE DEF own
  <2>3. IsTable(built) /\ Content(after) = Content(before) /\ Current(after)
    BY <2>1, <2>2, BuildResolves
  <2>4. before.reach = Active.reach
    BY <2>1, <2>2, RowsOver, ResolvedIs, LiveOverNothing DEF Active
  <2>5. IsTable(after)
    BY <2>1, <2>3, Stacking, ResolvedIsTable
  <2> HIDE DEF built, before, after
  <2>6. /\ DOMAIN after.reach = DOMAIN before.reach
        /\ \A r \in DOMAIN after.reach : /\ after.reach[r].flows = before.reach[r].flows
                                         /\ after.reach[r].order = before.reach[r].order
    BY <2>3, ContentIs
  <2>7. Drains(after.reach)
    BY <2>1, <2>4, <2>6, SameDrains
  <2>8. Rises(after.reach)
    BY <2>1, <2>4, <2>6 DEF Rises
  <2>9. Gates(after, FALSE)
    BY <2>3, <2>5, <2>7, <2>8, GatesHold
  <2>10. QED
    BY <2>9 DEF after, built, own, BuiltDraft
<1>2. QED
  BY <1>1, RiverInvariant, PTL

=============================================================================
