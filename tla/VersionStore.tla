---------------------------- MODULE VersionStore ----------------------------
(***************************************************************************)
(* One thematic layer of the atlas, as packages/versioning keeps it: a     *)
(* forest of dataset versions, the rows each version stores, the flag that *)
(* marks the rows the map shows, personal drafts with their conflict       *)
(* choices, and retention.  Every action is one committed transaction; a   *)
(* transaction that throws rolls back and is a stutter.  The statement-    *)
(* level interleaving of these transactions is in module PublishProtocol.  *)
(*                                                                         *)
(* Versions are numbered in the order of app.dataset_versions.ingested_at. *)
(* A version is an ingest exactly when it has no parent (a CHECK of        *)
(* migration 4), so `kind' is not a column of its own here.                *)
(***************************************************************************)
EXTENDS Integers, FiniteSets, Functions

CONSTANTS
    MaxVersions,        \* bound: versions ever created
    MaxFeature,         \* bound: highest external_id
    Floor,              \* EDIT_EXTERNAL_ID_FLOOR: source ids are 1..Floor, minted ids lie above
    MaxRevision,        \* bound: a draft's revision is counted modulo MaxRevision + 1
    EarlierLoadsKept,   \* EARLIER_LOADS_KEPT
    Contents,           \* what a row says of its feature, geometry included
    Units, NoUnit,      \* managing units; NoUnit stands for NULL
    Rule,               \* admin.managing_unit_for: content -> unit
    Users,
    Jurisdiction,       \* user -> units it may change; NoUnit (national) for a national user
    MaxPins,            \* bound: versions pinned at a time
    UntouchedFrom       \* the `untouchedFrom' options the callers of draftOps pass

NoVersion == 0
Version   == 1 .. MaxVersions
Feature   == 1 .. MaxFeature
Row       == [content : Contents, unit : Units \cup {NoUnit}, deleted : BOOLEAN]
DatasetVersion == [parent : Version \cup {NoVersion}, draft : BOOLEAN, owner : Users \cup {NoVersion},
                   revision : 0 .. MaxRevision]

ASSUME BoundsAssumption ==
    /\ MaxPins \in Nat
    /\ MaxVersions \in Nat /\ MaxFeature \in Nat /\ MaxRevision \in Nat
    /\ Floor \in 0 .. MaxFeature
    /\ EarlierLoadsKept \in Nat

ASSUME DataAssumption ==
    /\ NoUnit \notin Units
    /\ Rule \in [Contents -> Units]
    /\ Jurisdiction \in [Users -> SUBSET (Units \cup {NoUnit})]
    /\ UntouchedFrom \subseteq {"draft", "active"}

VARIABLES
    clock,        \* number of versions ever created
    versions,     \* app.dataset_versions of the layer, by id
    active,       \* the version with is_active, or NoVersion
    rows,         \* water.<layer>: version -> external_id -> row
    current,      \* the <<version, external_id>> of the rows with is_current
    resolutions,  \* app.draft_resolutions: <<draft, external_id, against_version_id>>, choice `mine'
    pins          \* app.version_pins

vars == <<clock, versions, active, rows, current, resolutions, pins>>

Put(f, k, e) == [x \in DOMAIN f \cup {k} |-> IF x = k THEN e ELSE f[x]]
NoRows == [x \in {} |-> NoVersion]

-----------------------------------------------------------------------------
(* Chains, resolution and content *)

Closed(vs, S) == \A v \in S : vs[v].parent # NoVersion => vs[v].parent \in S

Parents(vs) == {vs[v].parent : v \in DOMAIN vs} \ {NoVersion}

\* A version and its ancestors: the least set closed under `parent' that holds v.
Chain(vs, v) ==
    LET closed == {S \in SUBSET Parents(vs) : Closed(vs, S \cup {v})}
    IN  {v} \cup {u \in Parents(vs) : \A S \in closed : u \in S \cup {v}}

\* resolvedSql: per feature the nearest row of the chain, and no row where that is a tombstone.
Resolved(vs, rs, v) ==
    LET chain == Chain(vs, v)
    IN  {k \in chain \X Feature :
            /\ k[2] \in DOMAIN rs[k[1]]
            /\ ~rs[k[1]][k[2]].deleted
            /\ {b \in chain : k[2] \in DOMAIN rs[b]} \subseteq Chain(vs, k[1])}

\* What the keys of a resolved state say of feature x: one pair, or nothing.
Content(rs, keys, x) ==
    {<<rs[k[1]][x].content, rs[k[1]][x].unit>> : k \in {j \in keys : j[2] = x}}

Drafts == {v \in DOMAIN versions : versions[v].draft}

\* Mutants of Conflicts: rows compared by identity; a choice that never lapses.
ConflictsByRow(d) ==
    IF versions[d].parent = active THEN {}
    ELSE LET base == Resolved(versions, rows, versions[d].parent)
             now  == Resolved(versions, rows, active)
         IN  {x \in DOMAIN rows[d] : /\ {k \in base : k[2] = x} # {k \in now : k[2] = x}
                                     /\ <<d, x, active>> \notin resolutions}
ConflictsChosenOnce(d) ==
    IF versions[d].parent = active THEN {}
    ELSE LET base == Resolved(versions, rows, versions[d].parent)
             now  == Resolved(versions, rows, active)
         IN  {x \in DOMAIN rows[d] : /\ Content(rows, base, x) # Content(rows, now, x)
                                     /\ \A r \in resolutions : r[1] # d \/ r[2] # x}

\* touched /\ changed since the parent /\ not resolved against this active version
Conflicts(d) ==
    IF versions[d].parent = active THEN {}
    ELSE LET base == Resolved(versions, rows, versions[d].parent)
             now  == Resolved(versions, rows, active)
         IN  {x \in DOMAIN rows[d] : /\ Content(rows, base, x) # Content(rows, now, x)
                                     /\ <<d, x, active>> \notin resolutions}

-----------------------------------------------------------------------------
(* Retention *)

Ingests(vs) == {v \in DOMAIN vs : vs[v].parent = NoVersion}

EarlierRoots(vs, act) ==
    LET outside == Ingests(vs) \ Chain(vs, act)
    IN  {r \in outside : Cardinality({s \in outside : s > r}) < EarlierLoadsKept}

\* The chains of the active version, of every pin and of every draft, and the trees of the earlier roots.
Kept(vs, act) ==
    LET holders == {act} \cup pins \cup {v \in DOMAIN vs : vs[v].draft}
        roots   == EarlierRoots(vs, act)
    IN  (UNION {Chain(vs, h) : h \in holders}) \cup {v \in DOMAIN vs : Chain(vs, v) \cap roots # {}}

\* assertPrunable: no kept version descends from one that goes.
Prunable(vs, kept) == Closed(vs, kept)

-----------------------------------------------------------------------------
(* Activation *)

\* Mutant of StampManagingUnits: every load applies the rule again.
StampByRule(rs, v) ==
    [rs EXCEPT ![v] = [x \in DOMAIN rs[v] |->
        IF rs[v][x].unit = NoUnit /\ ~rs[v][x].deleted
        THEN [rs[v][x] EXCEPT !.unit = Rule[rs[v][x].content]] ELSE rs[v][x]]]

\* Live rows of v without a unit inherit it from the row that is still current, else get the rule's.
StampManagingUnits(rs, v) ==
    LET previous(x) == {k \in current : k[2] = x /\ k[1] # v /\ rs[k[1]][x].unit # NoUnit}
        unit(x) == IF previous(x) # {} THEN rs[(CHOOSE k \in previous(x) : TRUE)[1]][x].unit
                                       ELSE Rule[rs[v][x].content]
    IN  [rs EXCEPT ![v] = [x \in DOMAIN rs[v] |->
            IF rs[v][x].unit = NoUnit /\ ~rs[v][x].deleted
            THEN [rs[v][x] EXCEPT !.unit = unit(x)] ELSE rs[v][x]]]

\* pruneVersions on the tables vs and rs, whose active version is act.
Prune(vs, rs, act, res) ==
    LET kept == Kept(vs, act)
    IN  /\ Prunable(vs, kept)
        /\ versions' = Restrict(vs, kept)
        /\ rows' = Restrict(rs, kept)
        /\ resolutions' = {r \in res : r[1] \in kept /\ r[3] \in kept}

\* Mutant of Activate: the rows of the previous state keep their flag.
ActivateWithoutClearing(v, vs, rs, res) ==
    LET stamped == StampManagingUnits(rs, v)
    IN  /\ active' = v
        /\ current' = current \cup Resolved(vs, stamped, v)
        /\ Prune(vs, stamped, v, res)

\* Make v the active version; vs, rs and res are the tables as the transaction has left them.
Activate(v, vs, rs, res) ==
    LET stamped == StampManagingUnits(rs, v)
    IN  /\ active' = v
        /\ current' = Resolved(vs, stamped, v)
        /\ Prune(vs, stamped, v, res)

\* createIngestVersion, loadFeatures and activate, for a load whose content is new.
Load(supersede) ==
    /\ clock < MaxVersions
    /\ active # NoVersion => (versions[active].parent = NoVersion \/ supersede)
    /\ clock' = clock + 1
    /\ \E S \in SUBSET (1 .. Floor) : \E f \in [S -> Contents] :
          LET v == clock + 1 IN
          Activate(v,
                   Put(versions, v, [parent |-> NoVersion, draft |-> FALSE, owner |-> NoVersion,
                                     revision |-> 0]),
                   Put(rows, v, [x \in S |-> [content |-> f[x], unit |-> NoUnit, deleted |-> FALSE]]),
                   resolutions)
    /\ UNCHANGED pins

\* A load whose content the layer already rests on: nothing is activated, retention runs.
RestampUnchanged ==
    /\ active # NoVersion
    /\ Prune(versions, rows, active, resolutions)
    /\ UNCHANGED <<clock, active, current, pins>>

-----------------------------------------------------------------------------
(* Drafts *)

NewDraft(parent, user) == [parent |-> parent, draft |-> TRUE, owner |-> user, revision |-> 0]

OpenDraft(user) ==
    /\ active # NoVersion
    /\ clock < MaxVersions
    /\ clock' = clock + 1
    /\ versions' = Put(versions, clock + 1, NewDraft(active, user))
    /\ rows' = Put(rows, clock + 1, NoRows)
    /\ UNCHANGED <<active, current, resolutions, pins>>

\* Mutant of CopyDraft: the copy is built on the draft it copies.
CopyOnTop(d, user) ==
    /\ clock < MaxVersions
    /\ clock' = clock + 1
    /\ versions' = Put(versions, clock + 1, NewDraft(d, user))
    /\ rows' = Put(rows, clock + 1, rows[d])
    /\ UNCHANGED <<active, current, resolutions, pins>>

\* A new draft on the source's parent with a copy of the source's own rows, tombstones included.
CopyDraft(d, user) ==
    /\ clock < MaxVersions
    /\ clock' = clock + 1
    /\ versions' = Put(versions, clock + 1, NewDraft(versions[d].parent, user))
    /\ rows' = Put(rows, clock + 1, rows[d])
    /\ UNCHANGED <<active, current, resolutions, pins>>

DiscardDraft(d) ==
    /\ versions' = Restrict(versions, DOMAIN versions \ {d})
    /\ rows' = Restrict(rows, DOMAIN rows \ {d})
    /\ resolutions' = {r \in resolutions : r[1] # d}
    /\ UNCHANGED <<clock, active, current, pins>>

\* mintExternalId: one above every stored row of the layer and above the floor.
IsNextExternalId(x) ==
    LET stored == UNION {DOMAIN rows[v] : v \in DOMAIN rows}
    IN  /\ x > Floor
        /\ \A y \in stored : y < x
        /\ x = Floor + 1 \/ x - 1 \in stored

\* resolveEditSource: the row an operation of version d on feature x starts from, if there is one.
EditSource(d, vs, rs, x, from) ==
    IF x \in DOMAIN rs[d]
    THEN {r \in {rs[d][x]} : ~r.deleted}
    ELSE {rs[k[1]][x] : k \in {j \in (IF from = "active" THEN current ELSE Resolved(vs, rs, d)) : j[2] = x}}

\* The rows createInDraft, updateInDraft and removeInDraft may leave in version d for feature x.
Created(x) ==
    {r \in Row : IsNextExternalId(x) /\ ~r.deleted /\ r.unit \in Units}
Updated(d, vs, rs, x, from) ==
    {r \in Row : EditSource(d, vs, rs, x, from) # {} /\ ~r.deleted /\ r.unit \in Units}
Removed(d, vs, rs, x, from) ==
    {[r EXCEPT !.deleted = TRUE] : r \in EditSource(d, vs, rs, x, from)}
Written(d, vs, rs, x, from) ==
    Created(x) \cup Updated(d, vs, rs, x, from) \cup Removed(d, vs, rs, x, from)

\* A revision is only ever compared for equality with the one before, so it may wrap around.
NextRevision(r) == IF r = MaxRevision THEN 0 ELSE r + 1
\* Mutant of BumpRevision: the revision stays.
KeepRevision(vs, d) == [vs EXCEPT ![d].revision = @]

BumpRevision(vs, d) == [vs EXCEPT ![d].revision = NextRevision(@)]

\* editDraft: one operation on the owner's draft, recorded as a new revision.
EditDraft(d, x, from) ==
    /\ \E r \in Written(d, versions, rows, x, from) : rows' = [rows EXCEPT ![d] = Put(@, x, r)]
    /\ versions' = BumpRevision(versions, d)
    /\ UNCHANGED <<clock, active, current, resolutions, pins>>

ResolveMine(d, x) ==
    /\ active # NoVersion
    /\ x \in Conflicts(d)
    /\ resolutions' = {r \in resolutions : r[1] # d \/ r[2] # x} \cup {<<d, x, active>>}
    /\ versions' = BumpRevision(versions, d)
    /\ UNCHANGED <<clock, active, rows, current, pins>>

ResolveTheirs(d, x) ==
    /\ active # NoVersion
    /\ x \in Conflicts(d)
    /\ rows' = [rows EXCEPT ![d] = Restrict(@, DOMAIN @ \ {x})]
    /\ resolutions' = {r \in resolutions : r[1] # d \/ r[2] # x}
    /\ versions' = BumpRevision(versions, d)
    /\ UNCHANGED <<clock, active, current, pins>>

-----------------------------------------------------------------------------
(* Rebase and publish *)

Rebased(d) == [BumpRevision(versions, d) EXCEPT ![d].parent = active]
WithoutChoices(d) == {r \in resolutions : r[1] # d}

\* The rebase on its own ("bring up to the latest version"), under the active row's lock.
RebaseDraft(d) ==
    /\ active # NoVersion
    /\ versions[d].parent # active
    /\ Conflicts(d) = {}
    /\ versions' = Rebased(d)
    /\ resolutions' = WithoutChoices(d)
    /\ UNCHANGED <<clock, active, rows, current, pins>>

\* Mutant of Publishable: only the unit a feature will have is checked.
PublishableByNewUnit(user, rs, v) ==
    \A x \in DOMAIN rs[v] : rs[v][x].deleted \/ rs[v][x].unit \in Jurisdiction[user]

\* assertDraftPublishable: every feature the version touches, against the units as they are now.
Publishable(user, rs, v) ==
    \A x \in DOMAIN rs[v] :
        LET now == {rs[k[1]][x].unit : k \in {j \in current : j[2] = x}}
            new == IF rs[v][x].deleted THEN {} ELSE {rs[v][x].unit}
        IN  now \cup new \subseteq Jurisdiction[user]

PublishDraft(d) ==
    /\ active # NoVersion
    /\ Conflicts(d) = {}
    /\ Publishable(versions[d].owner, rows, d)
    /\ LET onto == IF versions[d].parent = active THEN versions ELSE Rebased(d)
       IN  Activate(d, [onto EXCEPT ![d].draft = FALSE], rows, WithoutChoices(d))
    /\ UNCHANGED <<clock, pins>>

\* directWrite: a draft opened, given one operation and published in one transaction.
DirectWrite(user, x) ==
    /\ active # NoVersion
    /\ clock < MaxVersions
    /\ clock' = clock + 1
    /\ LET v == clock + 1
           opened == Put(versions, v, NewDraft(active, user))
       IN  \E r \in Written(v, opened, Put(rows, v, NoRows), x, "draft") :
              LET rs == Put(rows, v, [y \in {x} |-> r])
              IN  /\ Publishable(user, rs, v)
                  /\ Activate(v, [opened EXCEPT ![v].draft = FALSE], rs, resolutions)
    /\ UNCHANGED pins

\* A holder of a published version (scenarios) pins it, and lets it go.
Pin(v) ==
    /\ v \notin pins
    /\ ~versions[v].draft
    /\ Cardinality(pins) < MaxPins
    /\ pins' = pins \cup {v}
    /\ UNCHANGED <<clock, versions, active, rows, current, resolutions>>

Unpin(v) ==
    /\ pins' = pins \ {v}
    /\ UNCHANGED <<clock, versions, active, rows, current, resolutions>>

-----------------------------------------------------------------------------
Init ==
    /\ clock = 0
    /\ versions = NoRows
    /\ active = NoVersion
    /\ rows = NoRows
    /\ current = {}
    /\ resolutions = {}
    /\ pins = {}

Next ==
    \/ \E supersede \in BOOLEAN : Load(supersede)
    \/ RestampUnchanged
    \/ \E user \in Users : OpenDraft(user)
    \/ \E d \in Drafts, user \in Users : CopyDraft(d, user)
    \/ \E d \in Drafts : DiscardDraft(d)
    \/ \E d \in Drafts, x \in Feature, from \in UntouchedFrom : EditDraft(d, x, from)
    \/ \E d \in Drafts, x \in Feature : ResolveMine(d, x)
    \/ \E d \in Drafts, x \in Feature : ResolveTheirs(d, x)
    \/ \E d \in Drafts : RebaseDraft(d)
    \/ \E d \in Drafts : PublishDraft(d)
    \/ \E user \in Users, x \in Feature : DirectWrite(user, x)
    \/ \E v \in DOMAIN versions : Pin(v)
    \/ \E v \in pins : Unpin(v)

Spec == Init /\ [][Next]_vars

-----------------------------------------------------------------------------
(* Properties *)

\* Types of the tables, and the bounds of the counters.
TypeOK ==
    /\ clock \in 0 .. MaxVersions
    /\ DOMAIN versions \subseteq 1 .. clock
    /\ \A v \in DOMAIN versions : versions[v] \in DatasetVersion
    /\ versions \in [DOMAIN versions -> DatasetVersion]
    /\ active \in DOMAIN versions \cup {NoVersion}
    /\ rows \in [DOMAIN versions -> UNION {[S -> Row] : S \in SUBSET Feature}]
    /\ current \subseteq (DOMAIN versions) \X Feature
    /\ resolutions \subseteq Drafts \X Feature \X DOMAIN versions
    /\ pins \subseteq DOMAIN versions \ Drafts

\* Every parent a version names is stored (`parent_version_id' cascades on delete, so a version whose
\* parent retention took would go with it), no version is built on a draft, and the active version
\* is not a draft.
ForestIntact ==
    /\ Closed(versions, DOMAIN versions)
    /\ \A v \in DOMAIN versions : versions[v].parent \notin Drafts
    /\ active \notin Drafts

\* The rows flagged is_current are exactly what the active version resolves to: no draft edit,
\* retention or unchanged load moves a row in or out of the map without an activation.
CurrentIsResolved ==
    current = IF active = NoVersion THEN {} ELSE Resolved(versions, rows, active)

\* The plan of pruneVersions never trips assertPrunable, so no activation is ever refused for it.
RetentionNeverRefuses == active # NoVersion => Prunable(versions, Kept(versions, active))

\* A publish changes features of the map only inside the jurisdiction of the draft's owner: both the
\* unit a changed feature had and the unit it has afterwards are the owner's.
WithinJurisdiction ==
    [][\A v \in DOMAIN versions' :
          (active' = v /\ active # v /\ versions'[v].parent # NoVersion) =>
             \A x \in Feature :
                LET before == Content(rows, current, x)
                    after  == Content(rows', current', x)
                IN  before # after =>
                       \A c \in before \cup after : c[2] \in Jurisdiction[versions'[v].owner]]_vars

\* A load never moves a feature to another managing unit: the unit is kept from the previous active
\* state across re-ingests, even where the rule would now give another one.
UnitSurvivesLoad ==
    [][(active' # active /\ versions'[active'].parent = NoVersion) =>
          \A x \in Feature : \A b \in Content(rows, current, x), a \in Content(rows', current', x) :
             a[2] = b[2]]_vars

\* What a draft resolves to changes only with its revision: publishes, loads, retention and unit
\* stamps by anybody else leave every row of a draft's chain as it was.
DraftIsolation ==
    [][\A d \in Drafts \cap Drafts' :
          LET before == Resolved(versions, rows, d)
              after  == Resolved(versions', rows', d)
          IN  \/ versions'[d].revision = NextRevision(versions[d].revision)
              \/ /\ after = before
                 /\ \A k \in before : rows'[k[1]][k[2]] = rows[k[1]][k[2]]]_vars

-----------------------------------------------------------------------------
(* The promise of module PublishedLayer, kept by this one. *)

ContentAt(v) == [x \in Feature |-> Content(rows, Resolved(versions, rows, v), x)]
Patch(d) == [x \in DOMAIN rows[d] |->
               IF rows[d][x].deleted THEN {} ELSE {<<rows[d][x].content, rows[d][x].unit>>}]

Layer == INSTANCE PublishedLayer WITH
            DraftId  <- Version,
            official <- [x \in Feature |-> Content(rows, current, x)],
            personal <- [d \in Drafts |->
                           [base  |-> ContentAt(versions[d].parent),
                            patch |-> Patch(d),
                            mine  |-> {x \in Feature : <<d, x, active>> \in resolutions}]]

\* Seen from outside, the version store is a layer with patches over it: retention, chains, re-ingest
\* and the current flag change nothing a reader, an editor or a publisher can tell.
ImplementsPublishedLayer == Layer!LayerSpec
=============================================================================
