----------------------------- MODULE PersonalMaps -----------------------------
(* The rows of the personal maps (apps/api/src/modules/workspace): maps with a revision, their
   layers in a stacking order without gaps, the drafts behind edit copies, and shares. Every content
   write locks its map row first and holds it to the end (lockMapForWrite), so a write is one step
   here; what is not one step is the read of a map, three statements on three connections of the
   pool, between which any write may commit. A tab writes with the revision of its last read.

   A layer's style, title, fields and features are one value, the revision of the write that last
   changed them. Archived maps, and files of raster layers, are in ImportedOriginals and FileStore. *)
EXTENDS Integers, FiniteSets, FiniteSetsExt, Functions

CONSTANTS
    Users,
    Members,      \* user or group that can be shared with -> the users it stands for
    Tabs,
    UserOf,       \* tab -> the user signed in
    Maps,         \* map ids; each is given to one map only
    Layers,       \* layer ids, in the order they are given out
    Kinds,        \* "free", "edit_copy", "raster"
    MaxRevision,  \* bound on the revision of a map
    Nothing

ASSUME PersonalMapsAssumption ==
    /\ Layers \subseteq Nat /\ IsFiniteSet(Layers)
    /\ MaxRevision \in Nat
    /\ Kinds \subseteq {"free", "edit_copy", "raster"}
    /\ UserOf \in [Tabs -> Users]
    /\ Nothing \notin Layers
    /\ {"unused", "deleted"} \cap Users = {}

VARIABLES
    owner,     \* map -> its owner, "unused", or "deleted"
    revision,  \* map -> its revision
    layers,    \* the rows of map_layers
    drafts,    \* the personal drafts in store, each named by the layer it was opened for
    shares,    \* <<map, member>>
    reading,   \* tab -> the GET it has under way
    seen       \* tab -> the map detail it shows

content == <<owner, revision, layers, drafts>>
vars == <<owner, revision, layers, drafts, shares, reading, seen>>

Layer == [id: Layers, map: Maps, kind: Kinds, position: Nat, data: Nat, draft: Layers \cup {Nothing}]
Detail == [map: Maps, revision: Nat, layers: SUBSET Layer]
Read == [map: Maps, stage: {"summary"}] \cup [map: Maps, stage: {"layers"}, revision: Nat]

TypeOK ==
    /\ owner \in [Maps -> Users \cup {"unused", "deleted"}]
    /\ revision \in [Maps -> Nat]
    /\ layers \subseteq Layer
    /\ drafts \subseteq Layers
    /\ shares \subseteq Maps \X DOMAIN Members
    /\ reading \in [Tabs -> Read \cup {Nothing}]
    /\ seen \in [Tabs -> Detail \cup {Nothing}]

------------------------------------------------------------------------------
LayersOf(m) == {l \in layers : l.map = m}
Live(m) == owner[m] \notin {"unused", "deleted"}

\* The SQL of mapRole, for both roles: the owner, or a user an entry of map_shares stands for.
MayRead(u, m) == Live(m) /\ (owner[m] = u \/ \E s \in shares : s[1] = m /\ u \in Members[s[2]])

\* Mutant of MayWrite: the expected revision is not compared.
MayWriteAnyRevision(t, m) == seen[t] # Nothing /\ seen[t].map = m /\ owner[m] = UserOf[t]

\* lockMapForWrite: the owner, with the revision the map still has.
MayWrite(t, m) ==
    /\ seen[t] # Nothing
    /\ seen[t].map = m
    /\ owner[m] = UserOf[t]
    /\ seen[t].revision = revision[m]

\* A uuid in the code: an id taken again is another layer, and its data says so.
FreeIds == Layers \ {l.id : l \in layers}

NextPosition(m) == Max({l.position : l \in LayersOf(m)} \cup {-1}) + 1

NewLayer(id, m, kind, position, data) ==
    [id |-> id, map |-> m, kind |-> kind, position |-> position, data |-> data,
     draft |-> IF kind = "edit_copy" THEN id ELSE Nothing]

At(l, position) == [l EXCEPT !.position = position]

\* deleteLayerRow: the row goes and the gap closes.
WithoutLayer(gone) ==
    {IF l.map = gone.map /\ l.position > gone.position THEN At(l, l.position - 1) ELSE l :
        l \in layers \ {gone}}

\* moveLayer: clamped to the top, the layers in between shifted by one.
MoveTo(moved, target) ==
    LET from == moved.position
        to == Min({target, Max({l.position : l \in LayersOf(moved.map)})})
        Shifted(p) == IF p = from THEN to
                      ELSE IF from < p /\ p <= to THEN p - 1
                      ELSE IF to <= p /\ p < from THEN p + 1 ELSE p
    IN {IF l.map = moved.map THEN At(l, Shifted(l.position)) ELSE l : l \in layers}

\* Mutant of CopiedLayer: the copy shows the draft of the layer it was copied from.
CopiedWithItsDraft(id, l, copy, position) ==
    [l EXCEPT !.id = id, !.map = copy, !.position = position]

\* copyDraft, on the source's row: the copy's draft is one of its own.
CopiedLayer(id, l, copy, position) == NewLayer(id, copy, l.kind, position, l.data)

Below(l, kept) == Cardinality({k \in kept : k.position < l.position})

\* The first ids that are free, given out in stacking order.
CopyIds(kept) ==
    {idOf \in Injection(kept, FreeIds) :
        /\ \A k, l \in kept : k.position < l.position => idOf[k] < idOf[l]
        /\ \A l \in kept, id \in FreeIds : id < idOf[l] => id \in {idOf[k] : k \in kept}}

\* copy: in stacking order, renumbered; a raster whose file is gone is skipped.
Copies(idOf, copy, kept) == {CopiedLayer(idOf[l], l, copy, Below(l, kept)) : l \in kept}

------------------------------------------------------------------------------
Init ==
    /\ owner = [m \in Maps |-> "unused"]
    /\ revision = [m \in Maps |-> 0]
    /\ layers = {}
    /\ drafts = {}
    /\ shares = {}
    /\ reading = [t \in Tabs |-> Nothing]
    /\ seen = [t \in Tabs |-> Nothing]

\* bump_map, as the last statement of every content write.
Bump(m) ==
    /\ revision[m] < MaxRevision
    /\ revision' = [revision EXCEPT ![m] = @ + 1]
    /\ UNCHANGED owner

\* The tab that wrote reads the map again before it writes again.
Wrote(t) ==
    /\ seen' = [seen EXCEPT ![t] = Nothing]
    /\ UNCHANGED <<shares, reading>>

Create(u, m) ==
    /\ owner[m] = "unused"
    /\ owner' = [owner EXCEPT ![m] = u]
    /\ UNCHANGED <<revision, layers, drafts, shares, reading, seen>>

\* get: the role, then loadDetail's summary row, then loadLayers. What the tab showed is let go
\* here already: a tab that writes while it reads is in MapEditing.
BeginRead(t, m) ==
    /\ reading[t] = Nothing
    /\ MayRead(UserOf[t], m)
    /\ reading' = [reading EXCEPT ![t] = [map |-> m, stage |-> "summary"]]
    /\ seen' = [seen EXCEPT ![t] = Nothing]
    /\ UNCHANGED <<content, shares>>

ReadSummary(t) ==
    /\ reading[t] # Nothing /\ reading[t].stage = "summary"
    /\ LET m == reading[t].map
       IN IF Live(m)
            THEN reading' = [reading EXCEPT ![t] =
                                [map |-> m, stage |-> "layers", revision |-> revision[m]]]
            ELSE reading' = [reading EXCEPT ![t] = Nothing]
    /\ UNCHANGED <<content, shares, seen>>

ReadLayers(t) ==
    /\ reading[t] # Nothing /\ reading[t].stage = "layers"
    /\ LET m == reading[t].map
       IN seen' = [seen EXCEPT ![t] =
                      [map |-> m, revision |-> reading[t].revision, layers |-> LayersOf(m)]]
    /\ reading' = [reading EXCEPT ![t] = Nothing]
    /\ UNCHANGED <<content, shares>>

\* freeLayers.addLayer, editCopies.addLayer (which opens a draft), and the write of an import job.
AddLayer(m, kind) ==
    /\ FreeIds # {}
    /\ LET new == NewLayer(Min(FreeIds), m, kind, NextPosition(m), revision[m] + 1)
       IN /\ layers' = layers \cup {new}
          /\ drafts' = drafts \cup ({new.draft} \ {Nothing})
    /\ Bump(m)

AddByTab(t, m, kind) == MayWrite(t, m) /\ kind # "raster" /\ AddLayer(m, kind) /\ Wrote(t)

Import(m, kind) ==
    /\ Live(m)
    /\ kind # "edit_copy"
    /\ AddLayer(m, kind)
    /\ UNCHANGED <<shares, reading, seen>>

\* A new title, style or fields, or a feature added, changed or removed (in the draft of an edit
\* copy: draftOf and lockDraft want one).
ChangeLayer(t, l) ==
    /\ MayWrite(t, l.map)
    /\ l.kind = "edit_copy" => l.draft \in drafts
    /\ layers' = (layers \ {l}) \cup {[l EXCEPT !.data = revision[l.map] + 1]}
    /\ Bump(l.map)
    /\ Wrote(t)
    /\ UNCHANGED drafts

MoveLayer(t, l, position) ==
    /\ MayWrite(t, l.map)
    /\ layers' = MoveTo(l, position)
    /\ Bump(l.map)
    /\ Wrote(t)
    /\ UNCHANGED drafts

RemoveLayer(t, l) ==
    /\ MayWrite(t, l.map)
    /\ layers' = WithoutLayer(l)
    /\ drafts' = drafts \ {l.draft}
    /\ Bump(l.map)
    /\ Wrote(t)

\* A new title or description of the map itself.
UpdateMap(t, m) ==
    /\ MayWrite(t, m)
    /\ Bump(m)
    /\ Wrote(t)
    /\ UNCHANGED <<layers, drafts>>

\* The drafts of its edit copies first; layers and shares go by cascade.
RemoveMap(t, m) ==
    /\ MayWrite(t, m)
    /\ owner' = [owner EXCEPT ![m] = "deleted"]
    /\ layers' = layers \ LayersOf(m)
    /\ drafts' = drafts \ {l.draft : l \in LayersOf(m)}
    /\ shares' = {s \in shares : s[1] # m}
    /\ seen' = [seen EXCEPT ![t] = Nothing]
    /\ UNCHANGED <<revision, reading>>

Share(u, m, member) ==
    /\ owner[m] = u
    /\ member # u
    /\ <<m, member>> \notin shares
    /\ shares' = shares \cup {<<m, member>>}
    /\ UNCHANGED <<content, reading, seen>>

Unshare(u, s) ==
    /\ owner[s[1]] = u
    /\ shares' = shares \ {s}
    /\ UNCHANGED <<content, reading, seen>>

\* One transaction that holds the source map FOR SHARE, so no content write falls inside it.
Copy(u, m, copy, skipped) ==
    /\ MayRead(u, m)
    /\ owner[copy] = "unused"
    /\ LET kept == LayersOf(m) \ skipped
       IN \E idOf \in CopyIds(kept) :
            LET made == Copies(idOf, copy, kept)
            IN /\ layers' = layers \cup made
               /\ drafts' = drafts \cup ({l.draft : l \in made} \ {Nothing})
    /\ owner' = [owner EXCEPT ![copy] = u]
    /\ UNCHANGED <<revision, shares, reading, seen>>

\* 404, 403 or MAP_CHANGED from lockMapForWrite: nothing is written, the tab reads again.
Refused(t) ==
    /\ seen[t] # Nothing
    /\ ~ MayWrite(t, seen[t].map)
    /\ seen' = [seen EXCEPT ![t] = Nothing]
    /\ UNCHANGED <<content, shares, reading>>

WriteByTab(t) ==
    \/ \E m \in Maps :
         \/ \E kind \in Kinds : AddByTab(t, m, kind)
         \/ UpdateMap(t, m)
         \/ RemoveMap(t, m)
    \/ \E l \in layers :
         \/ ChangeLayer(t, l)
         \/ \E position \in 0 .. Cardinality(Layers) : MoveLayer(t, l, position)
         \/ RemoveLayer(t, l)

Next ==
    \/ \E t \in Tabs :
         \/ WriteByTab(t)
         \/ \E m \in Maps : BeginRead(t, m)
         \/ ReadSummary(t)
         \/ Refused(t)
         \/ ReadLayers(t)
    \/ \E m \in Maps, kind \in Kinds : Import(m, kind)
    \/ \E u \in Users :
         \/ \E m \in Maps : Create(u, m)
         \/ \E m \in Maps, member \in DOMAIN Members : Share(u, m, member)
         \/ \E s \in shares : Unshare(u, s)
         \/ \E m, copy \in Maps :
              \E skipped \in SUBSET {l \in LayersOf(m) : l.kind = "raster"} : Copy(u, m, copy, skipped)

Spec == Init /\ [][Next]_vars

------------------------------------------------------------------------------
(* A map's layers are numbered 0 .. n - 1, through every interleaving of additions by tabs and
   imports, moves (clamped), removals that close the gap, and copies that skip a raster: the
   deferred unique constraint forbids two layers in one place, but nothing in the schema forbids a
   gap, and the client's stacking order counts on there being none. *)
PositionsContiguous ==
    \A m \in Maps :
        {l.position : l \in LayersOf(m)} = 0 .. Cardinality(LayersOf(m)) - 1

(* A detail that carries the revision the map still has shows the layers the map still has. It is
   read by statements with no transaction around them, so this rests on their order (the revision
   before the layers) and on every change of the layers, an import's too, moving the revision. *)
RevisionVouches ==
    \A t \in Tabs :
        LET d == seen[t]
        IN d # Nothing =>
             \/ ~ Live(d.map)
             \/ d.revision < revision[d.map]
             \/ d.revision = revision[d.map] /\ d.layers = LayersOf(d.map)

(* No lost update between tabs: a tab that changes a map was showing the map's layers as they are
   at that moment, whatever other tabs, imports and copies did since it read. *)
NoLostUpdate ==
    [][\A t \in Tabs : WriteByTab(t) => seen[t].layers = LayersOf(seen[t].map)]_vars

(* The drafts of personal maps and the edit copies that show them stay paired: a draft no layer
   shows would hold a version of the official layer for nobody (only the orphan sweep would find
   it), one shown by two layers would go with either of them. *)
DraftsPaired ==
    /\ drafts = {l.draft : l \in layers} \ {Nothing}
    /\ \A k, l \in layers : k.draft = l.draft => k = l \/ k.draft = Nothing

(* The rows of map_layers stay in the shape every reader of a map counts on: places without a gap,
   and each edit copy with a draft that is in store and its own. *)
LayersIntact == PositionsContiguous /\ DraftsPaired

(* What a map promises: seen from outside, every step changes one map only, and moves its revision
   by one if the map stays. *)
Outside(m) ==
    [life |-> IF Live(m) THEN "live" ELSE owner[m],
     revision |-> revision[m],
     content |-> {<<l, l.draft \in drafts>> : l \in LayersOf(m)}]
outside == [m \in Maps |-> Outside(m)]

Abstract == INSTANCE RevisionedMaps WITH maps <- outside
ImplementsRevisionedMaps == Abstract!Spec
==============================================================================
