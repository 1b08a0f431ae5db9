-------------------------- MODULE PersonalMaps_proofs --------------------------
(* Proofs about PersonalMaps, for any number of maps, layers, users and tabs; and, at the end, about
   MapEditing: one tab of the client against the revision of such a map. *)
EXTENDS PersonalMaps, MapEditing, TLAPS, FiniteSetTheorems

------------------------------------------------------------------------------
(* The inductive invariant *)

\* The layers of a map that is in use, each with an id of its own and the draft its kind asks for.
OwnDraft(l) == l.draft = IF l.kind = "edit_copy" THEN l.id ELSE Nothing

Rows ==
    /\ \A k, l \in layers : k.id = l.id => k = l
    /\ \A l \in layers : Live(l.map) /\ OwnDraft(l)
    /\ drafts = {l.draft : l \in layers} \ {Nothing}

Tables ==
    /\ TypeOK
    /\ Rows
    /\ \A m \in Maps : owner[m] = "unused" => revision[m] = 0

\* The layers of a map stand in places 0 .. n - 1, one in each.
Filled(m, n) ==
    /\ \A l \in LayersOf(m) : l.position < n
    /\ \A k, l \in LayersOf(m) : k.position = l.position => k = l
    /\ \A p \in 0 .. n - 1 : \E l \in LayersOf(m) : l.position = p
Placed == \A m \in Maps : \E n \in Nat : Filled(m, n)

\* What a tab has read, or is reading, is never ahead of the map.
Behind ==
    \A t \in Tabs :
        /\ seen[t] # Nothing => owner[seen[t].map] # "unused"
        /\ reading[t] # Nothing =>
             /\ owner[reading[t].map] # "unused"
             /\ reading[t].stage = "layers" /\ Live(reading[t].map) =>
                  reading[t].revision <= revision[reading[t].map]

IInv == Tables /\ Placed /\ Behind /\ RevisionVouches

------------------------------------------------------------------------------
(* Rows *)

LEMMA LayerFields ==
  ASSUME NEW l \in Layer
  PROVE  /\ l.id \in Layers /\ l.map \in Maps /\ l.kind \in Kinds /\ l.position \in Nat
         /\ l.data \in Nat /\ l.draft \in Layers \cup {Nothing}
  BY DEF Layer

LEMMA PositionChanged ==
  ASSUME NEW l \in Layer, NEW p \in Nat, NEW k, k = At(l, p)
  PROVE  /\ k \in Layer /\ k.id = l.id /\ k.map = l.map /\ k.kind = l.kind
         /\ k.position = p /\ k.data = l.data /\ k.draft = l.draft
         /\ p = l.position => k = l
  BY DEF Layer, At

LEMMA DataChanged ==
  ASSUME NEW l \in Layer, NEW d \in Nat, NEW k, k = [l EXCEPT !.data = d]
  PROVE  /\ k \in Layer /\ k.id = l.id /\ k.map = l.map /\ k.kind = l.kind
         /\ k.position = l.position /\ k.data = d /\ k.draft = l.draft
  BY DEF Layer

LEMMA NewLayerFields ==
  ASSUME NEW id \in Layers, NEW m \in Maps, NEW kind \in Kinds, NEW p \in Nat, NEW d \in Nat,
         NEW k, k = NewLayer(id, m, kind, p, d)
  PROVE  /\ k \in Layer /\ k.id = id /\ k.map = m /\ k.kind = kind /\ k.position = p /\ k.data = d
         /\ OwnDraft(k)
  BY DEF Layer, NewLayer, OwnDraft

\* The ids of layers tell them apart, so there are finitely many layers.
LEMMA FiniteLayers ==
  ASSUME Tables
  PROVE  /\ IsFiniteSet(layers)
         /\ \A S \in SUBSET layers : IsFiniteSet(S) /\ Cardinality(S) \in Nat
<1> DEFINE idOf == [l \in layers |-> l.id]
<1>1. \A l \in layers : l.id \in Layers
  BY LayerFields DEF Tables, TypeOK
<1>2. \A k, l \in layers : k.id = l.id => k = l
  BY DEF Tables, Rows
<1>3. idOf \in Injection(layers, Layers)
  BY <1>1, <1>2 DEF Injection, IsInjective
<1>4. IsFiniteSet(layers)
  BY <1>3, PersonalMapsAssumption, FS_Injection
<1>5. QED
  BY <1>4, FS_Subset, FS_CardinalityType

\* Every set of ids that is not empty has a first one.
LEMMA MinIsFirst ==
  ASSUME NEW S \in SUBSET Nat, S # {}
  PROVE  Min(S) \in S
<1>1. \E x \in S : \A y \in S : x <= y
  <2> DEFINE R == {p \in Nat \X Nat : p[1] < p[2]}
  <2>1. IsWellFoundedOn(R, Nat)
    BY NatLessThanWellFounded DEF OpToRel
  <2> HIDE DEF R
  <2>2. S \subseteq Nat
    OBVIOUS
  <2>3. PICK x \in S : \A y \in S : ~ (<<y, x>> \in R)
    BY <2>1, <2>2, WFMin, Zenon
  <2>4. ASSUME NEW y \in S PROVE x <= y
    <3>1. x \in Nat /\ y \in Nat /\ <<y, x>> \in Nat \X Nat
      BY <2>2
    <3>2. ~ (y < x)
      BY <2>3, <3>1, Zenon DEF R
    <3>3. QED
      BY <3>1, <3>2
  <2>5. QED
    BY <2>4
<1>2. QED
  BY <1>1 DEF Min

\* The largest element is the maximum.
LEMMA MaxIs ==
  ASSUME NEW S \in SUBSET Int, NEW x \in S, \A y \in S : y <= x
  PROVE  Max(S) = x
<1>1. \E m \in S : \A y \in S : m >= y
  OBVIOUS
<1>2. Max(S) \in S /\ \A y \in S : Max(S) >= y
  BY <1>1 DEF Max
<1>3. Max(S) <= x /\ Max(S) >= x /\ Max(S) \in Int /\ x \in Int
  BY <1>2
<1>4. QED
  BY <1>3

LEMMA MinOfTwo ==
  ASSUME NEW a \in Nat, NEW b \in Nat
  PROVE  Min({a, b}) = IF a <= b THEN a ELSE b
  BY DEF Min

\* A write that leaves the layers of D, in new places.
Renumbered(D, at) ==
    /\ layers' = {At(l, at[l]) : l \in D}
    /\ drafts' = drafts \ {l.draft : l \in layers \ D}
    /\ UNCHANGED owner

LEMMA RenumberedShape ==
  ASSUME Tables, NEW D \in SUBSET layers, NEW at \in [D -> Nat], Renumbered(D, at)
  PROVE  /\ layers' \subseteq Layer
         /\ \A l \in D : \E k \in layers' : k.map = l.map /\ k.position = at[l]
         /\ \A k \in layers' : \E l \in D :
              /\ k.id = l.id /\ k.map = l.map /\ k.kind = l.kind /\ k.draft = l.draft
              /\ k.position = at[l]
              /\ k = At(l, at[l])
<1>1. layers \subseteq Layer
  BY DEF Tables, TypeOK
<1>2. ASSUME NEW l \in D
      PROVE  LET k == At(l, at[l])
             IN  /\ k \in Layer /\ k \in layers' /\ k.id = l.id /\ k.map = l.map /\ k.kind = l.kind
                 /\ k.draft = l.draft /\ k.position = at[l]
  <2>1. at[l] \in Nat /\ l \in Layer
    BY <1>1
  <2>2. At(l, at[l]) \in layers'
    BY DEF Renumbered
  <2>3. QED
    BY <2>1, <2>2, PositionChanged
<1>3. \A k \in layers' : \E l \in D : k = At(l, at[l])
  BY DEF Renumbered
<1>4. QED
  BY <1>2, <1>3

LEMMA RenumberedRows ==
  ASSUME Tables, NEW D \in SUBSET layers, NEW at \in [D -> Nat], Renumbered(D, at)
  PROVE  Rows'
<1>1. \A k, l \in layers' : k.id = l.id => k = l
  <2> SUFFICES ASSUME NEW k \in layers', NEW l \in layers', k.id = l.id PROVE k = l
    OBVIOUS
  <2>1. PICK a \in D : k.id = a.id /\ k = At(a, at[a])
    BY RenumberedShape
  <2>2. PICK b \in D : l.id = b.id /\ l = At(b, at[b])
    BY RenumberedShape
  <2>3. a = b
    BY <2>1, <2>2 DEF Tables, Rows
  <2>4. QED
    BY <2>1, <2>2, <2>3
<1>2. \A l \in layers' : Live(l.map)' /\ OwnDraft(l)
  <2> SUFFICES ASSUME NEW l \in layers' PROVE Live(l.map)' /\ OwnDraft(l)
    OBVIOUS
  <2>1. PICK a \in D : l.id = a.id /\ l.map = a.map /\ l.kind = a.kind /\ l.draft = a.draft
    BY RenumberedShape
  <2>2. Live(a.map) /\ OwnDraft(a)
    BY DEF Tables, Rows
  <2>3. QED
    BY <2>1, <2>2 DEF Live, OwnDraft, Renumbered
<1>3. drafts' = {l.draft : l \in layers'} \ {Nothing}
  <2>1. {l.draft : l \in layers'} = {l.draft : l \in D}
    <3>1. \A k \in layers' : \E l \in D : k.draft = l.draft
      BY RenumberedShape
    <3>2. \A l \in D : \E k \in layers' : k.draft = l.draft
      <4> SUFFICES ASSUME NEW l \in D PROVE \E k \in layers' : k.draft = l.draft
        OBVIOUS
      <4>1. At(l, at[l]) \in layers' /\ l \in Layer /\ at[l] \in Nat
        BY DEF Renumbered, Tables, TypeOK
      <4>2. QED
        BY <4>1, PositionChanged
    <3>3. QED
      BY <3>1, <3>2
  <2>2. ASSUME NEW k \in D, NEW l \in layers \ D, k.draft = l.draft PROVE k.draft = Nothing
    BY <2>2, PersonalMapsAssumption DEF Tables, Rows, OwnDraft
  <2>3. drafts' = ({l.draft : l \in layers} \ {Nothing}) \ {l.draft : l \in layers \ D}
    BY DEF Renumbered, Tables, Rows
  <2>4. QED
    BY <2>1, <2>2, <2>3
<1>4. QED
  BY <1>1, <1>2, <1>3 DEF Rows, OwnDraft

\* Its layers fill the places if the places of what stays do.
LEMMA RenumberedFilled ==
  ASSUME Tables, NEW D \in SUBSET layers, NEW at \in [D -> Nat], Renumbered(D, at),
         NEW m \in Maps, NEW n \in Nat,
         \A l \in D : l.map = m => at[l] < n,
         \A k, l \in D : k.map = m /\ l.map = m /\ at[k] = at[l] => k = l,
         \A p \in 0 .. n - 1 : \E l \in D : l.map = m /\ at[l] = p
  PROVE  Filled(m, n)'
<1>1. \A l \in layers' : l.map = m => l.position < n
  BY RenumberedShape
<1>2. \A k, l \in layers' : k.map = m /\ l.map = m /\ k.position = l.position => k = l
  <2> SUFFICES ASSUME NEW k \in layers', NEW l \in layers', k.map = m, l.map = m, k.position = l.position
               PROVE  k = l
    OBVIOUS
  <2>1. PICK a \in D : k.map = a.map /\ k.position = at[a] /\ k = At(a, at[a])
    BY RenumberedShape
  <2>2. PICK b \in D : l.map = b.map /\ l.position = at[b] /\ l = At(b, at[b])
    BY RenumberedShape
  <2>3. a = b
    BY <2>1, <2>2
  <2>4. QED
    BY <2>1, <2>2, <2>3
<1>3. \A p \in 0 .. n - 1 : \E l \in layers' : l.map = m /\ l.position = p
  BY RenumberedShape
<1>4. QED
  BY <1>1, <1>2, <1>3 DEF Filled, LayersOf

\* A map whose layers all stay where they are keeps them.
LEMMA RenumberedElsewhere ==
  ASSUME Tables, NEW D \in SUBSET layers, NEW at \in [D -> Nat], Renumbered(D, at),
         NEW m \in Maps,
         \A l \in layers : l.map = m => l \in D /\ at[l] = l.position
  PROVE  LayersOf(m)' = LayersOf(m)
<1>1. ASSUME NEW l \in layers, l.map = m PROVE l \in layers'
  <2>1. l \in D /\ at[l] = l.position /\ l \in Layer /\ at[l] \in Nat
    BY <1>1 DEF Tables, TypeOK
  <2>2. At(l, at[l]) = l
    BY <2>1, PositionChanged
  <2>3. QED
    BY <2>1, <2>2 DEF Renumbered
<1>2. ASSUME NEW k \in layers', k.map = m PROVE k \in layers
  <2>1. PICK l \in D : k.map = l.map /\ k = At(l, at[l])
    BY RenumberedShape
  <2>2. at[l] = l.position /\ l \in Layer /\ at[l] \in Nat
    BY <1>2, <2>1 DEF Tables, TypeOK
  <2>3. k = l
    BY <2>1, <2>2, PositionChanged
  <2>4. QED
    BY <2>3
<1>3. QED
  BY <1>1, <1>2 DEF LayersOf

------------------------------------------------------------------------------
(* One write *)

\* What every write of a map's content leaves behind, and what it leaves alone.
TablesKept == layers' \subseteq Layer /\ Rows' /\ Placed'

ContentWrite(m) ==
    /\ Live(m)
    /\ UNCHANGED owner
    /\ revision' = [revision EXCEPT ![m] = @ + 1]
    /\ \A k \in Maps \ {m} : LayersOf(k)' = LayersOf(k)

\* A map whose rows are the same fills the same places.
LEMMA FilledStays ==
  ASSUME NEW m, NEW n, LayersOf(m)' = LayersOf(m), Filled(m, n)
  PROVE  Filled(m, n)'
  BY DEF Filled

LEMMA PlacedStays ==
  ASSUME Placed, NEW m \in Maps, \A k \in Maps \ {m} : LayersOf(k)' = LayersOf(k),
         \E n \in Nat : Filled(m, n)'
  PROVE  Placed'
<1>1. ASSUME NEW k \in Maps \ {m} PROVE \E n \in Nat : Filled(k, n)'
  <2>1. PICK n \in Nat : Filled(k, n)
    BY DEF Placed
  <2>2. LayersOf(k)' = LayersOf(k)
    OBVIOUS
  <2>3. Filled(k, n)'
    BY <2>1, <2>2, FilledStays
  <2>4. QED
    BY <2>3
<1>2. QED
  BY <1>1 DEF Placed

\* New rows with ids of their own, each with the draft its kind asks for.
LEMMA AddedRows ==
  ASSUME Tables, NEW N \in SUBSET Layer,
         layers' = layers \cup N,
         drafts' = drafts \cup ({l.draft : l \in N} \ {Nothing}),
         \A k \in N, l \in layers : k.id # l.id,
         \A k, l \in N : k.id = l.id => k = l,
         \A l \in N : Live(l.map)' /\ OwnDraft(l),
         \A m \in Maps : Live(m) => Live(m)'
  PROVE  layers' \subseteq Layer /\ Rows'
<1>1. layers' \subseteq Layer
  BY DEF Tables, TypeOK
<1>2. \A k, l \in layers' : k.id = l.id => k = l
  BY DEF Tables, Rows
<1>3. \A l \in layers' : Live(l.map)' /\ OwnDraft(l)
  <2>1. \A l \in layers : l.map \in Maps /\ Live(l.map) /\ OwnDraft(l)
    BY LayerFields DEF Tables, TypeOK, Rows
  <2>2. QED
    BY <2>1
<1>4. drafts' = {l.draft : l \in layers'} \ {Nothing}
  BY DEF Tables, Rows
<1>5. QED
  BY <1>1, <1>2, <1>3, <1>4 DEF Rows, OwnDraft

\* The next place is the number of places that are filled.
LEMMA NextPositionIs ==
  ASSUME Tables, NEW m \in Maps, NEW n \in Nat, Filled(m, n)
  PROVE  NextPosition(m) = n
<1> DEFINE S == {l.position : l \in LayersOf(m)} \cup {-1}
<1>1. \A l \in LayersOf(m) : l.position \in Nat /\ l.position <= n - 1
  BY LayerFields DEF Tables, TypeOK, LayersOf, Filled
<1>2. S \in SUBSET Int /\ \A y \in S : y <= n - 1
  BY <1>1
<1>3. n - 1 \in S
  <2>1. CASE n = 0
    BY <2>1
  <2>2. CASE n # 0
    <3>1. n - 1 \in 0 .. n - 1
      BY <2>2
    <3>2. PICK l \in LayersOf(m) : l.position = n - 1
      BY <3>1 DEF Filled
    <3>3. QED
      BY <3>2
  <2>3. QED
    BY <2>1, <2>2
<1> HIDE DEF S
<1>4. Max(S) = n - 1
  BY <1>2, <1>3, MaxIs
<1>5. QED
  BY <1>4 DEF S, NextPosition

LEMMA AddLayerStep ==
  ASSUME Tables, Placed, NEW m \in Maps, Live(m), NEW kind \in Kinds, AddLayer(m, kind)
  PROVE  TablesKept /\ ContentWrite(m)
<1> DEFINE id == Min(FreeIds)
           new == NewLayer(id, m, kind, NextPosition(m), revision[m] + 1)
<1>1. PICK n \in Nat : Filled(m, n)
  BY DEF Placed
<1>2. NextPosition(m) = n
  BY <1>1, NextPositionIs
<1>3. id \in FreeIds /\ id \in Layers
  BY MinIsFirst, PersonalMapsAssumption DEF AddLayer, FreeIds
<1>4. revision[m] + 1 \in Nat
  BY DEF Tables, TypeOK
<1>5. /\ new \in Layer /\ new.id = id /\ new.map = m /\ new.position = n /\ OwnDraft(new)
  BY <1>2, <1>3, <1>4, NewLayerFields
<1>6. layers' = layers \cup {new} /\ drafts' = drafts \cup ({new.draft} \ {Nothing}) /\ UNCHANGED owner
      /\ revision' = [revision EXCEPT ![m] = @ + 1]
  BY DEF AddLayer, Bump
<1>7. \A l \in layers : new.id # l.id
  BY <1>3, <1>5 DEF FreeIds
<1> HIDE DEF new
<1>8. layers' \subseteq Layer /\ Rows'
  <2>1. {l.draft : l \in {new}} = {new.draft}
    OBVIOUS
  <2>2. Live(m)' /\ \A k \in Maps : Live(k) => Live(k)'
    BY <1>6 DEF Live
  <2>3. /\ {new} \in SUBSET Layer /\ \A k \in {new}, l \in layers : k.id # l.id
        /\ \A k, l \in {new} : k.id = l.id => k = l
        /\ \A l \in {new} : Live(l.map)' /\ OwnDraft(l)
    BY <1>5, <1>7, <2>2
  <2>4. layers' = layers \cup {new} /\ drafts' = drafts \cup ({l.draft : l \in {new}} \ {Nothing})
    BY <1>6, <2>1
  <2> HIDE DEF new
  <2>5. QED
    BY <2>2, <2>3, <2>4, AddedRows
<1>9. LayersOf(m)' = LayersOf(m) \cup {new} /\ \A k \in Maps \ {m} : LayersOf(k)' = LayersOf(k)
  BY <1>5, <1>6 DEF LayersOf
<1>10. Filled(m, n + 1)'
  <2>1. \A l \in LayersOf(m)' : l.position < n + 1
    <3>1. \A l \in LayersOf(m) : l.position \in Nat /\ l.position < n
      BY <1>1, LayerFields DEF Tables, TypeOK, LayersOf, Filled
    <3>2. QED
      BY <1>5, <1>9, <3>1
  <2>2. \A k, l \in LayersOf(m)' : k.position = l.position => k = l
    BY <1>1, <1>5, <1>9 DEF Filled
  <2>3. \A p \in 0 .. n : \E l \in LayersOf(m)' : l.position = p
    BY <1>1, <1>5, <1>9 DEF Filled
  <2>4. QED
    BY <2>1, <2>2, <2>3 DEF Filled
<1>11. Placed'
  BY <1>9, <1>10, PlacedStays
<1>12. QED
  BY <1>6, <1>8, <1>9, <1>11 DEF TablesKept, ContentWrite

LEMMA ChangeLayerStep ==
  ASSUME Tables, Placed, NEW t \in Tabs, NEW l \in layers, ChangeLayer(t, l)
  PROVE  TablesKept /\ ContentWrite(l.map)
<1> DEFINE m == l.map
           new == [l EXCEPT !.data = revision[m] + 1]
<1>1. l \in Layer /\ m \in Maps /\ revision[m] + 1 \in Nat
  BY LayerFields DEF Tables, TypeOK
<1>2. /\ new \in Layer /\ new.id = l.id /\ new.map = l.map /\ new.kind = l.kind
      /\ new.position = l.position /\ new.draft = l.draft
  BY <1>1, DataChanged
<1>3. /\ layers' = (layers \ {l}) \cup {new} /\ UNCHANGED <<owner, drafts>>
      /\ revision' = [revision EXCEPT ![m] = @ + 1]
  BY DEF ChangeLayer, Bump
<1> HIDE DEF new
<1>4. layers' \subseteq Layer /\ \A a, b \in layers' : a.id = b.id => a = b
  BY <1>2, <1>3 DEF Tables, TypeOK, Rows
<1>5. \A a \in layers' : Live(a.map)' /\ OwnDraft(a)
  BY <1>2, <1>3 DEF Tables, Rows, Live, OwnDraft
<1>6. drafts' = {a.draft : a \in layers'} \ {Nothing}
  <2>1. {a.draft : a \in layers'} = {a.draft : a \in layers}
    BY <1>2, <1>3
  <2>2. QED
    BY <1>3, <2>1 DEF Tables, Rows
<1>7. LayersOf(m)' = (LayersOf(m) \ {l}) \cup {new} /\ \A k \in Maps \ {m} : LayersOf(k)' = LayersOf(k)
  BY <1>2, <1>3 DEF LayersOf
<1>8. Placed'
  <2>1. PICK n \in Nat : Filled(m, n)
    BY <1>1 DEF Placed
  <2>2. l \in LayersOf(m)
    BY DEF LayersOf
  <2>3. Filled(m, n)'
    BY <1>2, <1>7, <2>1, <2>2 DEF Filled
  <2>4. QED
    BY <1>1, <1>7, <2>3, PlacedStays
<1>9. Live(m)
  BY DEF Tables, Rows
<1>10. QED
  BY <1>3, <1>4, <1>5, <1>6, <1>7, <1>8, <1>9 DEF TablesKept, ContentWrite, Rows, OwnDraft

LEMMA UpdateMapStep ==
  ASSUME Tables, Placed, NEW t \in Tabs, NEW m \in Maps, UpdateMap(t, m), Live(m)
  PROVE  TablesKept /\ ContentWrite(m)
<1>1. UNCHANGED <<owner, layers, drafts>> /\ revision' = [revision EXCEPT ![m] = @ + 1]
  BY DEF UpdateMap, Bump
<1>2. \A k \in Maps : LayersOf(k)' = LayersOf(k)
  BY <1>1 DEF LayersOf
<1>3. Placed'
  BY <1>1 DEF Placed, Filled, LayersOf
<1>4. Rows'
  BY <1>1 DEF Tables, Rows, Live, OwnDraft
<1>5. QED
  BY <1>1, <1>2, <1>3, <1>4 DEF Tables, TypeOK, TablesKept, ContentWrite

LEMMA RemoveLayerStep ==
  ASSUME Tables, Placed, NEW t \in Tabs, NEW gone \in layers, RemoveLayer(t, gone)
  PROVE  TablesKept /\ ContentWrite(gone.map)
<1> DEFINE m == gone.map
           D == layers \ {gone}
           at == [l \in D |-> IF l.map = m /\ l.position > gone.position THEN l.position - 1
                              ELSE l.position]
<1>1. gone \in Layer /\ m \in Maps /\ gone.position \in Nat /\ \A l \in layers : l \in Layer /\ l.position \in Nat
  BY LayerFields DEF Tables, TypeOK
<1>2. at \in [D -> Nat] /\ D \in SUBSET layers
  <2>1. \A l \in D : (IF l.map = m /\ l.position > gone.position THEN l.position - 1 ELSE l.position) \in Nat
    BY <1>1
  <2>2. QED
    BY <2>1
<1>3. UNCHANGED owner /\ revision' = [revision EXCEPT ![m] = @ + 1]
  BY DEF RemoveLayer, Bump
<1>4. Renumbered(D, at)
  <2>1. \A l \in D : (IF l.map = gone.map /\ l.position > gone.position THEN At(l, l.position - 1) ELSE l)
                       = At(l, at[l])
    <3> SUFFICES ASSUME NEW l \in D
                 PROVE  (IF l.map = gone.map /\ l.position > gone.position THEN At(l, l.position - 1) ELSE l)
                          = At(l, at[l])
      OBVIOUS
    <3>1. At(l, l.position) = l
      BY <1>1, PositionChanged
    <3>2. QED
      BY <3>1
  <2>2. layers' = {At(l, at[l]) : l \in D}
    BY <2>1 DEF RemoveLayer, WithoutLayer
  <2>3. {l.draft : l \in layers \ D} = {gone.draft}
    OBVIOUS
  <2>4. QED
    BY <1>3, <2>2, <2>3 DEF RemoveLayer, Renumbered
<1>5. PICK n \in Nat : Filled(m, n)
  BY <1>1 DEF Placed
<1>6. /\ \A l \in layers : l.map = m => l.position < n
      /\ \A k, l \in layers : k.map = m /\ l.map = m /\ k.position = l.position => k = l
      /\ \A p \in 0 .. n - 1 : \E l \in layers : l.map = m /\ l.position = p
  BY <1>5 DEF Filled, LayersOf
<1>7. n - 1 \in Nat
  BY <1>1, <1>6
<1>8. \A l \in D : at[l] = IF l.map = m /\ l.position > gone.position THEN l.position - 1 ELSE l.position
  OBVIOUS
<1> HIDE DEF at
<1>9. \A l \in D : l.map = m => at[l] < n - 1
  <2> SUFFICES ASSUME NEW l \in D, l.map = m PROVE at[l] < n - 1
    OBVIOUS
  <2>1. l.position # gone.position /\ l.position < n /\ gone.position < n
    BY <1>6
  <2>2. QED
    BY <1>1, <1>8, <2>1
<1>10. \A k, l \in D : k.map = m /\ l.map = m /\ at[k] = at[l] => k = l
  <2> SUFFICES ASSUME NEW k \in D, NEW l \in D, k.map = m, l.map = m, at[k] = at[l] PROVE k = l
    OBVIOUS
  <2>1. k.position # gone.position /\ l.position # gone.position
    BY <1>6
  <2>2. k.position = l.position
    BY <1>1, <1>8, <2>1
  <2>3. QED
    BY <1>6, <2>2
<1>11. \A p \in 0 .. (n - 1) - 1 : \E l \in D : l.map = m /\ at[l] = p
  <2> SUFFICES ASSUME NEW p \in 0 .. (n - 1) - 1 PROVE \E l \in D : l.map = m /\ at[l] = p
    OBVIOUS
  <2>1. CASE p < gone.position
    <3>1. PICK l \in layers : l.map = m /\ l.position = p
      BY <1>6, <1>7
    <3>2. QED
      BY <1>1, <1>8, <2>1, <3>1
  <2>2. CASE p >= gone.position
    <3>1. p + 1 \in 0 .. n - 1
      BY <1>7
    <3>2. PICK l \in layers : l.map = m /\ l.position = p + 1
      BY <1>6, <3>1
    <3>3. l \in D /\ at[l] = p
      BY <1>1, <1>8, <2>2, <3>2
    <3>4. QED
      BY <3>2, <3>3
  <2>3. QED
    BY <1>1, <2>1, <2>2
<1>12. \A k \in Maps \ {m} : LayersOf(k)' = LayersOf(k)
  <2> SUFFICES ASSUME NEW k \in Maps \ {m} PROVE LayersOf(k)' = LayersOf(k)
    OBVIOUS
  <2>1. \A l \in layers : l.map = k => l \in D /\ at[l] = l.position
    BY <1>8
  <2>2. QED
    BY <1>2, <1>4, <2>1, RenumberedElsewhere
<1>13. Filled(m, n - 1)'
  BY <1>1, <1>2, <1>4, <1>7, <1>9, <1>10, <1>11, RenumberedFilled
<1>14. Placed'
  BY <1>1, <1>7, <1>12, <1>13, PlacedStays
<1>15. layers' \subseteq Layer /\ Rows'
  BY <1>2, <1>4, RenumberedShape, RenumberedRows
<1>16. Live(m)
  BY DEF Tables, Rows
<1>17. QED
  BY <1>3, <1>12, <1>14, <1>15, <1>16 DEF TablesKept, ContentWrite

LEMMA MoveLayerStep ==
  ASSUME Tables, Placed, NEW t \in Tabs, NEW moved \in layers, NEW position \in Nat,
         MoveLayer(t, moved, position)
  PROVE  TablesKept /\ ContentWrite(moved.map)
<1> DEFINE m == moved.map
           from == moved.position
           top == Max({l.position : l \in LayersOf(m)})
           to == Min({position, top})
           Shifted(p) == IF p = from THEN to
                         ELSE IF from < p /\ p <= to THEN p - 1
                         ELSE IF to <= p /\ p < from THEN p + 1 ELSE p
           at == [l \in layers |-> IF l.map = m THEN Shifted(l.position) ELSE l.position]
<1>1. moved \in Layer /\ m \in Maps /\ from \in Nat /\ \A l \in layers : l \in Layer /\ l.position \in Nat
  BY LayerFields DEF Tables, TypeOK
<1>2. PICK n \in Nat : Filled(m, n)
  BY <1>1 DEF Placed
<1>3. /\ \A l \in layers : l.map = m => l.position < n
      /\ \A k, l \in layers : k.map = m /\ l.map = m /\ k.position = l.position => k = l
      /\ \A p \in 0 .. n - 1 : \E l \in layers : l.map = m /\ l.position = p
  BY <1>2 DEF Filled, LayersOf
<1>4. top = n - 1 /\ top \in Nat
  <2>1. \A l \in LayersOf(m) : l.position \in Nat /\ l.position <= n - 1
    BY <1>1, <1>3 DEF LayersOf
  <2>2. n - 1 \in 0 .. n - 1
    BY <1>1, <1>3
  <2>3. PICK l \in LayersOf(m) : l.position = n - 1
    BY <1>3, <2>2 DEF LayersOf
  <2> DEFINE S == {k.position : k \in LayersOf(m)}
  <2>4. S \in SUBSET Int /\ n - 1 \in S /\ \A p \in S : p <= n - 1
    BY <2>1, <2>3
  <2>5. top = Max(S)
    OBVIOUS
  <2> HIDE DEF S, top
  <2>6. Max(S) = n - 1
    BY <2>4, MaxIs
  <2>7. QED
    BY <2>2, <2>5, <2>6
<1> HIDE DEF top
<1>5. to \in Nat /\ to < n
  BY <1>4, MinOfTwo
<1> HIDE DEF to
<1>6. at \in [layers -> Nat] /\ layers \in SUBSET layers
  <2>1. \A l \in layers : (IF l.map = m THEN Shifted(l.position) ELSE l.position) \in Nat
    BY <1>1, <1>5
  <2>2. QED
    BY <2>1
<1>7. UNCHANGED <<owner, drafts>> /\ revision' = [revision EXCEPT ![m] = @ + 1]
  BY DEF MoveLayer, Bump
<1>8. Renumbered(layers, at)
  <2>1. \A l \in layers : (IF l.map = m THEN At(l, Shifted(l.position)) ELSE l) = At(l, at[l])
    <3> SUFFICES ASSUME NEW l \in layers
                 PROVE  (IF l.map = m THEN At(l, Shifted(l.position)) ELSE l) = At(l, at[l])
      OBVIOUS
    <3>1. At(l, l.position) = l
      BY <1>1, PositionChanged
    <3>2. QED
      BY <3>1
  <2>2. layers' = {IF l.map = m THEN At(l, Shifted(l.position)) ELSE l : l \in layers}
    BY DEF MoveLayer, MoveTo, to, top
  <2>3. layers' = {At(l, at[l]) : l \in layers}
    BY <2>1, <2>2
  <2>4. QED
    BY <1>7, <2>3 DEF Renumbered
<1>9. \A l \in layers : at[l] = IF l.map = m THEN Shifted(l.position) ELSE l.position
  OBVIOUS
<1> HIDE DEF at
<1>10. \A l \in layers : l.map = m => at[l] < n
  BY <1>1, <1>3, <1>5, <1>9
<1>11. \A k, l \in layers : k.map = m /\ l.map = m /\ at[k] = at[l] => k = l
  <2> SUFFICES ASSUME NEW k \in layers, NEW l \in layers, k.map = m, l.map = m, at[k] = at[l] PROVE k = l
    OBVIOUS
  <2>1. k.position = l.position
    BY <1>1, <1>5, <1>9
  <2>2. QED
    BY <1>3, <2>1
<1>12. \A p \in 0 .. n - 1 : \E l \in layers : l.map = m /\ at[l] = p
  <2> SUFFICES ASSUME NEW p \in 0 .. n - 1 PROVE \E l \in layers : l.map = m /\ at[l] = p
    OBVIOUS
  <2> DEFINE q == IF p = to THEN from
                  ELSE IF from <= p /\ p < to THEN p + 1
                  ELSE IF to < p /\ p <= from THEN p - 1 ELSE p
  <2>1. q \in 0 .. n - 1 /\ Shifted(q) = p
    BY <1>1, <1>3, <1>5
  <2>2. PICK l \in layers : l.map = m /\ l.position = q
    BY <1>3, <2>1
  <2>3. QED
    BY <1>9, <2>1, <2>2
<1>13. \A k \in Maps \ {m} : LayersOf(k)' = LayersOf(k)
  <2> SUFFICES ASSUME NEW k \in Maps \ {m} PROVE LayersOf(k)' = LayersOf(k)
    OBVIOUS
  <2>1. \A l \in layers : l.map = k => l \in layers /\ at[l] = l.position
    BY <1>9
  <2>2. QED
    BY <1>6, <1>8, <2>1, RenumberedElsewhere
<1>14. Filled(m, n)'
  BY <1>1, <1>6, <1>8, <1>10, <1>11, <1>12, RenumberedFilled
<1>15. Placed'
  BY <1>1, <1>13, <1>14, PlacedStays
<1>16. layers' \subseteq Layer /\ Rows'
  BY <1>6, <1>8, RenumberedShape, RenumberedRows
<1>17. Live(m)
  BY DEF Tables, Rows
<1>18. QED
  BY <1>7, <1>13, <1>15, <1>16, <1>17 DEF TablesKept, ContentWrite

\* The layers of the removed map go, with their drafts.
LEMMA RemoveMapStep ==
  ASSUME Tables, Placed, NEW t \in Tabs, NEW m \in Maps, RemoveMap(t, m)
  PROVE  /\ TablesKept
         /\ owner' = [owner EXCEPT ![m] = "deleted"]
         /\ UNCHANGED revision
         /\ \A k \in Maps \ {m} : LayersOf(k)' = LayersOf(k)
<1>1. /\ owner' = [owner EXCEPT ![m] = "deleted"] /\ UNCHANGED revision
      /\ layers' = layers \ LayersOf(m)
      /\ drafts' = drafts \ {l.draft : l \in LayersOf(m)}
  BY DEF RemoveMap
<1>2. \A k \in Maps \ {m} : LayersOf(k)' = LayersOf(k)
  BY <1>1 DEF LayersOf
<1>3. Placed'
  <2>1. LayersOf(m)' = {}
    BY <1>1 DEF LayersOf
  <2>2. Filled(m, 0)'
    BY <2>1 DEF Filled
  <2>3. QED
    BY <1>2, <2>2, PlacedStays
<1>4. layers' \subseteq Layer /\ \A k, l \in layers' : k.id = l.id => k = l
  BY <1>1 DEF Tables, TypeOK, Rows
<1>5. \A l \in layers' : Live(l.map)' /\ OwnDraft(l)
  <2> SUFFICES ASSUME NEW l \in layers' PROVE Live(l.map)' /\ OwnDraft(l)
    OBVIOUS
  <2>1. l \in layers /\ l.map # m /\ l.map \in Maps
    BY <1>1, LayerFields DEF LayersOf, Tables, TypeOK
  <2>2. Live(l.map) /\ OwnDraft(l)
    BY <2>1 DEF Tables, Rows
  <2>3. owner'[l.map] = owner[l.map]
    BY <1>1, <2>1 DEF Tables, TypeOK
  <2>4. QED
    BY <2>2, <2>3 DEF Live
<1>6. drafts' = {l.draft : l \in layers'} \ {Nothing}
  <2>1. ASSUME NEW k \in layers', NEW l \in LayersOf(m), k.draft = l.draft PROVE k.draft = Nothing
    <3>1. k \in layers /\ l \in layers /\ k # l
      BY <1>1 DEF LayersOf
    <3>2. QED
      BY <2>1, <3>1, PersonalMapsAssumption DEF Tables, Rows, OwnDraft
  <2>2. drafts = {l.draft : l \in layers} \ {Nothing}
    BY DEF Tables, Rows
  <2>3. QED
    BY <1>1, <2>1, <2>2 DEF LayersOf
<1>7. QED
  BY <1>1, <1>2, <1>3, <1>4, <1>5, <1>6 DEF TablesKept, Rows, OwnDraft

\* How many of them lie below each numbers the layers that are copied from 0, without a gap.
LEMMA BelowFills ==
  ASSUME Tables, Placed, NEW m \in Maps, NEW kept \in SUBSET LayersOf(m)
  PROVE  /\ \A l \in kept : Below(l, kept) \in 0 .. Cardinality(kept) - 1
         /\ \A k, l \in kept : Below(k, kept) = Below(l, kept) => k = l
         /\ \A p \in 0 .. Cardinality(kept) - 1 : \E l \in kept : Below(l, kept) = p
         /\ Cardinality(kept) \in Nat
<1> DEFINE Lower(l) == {k \in kept : k.position < l.position}
           n == Cardinality(kept)
<1>1. /\ kept \in SUBSET layers /\ \A l \in kept : l.position \in Nat
      /\ \A k, l \in kept : k.position = l.position => k = l
  BY LayerFields DEF LayersOf, Tables, TypeOK, Placed, Filled
<1>2. /\ IsFiniteSet(kept) /\ n \in Nat
      /\ \A S \in SUBSET kept : IsFiniteSet(S) /\ Cardinality(S) \in Nat
  BY <1>1, FiniteLayers
<1>3. ASSUME NEW k \in kept, NEW S \in SUBSET kept, Lower(k) \subseteq S, k \in S
      PROVE  Cardinality(Lower(k)) < Cardinality(S)
  <2>1. k \notin Lower(k) /\ Lower(k) # S
    BY <1>1, <1>3
  <2>2. Cardinality(Lower(k)) <= Cardinality(S) /\ Cardinality(Lower(k)) # Cardinality(S)
    <3> HIDE DEF Lower
    <3>1. IsFiniteSet(S) /\ Lower(k) \in SUBSET S
      BY <1>2, <1>3
    <3>2. QED
      BY <2>1, <3>1, FS_Subset
  <2>3. Cardinality(Lower(k)) \in Nat /\ Cardinality(S) \in Nat
    BY <1>2
  <2>4. QED
    BY <2>2, <2>3
<1>4. \A l \in kept : Below(l, kept) = Cardinality(Lower(l)) /\ Below(l, kept) \in Nat
  BY <1>2 DEF Below
<1>5. \A l \in kept : Below(l, kept) \in 0 .. n - 1
  <2> SUFFICES ASSUME NEW l \in kept PROVE Below(l, kept) \in 0 .. n - 1
    OBVIOUS
  <2>1. Cardinality(Lower(l)) < n
    BY <1>3
  <2>2. QED
    BY <1>2, <1>4, <2>1
<1>6. \A k, l \in kept : k.position < l.position => Below(k, kept) < Below(l, kept)
  <2> SUFFICES ASSUME NEW k \in kept, NEW l \in kept, k.position < l.position
               PROVE  Below(k, kept) < Below(l, kept)
    OBVIOUS
  <2>1. Lower(l) \in SUBSET kept /\ Lower(k) \subseteq Lower(l) /\ k \in Lower(l)
    BY <1>1
  <2>2. Cardinality(Lower(k)) < Cardinality(Lower(l))
    BY <1>3, <2>1
  <2>3. QED
    BY <1>4, <2>2
<1>7. \A k, l \in kept : Below(k, kept) = Below(l, kept) => k = l
  <2> SUFFICES ASSUME NEW k \in kept, NEW l \in kept, Below(k, kept) = Below(l, kept) PROVE k = l
    OBVIOUS
  <2>1. Below(k, kept) \in Nat /\ Below(l, kept) \in Nat
    BY <1>4
  <2>2. k.position < l.position => Below(k, kept) < Below(l, kept)
    BY <1>6
  <2>3. l.position < k.position => Below(l, kept) < Below(k, kept)
    BY <1>6
  <2> HIDE DEF Lower, n
  <2>4. ~ (k.position < l.position) /\ ~ (l.position < k.position)
    BY <2>1, <2>2, <2>3
  <2>5. k.position = l.position
    BY <1>1, <2>4
  <2>6. QED
    BY <1>1, <2>5
<1>8. \A p \in 0 .. n - 1 : \E l \in kept : Below(l, kept) = p
  <2> DEFINE f == [l \in kept |-> Below(l, kept)]
  <2>1. f \in Injection(kept, 0 .. n - 1)
    BY <1>5, <1>7 DEF Injection, IsInjective
  <2>2. IsFiniteSet(0 .. n - 1) /\ Cardinality(0 .. n - 1) = n
    <3>1. 0 \in Int /\ n - 1 \in Int
      BY <1>2
    <3>2. IsFiniteSet(0 .. n - 1) /\ Cardinality(0 .. n - 1) = IF 0 > n - 1 THEN 0 ELSE (n - 1) - 0 + 1
      BY <3>1, FS_Interval
    <3>3. QED
      BY <1>2, <3>2
  <2> HIDE DEF f
  <2>3. f \in Surjection(kept, 0 .. n - 1)
    BY <2>1, <2>2, FS_Injection
  <2>4. QED
    BY <2>3 DEF Surjection, f
<1>9. QED
  BY <1>2, <1>5, <1>7, <1>8

LEMMA CopyStep ==
  ASSUME Tables, Placed, NEW u \in Users, NEW m \in Maps, NEW copy \in Maps,
         NEW skipped \in SUBSET LayersOf(m), Copy(u, m, copy, skipped)
  PROVE  /\ TablesKept
         /\ owner' = [owner EXCEPT ![copy] = u] /\ owner[copy] = "unused"
         /\ UNCHANGED revision
         /\ \A k \in Maps \ {copy} : LayersOf(k)' = LayersOf(k)
<1> DEFINE kept == LayersOf(m) \ skipped
<1>1. PICK idOf \in CopyIds(kept) :
           /\ layers' = layers \cup Copies(idOf, copy, kept)
           /\ drafts' = drafts \cup ({l.draft : l \in Copies(idOf, copy, kept)} \ {Nothing})
  BY DEF Copy
<1>2. owner' = [owner EXCEPT ![copy] = u] /\ owner[copy] = "unused" /\ UNCHANGED revision
  BY DEF Copy
<1> DEFINE N == Copies(idOf, copy, kept)
           Made(l) == CopiedLayer(idOf[l], l, copy, Below(l, kept))
<1>3. /\ \A l \in kept : Below(l, kept) \in 0 .. Cardinality(kept) - 1
      /\ \A k, l \in kept : Below(k, kept) = Below(l, kept) => k = l
      /\ \A p \in 0 .. Cardinality(kept) - 1 : \E l \in kept : Below(l, kept) = p
      /\ Cardinality(kept) \in Nat
  BY BelowFills
<1>4. /\ \A l \in kept : idOf[l] \in FreeIds /\ idOf[l] \in Layers
      /\ \A k, l \in kept : idOf[k] = idOf[l] => k = l
  BY DEF CopyIds, Injection, IsInjective, FreeIds
<1>5. \A l \in kept : /\ Made(l) \in Layer /\ Made(l).id = idOf[l] /\ Made(l).map = copy
                      /\ Made(l).position = Below(l, kept) /\ OwnDraft(Made(l))
  <2> SUFFICES ASSUME NEW l \in kept
               PROVE  /\ Made(l) \in Layer /\ Made(l).id = idOf[l] /\ Made(l).map = copy
                      /\ Made(l).position = Below(l, kept) /\ OwnDraft(Made(l))
    OBVIOUS
  <2>0. l \in Layer
    BY DEF LayersOf, Tables, TypeOK
  <2> HIDE DEF Made, N, kept
  <2>1. l.kind \in Kinds /\ l.data \in Nat
    BY <2>0, LayerFields
  <2>2. Below(l, kept) \in Nat /\ idOf[l] \in Layers
    BY <1>3, <1>4
  <2>3. Made(l) = NewLayer(idOf[l], copy, l.kind, Below(l, kept), l.data)
    BY DEF CopiedLayer, Made
  <2>4. QED
    BY <2>1, <2>2, <2>3, NewLayerFields
<1>6. N = {Made(l) : l \in kept}
  BY DEF Copies
<1> HIDE DEF Made, N, kept
<1>7. /\ N \in SUBSET Layer /\ \A k \in N : k.map = copy
      /\ \A k \in N, l \in layers : k.id # l.id
      /\ \A k, l \in N : k.id = l.id => k = l
      /\ \A k \in N : OwnDraft(k)
  <2>1. \A l \in kept, k \in layers : idOf[l] # k.id
    BY <1>4 DEF FreeIds
  <2>2. QED
    BY <1>4, <1>5, <1>6, <2>1
<1>8. \A k \in Maps : owner'[k] = IF k = copy THEN u ELSE owner[k]
  BY <1>2 DEF Tables, TypeOK
<1>9. layers' \subseteq Layer /\ Rows'
  <2>1. Live(copy)' /\ \A k \in Maps : Live(k) => Live(k)'
    BY <1>8, PersonalMapsAssumption DEF Live
  <2>2. \A l \in N : Live(l.map)' /\ OwnDraft(l)
    BY <1>7, <2>1
  <2>3. layers' = layers \cup N /\ drafts' = drafts \cup ({l.draft : l \in N} \ {Nothing})
    BY <1>1 DEF N
  <2>4. QED
    BY <1>7, <2>1, <2>2, <2>3, AddedRows
<1>10. \A k \in Maps \ {copy} : LayersOf(k)' = LayersOf(k)
  BY <1>1, <1>7 DEF LayersOf, N
<1>11. LayersOf(copy)' = N
  <2>1. \A l \in layers : l.map # copy
    BY <1>2 DEF Tables, Rows, Live
  <2>2. QED
    BY <1>1, <1>7, <2>1 DEF LayersOf, N
<1>12. PICK n \in Nat : n = Cardinality(kept)
  BY <1>3
<1>13. Filled(copy, n)'
  <2>1. \A k \in N : k.position < n
    <3> SUFFICES ASSUME NEW k \in N PROVE k.position < n
      OBVIOUS
    <3>1. PICK l \in kept : k = Made(l)
      BY <1>6
    <3>2. k.position \in 0 .. n - 1
      BY <1>3, <1>5, <1>12, <3>1
    <3>3. QED
      BY <3>2
  <2>2. \A k, l \in N : k.position = l.position => k = l
    BY <1>3, <1>5, <1>6
  <2>3. \A p \in 0 .. n - 1 : \E k \in N : k.position = p
    <3> SUFFICES ASSUME NEW p \in 0 .. n - 1 PROVE \E k \in N : k.position = p
      OBVIOUS
    <3>1. PICK l \in kept : Below(l, kept) = p
      BY <1>3, <1>12
    <3>2. Made(l) \in N /\ Made(l).position = p
      BY <1>5, <1>6, <3>1
    <3>3. QED
      BY <3>2
  <2>4. QED
    BY <1>11, <2>1, <2>2, <2>3 DEF Filled
<1>14. Placed'
  BY <1>10, <1>13, PlacedStays
<1>15. QED
  BY <1>2, <1>9, <1>10, <1>14 DEF TablesKept

------------------------------------------------------------------------------
(* Readers *)

LEMMA DetailFields ==
  ASSUME TypeOK, NEW t \in Tabs, seen[t] # Nothing
  PROVE  seen[t].map \in Maps /\ seen[t].revision \in Nat
<1>1. seen[t] \in Detail
  BY DEF TypeOK
<1>2. QED
  BY <1>1 DEF Detail

LEMMA ReadFields ==
  ASSUME TypeOK, NEW t \in Tabs, reading[t] # Nothing
  PROVE  /\ reading[t].map \in Maps
         /\ reading[t].stage = "layers" => reading[t].revision \in Nat
<1>1. \/ reading[t] \in [map: Maps, stage: {"summary"}]
      \/ reading[t] \in [map: Maps, stage: {"layers"}, revision: Nat]
  BY DEF TypeOK, Read
<1>2. CASE reading[t] \in [map: Maps, stage: {"summary"}]
  BY <1>2
<1>3. CASE reading[t] \in [map: Maps, stage: {"layers"}, revision: Nat]
  BY <1>3
<1>4. QED
  BY <1>1, <1>2, <1>3

\* What a step may do to a map that others have read.
Followed(k) ==
    \/ owner[k] = "unused"
    \/ ~ Live(k)' /\ owner'[k] # "unused"
    \/ /\ owner[k] # "unused" /\ owner'[k] # "unused" /\ (Live(k)' => Live(k))
       /\ revision'[k] \in Nat
       /\ \/ revision'[k] > revision[k]
          \/ revision'[k] = revision[k] /\ LayersOf(k)' = LayersOf(k)

LEMMA ReadersKeep ==
  ASSUME Tables, Behind, RevisionVouches,
         \A t \in Tabs : seen'[t] = seen[t] \/ seen'[t] = Nothing,
         \A t \in Tabs : reading'[t] = reading[t] \/ reading'[t] = Nothing,
         \A k \in Maps : Followed(k)
  PROVE  Behind' /\ RevisionVouches'
<1>0. TypeOK
  BY DEF Tables
<1>1. ASSUME NEW t \in Tabs, seen'[t] # Nothing
      PROVE  /\ seen'[t] = seen[t] /\ owner'[seen[t].map] # "unused"
             /\ \/ ~ Live(seen[t].map)'
                \/ seen[t].revision < revision'[seen[t].map]
                \/ seen[t].revision = revision'[seen[t].map] /\ seen[t].layers = LayersOf(seen[t].map)'
  <2>1. seen'[t] = seen[t] /\ seen[t] # Nothing
    BY <1>1
  <2> DEFINE k == seen[t].map
  <2>2. k \in Maps /\ seen[t].revision \in Nat
    BY <1>0, <2>1, DetailFields
  <2>3. owner[k] # "unused"
    BY <2>1 DEF Behind
  <2>4. \/ ~ Live(k)
        \/ seen[t].revision < revision[k]
        \/ seen[t].revision = revision[k] /\ seen[t].layers = LayersOf(k)
    BY <2>1 DEF RevisionVouches
  <2>5. revision[k] \in Nat
    BY <1>0, <2>2 DEF TypeOK
  <2>6. Followed(k)
    BY <2>2
  <2> HIDE DEF k
  <2>7. CASE ~ Live(k)' /\ owner'[k] # "unused"
    BY <2>1, <2>7 DEF k
  <2>8. CASE /\ owner[k] # "unused" /\ owner'[k] # "unused" /\ (Live(k)' => Live(k))
             /\ revision'[k] \in Nat
             /\ \/ revision'[k] > revision[k]
                \/ revision'[k] = revision[k] /\ LayersOf(k)' = LayersOf(k)
    <3>1. CASE ~ Live(k)
      BY <2>1, <2>8, <3>1 DEF k
    <3>2. CASE seen[t].revision < revision[k]
      <4>1. seen[t].revision < revision'[k]
        BY <2>2, <2>5, <2>8, <3>2
      <4>2. QED
        BY <2>1, <2>8, <4>1 DEF k
    <3>3. CASE seen[t].revision = revision[k] /\ seen[t].layers = LayersOf(k)
      <4>1. \/ seen[t].revision < revision'[k]
            \/ seen[t].revision = revision'[k] /\ seen[t].layers = LayersOf(k)'
        BY <2>2, <2>5, <2>8, <3>3
      <4>2. QED
        BY <2>1, <2>8, <4>1 DEF k
    <3>4. QED
      BY <2>4, <3>1, <3>2, <3>3
  <2>9. QED
    BY <2>3, <2>6, <2>7, <2>8 DEF Followed
<1>2. ASSUME NEW t \in Tabs, reading'[t] # Nothing
      PROVE  /\ reading'[t] = reading[t] /\ owner'[reading[t].map] # "unused"
             /\ reading[t].stage = "layers" /\ Live(reading[t].map)' =>
                  reading[t].revision <= revision'[reading[t].map]
  <2>1. reading'[t] = reading[t] /\ reading[t] # Nothing
    BY <1>2
  <2> DEFINE k == reading[t].map
  <2>2. k \in Maps /\ (reading[t].stage = "layers" => reading[t].revision \in Nat)
    BY <1>0, <2>1, ReadFields
  <2>3. /\ owner[k] # "unused"
        /\ reading[t].stage = "layers" /\ Live(k) => reading[t].revision <= revision[k]
    BY <2>1 DEF Behind
  <2>4. revision[k] \in Nat /\ Followed(k)
    BY <1>0, <2>2 DEF TypeOK
  <2> HIDE DEF k
  <2>5. owner'[k] # "unused" /\ (reading[t].stage = "layers" /\ Live(k)' => reading[t].revision <= revision'[k])
    BY <2>2, <2>3, <2>4 DEF Followed
  <2>6. QED
    BY <2>1, <2>5 DEF k
<1>3. Behind'
  BY <1>1, <1>2 DEF Behind, Live
<1>4. RevisionVouches'
  BY <1>1 DEF RevisionVouches, Live, LayersOf
<1>5. QED
  BY <1>3, <1>4

------------------------------------------------------------------------------
(* Every step keeps the invariant *)

LEMMA InitInv == Init => IInv
<1> SUFFICES ASSUME Init PROVE IInv
  OBVIOUS
<1>1. Tables
  BY DEF Init, Tables, TypeOK, Rows
<1>2. Placed
  <2>1. \A m \in Maps : Filled(m, 0)
    BY DEF Init, Filled, LayersOf
  <2>2. QED
    BY <2>1 DEF Placed
<1>3. Behind /\ RevisionVouches
  BY DEF Init, Behind, RevisionVouches
<1>4. QED
  BY <1>1, <1>2, <1>3 DEF IInv

\* The drafts are drafts of layers.
LEMMA DraftsTyped ==
  ASSUME layers' \subseteq Layer, Rows'
  PROVE  drafts' \subseteq Layers
  BY LayerFields DEF Rows

LEMMA ContentWriteInv ==
  ASSUME IInv, NEW m \in Maps, TablesKept, ContentWrite(m), UNCHANGED <<shares, reading>>,
         UNCHANGED seen \/ \E t \in Tabs : seen' = [seen EXCEPT ![t] = Nothing]
  PROVE  IInv'
<1>0. Tables /\ TypeOK /\ Behind /\ RevisionVouches
  BY DEF IInv, Tables
<1>1. \A k \in Maps : revision'[k] = IF k = m THEN revision[k] + 1 ELSE revision[k]
  BY <1>0 DEF TypeOK, ContentWrite
<1>2. \A t \in Tabs : seen'[t] = seen[t] \/ seen'[t] = Nothing
  BY <1>0 DEF TypeOK
<1>3. seen' \in [Tabs -> Detail \cup {Nothing}]
  BY <1>0 DEF TypeOK
<1>4. revision' \in [Maps -> Nat]
  BY <1>0 DEF TypeOK, ContentWrite
<1>5. TypeOK'
  <2>1. drafts' \subseteq Layers
    BY DraftsTyped DEF TablesKept
  <2>2. QED
    BY <1>0, <1>3, <1>4, <2>1 DEF TypeOK, TablesKept, ContentWrite
<1>6. Tables'
  <2>1. \A k \in Maps : owner'[k] = "unused" => revision'[k] = 0
    BY <1>0, <1>1 DEF Tables, ContentWrite, Live
  <2>2. QED
    BY <1>5, <2>1 DEF Tables, TablesKept
<1>7. \A k \in Maps : Followed(k)
  <2> SUFFICES ASSUME NEW k \in Maps PROVE Followed(k)
    OBVIOUS
  <2>1. revision[k] \in Nat /\ revision'[k] \in Nat
    BY <1>0, <1>4 DEF TypeOK
  <2>2. Live(k)' <=> Live(k)
    BY DEF Live, ContentWrite
  <2>3. k # m => revision'[k] = revision[k] /\ LayersOf(k)' = LayersOf(k)
    BY <1>1 DEF ContentWrite
  <2>4. k = m => revision'[k] > revision[k]
    BY <1>1, <2>1
  <2>5. owner'[k] = owner[k]
    BY DEF ContentWrite
  <2>6. QED
    BY <2>1, <2>2, <2>3, <2>4, <2>5 DEF Followed
<1>8. Behind' /\ RevisionVouches'
  BY <1>0, <1>2, <1>7, ReadersKeep
<1>9. QED
  BY <1>6, <1>8 DEF IInv, TablesKept

\* A tab that may write is looking at a map that is in use.
LEMMA MayWriteLive ==
  ASSUME NEW t \in Tabs, NEW m, MayWrite(t, m)
  PROVE  Live(m)
  BY PersonalMapsAssumption DEF MayWrite, Live

LEMMA WriteByTabInv ==
  ASSUME IInv, NEW t \in Tabs, WriteByTab(t)
  PROVE  IInv'
<1>0. Tables /\ TypeOK /\ Placed
  BY DEF IInv, Tables
<1>1. ASSUME NEW m \in Maps, NEW kind \in Kinds, AddByTab(t, m, kind) PROVE IInv'
  BY <1>0, <1>1, MayWriteLive, AddLayerStep, ContentWriteInv DEF AddByTab, Wrote
<1>2. ASSUME NEW m \in Maps, UpdateMap(t, m) PROVE IInv'
  <2>1. Live(m) /\ UNCHANGED <<shares, reading>> /\ seen' = [seen EXCEPT ![t] = Nothing]
    BY <1>2, MayWriteLive DEF UpdateMap, Wrote
  <2>2. QED
    BY <1>0, <1>2, <2>1, UpdateMapStep, ContentWriteInv
<1>3. ASSUME NEW m \in Maps, RemoveMap(t, m) PROVE IInv'
  <2>1. /\ TablesKept
        /\ owner' = [owner EXCEPT ![m] = "deleted"]
        /\ UNCHANGED revision
        /\ \A k \in Maps \ {m} : LayersOf(k)' = LayersOf(k)
    BY <1>0, <1>3, RemoveMapStep
  <2>2. /\ shares' \subseteq shares /\ UNCHANGED reading
        /\ seen' = [seen EXCEPT ![t] = Nothing]
    BY <1>3 DEF RemoveMap
  <2>3. TypeOK'
    <3>1. drafts' \subseteq Layers
      BY <2>1, DraftsTyped DEF TablesKept
    <3>2. owner' \in [Maps -> Users \cup {"unused", "deleted"}]
      BY <1>0, <2>1 DEF TypeOK
    <3>3. seen' \in [Tabs -> Detail \cup {Nothing}]
      BY <1>0, <2>2 DEF TypeOK
    <3>4. QED
      BY <1>0, <2>1, <2>2, <3>1, <3>2, <3>3 DEF TypeOK, TablesKept
  <2>4. \A k \in Maps : owner'[k] = IF k = m THEN "deleted" ELSE owner[k]
    BY <1>0, <2>1 DEF TypeOK
  <2>5. Tables'
    BY <1>0, <2>1, <2>3, <2>4 DEF Tables, TablesKept
  <2>6. \A k \in Maps : Followed(k)
    <3> SUFFICES ASSUME NEW k \in Maps PROVE Followed(k)
      OBVIOUS
    <3>1. revision'[k] = revision[k] /\ revision[k] \in Nat
      BY <1>0, <2>1 DEF TypeOK
    <3>2. CASE k = m
      BY <2>4, <3>2 DEF Followed, Live
    <3>3. CASE k # m
      BY <2>1, <2>4, <3>1, <3>3 DEF Followed, Live
    <3>4. QED
      BY <3>2, <3>3
  <2>7. \A s \in Tabs : seen'[s] = seen[s] \/ seen'[s] = Nothing
    BY <1>0, <2>2 DEF TypeOK
  <2>8. Behind' /\ RevisionVouches'
    BY <1>0, <2>2, <2>6, <2>7, ReadersKeep DEF IInv
  <2>9. QED
    BY <2>1, <2>5, <2>8 DEF IInv, TablesKept
<1>4. ASSUME NEW l \in layers, ChangeLayer(t, l) PROVE IInv'
  <2>1. l.map \in Maps
    BY <1>0, LayerFields DEF TypeOK
  <2>2. UNCHANGED <<shares, reading>> /\ seen' = [seen EXCEPT ![t] = Nothing]
    BY <1>4 DEF ChangeLayer, Wrote
  <2>3. QED
    BY <1>0, <1>4, <2>1, <2>2, ChangeLayerStep, ContentWriteInv
<1>5. ASSUME NEW l \in layers, NEW position \in Nat, MoveLayer(t, l, position) PROVE IInv'
  <2>1. l.map \in Maps
    BY <1>0, LayerFields DEF TypeOK
  <2>2. UNCHANGED <<shares, reading>> /\ seen' = [seen EXCEPT ![t] = Nothing]
    BY <1>5 DEF MoveLayer, Wrote
  <2>3. QED
    BY <1>0, <1>5, <2>1, <2>2, MoveLayerStep, ContentWriteInv
<1>6. ASSUME NEW l \in layers, RemoveLayer(t, l) PROVE IInv'
  <2>1. l.map \in Maps
    BY <1>0, LayerFields DEF TypeOK
  <2>2. UNCHANGED <<shares, reading>> /\ seen' = [seen EXCEPT ![t] = Nothing]
    BY <1>6 DEF RemoveLayer, Wrote
  <2>3. QED
    BY <1>0, <1>6, <2>1, <2>2, RemoveLayerStep, ContentWriteInv
<1>7. \A position \in 0 .. Cardinality(Layers) : position \in Nat
  OBVIOUS
<1>8. QED
  BY <1>1, <1>2, <1>3, <1>4, <1>5, <1>6, <1>7 DEF WriteByTab

\* A step that only reads or shares.
LEMMA ContentUnchanged ==
  ASSUME Tables, Placed, UNCHANGED content,
         shares' \subseteq Maps \X DOMAIN Members,
         reading' \in [Tabs -> Read \cup {Nothing}],
         seen' \in [Tabs -> Detail \cup {Nothing}]
  PROVE  /\ Tables' /\ Placed'
         /\ \A k \in Maps : LayersOf(k)' = LayersOf(k) /\ (Live(k)' <=> Live(k))
                            /\ revision'[k] = revision[k] /\ owner'[k] = owner[k]
<1>1. UNCHANGED <<owner, revision, layers, drafts>>
  BY DEF content
<1>2. TypeOK' /\ Rows'
  <2>1. TypeOK'
    BY <1>1 DEF Tables, TypeOK
  <2>2. Rows'
    BY <1>1 DEF Tables, Rows, Live, OwnDraft
  <2>3. QED
    BY <2>1, <2>2
<1>3. \A k \in Maps : LayersOf(k)' = LayersOf(k)
  BY <1>1 DEF LayersOf
<1>4. Placed'
  <2>1. \A k \in Maps, n \in Nat : Filled(k, n) => Filled(k, n)'
    BY <1>3, FilledStays
  <2>2. QED
    BY <2>1 DEF Placed
<1>5. QED
  BY <1>1, <1>2, <1>3, <1>4 DEF Tables, Live

\* Tabs that neither read nor show anything new keep what holds of them.
LEMMA QuietInv ==
  ASSUME IInv, UNCHANGED content, shares' \subseteq Maps \X DOMAIN Members, UNCHANGED reading,
         UNCHANGED seen \/ \E t \in Tabs : seen' = [seen EXCEPT ![t] = Nothing]
  PROVE  IInv'
<1>0. Tables /\ TypeOK /\ Placed /\ Behind /\ RevisionVouches
  BY DEF IInv, Tables
<1>1. /\ reading' \in [Tabs -> Read \cup {Nothing}] /\ seen' \in [Tabs -> Detail \cup {Nothing}]
      /\ \A t \in Tabs : seen'[t] = seen[t] \/ seen'[t] = Nothing
      /\ \A t \in Tabs : reading'[t] = reading[t]
  BY <1>0 DEF TypeOK
<1>2. /\ Tables' /\ Placed'
      /\ \A k \in Maps : LayersOf(k)' = LayersOf(k) /\ (Live(k)' <=> Live(k))
                            /\ revision'[k] = revision[k] /\ owner'[k] = owner[k]
  BY <1>0, <1>1, ContentUnchanged
<1>3. \A k \in Maps : revision[k] \in Nat
  BY <1>0 DEF TypeOK
<1>4. \A k \in Maps : Followed(k)
  BY <1>2, <1>3 DEF Followed
<1>5. Behind' /\ RevisionVouches'
  BY <1>0, <1>1, <1>4, ReadersKeep
<1>6. QED
  BY <1>2, <1>5 DEF IInv

LEMMA BeginReadInv ==
  ASSUME IInv, NEW t \in Tabs, NEW m \in Maps, BeginRead(t, m)
  PROVE  IInv'
<1>0. Tables /\ TypeOK /\ Placed /\ Behind /\ RevisionVouches
  BY DEF IInv, Tables
<1> DEFINE r == [map |-> m, stage |-> "summary"]
<1>1. /\ reading' = [reading EXCEPT ![t] = r] /\ seen' = [seen EXCEPT ![t] = Nothing]
      /\ UNCHANGED <<content, shares>> /\ Live(m)
  BY DEF BeginRead, MayRead
<1>2. r \in Read /\ r.map = m /\ r.stage # "layers"
  BY DEF Read
<1> HIDE DEF r
<1>3. /\ reading' \in [Tabs -> Read \cup {Nothing}] /\ seen' \in [Tabs -> Detail \cup {Nothing}]
      /\ shares' \subseteq Maps \X DOMAIN Members
      /\ \A s \in Tabs : /\ seen'[s] = IF s = t THEN Nothing ELSE seen[s]
                         /\ reading'[s] = IF s = t THEN r ELSE reading[s]
  BY <1>0, <1>1, <1>2 DEF TypeOK
<1>4. /\ Tables' /\ Placed'
      /\ \A k \in Maps : LayersOf(k)' = LayersOf(k) /\ (Live(k)' <=> Live(k))
                            /\ revision'[k] = revision[k] /\ owner'[k] = owner[k]
  BY <1>0, <1>1, <1>3, ContentUnchanged
<1>5. Behind'
  <2>1. UNCHANGED <<owner, revision>>
    BY <1>1 DEF content
  <2>2. QED
    BY <1>0, <1>1, <1>2, <1>3, <2>1 DEF Behind, Live
<1>6. RevisionVouches'
  <2>1. UNCHANGED <<owner, revision, layers>>
    BY <1>1 DEF content
  <2>2. QED
    BY <1>0, <1>3, <2>1 DEF RevisionVouches, Live, LayersOf
<1>7. QED
  BY <1>4, <1>5, <1>6 DEF IInv

LEMMA ReadSummaryInv ==
  ASSUME IInv, NEW t \in Tabs, ReadSummary(t)
  PROVE  IInv'
<1>0. Tables /\ TypeOK /\ Placed /\ Behind /\ RevisionVouches
  BY DEF IInv, Tables
<1> DEFINE m == reading[t].map
           r == [map |-> m, stage |-> "layers", revision |-> revision[m]]
<1>1. reading[t] # Nothing /\ UNCHANGED <<content, shares, seen>>
  BY DEF ReadSummary
<1>2. m \in Maps /\ owner[m] # "unused" /\ revision[m] \in Nat
  BY <1>0, <1>1, ReadFields DEF Behind, TypeOK
<1>3. r \in Read /\ r.map = m /\ r.revision = revision[m]
  BY <1>2 DEF Read
<1>4. reading' = [reading EXCEPT ![t] = r] \/ reading' = [reading EXCEPT ![t] = Nothing]
  BY DEF ReadSummary
<1> HIDE DEF r, m
<1>5. /\ reading' \in [Tabs -> Read \cup {Nothing}] /\ seen' \in [Tabs -> Detail \cup {Nothing}]
      /\ shares' \subseteq Maps \X DOMAIN Members
      /\ \A s \in Tabs \ {t} : reading'[s] = reading[s]
      /\ reading'[t] \in {r, Nothing}
  BY <1>0, <1>1, <1>3, <1>4 DEF TypeOK
<1>6. Tables' /\ Placed'
  BY <1>0, <1>1, <1>5, ContentUnchanged
<1>7. UNCHANGED <<owner, revision, layers, seen>>
  BY <1>1 DEF content
<1>8. Behind'
  <2>1. ASSUME NEW s \in Tabs
        PROVE  /\ seen'[s] # Nothing => owner'[seen'[s].map] # "unused"
               /\ reading'[s] # Nothing =>
                    /\ owner'[reading'[s].map] # "unused"
                    /\ reading'[s].stage = "layers" /\ owner'[reading'[s].map] \notin {"unused", "deleted"} =>
                         reading'[s].revision <= revision'[reading'[s].map]
    <3>1. CASE s # t
      BY <1>0, <1>5, <1>7, <3>1 DEF Behind, Live
    <3>2. CASE s = t
      BY <1>0, <1>2, <1>3, <1>5, <1>7, <3>2 DEF Behind, Live
    <3>3. QED
      BY <3>1, <3>2
  <2>2. QED
    BY <2>1 DEF Behind, Live
<1>9. RevisionVouches'
  BY <1>0, <1>7 DEF RevisionVouches, Live, LayersOf
<1>10. QED
  BY <1>6, <1>8, <1>9 DEF IInv

\* The revision was read first, so what is shown with it is not older.
LEMMA ReadLayersInv ==
  ASSUME IInv, NEW t \in Tabs, ReadLayers(t)
  PROVE  IInv'
<1>0. Tables /\ TypeOK /\ Placed /\ Behind /\ RevisionVouches
  BY DEF IInv, Tables
<1> DEFINE m == reading[t].map
           d == [map |-> m, revision |-> reading[t].revision, layers |-> LayersOf(m)]
<1>1. /\ reading[t] # Nothing /\ reading[t].stage = "layers" /\ UNCHANGED <<content, shares>>
      /\ seen' = [seen EXCEPT ![t] = d] /\ reading' = [reading EXCEPT ![t] = Nothing]
  BY DEF ReadLayers
<1>2. /\ m \in Maps /\ owner[m] # "unused" /\ revision[m] \in Nat /\ reading[t].revision \in Nat
      /\ Live(m) => reading[t].revision <= revision[m]
  BY <1>0, <1>1, ReadFields DEF Behind, TypeOK
<1>3. LayersOf(m) \in SUBSET Layer
  BY <1>0 DEF LayersOf, TypeOK
<1>4. d \in Detail /\ d.map = m /\ d.revision = reading[t].revision /\ d.layers = LayersOf(m)
  BY <1>2, <1>3 DEF Detail
<1> HIDE DEF d, m
<1>5. /\ reading' \in [Tabs -> Read \cup {Nothing}] /\ seen' \in [Tabs -> Detail \cup {Nothing}]
      /\ shares' \subseteq Maps \X DOMAIN Members
      /\ \A s \in Tabs : /\ seen'[s] = IF s = t THEN d ELSE seen[s]
                         /\ reading'[s] = IF s = t THEN Nothing ELSE reading[s]
  BY <1>0, <1>1, <1>4 DEF TypeOK
<1>6. Tables' /\ Placed'
  BY <1>0, <1>1, <1>5, ContentUnchanged
<1>7. UNCHANGED <<owner, revision, layers>>
  BY <1>1 DEF content
<1>8. Behind'
  BY <1>0, <1>2, <1>4, <1>5, <1>7 DEF Behind, Live
<1>9. RevisionVouches'
  <2>1. \/ ~ Live(m)
        \/ d.revision < revision[m]
        \/ d.revision = revision[m] /\ d.layers = LayersOf(m)
    BY <1>2, <1>4
  <2>2. QED
    BY <1>0, <1>4, <1>5, <1>7, <2>1 DEF RevisionVouches, Live, LayersOf
<1>10. QED
  BY <1>6, <1>8, <1>9 DEF IInv

\* A map comes into use: created, or copied.
LEMMA CreatedInv ==
  ASSUME IInv, NEW u \in Users, NEW m \in Maps, TablesKept,
         owner[m] = "unused", owner' = [owner EXCEPT ![m] = u],
         UNCHANGED <<revision, shares, reading, seen>>,
         \A k \in Maps \ {m} : LayersOf(k)' = LayersOf(k)
  PROVE  IInv'
<1>0. Tables /\ TypeOK /\ Behind /\ RevisionVouches
  BY DEF IInv, Tables
<1>1. \A k \in Maps : owner'[k] = IF k = m THEN u ELSE owner[k]
  BY <1>0 DEF TypeOK
<1>2. TypeOK'
  <2>1. drafts' \subseteq Layers
    BY DraftsTyped DEF TablesKept
  <2>2. owner' \in [Maps -> Users \cup {"unused", "deleted"}]
    BY <1>0 DEF TypeOK
  <2>3. QED
    BY <1>0, <2>1, <2>2 DEF TypeOK, TablesKept
<1>3. Tables'
  BY <1>0, <1>1, <1>2, PersonalMapsAssumption DEF Tables, TablesKept
<1>4. \A k \in Maps : Followed(k)
  <2> SUFFICES ASSUME NEW k \in Maps PROVE Followed(k)
    OBVIOUS
  <2>1. CASE k = m
    BY <2>1 DEF Followed
  <2>2. CASE k # m
    <3>1. revision'[k] = revision[k] /\ revision[k] \in Nat /\ LayersOf(k)' = LayersOf(k)
      BY <1>0, <2>2 DEF TypeOK
    <3>2. owner'[k] = owner[k]
      BY <1>1, <2>2
    <3>3. QED
      BY <3>1, <3>2 DEF Followed, Live
  <2>3. QED
    BY <2>1, <2>2
<1>5. Behind' /\ RevisionVouches'
  BY <1>0, <1>4, ReadersKeep
<1>6. QED
  BY <1>3, <1>5 DEF IInv, TablesKept

LEMMA CreateInv ==
  ASSUME IInv, NEW u \in Users, NEW m \in Maps, Create(u, m)
  PROVE  IInv'
<1>0. Tables /\ TypeOK /\ Placed
  BY DEF IInv, Tables
<1>1. /\ owner[m] = "unused" /\ owner' = [owner EXCEPT ![m] = u]
      /\ UNCHANGED <<revision, layers, drafts, shares, reading, seen>>
  BY DEF Create
<1>2. \A k \in Maps : owner'[k] = IF k = m THEN u ELSE owner[k]
  BY <1>0, <1>1 DEF TypeOK
<1>3. \A l \in layers : Live(l.map)' /\ OwnDraft(l)
  <2>1. \A l \in layers : l.map \in Maps /\ Live(l.map) /\ OwnDraft(l)
    BY <1>0, LayerFields DEF Tables, TypeOK, Rows
  <2>2. QED
    BY <1>2, <2>1, PersonalMapsAssumption DEF Live
<1>4. TablesKept
  <2>1. Rows'
    BY <1>0, <1>1, <1>3 DEF Tables, Rows, OwnDraft
  <2>2. Placed'
    BY <1>0, <1>1 DEF Placed, Filled, LayersOf
  <2>3. QED
    BY <1>0, <1>1, <2>1, <2>2 DEF TablesKept, TypeOK
<1>5. \A k \in Maps \ {m} : LayersOf(k)' = LayersOf(k)
  BY <1>1 DEF LayersOf
<1>6. QED
  BY <1>1, <1>4, <1>5, CreatedInv

LEMMA NextInv == IInv /\ [Next]_vars => IInv'
<1> SUFFICES ASSUME IInv, [Next]_vars PROVE IInv'
  OBVIOUS
<1>0. Tables /\ TypeOK /\ Placed
  BY DEF IInv, Tables
<1>1. CASE UNCHANGED vars
  BY <1>0, <1>1, QuietInv DEF vars, content, TypeOK
<1>2. ASSUME NEW t \in Tabs, WriteByTab(t) PROVE IInv'
  BY <1>2, WriteByTabInv
<1>3. ASSUME NEW t \in Tabs, NEW m \in Maps, BeginRead(t, m) PROVE IInv'
  BY <1>3, BeginReadInv
<1>4. ASSUME NEW t \in Tabs, ReadSummary(t) PROVE IInv'
  BY <1>4, ReadSummaryInv
<1>5. ASSUME NEW t \in Tabs, ReadLayers(t) PROVE IInv'
  BY <1>5, ReadLayersInv
<1>6. ASSUME NEW t \in Tabs, Refused(t) PROVE IInv'
  BY <1>0, <1>6, QuietInv DEF Refused, TypeOK
<1>7. ASSUME NEW m \in Maps, NEW kind \in Kinds, Import(m, kind) PROVE IInv'
  <2>1. Live(m) /\ AddLayer(m, kind) /\ UNCHANGED <<shares, reading, seen>>
    BY <1>7 DEF Import
  <2>2. TablesKept /\ ContentWrite(m)
    BY <1>0, <2>1, AddLayerStep
  <2>3. QED
    BY <2>1, <2>2, ContentWriteInv
<1>8. ASSUME NEW u \in Users, NEW m \in Maps, Create(u, m) PROVE IInv'
  BY <1>8, CreateInv
<1>9. ASSUME NEW u \in Users, NEW m \in Maps, NEW member \in DOMAIN Members, Share(u, m, member)
      PROVE  IInv'
  BY <1>0, <1>9, QuietInv DEF Share, TypeOK
<1>10. ASSUME NEW u \in Users, NEW s \in shares, Unshare(u, s) PROVE IInv'
  BY <1>0, <1>10, QuietInv DEF Unshare, TypeOK
<1>11. ASSUME NEW u \in Users, NEW m \in Maps, NEW copy \in Maps,
              NEW skipped \in SUBSET {l \in LayersOf(m) : l.kind = "raster"}, Copy(u, m, copy, skipped)
       PROVE  IInv'
  <2>1. skipped \in SUBSET LayersOf(m)
    OBVIOUS
  <2>2. UNCHANGED <<shares, reading, seen>>
    BY <1>11 DEF Copy
  <2>3. QED
    BY <1>0, <1>11, <2>1, <2>2, CopyStep, CreatedInv
<1>12. QED
  BY <1>1, <1>2, <1>3, <1>4, <1>5, <1>6, <1>7, <1>8, <1>9, <1>10, <1>11 DEF Next

(* What every step of the personal maps can rely on: rows that fit together, places without a gap, and
   nothing read that is ahead of its map. *)
THEOREM MapsInvariant == Spec => []IInv
  BY InitInv, NextInv, PTL DEF Spec

(* Maps, layers, drafts, shares and what tabs have read keep their types. *)
THEOREM MapsTypeCorrect == Spec => []TypeOK
<1>1. IInv => TypeOK
  BY DEF IInv, Tables
<1>2. QED
  BY <1>1, MapsInvariant, PTL

LEMMA IntactByInv == IInv => LayersIntact
<1> SUFFICES ASSUME IInv PROVE LayersIntact
  OBVIOUS
<1>0. Tables /\ TypeOK /\ Placed
  BY DEF IInv, Tables
<1>1. PositionsContiguous
  <2> SUFFICES ASSUME NEW m \in Maps
               PROVE  {l.position : l \in LayersOf(m)} = 0 .. Cardinality(LayersOf(m)) - 1
    BY DEF PositionsContiguous
  <2>1. PICK n \in Nat : Filled(m, n)
    BY <1>0 DEF Placed
  <2> DEFINE L == LayersOf(m)
             f == [l \in L |-> l.position]
  <2>2. /\ \A l \in L : l.position \in 0 .. n - 1
        /\ \A k, l \in L : k.position = l.position => k = l
        /\ \A p \in 0 .. n - 1 : \E l \in L : l.position = p
    <3>1. \A l \in L : l.position \in Nat
      BY <1>0, LayerFields DEF LayersOf, TypeOK
    <3>2. QED
      BY <2>1, <3>1 DEF Filled
  <2>3. IsFiniteSet(L) /\ Cardinality(L) \in Nat
    BY <1>0, FiniteLayers DEF LayersOf
  <2> HIDE DEF L
  <2>4. f \in Injection(L, 0 .. n - 1) /\ f \in Surjection(L, 0 .. n - 1)
    BY <2>2 DEF Injection, IsInjective, Surjection
  <2> HIDE DEF f
  <2>5. IsFiniteSet(0 .. n - 1) /\ Cardinality(0 .. n - 1) = n
    <3>1. IsFiniteSet(0 .. n - 1) /\ Cardinality(0 .. n - 1) = IF 0 > n - 1 THEN 0 ELSE (n - 1) - 0 + 1
      BY FS_Interval
    <3>2. QED
      BY <3>1
  <2>6. Cardinality(L) = n
    BY <2>3, <2>4, <2>5, FS_Injection
  <2>7. {l.position : l \in L} = 0 .. n - 1
    BY <2>2
  <2>8. QED
    BY <2>6, <2>7 DEF L
<1>2. DraftsPaired
  <2>1. drafts = {l.draft : l \in layers} \ {Nothing}
    BY <1>0 DEF Tables, Rows
  <2>2. \A k, l \in layers : k.draft = l.draft => k = l \/ k.draft = Nothing
    BY <1>0 DEF Tables, Rows, OwnDraft
  <2>3. QED
    BY <2>1, <2>2 DEF DraftsPaired
<1>3. QED
  BY <1>1, <1>2 DEF LayersIntact

(* The stacking order of every map is 0 .. n - 1 and every edit copy has a draft of its own, after any
   sequence of additions, moves, removals, imports and copies. *)
THEOREM LayersIntactHolds == Spec => []LayersIntact
  BY IntactByInv, MapsInvariant, PTL

(* A detail with the revision the map has shows the layers the map has, although it was read by statements
   between which any write may have committed. *)
THEOREM RevisionVouchesHolds == Spec => []RevisionVouches
<1>1. IInv => RevisionVouches
  BY DEF IInv
<1>2. QED
  BY <1>1, MapsInvariant, PTL

LEMMA WriteSawLayers ==
  ASSUME IInv, NEW t \in Tabs, WriteByTab(t)
  PROVE  seen[t].layers = LayersOf(seen[t].map)
<1>1. \E m : MayWrite(t, m)
  BY DEF WriteByTab, AddByTab, UpdateMap, RemoveMap, ChangeLayer, MoveLayer, RemoveLayer
<1>2. PICK m : MayWrite(t, m)
  BY <1>1
<1>3. seen[t] # Nothing /\ seen[t].map = m /\ seen[t].revision = revision[m] /\ Live(m)
  BY <1>2, MayWriteLive DEF MayWrite
<1>4. m \in Maps /\ revision[m] \in Nat
  BY <1>3, DetailFields DEF IInv, Tables, TypeOK
<1>5. QED
  BY <1>3, <1>4 DEF IInv, RevisionVouches

(* No tab changes a map it has not seen as it is. *)
THEOREM NoLostUpdateHolds == Spec => NoLostUpdate
<1>1. IInv /\ [Next]_vars => [\A t \in Tabs : WriteByTab(t) => seen[t].layers = LayersOf(seen[t].map)]_vars
  BY WriteSawLayers
<1>2. QED
  BY <1>1, MapsInvariant, PTL DEF Spec, NoLostUpdate

------------------------------------------------------------------------------
(* Seen from outside *)

\* A map whose rows stay shows the same content, whatever happens to the drafts of others.
LEMMA OutsideStays ==
  ASSUME Tables, Rows', NEW k \in Maps,
         owner'[k] = owner[k], revision'[k] = revision[k], LayersOf(k)' = LayersOf(k)
  PROVE  Outside(k)' = Outside(k)
<1>1. \A l \in LayersOf(k) : l \in layers /\ l \in layers'
  BY DEF LayersOf
<1>2. \A l \in LayersOf(k) : (l.draft \in drafts') = (l.draft \in drafts)
  <2>1. \A l \in layers : l.draft \in drafts <=> l.draft # Nothing
    BY DEF Tables, Rows
  <2>2. \A l \in layers' : l.draft \in drafts' <=> l.draft # Nothing
    BY DEF Rows
  <2>3. QED
    BY <1>1, <2>1, <2>2
<1>3. {<<l, l.draft \in drafts'>> : l \in LayersOf(k)'} = {<<l, l.draft \in drafts>> : l \in LayersOf(k)}
  BY <1>2
<1>4. QED
  BY <1>3 DEF Outside, Live

\* A step that changes one map is a step of the abstract specification.
LEMMA OneMapChanges ==
  ASSUME Tables, Rows', NEW m \in Maps,
         \A k \in Maps \ {m} : /\ owner'[k] = owner[k] /\ revision'[k] = revision[k]
                               /\ LayersOf(k)' = LayersOf(k),
         \/ owner[m] = "unused" /\ Live(m)' /\ revision'[m] = 0
         \/ Live(m) /\ Live(m)' /\ revision'[m] = revision[m] + 1
         \/ Live(m) /\ owner'[m] = "deleted"
  PROVE  Abstract!Next
<1>1. \A k \in Maps \ {m} : Outside(k)' = Outside(k)
  BY OutsideStays
<1>2. \A k \in Maps : outside[k] = Outside(k) /\ outside'[k] = Outside(k)'
  BY DEF outside
<1>3. \A other \in Maps \ {m} : outside'[other] = outside[other]
  BY <1>1, <1>2
<1>4. /\ outside[m].life = IF Live(m) THEN "live" ELSE owner[m]
      /\ outside'[m].life = IF Live(m)' THEN "live" ELSE owner'[m]
      /\ outside[m].revision = revision[m] /\ outside'[m].revision = revision'[m]
  <2>1. /\ Outside(m).life = IF Live(m) THEN "live" ELSE owner[m]
        /\ Outside(m).revision = revision[m]
    BY DEF Outside
  <2>2. /\ Outside(m)'.life = IF Live(m)' THEN "live" ELSE owner'[m]
        /\ Outside(m)'.revision = revision'[m]
    BY DEF Outside
  <2>3. QED
    BY <1>2, <2>1, <2>2
<1>5. Abstract!Create(m) \/ Abstract!Change(m) \/ Abstract!Remove(m)
  BY <1>4 DEF Abstract!Create, Abstract!Change, Abstract!Remove, Live
<1>6. QED
  BY <1>3, <1>5 DEF Abstract!Next

\* The rows are the same: nothing happens outside.
LEMMA NothingChanges ==
  ASSUME UNCHANGED content
  PROVE  UNCHANGED outside
  BY DEF content, outside, Outside, Live, LayersOf

LEMMA ContentWriteOutside ==
  ASSUME Tables, NEW m \in Maps, TablesKept, ContentWrite(m)
  PROVE  Abstract!Next
<1>1. \A k \in Maps : revision'[k] = IF k = m THEN revision[k] + 1 ELSE revision[k]
  BY DEF ContentWrite, Tables, TypeOK
<1>2. \A k \in Maps : owner'[k] = owner[k] /\ (Live(k)' <=> Live(k))
  BY DEF ContentWrite, Live
<1>3. \A k \in Maps \ {m} : LayersOf(k)' = LayersOf(k)
  BY DEF ContentWrite
<1>4. Live(m) /\ Rows'
  BY DEF ContentWrite, TablesKept
<1>5. QED
  BY <1>1, <1>2, <1>3, <1>4, OneMapChanges

LEMMA CreatedOutside ==
  ASSUME Tables, Rows', NEW u \in Users, NEW m \in Maps,
         owner[m] = "unused", owner' = [owner EXCEPT ![m] = u], UNCHANGED revision,
         \A k \in Maps \ {m} : LayersOf(k)' = LayersOf(k)
  PROVE  Abstract!Next
<1>1. \A k \in Maps : owner'[k] = IF k = m THEN u ELSE owner[k]
  BY DEF Tables, TypeOK
<1>2. revision'[m] = 0 /\ \A k \in Maps : revision'[k] = revision[k]
  BY DEF Tables
<1>3. Live(m)'
  BY <1>1, PersonalMapsAssumption DEF Live
<1>4. QED
  BY <1>1, <1>2, <1>3, OneMapChanges

LEMMA WriteOutside ==
  ASSUME IInv, NEW t \in Tabs, WriteByTab(t)
  PROVE  Abstract!Next
<1>0. Tables /\ TypeOK /\ Placed
  BY DEF IInv, Tables
<1>1. \A l \in layers : l.map \in Maps
  BY <1>0, LayerFields DEF TypeOK
<1>2. ASSUME NEW m \in Maps, NEW kind \in Kinds, AddByTab(t, m, kind) PROVE Abstract!Next
  BY <1>0, <1>2, MayWriteLive, AddLayerStep, ContentWriteOutside DEF AddByTab
<1>3. ASSUME NEW m \in Maps, UpdateMap(t, m) PROVE Abstract!Next
  <2>1. Live(m)
    BY <1>3, MayWriteLive DEF UpdateMap
  <2>2. QED
    BY <1>0, <1>3, <2>1, UpdateMapStep, ContentWriteOutside
<1>4. ASSUME NEW m \in Maps, RemoveMap(t, m) PROVE Abstract!Next
  <2>1. /\ TablesKept /\ owner' = [owner EXCEPT ![m] = "deleted"] /\ UNCHANGED revision
        /\ \A k \in Maps \ {m} : LayersOf(k)' = LayersOf(k)
    BY <1>0, <1>4, RemoveMapStep
  <2>2. \A k \in Maps : owner'[k] = IF k = m THEN "deleted" ELSE owner[k]
    BY <1>0, <2>1 DEF TypeOK
  <2>3. Live(m)
    BY <1>4, MayWriteLive DEF RemoveMap
  <2>4. QED
    BY <1>0, <2>1, <2>2, <2>3, OneMapChanges DEF TablesKept
<1>5. ASSUME NEW l \in layers, ChangeLayer(t, l) PROVE Abstract!Next
  BY <1>0, <1>1, <1>5, ChangeLayerStep, ContentWriteOutside
<1>6. ASSUME NEW l \in layers, NEW position \in 0 .. Cardinality(Layers), MoveLayer(t, l, position)
      PROVE  Abstract!Next
  BY <1>0, <1>1, <1>6, MoveLayerStep, ContentWriteOutside
<1>7. ASSUME NEW l \in layers, RemoveLayer(t, l) PROVE Abstract!Next
  BY <1>0, <1>1, <1>7, RemoveLayerStep, ContentWriteOutside
<1>8. QED
  BY <1>2, <1>3, <1>4, <1>5, <1>6, <1>7 DEF WriteByTab

LEMMA NextOutside ==
  ASSUME IInv, IInv', [Next]_vars
  PROVE  [Abstract!Next]_outside
<1>0. Tables /\ TypeOK /\ Placed
  BY DEF IInv, Tables
<1>1. Rows'
  BY DEF IInv, Tables
<1>2. CASE UNCHANGED content
  BY <1>2, NothingChanges
<1>3. ASSUME NEW t \in Tabs, WriteByTab(t) PROVE Abstract!Next
  BY <1>3, WriteOutside
<1>4. ASSUME NEW m \in Maps, NEW kind \in Kinds, Import(m, kind) PROVE Abstract!Next
  BY <1>0, <1>4, AddLayerStep, ContentWriteOutside DEF Import
<1>5. ASSUME NEW u \in Users, NEW m \in Maps, Create(u, m) PROVE Abstract!Next
  <2>1. \A k \in Maps : LayersOf(k)' = LayersOf(k)
    BY <1>5 DEF Create, LayersOf
  <2>2. QED
    BY <1>0, <1>1, <1>5, <2>1, CreatedOutside DEF Create
<1>6. ASSUME NEW u \in Users, NEW m \in Maps, NEW copy \in Maps,
             NEW skipped \in SUBSET {l \in LayersOf(m) : l.kind = "raster"}, Copy(u, m, copy, skipped)
      PROVE  Abstract!Next
  <2>1. skipped \in SUBSET LayersOf(m)
    OBVIOUS
  <2>2. QED
    BY <1>0, <1>1, <1>6, <2>1, CopyStep, CreatedOutside
<1>7. ASSUME ~ UNCHANGED content
      PROVE  \/ \E t \in Tabs : WriteByTab(t)
             \/ \E m \in Maps, kind \in Kinds : Import(m, kind)
             \/ \E u \in Users : \/ \E m \in Maps : Create(u, m)
                                 \/ \E m, copy \in Maps :
                                      \E skipped \in SUBSET {l \in LayersOf(m) : l.kind = "raster"} :
                                         Copy(u, m, copy, skipped)
  <2>1. UNCHANGED vars => UNCHANGED content
    BY DEF vars, content
  <2>2. \A t \in Tabs : (\E m \in Maps : BeginRead(t, m)) \/ ReadSummary(t) \/ Refused(t) \/ ReadLayers(t)
          => UNCHANGED content
    BY DEF BeginRead, ReadSummary, Refused, ReadLayers
  <2>3. \A u \in Users : \/ \E m \in Maps, member \in DOMAIN Members : Share(u, m, member)
                         \/ \E s \in shares : Unshare(u, s)
          => UNCHANGED content
    BY DEF Share, Unshare
  <2>4. QED
    BY <1>7, <2>1, <2>2, <2>3 DEF Next
<1>8. QED
  BY <1>2, <1>3, <1>4, <1>5, <1>6, <1>7

(* The personal maps keep what RevisionedMaps promises: every step changes one map only, a map that stays
   moves on by one revision, and one that is gone does not come back. *)
THEOREM MapsAreRevisioned == Spec => ImplementsRevisionedMaps
<1>1. Init => Abstract!Init
  BY DEF Init, Abstract!Init, outside, Outside, Live
<1>2. QED
  BY <1>1, NextOutside, MapsInvariant, PTL DEF Spec, ImplementsRevisionedMaps, Abstract!Spec

-----------------------------------------------------------------------------
(***************************************************************************)
(* The client's side of the same revision: one tab (MapEditing), whose     *)
(* writes carry the revision it last read, for any number of choices,      *)
(* forms and writes of other tabs.                                         *)
(***************************************************************************)
\* What is saved, requested, running, cached and read.
Saved == [kind : {"style", "feature"}, value : Nat]
Request == [kind : {"style", "feature"}, value : Nat, expected : Nat]
Running == [request : Request, stage : Stages, revision : Nat]
Cached == [revision : Nat, style : Nat]
ViewRead == [current : BOOLEAN, value : Nat \cup {Null}]

ServerType == [revision : Nat, style : Nat, feature : Nat, gone : BOOLEAN]


\* The type invariant of the tab.
TabTypeOK ==
    /\ server \in ServerType
    /\ cached \in Cached \cup {Null} /\ get \in Cached \cup {Null, Sent}
    /\ pending \in Nat \cup {Null}
    /\ queue \in Seq(Saved) /\ writing \in Running \cup {Null} /\ lost \subseteq Request
    /\ shown \in Nat \cup {Null} /\ form \in Nat \cup {Null} /\ reads \subseteq ViewRead
    /\ chosen \in Nat /\ ownSave \in Nat /\ settled \subseteq Nat /\ applied \subseteq Nat

\* Constants
\* What the proofs need of the constants: "no value" is neither a number nor a running write.
TabConstants == Null \notin Nat /\ Null \notin Running

LEMMA TabNull == TabConstants
  BY MapEditingAssumption, Zenon DEF TabConstants, Running, Request

\* The server's record, field by field.
LEMMA ServerRecords ==
    ASSUME server \in ServerType, NEW r \in Nat, NEW v \in Nat
    PROVE  /\ [server EXCEPT !.revision = r, !.style = v] \in ServerType
           /\ [server EXCEPT !.revision = r, !.style = v].revision = r
           /\ [server EXCEPT !.revision = r, !.style = v].feature = server.feature
           /\ [server EXCEPT !.revision = r, !.feature = v] \in ServerType
           /\ [server EXCEPT !.revision = r, !.feature = v].revision = r
           /\ [server EXCEPT !.revision = r, !.feature = v].feature = v
           /\ [server EXCEPT !.gone = TRUE] \in ServerType
           /\ [server EXCEPT !.gone = TRUE].revision = server.revision
           /\ [server EXCEPT !.gone = TRUE].feature = server.feature
<1>1. [server EXCEPT !.gone = TRUE] \in ServerType
  BY Zenon DEF ServerType
<1> QED
  BY <1>1 DEF ServerType

\* A request that is taken.
LEMMA ServerTakes ==
    ASSUME server \in ServerType, NEW request \in Request, Applies(request)
    PROVE  /\ server' \in ServerType
           /\ server'.revision = server.revision + 1
           /\ server'.feature = IF request.kind = "feature" THEN server.revision + 1 ELSE server.feature
           /\ applied' = IF request.kind = "style" THEN applied \cup {request.value} ELSE applied
<1>1. server.revision + 1 \in Nat /\ request.value \in Nat /\ request.kind \in {"style", "feature"}
  BY DEF ServerType, Request
<1>2. CASE request.kind = "style"
  <2>1. /\ server' = [server EXCEPT !.revision = server.revision + 1, !.style = request.value]
        /\ applied' = applied \cup {request.value}
    BY <1>2, Zenon DEF Applies
  <2> QED
    BY <1>1, <1>2, <2>1, ServerRecords, Zenon
<1>3. CASE request.kind = "feature"
  <2>1. /\ server' = [server EXCEPT !.revision = server.revision + 1, !.feature = server.revision + 1]
        /\ applied' = applied
    BY <1>3 DEF Applies
  <2>2. server' \in ServerType /\ server'.revision = server.revision + 1 /\ server'.feature = server.revision + 1
    BY <1>1, <2>1, ServerRecords, Zenon
  <2> QED
    BY <1>3, <2>1, <2>2
<1> QED
  BY <1>1, <1>2, <1>3

\* Another tab's write, or its removal of the map.
LEMMA ServerElsewhere ==
    ASSUME server \in ServerType, Elsewhere
    PROVE  /\ server' \in ServerType
           /\ server'.revision \in {server.revision, server.revision + 1}
           /\ \/ server'.feature = server.feature
              \/ server'.feature = server.revision + 1 /\ server'.revision = server.revision + 1
           /\ UNCHANGED applied
<1>1. server.revision + 1 \in Nat /\ 0 \in Nat
  BY DEF ServerType
<1>2. /\ \/ server' = [server EXCEPT !.revision = server.revision + 1, !.feature = server.revision + 1]
         \/ server' = [server EXCEPT !.revision = server.revision + 1, !.style = 0]
         \/ server' = [server EXCEPT !.gone = TRUE]
      /\ UNCHANGED applied
  BY Zenon DEF Elsewhere
<1>3. CASE server' = [server EXCEPT !.revision = server.revision + 1, !.feature = server.revision + 1]
  BY <1>1, <1>2, <1>3, ServerRecords, Zenon
<1>4. CASE server' = [server EXCEPT !.revision = server.revision + 1, !.style = 0]
  BY <1>1, <1>2, <1>4, ServerRecords, Zenon
<1>5. CASE server' = [server EXCEPT !.gone = TRUE]
  BY <1>1, <1>2, <1>5, ServerRecords, Zenon
<1> QED
  BY <1>2, <1>3, <1>4, <1>5, Zenon

\* A read that is sent, and one that is dropped.
LEMMA ReadTypes ==
    /\ [current |-> TRUE, value |-> Null] \in ViewRead
    /\ \A r \in ViewRead : [r EXCEPT !.current = FALSE] \in ViewRead
  BY Zenon DEF ViewRead

\* A write that begins to run, from the queue or after the read of the detail.
LEMMA QueueStarts ==
    ASSUME TabTypeOK, StartWrite
    PROVE  /\ writing = Null /\ queue # <<>> /\ queue' = Tail(queue) /\ Head(queue) \in Saved
           /\ writing' \in Running /\ writing'.revision = 0
           /\ writing'.request.kind = Head(queue).kind /\ writing'.request.value = Head(queue).value
           /\ \/ writing'.stage = "reading"
              \/ writing'.stage = "sent" /\ cached # Null /\ writing'.request.expected = cached.revision
           /\ get' \in {get, Sent}
<1>1. writing = Null /\ queue \in Seq(Saved) /\ queue # <<>> /\ queue' = Tail(queue)
  BY DEF StartWrite, Some, TabTypeOK
<1>2. Head(queue) \in Saved
  BY <1>1
<1>3. Head(queue).kind \in {"style", "feature"} /\ Head(queue).value \in Nat
  BY <1>2 DEF Saved
<1>4. "sent" \in Stages /\ "reading" \in Stages /\ 0 \in Nat
  BY DEF Stages
<1>5. cached # Null => cached.revision \in Nat
  BY DEF TabTypeOK, Cached
<1>6. CASE cached # Null
  <2>1. Runs(Head(queue), "sent", cached.revision) /\ get' = get
    BY <1>6, Zenon DEF StartWrite, Some
  <2>2. cached.revision \in Nat
    BY <1>5, <1>6
  <2>3. writing' = [request |-> [kind |-> Head(queue).kind, value |-> Head(queue).value, expected |-> cached.revision], stage |-> "sent", revision |-> 0]
    BY <2>1, Zenon DEF Runs
  <2> QED
    BY <1>1, <1>2, <1>3, <1>4, <1>6, <2>1, <2>2, <2>3 DEF Running, Request
<1>7. CASE cached = Null
  <2>1. Runs(Head(queue), "reading", 0) /\ get' = IF Some(get) THEN get ELSE Sent
    BY <1>7, Zenon DEF StartWrite, Some
  <2>2. writing' = [request |-> [kind |-> Head(queue).kind, value |-> Head(queue).value, expected |-> 0], stage |-> "reading", revision |-> 0]
    BY <2>1, Zenon DEF Runs
  <2> QED
    BY <1>1, <1>2, <1>3, <1>4, <1>7, <2>1, <2>2 DEF Some, Running, Request
<1> QED
  BY <1>6, <1>7

\* A write that waited for the detail: sent, or ended.
LEMMA WriteGoesOn ==
    ASSUME TabTypeOK, ReadFirst
    PROVE  /\ writing \in Running /\ writing.stage = "read"
           /\ \/ /\ writing' \in Running /\ writing'.revision = 0 /\ writing'.stage = "sent"
                 /\ writing'.request.kind = writing.request.kind
                 /\ writing'.request.value = writing.request.value
                 /\ cached # Null /\ writing'.request.expected = cached.revision
                 /\ UNCHANGED settled
              \/ writing' = Null /\ Settle(writing.request)
<1>1. writing \in Running /\ writing.stage = "read"
  BY DEF ReadFirst, Some, TabTypeOK
<1>2. writing.request.kind \in {"style", "feature"} /\ writing.request.value \in Nat
  BY <1>1 DEF Running, Request
<1>3. CASE cached # Null
  <2>1. Runs(writing.request, "sent", cached.revision) /\ UNCHANGED settled
    BY <1>3, Zenon DEF ReadFirst, Some
  <2>2. cached.revision \in Nat /\ "sent" \in Stages
    BY <1>3 DEF TabTypeOK, Cached, Stages
  <2>3. writing' = [request |-> [kind |-> writing.request.kind, value |-> writing.request.value, expected |-> cached.revision], stage |-> "sent", revision |-> 0]
    BY <2>1, Zenon DEF Runs
  <2> QED
    BY <1>1, <1>2, <1>3, <2>1, <2>2, <2>3 DEF Running, Request
<1>4. CASE cached = Null
  BY <1>1, <1>4, Zenon DEF ReadFirst, Some
<1> QED
  BY <1>3, <1>4

LEMMA TabTypes == ASSUME TabConstants, TabTypeOK, TabNext PROVE TabTypeOK'
<1> USE DEF sending, viewing, styles, Some, TabConstants
<1>1. CASE Elsewhere
  BY <1>1, ServerElsewhere DEF Elsewhere, TabTypeOK
<1>2. CASE SendGet
  BY <1>2 DEF SendGet, TabTypeOK
<1>3. CASE AnswerGet
  <2>1. server.revision \in Nat /\ server.style \in Nat
    BY DEF TabTypeOK, ServerType
  <2> QED
    BY <1>3, <2>1 DEF AnswerGet, TabTypeOK, Cached
<1>5. CASE DeliverGet
  BY <1>5 DEF DeliverGet, GetEnds, Stages, TabTypeOK, Running
<1>6. CASE GetFails
  BY <1>6 DEF GetFails, GetEnds, Stages, TabTypeOK, Running
<1>7. CASE GetGone
  BY <1>7 DEF GetGone, Forget, GetEnds, Stages, TabTypeOK, Running
<1>8. CASE ChangeStyle
  BY <1>8 DEF ChangeStyle, TabTypeOK, Cached
<1>9. CASE SaveStyle
  BY <1>9 DEF SaveStyle, TabTypeOK, Saved
<1>10. CASE StartWrite
  <2>1. queue' \in Seq(Saved)
    BY <1>10, QueueStarts DEF TabTypeOK
  <2> QED
    BY <1>10, <2>1, QueueStarts DEF StartWrite, TabTypeOK
<1>11. CASE ReadFirst
  <2>1. writing.request.kind \in {"style", "feature"} /\ writing.request.value \in Nat
    BY <1>11 DEF ReadFirst, TabTypeOK, Running, Request
  <2>4. writing' \in Running \cup {Null}
    BY <1>11, WriteGoesOn
  <2>5. settled' \subseteq Nat
    BY <1>11, <2>1 DEF ReadFirst, Settle, TabTypeOK
  <2> QED
    BY <1>11, <2>4, <2>5 DEF ReadFirst, TabTypeOK
<1>12. CASE Answered
  <2>1. writing \in Running /\ writing.request \in Request /\ writing.request.value \in Nat
    BY <1>12 DEF Answered, TabTypeOK, Running, Request
  <2>2. CASE Accepts(writing.request)
    <3>1. /\ writing' = [writing EXCEPT !.stage = "done", !.revision = server.revision + 1]
          /\ Applies(writing.request)
      BY <1>12, <2>2, Zenon DEF Answered
    <3>2. server.revision + 1 \in Nat
      BY DEF TabTypeOK, ServerType
    <3>3. writing' \in Running
      BY <2>1, <3>1, <3>2 DEF Running, Stages
    <3>4. server' \in ServerType /\ applied' \subseteq Nat
      BY <2>1, <3>1, ServerTakes DEF TabTypeOK
    <3> QED
      BY <1>12, <3>3, <3>4 DEF Answered, TabTypeOK
  <2>3. CASE ~ Accepts(writing.request)
    BY <1>12, <2>1, <2>3 DEF Answered, Stages, TabTypeOK, Running
  <2> QED
    BY <2>2, <2>3
<1>13. CASE LoseAnswer
  BY <1>13 DEF LoseAnswer, Settle, Reapplied, TabTypeOK, Running, Request, Cached
<1>14. CASE MoveRevision
  BY <1>14 DEF MoveRevision, Reread, Stages, TabTypeOK, Running, Request, Cached
<1>15. CASE StyleSaved
  BY <1>15 DEF StyleSaved, Reapplied, Settle, TabTypeOK, Running, Request, Cached
<1>16. CASE MapChanged
  BY <1>16 DEF MapChanged, Reread, Stages, TabTypeOK, Running
<1>17. CASE WriteEnds
  <2>1. /\ writing.revision \in Nat /\ writing.request.value \in Nat
        /\ writing' = Null
    BY <1>17 DEF WriteEnds, TabTypeOK, Running, Request
  <2>2. cached' \in Cached \cup {Null}
    BY <1>17 DEF WriteEnds, Reapplied, TabTypeOK, Cached
  <2>3. CASE writing.revision = 0
    BY <1>17, <2>1, <2>2, <2>3 DEF WriteEnds, Settle, TabTypeOK
  <2>4. CASE writing.revision # 0
    <3>1. shown' = Null /\ ownSave' = writing.revision /\ form' \in {form, writing.revision}
      BY <1>17, <2>4 DEF WriteEnds, RefreshLayer
    <3>2. reads' = {[r EXCEPT !.current = FALSE] : r \in reads} \cup {[current |-> TRUE, value |-> Null]}
      BY <1>17, <2>4 DEF WriteEnds, RefreshLayer
    <3>3. reads' \subseteq ViewRead
      BY <3>2, ReadTypes DEF TabTypeOK
    <3> QED
      BY <1>17, <2>1, <2>2, <2>4, <3>1, <3>3 DEF WriteEnds, TabTypeOK
  <2> QED
    BY <2>3, <2>4
<1>18. CASE WriteGone
  BY <1>18 DEF WriteGone, Forget, Settle, TabTypeOK, Running, Request
<1>19. ASSUME NEW request \in lost, Late(request) PROVE TabTypeOK'
  <2>1. request \in Request /\ request.value \in Nat
    BY <1>19 DEF TabTypeOK, Request
  <2>2. server' \in ServerType /\ applied' \subseteq Nat
    BY <1>19, <2>1, ServerTakes DEF Late, TabTypeOK
  <2> QED
    BY <1>19, <2>2 DEF Late, TabTypeOK
<1>20. CASE SendRead
  BY <1>20, ReadTypes DEF SendRead, TabTypeOK
<1>21. ASSUME NEW r \in reads, AnswerRead(r) PROVE TabTypeOK'
  BY <1>21 DEF AnswerRead, TabTypeOK, ViewRead, ServerType
<1>22. ASSUME NEW r \in reads, DeliverRead(r) PROVE TabTypeOK'
  BY <1>22 DEF DeliverRead, TabTypeOK, ViewRead
<1>23. CASE OpenForm \/ LeaveForm
  BY <1>23 DEF OpenForm, LeaveForm, TabTypeOK
<1>24. CASE SaveForm
  BY <1>24 DEF SaveForm, TabTypeOK, Saved
<1> QED
  BY <1>1, <1>2, <1>3, <1>5, <1>6, <1>7, <1>8, <1>9, <1>10, <1>11, <1>12, <1>13, <1>14, <1>15, <1>16, <1>17,
     <1>18, <1>19, <1>20, <1>21, <1>22, <1>23, <1>24 DEF TabNext

\* An answer that the running write has: where it can be, and what the server was at.
TabAnswer ==
    writing # Null /\ writing.revision # 0 =>
       /\ writing.revision <= server.revision
       /\ writing.request.kind = "feature" => writing.revision <= server.feature
       /\ writing.stage \in {"done", "listing", "rereading", "reread"}
       /\ writing.stage \in {"rereading", "reread"} => writing.request.kind = "feature"

\* What the client knows to be saved is on the server, and no copy it would show is older.
TabFeatures ==
    /\ server.feature <= server.revision /\ ownSave <= server.feature
    /\ \A r \in reads : r.current = TRUE /\ r.value # Null => r.value >= ownSave
    /\ shown # Null => shown >= ownSave
    /\ form # Null => form >= ownSave

\* No revision the client holds is ahead of the server's.
TabRevisions ==
    /\ cached # Null => cached.revision <= server.revision
    /\ get \notin {Null, Sent} => get.revision <= server.revision

\* The server only moves on, and a choice is applied only with a new revision.
LEMMA ServerMoves ==
    ASSUME TabTypeOK, server.feature <= server.revision, TabNext
    PROVE  /\ server'.revision >= server.revision /\ server'.feature >= server.feature
           /\ server'.feature <= server'.revision
           /\ server'.revision = server.revision => applied' = applied
<1> USE DEF sending, viewing, styles
<1>1. server.revision \in Nat /\ server.feature \in Nat
  BY DEF TabTypeOK, ServerType
<1>2. ASSUME NEW request \in Request, Applies(request)
      PROVE  /\ server'.revision = server.revision + 1
             /\ server'.feature \in {server.feature, server.revision + 1}
  BY <1>2, ServerTakes DEF TabTypeOK
<1>3. CASE UNCHANGED <<server, applied>>
  BY <1>1, <1>3
<1>4. CASE Elsewhere
  BY <1>1, <1>4, ServerElsewhere DEF TabTypeOK
<1>5. CASE Answered
  <2>1. writing.request \in Request
    BY <1>5 DEF Answered, Some, TabTypeOK, Running
  <2>2. Applies(writing.request) \/ UNCHANGED <<server, applied>>
    BY <1>5, Zenon DEF Answered
  <2> QED
    BY <1>1, <1>2, <1>3, <2>1, <2>2
<1>6. ASSUME NEW request \in lost, Late(request)
      PROVE  Applies(request) \/ UNCHANGED <<server, applied>>
  BY <1>6, Zenon DEF Late
<1>7. ASSUME NEW request \in lost, Late(request)
      PROVE  \/ server'.revision = server.revision + 1 /\ server'.feature \in {server.feature, server.revision + 1}
             \/ UNCHANGED <<server, applied>>
  BY <1>2, <1>6, <1>7 DEF TabTypeOK
<1>8. CASE \E request \in lost : Late(request)
  BY <1>1, <1>3, <1>7, <1>8
<1>9. Elsewhere \/ Answered \/ (\E request \in lost : Late(request)) \/ UNCHANGED <<server, applied>>
  BY Zenon DEF TabNext, SendGet, AnswerGet, DeliverGet, GetFails, GetGone, ChangeStyle,
     SaveStyle, StartWrite, ReadFirst, LoseAnswer, MoveRevision, StyleSaved, MapChanged,
     WriteEnds, WriteGone, SendRead, AnswerRead, DeliverRead, OpenForm, LeaveForm,
     SaveForm
<1> QED
  BY <1>3, <1>4, <1>5, <1>8, <1>9

\* The answer of the running write, the features, the revisions: one step each.
LEMMA TabAnswers ==
    ASSUME TabConstants, TabTypeOK, TabAnswer, TabFeatures, TabNext
    PROVE  TabAnswer'
<1> USE DEF sending, viewing, styles, Some, TabConstants
<1>1. /\ server.revision \in Nat /\ server.feature \in Nat
      /\ server'.revision \in Nat /\ server'.feature \in Nat
      /\ server'.revision >= server.revision /\ server'.feature >= server.feature
  BY TabTypes, ServerMoves DEF TabTypeOK, TabFeatures, ServerType
<1>2. writing # Null => writing \in Running /\ writing.revision \in Nat /\ writing.request \in Request
  BY DEF TabTypeOK, Running
<1>3. CASE UNCHANGED writing
  BY <1>1, <1>2, <1>3 DEF TabAnswer
<1>4. CASE writing' = Null
  BY <1>4 DEF TabAnswer
<1>5. CASE GetEnds
  BY <1>1, <1>2, <1>5 DEF GetEnds, TabAnswer, Running, Request
<1>6. CASE StartWrite
  BY <1>6, QueueStarts DEF TabAnswer
<1>7. CASE ReadFirst
  BY <1>7, WriteGoesOn DEF TabAnswer
<1>8. CASE Answered
  <2>1. CASE Accepts(writing.request)
    <3>1. /\ writing \in Running /\ Applies(writing.request)
          /\ writing' = [writing EXCEPT !.stage = "done", !.revision = server.revision + 1]
      BY <1>2, <1>8, <2>1, Zenon DEF Answered
    <3>2. /\ server'.revision = server.revision + 1
          /\ writing.request.kind = "feature" => server'.feature = server.revision + 1
      BY <1>2, <3>1, ServerTakes DEF TabTypeOK, Running
    <3> QED
      BY <1>1, <3>1, <3>2 DEF TabAnswer, Running
  <2>2. CASE ~ Accepts(writing.request)
    <3>1. /\ writing \in Running /\ writing.stage = "sent"
          /\ writing' = [writing EXCEPT !.stage = IF server.gone THEN "gone" ELSE "refused"]
      BY <1>2, <1>8, <2>2, Zenon DEF Answered
    <3> QED
      BY <1>1, <1>2, <3>1 DEF TabAnswer, Running
  <2> QED
    BY <2>1, <2>2
<1>9. CASE MoveRevision
  <2>1. writing \in Running /\ writing.request.kind \in {"style", "feature"} /\ UNCHANGED server
    BY <1>2, <1>9 DEF MoveRevision, Running, Request
  <2>2. writing' = [writing EXCEPT !.stage = IF writing.request.kind = "style" THEN "listing" ELSE "rereading"]
    BY <1>9 DEF MoveRevision, Reread
  <2> QED
    BY <1>9, <2>1, <2>2 DEF TabAnswer, Running
<1>10. CASE MapChanged
  BY <1>2, <1>10 DEF MapChanged, Reread, TabAnswer, Running
<1> QED
  <2>1. \/ UNCHANGED writing \/ writing' = Null \/ GetEnds \/ StartWrite \/ ReadFirst
        \/ Answered \/ MoveRevision \/ MapChanged
    BY Zenon DEF TabNext, Elsewhere, SendGet, AnswerGet, DeliverGet, GetFails, GetGone,
       ChangeStyle, SaveStyle, LoseAnswer, StyleSaved, WriteEnds, WriteGone, Late,
       SendRead, AnswerRead, DeliverRead, OpenForm, LeaveForm, SaveForm
  <2> QED
    BY <1>3, <1>4, <1>5, <1>6, <1>7, <1>8, <1>9, <1>10, <2>1

LEMMA TabFeaturesKept ==
    ASSUME TabConstants, TabTypeOK, TabAnswer, TabFeatures, TabNext
    PROVE  TabFeatures'
<1> USE DEF sending, viewing, styles, Some, TabConstants
<1>1. /\ server.feature \in Nat /\ server'.feature \in Nat /\ ownSave \in Nat
      /\ server'.feature >= server.feature /\ server'.feature <= server'.revision
      /\ ownSave <= server.feature
  BY TabTypes, ServerMoves DEF TabTypeOK, TabFeatures, ServerType
<1>2. CASE UNCHANGED viewing
  BY <1>1, <1>2 DEF TabFeatures
<1>3. CASE Forget
  BY <1>1, <1>3 DEF Forget, TabFeatures
<1>4. CASE WriteEnds
  <2>1. CASE writing.revision = 0
    BY <1>2, <1>4, <2>1 DEF WriteEnds
  <2>2. CASE writing.revision # 0
    <3>1. /\ writing \in Running /\ writing.revision \in Nat
          /\ UNCHANGED server /\ writing.revision <= server.feature
      BY <1>4, <2>2 DEF WriteEnds, TabAnswer, TabTypeOK, Running
    <3>2. shown' = Null /\ ownSave' = writing.revision /\ form' \in {Null, writing.revision}
      BY <1>4, <2>2 DEF WriteEnds, RefreshLayer
    <3>3. reads' = {[r EXCEPT !.current = FALSE] : r \in reads} \cup {[current |-> TRUE, value |-> Null]}
      BY <1>4, <2>2 DEF WriteEnds, RefreshLayer
    <3>4. ASSUME NEW r \in reads', r.current = TRUE PROVE r.value = Null
      <4>1. ASSUME NEW q \in reads, r = [q EXCEPT !.current = FALSE] PROVE FALSE
        BY <3>4, <4>1 DEF TabTypeOK, ViewRead
      <4> QED
        BY <3>3, <4>1
    <3>5. \A r \in reads' : ~ (r.current = TRUE /\ r.value # Null)
      BY <3>4, Zenon
    <3>6. ownSave' <= server'.feature /\ (form' # Null => form' >= ownSave')
      BY <3>1, <3>2
    <3> QED
      BY <1>1, <3>2, <3>5, <3>6, Zenon DEF TabFeatures
  <2> QED
    BY <2>1, <2>2
<1>5. CASE SendRead
  BY <1>1, <1>5 DEF SendRead, TabFeatures
<1>6. ASSUME NEW r \in reads, AnswerRead(r) PROVE TabFeatures'
  <2>1. reads' = (reads \ {r}) \cup {[r EXCEPT !.value = server.feature]} /\ r \in ViewRead
    BY <1>6 DEF AnswerRead, TabTypeOK
  <2>2. [r EXCEPT !.value = server.feature].value = server.feature
    BY <2>1 DEF ViewRead
  <2>3. UNCHANGED <<server, shown, form, ownSave>>
    BY <1>6 DEF AnswerRead
  <2> QED
    BY <1>1, <2>1, <2>2, <2>3 DEF TabFeatures
<1>7. ASSUME NEW r \in reads, DeliverRead(r) PROVE TabFeatures'
  <2>1. r \in ViewRead /\ r.value # Null /\ reads' = reads \ {r} /\ UNCHANGED <<server, form, ownSave>>
    BY <1>7 DEF DeliverRead, TabTypeOK
  <2>2. r.current \in BOOLEAN
    BY <2>1 DEF ViewRead
  <2>3. shown' = shown \/ (r.current = TRUE /\ shown' = r.value)
    BY <1>7, <2>2, Zenon DEF DeliverRead
  <2> QED
    BY <1>1, <2>1, <2>3 DEF TabFeatures
<1>8. CASE OpenForm \/ LeaveForm \/ SaveForm
  BY <1>1, <1>8 DEF OpenForm, LeaveForm, SaveForm, TabFeatures
<1> QED
  <2>1. \/ UNCHANGED viewing \/ Forget \/ WriteEnds \/ SendRead
        \/ (\E r \in reads : AnswerRead(r) \/ DeliverRead(r))
        \/ OpenForm \/ LeaveForm \/ SaveForm
    BY Zenon DEF TabNext, Elsewhere, SendGet, AnswerGet, DeliverGet, GetFails, GetGone,
       ChangeStyle, SaveStyle, StartWrite, ReadFirst, Answered, LoseAnswer, MoveRevision,
       StyleSaved, MapChanged, WriteGone, Late
  <2> QED
    BY <1>2, <1>3, <1>4, <1>5, <1>6, <1>7, <1>8, <2>1

LEMMA TabRevisionsKept ==
    ASSUME TabConstants, TabTypeOK, TabAnswer, TabFeatures, TabRevisions, TabNext
    PROVE  TabRevisions'
<1> USE DEF sending, viewing, styles, Some, TabConstants
<1>1. /\ server.revision \in Nat /\ server'.revision \in Nat /\ server'.revision >= server.revision
      /\ cached # Null => cached \in Cached /\ cached.revision \in Nat
      /\ get \notin {Null, Sent} => get \in Cached /\ get.revision \in Nat
  BY TabTypes, ServerMoves DEF TabTypeOK, TabFeatures, ServerType, Cached
<1>2. cached' # Null => cached'.revision <= server'.revision
  <2>1. CASE cached' \in {cached, Null}
    BY <1>1, <2>1 DEF TabRevisions
  <2>2. CASE DeliverGet
    BY <1>1, <2>2 DEF DeliverGet, TabRevisions
  <2>3. CASE ChangeStyle
    BY <1>1, <2>3 DEF ChangeStyle, TabRevisions, Cached
  <2>4. CASE cached' = Reapplied(cached)
    BY <1>1, <2>4 DEF Reapplied, TabRevisions, Cached
  <2>5. CASE MoveRevision
    BY <1>1, <2>5 DEF MoveRevision, TabAnswer, TabRevisions, Cached
  <2>6. CASE StyleSaved
    BY <1>1, <2>6 DEF StyleSaved, Reapplied, TabRevisions, Cached
  <2>7. \/ cached' \in {cached, Null} \/ DeliverGet \/ ChangeStyle
        \/ cached' = Reapplied(cached) \/ MoveRevision \/ StyleSaved
    BY Zenon DEF TabNext, Elsewhere, SendGet, AnswerGet, GetFails, GetGone, Forget,
       SaveStyle, StartWrite, ReadFirst, Answered, LoseAnswer, MapChanged, WriteEnds,
       WriteGone, Late, SendRead, AnswerRead, DeliverRead, OpenForm, LeaveForm,
       SaveForm
  <2> QED
    BY <2>1, <2>2, <2>3, <2>4, <2>5, <2>6, <2>7
<1>3. get' \notin {Null, Sent} => get'.revision <= server'.revision
  <2>1. CASE get' \in {get, Null, Sent}
    BY <1>1, <2>1 DEF TabRevisions
  <2>2. CASE AnswerGet
    BY <1>1, <2>2 DEF AnswerGet
  <2>3. CASE StartWrite
    BY <1>1, <2>1, <2>3, QueueStarts
  <2>4. get' \in {get, Null, Sent} \/ AnswerGet \/ StartWrite
    BY Zenon DEF TabNext, Elsewhere, SendGet, GetEnds, DeliverGet, GetFails, GetGone,
       ChangeStyle, SaveStyle, ReadFirst, Answered, LoseAnswer, MoveRevision, Reread,
       StyleSaved, MapChanged, WriteEnds, WriteGone, Late, SendRead, AnswerRead,
       DeliverRead, OpenForm, LeaveForm, SaveForm
  <2> QED
    BY <2>1, <2>2, <2>3, <2>4
<1> QED
  BY <1>2, <1>3 DEF TabRevisions

\* The style choices in a queue, and that they stand in order.
Queued(q) == {q[i].value : i \in {j \in DOMAIN q : q[j].kind = "style"}}
Increasing(q) ==
    \A i, j \in DOMAIN q : i < j /\ q[i].kind = "style" /\ q[j].kind = "style" => q[i].value < q[j].value

LEMMA QueueTail ==
    ASSUME NEW q \in Seq(Saved), q # <<>>, Increasing(q)
    PROVE  /\ Queued(Tail(q)) \subseteq Queued(q) /\ Increasing(Tail(q))
           /\ Head(q).kind = "style" => /\ Head(q).value \in Queued(q)
                                        /\ \A m \in Queued(Tail(q)) : Head(q).value < m
           /\ \A m \in Queued(q) : m \in Queued(Tail(q)) \/ (Head(q).kind = "style" /\ Head(q).value = m)
<1>1. /\ DOMAIN Tail(q) = 1 .. (Len(q) - 1) /\ DOMAIN q = 1 .. Len(q) /\ Len(q) \in Nat /\ Len(q) # 0
      /\ Head(q) = q[1] /\ \A i \in DOMAIN Tail(q) : Tail(q)[i] = q[i + 1] /\ i + 1 \in DOMAIN q /\ 1 < i + 1
  OBVIOUS
<1>2. 1 \in DOMAIN q
  BY <1>1
<1>3. Increasing(Tail(q))
  BY <1>1 DEF Increasing
<1>4. Queued(Tail(q)) \subseteq Queued(q)
  BY <1>1, Zenon DEF Queued
<1>5. Head(q).kind = "style" => Head(q).value \in Queued(q)
  BY <1>1, <1>2, Zenon DEF Queued
<1>6. ASSUME Head(q).kind = "style", NEW m \in Queued(Tail(q)) PROVE Head(q).value < m
  <2>1. PICK i \in DOMAIN Tail(q) : Tail(q)[i].kind = "style" /\ Tail(q)[i].value = m
    BY <1>6, Zenon DEF Queued
  <2> QED
    BY <1>1, <1>2, <1>6, <2>1 DEF Increasing
<1>7. ASSUME NEW m \in Queued(q)
      PROVE  m \in Queued(Tail(q)) \/ (Head(q).kind = "style" /\ Head(q).value = m)
  <2>1. PICK i \in DOMAIN q : q[i].kind = "style" /\ q[i].value = m
    BY <1>7, Zenon DEF Queued
  <2>2. CASE i = 1
    BY <1>1, <2>1, <2>2
  <2>3. CASE i # 1
    <3>1. i - 1 \in DOMAIN Tail(q) /\ Tail(q)[i - 1] = q[i]
      BY <1>1, <2>3
    <3> QED
      BY <2>1, <3>1, Zenon DEF Queued
  <2> QED
    BY <2>2, <2>3
<1> QED
  BY <1>3, <1>4, <1>5, <1>6, <1>7

LEMMA QueueAppend ==
    ASSUME NEW q \in Seq(Saved), NEW w \in Saved, Increasing(q),
           w.kind = "style" => \A m \in Queued(q) : m < w.value
    PROVE  /\ \A m \in Queued(Append(q, w)) : m \in Queued(q) \/ (w.kind = "style" /\ m = w.value)
           /\ Queued(q) \subseteq Queued(Append(q, w))
           /\ w.kind = "style" => w.value \in Queued(Append(q, w))
           /\ Increasing(Append(q, w))
<1> DEFINE a == Append(q, w)
<1>1. /\ DOMAIN q = 1 .. Len(q) /\ DOMAIN a = 1 .. (Len(q) + 1) /\ Len(q) \in Nat /\ a[Len(q) + 1] = w
      /\ \A i \in DOMAIN q : i \in DOMAIN a /\ a[i] = q[i]
      /\ \A i \in DOMAIN a : i \in DOMAIN q \/ i = Len(q) + 1
  OBVIOUS
<1>2. \A i \in DOMAIN q : q[i].kind = "style" => q[i].value \in Queued(q)
  BY Zenon DEF Queued
<1> HIDE DEF a
<1>3. Queued(q) \subseteq Queued(a)
  BY <1>1, Zenon DEF Queued
<1>4. Len(q) + 1 \in DOMAIN a
  BY <1>1
<1>5. w.kind = "style" => w.value \in Queued(a)
  BY <1>1, <1>4, Zenon DEF Queued
<1>6. \A m \in Queued(a) : m \in Queued(q) \/ (w.kind = "style" /\ m = w.value)
  <2>1. SUFFICES ASSUME NEW i \in DOMAIN a, a[i].kind = "style"
                 PROVE  a[i].value \in Queued(q) \/ (w.kind = "style" /\ a[i].value = w.value)
    BY Zenon DEF Queued
  <2> QED
    BY <1>1, <1>2, <2>1
<1>7. Increasing(a)
  <2>1. SUFFICES ASSUME NEW i \in DOMAIN a, NEW j \in DOMAIN a, i < j, a[i].kind = "style", a[j].kind = "style"
                 PROVE  a[i].value < a[j].value
    BY DEF Increasing
  <2>2. i \in DOMAIN q
    BY <1>1, <2>1
  <2>3. CASE j \in DOMAIN q
    BY <1>1, <2>1, <2>2, <2>3 DEF Increasing
  <2>4. CASE j = Len(q) + 1
    BY <1>1, <1>2, <2>1, <2>2, <2>4
  <2> QED
    BY <1>1, <2>3, <2>4
<1> QED
  BY <1>3, <1>5, <1>6, <1>7 DEF a

\* The style choices the server has seen or may yet see from a request given up on; the one being written.
Early == applied \cup {r.value : r \in {q \in lost : q.kind = "style"}}
Now == {n \in Nat : writing # Null /\ writing.request.kind = "style" /\ writing.request.value = n}
Before == writing # Null /\ writing.stage \in {"reading", "read"}

\* A request that the server would still take is newer than every choice it took.
Fresh(r) ==
    /\ r.expected <= server.revision
    /\ r.kind = "style" /\ r.expected = server.revision => \A n \in applied : n < r.value

\* The choices in the order they were made: applied or sent, running, queued, pending.
TabOrder ==
    /\ pending \in {Null, chosen}
    /\ Increasing(queue)
    /\ \A n \in Early \cup Now : \A m \in Queued(queue) : n < m
    /\ \A n \in Early \cup Now \cup Queued(queue) : n <= chosen /\ (pending # Null => n < pending)
    /\ Before => \A n \in Early : \A m \in Now : n < m
    /\ \A r \in lost : Fresh(r)
    /\ writing # Null /\ writing.stage = "sent" => Fresh(writing.request)

LEMMA OrderTypes ==
    ASSUME TabTypeOK
    PROVE  Early \subseteq Nat /\ Now \subseteq Nat /\ Queued(queue) \subseteq Nat
<1>1. Early \subseteq Nat
  BY DEF Early, TabTypeOK, Request
<1>2. Queued(queue) \subseteq Nat
  <2>1. \A i \in DOMAIN queue : queue[i] \in Saved
    BY DEF TabTypeOK
  <2> QED
    BY <2>1 DEF Queued, Saved
<1> QED
  BY <1>1, <1>2 DEF Now

\* What one step adds to the requests of the past: the running write's, when it is sent.
LEMMA EarlyStep ==
    ASSUME TabConstants, TabTypeOK, TabNext
    PROVE  /\ Early' \subseteq Early \cup Now
           /\ ~ (writing # Null /\ writing.stage = "sent") => Early' \subseteq Early
           /\ \A r \in lost' : r \in lost \/ (writing # Null /\ writing.stage = "sent" /\ r = writing.request)
<1> USE DEF sending, viewing, styles, Some, TabConstants
<1>1. CASE UNCHANGED <<lost, applied>>
  BY <1>1, Zenon DEF Early
<1>2. CASE Elsewhere
  BY <1>1, <1>2, ServerElsewhere DEF Elsewhere, TabTypeOK
<1>3. CASE Answered
  <2>1. writing # Null /\ writing.stage = "sent" /\ writing.request \in Request /\ lost' = lost
    BY <1>3 DEF Answered, TabTypeOK, Running
  <2>2. applied' = applied \/ (writing.request.kind = "style" /\ applied' = applied \cup {writing.request.value})
    <3>1. Applies(writing.request) \/ applied' = applied
      BY <1>3, Zenon DEF Answered
    <3> QED
      BY <2>1, <3>1, ServerTakes DEF TabTypeOK
  <2>3. writing.request.value \in Nat
    BY <2>1 DEF Request
  <2> QED
    BY <2>1, <2>2, <2>3, Zenon DEF Early, Now
<1>4. CASE LoseAnswer
  <2>1. /\ writing # Null /\ writing.stage = "sent" /\ writing.request \in Request
        /\ lost' = lost \cup {writing.request} /\ applied' = applied
    BY <1>4 DEF LoseAnswer, TabTypeOK, Running
  <2>2. writing.request.value \in Nat
    BY <2>1 DEF Request
  <2> QED
    BY <2>1, <2>2, Zenon DEF Early, Now
<1>5. ASSUME NEW request \in lost, Late(request)
      PROVE  Early' \subseteq Early /\ lost' \subseteq lost
  <2>1. request \in Request /\ lost' = lost \ {request}
    BY <1>5 DEF Late, TabTypeOK
  <2>2. applied' = applied \/ (request.kind = "style" /\ applied' = applied \cup {request.value})
    <3>1. Applies(request) \/ applied' = applied
      BY <1>5, Zenon DEF Late
    <3> QED
      BY <2>1, <3>1, ServerTakes DEF TabTypeOK
  <2> QED
    BY <2>1, <2>2, Zenon DEF Early
<1> QED
  <2>1. \/ UNCHANGED <<lost, applied>> \/ Elsewhere \/ Answered \/ LoseAnswer
        \/ \E request \in lost : Late(request)
    BY Zenon DEF TabNext, SendGet, AnswerGet, DeliverGet, GetFails, GetGone, ChangeStyle,
       SaveStyle, StartWrite, ReadFirst, MoveRevision, StyleSaved, MapChanged,
       WriteEnds, WriteGone, SendRead, AnswerRead, DeliverRead, OpenForm, LeaveForm,
       SaveForm
  <2> QED
    BY <1>1, <1>2, <1>3, <1>4, <1>5, <2>1

\* Whatever is applied moves the revision on, so nothing fresh grows stale.
LEMMA FreshStays ==
    ASSUME TabConstants, TabTypeOK, TabFeatures, TabNext, NEW r \in Request, Fresh(r)
    PROVE  /\ r.expected <= server'.revision
           /\ r.kind = "style" /\ r.expected = server'.revision => \A n \in applied' : n < r.value
<1>1. server.revision \in Nat /\ server'.revision \in Nat /\ r.expected \in Nat
  BY TabTypes DEF TabTypeOK, ServerType, Request
<1>2. server'.revision >= server.revision /\ (server'.revision = server.revision => applied' = applied)
  BY ServerMoves DEF TabFeatures
<1> QED
  BY <1>1, <1>2 DEF Fresh

\* The write's stage and choice, over one step.
LEMMA NowStep ==
    ASSUME TabConstants, TabTypeOK, TabNext, ~ StartWrite, ~ ReadFirst
    PROVE  /\ Now' \subseteq Now
           /\ Before' => Before
           /\ writing' # Null /\ writing'.stage = "sent" =>
                 writing # Null /\ writing.stage = "sent" /\ writing'.request = writing.request
<1> USE DEF sending, viewing, styles, Some, TabConstants
<1>1. writing # Null => writing \in Running
  BY DEF TabTypeOK
<1>2. CASE UNCHANGED writing
  BY <1>2 DEF Now, Before
<1>3. CASE writing' = Null
  BY <1>3 DEF Now, Before
<1>4. CASE GetEnds
  BY <1>1, <1>4 DEF GetEnds, Now, Before, Running
<1>5. CASE Answered \/ MoveRevision \/ MapChanged
  BY <1>1, <1>5 DEF Answered, MoveRevision, MapChanged, Reread, Now, Before, Running
<1> QED
  <2>1. \/ UNCHANGED writing \/ writing' = Null \/ GetEnds
        \/ Answered \/ MoveRevision \/ MapChanged
    BY Zenon DEF TabNext, Elsewhere, SendGet, AnswerGet, DeliverGet, GetFails, GetGone,
       ChangeStyle, SaveStyle, LoseAnswer, StyleSaved, WriteEnds, WriteGone, Late,
       SendRead, AnswerRead, DeliverRead, OpenForm, LeaveForm, SaveForm
  <2> QED
    BY <1>2, <1>3, <1>4, <1>5, <2>1

\* One step keeps the order: the chain is first in, first out, and no stale request is taken.
LEMMA TabOrderKept ==
    ASSUME TabConstants, TabTypeOK, TabAnswer, TabFeatures, TabRevisions, TabOrder, TabNext
    PROVE  TabOrder'
<1> USE DEF sending, viewing, styles, Some, TabConstants
<1>1. /\ Early \subseteq Nat /\ Now \subseteq Nat /\ Queued(queue) \subseteq Nat /\ chosen \in Nat
      /\ pending \in Nat \cup {Null} /\ queue \in Seq(Saved)
  BY OrderTypes DEF TabTypeOK
<1>2. ASSUME NEW r \in Request, Fresh(r) PROVE Fresh(r)'
  BY <1>2, FreshStays DEF Fresh
<1>3. \A r \in lost' : Fresh(r)'
  <2>1. ASSUME NEW r \in lost' PROVE r \in Request /\ Fresh(r)
    <3>1. CASE r \in lost
      BY <3>1 DEF TabOrder, TabTypeOK
    <3>2. CASE r \notin lost
      <4>1. writing # Null /\ writing.stage = "sent" /\ r = writing.request
        BY <2>1, <3>2, EarlyStep
      <4> QED
        BY <4>1 DEF TabOrder, TabTypeOK, Running
    <3> QED
      BY <3>1, <3>2
  <2> QED
    BY <1>2, <2>1
<1>4. CASE StartWrite
  <2>1. /\ writing = Null /\ queue # <<>> /\ queue' = Tail(queue) /\ Head(queue) \in Saved
        /\ writing' \in Running /\ UNCHANGED <<server, pending, chosen, lost, applied>>
    BY <1>4, QueueStarts DEF StartWrite
  <2>2. Early' = Early
    BY <2>1 DEF Early
  <2>3. \A n \in Now' : Head(queue).kind = "style" /\ n = Head(queue).value
    BY <1>4, <2>1, QueueStarts DEF Now
  <2>4. /\ Queued(queue') \subseteq Queued(queue) /\ Increasing(queue')
        /\ \A n \in Now' : n \in Queued(queue) /\ \A m \in Queued(queue') : n < m
    BY <1>1, <2>1, <2>3, QueueTail DEF TabOrder
  <2>5. ASSUME writing'.stage = "sent" PROVE Fresh(writing.request)'
    <3>1. writing'.request.expected = cached.revision /\ cached # Null
      BY <1>4, <2>5, QueueStarts
    <3>2. writing'.request.expected <= server.revision
      BY <3>1 DEF TabRevisions
    <3>3. ASSUME writing'.request.kind = "style", NEW n \in applied PROVE n < writing'.request.value
      <4>1. Head(queue).kind = "style" /\ writing'.request.value = Head(queue).value
        BY <1>4, <3>3, QueueStarts
      <4>2. Head(queue).value \in Queued(queue) /\ n \in Early
        BY <1>1, <2>1, <4>1, QueueTail DEF TabOrder, Early
      <4> QED
        BY <4>1, <4>2 DEF TabOrder
    <3> QED
      BY <2>1, <3>2, <3>3 DEF Fresh
  <2>6. \A n \in Early' \cup Now' : \A m \in Queued(queue') : n < m
    BY <2>2, <2>4 DEF TabOrder
  <2>7. \A n \in Early' \cup Now' \cup Queued(queue') : n <= chosen' /\ (pending' # Null => n < pending')
    BY <2>1, <2>2, <2>4 DEF TabOrder
  <2>8. \A n \in Early' : \A m \in Now' : n < m
    BY <2>2, <2>4 DEF TabOrder
  <2> QED
    BY <1>3, <2>1, <2>4, <2>5, <2>6, <2>7, <2>8 DEF TabOrder
<1>5. CASE ReadFirst
  <2>1. UNCHANGED <<server, queue, pending, chosen, lost, applied>> /\ Early' = Early
    BY <1>5 DEF ReadFirst, Early
  <2>2. writing # Null /\ writing \in Running /\ Before
    BY <1>5, WriteGoesOn DEF ReadFirst, Before
  <2>3. Now' \subseteq Now /\ ~ Before'
    BY <1>5, <2>2, WriteGoesOn DEF Now, Before
  <2>4. ASSUME writing' # Null, writing'.stage = "sent" PROVE Fresh(writing.request)'
    <3>1. /\ writing'.request.expected = cached.revision /\ cached # Null
          /\ writing'.request.kind = writing.request.kind /\ writing'.request.value = writing.request.value
      BY <1>5, <2>4, WriteGoesOn
    <3>2. writing'.request.expected <= server.revision
      BY <3>1 DEF TabRevisions
    <3>3. ASSUME writing'.request.kind = "style", NEW n \in applied PROVE n < writing'.request.value
      <4>1. writing.request.value \in Now /\ n \in Early
        BY <2>2, <3>1, <3>3 DEF Now, Early, Running, Request
      <4> QED
        BY <2>2, <3>1, <4>1 DEF TabOrder
    <3> QED
      BY <2>1, <3>2, <3>3 DEF Fresh
  <2> QED
    BY <1>3, <2>1, <2>3, <2>4 DEF TabOrder
<1>6. CASE ~ StartWrite /\ ~ ReadFirst
  <2>1. /\ Now' \subseteq Now /\ (Before' => Before)
        /\ writing' # Null /\ writing'.stage = "sent" =>
              writing # Null /\ writing.stage = "sent" /\ writing'.request = writing.request
    BY <1>6, NowStep
  <2>2. Early' \subseteq Early \cup Now
    BY EarlyStep
  <2>3. Before' => \A n \in Early' : \A m \in Now' : n < m
    <3>1. Before => Early' \subseteq Early
      BY EarlyStep DEF Before
    <3> QED
      BY <2>1, <3>1 DEF TabOrder
  <2>4. writing' # Null /\ writing'.stage = "sent" => Fresh(writing.request)'
    <3>1. ASSUME writing' # Null, writing'.stage = "sent" PROVE Fresh(writing.request)'
      <4>1. writing.request \in Request /\ Fresh(writing.request) /\ writing'.request = writing.request
        BY <2>1, <3>1 DEF TabOrder, TabTypeOK, Running
      <4>2. /\ writing.request.expected <= server'.revision
            /\ writing.request.kind = "style" /\ writing.request.expected = server'.revision
                  => \A n \in applied' : n < writing.request.value
        BY <4>1, FreshStays
      <4> QED
        BY <4>1, <4>2 DEF Fresh
    <3> QED
      BY <3>1
  <2>5. CASE UNCHANGED <<queue, pending, chosen>>
    <3>1. UNCHANGED Queued(queue) /\ Increasing(queue')
      BY <2>5 DEF TabOrder
    <3>2. \A n \in Early' \cup Now' : \A m \in Queued(queue') : n < m
      BY <2>1, <2>2, <2>5 DEF TabOrder
    <3>3. \A n \in Early' \cup Now' \cup Queued(queue') : n <= chosen' /\ (pending' # Null => n < pending')
      BY <2>1, <2>2, <2>5 DEF TabOrder
    <3> QED
      BY <1>3, <2>3, <2>4, <2>5, <3>1, <3>2, <3>3 DEF TabOrder
  <2>6. CASE ChangeStyle
    <3>1. chosen' = chosen + 1 /\ pending' = chosen + 1 /\ queue' = queue
      BY <2>6 DEF ChangeStyle
    <3>2. \A n \in Early' \cup Now' \cup Queued(queue') : n \in Nat /\ n <= chosen
      BY <1>1, <2>1, <2>2, <3>1 DEF TabOrder
    <3>3. \A n \in Early' \cup Now' \cup Queued(queue') : n <= chosen' /\ n < pending'
      BY <1>1, <3>1, <3>2
    <3>4. \A n \in Early' \cup Now' : \A m \in Queued(queue') : n < m
      BY <2>1, <2>2, <3>1 DEF TabOrder
    <3> QED
      BY <1>3, <2>3, <2>4, <3>1, <3>3, <3>4 DEF TabOrder
  <2>7. CASE SaveStyle \/ SaveForm
    <3>1. PICK w \in Saved : /\ queue' = Append(queue, w) /\ chosen' = chosen
                             /\ pending' \in {Null, pending}
                             /\ w.kind = "style" => pending # Null /\ w.value = pending /\ pending' = Null
      <4>1. CASE SaveStyle
        <5>1. [kind |-> "style", value |-> pending] \in Saved
          BY <1>1, <4>1 DEF SaveStyle, Saved
        <5> QED
          BY <4>1, <5>1 DEF SaveStyle
      <4>2. CASE SaveForm
        <5>1. [kind |-> "feature", value |-> form] \in Saved
          BY <4>2 DEF SaveForm, TabTypeOK, Saved
        <5> QED
          BY <4>2, <5>1 DEF SaveForm
      <4> QED
        BY <2>7, <4>1, <4>2
    <3>2. w.kind = "style" => \A m \in Queued(queue) : m < w.value
      BY <3>1 DEF TabOrder
    <3>3. /\ \A m \in Queued(queue') : m \in Queued(queue) \/ (w.kind = "style" /\ m = w.value)
          /\ Increasing(queue')
      BY <1>1, <3>1, <3>2, QueueAppend DEF TabOrder
    <3>4. \A n \in Early \cup Now : w.kind = "style" => n < w.value
      BY <3>1 DEF TabOrder
    <3>5. \A n \in Early' \cup Now' : \A m \in Queued(queue') : n < m
      BY <2>1, <2>2, <3>3, <3>4 DEF TabOrder
    <3>6. w.kind = "style" => w.value <= chosen
      BY <1>1, <3>1 DEF TabOrder
    <3>7. \A n \in Early' \cup Now' \cup Queued(queue') : n <= chosen' /\ (pending' # Null => n < pending')
      BY <2>1, <2>2, <3>1, <3>3, <3>6 DEF TabOrder
    <3>8. pending' \in {Null, chosen'}
      BY <3>1 DEF TabOrder
    <3> QED
      BY <1>3, <2>3, <2>4, <3>3, <3>5, <3>7, <3>8 DEF TabOrder
  <2>8. \/ UNCHANGED <<queue, pending, chosen>> \/ ChangeStyle \/ SaveStyle \/ SaveForm
    BY <1>6, Zenon DEF TabNext, Elsewhere, SendGet, AnswerGet, DeliverGet, GetFails, GetGone,
       Answered, LoseAnswer, MoveRevision, StyleSaved, MapChanged, WriteEnds,
       WriteGone, Late, SendRead, AnswerRead, DeliverRead, OpenForm, LeaveForm
  <2> QED
    BY <2>5, <2>6, <2>7, <2>8
<1> QED
  BY <1>4, <1>5, <1>6

\* The choice n is in the chain, or saved or reported; the one running is a write of its style.
Waiting(n) == \E i \in DOMAIN queue : queue[i] = [kind |-> "style", value |-> n]
Settled(n) == n = 0 \/ n \in settled
Writing(n) == writing # Null /\ writing.request.kind = "style" /\ writing.request.value = n

LEMMA ChoiceKept ==
    LastChoiceKept <=> Settled(chosen) \/ chosen = pending \/ Waiting(chosen) \/ Writing(chosen)
  BY Zenon DEF LastChoiceKept, Some, Settled, Waiting, Writing

\* A write whose stage moves is still the same write.
LEMMA StageMoves ==
    ASSUME TabConstants, writing \in Running, NEW stage \in Stages, NEW n \in Nat,
           writing' = [writing EXCEPT !.stage = stage] \/ writing' = [writing EXCEPT !.stage = stage, !.revision = n]
    PROVE  writing' # Null /\ writing'.request = writing.request
<1>1. writing' \in Running /\ writing'.request = writing.request
  BY DEF Running
<1> QED
  BY <1>1 DEF TabConstants

\* One step: the last choice moves from the timer to the queue, to the running write, to its outcome.
LEMMA TabChoiceKept ==
    ASSUME TabConstants, TabTypeOK, TabAnswer, LastChoiceKept, TabNext
    PROVE  LastChoiceKept'
<1> USE DEF sending, viewing, styles, Some, TabConstants
<1>1. writing # Null => writing \in Running /\ writing.request \in Request
  BY DEF TabTypeOK, Running
<1>2. SUFFICES Settled(chosen)' \/ chosen' = pending' \/ Waiting(chosen)' \/ Writing(chosen)'
  BY DEF LastChoiceKept, Settled, Waiting, Writing
<1>3. Settled(chosen) \/ chosen = pending \/ Waiting(chosen) \/ Writing(chosen)
  BY ChoiceKept
<1>4. ASSUME Settle(writing.request), UNCHANGED <<chosen, pending, queue>>
      PROVE  Settled(chosen)' \/ chosen' = pending' \/ Waiting(chosen)' \/ Writing(chosen)'
  BY <1>3, <1>4 DEF Settle, Settled, Waiting, Writing
<1>5. CASE ChangeStyle
  BY <1>5 DEF ChangeStyle
<1>7. CASE SaveStyle
  <2>1. queue' = Append(queue, [kind |-> "style", value |-> pending]) /\ UNCHANGED <<chosen, settled, writing>>
    BY <1>7 DEF SaveStyle
  <2>2. Waiting(chosen) \/ chosen = pending => Waiting(chosen)'
    BY <2>1 DEF TabTypeOK, Waiting
  <2> QED
    BY <1>3, <2>1, <2>2 DEF Settled, Writing, Waiting
<1>8. CASE SaveForm
  <2>1. /\ queue' = Append(queue, [kind |-> "feature", value |-> form])
        /\ UNCHANGED <<chosen, pending, settled, writing>>
    BY <1>8 DEF SaveForm
  <2>2. \A n : Waiting(n) => Waiting(n)'
    BY <2>1 DEF TabTypeOK, Waiting
  <2> QED
    BY <1>3, <2>1, <2>2 DEF Settled, Writing, Waiting
<1>9. CASE StartWrite
  <2>1. /\ queue \in Seq(Saved) /\ queue # <<>> /\ queue' = Tail(queue) /\ writing = Null
        /\ UNCHANGED <<chosen, pending, settled>>
        /\ writing' \in Running /\ writing' # Null
        /\ writing'.request.kind = Head(queue).kind /\ writing'.request.value = Head(queue).value
    BY <1>9, QueueStarts DEF StartWrite, TabTypeOK
  <2>2. ASSUME NEW i \in DOMAIN queue, queue[i] = [kind |-> "style", value |-> chosen]
        PROVE  Waiting(chosen)' \/ Writing(chosen)'
    <3>1. CASE i = 1
      BY <2>1, <2>2, <3>1 DEF Writing
    <3>2. CASE i # 1
      <4>1. i - 1 \in DOMAIN Tail(queue) /\ Tail(queue)[i - 1] = queue[i]
        BY <2>1, <3>2
      <4>2. i - 1 \in DOMAIN queue' /\ queue'[i - 1] = [kind |-> "style", value |-> chosen']
        BY <2>1, <2>2, <4>1
      <4> QED
        BY <4>2 DEF Waiting
    <3> QED
      BY <3>1, <3>2
  <2> QED
    BY <1>3, <2>1, <2>2 DEF Settled, Waiting, Writing
<1>10. CASE ReadFirst
  <2>1. UNCHANGED <<chosen, pending, queue>> /\ writing # Null
    BY <1>10 DEF ReadFirst
  <2>2. CASE /\ writing' \in Running /\ writing'.request.kind = writing.request.kind
             /\ writing'.request.value = writing.request.value /\ UNCHANGED settled
    BY <1>3, <2>1, <2>2 DEF Settled, Waiting, Writing
  <2>3. CASE Settle(writing.request)
    BY <1>4, <2>1, <2>3
  <2> QED
    BY <1>10, <2>2, <2>3, WriteGoesOn
<1>12. CASE LoseAnswer \/ StyleSaved \/ WriteGone
  BY <1>4, <1>12 DEF LoseAnswer, StyleSaved, WriteGone
<1>13. CASE WriteEnds
  <2>1. CASE writing.revision = 0
    BY <1>4, <1>13, <2>1 DEF WriteEnds
  <2>2. CASE writing.revision # 0
    BY <1>3, <1>13, <2>2 DEF WriteEnds, TabAnswer, Settled, Waiting, Writing
  <2> QED
    BY <2>1, <2>2
<1>14. CASE UNCHANGED <<chosen, pending, queue, settled>> /\ (UNCHANGED writing \/ GetEnds)
  <2>1. writing # Null => writing' # Null /\ writing'.request = writing.request
    <3>1. UNCHANGED writing \/ (\E stage \in Stages : writing' = [writing EXCEPT !.stage = stage])
      BY <1>14 DEF GetEnds, Stages
    <3>2. 0 \in Nat
      OBVIOUS
    <3>3. CASE UNCHANGED writing
      BY <3>3
    <3>4. ASSUME writing # Null, NEW stage \in Stages, writing' = [writing EXCEPT !.stage = stage]
          PROVE  writing' # Null /\ writing'.request = writing.request
      BY <1>1, <3>2, <3>4, StageMoves
    <3> QED
      BY <3>1, <3>3, <3>4
  <2> QED
    BY <1>3, <1>14, <2>1 DEF Settled, Waiting, Writing
<1>15. CASE Answered \/ MoveRevision \/ MapChanged
  <2>1. UNCHANGED <<chosen, pending, queue, settled>>
    BY <1>15 DEF Answered, MoveRevision, MapChanged
  <2>2. PICK stage \in Stages, n \in Nat :
           writing' \in {[writing EXCEPT !.stage = stage], [writing EXCEPT !.stage = stage, !.revision = n]}
    <3>1. server.revision + 1 \in Nat
      BY DEF TabTypeOK, ServerType
    <3> QED
      BY <1>15, <3>1 DEF Answered, MoveRevision, MapChanged, Reread, Stages
  <2>3. writing # Null => writing' # Null /\ writing'.request = writing.request
    BY <1>1, <2>2, StageMoves
  <2> QED
    BY <1>3, <2>1, <2>3 DEF Settled, Waiting, Writing
<1> QED
  <2>1. \/ ChangeStyle \/ SaveStyle \/ SaveForm \/ StartWrite \/ ReadFirst
        \/ LoseAnswer \/ StyleSaved \/ WriteGone \/ WriteEnds
        \/ Answered \/ MoveRevision \/ MapChanged
        \/ UNCHANGED <<chosen, pending, queue, settled>> /\ (UNCHANGED writing \/ GetEnds)
    BY Zenon DEF TabNext, Elsewhere, SendGet, AnswerGet, DeliverGet, GetFails, GetGone,
       Late, SendRead, AnswerRead, DeliverRead, OpenForm, LeaveForm
  <2> QED
    BY <1>5, <1>7, <1>8, <1>9, <1>10, <1>12, <1>13, <1>14, <1>15, <2>1

\* The tab's inductive invariant.
TabInv ==
    /\ TabTypeOK /\ TabAnswer /\ TabFeatures /\ TabRevisions /\ TabOrder
    /\ LastChoiceKept

LEMMA TabInitially == ASSUME TabConstants, TabInit PROVE TabInv
<1> USE DEF TabInit, TabConstants
<1>1. TabTypeOK
  BY DEF TabTypeOK, ServerType
<1>2. TabAnswer /\ TabFeatures /\ TabRevisions
  BY DEF TabAnswer, TabFeatures, TabRevisions
<1>3. Early = {} /\ Now = {} /\ Queued(queue) = {} /\ Increasing(queue) /\ ~ Before
  BY DEF Early, Now, Queued, Increasing, Before
<1>4. TabOrder
  BY <1>3 DEF TabOrder
<1>5. LastChoiceKept
  BY DEF LastChoiceKept
<1> QED
  BY <1>1, <1>2, <1>4, <1>5 DEF TabInv

LEMMA TabInvKept == ASSUME TabConstants, TabInv, [TabNext]_tabVars PROVE TabInv'
<1>1. CASE TabNext
  BY <1>1, TabTypes, TabAnswers, TabFeaturesKept, TabRevisionsKept, TabOrderKept, TabChoiceKept DEF TabInv
<1>2. CASE UNCHANGED tabVars
  <2>1. UNCHANGED <<server, cached, get, pending, queue, writing, lost, shown, reads, form, chosen, settled,
                    applied, forms, ownSave>>
    BY <1>2 DEF tabVars, sending, viewing, styles
  <2>2. TabTypeOK' /\ TabAnswer' /\ TabFeatures' /\ TabRevisions'
    BY <2>1 DEF TabInv, TabTypeOK, TabAnswer, TabFeatures, TabRevisions
  <2>3. TabOrder'
    BY <2>1 DEF TabInv, TabOrder, Early, Now, Before, Fresh
  <2>4. LastChoiceKept'
    BY <2>1 DEF TabInv, LastChoiceKept, Some
  <2> QED
    BY <2>2, <2>3, <2>4 DEF TabInv
<1> QED
  BY <1>1, <1>2

(* The tab's inductive invariant holds, however other tabs write and however answers are lost. *)
THEOREM TabInvariant == TabSpec => []TabInv
<1>1. TabConstants
  BY TabNull
<1>2. TabInit => TabInv
  BY <1>1, TabInitially
<1>3. TabInv /\ [TabNext]_tabVars => TabInv'
  BY <1>1, TabInvKept
<1> QED
  BY <1>2, <1>3, PTL DEF TabSpec

(* Once a save is through, neither the map nor the form shows the feature from before it: a read of an
   older generation is dropped, and the form takes the saved revision (personalLayers, useMapWrite). *)
THEOREM OwnSaveShownHolds == TabSpec => []OwnSaveShown
<1>1. TabInv => OwnSaveShown
  BY DEF TabInv, TabFeatures, OwnSaveShown, Some
<1> QED
  BY <1>1, TabInvariant, PTL

(* The user's last style choice waits, is queued, is being written, or has been saved or reported
   (useLayerEditorPresenter, useMapWrite). *)
THEOREM LastChoiceKeptHolds == TabSpec => []LastChoiceKept
<1>1. TabInv => LastChoiceKept
  BY DEF TabInv
<1> QED
  BY <1>1, TabInvariant, PTL

\* A request that is taken carries the server's own revision, so its choice is newer than all before it.
LEMMA AppliedInOrder ==
    ASSUME TabConstants, TabInv, TabNext
    PROVE  \A new \in applied' \ applied : \A old \in applied : old < new
<1> USE DEF sending, viewing, styles, Some
<1>1. ASSUME NEW request \in Request, Fresh(request), Accepts(request), Applies(request)
      PROVE  \A new \in applied' \ applied : \A old \in applied : old < new
  <2>1. applied' = applied \/ (request.kind = "style" /\ applied' = applied \cup {request.value})
    BY <1>1, ServerTakes DEF TabInv, TabTypeOK
  <2>2. request.expected = server.revision
    BY <1>1 DEF Accepts
  <2> QED
    BY <1>1, <2>1, <2>2 DEF Fresh
<1>2. CASE Answered
  <2>1. writing.request \in Request /\ Fresh(writing.request)
    BY <1>2 DEF Answered, TabInv, TabOrder, TabTypeOK, Running
  <2>2. (Accepts(writing.request) /\ Applies(writing.request)) \/ applied' = applied
    BY <1>2, Zenon DEF Answered
  <2> QED
    BY <1>1, <2>1, <2>2
<1>3. CASE \E request \in lost : Late(request)
  <2>1. PICK request \in lost : Late(request)
    BY <1>3
  <2>2. request \in Request /\ Fresh(request)
    BY DEF TabInv, TabOrder, TabTypeOK
  <2>3. (Accepts(request) /\ Applies(request)) \/ applied' = applied
    BY <2>1, Zenon DEF Late
  <2> QED
    BY <1>1, <2>2, <2>3
<1>4. Answered \/ (\E request \in lost : Late(request)) \/ UNCHANGED applied
  BY Zenon DEF TabNext, Elsewhere, SendGet, AnswerGet, DeliverGet, GetFails, GetGone,
     ChangeStyle, SaveStyle, StartWrite, ReadFirst, LoseAnswer, MoveRevision, StyleSaved,
     MapChanged, WriteEnds, WriteGone, SendRead, AnswerRead, DeliverRead, OpenForm,
     LeaveForm, SaveForm
<1> QED
  BY <1>2, <1>3, <1>4

(* The style choices reach the server in the order they were made, a request given up on and seen late
   among them: the revision decides which of them the server still takes. *)
THEOREM ChoicesInOrderHolds == TabSpec => ChoicesInOrder
<1>1. TabConstants
  BY TabNull
<1>2. TabInv /\ [TabNext]_tabVars
         => [\A new \in applied' \ applied : \A old \in applied : old < new]_tabVars
  BY <1>1, AppliedInOrder
<1> QED
  BY <1>2, TabInvariant, PTL DEF TabSpec, ChoicesInOrder
=============================================================================
