-------------------------- MODULE VersionStore_proofs --------------------------
(***************************************************************************)
(* Proofs about VersionStore, for every value of its constants: what a     *)
(* version resolves to depends on the forest only through its chain, and   *)
(* no operation disturbs a chain somebody holds.  From there the tables    *)
(* keep their invariant, drafts are isolated from one another, and every   *)
(* transaction is a step of PublishedLayer.  The last part is about the    *)
(* history of EditCopyHistory: the contents a draft answers for.           *)
(***************************************************************************)
EXTENDS EditCopyHistory, TLAPS

Forest(vs) == Closed(vs, DOMAIN vs)

\* The tables ws and qs hold the versions S of the tables vs and rs as they are there.
SameOn(S, vs, rs, ws, qs) ==
    \A u \in S : u \in DOMAIN ws /\ ws[u].parent = vs[u].parent /\ qs[u] = rs[u]

-----------------------------------------------------------------------------
(* Chains *)

\* In a forest a chain is made of stored versions and closed under `parent'.
LEMMA ChainClosed ==
    ASSUME NEW vs, Forest(vs), NEW v \in DOMAIN vs
    PROVE  /\ v \in Chain(vs, v)
           /\ Chain(vs, v) \subseteq DOMAIN vs
           /\ Closed(vs, Chain(vs, v))
<1>1. Parents(vs) \subseteq DOMAIN vs
  BY DEF Forest, Closed, Parents
<1>2. v \in Chain(vs, v) /\ Chain(vs, v) \subseteq DOMAIN vs
  BY <1>1 DEF Chain
<1>3. ASSUME NEW u \in Chain(vs, v), vs[u].parent # NoVersion
      PROVE  vs[u].parent \in Chain(vs, v)
  <2>1. vs[u].parent \in Parents(vs)
    BY <1>2, <1>3 DEF Parents
  <2>2. ASSUME NEW S \in SUBSET Parents(vs), Closed(vs, S \cup {v})
        PROVE  vs[u].parent \in S \cup {v}
    <3>1. u \in S \cup {v}
      BY <1>3, <2>2 DEF Chain
    <3>2. QED
      BY <1>3, <2>2, <3>1 DEF Closed
  <2>3. QED
    BY <2>1, <2>2 DEF Chain
<1>4. QED
  BY <1>2, <1>3 DEF Closed

\* A chain is contained in every closed set its version is in.
LEMMA ChainLeast ==
    ASSUME NEW vs, Forest(vs), NEW v \in DOMAIN vs, NEW S, v \in S, Closed(vs, S)
    PROVE  Chain(vs, v) \subseteq S
<1> DEFINE T == S \cap Parents(vs)
<1>1. Parents(vs) \subseteq DOMAIN vs
  BY DEF Forest, Closed, Parents
<1>2. Closed(vs, T \cup {v})
  <2>1. SUFFICES ASSUME NEW u \in T \cup {v}, vs[u].parent # NoVersion
                 PROVE  vs[u].parent \in T
    BY DEF Closed
  <2>2. u \in S /\ u \in DOMAIN vs
    BY <1>1
  <2>3. QED
    BY <2>1, <2>2 DEF Closed, Parents
<1>3. QED
  BY <1>2 DEF Chain

\* The chain of a version is that version and at most the chain of its parent.
LEMMA ChainOfParent ==
    ASSUME NEW vs, Forest(vs), NEW v \in DOMAIN vs, vs[v].parent # NoVersion
    PROVE  Chain(vs, v) = {v} \cup Chain(vs, vs[v].parent)
<1> DEFINE p == vs[v].parent
<1>1. p \in DOMAIN vs
  BY DEF Forest, Closed
<1>2. p \in Chain(vs, p) /\ Closed(vs, Chain(vs, p))
  BY <1>1, ChainClosed
<1>3. Closed(vs, {v} \cup Chain(vs, p))
  BY <1>2 DEF Closed
<1>4. Chain(vs, v) \subseteq {v} \cup Chain(vs, p)
  BY <1>3, ChainLeast
<1>5. v \in Chain(vs, v) /\ Closed(vs, Chain(vs, v))
  BY ChainClosed
<1>6. Chain(vs, p) \subseteq Chain(vs, v)
  BY <1>1, <1>5, ChainLeast DEF Closed
<1>7. QED
  BY <1>4, <1>5, <1>6

\* An ancestor's chain is part of the chain.
LEMMA ChainOfAncestor ==
    ASSUME NEW vs, Forest(vs), NEW v \in DOMAIN vs, NEW u \in Chain(vs, v)
    PROVE  u \in DOMAIN vs /\ Chain(vs, u) \subseteq Chain(vs, v)
  BY ChainClosed, ChainLeast

\* Only a version itself and parents of versions are on its chain.
LEMMA ChainIsParents ==
    ASSUME NEW vs, NEW v, NEW u \in Chain(vs, v)
    PROVE  u = v \/ \E x \in DOMAIN vs : vs[x].parent = u /\ u # NoVersion
  BY DEF Chain, Parents

\* A chain depends on the parents of its own members only.
LEMMA ChainStable ==
    ASSUME NEW vs, Forest(vs), NEW ws, Forest(ws), NEW v \in DOMAIN vs,
           \A u \in Chain(vs, v) : u \in DOMAIN ws /\ ws[u].parent = vs[u].parent
    PROVE  Chain(ws, v) = Chain(vs, v)
<1>1. v \in Chain(vs, v) /\ Closed(vs, Chain(vs, v))
  BY ChainClosed
<1>2. v \in DOMAIN ws /\ Closed(ws, Chain(vs, v))
  BY <1>1 DEF Closed
<1>3. Chain(ws, v) \subseteq Chain(vs, v)
  BY <1>1, <1>2, ChainLeast
<1>4. v \in Chain(ws, v) /\ Closed(ws, Chain(ws, v))
  BY <1>2, ChainClosed
<1>5. Closed(vs, Chain(ws, v))
  BY <1>3, <1>4 DEF Closed
<1>6. Chain(vs, v) \subseteq Chain(ws, v)
  BY <1>4, <1>5, ChainLeast
<1>7. QED
  BY <1>3, <1>6

\* What a version resolves to depends on the parents and the rows of its chain only.
LEMMA ResolvedStable ==
    ASSUME NEW vs, Forest(vs), NEW ws, Forest(ws), NEW v \in DOMAIN vs, NEW rs, NEW qs,
           SameOn(Chain(vs, v), vs, rs, ws, qs)
    PROVE  Resolved(ws, qs, v) = Resolved(vs, rs, v)
<1>1. Chain(ws, v) = Chain(vs, v)
  BY ChainStable DEF SameOn
<1>2. ASSUME NEW u \in Chain(vs, v) PROVE Chain(ws, u) = Chain(vs, u)
  BY ChainOfAncestor, ChainStable DEF SameOn
<1>3. QED
  BY <1>1, <1>2 DEF Resolved, SameOn
-----------------------------------------------------------------------------
(* Retention *)

\* What Kept keeps.
LEMMA KeptMembers ==
    ASSUME NEW vs, NEW act, NEW u
    PROVE  u \in Kept(vs, act) <=>
              \/ \E h \in {act} \cup pins \cup {v \in DOMAIN vs : vs[v].draft} : u \in Chain(vs, h)
              \/ u \in DOMAIN vs /\ \E r \in EarlierRoots(vs, act) : r \in Chain(vs, u)
<1> DEFINE holders == {act} \cup pins \cup {v \in DOMAIN vs : vs[v].draft}
           roots == EarlierRoots(vs, act)
           earlier == {v \in DOMAIN vs : Chain(vs, v) \cap roots # {}}
<1>1. u \in Kept(vs, act) <=> u \in (UNION {Chain(vs, h) : h \in holders}) \/ u \in earlier
  <2> HIDE DEF holders, roots, earlier
  <2> QED BY Zenon DEF Kept, holders, roots, earlier
<1>2. u \in (UNION {Chain(vs, h) : h \in holders}) <=> \E h \in holders : u \in Chain(vs, h)
  <2> HIDE DEF holders
  <2> QED OBVIOUS
<1>3. u \in earlier <=> u \in DOMAIN vs /\ \E r \in roots : r \in Chain(vs, u)
  <2> HIDE DEF roots
  <2> QED OBVIOUS
<1>4. QED
  <2> HIDE DEF holders, roots, earlier
  <2>1. u \in Kept(vs, act) <=> \/ \E h \in holders : u \in Chain(vs, h)
                                \/ u \in DOMAIN vs /\ \E r \in roots : r \in Chain(vs, u)
    BY <1>1, <1>2, <1>3, Zenon
  <2>2. QED
    BY <2>1, Zenon DEF holders, roots

\* The plan of pruneVersions: it keeps the active version, the pinned ones and the drafts, each with
\* its whole chain, and with every version it keeps the one that is built on.
LEMMA KeptClosed ==
    ASSUME NEW vs, Forest(vs), NEW act \in DOMAIN vs, pins \subseteq DOMAIN vs
    PROVE  /\ Kept(vs, act) \subseteq DOMAIN vs
           /\ Closed(vs, Kept(vs, act))
<1> DEFINE holders == {act} \cup pins \cup {v \in DOMAIN vs : vs[v].draft}
<1>1. holders \subseteq DOMAIN vs
  OBVIOUS
<1> HIDE DEF holders
<1>2. ASSUME NEW u \in Kept(vs, act)
      PROVE  /\ u \in DOMAIN vs
             /\ vs[u].parent # NoVersion => vs[u].parent \in Kept(vs, act)
  <2>1. CASE \E h \in holders : u \in Chain(vs, h)
    <3>1. PICK h \in holders : u \in Chain(vs, h)
      BY <2>1
    <3>2. /\ u \in DOMAIN vs
          /\ vs[u].parent # NoVersion => vs[u].parent \in Chain(vs, h)
      BY <1>1, <3>1, ChainClosed DEF Closed
    <3>3. QED
      BY <3>2, KeptMembers DEF holders
  <2>2. CASE u \in DOMAIN vs /\ \E r \in EarlierRoots(vs, act) : r \in Chain(vs, u)
    <3>1. SUFFICES ASSUME vs[u].parent # NoVersion PROVE vs[u].parent \in Kept(vs, act)
      BY <2>2
    <3>2. PICK r \in EarlierRoots(vs, act) : r \in Chain(vs, u)
      BY <2>2
    <3>3. r # u
      BY <3>1, <3>2 DEF EarlierRoots, Ingests
    <3>4. r \in Chain(vs, vs[u].parent)
      BY <2>2, <3>1, <3>2, <3>3, ChainOfParent
    <3>5. vs[u].parent \in DOMAIN vs
      BY <2>2, <3>1 DEF Forest, Closed
    <3>6. QED
      BY <3>2, <3>4, <3>5, KeptMembers
  <2>3. QED
    BY <2>1, <2>2, KeptMembers DEF holders
<1>3. QED
  BY <1>2 DEF Closed

\* The tables that retention leaves: a forest in which the active version, the pins and the drafts
\* still resolve to what they did.
LEMMA KeptResolves ==
    ASSUME NEW vs, Forest(vs), NEW rs, NEW act \in DOMAIN vs, pins \subseteq DOMAIN vs,
           NEW ws, ws = Restrict(vs, Kept(vs, act)), NEW qs, qs = Restrict(rs, Kept(vs, act))
    PROVE  /\ Forest(ws)
           /\ \A h \in {act} \cup pins \cup {v \in DOMAIN vs : vs[v].draft} :
                 h \in DOMAIN ws /\ Resolved(ws, qs, h) = Resolved(vs, rs, h)
<1>1. /\ DOMAIN ws = Kept(vs, act)
      /\ \A u \in Kept(vs, act) : ws[u] = vs[u] /\ qs[u] = rs[u]
  BY DEF Restrict
<1>2. Forest(ws)
  BY <1>1, KeptClosed DEF Forest, Closed
<1>3. ASSUME NEW h \in {act} \cup pins \cup {v \in DOMAIN vs : vs[v].draft}
      PROVE  h \in DOMAIN ws /\ Resolved(ws, qs, h) = Resolved(vs, rs, h)
  <2>1. h \in DOMAIN vs
    OBVIOUS
  <2>2. h \in Chain(vs, h) /\ Chain(vs, h) \subseteq Kept(vs, act)
    <3>1. h \in Chain(vs, h)
      BY <2>1, ChainClosed
    <3>2. ASSUME NEW u \in Chain(vs, h) PROVE u \in Kept(vs, act)
      BY KeptMembers, Zenon
    <3>3. QED
      BY <3>1, <3>2
  <2>3. SameOn(Chain(vs, h), vs, rs, ws, qs)
    BY <1>1, <2>2 DEF SameOn
  <2>4. Resolved(ws, qs, h) = Resolved(vs, rs, h)
    BY <1>2, <2>1, <2>3, ResolvedStable
  <2>5. QED
    BY <1>1, <2>2, <2>4
<1>4. QED
  BY <1>2, <1>3

\* Retention never refuses on a forest.
LEMMA KeptIsPrunable ==
    ASSUME NEW vs, Forest(vs), NEW act \in DOMAIN vs, pins \subseteq DOMAIN vs
    PROVE  Prunable(vs, Kept(vs, act))
  BY KeptClosed DEF Prunable

-----------------------------------------------------------------------------
(* The invariant *)

RowsOfVersion == UNION {[S -> Row] : S \in SUBSET Feature}

\* The tables of versions and rows in a transaction: typed, and a forest in which nothing is built
\* on a draft.
Tables(c, vs, rs) ==
    /\ c \in 0 .. MaxVersions
    /\ DOMAIN vs \subseteq 1 .. c
    /\ vs \in [DOMAIN vs -> DatasetVersion]
    /\ rs \in [DOMAIN vs -> RowsOfVersion]
    /\ Forest(vs)
    /\ \A v \in DOMAIN vs : vs[v].parent # NoVersion => ~vs[vs[v].parent].draft

DraftsOf(vs) == {v \in DOMAIN vs : vs[v].draft}

\* What refers to the versions vs from outside.
References(vs, act, res, ps) ==
    /\ act \in (DOMAIN vs \ DraftsOf(vs)) \cup {NoVersion}
    /\ res \subseteq DraftsOf(vs) \X Feature \X (DOMAIN vs \ DraftsOf(vs))
    /\ ps \subseteq DOMAIN vs \ DraftsOf(vs)

Inv ==
    /\ Tables(clock, versions, rows)
    /\ References(versions, active, resolutions, pins)
    /\ CurrentIsResolved

LEMMA RowsIntro ==
    ASSUME NEW S \in SUBSET Feature, NEW f \in [S -> Row]
    PROVE  f \in RowsOfVersion
  BY DEF RowsOfVersion

LEMMA RowsElim ==
    ASSUME NEW f \in RowsOfVersion
    PROVE  DOMAIN f \in SUBSET Feature /\ f \in [DOMAIN f -> Row]
<1>1. PICK S \in SUBSET Feature : f \in [S -> Row]
  BY DEF RowsOfVersion
<1>2. QED
  BY <1>1

\* A resolved state names stored rows.
LEMMA ResolvedIsStored ==
    ASSUME NEW vs, Forest(vs), NEW rs, NEW v \in DOMAIN vs, NEW k \in Resolved(vs, rs, v)
    PROVE  /\ k[1] \in DOMAIN vs /\ k[2] \in Feature /\ k[2] \in DOMAIN rs[k[1]]
           /\ k \in (DOMAIN vs) \X Feature
<1>1. Chain(vs, v) \subseteq DOMAIN vs
  BY ChainClosed
<1>2. k \in Chain(vs, v) \X Feature /\ k[2] \in DOMAIN rs[k[1]]
  BY DEF Resolved
<1>3. QED
  BY <1>1, <1>2

LEMMA CurrentIsStored ==
    ASSUME Inv, NEW k \in current
    PROVE  k[1] \in DOMAIN versions /\ k[2] \in Feature /\ k[2] \in DOMAIN rows[k[1]]
<1>1. active # NoVersion /\ k \in Resolved(versions, rows, active)
  BY DEF Inv, CurrentIsResolved
<1>2. active \in DOMAIN versions /\ Forest(versions)
  BY <1>1 DEF Inv, References, Tables
<1>3. QED
  BY <1>1, <1>2, ResolvedIsStored

\* The invariant is what the properties say of a state.
LEMMA InvIsTyped == Inv => TypeOK /\ ForestIntact /\ RetentionNeverRefuses
<1> SUFFICES ASSUME Inv PROVE TypeOK /\ ForestIntact /\ RetentionNeverRefuses
  OBVIOUS
<1>1. current \subseteq (DOMAIN versions) \X Feature
  <2>1. ASSUME NEW k \in current PROVE k \in (DOMAIN versions) \X Feature
    <3>1. active \in DOMAIN versions /\ Forest(versions) /\ k \in Resolved(versions, rows, active)
      BY DEF Inv, References, Tables, CurrentIsResolved
    <3>2. QED
      BY <3>1, ResolvedIsStored
  <2>2. QED
    BY <2>1
<1>2. TypeOK
  <2>1. /\ clock \in 0 .. MaxVersions
        /\ DOMAIN versions \subseteq 1 .. clock
        /\ versions \in [DOMAIN versions -> DatasetVersion]
        /\ \A v \in DOMAIN versions : versions[v] \in DatasetVersion
    BY DEF Inv, Tables
  <2>2. rows \in [DOMAIN versions -> UNION {[S -> Row] : S \in SUBSET Feature}]
    BY Zenon DEF Inv, Tables, RowsOfVersion
  <2> Drafts = DraftsOf(versions)
    BY DEF Drafts, DraftsOf
  <2>3. /\ active \in DOMAIN versions \cup {NoVersion}
        /\ resolutions \subseteq Drafts \X Feature \X DOMAIN versions
        /\ pins \subseteq DOMAIN versions \ Drafts
    BY DEF Inv, References
  <2>4. QED
    BY <1>1, <2>1, <2>2, <2>3 DEF TypeOK
<1>3. ForestIntact
  BY DEF Inv, Tables, References, ForestIntact, Forest, Drafts, DraftsOf, NoVersion
<1>4. RetentionNeverRefuses
  BY KeptIsPrunable DEF Inv, Tables, References, RetentionNeverRefuses
<1>5. QED
  BY <1>2, <1>3, <1>4

LEMMA InvInit == Init => Inv
<1> SUFFICES ASSUME Init PROVE Inv
  OBVIOUS
<1>1. DOMAIN versions = {} /\ DOMAIN rows = {} /\ rows \in [{} -> RowsOfVersion]
  BY DEF Init, NoRows
<1>2. Tables(clock, versions, rows)
  BY <1>1, BoundsAssumption DEF Init, NoRows, Tables, Forest, Closed
<1>3. References(versions, active, resolutions, pins)
  BY <1>1 DEF Init, References, DraftsOf
<1>4. QED
  BY <1>2, <1>3 DEF Inv, Init, CurrentIsResolved
-----------------------------------------------------------------------------
(* Activation *)

\* A row gets a unit, and nothing else of it or of any other version changes.
LEMMA StampKeeps ==
    ASSUME NEW c, NEW vs, NEW rs, Tables(c, vs, rs), NEW v \in DOMAIN vs,
           \A k \in current : k[1] \in DOMAIN vs /\ k[2] \in DOMAIN rs[k[1]],
           NEW stamped, stamped = StampManagingUnits(rs, v)
    PROVE  /\ Tables(c, vs, stamped)
           /\ \A u \in DOMAIN vs \ {v} : stamped[u] = rs[u]
           /\ DOMAIN stamped[v] = DOMAIN rs[v]
           /\ \A x \in DOMAIN rs[v] : stamped[v][x].deleted = rs[v][x].deleted
<1> DEFINE previous(x) == {k \in current : k[2] = x /\ k[1] # v /\ rs[k[1]][x].unit # NoUnit}
           unit(x) == IF previous(x) # {} THEN rs[(CHOOSE k \in previous(x) : TRUE)[1]][x].unit
                                          ELSE Rule[rs[v][x].content]
           row(x) == IF rs[v][x].unit = NoUnit /\ ~rs[v][x].deleted
                     THEN [rs[v][x] EXCEPT !.unit = unit(x)] ELSE rs[v][x]
<1>1. \A u \in DOMAIN vs : rs[u] \in RowsOfVersion
  BY DEF Tables
<1>2. DOMAIN rs[v] \in SUBSET Feature /\ rs[v] \in [DOMAIN rs[v] -> Row]
  BY <1>1, RowsElim
<1>3. ASSUME NEW x \in DOMAIN rs[v] PROVE unit(x) \in Units \cup {NoUnit}
  <2>1. CASE previous(x) # {}
    <3>1. PICK k \in previous(x) : k = CHOOSE j \in previous(x) : TRUE
      BY <2>1
    <3>2. k[1] \in DOMAIN vs /\ x \in DOMAIN rs[k[1]]
      BY <3>1
    <3>3. rs[k[1]][x] \in Row
      BY <1>1, <3>2, RowsElim
    <3>4. unit(x) = rs[k[1]][x].unit
      BY <2>1, <3>1
    <3>5. QED
      BY <3>3, <3>4 DEF Row
  <2>2. CASE previous(x) = {}
    <3>1. rs[v][x].content \in Contents
      BY <1>2 DEF Row
    <3>2. QED
      BY <2>2, <3>1, DataAssumption
  <2>3. QED
    BY <2>1, <2>2
<1> HIDE DEF unit, previous
<1>4. ASSUME NEW x \in DOMAIN rs[v]
      PROVE  row(x) \in Row /\ row(x).deleted = rs[v][x].deleted
  BY <1>2, <1>3 DEF Row
<1> HIDE DEF row
<1>5. stamped = [rs EXCEPT ![v] = [x \in DOMAIN rs[v] |-> row(x)]]
  BY Zenon DEF StampManagingUnits, row, unit, previous
<1>6. rs \in [DOMAIN vs -> RowsOfVersion]
  BY DEF Tables
<1>7. [x \in DOMAIN rs[v] |-> row(x)] \in RowsOfVersion
  BY <1>2, <1>4, RowsIntro
<1>8. stamped \in [DOMAIN vs -> RowsOfVersion]
  BY <1>5, <1>6, <1>7
<1>9. Tables(c, vs, stamped)
  BY <1>8 DEF Tables
<1>10. \A u \in DOMAIN vs \ {v} : stamped[u] = rs[u]
  BY <1>5, <1>6
<1>11. stamped[v] = [x \in DOMAIN rs[v] |-> row(x)]
  BY <1>5, <1>6
<1>12. QED
  BY <1>4, <1>9, <1>10, <1>11

\* An unchanged load and an activation leave the tables that retention keeps.
LEMMA PruneStep ==
    ASSUME NEW c, NEW vs, NEW rs, NEW act, NEW res, Tables(c, vs, rs), act \in DOMAIN vs,
           References(vs, act, res, pins), Prune(vs, rs, act, res)
    PROVE  /\ Tables(c, versions', rows')
           /\ References(versions', act, resolutions', pins)
           /\ \A h \in {act} \cup pins \cup DraftsOf(vs) :
                 h \in DOMAIN versions' /\ Resolved(versions', rows', h) = Resolved(vs, rs, h)
           /\ \A u \in DOMAIN versions' : u \in DOMAIN vs /\ versions'[u] = vs[u] /\ rows'[u] = rs[u]
<1>1. Forest(vs) /\ pins \subseteq DOMAIN vs
  BY DEF Tables, References
<1>2. versions' = Restrict(vs, Kept(vs, act)) /\ rows' = Restrict(rs, Kept(vs, act))
  BY DEF Prune
<1>3. /\ Forest(versions')
      /\ \A h \in {act} \cup pins \cup DraftsOf(vs) :
            h \in DOMAIN versions' /\ Resolved(versions', rows', h) = Resolved(vs, rs, h)
  BY <1>1, <1>2, KeptResolves DEF DraftsOf
<1>4. Kept(vs, act) \subseteq DOMAIN vs
  BY <1>1, KeptClosed
<1>5. /\ DOMAIN versions' = Kept(vs, act)
      /\ DOMAIN rows' = Kept(vs, act)
      /\ \A u \in DOMAIN versions' : u \in DOMAIN vs /\ versions'[u] = vs[u] /\ rows'[u] = rs[u]
  BY <1>2, <1>4 DEF Restrict
<1>6. versions' \in [DOMAIN versions' -> DatasetVersion] /\ rows' \in [DOMAIN versions' -> RowsOfVersion]
  BY <1>2, <1>4 DEF Restrict, Tables
<1>7. \A u \in DOMAIN versions' : versions'[u].parent # NoVersion => ~versions'[versions'[u].parent].draft
  BY <1>3, <1>5 DEF Tables, Forest, Closed
<1>8. Tables(c, versions', rows')
  BY <1>3, <1>5, <1>6, <1>7 DEF Tables
<1>9. resolutions' = {r \in res : r[1] \in DOMAIN versions' /\ r[3] \in DOMAIN versions'}
  BY <1>5 DEF Prune
<1>10. DraftsOf(versions') = DraftsOf(vs) \cap DOMAIN versions'
  BY <1>5 DEF DraftsOf
<1>11. References(versions', act, resolutions', pins)
  <2>1. act \in (DOMAIN versions' \ DraftsOf(versions')) \cup {NoVersion}
    BY <1>3, <1>10 DEF References
  <2>2. pins \subseteq DOMAIN versions' \ DraftsOf(versions')
    BY <1>3, <1>10 DEF References
  <2>3. resolutions' \subseteq DraftsOf(versions') \X Feature \X (DOMAIN versions' \ DraftsOf(versions'))
    BY <1>9, <1>10 DEF References
  <2>4. QED
    BY <2>1, <2>2, <2>3 DEF References
<1>12. QED
  BY <1>3, <1>5, <1>8, <1>11
\* An activation, whatever the transaction has written before it, establishes the invariant.
LEMMA ActivateStep ==
    ASSUME NEW c, NEW vs, NEW rs, NEW v, NEW res, Tables(c, vs, rs), v \in DOMAIN vs,
           References(vs, v, res, pins),
           \A k \in current : k[1] \in DOMAIN vs /\ k[2] \in DOMAIN rs[k[1]],
           Activate(v, vs, rs, res), clock' = c, pins' = pins
    PROVE  Inv'
<1> DEFINE stamped == StampManagingUnits(rs, v)
<1>1. Tables(c, vs, stamped)
  BY StampKeeps
<1>2. Prune(vs, stamped, v, res) /\ active' = v /\ current' = Resolved(vs, stamped, v)
  BY DEF Activate
<1> HIDE DEF stamped
<1>3. /\ Tables(c, versions', rows')
      /\ References(versions', v, resolutions', pins)
      /\ Resolved(versions', rows', v) = Resolved(vs, stamped, v)
  BY <1>1, <1>2, PruneStep
<1>4. v # NoVersion
  BY DEF Tables, NoVersion
<1>5. CurrentIsResolved'
  BY <1>2, <1>3, <1>4 DEF CurrentIsResolved
<1>6. QED
  BY <1>2, <1>3, <1>5 DEF Inv

\* A version that nothing is built on is on no chain but its own.
LEMMA OnNoChain ==
    ASSUME NEW vs, NEW v, NEW u, u # v, \A x \in DOMAIN vs : vs[x].parent # u
    PROVE  u \notin Chain(vs, v)
  BY ChainIsParents

\* A change of one version nothing is built on, neither the active one, leaves the map alone.
LEMMA CurrentStable ==
    ASSUME Inv, active' = active, current' = current, Forest(versions'),
           active # NoVersion => SameOn(Chain(versions, active), versions, rows, versions', rows')
    PROVE  CurrentIsResolved'
<1>1. CASE active = NoVersion
  BY <1>1 DEF Inv, CurrentIsResolved
<1>2. CASE active # NoVersion
  <2>1. active \in DOMAIN versions /\ Forest(versions)
    BY <1>2 DEF Inv, References, Tables
  <2>2. Resolved(versions', rows', active) = Resolved(versions, rows, active)
    BY <1>2, <2>1, ResolvedStable
  <2>3. QED
    BY <1>2, <2>2 DEF Inv, CurrentIsResolved
<1>3. QED
  BY <1>1, <1>2

\* Nothing is built on a draft, so it is on no chain but its own.
LEMMA DraftOnNoChain ==
    ASSUME NEW c, NEW vs, NEW rs, Tables(c, vs, rs), NEW d \in DraftsOf(vs)
    PROVE  /\ \A x \in DOMAIN vs : vs[x].parent # d
           /\ \A v : v # d => d \notin Chain(vs, v)
<1>1. d # NoVersion
  BY DEF DraftsOf, Tables, NoVersion
<1>2. \A x \in DOMAIN vs : vs[x].parent # d
  BY <1>1 DEF DraftsOf, Tables
<1>3. QED
  BY <1>2, OnNoChain

\* Tables in which one draft is changed, and still built on a stored version that is not a draft.
LEMMA ChangeDraft ==
    ASSUME NEW c, NEW vs, NEW rs, Tables(c, vs, rs), NEW d \in DraftsOf(vs),
           NEW version \in DatasetVersion,
           version.parent # NoVersion => version.parent \in DOMAIN vs \ DraftsOf(vs),
           NEW own \in RowsOfVersion
    PROVE  LET ws == [vs EXCEPT ![d] = version]
               qs == [rs EXCEPT ![d] = own] IN
           /\ Tables(c, ws, qs)
           /\ DOMAIN ws = DOMAIN vs
           /\ version.draft => DraftsOf(ws) = DraftsOf(vs)
           /\ ~version.draft => DraftsOf(ws) = DraftsOf(vs) \ {d}
           /\ \A v \in DOMAIN vs \ {d} : SameOn(Chain(vs, v), vs, rs, ws, qs)
<1> DEFINE ws == [vs EXCEPT ![d] = version]
           qs == [rs EXCEPT ![d] = own]
<1>1. d \in DOMAIN vs /\ \A x \in DOMAIN vs : vs[x].parent # d
  BY DraftOnNoChain DEF DraftsOf
<1>2. /\ ws \in [DOMAIN vs -> DatasetVersion] /\ DOMAIN ws = DOMAIN vs
      /\ qs \in [DOMAIN vs -> RowsOfVersion]
      /\ ws[d] = version
      /\ \A u \in DOMAIN vs : u # d => ws[u] = vs[u] /\ qs[u] = rs[u]
  BY <1>1 DEF Tables
<1> HIDE DEF ws, qs
<1>3. Forest(ws)
  BY <1>2 DEF Tables, Forest, Closed
<1>4. /\ version.draft => DraftsOf(ws) = DraftsOf(vs)
      /\ ~version.draft => DraftsOf(ws) = DraftsOf(vs) \ {d}
  BY <1>1, <1>2 DEF DraftsOf
<1>5. ASSUME NEW v \in DOMAIN ws, ws[v].parent # NoVersion PROVE ~ws[ws[v].parent].draft
  BY <1>1, <1>2, <1>5 DEF Tables, DraftsOf, Forest, Closed
<1>6. Tables(c, ws, qs)
  BY <1>2, <1>3, <1>5 DEF Tables
<1>7. ASSUME NEW v \in DOMAIN vs \ {d} PROVE SameOn(Chain(vs, v), vs, rs, ws, qs)
  <2>1. Chain(vs, v) \subseteq DOMAIN vs /\ d \notin Chain(vs, v)
    BY ChainClosed, DraftOnNoChain DEF Tables
  <2>2. QED
    BY <1>2, <2>1 DEF SameOn
<1>8. QED
  BY <1>2, <1>4, <1>6, <1>7 DEF ws, qs

\* Tables to which a new version is added, built on a stored version that is not a draft, or none.
LEMMA AddVersion ==
    ASSUME NEW c \in 0 .. MaxVersions, NEW vs, NEW rs, Tables(c, vs, rs), c < MaxVersions,
           NEW version \in DatasetVersion,
           version.parent # NoVersion => version.parent \in DOMAIN vs \ DraftsOf(vs),
           NEW own \in RowsOfVersion,
           NEW ws, ws = Put(vs, c + 1, version), NEW qs, qs = Put(rs, c + 1, own)
    PROVE  /\ Tables(c + 1, ws, qs)
           /\ DOMAIN ws = DOMAIN vs \cup {c + 1}
           /\ c + 1 \notin DOMAIN vs
           /\ DraftsOf(ws) = IF version.draft THEN DraftsOf(vs) \cup {c + 1} ELSE DraftsOf(vs)
           /\ \A v \in DOMAIN vs : SameOn(Chain(vs, v), vs, rs, ws, qs)
           /\ \A v \in DOMAIN vs : qs[v] = rs[v]
<1>1. c + 1 \notin DOMAIN vs /\ c + 1 \in 1 .. c + 1 /\ c + 1 \in 0 .. MaxVersions
  BY BoundsAssumption DEF Tables
<1>2. DOMAIN rs = DOMAIN vs
  BY DEF Tables
<1>3. /\ DOMAIN ws = DOMAIN vs \cup {c + 1} /\ DOMAIN qs = DOMAIN ws
      /\ ws[c + 1] = version
      /\ qs[c + 1] = own
      /\ \A u \in DOMAIN vs : ws[u] = vs[u] /\ qs[u] = rs[u]
  BY <1>1, <1>2 DEF Put
<1>4. ws \in [DOMAIN ws -> DatasetVersion] /\ qs \in [DOMAIN ws -> RowsOfVersion]
  BY <1>1, <1>2 DEF Put, Tables
<1>5. Forest(ws)
  BY <1>3 DEF Tables, Forest, Closed
<1>6. DraftsOf(ws) = IF version.draft THEN DraftsOf(vs) \cup {c + 1} ELSE DraftsOf(vs)
  BY <1>1, <1>3 DEF DraftsOf
<1>7. ASSUME NEW v \in DOMAIN ws, ws[v].parent # NoVersion PROVE ~ws[ws[v].parent].draft
  BY <1>1, <1>3, <1>7 DEF Tables, DraftsOf, Forest, Closed
<1>8. DOMAIN ws \subseteq 1 .. c + 1
  BY <1>3 DEF Tables
<1>9. Tables(c + 1, ws, qs)
  BY <1>1, <1>4, <1>5, <1>7, <1>8 DEF Tables
<1>10. ASSUME NEW v \in DOMAIN vs PROVE SameOn(Chain(vs, v), vs, rs, ws, qs)
  BY <1>3, ChainClosed DEF SameOn, Tables
<1>11. QED
  BY <1>1, <1>3, <1>6, <1>9, <1>10
-----------------------------------------------------------------------------
(* The operations *)

LEMMA NewDraftTyped ==
    ASSUME NEW parent \in Version \cup {NoVersion}, NEW user \in Users
    PROVE  NewDraft(parent, user) \in DatasetVersion
  BY BoundsAssumption DEF NewDraft, DatasetVersion

LEMMA NoRowsTyped == NoRows \in RowsOfVersion
<1>1. NoRows \in [{} -> Row]
  BY DEF NoRows
<1>2. QED
  BY <1>1, RowsIntro

LEMMA LoadStep == ASSUME Inv, NEW supersede \in BOOLEAN, Load(supersede) PROVE Inv'
<1> DEFINE v == clock + 1
           version == [parent |-> NoVersion, draft |-> FALSE, owner |-> NoVersion, revision |-> 0]
           vs == Put(versions, v, version)
<1>1. PICK S \in SUBSET (1 .. Floor) : \E f \in [S -> Contents] :
         Activate(v, vs, Put(rows, v, [x \in S |-> [content |-> f[x], unit |-> NoUnit, deleted |-> FALSE]]),
                  resolutions)
  BY DEF Load
<1>2. PICK f \in [S -> Contents] :
         Activate(v, vs, Put(rows, v, [x \in S |-> [content |-> f[x], unit |-> NoUnit, deleted |-> FALSE]]),
                  resolutions)
  BY <1>1
<1> DEFINE own == [x \in S |-> [content |-> f[x], unit |-> NoUnit, deleted |-> FALSE]]
           rs == Put(rows, v, own)
<1>3. own \in RowsOfVersion
  <2>1. S \in SUBSET Feature
    BY BoundsAssumption DEF Feature
  <2>2. own \in [S -> Row]
    BY DEF Row
  <2>3. QED
    BY <2>1, <2>2, RowsIntro
<1>4. version \in DatasetVersion /\ version.parent = NoVersion /\ ~version.draft
  BY BoundsAssumption DEF DatasetVersion
<1>5. Tables(clock, versions, rows) /\ clock \in 0 .. MaxVersions /\ clock < MaxVersions
  BY DEF Inv, Tables, Load
<1> HIDE DEF own, version
<1>6. /\ Tables(v, vs, rs)
      /\ DOMAIN vs = DOMAIN versions \cup {v}
      /\ v \notin DOMAIN versions
      /\ DraftsOf(vs) = DraftsOf(versions)
      /\ \A u \in DOMAIN versions : rs[u] = rows[u]
  BY <1>3, <1>4, <1>5, AddVersion
<1> HIDE DEF vs, rs
<1>7. References(vs, v, resolutions, pins)
  BY <1>6 DEF Inv, References, DraftsOf
<1>8. \A k \in current : k[1] \in DOMAIN vs /\ k[2] \in DOMAIN rs[k[1]]
  BY <1>6, CurrentIsStored
<1>9. clock' = v /\ pins' = pins
  BY DEF Load
<1>10. Activate(v, vs, rs, resolutions)
  BY <1>2 DEF own, version, vs, rs
<1>11. QED
  BY <1>6, <1>7, <1>8, <1>9, <1>10, ActivateStep

LEMMA RestampStep == ASSUME Inv, RestampUnchanged PROVE Inv'
<1>1. /\ active \in DOMAIN versions
      /\ Tables(clock, versions, rows)
      /\ References(versions, active, resolutions, pins)
      /\ current = Resolved(versions, rows, active)
  BY DEF Inv, References, CurrentIsResolved, RestampUnchanged
<1>2. /\ Prune(versions, rows, active, resolutions)
      /\ clock' = clock /\ active' = active /\ current' = current /\ pins' = pins
  BY DEF RestampUnchanged
<1>3. /\ Tables(clock, versions', rows')
      /\ References(versions', active, resolutions', pins)
      /\ Resolved(versions', rows', active) = Resolved(versions, rows, active)
  BY <1>1, <1>2, PruneStep
<1>4. CurrentIsResolved'
  BY <1>1, <1>2, <1>3 DEF CurrentIsResolved, RestampUnchanged
<1>5. QED
  BY <1>2, <1>3, <1>4 DEF Inv

\* A new draft, with the rows of another one or none.
LEMMA AddDraftStep ==
    ASSUME Inv, clock < MaxVersions, NEW parent \in (DOMAIN versions \ DraftsOf(versions)) \cup {NoVersion},
           NEW user \in Users, NEW own \in RowsOfVersion,
           clock' = clock + 1,
           versions' = Put(versions, clock + 1, NewDraft(parent, user)),
           rows' = Put(rows, clock + 1, own),
           UNCHANGED <<active, current, resolutions, pins>>
    PROVE  Inv'
<1>1. Tables(clock, versions, rows) /\ clock \in 0 .. MaxVersions
  BY DEF Inv, Tables
<1>2. /\ NewDraft(parent, user) \in DatasetVersion
      /\ NewDraft(parent, user).parent = parent /\ NewDraft(parent, user).draft
  <2>1. parent \in Version \cup {NoVersion}
    BY <1>1, BoundsAssumption DEF Tables, Version
  <2>2. QED
    BY <2>1, NewDraftTyped DEF NewDraft
<1>3. /\ Tables(clock + 1, versions', rows')
      /\ DOMAIN versions' = DOMAIN versions \cup {clock + 1}
      /\ clock + 1 \notin DOMAIN versions
      /\ DraftsOf(versions') = DraftsOf(versions) \cup {clock + 1}
      /\ \A v \in DOMAIN versions : SameOn(Chain(versions, v), versions, rows, versions', rows')
  BY <1>1, <1>2, AddVersion
<1>4. References(versions', active, resolutions, pins)
  BY <1>3 DEF Inv, References
<1>5. CurrentIsResolved'
  BY <1>3, CurrentStable DEF Inv, References, Tables
<1>6. QED
  BY <1>3, <1>4, <1>5 DEF Inv

LEMMA OpenDraftStep == ASSUME Inv, NEW user \in Users, OpenDraft(user) PROVE Inv'
<1>1. active \in DOMAIN versions \ DraftsOf(versions)
  BY DEF OpenDraft, Inv, References
<1>2. QED
  BY <1>1, NoRowsTyped, AddDraftStep DEF OpenDraft

LEMMA CopyDraftStep == ASSUME Inv, NEW d \in Drafts, NEW user \in Users, CopyDraft(d, user) PROVE Inv'
<1>1. d \in DOMAIN versions /\ Tables(clock, versions, rows)
  BY DEF Inv, Drafts
<1>2. versions[d].parent \in (DOMAIN versions \ DraftsOf(versions)) \cup {NoVersion}
  BY <1>1 DEF Tables, Forest, Closed, DraftsOf
<1>3. rows[d] \in RowsOfVersion
  BY <1>1 DEF Tables
<1>4. QED
  BY <1>2, <1>3, AddDraftStep DEF CopyDraft

LEMMA DiscardDraftStep == ASSUME Inv, NEW d \in Drafts, DiscardDraft(d) PROVE Inv'
<1>1. d \in DraftsOf(versions) /\ Tables(clock, versions, rows)
  BY DEF Inv, Drafts, DraftsOf
<1>2. (\A x \in DOMAIN versions : versions[x].parent # d) /\ (\A v : v # d => d \notin Chain(versions, v))
  BY <1>1, DraftOnNoChain
<1>3. /\ DOMAIN versions' = DOMAIN versions \ {d}
      /\ DOMAIN rows' = DOMAIN versions \ {d}
      /\ \A u \in DOMAIN versions' : versions'[u] = versions[u] /\ rows'[u] = rows[u]
      /\ versions' \in [DOMAIN versions' -> DatasetVersion]
      /\ rows' \in [DOMAIN versions' -> RowsOfVersion]
  BY <1>1 DEF DiscardDraft, Restrict, Tables
<1>4. Forest(versions')
  BY <1>1, <1>2, <1>3 DEF Tables, Forest, Closed
<1>5. DraftsOf(versions') = DraftsOf(versions) \ {d}
  BY <1>3 DEF DraftsOf
<1>6. \A v \in DOMAIN versions' : versions'[v].parent # NoVersion => ~versions'[versions'[v].parent].draft
  BY <1>1, <1>3, <1>4 DEF Tables, Forest, Closed
<1>7. Tables(clock, versions', rows')
  BY <1>1, <1>3, <1>4, <1>6 DEF Tables
<1>8. active # d
  <2>1. d # NoVersion
    BY <1>1 DEF DraftsOf, Tables, NoVersion
  <2>2. QED
    BY <1>1, <2>1 DEF Inv, References
<1>9. active # NoVersion => SameOn(Chain(versions, active), versions, rows, versions', rows')
  BY <1>1, <1>2, <1>3, <1>8, ChainClosed DEF SameOn, Inv, References, Tables
<1>10. CurrentIsResolved'
  BY <1>4, <1>9, CurrentStable DEF DiscardDraft
<1>11. References(versions', active', resolutions', pins')
  <2>1. UNCHANGED <<active, pins>> /\ resolutions' = {r \in resolutions : r[1] # d}
    BY DEF DiscardDraft
  <2>2. active \in (DOMAIN versions' \ DraftsOf(versions')) \cup {NoVersion}
    BY <1>3, <1>5, <1>8 DEF Inv, References
  <2>3. pins \subseteq DOMAIN versions' \ DraftsOf(versions')
    BY <1>1, <1>3, <1>5 DEF Inv, References
  <2>4. ASSUME NEW r \in resolutions, r[1] # d
        PROVE  r \in DraftsOf(versions') \X Feature \X (DOMAIN versions' \ DraftsOf(versions'))
    BY <1>1, <1>3, <1>5, <2>4 DEF Inv, References
  <2>5. QED
    BY <2>1, <2>2, <2>3, <2>4 DEF References
<1>12. QED
  BY <1>7, <1>10, <1>11 DEF Inv, DiscardDraft
\* What an operation starts from, and what it leaves in a version, is a row.
LEMMA EditSourceTyped ==
    ASSUME NEW c, NEW vs, NEW rs, Tables(c, vs, rs), NEW d \in DOMAIN vs, NEW x \in Feature, NEW from,
           \A k \in current : k[1] \in DOMAIN vs /\ k[2] \in DOMAIN rs[k[1]],
           NEW s \in EditSource(d, vs, rs, x, from)
    PROVE  s \in Row
<1>1. ASSUME NEW u \in DOMAIN vs, NEW y \in DOMAIN rs[u] PROVE rs[u][y] \in Row
  <2>1. rs[u] \in RowsOfVersion
    BY DEF Tables
  <2>2. QED
    BY <2>1, RowsElim
<1>2. CASE x \in DOMAIN rs[d]
  BY <1>1, <1>2 DEF EditSource
<1>3. CASE x \notin DOMAIN rs[d]
  <2>1. PICK k \in (IF from = "active" THEN current ELSE Resolved(vs, rs, d)) :
           k[2] = x /\ s = rs[k[1]][x]
    BY <1>3 DEF EditSource
  <2>2. k[1] \in DOMAIN vs /\ x \in DOMAIN rs[k[1]]
    BY <2>1, ResolvedIsStored DEF Tables
  <2>3. QED
    BY <1>1, <2>1, <2>2
<1>4. QED
  BY <1>2, <1>3

LEMMA WrittenTyped ==
    ASSUME NEW c, NEW vs, NEW rs, Tables(c, vs, rs), NEW d \in DOMAIN vs, NEW x \in Feature, NEW from,
           \A k \in current : k[1] \in DOMAIN vs /\ k[2] \in DOMAIN rs[k[1]],
           NEW r \in Written(d, vs, rs, x, from)
    PROVE  r \in Row /\ (~r.deleted => r.unit \in Units)
<1>1. CASE r \in Removed(d, vs, rs, x, from)
  <2>1. PICK s \in EditSource(d, vs, rs, x, from) : r = [s EXCEPT !.deleted = TRUE]
    BY <1>1 DEF Removed
  <2>2. s \in Row
    BY EditSourceTyped
  <2>3. QED
    BY <2>1, <2>2 DEF Row
<1>2. CASE r \in Created(x) \cup Updated(d, vs, rs, x, from)
  BY <1>2 DEF Created, Updated
<1>3. QED
  BY <1>1, <1>2 DEF Written

LEMMA PutTyped ==
    ASSUME NEW f \in RowsOfVersion, NEW x \in Feature, NEW r \in Row
    PROVE  Put(f, x, r) \in RowsOfVersion
<1>1. DOMAIN f \in SUBSET Feature /\ f \in [DOMAIN f -> Row]
  BY RowsElim
<1>2. Put(f, x, r) \in [DOMAIN f \cup {x} -> Row]
  BY <1>1 DEF Put
<1>3. QED
  BY <1>1, <1>2, RowsIntro

\* A step that changes one draft, and choices made against published versions.
LEMMA ChangeDraftStep ==
    ASSUME Inv, NEW d \in Drafts, NEW version \in DatasetVersion, version.draft,
           version.parent # NoVersion => version.parent \in DOMAIN versions \ DraftsOf(versions),
           NEW own \in RowsOfVersion,
           versions' = [versions EXCEPT ![d] = version], rows' = [rows EXCEPT ![d] = own],
           resolutions' \subseteq Drafts \X Feature \X (DOMAIN versions \ DraftsOf(versions)),
           UNCHANGED <<clock, active, current, pins>>
    PROVE  Inv'
<1>1. d \in DraftsOf(versions) /\ Tables(clock, versions, rows) /\ Drafts = DraftsOf(versions)
  BY DEF Inv, Drafts, DraftsOf
<1>2. /\ Tables(clock, versions', rows')
      /\ DOMAIN versions' = DOMAIN versions
      /\ DraftsOf(versions') = DraftsOf(versions)
      /\ \A v \in DOMAIN versions \ {d} : SameOn(Chain(versions, v), versions, rows, versions', rows')
  <2> DEFINE ws == [versions EXCEPT ![d] = version]
             qs == [rows EXCEPT ![d] = own]
  <2>1. /\ Tables(clock, ws, qs)
        /\ DOMAIN ws = DOMAIN versions
        /\ \A v \in DOMAIN versions \ {d} : SameOn(Chain(versions, v), versions, rows, ws, qs)
    BY <1>1, ChangeDraft
  <2>2. DraftsOf(ws) = DraftsOf(versions)
    BY <1>1 DEF DraftsOf, Tables
  <2>3. ws = versions' /\ qs = rows'
    OBVIOUS
  <2> HIDE DEF ws, qs
  <2>4. QED
    BY <2>1, <2>2, <2>3
<1>3. References(versions', active', resolutions', pins')
  BY <1>1, <1>2 DEF Inv, References
<1>4. active # NoVersion => active \in DOMAIN versions \ {d}
  BY <1>1 DEF Inv, References
<1>5. CurrentIsResolved'
  BY <1>2, <1>4, CurrentStable DEF Tables
<1>6. QED
  BY <1>2, <1>3, <1>5 DEF Inv

\* The revision of a draft goes on; what it is built on stays.
LEMMA BumpTyped ==
    ASSUME Inv, NEW d \in Drafts
    PROVE  LET bumped == [versions[d] EXCEPT !.revision = NextRevision(@)] IN
           /\ BumpRevision(versions, d) = [versions EXCEPT ![d] = bumped]
           /\ bumped \in DatasetVersion
           /\ bumped.draft
           /\ bumped.parent = versions[d].parent
           /\ versions[d].parent # NoVersion =>
                 versions[d].parent \in DOMAIN versions \ DraftsOf(versions)
<1>1. d \in DOMAIN versions /\ versions[d].draft /\ versions[d] \in DatasetVersion
  BY DEF Drafts, Inv, Tables
<1>2. NextRevision(versions[d].revision) \in 0 .. MaxRevision
  BY <1>1, BoundsAssumption DEF DatasetVersion, NextRevision
<1>3. versions[d].parent # NoVersion => versions[d].parent \in DOMAIN versions \ DraftsOf(versions)
  BY <1>1 DEF Inv, Tables, Forest, Closed, DraftsOf
<1>4. QED
  BY <1>1, <1>2, <1>3 DEF DatasetVersion, BumpRevision

\* A step that goes on to the next revision of a draft, with other rows in it.
LEMMA BumpStep ==
    ASSUME Inv, NEW d \in Drafts, NEW own \in RowsOfVersion,
           versions' = BumpRevision(versions, d), rows' = [rows EXCEPT ![d] = own],
           resolutions' \subseteq Drafts \X Feature \X (DOMAIN versions \ DraftsOf(versions)),
           UNCHANGED <<clock, active, current, pins>>
    PROVE  Inv'
<1> DEFINE bumped == [versions[d] EXCEPT !.revision = NextRevision(@)]
<1>1. /\ versions' = [versions EXCEPT ![d] = bumped]
      /\ bumped \in DatasetVersion /\ bumped.draft
      /\ bumped.parent # NoVersion => bumped.parent \in DOMAIN versions \ DraftsOf(versions)
  BY BumpTyped
<1> HIDE DEF bumped
<1>2. QED
  BY <1>1, ChangeDraftStep

LEMMA EditDraftStep ==
    ASSUME Inv, NEW d \in Drafts, NEW x \in Feature, NEW from, EditDraft(d, x, from)
    PROVE  Inv'
<1>1. d \in DOMAIN versions /\ Tables(clock, versions, rows) /\ rows[d] \in RowsOfVersion
  BY DEF Inv, Tables, Drafts
<1>2. PICK r \in Written(d, versions, rows, x, from) : rows' = [rows EXCEPT ![d] = Put(@, x, r)]
  BY DEF EditDraft
<1>3. r \in Row
  BY <1>1, CurrentIsStored, WrittenTyped
<1>4. Put(rows[d], x, r) \in RowsOfVersion /\ rows' = [rows EXCEPT ![d] = Put(rows[d], x, r)]
  BY <1>1, <1>2, <1>3, PutTyped DEF Tables
<1>5. resolutions' \subseteq Drafts \X Feature \X (DOMAIN versions \ DraftsOf(versions))
  BY DEF EditDraft, Inv, References, Drafts, DraftsOf
<1>6. QED
  BY <1>4, <1>5, BumpStep DEF EditDraft

LEMMA ResolveMineStep ==
    ASSUME Inv, NEW d \in Drafts, NEW x \in Feature, ResolveMine(d, x)
    PROVE  Inv'
<1>1. d \in DOMAIN versions /\ rows[d] \in RowsOfVersion /\ rows' = [rows EXCEPT ![d] = rows[d]]
  BY DEF Inv, Tables, Drafts, ResolveMine
<1>2. Drafts = DraftsOf(versions)
  BY DEF Drafts, DraftsOf
<1>3. resolutions' \subseteq Drafts \X Feature \X (DOMAIN versions \ DraftsOf(versions))
  <2>1. <<d, x, active>> \in Drafts \X Feature \X (DOMAIN versions \ DraftsOf(versions))
    BY DEF ResolveMine, Inv, References
  <2>2. QED
    BY <1>2, <2>1 DEF ResolveMine, Inv, References
<1>4. QED
  BY <1>1, <1>3, BumpStep DEF ResolveMine

LEMMA ResolveTheirsStep ==
    ASSUME Inv, NEW d \in Drafts, NEW x \in Feature, ResolveTheirs(d, x)
    PROVE  Inv'
<1>1. d \in DOMAIN versions /\ rows \in [DOMAIN versions -> RowsOfVersion] /\ Drafts = DraftsOf(versions)
  BY DEF Inv, Tables, Drafts, DraftsOf
<1> DEFINE own == Restrict(rows[d], DOMAIN rows[d] \ {x})
<1>2. own \in RowsOfVersion
  <2>1. DOMAIN rows[d] \in SUBSET Feature /\ rows[d] \in [DOMAIN rows[d] -> Row]
    BY <1>1, RowsElim
  <2>2. own \in [DOMAIN rows[d] \ {x} -> Row]
    BY <2>1 DEF Restrict
  <2>3. QED
    BY <2>1, <2>2, RowsIntro
<1>3. rows' = [rows EXCEPT ![d] = own]
  BY <1>1 DEF ResolveTheirs
<1>4. resolutions' \subseteq Drafts \X Feature \X (DOMAIN versions \ DraftsOf(versions))
  BY <1>1 DEF ResolveTheirs, Inv, References
<1>5. QED
  BY <1>2, <1>3, <1>4, BumpStep DEF ResolveTheirs
\* A rebased draft is built on the active version.
LEMMA RebasedTyped ==
    ASSUME Inv, NEW d \in Drafts, active # NoVersion
    PROVE  LET rebased == [versions[d] EXCEPT !.revision = NextRevision(@), !.parent = active] IN
           /\ Rebased(d) = [versions EXCEPT ![d] = rebased]
           /\ rebased \in DatasetVersion
           /\ rebased.draft
           /\ rebased.parent \in DOMAIN versions \ DraftsOf(versions)
<1>1. /\ d \in DOMAIN versions /\ versions[d].draft /\ versions[d] \in DatasetVersion
      /\ versions \in [DOMAIN versions -> DatasetVersion]
  BY DEF Drafts, Inv, Tables
<1>2. NextRevision(versions[d].revision) \in 0 .. MaxRevision
  BY <1>1, BoundsAssumption DEF DatasetVersion, NextRevision
<1>3. active \in DOMAIN versions \ DraftsOf(versions)
  BY DEF Inv, References
<1>4. active \in Version
  BY <1>3, BoundsAssumption DEF Inv, Tables, Version
<1>5. Rebased(d) = [versions EXCEPT ![d] = [versions[d] EXCEPT !.revision = NextRevision(@), !.parent = active]]
  BY <1>1 DEF Rebased, BumpRevision, DatasetVersion
<1>6. QED
  BY <1>1, <1>2, <1>3, <1>4, <1>5 DEF DatasetVersion

LEMMA RebaseDraftStep == ASSUME Inv, NEW d \in Drafts, RebaseDraft(d) PROVE Inv'
<1> DEFINE rebased == [versions[d] EXCEPT !.revision = NextRevision(@), !.parent = active]
<1>1. /\ versions' = [versions EXCEPT ![d] = rebased]
      /\ rebased \in DatasetVersion /\ rebased.draft
      /\ rebased.parent \in DOMAIN versions \ DraftsOf(versions)
  BY RebasedTyped DEF RebaseDraft
<1> HIDE DEF rebased
<1>2. rows[d] \in RowsOfVersion /\ rows' = [rows EXCEPT ![d] = rows[d]]
  BY DEF Inv, Tables, Drafts, RebaseDraft
<1>3. resolutions' \subseteq Drafts \X Feature \X (DOMAIN versions \ DraftsOf(versions))
  <2>1. Drafts = DraftsOf(versions)
    BY DEF Drafts, DraftsOf
  <2>2. QED
    BY <2>1 DEF RebaseDraft, WithoutChoices, Inv, References
<1>4. UNCHANGED <<clock, active, current, pins>>
  BY DEF RebaseDraft
<1>5. QED
  BY <1>1, <1>2, <1>3, <1>4, ChangeDraftStep

LEMMA PublishDraftStep == ASSUME Inv, NEW d \in Drafts, PublishDraft(d) PROVE Inv'
<1> DEFINE onto == IF versions[d].parent = active THEN versions ELSE Rebased(d)
           vs == [onto EXCEPT ![d].draft = FALSE]
           version == [onto[d] EXCEPT !.draft = FALSE]
<1>1. /\ d \in DOMAIN versions /\ d \in DraftsOf(versions) /\ Drafts = DraftsOf(versions)
      /\ Tables(clock, versions, rows)
      /\ rows[d] \in RowsOfVersion /\ rows = [rows EXCEPT ![d] = rows[d]]
  BY DEF Inv, Tables, Drafts, DraftsOf
<1>2. active # NoVersion /\ Activate(d, vs, rows, WithoutChoices(d)) /\ clock' = clock /\ pins' = pins
  BY DEF PublishDraft
<1>3. /\ vs = [versions EXCEPT ![d] = version]
      /\ version \in DatasetVersion
      /\ ~version.draft
      /\ version.parent \in DOMAIN versions \ DraftsOf(versions)
  <2>1. CASE versions[d].parent = active
    <3>1. onto = versions /\ onto[d] = versions[d] /\ versions[d] \in DatasetVersion
      BY <1>1, <2>1 DEF Tables
    <3>2. active \in DOMAIN versions \ DraftsOf(versions)
      BY <1>2 DEF Inv, References
    <3> HIDE DEF onto
    <3>3. QED
      BY <1>1, <2>1, <3>1, <3>2 DEF DatasetVersion
  <2>2. CASE versions[d].parent # active
    <3> DEFINE rebased == [versions[d] EXCEPT !.revision = NextRevision(@), !.parent = active]
    <3>1. /\ onto = [versions EXCEPT ![d] = rebased]
          /\ rebased \in DatasetVersion
          /\ rebased.parent \in DOMAIN versions \ DraftsOf(versions)
      BY <1>2, <2>2, RebasedTyped
    <3> HIDE DEF onto, rebased
    <3>2. onto[d] = rebased
      BY <1>1, <3>1
    <3>3. QED
      BY <1>1, <3>1, <3>2 DEF DatasetVersion
  <2>3. QED
    BY <2>1, <2>2
<1> HIDE DEF onto, vs, version
<1>4. Tables(clock, vs, rows) /\ DOMAIN vs = DOMAIN versions
  <2>1. /\ Tables(clock, [versions EXCEPT ![d] = version], [rows EXCEPT ![d] = rows[d]])
        /\ DOMAIN [versions EXCEPT ![d] = version] = DOMAIN versions
    BY <1>1, <1>3, ChangeDraft
  <2>2. QED
    BY <1>1, <1>3, <2>1
<1>5. DraftsOf(vs) = DraftsOf(versions) \ {d}
  BY <1>1, <1>3 DEF DraftsOf
<1>6. References(vs, d, WithoutChoices(d), pins)
  BY <1>1, <1>4, <1>5 DEF Inv, References, WithoutChoices
<1>7. \A k \in current : k[1] \in DOMAIN vs /\ k[2] \in DOMAIN rows[k[1]]
  BY <1>4, CurrentIsStored
<1>8. QED
  BY <1>1, <1>2, <1>4, <1>6, <1>7, ActivateStep

LEMMA DirectWriteStep ==
    ASSUME Inv, NEW user \in Users, NEW x \in Feature, DirectWrite(user, x)
    PROVE  Inv'
<1> DEFINE v == clock + 1
           opened == Put(versions, v, NewDraft(active, user))
           version == [NewDraft(active, user) EXCEPT !.draft = FALSE]
           vs == Put(versions, v, version)
<1>1. PICK r \in Written(v, opened, Put(rows, v, NoRows), x, "draft") :
         LET rs == Put(rows, v, [y \in {x} |-> r])
         IN  /\ Publishable(user, rs, v)
             /\ Activate(v, [opened EXCEPT ![v].draft = FALSE], rs, resolutions)
  BY DEF DirectWrite
<1> DEFINE own == [y \in {x} |-> r]
           rs == Put(rows, v, own)
<1>2. /\ Tables(clock, versions, rows) /\ clock \in 0 .. MaxVersions /\ clock < MaxVersions
      /\ active \in DOMAIN versions \ DraftsOf(versions)
      /\ clock' = v /\ pins' = pins
  BY DEF Inv, Tables, References, DirectWrite
<1>3. /\ NewDraft(active, user) \in DatasetVersion
      /\ NewDraft(active, user).parent = active /\ NewDraft(active, user).draft
  <2>1. active \in Version \cup {NoVersion}
    BY <1>2, BoundsAssumption DEF Tables, Version
  <2>2. QED
    BY <2>1, NewDraftTyped DEF NewDraft
<1>4. version \in DatasetVersion /\ version.parent = active /\ ~version.draft
  BY <1>3 DEF DatasetVersion
<1>5. /\ Tables(v, opened, Put(rows, v, NoRows))
      /\ DOMAIN opened = DOMAIN versions \cup {v}
      /\ \A u \in DOMAIN versions : Put(rows, v, NoRows)[u] = rows[u]
  BY <1>2, <1>3, NoRowsTyped, AddVersion
<1>6. r \in Row
  <2>1. \A k \in current : k[1] \in DOMAIN opened /\ k[2] \in DOMAIN Put(rows, v, NoRows)[k[1]]
    BY <1>5, CurrentIsStored
  <2>2. v \in DOMAIN opened
    BY <1>5
  <2> HIDE DEF opened, v
  <2>3. QED
    BY <1>5, <2>1, <2>2, WrittenTyped
<1>7. own \in RowsOfVersion
  <2>1. own \in [{x} -> Row]
    BY <1>6
  <2>2. QED
    BY <2>1, RowsIntro
<1>8. [opened EXCEPT ![v].draft = FALSE] = vs
  BY <1>2, <1>3 DEF Put, Tables
<1> HIDE DEF own, version, opened
<1>9. /\ Tables(v, vs, rs)
      /\ DOMAIN vs = DOMAIN versions \cup {v}
      /\ v \notin DOMAIN versions
      /\ \A u \in DOMAIN versions : rs[u] = rows[u]
  BY <1>2, <1>4, <1>7, AddVersion
<1>10. DraftsOf(vs) = DraftsOf(versions)
  BY <1>2, <1>4, <1>9 DEF DraftsOf, Put, Tables
<1>11. References(vs, v, resolutions, pins)
  <2>1. v \notin DraftsOf(versions)
    BY <1>9 DEF DraftsOf
  <2> HIDE DEF vs, v
  <2>2. QED
    BY <1>9, <1>10, <2>1 DEF Inv, References
<1>12. \A k \in current : k[1] \in DOMAIN vs /\ k[2] \in DOMAIN rs[k[1]]
  <2> HIDE DEF vs, rs
  <2> QED BY <1>9, CurrentIsStored
<1>13. Activate(v, vs, rs, resolutions)
  BY <1>1, <1>8 DEF own
<1> HIDE DEF vs, rs
<1>14. QED
  BY <1>2, <1>9, <1>11, <1>12, <1>13, ActivateStep

LEMMA PinStep == ASSUME Inv, NEW v \in DOMAIN versions, Pin(v) PROVE Inv'
  BY DEF Inv, References, CurrentIsResolved, DraftsOf, Pin

LEMMA UnpinStep == ASSUME Inv, NEW v \in pins, Unpin(v) PROVE Inv'
  BY DEF Inv, References, CurrentIsResolved, Unpin

\* Every operation keeps the invariant.
LEMMA InvStep == Inv /\ [Next]_vars => Inv'
<1> SUFFICES ASSUME Inv, [Next]_vars PROVE Inv'
  OBVIOUS
<1>1. ASSUME NEW supersede \in BOOLEAN, Load(supersede) PROVE Inv'
  BY <1>1, LoadStep
<1>2. CASE RestampUnchanged
  BY <1>2, RestampStep
<1>3. ASSUME NEW user \in Users, OpenDraft(user) PROVE Inv'
  BY <1>3, OpenDraftStep
<1>4. ASSUME NEW d \in Drafts, NEW user \in Users, CopyDraft(d, user) PROVE Inv'
  BY <1>4, CopyDraftStep
<1>5. ASSUME NEW d \in Drafts, DiscardDraft(d) PROVE Inv'
  BY <1>5, DiscardDraftStep
<1>6. ASSUME NEW d \in Drafts, NEW x \in Feature, NEW from \in UntouchedFrom, EditDraft(d, x, from)
      PROVE  Inv'
  BY <1>6, EditDraftStep
<1>7. ASSUME NEW d \in Drafts, NEW x \in Feature, ResolveMine(d, x) PROVE Inv'
  BY <1>7, ResolveMineStep
<1>8. ASSUME NEW d \in Drafts, NEW x \in Feature, ResolveTheirs(d, x) PROVE Inv'
  BY <1>8, ResolveTheirsStep
<1>9. ASSUME NEW d \in Drafts, RebaseDraft(d) PROVE Inv'
  BY <1>9, RebaseDraftStep
<1>10. ASSUME NEW d \in Drafts, PublishDraft(d) PROVE Inv'
  BY <1>10, PublishDraftStep
<1>11. ASSUME NEW user \in Users, NEW x \in Feature, DirectWrite(user, x) PROVE Inv'
  BY <1>11, DirectWriteStep
<1>12. ASSUME NEW v \in DOMAIN versions, Pin(v) PROVE Inv'
  BY <1>12, PinStep
<1>13. ASSUME NEW v \in pins, Unpin(v) PROVE Inv'
  BY <1>13, UnpinStep
<1>14. CASE UNCHANGED vars
  BY <1>14 DEF vars, Inv, CurrentIsResolved
<1>15. QED
  BY <1>1, <1>2, <1>3, <1>4, <1>5, <1>6, <1>7, <1>8, <1>9, <1>10, <1>11, <1>12, <1>13, <1>14 DEF Next

-----------------------------------------------------------------------------
(* The theorems about the tables *)

\* What every theorem of this module rests on.
THEOREM Invariance == Spec => []Inv
  BY InvInit, InvStep, PTL DEF Spec

\* The tables have their types, however many versions, features, units and users there are.
THEOREM TypeCorrect == Spec => []TypeOK
  BY Invariance, InvIsTyped, PTL

\* Retention and discarded drafts never take a version another one is built on.
THEOREM ForestStaysIntact == Spec => []ForestIntact
  BY Invariance, InvIsTyped, PTL

\* assertPrunable never throws, so no activation is refused by its own clean-up.
THEOREM RetentionIsNeverRefused == Spec => []RetentionNeverRefuses
  BY Invariance, InvIsTyped, PTL

\* The rows flagged is_current are the resolved state of the active version in every reachable state.
THEOREM MapShowsActiveVersion == Spec => []CurrentIsResolved
<1>1. Inv => CurrentIsResolved
  BY DEF Inv
<1>2. QED
  BY <1>1, Invariance, PTL

-----------------------------------------------------------------------------
(* What a version says of a feature *)

\* What a row shows: its content and its unit, or nothing where it is a tombstone.
Shown(r) == IF r.deleted THEN {} ELSE {<<r.content, r.unit>>}

\* What a version says of a feature depends on the parents and the rows of its chain only.
LEMMA ContentStable ==
    ASSUME NEW vs, Forest(vs), NEW ws, Forest(ws), NEW v \in DOMAIN vs, NEW rs, NEW qs,
           SameOn(Chain(vs, v), vs, rs, ws, qs)
    PROVE  /\ Resolved(ws, qs, v) = Resolved(vs, rs, v)
           /\ \A k \in Resolved(vs, rs, v) : qs[k[1]] = rs[k[1]]
           /\ \A x : Content(qs, Resolved(ws, qs, v), x) = Content(rs, Resolved(vs, rs, v), x)
<1>1. Resolved(ws, qs, v) = Resolved(vs, rs, v)
  BY ResolvedStable
<1>2. ASSUME NEW k \in Resolved(vs, rs, v) PROVE qs[k[1]] = rs[k[1]]
  <2>1. k[1] \in Chain(vs, v)
    BY DEF Resolved
  <2>2. QED
    BY <2>1 DEF SameOn
<1>3. ASSUME NEW x PROVE Content(qs, Resolved(vs, rs, v), x) = Content(rs, Resolved(vs, rs, v), x)
  BY <1>2 DEF Content
<1>4. QED
  BY <1>1, <1>2, <1>3

\* What is said of a feature by one row, or by none.
LEMMA ContentOfRow ==
    ASSUME NEW rs, NEW keys, NEW v, NEW x,
           \A k : (k \in keys /\ k[2] = x) <=> (k = <<v, x>> /\ ~rs[v][x].deleted)
    PROVE  Content(rs, keys, x) = Shown(rs[v][x])
<1> DEFINE about == {k \in keys : k[2] = x}
           said(k) == <<rs[k[1]][x].content, rs[k[1]][x].unit>>
<1>1. Content(rs, keys, x) = {said(k) : k \in about}
  BY DEF Content
<1>2. CASE rs[v][x].deleted
  <2>1. about = {}
    BY <1>2
  <2>2. QED
    BY <1>1, <1>2, <2>1 DEF Shown
<1>3. CASE ~rs[v][x].deleted
  <2>1. about = {<<v, x>>}
    BY <1>3
  <2>2. {said(k) : k \in {<<v, x>>}} = {said(<<v, x>>)}
    <3> HIDE DEF said
    <3> QED OBVIOUS
  <2>3. Content(rs, keys, x) = {said(<<v, x>>)}
    BY <1>1, <2>1, <2>2
  <2>4. QED
    BY <1>3, <2>3 DEF Shown
<1>4. QED
  BY <1>2, <1>3

LEMMA ContentOfNone ==
    ASSUME NEW rs, NEW keys, NEW x, \A k \in keys : k[2] # x
    PROVE  Content(rs, keys, x) = {}
  BY DEF Content

\* A load says of a feature what its own row says.
LEMMA ContentOfRoot ==
    ASSUME NEW vs, Forest(vs), NEW v \in DOMAIN vs, vs[v].parent = NoVersion, NEW rs, NEW x \in Feature
    PROVE  Content(rs, Resolved(vs, rs, v), x) = IF x \in DOMAIN rs[v] THEN Shown(rs[v][x]) ELSE {}
<1>1. Chain(vs, v) = {v}
  <2>1. Closed(vs, {v})
    BY DEF Closed
  <2>2. Chain(vs, v) \subseteq {v}
    BY <2>1, ChainLeast
  <2>3. QED
    BY <2>2, ChainClosed
<1>2. ASSUME NEW k
      PROVE  (k \in Resolved(vs, rs, v) /\ k[2] = x)
                <=> (k = <<v, x>> /\ x \in DOMAIN rs[v] /\ ~rs[v][x].deleted)
  BY <1>1 DEF Resolved
<1>3. CASE x \in DOMAIN rs[v]
  BY <1>2, <1>3, ContentOfRow
<1>4. CASE x \notin DOMAIN rs[v]
  BY <1>2, <1>4, ContentOfNone
<1>5. QED
  BY <1>3, <1>4

\* A version that nothing is built on says what its own row says, and else what its parent says.
LEMMA ContentOfLeaf ==
    ASSUME NEW vs, Forest(vs), NEW v \in DOMAIN vs, NEW p, p = vs[v].parent, p # NoVersion,
           \A u \in DOMAIN vs : vs[u].parent # v, NEW rs, NEW x \in Feature
    PROVE  Content(rs, Resolved(vs, rs, v), x) =
              IF x \in DOMAIN rs[v] THEN Shown(rs[v][x]) ELSE Content(rs, Resolved(vs, rs, p), x)
<1>1. /\ p \in DOMAIN vs /\ p # v
      /\ Chain(vs, v) = {v} \cup Chain(vs, p)
  BY ChainOfParent DEF Forest, Closed
<1>2. v \notin Chain(vs, p)
  BY <1>1, OnNoChain
<1>3. ASSUME NEW a \in Chain(vs, p) PROVE Chain(vs, a) \subseteq Chain(vs, p)
  BY <1>1, ChainOfAncestor
<1>4. v \in Chain(vs, v)
  BY <1>1
<1> DEFINE own == {b \in Chain(vs, v) : x \in DOMAIN rs[b]}
           lower == {b \in Chain(vs, p) : x \in DOMAIN rs[b]}
<1>5. CASE x \in DOMAIN rs[v]
  <2>1. ASSUME NEW a \in Chain(vs, v) PROVE own \subseteq Chain(vs, a) <=> a = v
    BY <1>1, <1>2, <1>3, <1>4, <1>5
  <2>2. ASSUME NEW k
        PROVE  (k \in Resolved(vs, rs, v) /\ k[2] = x) <=> (k = <<v, x>> /\ ~rs[v][x].deleted)
    BY <1>4, <1>5, <2>1 DEF Resolved
  <2>3. QED
    BY <1>5, <2>2, ContentOfRow
<1>6. CASE x \notin DOMAIN rs[v]
  <2>1. own = lower
    BY <1>1, <1>6
  <2>2. ASSUME NEW k
        PROVE  (k \in Resolved(vs, rs, v) /\ k[2] = x) <=> (k \in Resolved(vs, rs, p) /\ k[2] = x)
    BY <1>1, <1>6, <2>1 DEF Resolved
  <2>3. {k \in Resolved(vs, rs, v) : k[2] = x} = {k \in Resolved(vs, rs, p) : k[2] = x}
    BY <2>2
  <2>4. QED
    BY <1>6, <2>3 DEF Content
<1>7. QED
  BY <1>5, <1>6

-----------------------------------------------------------------------------
(* What a step leaves of a chain, of the map and of a draft *)

\* The step keeps version h, what it is built on, and what they store.
KeepsChain(h) == h \in DOMAIN versions /\ SameOn(Chain(versions, h), versions, rows, versions', rows')

Official == [x \in Feature |-> Content(rows, current, x)]

\* What the rest of the atlas sees of a draft.
DraftState(d) ==
    [base  |-> ContentAt(versions[d].parent),
     patch |-> Patch(d),
     mine  |-> {x \in Feature : <<d, x, active>> \in resolutions}]

PersonalState == [d \in Drafts |-> DraftState(d)]

\* Every live row names the unit that manages its feature.
Managed(vs, rs) ==
    \A v \in DOMAIN vs : \A x \in DOMAIN rs[v] : ~rs[v][x].deleted => rs[v][x].unit \in Units

\* Every draft is built on a version.
Based(vs) == \A d \in DraftsOf(vs) : vs[d].parent # NoVersion

\* What a layer says of a feature.
Statement == {{}} \cup {{p} : p \in Contents \X Units}

\* The map says one thing of a feature, or nothing.
MapInv == \A x \in Feature : Content(rows, current, x) \in Statement

LayerInv == Inv /\ Managed(versions, rows) /\ Based(versions) /\ MapInv

LEMMA SameOnSubset ==
    ASSUME NEW S, NEW T \in SUBSET S, NEW vs, NEW rs, NEW ws, NEW qs, SameOn(S, vs, rs, ws, qs)
    PROVE  SameOn(T, vs, rs, ws, qs)
  BY DEF SameOn

LEMMA SameOnTransitive ==
    ASSUME NEW S, NEW vs, NEW rs, NEW ws, NEW qs, NEW us, NEW ps,
           SameOn(S, vs, rs, ws, qs), SameOn(S, ws, qs, us, ps)
    PROVE  SameOn(S, vs, rs, us, ps)
  BY DEF SameOn

LEMMA ChainContent ==
    ASSUME Forest(versions), Forest(versions'), NEW h \in DOMAIN versions, KeepsChain(h)
    PROVE  /\ h \in DOMAIN versions'
           /\ Resolved(versions', rows', h) = Resolved(versions, rows, h)
           /\ \A k \in Resolved(versions, rows, h) : rows'[k[1]] = rows[k[1]]
           /\ \A x : Content(rows', Resolved(versions', rows', h), x)
                        = Content(rows, Resolved(versions, rows, h), x)
<1>1. SameOn(Chain(versions, h), versions, rows, versions', rows')
  BY DEF KeepsChain
<1>2. h \in DOMAIN versions'
  BY <1>1, ChainClosed DEF SameOn
<1>3. QED
  BY <1>1, <1>2, ContentStable

\* The map stays as it is when the flags and the chain of the active version do.
LEMMA OfficialStays ==
    ASSUME Inv, Inv', current' = current, active # NoVersion => KeepsChain(active)
    PROVE  /\ \A x : Content(rows', current', x) = Content(rows, current, x)
           /\ Official' = Official
<1>1. ASSUME NEW x PROVE Content(rows', current', x) = Content(rows, current, x)
  <2>1. CASE active = NoVersion
    <3>1. current = {}
      BY <2>1 DEF Inv, CurrentIsResolved
    <3>2. QED
      BY <3>1 DEF Content
  <2>2. CASE active # NoVersion
    <3>1. active \in DOMAIN versions /\ Forest(versions) /\ Forest(versions')
      BY <2>2 DEF Inv, References, Tables
    <3>2. current = Resolved(versions, rows, active)
      BY <2>2 DEF Inv, CurrentIsResolved
    <3>3. \A k \in current : rows'[k[1]] = rows[k[1]]
      BY <2>2, <3>1, <3>2, ChainContent
    <3>4. QED
      BY <3>3 DEF Content
  <2>3. QED
    BY <2>1, <2>2
<1>2. QED
  BY <1>1 DEF Official

\* What the map says is what the active version says.
LEMMA MapIsActive ==
    ASSUME Inv, active # NoVersion
    PROVE  /\ active \in DOMAIN versions \ DraftsOf(versions)
           /\ \A x : Content(rows, current, x) = Content(rows, Resolved(versions, rows, active), x)
           /\ Official = ContentAt(active)
  BY DEF Inv, References, CurrentIsResolved, Official, ContentAt

\* A draft whose chain is kept keeps its base state and its patch.
LEMMA DraftStays ==
    ASSUME Inv, Inv', Based(versions), NEW e \in Drafts, KeepsChain(e)
    PROVE  /\ versions[e].parent \in DOMAIN versions
           /\ versions'[e].parent = versions[e].parent
           /\ KeepsChain(versions[e].parent)
           /\ ContentAt(versions[e].parent)' = ContentAt(versions[e].parent)
           /\ Patch(e)' = Patch(e)
<1> DEFINE p == versions[e].parent
<1>1. /\ e \in DOMAIN versions /\ e \in DraftsOf(versions)
      /\ Forest(versions) /\ Forest(versions')
  BY DEF Drafts, DraftsOf, Inv, Tables
<1>2. p # NoVersion /\ p \in DOMAIN versions
  BY <1>1 DEF Based, Forest, Closed
<1>3. e \in Chain(versions, e) /\ Chain(versions, p) \subseteq Chain(versions, e)
  BY <1>1, <1>2, ChainClosed, ChainOfParent
<1>4. versions'[e].parent = p /\ rows'[e] = rows[e]
  BY <1>3 DEF KeepsChain, SameOn
<1>5. KeepsChain(p)
  BY <1>2, <1>3, SameOnSubset DEF KeepsChain
<1>6. ASSUME NEW x
      PROVE  Content(rows', Resolved(versions', rows', p), x) = Content(rows, Resolved(versions, rows, p), x)
  <2> HIDE DEF p
  <2> QED BY <1>1, <1>2, <1>5, ChainContent
<1>7. ContentAt(p)' = ContentAt(p)
  BY <1>4, <1>6 DEF ContentAt
<1>8. Patch(e)' = Patch(e)
  BY <1>4 DEF Patch
<1>9. QED
  BY <1>2, <1>4, <1>5, <1>7, <1>8

-----------------------------------------------------------------------------
(* Retention and activation *)

\* Retention keeps the active version, the pins and the drafts, each with its chain.
LEMMA PruneKeeps ==
    ASSUME NEW c, NEW vs, NEW rs, NEW act, NEW res, Tables(c, vs, rs), act \in DOMAIN vs,
           References(vs, act, res, pins), Prune(vs, rs, act, res)
    PROVE  /\ \A h \in {act} \cup DraftsOf(vs) :
                 /\ h \in DOMAIN versions' /\ versions'[h] = vs[h] /\ rows'[h] = rs[h]
                 /\ SameOn(Chain(vs, h), vs, rs, versions', rows')
           /\ Drafts' = DraftsOf(vs)
           /\ \A r : (r \in resolutions' /\ r[3] = act) <=> (r \in res /\ r[3] = act)
<1> DEFINE kept == Kept(vs, act)
<1>1. Forest(vs) /\ pins \subseteq DOMAIN vs
  BY DEF Tables, References
<1>2. /\ versions' = Restrict(vs, kept) /\ rows' = Restrict(rs, kept)
      /\ resolutions' = {r \in res : r[1] \in kept /\ r[3] \in kept}
  BY DEF Prune
<1>3. kept \subseteq DOMAIN vs
  BY <1>1, KeptClosed
<1>4. ASSUME NEW h \in {act} \cup DraftsOf(vs), NEW u \in Chain(vs, h) PROVE u \in kept
  <2>1. h \in {act} \cup pins \cup {v \in DOMAIN vs : vs[v].draft}
    BY DEF DraftsOf
  <2>2. QED
    BY <2>1, KeptMembers, Zenon
<1>5. ASSUME NEW h \in {act} \cup DraftsOf(vs) PROVE h \in kept
  <2>1. h \in Chain(vs, h)
    BY <1>1, ChainClosed DEF DraftsOf
  <2>2. QED
    BY <1>4, <2>1
<1> HIDE DEF kept
<1>6. DOMAIN versions' = kept /\ \A u \in kept : versions'[u] = vs[u] /\ rows'[u] = rs[u]
  BY <1>2 DEF Restrict
<1>7. \A h \in {act} \cup DraftsOf(vs) :
         /\ h \in DOMAIN versions' /\ versions'[h] = vs[h] /\ rows'[h] = rs[h]
         /\ SameOn(Chain(vs, h), vs, rs, versions', rows')
  BY <1>4, <1>5, <1>6 DEF SameOn
<1>8. Drafts' = DraftsOf(vs)
  BY <1>3, <1>5, <1>6 DEF Drafts, DraftsOf
<1>9. ASSUME NEW r \in res, r[3] = act PROVE r[1] \in kept /\ r[3] \in kept
  BY <1>5, <1>9 DEF References
<1>10. QED
  BY <1>2, <1>7, <1>8, <1>9

\* A row that has a unit, or is a tombstone, gets no other one.
LEMMA StampOnce ==
    ASSUME NEW vs, NEW rs \in [DOMAIN vs -> RowsOfVersion], NEW v \in DOMAIN vs,
           \A x \in DOMAIN rs[v] : ~rs[v][x].deleted => rs[v][x].unit \in Units
    PROVE  StampManagingUnits(rs, v) = rs
<1> DEFINE previous(x) == {k \in current : k[2] = x /\ k[1] # v /\ rs[k[1]][x].unit # NoUnit}
           unit(x) == IF previous(x) # {} THEN rs[(CHOOSE k \in previous(x) : TRUE)[1]][x].unit
                                          ELSE Rule[rs[v][x].content]
           row(x) == IF rs[v][x].unit = NoUnit /\ ~rs[v][x].deleted
                     THEN [rs[v][x] EXCEPT !.unit = unit(x)] ELSE rs[v][x]
<1>1. StampManagingUnits(rs, v) = [rs EXCEPT ![v] = [x \in DOMAIN rs[v] |-> row(x)]]
  <2> HIDE DEF row
  <2> QED BY Zenon DEF StampManagingUnits, row, unit, previous
<1>2. \A x \in DOMAIN rs[v] : row(x) = rs[v][x]
  BY DataAssumption
<1> HIDE DEF row
<1>3. rs[v] \in [DOMAIN rs[v] -> Row]
  BY RowsElim
<1>4. [x \in DOMAIN rs[v] |-> row(x)] = rs[v]
  BY <1>2, <1>3
<1>5. QED
  BY <1>1, <1>4

\* Activating v leaves what the drafts of others are built on as it is: v is on no chain of theirs.
LEMMA ActivateKeeps ==
    ASSUME Inv, NEW c, NEW vs, NEW rs, NEW v, NEW res, Tables(c, vs, rs), v \in DOMAIN vs,
           References(vs, v, res, pins),
           \A k \in current : k[1] \in DOMAIN vs /\ k[2] \in DOMAIN rs[k[1]],
           Activate(v, vs, rs, res),
           \A u \in DOMAIN versions : u # v => u \in DOMAIN vs /\ vs[u] = versions[u] /\ rs[u] = rows[u],
           \A h : h # v => v \notin Chain(versions, h),
           v \notin DOMAIN versions \ DraftsOf(versions), DraftsOf(vs) = DraftsOf(versions) \ {v},
           res \subseteq resolutions
    PROVE  /\ Drafts' = Drafts \ {v} /\ active' = v
           /\ v \in DOMAIN versions'
           /\ \A u \in DOMAIN versions' :
                 u \in DOMAIN vs /\ versions'[u] = vs[u] /\ rows'[u] = StampManagingUnits(rs, v)[u]
           /\ \A e \in Drafts \ {v} : versions'[e] = versions[e] /\ KeepsChain(e)
           /\ \A e, x : <<e, x, active'>> \notin resolutions'
           /\ \A x : Content(rows', current', x) =
                        Content(StampManagingUnits(rs, v), Resolved(vs, StampManagingUnits(rs, v), v), x)
<1> DEFINE stamped == StampManagingUnits(rs, v)
<1>1. /\ Tables(c, vs, stamped)
      /\ \A u \in DOMAIN vs \ {v} : stamped[u] = rs[u]
  BY StampKeeps
<1>2. active' = v /\ current' = Resolved(vs, stamped, v) /\ Prune(vs, stamped, v, res)
  BY DEF Activate
<1> HIDE DEF stamped
<1>3. /\ \A h \in {v} \cup DraftsOf(vs) :
            /\ h \in DOMAIN versions' /\ versions'[h] = vs[h]
            /\ SameOn(Chain(vs, h), vs, stamped, versions', rows')
      /\ Drafts' = DraftsOf(vs)
      /\ \A r : (r \in resolutions' /\ r[3] = v) <=> (r \in res /\ r[3] = v)
  BY <1>1, <1>2, PruneKeeps
<1>4. Forest(vs) /\ Forest(versions) /\ Drafts = DraftsOf(versions)
  BY DEF Tables, Inv, Drafts, DraftsOf
<1>5. ASSUME NEW e \in Drafts \ {v} PROVE versions'[e] = versions[e] /\ KeepsChain(e)
  <2>1. e \in DOMAIN versions /\ e \in DraftsOf(vs) /\ versions'[e] = versions[e]
    BY <1>3, <1>4 DEF DraftsOf
  <2>2. SameOn(Chain(versions, e), versions, rows, vs, stamped)
    <3>1. Chain(versions, e) \subseteq DOMAIN versions \ {v}
      BY <1>4, <2>1, ChainClosed
    <3>2. QED
      BY <1>1, <3>1 DEF SameOn
  <2>3. Chain(vs, e) = Chain(versions, e)
    BY <1>4, <2>1, <2>2, ChainStable DEF SameOn
  <2>4. QED
    BY <1>3, <2>1, <2>2, <2>3, SameOnTransitive DEF KeepsChain
<1>6. ASSUME NEW e, NEW x PROVE <<e, x, v>> \notin resolutions'
  BY <1>3 DEF Inv, References
<1>7. \A x : Content(rows', current', x) = Content(stamped, Resolved(vs, stamped, v), x)
  <2>1. \A k \in Resolved(vs, stamped, v) : rows'[k[1]] = stamped[k[1]]
    <3>1. SameOn(Chain(vs, v), vs, stamped, versions', rows')
      BY <1>3
    <3>2. QED
      BY <3>1 DEF SameOn, Resolved
  <2>2. QED
    BY <1>2, <2>1 DEF Content
<1>8. \A u \in DOMAIN versions' : u \in DOMAIN vs /\ versions'[u] = vs[u] /\ rows'[u] = stamped[u]
  BY <1>1, <1>2, PruneStep
<1>9. QED
  BY <1>2, <1>3, <1>4, <1>5, <1>6, <1>7, <1>8 DEF stamped

-----------------------------------------------------------------------------
(* Steps that leave the map alone *)

\* The step changes nothing on the map and no draft but d, which it may also open or discard.
OnlyDraft(d) ==
    /\ active' = active /\ current' = current
    /\ active # NoVersion => KeepsChain(active)
    /\ Drafts \ {d} = Drafts' \ {d}
    /\ \A e \in Drafts \ {d} :
          /\ versions'[e] = versions[e] /\ KeepsChain(e)
          /\ \A x : <<e, x, active>> \in resolutions' <=> <<e, x, active>> \in resolutions

\* A draft is added: nothing else moves.
LEMMA AddDraftEffect ==
    ASSUME Inv, clock < MaxVersions, NEW parent \in DOMAIN versions \ DraftsOf(versions),
           NEW user \in Users, NEW own \in RowsOfVersion,
           versions' = Put(versions, clock + 1, NewDraft(parent, user)),
           rows' = Put(rows, clock + 1, own),
           UNCHANGED <<active, current, resolutions>>
    PROVE  /\ OnlyDraft(clock + 1)
           /\ clock + 1 \in Version /\ clock + 1 \notin DOMAIN versions
           /\ Drafts' = Drafts \cup {clock + 1}
           /\ DOMAIN versions' = DOMAIN versions \cup {clock + 1}
           /\ versions'[clock + 1] = NewDraft(parent, user) /\ rows'[clock + 1] = own
           /\ \A v \in DOMAIN versions : versions'[v] = versions[v] /\ rows'[v] = rows[v] /\ KeepsChain(v)
<1>1. Tables(clock, versions, rows) /\ clock \in 0 .. MaxVersions
  BY DEF Inv, Tables
<1>2. /\ NewDraft(parent, user) \in DatasetVersion
      /\ NewDraft(parent, user).parent = parent /\ NewDraft(parent, user).draft
  <2>1. parent \in Version \cup {NoVersion}
    BY <1>1, BoundsAssumption DEF Tables, Version
  <2>2. QED
    BY <2>1, NewDraftTyped DEF NewDraft
<1>3. /\ DOMAIN versions' = DOMAIN versions \cup {clock + 1}
      /\ clock + 1 \notin DOMAIN versions
      /\ DraftsOf(versions') = DraftsOf(versions) \cup {clock + 1}
      /\ \A v \in DOMAIN versions : SameOn(Chain(versions, v), versions, rows, versions', rows')
      /\ \A v \in DOMAIN versions : rows'[v] = rows[v]
  BY <1>1, <1>2, AddVersion
<1>4. DOMAIN rows = DOMAIN versions
  BY <1>1 DEF Tables
<1>5. /\ versions'[clock + 1] = NewDraft(parent, user) /\ rows'[clock + 1] = own
      /\ \A v \in DOMAIN versions : versions'[v] = versions[v]
  BY <1>3, <1>4 DEF Put
<1>6. Drafts = DraftsOf(versions) /\ Drafts' = DraftsOf(versions')
  BY DEF Drafts, DraftsOf
<1>7. clock + 1 \in Version
  BY <1>1, BoundsAssumption DEF Version
<1>8. \A v \in DOMAIN versions : KeepsChain(v)
  BY <1>3 DEF KeepsChain
<1>9. active # NoVersion => active \in DOMAIN versions
  BY DEF Inv, References
<1>10. Drafts \subseteq DOMAIN versions
  BY DEF Drafts
<1>11. OnlyDraft(clock + 1)
  BY <1>3, <1>5, <1>6, <1>8, <1>9, <1>10 DEF OnlyDraft
<1>12. QED
  BY <1>3, <1>5, <1>6, <1>7, <1>8, <1>11

\* One draft is changed: nothing else moves.
LEMMA ChangeDraftEffect ==
    ASSUME Inv, NEW d \in Drafts, NEW version \in DatasetVersion, version.draft,
           version.parent # NoVersion => version.parent \in DOMAIN versions \ DraftsOf(versions),
           NEW own \in RowsOfVersion,
           versions' = [versions EXCEPT ![d] = version], rows' = [rows EXCEPT ![d] = own],
           \A r : r[1] # d => (r \in resolutions' <=> r \in resolutions),
           UNCHANGED <<active, current>>
    PROVE  /\ OnlyDraft(d) /\ Drafts' = Drafts
           /\ DOMAIN versions' = DOMAIN versions
           /\ versions'[d] = version /\ rows'[d] = own
           /\ \A v \in DOMAIN versions \ {d} : versions'[v] = versions[v] /\ rows'[v] = rows[v] /\ KeepsChain(v)
<1>1. Tables(clock, versions, rows) /\ d \in DraftsOf(versions) /\ d \in DOMAIN versions
  BY DEF Inv, Drafts, DraftsOf
<1>2. DOMAIN rows = DOMAIN versions
  BY <1>1 DEF Tables
<1>3. \A v \in DOMAIN versions \ {d} : SameOn(Chain(versions, v), versions, rows, versions', rows')
  <2> DEFINE ws == [versions EXCEPT ![d] = version]
             qs == [rows EXCEPT ![d] = own]
  <2>1. \A v \in DOMAIN versions \ {d} : SameOn(Chain(versions, v), versions, rows, ws, qs)
    BY <1>1, ChangeDraft
  <2>2. QED
    BY <2>1
<1>4. /\ DOMAIN versions' = DOMAIN versions
      /\ versions'[d] = version /\ rows'[d] = own
      /\ \A v \in DOMAIN versions \ {d} : versions'[v] = versions[v] /\ rows'[v] = rows[v]
  BY <1>1, <1>2
<1>5. \A v \in DOMAIN versions \ {d} : KeepsChain(v)
  BY <1>3 DEF KeepsChain
<1>6. Drafts' = Drafts
  BY <1>4 DEF Drafts
<1>7. active # NoVersion => active \in DOMAIN versions \ {d}
  BY <1>1 DEF Inv, References
<1>8. \A e \in Drafts \ {d} : e \in DOMAIN versions \ {d}
  BY DEF Drafts
<1>9. ASSUME NEW e \in Drafts \ {d}, NEW x
      PROVE  <<e, x, active>> \in resolutions' <=> <<e, x, active>> \in resolutions
  OBVIOUS
<1>10. OnlyDraft(d)
  BY <1>4, <1>5, <1>6, <1>7, <1>8, <1>9 DEF OnlyDraft
<1>11. QED
  BY <1>4, <1>5, <1>6, <1>10

LEMMA DiscardDraftEffect ==
    ASSUME Inv, NEW d \in Drafts, DiscardDraft(d)
    PROVE  /\ OnlyDraft(d) /\ Drafts' = Drafts \ {d}
           /\ DOMAIN versions' = DOMAIN versions \ {d}
           /\ \A v \in DOMAIN versions' : versions'[v] = versions[v] /\ rows'[v] = rows[v]
<1>1. Tables(clock, versions, rows) /\ d \in DraftsOf(versions) /\ d \in DOMAIN versions
  BY DEF Inv, Drafts, DraftsOf
<1>2. /\ DOMAIN versions' = DOMAIN versions \ {d}
      /\ \A v \in DOMAIN versions' : versions'[v] = versions[v] /\ rows'[v] = rows[v]
  BY <1>1 DEF DiscardDraft, Restrict, Tables
<1>3. ASSUME NEW v \in DOMAIN versions \ {d} PROVE KeepsChain(v)
  <2>1. Chain(versions, v) \subseteq DOMAIN versions \ {d}
    BY <1>1, ChainClosed, DraftOnNoChain DEF Tables
  <2>2. QED
    BY <1>2, <2>1 DEF KeepsChain, SameOn
<1>4. Drafts' = Drafts \ {d}
  BY <1>2 DEF Drafts
<1>5. active # NoVersion => active \in DOMAIN versions \ {d}
  BY <1>1 DEF Inv, References
<1>6. ASSUME NEW e \in Drafts \ {d}, NEW x
      PROVE  <<e, x, active>> \in resolutions' <=> <<e, x, active>> \in resolutions
  BY DEF DiscardDraft
<1>7. \A e \in Drafts \ {d} : e \in DOMAIN versions'
  BY <1>2 DEF Drafts
<1>8. UNCHANGED <<active, current>>
  BY DEF DiscardDraft
<1>9. OnlyDraft(d)
  BY <1>2, <1>3, <1>4, <1>5, <1>6, <1>7, <1>8 DEF OnlyDraft
<1>10. QED
  BY <1>2, <1>4, <1>9

LEMMA RestampEffect ==
    ASSUME Inv, RestampUnchanged
    PROVE  /\ OnlyDraft(NoVersion) /\ Drafts' = Drafts
           /\ \A v \in DOMAIN versions' : v \in DOMAIN versions /\ versions'[v] = versions[v] /\ rows'[v] = rows[v]
<1>1. /\ active \in DOMAIN versions
      /\ Tables(clock, versions, rows)
      /\ References(versions, active, resolutions, pins)
      /\ Drafts = DraftsOf(versions)
  BY DEF Inv, References, RestampUnchanged, Drafts, DraftsOf
<1>2. Prune(versions, rows, active, resolutions) /\ active' = active /\ current' = current
  BY DEF RestampUnchanged
<1>3. /\ \A h \in {active} \cup DraftsOf(versions) :
            /\ h \in DOMAIN versions' /\ versions'[h] = versions[h] /\ rows'[h] = rows[h]
            /\ SameOn(Chain(versions, h), versions, rows, versions', rows')
      /\ Drafts' = DraftsOf(versions)
      /\ \A r : (r \in resolutions' /\ r[3] = active) <=> (r \in resolutions /\ r[3] = active)
  BY <1>1, <1>2, PruneKeeps
<1>4. \A h \in {active} \cup Drafts : KeepsChain(h)
  BY <1>1, <1>3 DEF KeepsChain, DraftsOf
<1>5. ASSUME NEW e, NEW x PROVE <<e, x, active>> \in resolutions' <=> <<e, x, active>> \in resolutions
  BY <1>3
<1>6. OnlyDraft(NoVersion)
  BY <1>1, <1>2, <1>3, <1>4, <1>5 DEF OnlyDraft
<1>7. \A v \in DOMAIN versions' : v \in DOMAIN versions /\ versions'[v] = versions[v] /\ rows'[v] = rows[v]
  BY <1>1, <1>2, PruneStep
<1>8. QED
  BY <1>1, <1>3, <1>6, <1>7

\* A step that changes no version: everything stays.
LEMMA StutterEffect ==
    ASSUME Inv, UNCHANGED <<versions, rows, active, current, resolutions>>
    PROVE  OnlyDraft(NoVersion) /\ Drafts' = Drafts
<1>1. ASSUME NEW h \in DOMAIN versions PROVE KeepsChain(h)
  BY ChainClosed DEF KeepsChain, SameOn, Inv, Tables
<1>2. QED
  BY <1>1 DEF OnlyDraft, Drafts, Inv, References

-----------------------------------------------------------------------------
(* Activations *)

\* The step makes v the active version and ends its draft; all other drafts stay, and every choice
\* made against the version before lapses.
Activated(v) ==
    /\ active' = v
    /\ Drafts' = Drafts \ {v}
    /\ \A e \in Drafts \ {v} : versions'[e] = versions[e] /\ KeepsChain(e)
    /\ \A e, x : <<e, x, active'>> \notin resolutions'

\* What a version says that is activated on top of the active one.
LEMMA ContentOnTop ==
    ASSUME Inv, active # NoVersion, NEW vs, NEW rs, Forest(vs), NEW v \in DOMAIN vs,
           vs[v].parent = active, \A u \in DOMAIN vs : vs[u].parent # v,
           SameOn(Chain(versions, active), versions, rows, vs, rs), NEW x \in Feature
    PROVE  Content(rs, Resolved(vs, rs, v), x) =
              IF x \in DOMAIN rs[v] THEN Shown(rs[v][x]) ELSE Content(rows, current, x)
<1>1. active \in DOMAIN versions /\ Forest(versions)
  BY DEF Inv, References, Tables
<1>2. Content(rs, Resolved(vs, rs, active), x) = Content(rows, Resolved(versions, rows, active), x)
  BY <1>1, ContentStable
<1>3. Content(rs, Resolved(vs, rs, active), x) = Content(rows, current, x)
  BY <1>2, MapIsActive
<1>4. QED
  BY <1>3, ContentOfLeaf

LEMMA PublishDraftEffect ==
    ASSUME Inv, Managed(versions, rows), NEW d \in Drafts, PublishDraft(d)
    PROVE  /\ Activated(d)
           /\ \A u \in DOMAIN versions' : u \in DOMAIN versions /\ rows'[u] = rows[u]
           /\ d \in DOMAIN versions' /\ versions'[d].parent # NoVersion
           /\ versions'[d].owner = versions[d].owner
           /\ \A x \in Feature : Content(rows', current', x) =
                 IF x \in DOMAIN rows[d] THEN Shown(rows[d][x]) ELSE Content(rows, current, x)
<1> DEFINE onto == IF versions[d].parent = active THEN versions ELSE Rebased(d)
           vs == [onto EXCEPT ![d].draft = FALSE]
           version == [onto[d] EXCEPT !.draft = FALSE]
<1>1. /\ d \in DOMAIN versions /\ d \in DraftsOf(versions) /\ Drafts = DraftsOf(versions)
      /\ Tables(clock, versions, rows)
      /\ rows[d] \in RowsOfVersion /\ rows = [rows EXCEPT ![d] = rows[d]]
  BY DEF Inv, Tables, Drafts, DraftsOf
<1>2. active # NoVersion /\ Activate(d, vs, rows, WithoutChoices(d)) /\ clock' = clock /\ pins' = pins
  BY DEF PublishDraft
<1>3. active \in DOMAIN versions \ DraftsOf(versions)
  BY <1>2 DEF Inv, References
<1>4. /\ vs = [versions EXCEPT ![d] = version]
      /\ version \in DatasetVersion
      /\ ~version.draft
      /\ version.parent = active /\ version.owner = versions[d].owner
  <2>1. CASE versions[d].parent = active
    <3>1. onto = versions /\ onto[d] = versions[d] /\ versions[d] \in DatasetVersion
      BY <1>1, <2>1 DEF Tables
    <3> HIDE DEF onto
    <3>2. QED
      BY <1>1, <2>1, <3>1 DEF DatasetVersion
  <2>2. CASE versions[d].parent # active
    <3> DEFINE rebased == [versions[d] EXCEPT !.revision = NextRevision(@), !.parent = active]
    <3>1. /\ onto = [versions EXCEPT ![d] = rebased]
          /\ rebased \in DatasetVersion
      BY <1>2, <2>2, RebasedTyped
    <3>2. rebased.parent = active /\ rebased.owner = versions[d].owner
      BY <1>1 DEF Tables, DatasetVersion
    <3> HIDE DEF onto, rebased
    <3>3. onto[d] = rebased
      BY <1>1, <3>1
    <3>4. QED
      BY <1>1, <3>1, <3>2, <3>3 DEF DatasetVersion
  <2>3. QED
    BY <2>1, <2>2
<1> HIDE DEF onto, vs, version
<1>5. /\ Tables(clock, vs, rows) /\ DOMAIN vs = DOMAIN versions
      /\ \A v \in DOMAIN versions \ {d} : SameOn(Chain(versions, v), versions, rows, vs, rows)
  <2>1. /\ Tables(clock, [versions EXCEPT ![d] = version], [rows EXCEPT ![d] = rows[d]])
        /\ DOMAIN [versions EXCEPT ![d] = version] = DOMAIN versions
        /\ \A v \in DOMAIN versions \ {d} :
              SameOn(Chain(versions, v), versions, rows, [versions EXCEPT ![d] = version], [rows EXCEPT ![d] = rows[d]])
    BY <1>1, <1>3, <1>4, ChangeDraft
  <2>2. QED
    BY <1>1, <1>4, <2>1
<1>6. /\ DraftsOf(vs) = DraftsOf(versions) \ {d}
      /\ vs[d] = version
      /\ \A u \in DOMAIN versions : u # d => vs[u] = versions[u]
  BY <1>1, <1>4 DEF DraftsOf
<1>7. References(vs, d, WithoutChoices(d), pins)
  BY <1>1, <1>5, <1>6 DEF Inv, References, WithoutChoices
<1>8. \A k \in current : k[1] \in DOMAIN vs /\ k[2] \in DOMAIN rows[k[1]]
  BY <1>5, CurrentIsStored
<1>9. (\A u \in DOMAIN versions : versions[u].parent # d) /\ (\A h : h # d => d \notin Chain(versions, h))
  BY <1>1, DraftOnNoChain
<1>10. WithoutChoices(d) \subseteq resolutions
  BY DEF WithoutChoices
<1>11. StampManagingUnits(rows, d) = rows
  BY <1>1, StampOnce DEF Managed, Tables
<1>12. /\ Drafts' = Drafts \ {d} /\ active' = d
       /\ d \in DOMAIN versions'
       /\ \A u \in DOMAIN versions' :
             u \in DOMAIN vs /\ versions'[u] = vs[u] /\ rows'[u] = StampManagingUnits(rows, d)[u]
       /\ \A e \in Drafts \ {d} : versions'[e] = versions[e] /\ KeepsChain(e)
       /\ \A e, x : <<e, x, active'>> \notin resolutions'
       /\ \A x : Content(rows', current', x) =
                    Content(StampManagingUnits(rows, d), Resolved(vs, StampManagingUnits(rows, d), d), x)
  BY <1>1, <1>2, <1>5, <1>6, <1>7, <1>8, <1>9, <1>10, ActivateKeeps
<1>13. Activated(d)
  BY <1>12 DEF Activated
<1>14. ASSUME NEW x \in Feature
       PROVE  Content(rows', current', x) =
                 IF x \in DOMAIN rows[d] THEN Shown(rows[d][x]) ELSE Content(rows, current, x)
  <2>1. \A u \in DOMAIN vs : vs[u].parent # d
    BY <1>1, <1>3, <1>4, <1>5, <1>6, <1>9
  <2>2. SameOn(Chain(versions, active), versions, rows, vs, rows)
    BY <1>1, <1>3, <1>5
  <2>3. vs[d].parent = active /\ d \in DOMAIN vs /\ Forest(vs)
    BY <1>1, <1>4, <1>5, <1>6 DEF Tables
  <2>4. QED
    BY <1>2, <1>11, <1>12, <2>1, <2>2, <2>3, ContentOnTop
<1>15. QED
  BY <1>2, <1>4, <1>5, <1>6, <1>11, <1>12, <1>13, <1>14

LEMMA DirectWriteEffect ==
    ASSUME Inv, Managed(versions, rows), NEW user \in Users, NEW x \in Feature, DirectWrite(user, x)
    PROVE  \E r \in Row :
              /\ ~r.deleted => r.unit \in Units
              /\ Publishable(user, Put(rows, clock + 1, [y \in {x} |-> r]), clock + 1)
              /\ clock + 1 \notin DOMAIN versions /\ Activated(clock + 1)
              /\ \A u \in DOMAIN versions' :
                    IF u = clock + 1 THEN rows'[u] = [y \in {x} |-> r]
                    ELSE u \in DOMAIN versions /\ rows'[u] = rows[u]
              /\ clock + 1 \in DOMAIN versions' /\ versions'[clock + 1].parent # NoVersion
              /\ versions'[clock + 1].owner = user
              /\ \A y \in Feature : Content(rows', current', y) =
                    IF y = x THEN Shown(r) ELSE Content(rows, current, y)
<1> DEFINE v == clock + 1
           opened == Put(versions, v, NewDraft(active, user))
           version == [NewDraft(active, user) EXCEPT !.draft = FALSE]
           vs == Put(versions, v, version)
<1>1. PICK r \in Written(v, opened, Put(rows, v, NoRows), x, "draft") :
         LET rs == Put(rows, v, [y \in {x} |-> r])
         IN  /\ Publishable(user, rs, v)
             /\ Activate(v, [opened EXCEPT ![v].draft = FALSE], rs, resolutions)
  BY DEF DirectWrite
<1> DEFINE own == [y \in {x} |-> r]
           rs == Put(rows, v, own)
<1>2. /\ Tables(clock, versions, rows) /\ clock \in 0 .. MaxVersions /\ clock < MaxVersions
      /\ active # NoVersion /\ active \in DOMAIN versions \ DraftsOf(versions)
      /\ clock' = v /\ pins' = pins
      /\ Drafts = DraftsOf(versions)
  BY DEF Inv, Tables, References, DirectWrite, Drafts, DraftsOf
<1>3. /\ NewDraft(active, user) \in DatasetVersion
      /\ NewDraft(active, user).parent = active /\ NewDraft(active, user).draft
      /\ NewDraft(active, user).owner = user
  <2>1. active \in Version \cup {NoVersion}
    BY <1>2, BoundsAssumption DEF Tables, Version
  <2>2. QED
    BY <2>1, NewDraftTyped DEF NewDraft
<1>4. version \in DatasetVersion /\ version.parent = active /\ ~version.draft /\ version.owner = user
  BY <1>3 DEF DatasetVersion
<1>5. /\ Tables(v, opened, Put(rows, v, NoRows))
      /\ DOMAIN opened = DOMAIN versions \cup {v}
      /\ \A u \in DOMAIN versions : Put(rows, v, NoRows)[u] = rows[u]
  BY <1>2, <1>3, NoRowsTyped, AddVersion
<1>6. r \in Row /\ (~r.deleted => r.unit \in Units)
  <2>1. \A k \in current : k[1] \in DOMAIN opened /\ k[2] \in DOMAIN Put(rows, v, NoRows)[k[1]]
    BY <1>5, CurrentIsStored
  <2>2. v \in DOMAIN opened
    BY <1>5
  <2> HIDE DEF opened, v
  <2>3. QED
    BY <1>5, <2>1, <2>2, WrittenTyped
<1>7. own \in RowsOfVersion
  <2>1. own \in [{x} -> Row]
    BY <1>6
  <2>2. QED
    BY <2>1, RowsIntro
<1>8. [opened EXCEPT ![v].draft = FALSE] = vs
  BY <1>2, <1>3 DEF Put, Tables
<1>9. DOMAIN own = {x} /\ own[x] = r
  OBVIOUS
<1> HIDE DEF own, version, opened
<1>10. /\ Tables(v, vs, rs)
       /\ DOMAIN vs = DOMAIN versions \cup {v}
       /\ v \notin DOMAIN versions
       /\ \A u \in DOMAIN versions : rs[u] = rows[u]
       /\ \A u \in DOMAIN versions : SameOn(Chain(versions, u), versions, rows, vs, rs)
  BY <1>2, <1>4, <1>7, AddVersion
<1>11. vs[v] = version /\ rs[v] = own /\ \A u \in DOMAIN versions : vs[u] = versions[u]
  BY <1>2, <1>10 DEF Put, Tables
<1>12. DraftsOf(vs) = DraftsOf(versions) /\ v \notin DraftsOf(versions)
  BY <1>4, <1>10, <1>11 DEF DraftsOf
<1> HIDE DEF vs, rs
<1>13. References(vs, v, resolutions, pins)
  <2> HIDE DEF v
  <2> QED BY <1>10, <1>12 DEF Inv, References
<1>14. \A k \in current : k[1] \in DOMAIN vs /\ k[2] \in DOMAIN rs[k[1]]
  BY <1>10, CurrentIsStored
<1>15. Activate(v, vs, rs, resolutions) /\ Publishable(user, rs, v)
  BY <1>1, <1>8 DEF own, rs
<1>16. \A u \in DOMAIN versions : versions[u].parent # v
  BY <1>2, <1>10 DEF Tables, Forest, Closed, NoVersion
<1>17. \A h : h # v => v \notin Chain(versions, h)
  BY <1>16, OnNoChain
<1>18. StampManagingUnits(rs, v) = rs
  BY <1>6, <1>9, <1>10, <1>11, StampOnce DEF Tables
<1>19. /\ Drafts' = Drafts \ {v} /\ active' = v
       /\ v \in DOMAIN versions'
       /\ \A u \in DOMAIN versions' :
             u \in DOMAIN vs /\ versions'[u] = vs[u] /\ rows'[u] = StampManagingUnits(rs, v)[u]
       /\ \A e \in Drafts \ {v} : versions'[e] = versions[e] /\ KeepsChain(e)
       /\ \A e, y : <<e, y, active'>> \notin resolutions'
       /\ \A y : Content(rows', current', y) =
                    Content(StampManagingUnits(rs, v), Resolved(vs, StampManagingUnits(rs, v), v), y)
  <2> HIDE DEF v
  <2> QED BY <1>10, <1>11, <1>12, <1>13, <1>14, <1>15, <1>17, ActivateKeeps
<1>20. Activated(v)
  BY <1>19 DEF Activated
<1>21. ASSUME NEW y \in Feature
       PROVE  Content(rows', current', y) = IF y = x THEN Shown(r) ELSE Content(rows, current, y)
  <2>1. \A u \in DOMAIN vs : vs[u].parent # v
    BY <1>2, <1>4, <1>10, <1>11, <1>16
  <2>2. SameOn(Chain(versions, active), versions, rows, vs, rs)
    BY <1>2, <1>10
  <2>3. vs[v].parent = active /\ v \in DOMAIN vs /\ Forest(vs)
    BY <1>4, <1>10, <1>11 DEF Tables
  <2>4. Content(rs, Resolved(vs, rs, v), y) =
           IF y \in DOMAIN rs[v] THEN Shown(rs[v][y]) ELSE Content(rows, current, y)
    BY <1>2, <2>1, <2>2, <2>3, ContentOnTop
  <2>5. QED
    BY <1>9, <1>11, <1>18, <1>19, <2>4
<1>22. ASSUME NEW u \in DOMAIN versions'
       PROVE  IF u = v THEN rows'[u] = own ELSE u \in DOMAIN versions /\ rows'[u] = rows[u]
  BY <1>10, <1>11, <1>18, <1>19
<1>23. versions'[v].parent # NoVersion /\ versions'[v].owner = user
  BY <1>2, <1>4, <1>11, <1>19
<1>24. QED
  BY <1>6, <1>10, <1>15, <1>19, <1>20, <1>21, <1>22, <1>23 DEF own, rs

\* A load gives each of its features one row; its unit is the one the map named, or the rule's.
LEMMA LoadEffect ==
    ASSUME Inv, Managed(versions, rows), NEW supersede \in BOOLEAN, Load(supersede)
    PROVE  /\ clock + 1 \notin DOMAIN versions /\ Activated(clock + 1)
           /\ clock + 1 \in DOMAIN versions' /\ versions'[clock + 1].parent = NoVersion
           /\ Managed(versions', rows')
           /\ \A x \in Feature :
                 \/ Content(rows', current', x) = {}
                 \/ \E p \in Contents \X Units :
                       /\ Content(rows', current', x) = {p}
                       /\ p[2] \in (IF Content(rows, current, x) # {}
                                    THEN {q[2] : q \in Content(rows, current, x)} ELSE {Rule[p[1]]})
<1> DEFINE v == clock + 1
           version == [parent |-> NoVersion, draft |-> FALSE, owner |-> NoVersion, revision |-> 0]
           vs == Put(versions, v, version)
<1>1. PICK S \in SUBSET (1 .. Floor) : \E f \in [S -> Contents] :
         Activate(v, vs, Put(rows, v, [x \in S |-> [content |-> f[x], unit |-> NoUnit, deleted |-> FALSE]]),
                  resolutions)
  BY DEF Load
<1>2. PICK f \in [S -> Contents] :
         Activate(v, vs, Put(rows, v, [x \in S |-> [content |-> f[x], unit |-> NoUnit, deleted |-> FALSE]]),
                  resolutions)
  BY <1>1
<1> DEFINE own == [x \in S |-> [content |-> f[x], unit |-> NoUnit, deleted |-> FALSE]]
           rs == Put(rows, v, own)
<1>3. own \in [S -> Row] /\ own \in RowsOfVersion /\ S \in SUBSET Feature
  <2>1. S \in SUBSET Feature
    BY BoundsAssumption DEF Feature
  <2>2. own \in [S -> Row]
    BY DEF Row
  <2>3. QED
    BY <2>1, <2>2, RowsIntro
<1>4. /\ DOMAIN own = S
      /\ \A x \in S : own[x].content \in Contents /\ own[x].unit = NoUnit /\ ~own[x].deleted
  OBVIOUS
<1>5. version \in DatasetVersion /\ version.parent = NoVersion /\ ~version.draft
  BY BoundsAssumption DEF DatasetVersion
<1>6. Tables(clock, versions, rows) /\ clock \in 0 .. MaxVersions /\ clock < MaxVersions
  BY DEF Inv, Tables, Load
<1>7. Activate(v, vs, rs, resolutions)
  BY <1>2
<1> HIDE DEF own, version
<1>8. /\ Tables(v, vs, rs)
      /\ DOMAIN vs = DOMAIN versions \cup {v}
      /\ v \notin DOMAIN versions
      /\ DraftsOf(vs) = DraftsOf(versions)
      /\ \A u \in DOMAIN versions : rs[u] = rows[u]
  <2>1. own \in RowsOfVersion
    BY <1>3
  <2>2. QED
    BY <1>5, <1>6, <2>1, AddVersion
<1>9. vs[v] = version /\ rs[v] = own /\ \A u \in DOMAIN versions : vs[u] = versions[u]
  BY <1>6, <1>8 DEF Put, Tables
<1> HIDE DEF vs, rs
<1>10. References(vs, v, resolutions, pins)
  BY <1>8 DEF Inv, References, DraftsOf
<1>11. \A k \in current : k[1] \in DOMAIN vs /\ k[2] \in DOMAIN rs[k[1]]
  BY <1>8, CurrentIsStored
<1>12. \A u \in DOMAIN versions : versions[u].parent # v
  BY <1>6, <1>8 DEF Tables, Forest, Closed, NoVersion
<1>13. v \notin DraftsOf(versions) /\ pins' = pins /\ \A h : h # v => v \notin Chain(versions, h)
  BY <1>8, <1>12, OnNoChain DEF DraftsOf, Load
<1> DEFINE stamped == StampManagingUnits(rs, v)
<1>14. /\ Drafts' = Drafts \ {v} /\ active' = v
       /\ v \in DOMAIN versions'
       /\ \A u \in DOMAIN versions' : u \in DOMAIN vs /\ versions'[u] = vs[u] /\ rows'[u] = stamped[u]
       /\ \A e \in Drafts \ {v} : versions'[e] = versions[e] /\ KeepsChain(e)
       /\ \A e, y : <<e, y, active'>> \notin resolutions'
       /\ \A y : Content(rows', current', y) = Content(stamped, Resolved(vs, stamped, v), y)
  <2> HIDE DEF v
  <2> QED BY <1>7, <1>8, <1>9, <1>10, <1>11, <1>13, ActivateKeeps
<1>15. Activated(v)
  BY <1>14 DEF Activated
<1> DEFINE previous(x) == {k \in current : k[2] = x /\ k[1] # v /\ rs[k[1]][x].unit # NoUnit}
           unit(x) == IF previous(x) # {} THEN rs[(CHOOSE k \in previous(x) : TRUE)[1]][x].unit
                                          ELSE Rule[rs[v][x].content]
           row(x) == IF rs[v][x].unit = NoUnit /\ ~rs[v][x].deleted
                     THEN [rs[v][x] EXCEPT !.unit = unit(x)] ELSE rs[v][x]
<1>16. ASSUME NEW x \in S
       PROVE  /\ unit(x) \in Units
              /\ unit(x) \in (IF Content(rows, current, x) # {}
                              THEN {q[2] : q \in Content(rows, current, x)} ELSE {Rule[own[x].content]})
  <2>1. ASSUME NEW k \in current, k[2] = x
        PROVE  /\ k[1] # v /\ rs[k[1]] = rows[k[1]]
               /\ rows[k[1]][x].unit \in Units
               /\ <<rows[k[1]][x].content, rows[k[1]][x].unit>> \in Content(rows, current, x)
    <3>1. k[1] \in DOMAIN versions /\ x \in DOMAIN rows[k[1]] /\ k[1] # v
      BY <1>8, <2>1, CurrentIsStored
    <3>2. ~rows[k[1]][x].deleted
      BY <2>1 DEF Inv, CurrentIsResolved, Resolved
    <3>3. QED
      BY <1>8, <2>1, <3>1, <3>2 DEF Managed, Content
  <2>2. CASE previous(x) # {}
    <3>1. PICK k \in previous(x) : unit(x) = rs[k[1]][x].unit
      BY <2>2
    <3>2. k \in current /\ k[2] = x
      OBVIOUS
    <3> HIDE DEF unit, previous
    <3> DEFINE q == <<rows[k[1]][x].content, rows[k[1]][x].unit>>
    <3>3. q \in Content(rows, current, x) /\ unit(x) = q[2] /\ unit(x) \in Units
      BY <2>1, <3>1, <3>2
    <3>4. QED
      BY <3>3
  <2>3. CASE previous(x) = {}
    <3>1. ASSUME NEW k \in current, k[2] = x PROVE FALSE
      BY <2>1, <2>3, <3>1, DataAssumption
    <3>2. Content(rows, current, x) = {}
      BY <3>1, ContentOfNone
    <3>3. unit(x) = Rule[own[x].content]
      BY <1>9, <2>3
    <3>4. Rule[own[x].content] \in Units
      BY <1>4, DataAssumption
    <3> HIDE DEF unit, own
    <3>5. QED
      BY <3>2, <3>3, <3>4
  <2>4. QED
    BY <2>2, <2>3
<1>17. /\ stamped = [rs EXCEPT ![v] = [x \in DOMAIN rs[v] |-> row(x)]]
       /\ rs \in [DOMAIN vs -> RowsOfVersion] /\ v \in DOMAIN vs
  <2>1. stamped = [rs EXCEPT ![v] = [x \in DOMAIN rs[v] |-> row(x)]]
    <3> HIDE DEF row
    <3> QED BY Zenon DEF StampManagingUnits, row, unit, previous
  <2>2. QED
    BY <1>8, <2>1 DEF Tables
<1> HIDE DEF unit, stamped
<1>18. ASSUME NEW x \in S
       PROVE  row(x).content = own[x].content /\ row(x).unit = unit(x) /\ ~row(x).deleted
  BY <1>3, <1>4, <1>9 DEF Row
<1> HIDE DEF row
<1>19. /\ DOMAIN stamped[v] = S /\ \A x \in S : stamped[v][x] = row(x)
       /\ \A u \in DOMAIN versions : stamped[u] = rows[u]
  BY <1>4, <1>8, <1>9, <1>17
<1>20. ASSUME NEW x \in Feature
       PROVE  Content(rows', current', x) = IF x \in S THEN {<<own[x].content, unit(x)>>} ELSE {}
  <2>1. vs[v].parent = NoVersion /\ v \in DOMAIN vs /\ Forest(vs)
    BY <1>5, <1>8, <1>9 DEF Tables
  <2>2. Content(stamped, Resolved(vs, stamped, v), x) =
           IF x \in DOMAIN stamped[v] THEN Shown(stamped[v][x]) ELSE {}
    BY <2>1, ContentOfRoot
  <2>3. QED
    BY <1>14, <1>18, <1>19, <2>2 DEF Shown
<1>21. Managed(versions', rows')
  <2>1. ASSUME NEW u \in DOMAIN versions', NEW x \in DOMAIN rows'[u], ~rows'[u][x].deleted
        PROVE  rows'[u][x].unit \in Units
    <3>1. CASE u = v
      <4>1. x \in S /\ rows'[u][x] = row(x)
        BY <1>14, <1>19, <2>1, <3>1
      <4>2. row(x).unit = unit(x) /\ unit(x) \in Units
        BY <1>16, <1>18, <4>1
      <4>3. QED
        BY <4>1, <4>2
    <3>2. CASE u # v
      <4>1. u \in DOMAIN versions /\ rows'[u] = rows[u]
        BY <1>8, <1>14, <1>19, <3>2
      <4>2. QED
        BY <2>1, <4>1 DEF Managed
    <3>3. QED
      BY <3>1, <3>2
  <2>2. QED
    BY <2>1 DEF Managed
<1>22. ASSUME NEW x \in Feature
       PROVE  \/ Content(rows', current', x) = {}
              \/ \E p \in Contents \X Units :
                    /\ Content(rows', current', x) = {p}
                    /\ p[2] \in (IF Content(rows, current, x) # {}
                                 THEN {q[2] : q \in Content(rows, current, x)} ELSE {Rule[p[1]]})
  <2>1. CASE x \notin S
    BY <1>20, <2>1
  <2>2. CASE x \in S
    <3> DEFINE p == <<own[x].content, unit(x)>>
    <3>1. p \in Contents \X Units /\ p[1] = own[x].content /\ p[2] = unit(x)
      BY <1>4, <1>16, <2>2
    <3>2. Content(rows', current', x) = {p}
      BY <1>20, <2>2
    <3> HIDE DEF p
    <3>3. p[2] \in (IF Content(rows, current, x) # {}
                    THEN {q[2] : q \in Content(rows, current, x)} ELSE {Rule[p[1]]})
      BY <1>16, <2>2, <3>1
    <3>4. QED
      BY <3>1, <3>2, <3>3
  <2>3. QED
    BY <2>1, <2>2
<1>23. versions'[v].parent = NoVersion
  BY <1>5, <1>9, <1>14
<1>24. QED
  BY <1>8, <1>14, <1>15, <1>21, <1>22, <1>23

-----------------------------------------------------------------------------
(* The invariant of the map *)

LEMMA OnlyDraftStep ==
    ASSUME LayerInv, Inv', NEW d, OnlyDraft(d),
           \A u \in DOMAIN versions' : u # d => u \in DOMAIN versions /\ rows'[u] = rows[u],
           d \in DOMAIN versions' => \A x \in DOMAIN rows'[d] : ~rows'[d][x].deleted => rows'[d][x].unit \in Units,
           d \in Drafts' => versions'[d].parent # NoVersion
    PROVE  LayerInv'
<1>1. Managed(versions', rows')
  BY DEF LayerInv, Managed
<1>2. Based(versions')
  <2>1. ASSUME NEW e \in DraftsOf(versions') PROVE versions'[e].parent # NoVersion
    <3>1. e \in Drafts'
      BY DEF Drafts, DraftsOf
    <3>2. CASE e = d
      BY <3>1, <3>2
    <3>3. CASE e # d
      <4>1. e \in Drafts /\ versions'[e] = versions[e]
        BY <3>1, <3>3 DEF OnlyDraft
      <4>2. QED
        BY <4>1 DEF LayerInv, Based, Drafts, DraftsOf
    <3>4. QED
      BY <3>2, <3>3
  <2>2. QED
    BY <2>1 DEF Based
<1>3. \A x : Content(rows', current', x) = Content(rows, current, x)
  BY OfficialStays DEF OnlyDraft, LayerInv
<1>4. MapInv'
  BY <1>3 DEF MapInv, LayerInv
<1>5. QED
  BY <1>1, <1>2, <1>4 DEF LayerInv

LEMMA ActivatedStep ==
    ASSUME LayerInv, Inv', NEW v, Activated(v), Managed(versions', rows'),
           \A x \in Feature : Content(rows', current', x) \in Statement
    PROVE  LayerInv'
<1>1. Based(versions')
  <2>1. ASSUME NEW e \in DraftsOf(versions') PROVE versions'[e].parent # NoVersion
    <3>1. e \in Drafts \ {v}
      BY DEF Drafts, DraftsOf, Activated
    <3>2. QED
      BY <3>1 DEF Activated, LayerInv, Based, Drafts, DraftsOf
  <2>2. QED
    BY <2>1 DEF Based
<1>2. MapInv'
  BY DEF MapInv
<1>3. QED
  BY <1>1, <1>2 DEF LayerInv

LEMMA ShownTyped ==
    ASSUME NEW r \in Row, ~r.deleted => r.unit \in Units
    PROVE  Shown(r) \in Statement
  BY DEF Shown, Statement, Row

\* The rows of a version, typed and managed.
LEMMA RowsManaged ==
    ASSUME LayerInv, NEW v \in DOMAIN versions
    PROVE  /\ rows[v] \in RowsOfVersion /\ rows[v] \in [DOMAIN rows[v] -> Row]
           /\ DOMAIN rows[v] \in SUBSET Feature
           /\ \A x \in DOMAIN rows[v] : rows[v][x] \in Row /\ (~rows[v][x].deleted => rows[v][x].unit \in Units)
<1>1. rows[v] \in RowsOfVersion
  BY DEF LayerInv, Inv, Tables
<1>2. QED
  BY <1>1, RowsElim DEF LayerInv, Managed

\* What a draft is built on.
LEMMA BaseOfDraft ==
    ASSUME LayerInv, NEW d \in Drafts
    PROVE  /\ d \in DOMAIN versions /\ versions[d] \in DatasetVersion /\ versions[d].draft
           /\ versions[d].parent # NoVersion /\ versions[d].parent \in DOMAIN versions \ DraftsOf(versions)
           /\ versions[d].parent # d /\ d # active
  BY DEF LayerInv, Inv, Tables, References, Based, Forest, Closed, Drafts, DraftsOf, NoVersion

\* Opening and copying a draft.
LEMMA OpenDraftEffect ==
    ASSUME LayerInv, NEW user \in Users, OpenDraft(user)
    PROVE  /\ OnlyDraft(clock + 1)
           /\ clock + 1 \in Version /\ clock + 1 \notin DOMAIN versions
           /\ Drafts' = Drafts \cup {clock + 1}
           /\ DOMAIN versions' = DOMAIN versions \cup {clock + 1}
           /\ versions'[clock + 1] = NewDraft(active, user) /\ rows'[clock + 1] = NoRows
           /\ \A v \in DOMAIN versions : rows'[v] = rows[v] /\ KeepsChain(v)
<1>1. active \in DOMAIN versions \ DraftsOf(versions) /\ Inv
  BY DEF OpenDraft, LayerInv, Inv, References
<1>2. QED
  BY <1>1, NoRowsTyped, AddDraftEffect DEF OpenDraft

LEMMA CopyDraftEffect ==
    ASSUME LayerInv, NEW d \in Drafts, NEW user \in Users, CopyDraft(d, user)
    PROVE  /\ OnlyDraft(clock + 1)
           /\ clock + 1 \in Version /\ clock + 1 \notin DOMAIN versions
           /\ Drafts' = Drafts \cup {clock + 1}
           /\ DOMAIN versions' = DOMAIN versions \cup {clock + 1}
           /\ versions'[clock + 1] = NewDraft(versions[d].parent, user) /\ rows'[clock + 1] = rows[d]
           /\ \A v \in DOMAIN versions : rows'[v] = rows[v] /\ KeepsChain(v)
<1>1. versions[d].parent \in DOMAIN versions \ DraftsOf(versions) /\ rows[d] \in RowsOfVersion /\ Inv
  BY BaseOfDraft, RowsManaged DEF LayerInv
<1>2. QED
  BY <1>1, AddDraftEffect DEF CopyDraft

\* An operation on a draft that goes on to its next revision.
LEMMA BumpEffect ==
    ASSUME LayerInv, NEW d \in Drafts, NEW own \in RowsOfVersion,
           versions' = BumpRevision(versions, d), rows' = [rows EXCEPT ![d] = own],
           \A r : r[1] # d => (r \in resolutions' <=> r \in resolutions),
           UNCHANGED <<active, current>>
    PROVE  /\ OnlyDraft(d) /\ Drafts' = Drafts
           /\ DOMAIN versions' = DOMAIN versions
           /\ versions'[d].parent = versions[d].parent /\ rows'[d] = own
           /\ versions'[d].revision = NextRevision(versions[d].revision)
           /\ \A v \in DOMAIN versions \ {d} : rows'[v] = rows[v] /\ KeepsChain(v)
<1> DEFINE bumped == [versions[d] EXCEPT !.revision = NextRevision(@)]
<1>1. /\ versions' = [versions EXCEPT ![d] = bumped]
      /\ bumped \in DatasetVersion /\ bumped.draft
      /\ bumped.parent = versions[d].parent
      /\ bumped.parent # NoVersion => bumped.parent \in DOMAIN versions \ DraftsOf(versions)
      /\ Inv
  BY BumpTyped DEF LayerInv
<1>2. bumped.revision = NextRevision(versions[d].revision)
  BY BaseOfDraft DEF DatasetVersion
<1> HIDE DEF bumped
<1>3. /\ OnlyDraft(d) /\ Drafts' = Drafts
      /\ DOMAIN versions' = DOMAIN versions
      /\ versions'[d] = bumped /\ rows'[d] = own
      /\ \A v \in DOMAIN versions \ {d} : versions'[v] = versions[v] /\ rows'[v] = rows[v] /\ KeepsChain(v)
  BY <1>1, ChangeDraftEffect
<1>4. QED
  BY <1>1, <1>2, <1>3

LEMMA EditDraftEffect ==
    ASSUME LayerInv, NEW d \in Drafts, NEW x \in Feature, NEW from, EditDraft(d, x, from)
    PROVE  \E r \in Row :
              /\ ~r.deleted => r.unit \in Units
              /\ OnlyDraft(d) /\ Drafts' = Drafts
              /\ DOMAIN versions' = DOMAIN versions
              /\ versions'[d].parent = versions[d].parent /\ rows'[d] = Put(rows[d], x, r)
              /\ versions'[d].revision = NextRevision(versions[d].revision)
              /\ resolutions' = resolutions
              /\ \A v \in DOMAIN versions \ {d} : rows'[v] = rows[v] /\ KeepsChain(v)
<1>1. Inv /\ d \in DOMAIN versions /\ Tables(clock, versions, rows) /\ rows[d] \in RowsOfVersion
  BY DEF LayerInv, Inv, Tables, Drafts
<1>2. PICK r \in Written(d, versions, rows, x, from) : rows' = [rows EXCEPT ![d] = Put(@, x, r)]
  BY DEF EditDraft
<1>3. r \in Row /\ (~r.deleted => r.unit \in Units)
  BY <1>1, CurrentIsStored, WrittenTyped
<1>4. Put(rows[d], x, r) \in RowsOfVersion /\ rows' = [rows EXCEPT ![d] = Put(rows[d], x, r)]
  BY <1>1, <1>2, <1>3, PutTyped DEF Tables
<1>5. /\ versions' = BumpRevision(versions, d) /\ resolutions' = resolutions
      /\ UNCHANGED <<active, current>>
  BY DEF EditDraft
<1>6. /\ OnlyDraft(d) /\ Drafts' = Drafts
      /\ DOMAIN versions' = DOMAIN versions
      /\ versions'[d].parent = versions[d].parent /\ rows'[d] = Put(rows[d], x, r)
      /\ versions'[d].revision = NextRevision(versions[d].revision)
      /\ \A v \in DOMAIN versions \ {d} : rows'[v] = rows[v] /\ KeepsChain(v)
  BY <1>4, <1>5, BumpEffect
<1>7. QED
  BY <1>3, <1>5, <1>6

LEMMA ResolveMineEffect ==
    ASSUME LayerInv, NEW d \in Drafts, NEW x \in Feature, ResolveMine(d, x)
    PROVE  /\ OnlyDraft(d) /\ Drafts' = Drafts
           /\ DOMAIN versions' = DOMAIN versions
           /\ versions'[d].parent = versions[d].parent /\ rows'[d] = rows[d]
           /\ versions'[d].revision = NextRevision(versions[d].revision)
           /\ \A v \in DOMAIN versions \ {d} : rows'[v] = rows[v] /\ KeepsChain(v)
<1>1. d \in DOMAIN versions /\ rows[d] \in RowsOfVersion /\ rows' = [rows EXCEPT ![d] = rows[d]]
  BY DEF LayerInv, Inv, Tables, Drafts, ResolveMine
<1>2. /\ versions' = BumpRevision(versions, d)
      /\ \A r : r[1] # d => (r \in resolutions' <=> r \in resolutions)
      /\ UNCHANGED <<active, current>>
  BY DEF ResolveMine
<1>3. QED
  BY <1>1, <1>2, BumpEffect

LEMMA ResolveTheirsEffect ==
    ASSUME LayerInv, NEW d \in Drafts, NEW x \in Feature, ResolveTheirs(d, x)
    PROVE  /\ OnlyDraft(d) /\ Drafts' = Drafts
           /\ DOMAIN versions' = DOMAIN versions
           /\ versions'[d].parent = versions[d].parent
           /\ rows'[d] = Restrict(rows[d], DOMAIN rows[d] \ {x})
           /\ versions'[d].revision = NextRevision(versions[d].revision)
           /\ \A v \in DOMAIN versions \ {d} : rows'[v] = rows[v] /\ KeepsChain(v)
<1> DEFINE own == Restrict(rows[d], DOMAIN rows[d] \ {x})
<1>1. d \in DOMAIN versions /\ rows \in [DOMAIN versions -> RowsOfVersion]
  BY DEF LayerInv, Inv, Tables, Drafts
<1>2. own \in RowsOfVersion
  <2>1. DOMAIN rows[d] \in SUBSET Feature /\ rows[d] \in [DOMAIN rows[d] -> Row]
    BY <1>1, RowsManaged
  <2>2. own \in [DOMAIN rows[d] \ {x} -> Row]
    BY <2>1 DEF Restrict
  <2>3. QED
    BY <2>1, <2>2, RowsIntro
<1>3. /\ rows' = [rows EXCEPT ![d] = own] /\ versions' = BumpRevision(versions, d)
      /\ \A r : r[1] # d => (r \in resolutions' <=> r \in resolutions)
      /\ UNCHANGED <<active, current>>
  BY <1>1 DEF ResolveTheirs
<1> HIDE DEF own
<1>4. /\ OnlyDraft(d) /\ Drafts' = Drafts
      /\ DOMAIN versions' = DOMAIN versions
      /\ versions'[d].parent = versions[d].parent /\ rows'[d] = own
      /\ versions'[d].revision = NextRevision(versions[d].revision)
      /\ \A v \in DOMAIN versions \ {d} : rows'[v] = rows[v] /\ KeepsChain(v)
  BY <1>2, <1>3, BumpEffect
<1>5. QED
  BY <1>4 DEF own

LEMMA RebaseDraftEffect ==
    ASSUME LayerInv, NEW d \in Drafts, RebaseDraft(d)
    PROVE  /\ OnlyDraft(d) /\ Drafts' = Drafts
           /\ DOMAIN versions' = DOMAIN versions
           /\ versions'[d].parent = active /\ rows'[d] = rows[d]
           /\ versions'[d].revision = NextRevision(versions[d].revision)
           /\ \A r \in resolutions' : r[1] # d
           /\ \A v \in DOMAIN versions \ {d} : rows'[v] = rows[v] /\ KeepsChain(v)
<1> DEFINE rebased == [versions[d] EXCEPT !.revision = NextRevision(@), !.parent = active]
<1>1. /\ versions' = [versions EXCEPT ![d] = rebased]
      /\ rebased \in DatasetVersion /\ rebased.draft
      /\ rebased.parent \in DOMAIN versions \ DraftsOf(versions)
      /\ Inv
  BY RebasedTyped DEF RebaseDraft, LayerInv
<1>2. rebased.parent = active /\ rebased.revision = NextRevision(versions[d].revision)
  BY BaseOfDraft DEF DatasetVersion
<1> HIDE DEF rebased
<1>3. rows[d] \in RowsOfVersion /\ rows' = [rows EXCEPT ![d] = rows[d]]
  BY DEF LayerInv, Inv, Tables, Drafts, RebaseDraft
<1>4. /\ \A r : r[1] # d => (r \in resolutions' <=> r \in resolutions)
      /\ \A r \in resolutions' : r[1] # d
      /\ UNCHANGED <<active, current>>
  BY DEF RebaseDraft, WithoutChoices
<1>5. /\ OnlyDraft(d) /\ Drafts' = Drafts
      /\ DOMAIN versions' = DOMAIN versions
      /\ versions'[d] = rebased /\ rows'[d] = rows[d]
      /\ \A v \in DOMAIN versions \ {d} : versions'[v] = versions[v] /\ rows'[v] = rows[v] /\ KeepsChain(v)
  BY <1>1, <1>3, <1>4, ChangeDraftEffect
<1>6. QED
  BY <1>2, <1>4, <1>5

LEMMA LayerInvInit == Init => LayerInv
<1> SUFFICES ASSUME Init PROVE LayerInv
  OBVIOUS
<1>1. DOMAIN versions = {} /\ current = {}
  BY DEF Init, NoRows
<1>2. MapInv
  BY <1>1 DEF MapInv, Content, Statement
<1>3. QED
  BY <1>1, <1>2, InvInit DEF LayerInv, Managed, Based, DraftsOf

LEMMA PublishDraftKeeps == ASSUME LayerInv, Inv', NEW d \in Drafts, PublishDraft(d) PROVE LayerInv'
<1>1. /\ Activated(d)
      /\ \A u \in DOMAIN versions' : u \in DOMAIN versions /\ rows'[u] = rows[u]
      /\ \A x \in Feature : Content(rows', current', x) =
            IF x \in DOMAIN rows[d] THEN Shown(rows[d][x]) ELSE Content(rows, current, x)
  BY PublishDraftEffect DEF LayerInv
<1>2. Managed(versions', rows')
  BY <1>1 DEF Managed, LayerInv
<1>3. d \in DOMAIN versions
  BY DEF Drafts
<1>4. ASSUME NEW x \in Feature PROVE Content(rows', current', x) \in Statement
  <2>1. CASE x \in DOMAIN rows[d]
    BY <1>1, <1>3, <2>1, RowsManaged, ShownTyped
  <2>2. CASE x \notin DOMAIN rows[d]
    BY <1>1, <2>2 DEF LayerInv, MapInv
  <2>3. QED
    BY <2>1, <2>2
<1>5. QED
  BY <1>1, <1>2, <1>4, ActivatedStep

LEMMA DirectWriteKeeps ==
    ASSUME LayerInv, Inv', NEW user \in Users, NEW x \in Feature, DirectWrite(user, x)
    PROVE  LayerInv'
<1>1. PICK r \in Row :
         /\ ~r.deleted => r.unit \in Units
         /\ Activated(clock + 1)
         /\ \A u \in DOMAIN versions' :
               IF u = clock + 1 THEN rows'[u] = [y \in {x} |-> r]
               ELSE u \in DOMAIN versions /\ rows'[u] = rows[u]
         /\ \A y \in Feature : Content(rows', current', y) =
               IF y = x THEN Shown(r) ELSE Content(rows, current, y)
  BY DirectWriteEffect DEF LayerInv
<1>2. ASSUME NEW u \in DOMAIN versions', NEW y \in DOMAIN rows'[u], ~rows'[u][y].deleted
      PROVE  rows'[u][y].unit \in Units
  <2>1. CASE u = clock + 1
    BY <1>1, <1>2, <2>1
  <2>2. CASE u # clock + 1
    BY <1>1, <1>2, <2>2 DEF Managed, LayerInv
  <2>3. QED
    BY <2>1, <2>2
<1>3. Managed(versions', rows')
  BY <1>2 DEF Managed
<1>4. ASSUME NEW y \in Feature PROVE Content(rows', current', y) \in Statement
  <2>1. CASE y = x
    BY <1>1, <2>1, ShownTyped
  <2>2. CASE y # x
    BY <1>1, <2>2 DEF LayerInv, MapInv
  <2>3. QED
    BY <2>1, <2>2
<1>5. QED
  BY <1>1, <1>3, <1>4, ActivatedStep

LEMMA LoadKeeps == ASSUME LayerInv, Inv', NEW supersede \in BOOLEAN, Load(supersede) PROVE LayerInv'
<1>1. /\ Activated(clock + 1)
      /\ Managed(versions', rows')
      /\ \A x \in Feature :
            \/ Content(rows', current', x) = {}
            \/ \E p \in Contents \X Units : Content(rows', current', x) = {p}
  BY LoadEffect DEF LayerInv
<1>2. \A x \in Feature : Content(rows', current', x) \in Statement
  BY <1>1 DEF Statement
<1>3. QED
  BY <1>1, <1>2, ActivatedStep

LEMMA LayerInvStep == LayerInv /\ [Next]_vars => LayerInv'
<1> SUFFICES ASSUME LayerInv, [Next]_vars PROVE LayerInv'
  OBVIOUS
<1>1. Inv /\ Inv'
  BY InvStep DEF LayerInv
<1>2. NoVersion \notin DOMAIN versions' /\ NoVersion \notin Drafts'
  BY <1>1 DEF Inv, Tables, NoVersion, Drafts
<1>3. ASSUME NEW supersede \in BOOLEAN, Load(supersede) PROVE LayerInv'
  BY <1>1, <1>3, LoadKeeps
<1>4. CASE RestampUnchanged
  BY <1>1, <1>2, <1>4, RestampEffect, OnlyDraftStep
<1>5. ASSUME NEW user \in Users, OpenDraft(user) PROVE LayerInv'
  <2>1. active # NoVersion /\ NewDraft(active, user).parent = active /\ DOMAIN NoRows = {}
    BY <1>5 DEF OpenDraft, NewDraft, NoRows
  <2>2. QED
    BY <1>1, <1>5, <2>1, OpenDraftEffect, OnlyDraftStep
<1>6. ASSUME NEW d \in Drafts, NEW user \in Users, CopyDraft(d, user) PROVE LayerInv'
  <2>1. /\ versions[d].parent # NoVersion /\ NewDraft(versions[d].parent, user).parent = versions[d].parent
        /\ \A x \in DOMAIN rows[d] : ~rows[d][x].deleted => rows[d][x].unit \in Units
    BY BaseOfDraft, RowsManaged DEF NewDraft
  <2>2. QED
    BY <1>1, <1>6, <2>1, CopyDraftEffect, OnlyDraftStep
<1>7. ASSUME NEW d \in Drafts, DiscardDraft(d) PROVE LayerInv'
  BY <1>1, <1>7, DiscardDraftEffect, OnlyDraftStep
<1>8. ASSUME NEW d \in Drafts, NEW x \in Feature, NEW from \in UntouchedFrom, EditDraft(d, x, from)
      PROVE  LayerInv'
  <2>1. PICK r \in Row :
           /\ ~r.deleted => r.unit \in Units
           /\ OnlyDraft(d) /\ DOMAIN versions' = DOMAIN versions
           /\ versions'[d].parent = versions[d].parent /\ rows'[d] = Put(rows[d], x, r)
           /\ \A v \in DOMAIN versions \ {d} : rows'[v] = rows[v]
    BY <1>8, EditDraftEffect
  <2>2. ASSUME NEW y \in DOMAIN rows'[d], ~rows'[d][y].deleted PROVE rows'[d][y].unit \in Units
    <3>1. d \in DOMAIN versions
      BY BaseOfDraft
    <3>2. rows'[d][y] = IF y = x THEN r ELSE rows[d][y]
      BY <2>1, <2>2 DEF Put
    <3>3. y # x => y \in DOMAIN rows[d]
      BY <2>1, <2>2 DEF Put
    <3>4. QED
      BY <2>1, <2>2, <3>1, <3>2, <3>3, RowsManaged
  <2>3. versions'[d].parent # NoVersion
    BY <2>1, BaseOfDraft
  <2>4. QED
    BY <1>1, <2>1, <2>2, <2>3, OnlyDraftStep
<1>9. ASSUME NEW d \in Drafts, NEW x \in Feature, ResolveMine(d, x) PROVE LayerInv'
  <2>1. /\ OnlyDraft(d) /\ DOMAIN versions' = DOMAIN versions
        /\ versions'[d].parent = versions[d].parent /\ rows'[d] = rows[d]
        /\ \A v \in DOMAIN versions \ {d} : rows'[v] = rows[v]
    BY <1>9, ResolveMineEffect
  <2>2. QED
    BY <1>1, <2>1, BaseOfDraft, RowsManaged, OnlyDraftStep
<1>10. ASSUME NEW d \in Drafts, NEW x \in Feature, ResolveTheirs(d, x) PROVE LayerInv'
  <2>1. /\ OnlyDraft(d) /\ DOMAIN versions' = DOMAIN versions
        /\ versions'[d].parent = versions[d].parent
        /\ rows'[d] = Restrict(rows[d], DOMAIN rows[d] \ {x})
        /\ \A v \in DOMAIN versions \ {d} : rows'[v] = rows[v]
    BY <1>10, ResolveTheirsEffect
  <2>2. ASSUME NEW y \in DOMAIN rows'[d] PROVE y \in DOMAIN rows[d] /\ rows'[d][y] = rows[d][y]
    BY <2>1 DEF Restrict
  <2>3. QED
    BY <1>1, <2>1, <2>2, BaseOfDraft, RowsManaged, OnlyDraftStep
<1>11. ASSUME NEW d \in Drafts, RebaseDraft(d) PROVE LayerInv'
  <2>1. /\ OnlyDraft(d) /\ DOMAIN versions' = DOMAIN versions
        /\ versions'[d].parent = active /\ rows'[d] = rows[d]
        /\ \A v \in DOMAIN versions \ {d} : rows'[v] = rows[v]
    BY <1>11, RebaseDraftEffect
  <2>2. active # NoVersion
    BY <1>11 DEF RebaseDraft
  <2>3. QED
    BY <1>1, <2>1, <2>2, BaseOfDraft, RowsManaged, OnlyDraftStep
<1>12. ASSUME NEW d \in Drafts, PublishDraft(d) PROVE LayerInv'
  BY <1>1, <1>12, PublishDraftKeeps
<1>13. ASSUME NEW user \in Users, NEW x \in Feature, DirectWrite(user, x) PROVE LayerInv'
  BY <1>1, <1>13, DirectWriteKeeps
<1>14. ASSUME UNCHANGED <<clock, versions, rows, active, current, resolutions>> PROVE LayerInv'
  BY <1>1, <1>14 DEF LayerInv, MapInv
<1>15. ASSUME NEW v \in DOMAIN versions, Pin(v) PROVE LayerInv'
  BY <1>14, <1>15 DEF Pin
<1>16. ASSUME NEW v \in pins, Unpin(v) PROVE LayerInv'
  BY <1>14, <1>16 DEF Unpin
<1>17. CASE UNCHANGED vars
  BY <1>14, <1>17 DEF vars
<1>18. QED
  BY <1>3, <1>4, <1>5, <1>6, <1>7, <1>8, <1>9, <1>10, <1>11, <1>12, <1>13, <1>15, <1>16, <1>17 DEF Next

\* In every reachable state the stored rows name their units, drafts are built on versions, and the
\* map says at most one thing of a feature.
THEOREM LayerInvariance == Spec => []LayerInv
  BY LayerInvInit, LayerInvStep, PTL DEF Spec

-----------------------------------------------------------------------------
(* Action properties *)

\* Whatever a step does, a draft that stays keeps its chain, or goes on to its next revision.
LEMMA DraftKept ==
    ASSUME LayerInv, Next, NEW d \in Drafts \cap Drafts'
    PROVE  KeepsChain(d) \/ versions'[d].revision = NextRevision(versions[d].revision)
<1>1. Inv /\ Managed(versions, rows) /\ d \in DOMAIN versions /\ d # NoVersion
  BY DEF LayerInv, Inv, Tables, Drafts, NoVersion
<1>2. ASSUME NEW e, OnlyDraft(e), d # e PROVE KeepsChain(d)
  BY <1>2 DEF OnlyDraft
<1>3. ASSUME NEW v, Activated(v) PROVE KeepsChain(d)
  BY <1>3 DEF Activated
<1>4. ASSUME NEW supersede \in BOOLEAN, Load(supersede) PROVE KeepsChain(d)
  BY <1>1, <1>3, <1>4, LoadEffect
<1>5. CASE RestampUnchanged
  BY <1>1, <1>2, <1>5, RestampEffect
<1>6. ASSUME NEW user \in Users, OpenDraft(user) PROVE KeepsChain(d)
  BY <1>1, <1>2, <1>6, OpenDraftEffect
<1>7. ASSUME NEW e \in Drafts, NEW user \in Users, CopyDraft(e, user) PROVE KeepsChain(d)
  BY <1>1, <1>2, <1>7, CopyDraftEffect
<1>8. ASSUME NEW e \in Drafts, DiscardDraft(e) PROVE KeepsChain(d)
  BY <1>1, <1>2, <1>8, DiscardDraftEffect
<1>9. ASSUME NEW e \in Drafts, NEW x \in Feature, NEW from \in UntouchedFrom, EditDraft(e, x, from)
      PROVE  KeepsChain(d) \/ versions'[d].revision = NextRevision(versions[d].revision)
  <2>1. OnlyDraft(e) /\ versions'[e].revision = NextRevision(versions[e].revision)
    BY <1>9, EditDraftEffect
  <2>2. QED
    BY <1>2, <2>1
<1>10. ASSUME NEW e \in Drafts, NEW x \in Feature, ResolveMine(e, x)
       PROVE  KeepsChain(d) \/ versions'[d].revision = NextRevision(versions[d].revision)
  <2>1. OnlyDraft(e) /\ versions'[e].revision = NextRevision(versions[e].revision)
    BY <1>10, ResolveMineEffect
  <2>2. QED
    BY <1>2, <2>1
<1>11. ASSUME NEW e \in Drafts, NEW x \in Feature, ResolveTheirs(e, x)
       PROVE  KeepsChain(d) \/ versions'[d].revision = NextRevision(versions[d].revision)
  <2>1. OnlyDraft(e) /\ versions'[e].revision = NextRevision(versions[e].revision)
    BY <1>11, ResolveTheirsEffect
  <2>2. QED
    BY <1>2, <2>1
<1>12. ASSUME NEW e \in Drafts, RebaseDraft(e)
       PROVE  KeepsChain(d) \/ versions'[d].revision = NextRevision(versions[d].revision)
  <2>1. OnlyDraft(e) /\ versions'[e].revision = NextRevision(versions[e].revision)
    BY <1>12, RebaseDraftEffect
  <2>2. QED
    BY <1>2, <2>1
<1>13. ASSUME NEW e \in Drafts, PublishDraft(e) PROVE KeepsChain(d)
  BY <1>1, <1>3, <1>13, PublishDraftEffect
<1>14. ASSUME NEW user \in Users, NEW x \in Feature, DirectWrite(user, x) PROVE KeepsChain(d)
  BY <1>1, <1>3, <1>14, DirectWriteEffect
<1>15. ASSUME NEW v \in DOMAIN versions, Pin(v) PROVE KeepsChain(d)
  BY <1>1, <1>2, <1>15, StutterEffect DEF Pin
<1>16. ASSUME NEW v \in pins, Unpin(v) PROVE KeepsChain(d)
  BY <1>1, <1>2, <1>16, StutterEffect DEF Unpin
<1>17. QED
  BY <1>4, <1>5, <1>6, <1>7, <1>8, <1>9, <1>10, <1>11, <1>12, <1>13, <1>14, <1>15, <1>16 DEF Next

\* Nothing anybody else does changes a row a draft resolves to.
THEOREM DraftIsolationHolds == Spec => DraftIsolation
<1>1. LayerInv /\ LayerInv' /\ [Next]_vars =>
         [\A d \in Drafts \cap Drafts' :
            LET before == Resolved(versions, rows, d)
                after  == Resolved(versions', rows', d)
            IN  \/ versions'[d].revision = NextRevision(versions[d].revision)
                \/ /\ after = before
                   /\ \A k \in before : rows'[k[1]][k[2]] = rows[k[1]][k[2]]]_vars
  <2>1. SUFFICES ASSUME LayerInv, LayerInv', Next, NEW d \in Drafts \cap Drafts',
                        versions'[d].revision # NextRevision(versions[d].revision)
                 PROVE  /\ Resolved(versions', rows', d) = Resolved(versions, rows, d)
                        /\ \A k \in Resolved(versions, rows, d) : rows'[k[1]][k[2]] = rows[k[1]][k[2]]
    OBVIOUS
  <2>2. KeepsChain(d)
    BY <2>1, DraftKept
  <2>3. d \in DOMAIN versions /\ Forest(versions) /\ Forest(versions')
    BY <2>1 DEF LayerInv, Inv, Tables, Drafts
  <2>4. QED
    BY <2>2, <2>3, ChainContent
<1>2. QED
  BY <1>1, LayerInvariance, PTL DEF Spec, DraftIsolation

\* An activation is a load, or a version built on the one that was active.
LEMMA ActivationIsPublish ==
    ASSUME LayerInv, Next, NEW v \in DOMAIN versions', active' = v, active # v
    PROVE  \/ \E supersede \in BOOLEAN : Load(supersede)
           \/ \E d \in Drafts : PublishDraft(d)
           \/ \E user \in Users, x \in Feature : DirectWrite(user, x)
  BY DEF Next, RestampUnchanged, OpenDraft, CopyDraft, DiscardDraft, EditDraft, ResolveMine, ResolveTheirs,
         RebaseDraft, Pin, Unpin

\* A publish stays in the jurisdiction of the draft's owner, for the unit a changed feature had as for
\* the one it gets.
THEOREM WithinJurisdictionHolds == Spec => WithinJurisdiction
<1>1. LayerInv /\ [Next]_vars =>
         [\A v \in DOMAIN versions' :
             (active' = v /\ active # v /\ versions'[v].parent # NoVersion) =>
                \A x \in Feature :
                   LET before == Content(rows, current, x)
                       after  == Content(rows', current', x)
                   IN  before # after =>
                          \A c \in before \cup after : c[2] \in Jurisdiction[versions'[v].owner]]_vars
  <2>1. SUFFICES ASSUME LayerInv, Next, NEW v \in DOMAIN versions', active' = v, active # v,
                        versions'[v].parent # NoVersion, NEW x \in Feature,
                        Content(rows, current, x) # Content(rows', current', x),
                        NEW c \in Content(rows, current, x) \cup Content(rows', current', x)
                 PROVE  c[2] \in Jurisdiction[versions'[v].owner]
    OBVIOUS
  <2>2. Inv /\ Managed(versions, rows)
    BY <2>1 DEF LayerInv
  <2>3. ASSUME NEW rs, NEW u, NEW user, Publishable(user, rs, u), x \in DOMAIN rs[u],
               \A k \in current : rs[k[1]] = rows[k[1]],
               Content(rows', current', x) = Shown(rs[u][x])
        PROVE  c[2] \in Jurisdiction[user]
    <3>1. CASE c \in Content(rows, current, x)
      <4>1. PICK k \in current : k[2] = x /\ c = <<rows[k[1]][x].content, rows[k[1]][x].unit>>
        BY <3>1 DEF Content
      <4>2. QED
        BY <2>3, <4>1 DEF Publishable
    <3>2. CASE c \in Shown(rs[u][x])
      BY <2>3, <3>2 DEF Publishable, Shown
    <3>3. QED
      BY <2>3, <3>1, <3>2
  <2>4. ASSUME NEW supersede \in BOOLEAN, Load(supersede) PROVE FALSE
    BY <2>1, <2>2, <2>4, LoadEffect DEF Activated
  <2>5. ASSUME NEW d \in Drafts, PublishDraft(d) PROVE c[2] \in Jurisdiction[versions'[v].owner]
    <3>1. /\ v = d /\ versions'[d].owner = versions[d].owner
          /\ Content(rows', current', x) =
                IF x \in DOMAIN rows[d] THEN Shown(rows[d][x]) ELSE Content(rows, current, x)
      BY <2>1, <2>2, <2>5, PublishDraftEffect DEF Activated
    <3>2. Publishable(versions[d].owner, rows, d)
      BY <2>5 DEF PublishDraft
    <3>3. QED
      BY <2>1, <2>3, <3>1, <3>2
  <2>6. ASSUME NEW user \in Users, NEW y \in Feature, DirectWrite(user, y)
        PROVE  c[2] \in Jurisdiction[versions'[v].owner]
    <3> DEFINE w == clock + 1
    <3>1. PICK r \in Row :
             /\ Publishable(user, Put(rows, w, [z \in {y} |-> r]), w)
             /\ w \notin DOMAIN versions /\ Activated(w)
             /\ versions'[w].owner = user
             /\ \A z \in Feature : Content(rows', current', z) =
                   IF z = y THEN Shown(r) ELSE Content(rows, current, z)
      BY <2>2, <2>6, DirectWriteEffect
    <3>2. v = w /\ y = x /\ Content(rows', current', x) = Shown(r)
      BY <2>1, <3>1 DEF Activated
    <3> DEFINE rs == Put(rows, w, [z \in {y} |-> r])
    <3>3. rs[w] = [z \in {x} |-> r] /\ rs[w][x] = r /\ x \in DOMAIN rs[w]
      BY <3>2 DEF Put
    <3>4. \A k \in current : rs[k[1]] = rows[k[1]]
      <4>1. ASSUME NEW k \in current PROVE k[1] \in DOMAIN rows /\ k[1] # w
        BY <2>2, <3>1, CurrentIsStored DEF Inv, Tables
      <4>2. QED
        BY <4>1 DEF Put
    <3>5. Publishable(user, rs, w)
      BY <3>1
    <3> HIDE DEF rs, w
    <3>6. QED
      BY <2>3, <3>1, <3>2, <3>3, <3>4, <3>5
  <2>7. QED
    BY <2>1, <2>4, <2>5, <2>6, ActivationIsPublish
<1>2. QED
  BY <1>1, LayerInvariance, PTL DEF Spec, WithinJurisdiction

\* A load never moves a feature to another managing unit.
THEOREM UnitSurvivesLoadHolds == Spec => UnitSurvivesLoad
<1>1. LayerInv /\ LayerInv' /\ [Next]_vars =>
         [(active' # active /\ versions'[active'].parent = NoVersion) =>
             \A x \in Feature : \A b \in Content(rows, current, x), a \in Content(rows', current', x) :
                a[2] = b[2]]_vars
  <2>1. SUFFICES ASSUME LayerInv, LayerInv', Next, active' # active, versions'[active'].parent = NoVersion,
                        NEW x \in Feature, NEW b \in Content(rows, current, x),
                        NEW a \in Content(rows', current', x)
                 PROVE  a[2] = b[2]
    OBVIOUS
  <2>2. Inv /\ Managed(versions, rows)
    BY <2>1 DEF LayerInv
  <2>3. active' \in DOMAIN versions'
    <3>1. active' # NoVersion
      BY <2>1 DEF LayerInv, Inv, CurrentIsResolved, Content
    <3>2. QED
      BY <2>1, <3>1 DEF LayerInv, Inv, References
  <2>4. ASSUME NEW supersede \in BOOLEAN, Load(supersede) PROVE a[2] = b[2]
    <3>1. PICK p : /\ Content(rows', current', x) = {p}
                   /\ p[2] \in (IF Content(rows, current, x) # {}
                                THEN {q[2] : q \in Content(rows, current, x)} ELSE {Rule[p[1]]})
      BY <2>2, <2>4, LoadEffect
    <3>2. a = p /\ a[2] \in {q[2] : q \in Content(rows, current, x)}
      BY <3>1
    <3>3. Content(rows, current, x) = {b}
      BY <2>1 DEF LayerInv, MapInv, Statement
    <3>4. QED
      BY <3>2, <3>3
  <2>5. ASSUME NEW d \in Drafts, PublishDraft(d) PROVE FALSE
    BY <2>1, <2>2, <2>5, PublishDraftEffect DEF Activated
  <2>6. ASSUME NEW user \in Users, NEW y \in Feature, DirectWrite(user, y) PROVE FALSE
    BY <2>1, <2>2, <2>6, DirectWriteEffect DEF Activated
  <2>7. QED
    BY <2>1, <2>3, <2>4, <2>5, <2>6, ActivationIsPublish
<1>2. QED
  BY <1>1, LayerInvariance, PTL DEF Spec, UnitSurvivesLoad

-----------------------------------------------------------------------------
(* The layer seen from outside *)

\* The actions of PublishedLayer, on what this module shows of its state.
LEMMA LayerOpenIntro ==
    ASSUME NEW d, d \notin DOMAIN PersonalState, Official' = Official,
           PersonalState' = [e \in DOMAIN PersonalState \cup {d} |->
                               IF e = d THEN [base |-> Official, patch |-> [x \in {} |-> {}], mine |-> {}]
                               ELSE PersonalState[e]]
    PROVE  Layer!Open(d)
  BY Zenon DEF Layer!Open, Layer!With, Official, PersonalState, DraftState

LEMMA LayerCopyIntro ==
    ASSUME NEW d, NEW e, e \notin DOMAIN PersonalState, Official' = Official,
           PersonalState' = [b \in DOMAIN PersonalState \cup {e} |->
                               IF b = e THEN [PersonalState[d] EXCEPT !.mine = {}]
                               ELSE PersonalState[b]]
    PROVE  Layer!Copy(d, e)
  BY Zenon DEF Layer!Copy, Layer!With, Official, PersonalState, DraftState

LEMMA LayerDiscardIntro ==
    ASSUME NEW d, Official' = Official,
           PersonalState' = Restrict(PersonalState, DOMAIN PersonalState \ {d})
    PROVE  Layer!Discard(d)
  BY Zenon DEF Layer!Discard, Layer!Restrict, Restrict, Official, PersonalState, DraftState

LEMMA LayerEditIntro ==
    ASSUME NEW d, NEW x, NEW value, Official' = Official,
           PersonalState' = [PersonalState EXCEPT ![d].patch = [y \in DOMAIN @ \cup {x} |-> IF y = x THEN value ELSE @[y]]]
    PROVE  Layer!Edit(d, x, value)
  BY Zenon DEF Layer!Edit, Layer!With, Official, PersonalState, DraftState

LEMMA LayerConflict ==
    ASSUME NEW d, NEW x
    PROVE  Layer!InConflict(d, x) <=>
              LET p == PersonalState[d] IN x \in DOMAIN p.patch /\ p.base[x] # Official[x] /\ x \notin p.mine
  BY Zenon DEF Layer!InConflict, Official, PersonalState, DraftState

LEMMA LayerMineIntro ==
    ASSUME NEW d, NEW x, Layer!InConflict(d, x), Official' = Official,
           PersonalState' = [PersonalState EXCEPT ![d].mine = @ \cup {x}]
    PROVE  Layer!TakeMine(d, x)
  BY Zenon DEF Layer!TakeMine, Official, PersonalState, DraftState

LEMMA LayerTheirsIntro ==
    ASSUME NEW d, NEW x, Layer!InConflict(d, x), Official' = Official,
           PersonalState' = [PersonalState EXCEPT ![d].patch = Restrict(@, DOMAIN @ \ {x})]
    PROVE  Layer!TakeTheirs(d, x)
  BY Zenon DEF Layer!TakeTheirs, Layer!Restrict, Restrict, Official, PersonalState, DraftState

LEMMA LayerRebaseIntro ==
    ASSUME NEW d, \A x \in Feature : ~Layer!InConflict(d, x), Official' = Official,
           PersonalState' = [PersonalState EXCEPT ![d].base = Official, ![d].mine = {}]
    PROVE  Layer!Rebase(d)
  BY Zenon DEF Layer!Rebase, Official, PersonalState, DraftState

LEMMA LayerPublishIntro ==
    ASSUME NEW d, \A x \in Feature : ~Layer!InConflict(d, x),
           Official' = Layer!Applied(PersonalState[d].patch, Official),
           PersonalState' = Layer!Lapsed(Restrict(PersonalState, DOMAIN PersonalState \ {d}))
    PROVE  Layer!Publish(d)
  BY Zenon DEF Layer!Publish, Layer!Restrict, Restrict, Official, PersonalState, DraftState

LEMMA LayerWriteIntro ==
    ASSUME NEW x, NEW value, Official' = [Official EXCEPT ![x] = value],
           PersonalState' = Layer!Lapsed(PersonalState)
    PROVE  Layer!Write(x, value)
  BY Zenon DEF Layer!Write, Official, PersonalState, DraftState

LEMMA LayerReplaceIntro ==
    ASSUME NEW state, 
           \A x \in Feature : \A p \in state[x] :
              p[2] \in (IF Official[x] # {} THEN {q[2] : q \in Official[x]} ELSE {Rule[p[1]]}),
           Official' = state,
           PersonalState' = Layer!Lapsed(PersonalState)
    PROVE  Layer!Replace(state)
  BY Zenon DEF Layer!Replace, Official, PersonalState, DraftState

LEMMA LayerStutterIntro ==
    ASSUME Official' = Official, PersonalState' = PersonalState
    PROVE  UNCHANGED Layer!layerVars
  BY Zenon DEF Layer!layerVars, Official, PersonalState, DraftState

-----------------------------------------------------------------------------
(* Every step is a step of the layer *)

\* A step that leaves the map alone leaves every other draft alone too.
LEMMA OthersStay ==
    ASSUME LayerInv, Inv', NEW d, OnlyDraft(d)
    PROVE  /\ Official' = Official
           /\ \A e \in Drafts \ {d} : e \in Drafts' /\ DraftState(e)' = DraftState(e)
<1>1. Inv /\ Based(versions)
  BY DEF LayerInv
<1>2. Official' = Official
  BY <1>1, OfficialStays DEF OnlyDraft
<1>3. ASSUME NEW e \in Drafts \ {d} PROVE e \in Drafts' /\ DraftState(e)' = DraftState(e)
  <2>1. e \in Drafts' /\ KeepsChain(e) /\ active' = active
    BY <1>3 DEF OnlyDraft
  <2>2. \A x : <<e, x, active>> \in resolutions' <=> <<e, x, active>> \in resolutions
    BY <1>3 DEF OnlyDraft
  <2>3. ContentAt(versions[e].parent)' = ContentAt(versions[e].parent) /\ Patch(e)' = Patch(e)
    BY <1>1, <2>1, DraftStays
  <2>4. {x \in Feature : <<e, x, active'>> \in resolutions'} = {x \in Feature : <<e, x, active>> \in resolutions}
    BY <2>1, <2>2
  <2>5. QED
    BY <2>1, <2>3, <2>4 DEF DraftState
<1>4. QED
  BY <1>2, <1>3

\* A step on a draft that stays one.
LEMMA DraftChanged ==
    ASSUME LayerInv, Inv', NEW d \in Drafts, OnlyDraft(d), Drafts' = Drafts
    PROVE  Official' = Official /\ PersonalState' = [PersonalState EXCEPT ![d] = DraftState(d)']
<1>1. /\ Official' = Official
      /\ \A e \in Drafts \ {d} : DraftState(e)' = DraftState(e)
  BY OthersStay
<1>2. PersonalState' = [e \in Drafts |-> DraftState(e)']
  BY DEF PersonalState
<1>3. QED
  BY <1>1, <1>2 DEF PersonalState

\* A new draft.
LEMMA DraftAdded ==
    ASSUME LayerInv, Inv', NEW d, d \notin Drafts, OnlyDraft(d), Drafts' = Drafts \cup {d}
    PROVE  /\ Official' = Official
           /\ PersonalState' = [e \in DOMAIN PersonalState \cup {d} |->
                                  IF e = d THEN DraftState(d)' ELSE PersonalState[e]]
<1>1. /\ Official' = Official
      /\ \A e \in Drafts \ {d} : DraftState(e)' = DraftState(e)
  BY OthersStay
<1>2. PersonalState' = [e \in Drafts \cup {d} |-> DraftState(e)']
  BY DEF PersonalState
<1>3. DOMAIN PersonalState = Drafts /\ \A e \in Drafts : PersonalState[e] = DraftState(e)
  BY DEF PersonalState
<1>4. QED
  BY <1>1, <1>2, <1>3

\* A draft's state with other choices, patch or base.
LEMMA DraftWithout ==
    ASSUME NEW b, NEW p, NEW m, NEW n
    PROVE  [[base |-> b, patch |-> p, mine |-> m] EXCEPT !.mine = n] = [base |-> b, patch |-> p, mine |-> n]
  OBVIOUS

\* A step that makes a version the active one ends its draft and lets every choice lapse.
LEMMA ChoicesLapse ==
    ASSUME LayerInv, Inv', NEW v, Activated(v)
    PROVE  PersonalState' = Layer!Lapsed(Restrict(PersonalState, DOMAIN PersonalState \ {v}))
<1>1. Inv /\ Based(versions)
  BY DEF LayerInv
<1>2. ASSUME NEW e \in Drafts \ {v} PROVE DraftState(e)' = [DraftState(e) EXCEPT !.mine = {}]
  <2>1. KeepsChain(e) /\ \A x : <<e, x, active'>> \notin resolutions'
    BY <1>2 DEF Activated
  <2>2. ContentAt(versions[e].parent)' = ContentAt(versions[e].parent) /\ Patch(e)' = Patch(e)
    BY <1>1, <2>1, DraftStays
  <2>3. {x \in Feature : <<e, x, active'>> \in resolutions'} = {}
    BY <2>1
  <2>4. DraftState(e)' = [base |-> ContentAt(versions[e].parent), patch |-> Patch(e), mine |-> {}]
    BY <2>2, <2>3 DEF DraftState
  <2> DEFINE chosen == {x \in Feature : <<e, x, active>> \in resolutions}
  <2>5. DraftState(e) = [base |-> ContentAt(versions[e].parent), patch |-> Patch(e), mine |-> chosen]
    BY DEF DraftState
  <2> HIDE DEF chosen
  <2>6. QED
    BY <2>4, <2>5, DraftWithout
<1>3. PersonalState' = [e \in Drafts \ {v} |-> DraftState(e)']
  BY DEF PersonalState, Activated
<1>4. DOMAIN PersonalState = Drafts /\ \A e \in Drafts : PersonalState[e] = DraftState(e)
  BY DEF PersonalState
<1>5. QED
  BY <1>2, <1>3, <1>4 DEF Layer!Lapsed, Restrict

\* What a draft in conflict looks like from outside.
LEMMA ConflictSeen ==
    ASSUME LayerInv, active # NoVersion, NEW d \in Drafts, NEW x \in Feature
    PROVE  Layer!InConflict(d, x) <=> x \in Conflicts(d)
<1> DEFINE p == versions[d].parent
           base == Resolved(versions, rows, p)
           now == Resolved(versions, rows, active)
<1>1. /\ Official[x] = Content(rows, now, x)
      /\ ContentAt(p)[x] = Content(rows, base, x)
  BY MapIsActive DEF LayerInv, ContentAt, Official
<1>2. x \in Conflicts(d) <=> /\ p # active /\ x \in DOMAIN rows[d]
                             /\ Content(rows, base, x) # Content(rows, now, x)
                             /\ <<d, x, active>> \notin resolutions
  BY DEF Conflicts
<1>3. Layer!InConflict(d, x) <=> /\ x \in DOMAIN DraftState(d).patch
                                 /\ DraftState(d).base[x] # Official[x]
                                 /\ x \notin DraftState(d).mine
  BY LayerConflict DEF PersonalState
<1>4. /\ DOMAIN DraftState(d).patch = DOMAIN rows[d]
      /\ DraftState(d).base = ContentAt(p)
      /\ x \notin DraftState(d).mine <=> <<d, x, active>> \notin resolutions
  BY DEF DraftState, Patch
<1>5. QED
  BY <1>1, <1>2, <1>3, <1>4

\* Choices belong to drafts.
LEMMA NoChoiceYet ==
    ASSUME LayerInv, NEW v, v \notin Drafts, NEW x, NEW u
    PROVE  <<v, x, u>> \notin resolutions
  BY DEF LayerInv, Inv, References, Drafts, DraftsOf

\* A draft opened on the map is an empty patch over it.
LEMMA OpenDraftRefines ==
    ASSUME LayerInv, Inv', NEW user \in Users, OpenDraft(user), NEW v, v = clock + 1
    PROVE  v \in Version /\ Layer!Open(v)
<1>1. /\ OnlyDraft(v) /\ v \in Version /\ v \notin Drafts /\ Drafts' = Drafts \cup {v}
      /\ versions'[v].parent = active /\ rows'[v] = NoRows
      /\ active # NoVersion => KeepsChain(active)
  <2>1. /\ OnlyDraft(v) /\ v \in Version /\ v \notin DOMAIN versions /\ Drafts' = Drafts \cup {v}
        /\ versions'[v] = NewDraft(active, user) /\ rows'[v] = NoRows
    BY OpenDraftEffect
  <2>2. v \notin Drafts
    BY <2>1 DEF Drafts
  <2>3. active # NoVersion => KeepsChain(active)
    BY <2>1 DEF OnlyDraft
  <2>4. QED
    BY <2>1, <2>2, <2>3 DEF NewDraft
<1>2. active # NoVersion /\ active \in DOMAIN versions /\ active' = active
  BY DEF OpenDraft, LayerInv, Inv, References
<1>3. ContentAt(active)' = ContentAt(active)
  <2>1. Forest(versions) /\ Forest(versions') /\ KeepsChain(active)
    BY <1>1, <1>2 DEF LayerInv, Inv, Tables
  <2>2. QED
    BY <1>2, <2>1, ChainContent DEF ContentAt
<1>4. ContentAt(active) = Official
  BY <1>2, MapIsActive DEF LayerInv
<1>5. Patch(v)' = [x \in {} |-> {}]
  BY <1>1 DEF Patch, NoRows
<1>6. {x \in Feature : <<v, x, active'>> \in resolutions'} = {}
  <2>1. resolutions' = resolutions
    BY DEF OpenDraft
  <2>2. \A x, u : <<v, x, u>> \notin resolutions
    BY <1>1, NoChoiceYet
  <2>3. QED
    BY <2>1, <2>2
<1>7. ContentAt(versions[v].parent)' = Official
  BY <1>1, <1>2, <1>3, <1>4
<1>8. DraftState(v)' = [base |-> Official, patch |-> [x \in {} |-> {}], mine |-> {}]
  BY <1>5, <1>6, <1>7 DEF DraftState
<1>9. v \notin DOMAIN PersonalState
  BY <1>1 DEF PersonalState
<1>10. /\ Official' = Official
       /\ PersonalState' = [e \in DOMAIN PersonalState \cup {v} |->
                              IF e = v THEN DraftState(v)' ELSE PersonalState[e]]
  BY <1>1, DraftAdded
<1>11. QED
  BY <1>1, <1>8, <1>9, <1>10, LayerOpenIntro

\* A copy is the patch it copies, over the same base state, without the choices.
LEMMA CopyDraftRefines ==
    ASSUME LayerInv, Inv', NEW d \in Drafts, NEW user \in Users, CopyDraft(d, user),
           NEW v, v = clock + 1, NEW p, p = versions[d].parent
    PROVE  v \in Version /\ Layer!Copy(d, v)
<1>1. /\ OnlyDraft(v) /\ v \in Version /\ v \notin Drafts /\ Drafts' = Drafts \cup {v}
      /\ versions'[v].parent = p /\ rows'[v] = rows[d]
      /\ \A u \in DOMAIN versions : KeepsChain(u)
  <2>1. /\ OnlyDraft(v) /\ v \in Version /\ v \notin DOMAIN versions /\ Drafts' = Drafts \cup {v}
        /\ versions'[v] = NewDraft(p, user) /\ rows'[v] = rows[d]
        /\ \A u \in DOMAIN versions : KeepsChain(u)
    BY CopyDraftEffect
  <2>2. v \notin Drafts
    BY <2>1 DEF Drafts
  <2>3. QED
    BY <2>1, <2>2 DEF NewDraft
<1>2. p \in DOMAIN versions
  BY BaseOfDraft
<1>3. ContentAt(p)' = ContentAt(p)
  <2>1. Forest(versions) /\ Forest(versions') /\ KeepsChain(p)
    BY <1>1, <1>2 DEF LayerInv, Inv, Tables
  <2>2. QED
    BY <1>2, <2>1, ChainContent DEF ContentAt
<1>4. Patch(v)' = Patch(d)
  BY <1>1 DEF Patch
<1>5. {x \in Feature : <<v, x, active'>> \in resolutions'} = {}
  <2>1. resolutions' = resolutions
    BY DEF CopyDraft
  <2>2. \A x, u : <<v, x, u>> \notin resolutions
    BY <1>1, NoChoiceYet
  <2>3. QED
    BY <2>1, <2>2
<1>6. ContentAt(versions[v].parent)' = ContentAt(p)
  BY <1>1, <1>3
<1>7. DraftState(v)' = [base |-> ContentAt(p), patch |-> Patch(d), mine |-> {}]
  BY <1>4, <1>5, <1>6 DEF DraftState
<1> DEFINE chosen == {x \in Feature : <<d, x, active>> \in resolutions}
<1>8. PersonalState[d] = [base |-> ContentAt(p), patch |-> Patch(d), mine |-> chosen]
  BY DEF PersonalState, DraftState
<1>9. v \notin DOMAIN PersonalState
  BY <1>1 DEF PersonalState
<1> HIDE DEF chosen
<1>10. DraftState(v)' = [PersonalState[d] EXCEPT !.mine = {}]
  BY <1>7, <1>8, DraftWithout
<1>11. /\ Official' = Official
       /\ PersonalState' = [e \in DOMAIN PersonalState \cup {v} |->
                              IF e = v THEN DraftState(v)' ELSE PersonalState[e]]
  BY <1>1, DraftAdded
<1>12. QED
  BY <1>1, <1>9, <1>10, <1>11, LayerCopyIntro

\* A discarded draft is a patch that is gone.
LEMMA DiscardDraftRefines ==
    ASSUME LayerInv, Inv', NEW d \in Drafts, DiscardDraft(d)
    PROVE  Layer!Discard(d)
<1>1. OnlyDraft(d) /\ Drafts' = Drafts \ {d}
  BY DiscardDraftEffect DEF LayerInv
<1>2. /\ Official' = Official
      /\ \A e \in Drafts \ {d} : DraftState(e)' = DraftState(e)
  BY <1>1, OthersStay
<1>3. PersonalState' = [e \in Drafts \ {d} |-> DraftState(e)']
  BY <1>1 DEF PersonalState
<1>4. PersonalState' = Restrict(PersonalState, DOMAIN PersonalState \ {d})
  BY <1>2, <1>3 DEF PersonalState, Restrict
<1>5. QED
  BY <1>2, <1>4, LayerDiscardIntro

\* The actions on one draft, on the three parts of its state.
LEMMA LayerEditParts ==
    ASSUME NEW d, NEW x, NEW value, NEW b, NEW p, NEW m,
           PersonalState[d] = [base |-> b, patch |-> p, mine |-> m], Official' = Official,
           PersonalState' = [PersonalState EXCEPT ![d] = [base |-> b, patch |-> Put(p, x, value), mine |-> m]]
    PROVE  Layer!Edit(d, x, value)
<1>1. [PersonalState[d] EXCEPT !.patch = Put(p, x, value)] = [base |-> b, patch |-> Put(p, x, value), mine |-> m]
  OBVIOUS
<1>2. PersonalState[d].patch = p
  OBVIOUS
<1>3. PersonalState' = [PersonalState EXCEPT ![d].patch = Put(@, x, value)]
  BY <1>1, <1>2
<1>4. QED
  BY <1>3, LayerEditIntro DEF Put

LEMMA LayerMineParts ==
    ASSUME NEW d, NEW x, NEW b, NEW p, NEW m, Layer!InConflict(d, x),
           PersonalState[d] = [base |-> b, patch |-> p, mine |-> m], Official' = Official,
           PersonalState' = [PersonalState EXCEPT ![d] = [base |-> b, patch |-> p, mine |-> m \cup {x}]]
    PROVE  Layer!TakeMine(d, x)
<1>1. [PersonalState[d] EXCEPT !.mine = m \cup {x}] = [base |-> b, patch |-> p, mine |-> m \cup {x}]
  OBVIOUS
<1>2. PersonalState[d].mine = m
  OBVIOUS
<1>3. PersonalState' = [PersonalState EXCEPT ![d].mine = @ \cup {x}]
  BY <1>1, <1>2
<1>4. QED
  BY <1>3, LayerMineIntro

LEMMA LayerTheirsParts ==
    ASSUME NEW d, NEW x, NEW b, NEW p, NEW m, Layer!InConflict(d, x),
           PersonalState[d] = [base |-> b, patch |-> p, mine |-> m], Official' = Official,
           PersonalState' = [PersonalState EXCEPT
                               ![d] = [base |-> b, patch |-> Restrict(p, DOMAIN p \ {x}), mine |-> m]]
    PROVE  Layer!TakeTheirs(d, x)
<1> DEFINE q == Restrict(p, DOMAIN p \ {x})
<1>1. PersonalState' = [PersonalState EXCEPT ![d] = [base |-> b, patch |-> q, mine |-> m]]
  OBVIOUS
<1>2. Restrict(PersonalState[d].patch, DOMAIN PersonalState[d].patch \ {x}) = q
  OBVIOUS
<1> HIDE DEF q
<1>3. [PersonalState[d] EXCEPT !.patch = q] = [base |-> b, patch |-> q, mine |-> m]
  OBVIOUS
<1>4. PersonalState' = [PersonalState EXCEPT ![d].patch = Restrict(@, DOMAIN @ \ {x})]
  BY <1>1, <1>2, <1>3
<1>5. QED
  BY <1>4, LayerTheirsIntro

LEMMA LayerRebaseParts ==
    ASSUME NEW d, NEW b, NEW p, NEW m, \A x \in Feature : ~Layer!InConflict(d, x),
           PersonalState[d] = [base |-> b, patch |-> p, mine |-> m], Official' = Official,
           PersonalState' = [PersonalState EXCEPT ![d] = [base |-> Official, patch |-> p, mine |-> {}]]
    PROVE  Layer!Rebase(d)
<1>1. PICK q : q = [PersonalState[d] EXCEPT !.base = Official]
  OBVIOUS
<1>2. q = [base |-> Official, patch |-> p, mine |-> m]
  BY <1>1
<1>3. [q EXCEPT !.mine = {}] = [base |-> Official, patch |-> p, mine |-> {}]
  BY <1>2
<1>4. PersonalState' = [PersonalState EXCEPT ![d] = [q EXCEPT !.mine = {}]]
  BY <1>3
<1>5. PersonalState' = [PersonalState EXCEPT ![d] = [[PersonalState[d] EXCEPT !.base = Official] EXCEPT !.mine = {}]]
  BY <1>1, <1>4
<1>6. PersonalState' = [PersonalState EXCEPT ![d].base = Official, ![d].mine = {}]
  BY <1>5
<1>7. QED
  BY <1>6, LayerRebaseIntro

\* The three parts of a draft's state.
LEMMA DraftParts ==
    ASSUME NEW d \in Drafts
    PROVE  PersonalState[d] = [base  |-> ContentAt(versions[d].parent), patch |-> Patch(d),
                               mine  |-> {x \in Feature : <<d, x, active>> \in resolutions}]
  BY DEF PersonalState, DraftState

\* What stays of a draft's base when only its own rows, choices and revision change.
LEMMA BaseStays ==
    ASSUME LayerInv, Inv', NEW d \in Drafts, NEW p, p = versions[d].parent,
           versions'[d].parent = p, \A v \in DOMAIN versions \ {d} : KeepsChain(v)
    PROVE  ContentAt(versions[d].parent)' = ContentAt(p)
<1>1. p \in DOMAIN versions \ {d}
  BY BaseOfDraft
<1>2. Forest(versions) /\ Forest(versions') /\ KeepsChain(p)
  BY <1>1 DEF LayerInv, Inv, Tables
<1>3. ContentAt(p)' = ContentAt(p)
  BY <1>1, <1>2, ChainContent DEF ContentAt
<1>4. QED
  BY <1>3

\* What an edit leaves in a draft is one more feature in its patch.
LEMMA PatchOfPut ==
    ASSUME NEW d, NEW x, NEW r, rows'[d] = Put(rows[d], x, r)
    PROVE  Patch(d)' = Put(Patch(d), x, Shown(r))
<1>1. Patch(d)' = [y \in DOMAIN rows[d] \cup {x} |->
                     IF y = x THEN Shown(r)
                     ELSE IF rows[d][y].deleted THEN {} ELSE {<<rows[d][y].content, rows[d][y].unit>>}]
  BY DEF Patch, Put, Shown
<1>2. QED
  BY <1>1 DEF Patch, Put

LEMMA PatchOfRestrict ==
    ASSUME NEW d, NEW x, rows'[d] = Restrict(rows[d], DOMAIN rows[d] \ {x})
    PROVE  Patch(d)' = Restrict(Patch(d), DOMAIN Patch(d) \ {x})
  BY DEF Patch, Restrict

LEMMA EditDraftRefines ==
    ASSUME LayerInv, Inv', NEW d \in Drafts, NEW x \in Feature, NEW from, EditDraft(d, x, from)
    PROVE  \E value \in Layer!Value : Layer!Edit(d, x, value)
<1>1. PICK r \in Row :
           /\ ~r.deleted => r.unit \in Units
           /\ OnlyDraft(d) /\ Drafts' = Drafts
           /\ versions'[d].parent = versions[d].parent /\ rows'[d] = Put(rows[d], x, r)
           /\ resolutions' = resolutions
           /\ \A v \in DOMAIN versions \ {d} : KeepsChain(v)
  BY EditDraftEffect
<1>2. Shown(r) \in Layer!Value
  BY <1>1, ShownTyped DEF Statement, Layer!Value
<1>3. PICK b, p, m : /\ b = ContentAt(versions[d].parent) /\ p = Patch(d)
                     /\ m = {y \in Feature : <<d, y, active>> \in resolutions}
  OBVIOUS
<1>4. PersonalState[d] = [base |-> b, patch |-> p, mine |-> m]
  BY <1>3, DraftParts
<1>5. Official' = Official /\ PersonalState' = [PersonalState EXCEPT ![d] = DraftState(d)']
  BY <1>1, DraftChanged
<1>6. ContentAt(versions[d].parent)' = b
  BY <1>1, <1>3, BaseStays
<1>7. Patch(d)' = Put(p, x, Shown(r))
  BY <1>1, <1>3, PatchOfPut
<1>8. {y \in Feature : <<d, y, active>> \in resolutions}' = m
  BY <1>1, <1>3 DEF OnlyDraft
<1>9. DraftState(d)' = [base |-> b, patch |-> Put(p, x, Shown(r)), mine |-> m]
  BY <1>6, <1>7, <1>8 DEF DraftState
<1>10. Layer!Edit(d, x, Shown(r))
  BY <1>4, <1>5, <1>9, LayerEditParts
<1>11. QED
  BY <1>2, <1>10

LEMMA ResolveMineRefines ==
    ASSUME LayerInv, Inv', NEW d \in Drafts, NEW x \in Feature, ResolveMine(d, x)
    PROVE  Layer!TakeMine(d, x)
<1>1. /\ OnlyDraft(d) /\ Drafts' = Drafts
      /\ versions'[d].parent = versions[d].parent /\ rows'[d] = rows[d]
      /\ \A v \in DOMAIN versions \ {d} : KeepsChain(v)
  BY ResolveMineEffect
<1>2. Layer!InConflict(d, x)
  BY ConflictSeen DEF ResolveMine
<1>3. PICK b, p, m : /\ b = ContentAt(versions[d].parent) /\ p = Patch(d)
                     /\ m = {y \in Feature : <<d, y, active>> \in resolutions}
  OBVIOUS
<1>4. PersonalState[d] = [base |-> b, patch |-> p, mine |-> m]
  BY <1>3, DraftParts
<1>5. Official' = Official /\ PersonalState' = [PersonalState EXCEPT ![d] = DraftState(d)']
  BY <1>1, DraftChanged
<1>6. ContentAt(versions[d].parent)' = b
  BY <1>1, <1>3, BaseStays
<1>7. Patch(d)' = p
  BY <1>1, <1>3 DEF Patch
<1>8. {y \in Feature : <<d, y, active>> \in resolutions}' = m \cup {x}
  <2>1. /\ active' = active
        /\ resolutions' = {r \in resolutions : r[1] # d \/ r[2] # x} \cup {<<d, x, active>>}
    BY DEF ResolveMine
  <2>2. ASSUME NEW y \in Feature
        PROVE  <<d, y, active>> \in resolutions' <=> <<d, y, active>> \in resolutions \/ y = x
    BY <2>1
  <2>3. QED
    BY <1>3, <2>1, <2>2
<1>9. DraftState(d)' = [base |-> b, patch |-> p, mine |-> m \cup {x}]
  BY <1>6, <1>7, <1>8 DEF DraftState
<1>10. QED
  BY <1>2, <1>4, <1>5, <1>9, LayerMineParts

LEMMA ResolveTheirsRefines ==
    ASSUME LayerInv, Inv', NEW d \in Drafts, NEW x \in Feature, ResolveTheirs(d, x)
    PROVE  Layer!TakeTheirs(d, x)
<1>1. /\ OnlyDraft(d) /\ Drafts' = Drafts
      /\ versions'[d].parent = versions[d].parent
      /\ rows'[d] = Restrict(rows[d], DOMAIN rows[d] \ {x})
      /\ \A v \in DOMAIN versions \ {d} : KeepsChain(v)
  BY ResolveTheirsEffect
<1>2. Layer!InConflict(d, x) /\ <<d, x, active>> \notin resolutions
  BY ConflictSeen DEF ResolveTheirs, Conflicts
<1>3. PICK b, p, m : /\ b = ContentAt(versions[d].parent) /\ p = Patch(d)
                     /\ m = {y \in Feature : <<d, y, active>> \in resolutions}
  OBVIOUS
<1>4. PersonalState[d] = [base |-> b, patch |-> p, mine |-> m]
  BY <1>3, DraftParts
<1>5. Official' = Official /\ PersonalState' = [PersonalState EXCEPT ![d] = DraftState(d)']
  BY <1>1, DraftChanged
<1>6. ContentAt(versions[d].parent)' = b
  BY <1>1, <1>3, BaseStays
<1>7. Patch(d)' = Restrict(p, DOMAIN p \ {x})
  BY <1>1, <1>3, PatchOfRestrict
<1>8. {y \in Feature : <<d, y, active>> \in resolutions}' = m
  <2>1. /\ active' = active
        /\ resolutions' = {r \in resolutions : r[1] # d \/ r[2] # x}
    BY DEF ResolveTheirs
  <2>2. ASSUME NEW y \in Feature
        PROVE  <<d, y, active>> \in resolutions' <=> <<d, y, active>> \in resolutions
    BY <1>2, <2>1
  <2>3. QED
    BY <1>3, <2>1, <2>2
<1>9. DraftState(d)' = [base |-> b, patch |-> Restrict(p, DOMAIN p \ {x}), mine |-> m]
  BY <1>6, <1>7, <1>8 DEF DraftState
<1>10. QED
  BY <1>2, <1>4, <1>5, <1>9, LayerTheirsParts

LEMMA RebaseDraftRefines ==
    ASSUME LayerInv, Inv', NEW d \in Drafts, RebaseDraft(d)
    PROVE  Layer!Rebase(d)
<1>1. /\ OnlyDraft(d) /\ Drafts' = Drafts
      /\ versions'[d].parent = active /\ rows'[d] = rows[d]
      /\ \A r \in resolutions' : r[1] # d
      /\ \A v \in DOMAIN versions \ {d} : KeepsChain(v)
  BY RebaseDraftEffect
<1>2. active # NoVersion /\ active' = active /\ Conflicts(d) = {}
  BY DEF RebaseDraft
<1>3. \A x \in Feature : ~Layer!InConflict(d, x)
  BY <1>2, ConflictSeen
<1>4. PICK b, p, m : /\ b = ContentAt(versions[d].parent) /\ p = Patch(d)
                     /\ m = {y \in Feature : <<d, y, active>> \in resolutions}
  OBVIOUS
<1>5. PersonalState[d] = [base |-> b, patch |-> p, mine |-> m]
  BY <1>4, DraftParts
<1>6. Official' = Official /\ PersonalState' = [PersonalState EXCEPT ![d] = DraftState(d)']
  BY <1>1, DraftChanged
<1>7. ContentAt(versions[d].parent)' = Official
  <2>1. active \in DOMAIN versions \ {d} /\ ContentAt(active) = Official
    BY <1>2, MapIsActive, BaseOfDraft DEF LayerInv
  <2>2. Forest(versions) /\ Forest(versions') /\ KeepsChain(active)
    BY <1>1, <2>1 DEF LayerInv, Inv, Tables
  <2>3. ContentAt(active)' = ContentAt(active)
    BY <1>2, <2>1, <2>2, ChainContent DEF ContentAt
  <2>4. QED
    BY <1>1, <1>2, <2>1, <2>3
<1>8. Patch(d)' = p
  BY <1>1, <1>4 DEF Patch
<1>9. {y \in Feature : <<d, y, active>> \in resolutions}' = {}
  BY <1>1
<1>10. DraftState(d)' = [base |-> Official, patch |-> p, mine |-> {}]
  BY <1>7, <1>8, <1>9 DEF DraftState
<1>11. QED
  BY <1>3, <1>5, <1>6, <1>10, LayerRebaseParts

\* What the map shows is what LayerSpec calls a state.
LEMMA OfficialOnFeatures ==
    /\ Official = [x \in Feature |-> Content(rows, current, x)]
    /\ Official' = [x \in Feature |-> Content(rows', current', x)]
  BY DEF Official

LEMMA PublishDraftRefines ==
    ASSUME LayerInv, Inv', NEW d \in Drafts, PublishDraft(d)
    PROVE  Layer!Publish(d)
<1>1. /\ Activated(d)
      /\ \A x \in Feature : Content(rows', current', x) =
            IF x \in DOMAIN rows[d] THEN Shown(rows[d][x]) ELSE Content(rows, current, x)
  BY PublishDraftEffect DEF LayerInv
<1>2. active # NoVersion /\ Conflicts(d) = {}
  BY DEF PublishDraft
<1>3. \A x \in Feature : ~Layer!InConflict(d, x)
  BY <1>2, ConflictSeen
<1>4. /\ DOMAIN Patch(d) = DOMAIN rows[d]
      /\ \A x \in DOMAIN rows[d] : Patch(d)[x] = Shown(rows[d][x])
  BY DEF Patch, Shown
<1>5. PersonalState[d].patch = Patch(d)
  BY DEF PersonalState, DraftState
<1>6. Layer!Applied(Patch(d), Official) =
         [x \in Feature |-> IF x \in DOMAIN Patch(d) THEN Patch(d)[x] ELSE Official[x]]
  BY DEF Layer!Applied
<1>7. Official' = Layer!Applied(Patch(d), Official)
  <2>1. Official' = [x \in Feature |-> Content(rows', current', x)]
        /\ \A x \in Feature : Official[x] = Content(rows, current, x)
    BY OfficialOnFeatures DEF Official
  <2>2. \A x \in Feature : Content(rows', current', x) =
           IF x \in DOMAIN Patch(d) THEN Patch(d)[x] ELSE Official[x]
    BY <1>1, <1>4, <2>1
  <2>3. QED
    BY <1>6, <2>1, <2>2
<1>8. PersonalState' = Layer!Lapsed(Restrict(PersonalState, DOMAIN PersonalState \ {d}))
  BY <1>1, ChoicesLapse
<1>9. QED
  BY <1>3, <1>5, <1>7, <1>8, LayerPublishIntro

\* A new active version that was no draft leaves every patch, and lets every choice lapse.
LEMMA PatchesStay ==
    ASSUME LayerInv, Inv', NEW v, v \notin Drafts, Activated(v)
    PROVE  PersonalState' = Layer!Lapsed(PersonalState)
<1>1. PersonalState = [d \in Drafts |-> DraftState(d)]
  BY DEF PersonalState
<1>2. Restrict(PersonalState, DOMAIN PersonalState \ {v}) = PersonalState
  BY <1>1 DEF Restrict
<1>3. QED
  BY <1>2, ChoicesLapse

LEMMA DirectWriteRefines ==
    ASSUME LayerInv, Inv', NEW user \in Users, NEW x \in Feature, DirectWrite(user, x)
    PROVE  \E value \in Layer!Value : Layer!Write(x, value)
<1>1. PICK r \in Row :
         /\ ~r.deleted => r.unit \in Units
         /\ clock + 1 \notin DOMAIN versions /\ Activated(clock + 1)
         /\ \A y \in Feature : Content(rows', current', y) = IF y = x THEN Shown(r) ELSE Content(rows, current, y)
  BY DirectWriteEffect DEF LayerInv
<1>2. Shown(r) \in Layer!Value
  BY <1>1, ShownTyped DEF Statement, Layer!Value
<1>3. Official' = [Official EXCEPT ![x] = Shown(r)]
  <2>1. Official' = [y \in Feature |-> Content(rows', current', y)]
    BY OfficialOnFeatures
  <2>2. DOMAIN Official = Feature /\ \A y \in Feature : Official[y] = Content(rows, current, y)
    BY DEF Official
  <2>3. QED
    BY <1>1, <2>1, <2>2
<1>4. clock + 1 \notin Drafts
  BY <1>1 DEF Drafts
<1>5. PersonalState' = Layer!Lapsed(PersonalState)
  BY <1>1, <1>4, PatchesStay
<1>6. QED
  BY <1>2, <1>3, <1>5, LayerWriteIntro

LEMMA LoadRefines ==
    ASSUME LayerInv, Inv', NEW supersede \in BOOLEAN, Load(supersede)
    PROVE  \E state \in Layer!State : Layer!Replace(state)
<1>1. /\ clock + 1 \notin DOMAIN versions /\ Activated(clock + 1)
      /\ \A x \in Feature :
            \/ Content(rows', current', x) = {}
            \/ \E p \in Contents \X Units :
                  /\ Content(rows', current', x) = {p}
                  /\ p[2] \in (IF Content(rows, current, x) # {}
                               THEN {q[2] : q \in Content(rows, current, x)} ELSE {Rule[p[1]]})
  BY LoadEffect DEF LayerInv
<1>2. PICK state : state = [x \in Feature |-> Content(rows', current', x)]
  OBVIOUS
<1>3. Official' = state /\ \A x \in Feature : state[x] = Content(rows', current', x)
  BY <1>2, OfficialOnFeatures
<1>4. \A x \in Feature : Official[x] = Content(rows, current, x)
  BY DEF Official
<1>5. state \in Layer!State
  <2>1. ASSUME NEW x \in Feature PROVE Content(rows', current', x) \in Layer!Value
    BY <1>1 DEF Layer!Value
  <2>2. QED
    BY <1>2, <2>1 DEF Layer!State
<1>6. ASSUME NEW x \in Feature, NEW p \in state[x]
      PROVE  p[2] \in (IF Official[x] # {} THEN {q[2] : q \in Official[x]} ELSE {Rule[p[1]]})
  <2>1. \E b \in Contents \X Units :
           /\ state[x] = {b}
           /\ b[2] \in (IF Official[x] # {} THEN {q[2] : q \in Official[x]} ELSE {Rule[b[1]]})
    <3>1. state[x] = Content(rows', current', x) /\ Official[x] = Content(rows, current, x)
      BY <1>3, <1>4
    <3>2. state[x] # {}
      BY <1>6
    <3>3. PICK b \in Contents \X Units :
             /\ Content(rows', current', x) = {b}
             /\ b[2] \in (IF Content(rows, current, x) # {}
                           THEN {q[2] : q \in Content(rows, current, x)} ELSE {Rule[b[1]]})
      BY <1>1, <3>1, <3>2
    <3>4. QED
      BY <3>1, <3>3
  <2>2. QED
    BY <2>1, <1>6
<1>7. clock + 1 \notin Drafts
  BY <1>1 DEF Drafts
<1>8. PersonalState' = Layer!Lapsed(PersonalState)
  BY <1>1, <1>7, PatchesStay
<1>9. Layer!Replace(state)
  BY <1>3, <1>6, <1>8, LayerReplaceIntro
<1>10. QED
  BY <1>5, <1>9

\* Retention and pins change nothing that is seen from outside.
LEMMA NothingSeen ==
    ASSUME LayerInv, Inv', OnlyDraft(NoVersion), Drafts' = Drafts
    PROVE  UNCHANGED Layer!layerVars
<1>1. NoVersion \notin Drafts
  BY DEF LayerInv, Inv, Tables, Drafts, NoVersion
<1>2. Official' = Official /\ \A e \in Drafts : DraftState(e)' = DraftState(e)
  BY <1>1, OthersStay
<1>3. PersonalState' = [e \in Drafts |-> DraftState(e)']
  BY DEF PersonalState
<1>4. PersonalState' = PersonalState
  BY <1>2, <1>3 DEF PersonalState
<1>5. QED
  BY <1>2, <1>4, LayerStutterIntro

-----------------------------------------------------------------------------
(* The refinement *)

\* An empty version store is an empty layer.
LEMMA LayerInitRefines == Init => Layer!LayerInit
<1> SUFFICES ASSUME Init PROVE Layer!LayerInit
  OBVIOUS
<1>1. DOMAIN versions = {} /\ current = {}
  BY DEF Init, NoRows
<1>2. Drafts = {}
  BY <1>1 DEF Drafts
<1>3. Official = [x \in Feature |-> {}]
  BY <1>1 DEF Official, Content
<1>4. PersonalState = [d \in {} |-> {}]
  BY <1>2 DEF PersonalState
<1>5. QED
  BY Zenon, <1>3, <1>4 DEF Layer!LayerInit, Official, PersonalState, DraftState

\* A draft of the version store is a patch of the layer, so an action on one is a step of the other.
LEMMA LayerNextIntro ==
    ASSUME \/ \E d \in Version : Layer!Open(d)
           \/ \E d \in Drafts, e \in Version : Layer!Copy(d, e)
           \/ \E d \in Drafts : Layer!Discard(d)
           \/ \E d \in Drafts, x \in Feature, value \in Layer!Value : Layer!Edit(d, x, value)
           \/ \E d \in Drafts, x \in Feature : Layer!TakeMine(d, x)
           \/ \E d \in Drafts, x \in Feature : Layer!TakeTheirs(d, x)
           \/ \E d \in Drafts : Layer!Rebase(d)
           \/ \E d \in Drafts : Layer!Publish(d)
           \/ \E x \in Feature, value \in Layer!Value : Layer!Write(x, value)
           \/ \E state \in Layer!State : Layer!Replace(state)
    PROVE  Layer!LayerNext
<1>1. DOMAIN PersonalState = Drafts
  BY DEF PersonalState
<1>2. QED
  BY Zenon, <1>1 DEF Layer!LayerNext, PersonalState, DraftState

\* One transaction is one step of the layer, or none.
LEMMA LayerStep == LayerInv /\ Inv' /\ [Next]_vars => [Layer!LayerNext]_(Layer!layerVars)
<1> SUFFICES ASSUME LayerInv, Inv', [Next]_vars PROVE Layer!LayerNext \/ UNCHANGED Layer!layerVars
  OBVIOUS
<1>1. ASSUME NEW supersede \in BOOLEAN, Load(supersede) PROVE Layer!LayerNext
  BY <1>1, LoadRefines, LayerNextIntro
<1>2. CASE RestampUnchanged
  BY <1>2, RestampEffect, NothingSeen DEF LayerInv
<1>3. ASSUME NEW user \in Users, OpenDraft(user) PROVE Layer!LayerNext
  BY <1>3, OpenDraftRefines, LayerNextIntro
<1>4. ASSUME NEW d \in Drafts, NEW user \in Users, CopyDraft(d, user) PROVE Layer!LayerNext
  BY <1>4, CopyDraftRefines, LayerNextIntro
<1>5. ASSUME NEW d \in Drafts, DiscardDraft(d) PROVE Layer!LayerNext
  BY <1>5, DiscardDraftRefines, LayerNextIntro
<1>6. ASSUME NEW d \in Drafts, NEW x \in Feature, NEW from \in UntouchedFrom, EditDraft(d, x, from)
      PROVE  Layer!LayerNext
  BY <1>6, EditDraftRefines, LayerNextIntro
<1>7. ASSUME NEW d \in Drafts, NEW x \in Feature, ResolveMine(d, x) PROVE Layer!LayerNext
  BY <1>7, ResolveMineRefines, LayerNextIntro
<1>8. ASSUME NEW d \in Drafts, NEW x \in Feature, ResolveTheirs(d, x) PROVE Layer!LayerNext
  BY <1>8, ResolveTheirsRefines, LayerNextIntro
<1>9. ASSUME NEW d \in Drafts, RebaseDraft(d) PROVE Layer!LayerNext
  BY <1>9, RebaseDraftRefines, LayerNextIntro
<1>10. ASSUME NEW d \in Drafts, PublishDraft(d) PROVE Layer!LayerNext
  BY <1>10, PublishDraftRefines, LayerNextIntro
<1>11. ASSUME NEW user \in Users, NEW x \in Feature, DirectWrite(user, x) PROVE Layer!LayerNext
  BY <1>11, DirectWriteRefines, LayerNextIntro
<1>12. ASSUME UNCHANGED <<versions, rows, active, current, resolutions>> PROVE UNCHANGED Layer!layerVars
  BY <1>12, StutterEffect, NothingSeen DEF LayerInv
<1>13. ASSUME NEW v \in DOMAIN versions, Pin(v) PROVE UNCHANGED Layer!layerVars
  BY <1>12, <1>13 DEF Pin
<1>14. ASSUME NEW v \in pins, Unpin(v) PROVE UNCHANGED Layer!layerVars
  BY <1>12, <1>14 DEF Unpin
<1>15. CASE UNCHANGED vars
  BY <1>12, <1>15 DEF vars
<1>16. QED
  BY <1>1, <1>2, <1>3, <1>4, <1>5, <1>6, <1>7, <1>8, <1>9, <1>10, <1>11, <1>13, <1>14, <1>15 DEF Next

\* The version store is a layer with patches over it: every transaction is a step of PublishedLayer or
\* shows nothing, whatever the numbers of versions, features, units, users and pins.
THEOREM ImplementsPublishedLayerHolds == Spec => ImplementsPublishedLayer
<1>1. LayerInv => Inv
  BY DEF LayerInv
<1>2. Spec => []LayerInv
  BY LayerInvariance
<1>3. QED
  BY LayerInitRefines, LayerStep, <1>1, <1>2, PTL DEF Spec, ImplementsPublishedLayer, Layer!LayerSpec

-----------------------------------------------------------------------------
(* What a draft answers for *)

\* The contents s remembers for draft e, in state S over the official state o: of each row of its
\* patch, what its base says and, where its side was chosen, what the map says.
Vouches(s, e, S, o) ==
    /\ S.mine \subseteq DOMAIN S.patch
    /\ \A x \in DOMAIN S.patch : /\ <<e, x>> \in DOMAIN s
                                 /\ S.base[x] \in s[<<e, x>>]
                                 /\ x \in S.mine => o[x] \in s[<<e, x>>]

SeenInv == \A e \in Drafts : Vouches(seen, e, PersonalState[e], Official)

\* The actions of PublishedLayer say what they leave of each draft.
LEMMA LayerEditElim ==
    ASSUME NEW d, NEW x, NEW value, Layer!Edit(d, x, value)
    PROVE  /\ Official' = Official
           /\ PersonalState' =
                 [PersonalState EXCEPT ![d].patch = [y \in DOMAIN @ \cup {x} |-> IF y = x THEN value ELSE @[y]]]
  BY Zenon DEF Layer!Edit, Layer!With, Official, PersonalState, DraftState

LEMMA LayerCopyElim ==
    ASSUME NEW d, NEW e, Layer!Copy(d, e)
    PROVE  /\ Official' = Official
           /\ PersonalState' = [b \in DOMAIN PersonalState \cup {e} |->
                                  IF b = e THEN [PersonalState[d] EXCEPT !.mine = {}] ELSE PersonalState[b]]
  BY Zenon DEF Layer!Copy, Layer!With, Official, PersonalState, DraftState

LEMMA LayerOpenElim ==
    ASSUME NEW d, Layer!Open(d)
    PROVE  /\ Official' = Official
           /\ PersonalState' = [e \in DOMAIN PersonalState \cup {d} |->
                                  IF e = d THEN [base |-> Official, patch |-> [x \in {} |-> {}], mine |-> {}]
                                  ELSE PersonalState[e]]
  BY Zenon DEF Layer!Open, Layer!With, Official, PersonalState, DraftState

LEMMA LayerDiscardElim ==
    ASSUME NEW d, Layer!Discard(d)
    PROVE  /\ Official' = Official
           /\ PersonalState' = Restrict(PersonalState, DOMAIN PersonalState \ {d})
  BY Zenon DEF Layer!Discard, Layer!Restrict, Restrict, Official, PersonalState, DraftState

LEMMA LayerMineElim ==
    ASSUME NEW d, NEW x, Layer!TakeMine(d, x)
    PROVE  /\ Official' = Official /\ Layer!InConflict(d, x)
           /\ PersonalState' = [PersonalState EXCEPT ![d].mine = @ \cup {x}]
  BY Zenon DEF Layer!TakeMine, Official, PersonalState, DraftState

LEMMA LayerTheirsElim ==
    ASSUME NEW d, NEW x, Layer!TakeTheirs(d, x)
    PROVE  /\ Official' = Official /\ Layer!InConflict(d, x)
           /\ PersonalState' = [PersonalState EXCEPT ![d].patch = Restrict(@, DOMAIN @ \ {x})]
  BY Zenon DEF Layer!TakeTheirs, Layer!Restrict, Restrict, Official, PersonalState, DraftState

LEMMA LayerRebaseElim ==
    ASSUME NEW d, Layer!Rebase(d)
    PROVE  /\ Official' = Official /\ \A x \in Feature : ~Layer!InConflict(d, x)
           /\ PersonalState' = [PersonalState EXCEPT ![d].base = Official, ![d].mine = {}]
  BY Zenon DEF Layer!Rebase, Official, PersonalState, DraftState

\* In every other action, a draft is left alone, or only its choices lapse.
LEMMA LayerPublishElim ==
    ASSUME NEW d, Layer!Publish(d)
    PROVE  PersonalState' = Layer!Lapsed(Restrict(PersonalState, DOMAIN PersonalState \ {d}))
  BY Zenon DEF Layer!Publish, Layer!Restrict, Restrict, Official, PersonalState, DraftState

LEMMA LayerWriteElim ==
    ASSUME NEW x, NEW value, Layer!Write(x, value)
    PROVE  PersonalState' = Layer!Lapsed(PersonalState)
  BY Zenon DEF Layer!Write, Official, PersonalState, DraftState

LEMMA LayerReplaceElim ==
    ASSUME NEW state, Layer!Replace(state)
    PROVE  PersonalState' = Layer!Lapsed(PersonalState)
  BY Zenon DEF Layer!Replace, Official, PersonalState, DraftState

LEMMA LayerStutterElim ==
    ASSUME UNCHANGED Layer!layerVars
    PROVE  Official' = Official /\ PersonalState' = PersonalState
  BY Zenon DEF Layer!layerVars, Official, PersonalState, DraftState

\* The drafts there are.
LEMMA DraftsOfState == DOMAIN PersonalState = Drafts /\ DOMAIN PersonalState' = Drafts'
  BY DEF PersonalState

\* Remembering more, or a choice that lapses, leaves a draft vouched for.
LEMMA StaysVouched ==
    ASSUME NEW s, NEW t, NEW e, NEW b, NEW p, NEW m, NEW o, NEW n,
           Vouches(s, e, [base |-> b, patch |-> p, mine |-> m], o),
           \A x : <<e, x>> \in DOMAIN s => <<e, x>> \in DOMAIN t /\ t[<<e, x>>] = s[<<e, x>>]
    PROVE  /\ Vouches(t, e, [base |-> b, patch |-> p, mine |-> m], o)
           /\ Vouches(t, e, [base |-> b, patch |-> p, mine |-> {}], n)
  BY DEF Vouches

\* The history keeps what it says of draft e.
Remembers(e) == \A x : <<e, x>> \in DOMAIN seen => <<e, x>> \in DOMAIN seen' /\ seen'[<<e, x>>] = seen[<<e, x>>]

\* A step on one draft.
LEMMA SeenOne ==
    ASSUME SeenInv, NEW d, Official' = Official,
           \A e \in Drafts' \ {d} : e \in Drafts /\ PersonalState'[e] = PersonalState[e] /\ Remembers(e),
           d \in Drafts' => Vouches(seen', d, PersonalState'[d], Official)
    PROVE  SeenInv'
<1>1. ASSUME NEW e \in Drafts' \ {d} PROVE Vouches(seen', e, PersonalState'[e], Official')
  <2>1. PICK b, p, m : PersonalState[e] = [base |-> b, patch |-> p, mine |-> m]
    BY <1>1, DraftParts
  <2>2. Vouches(seen, e, [base |-> b, patch |-> p, mine |-> m], Official)
    BY <1>1, <2>1 DEF SeenInv
  <2>3. Vouches(seen', e, [base |-> b, patch |-> p, mine |-> m], Official)
    BY <1>1, <2>2, StaysVouched DEF Remembers
  <2>4. QED
    BY <1>1, <2>1, <2>3
<1>2. QED
  BY <1>1 DEF SeenInv

\* A step that replaces what the map says.
LEMMA SeenAll ==
    ASSUME SeenInv, NEW v, Drafts' = Drafts \ {v},
           PersonalState' = Layer!Lapsed(Restrict(PersonalState, DOMAIN PersonalState \ {v})),
           \A e \in Drafts \ {v} : Remembers(e)
    PROVE  SeenInv'
<1>1. ASSUME NEW e \in Drafts \ {v} PROVE Vouches(seen', e, PersonalState'[e], Official')
  <2>1. PICK b, p, m : PersonalState[e] = [base |-> b, patch |-> p, mine |-> m]
    BY <1>1, DraftParts
  <2>2. Vouches(seen, e, [base |-> b, patch |-> p, mine |-> m], Official)
    BY <1>1, <2>1 DEF SeenInv
  <2>3. PersonalState'[e] = [base |-> b, patch |-> p, mine |-> {}]
    <3>1. PersonalState'[e] = [PersonalState[e] EXCEPT !.mine = {}]
      BY <1>1, DraftsOfState DEF Layer!Lapsed, Restrict
    <3>2. QED
      BY <2>1, <3>1, DraftWithout
  <2>4. \A n : Vouches(seen', e, [base |-> b, patch |-> p, mine |-> {}], n)
    BY <1>1, <2>2, StaysVouched DEF Remembers
  <2>5. QED
    BY <2>3, <2>4
<1>2. QED
  BY <1>1 DEF SeenInv

\* The state of a draft, part by part.
LEMMA DraftRecord ==
    ASSUME NEW d \in Drafts
    PROVE  \E b, p, m : /\ PersonalState[d] = [base |-> b, patch |-> p, mine |-> m]
                        /\ b = ContentAt(versions[d].parent) /\ DOMAIN p = DOMAIN rows[d]
<1> PICK b, p, m : /\ b = ContentAt(versions[d].parent) /\ p = Patch(d)
                   /\ m = {x \in Feature : <<d, x, active>> \in resolutions}
  OBVIOUS
<1>1. PersonalState[d] = [base |-> b, patch |-> p, mine |-> m]
  BY DraftParts
<1>2. DOMAIN p = DOMAIN rows[d]
  BY DEF Patch
<1>3. QED
  BY <1>1, <1>2

\* A draft is opened with nothing in it.
LEMMA SeenOpen ==
    ASSUME LayerInv, Inv', SeenInv, NEW user \in Users, OpenDraft(user), UNCHANGED seen
    PROVE  SeenInv'
<1> PICK v : v = clock + 1
  OBVIOUS
<1>1. Layer!Open(v)
  BY OpenDraftRefines
<1>2. /\ Official' = Official
      /\ PersonalState' = [e \in Drafts \cup {v} |->
                             IF e = v THEN [base |-> Official, patch |-> [x \in {} |-> {}], mine |-> {}]
                             ELSE PersonalState[e]]
  BY <1>1, LayerOpenElim, DraftsOfState
<1>3. Drafts' = Drafts \cup {v}
  BY <1>2, DraftsOfState
<1>4. Vouches(seen', v, [base |-> Official, patch |-> [x \in {} |-> {}], mine |-> {}], Official)
  BY DEF Vouches
<1>5. QED
  BY <1>2, <1>3, <1>4, SeenOne DEF Remembers

\* A copy was started from what the draft it copies was started from.
LEMMA SeenCopy ==
    ASSUME LayerInv, Inv', SeenInv, NEW d \in Drafts, NEW user \in Users, HistoryCopy(d, user)
    PROVE  SeenInv'
<1> PICK v : v = clock + 1
  OBVIOUS
<1> DEFINE copied == {<<v, x>> : x \in DOMAIN rows[d]}
<1>1. /\ clock' = v
      /\ seen' = [k \in DOMAIN seen \cup copied |-> IF k \in copied THEN seen[<<d, k[2]>>] ELSE seen[k]]
  BY DEF HistoryCopy, CopyDraft
<1>2. Layer!Copy(d, v)
  BY CopyDraftRefines DEF HistoryCopy
<1>3. /\ Official' = Official
      /\ PersonalState' = [e \in Drafts \cup {v} |->
                             IF e = v THEN [PersonalState[d] EXCEPT !.mine = {}] ELSE PersonalState[e]]
  BY <1>2, LayerCopyElim, DraftsOfState
<1>4. Drafts' = Drafts \cup {v}
  BY <1>3, DraftsOfState
<1>5. PICK b, p, m : /\ PersonalState[d] = [base |-> b, patch |-> p, mine |-> m]
                     /\ DOMAIN p = DOMAIN rows[d]
  BY DraftRecord
<1>6. PersonalState'[v] = [base |-> b, patch |-> p, mine |-> {}]
  BY <1>3, <1>5, DraftWithout
<1>7. \A x \in DOMAIN p : <<d, x>> \in DOMAIN seen /\ b[x] \in seen[<<d, x>>]
  BY <1>5 DEF SeenInv, Vouches
<1>8. ASSUME NEW x \in DOMAIN p PROVE <<v, x>> \in DOMAIN seen' /\ b[x] \in seen'[<<v, x>>]
  <2>1. <<v, x>> \in copied
    BY <1>5, <1>8
  <2>2. seen'[<<v, x>>] = seen[<<d, x>>]
    BY <1>1, <2>1
  <2>3. QED
    BY <1>1, <1>7, <1>8, <2>1, <2>2
<1>9. Vouches(seen', v, PersonalState'[v], Official)
  BY <1>6, <1>8 DEF Vouches
<1>10. ASSUME NEW e \in Drafts' \ {v} PROVE Remembers(e)
  <2>1. \A x : <<e, x>> \notin copied
    BY <1>10
  <2>2. QED
    BY <1>1, <2>1 DEF Remembers
<1>11. QED
  BY <1>3, <1>4, <1>9, <1>10, SeenOne

\* When a row is started, from whatever state, what the draft's base says of its feature is remembered.
LEMMA SeenEdit ==
    ASSUME LayerInv, Inv', SeenInv, NEW d \in Drafts, NEW x \in Feature, NEW from, HistoryEdit(d, x, from)
    PROVE  SeenInv'
<1>1. PICK value : Layer!Edit(d, x, value)
  BY EditDraftRefines DEF HistoryEdit
<1>2. PICK b, p, m : /\ PersonalState[d] = [base |-> b, patch |-> p, mine |-> m]
                     /\ b = ContentAt(versions[d].parent) /\ DOMAIN p = DOMAIN rows[d]
  BY DraftRecord
<1>3. /\ Official' = Official
      /\ PersonalState' = [PersonalState EXCEPT ![d] = [base |-> b, patch |-> Put(p, x, value), mine |-> m]]
  <2>1. Official' = Official /\ PersonalState' = [PersonalState EXCEPT ![d].patch = Put(@, x, value)]
    BY <1>1, LayerEditElim DEF Put
  <2>2. [PersonalState[d] EXCEPT !.patch = Put(p, x, value)] = [base |-> b, patch |-> Put(p, x, value), mine |-> m]
    BY <1>2
  <2>3. PersonalState[d].patch = p
    BY <1>2
  <2>4. QED
    BY <2>1, <2>2, <2>3
<1>4. Vouches(seen, d, [base |-> b, patch |-> p, mine |-> m], Official)
  BY <1>2 DEF SeenInv
<1>5. seen' = IF x \in DOMAIN p THEN seen ELSE Put(seen, <<d, x>>, {b[x]})
  <2>1. BuiltOn(d, x) = b[x]
    BY <1>2 DEF BuiltOn, ContentAt
  <2>2. QED
    BY <1>2, <2>1 DEF HistoryEdit
<1>6. \A k \in DOMAIN seen : k # <<d, x>> \/ x \in DOMAIN p => k \in DOMAIN seen' /\ seen'[k] = seen[k]
  BY <1>5 DEF Put
<1>7. x \notin DOMAIN p => <<d, x>> \in DOMAIN seen' /\ seen'[<<d, x>>] = {b[x]}
  BY <1>5 DEF Put
<1>8. Vouches(seen', d, [base |-> b, patch |-> Put(p, x, value), mine |-> m], Official)
  <2>1. DOMAIN Put(p, x, value) = DOMAIN p \cup {x}
    BY DEF Put
  <2>2. ASSUME NEW y \in DOMAIN p
        PROVE  <<d, y>> \in DOMAIN seen' /\ b[y] \in seen'[<<d, y>>] /\ (y \in m => Official[y] \in seen'[<<d, y>>])
    BY <1>4, <1>6, <2>2 DEF Vouches
  <2>3. ASSUME x \notin DOMAIN p
        PROVE  <<d, x>> \in DOMAIN seen' /\ b[x] \in seen'[<<d, x>>] /\ x \notin m
    BY <1>4, <1>7, <2>3 DEF Vouches
  <2>4. m \subseteq DOMAIN p
    BY <1>4 DEF Vouches
  <2>5. QED
    BY <2>1, <2>2, <2>3, <2>4 DEF Vouches
<1>9. ASSUME NEW e \in Drafts' \ {d} PROVE e \in Drafts /\ PersonalState'[e] = PersonalState[e] /\ Remembers(e)
  BY <1>3, <1>6, <1>9, DraftsOfState DEF Remembers
<1>10. PersonalState'[d] = [base |-> b, patch |-> Put(p, x, value), mine |-> m]
  BY <1>3, DraftsOfState
<1>11. QED
  BY <1>3, <1>8, <1>9, <1>10, SeenOne

\* A choice against the official state is made looking at it.
LEMMA SeenMine ==
    ASSUME LayerInv, Inv', SeenInv, NEW d \in Drafts, NEW x \in Feature, HistoryMine(d, x)
    PROVE  SeenInv'
<1>1. PICK b, p, m : PersonalState[d] = [base |-> b, patch |-> p, mine |-> m]
  BY DraftRecord
<1>2. Layer!TakeMine(d, x)
  BY ResolveMineRefines DEF HistoryMine
<1>3. Official' = Official /\ Layer!InConflict(d, x) /\ PersonalState' = [PersonalState EXCEPT ![d].mine = @ \cup {x}]
  BY <1>2, LayerMineElim
<1>4. x \in DOMAIN p
  BY <1>1, <1>3, LayerConflict
<1>5. PersonalState'[d] = [base |-> b, patch |-> p, mine |-> m \cup {x}]
  BY <1>1, <1>3, DraftsOfState
<1>6. Vouches(seen, d, [base |-> b, patch |-> p, mine |-> m], Official)
  BY <1>1 DEF SeenInv
<1>7. /\ seen' = [seen EXCEPT ![<<d, x>>] = @ \cup {Official[x]}]
      /\ <<d, x>> \in DOMAIN seen
  BY <1>4, <1>6 DEF HistoryMine, Official, Vouches
<1>8. /\ DOMAIN seen' = DOMAIN seen
      /\ \A k \in DOMAIN seen : seen[k] \subseteq seen'[k]
      /\ Official[x] \in seen'[<<d, x>>]
      /\ \A k \in DOMAIN seen : k # <<d, x>> => seen'[k] = seen[k]
  BY <1>7
<1>9. Vouches(seen', d, [base |-> b, patch |-> p, mine |-> m \cup {x}], Official)
  <2>1. m \cup {x} \subseteq DOMAIN p
    BY <1>4, <1>6 DEF Vouches
  <2>2. ASSUME NEW y \in DOMAIN p
        PROVE  /\ <<d, y>> \in DOMAIN seen' /\ b[y] \in seen'[<<d, y>>]
               /\ y \in m \cup {x} => Official[y] \in seen'[<<d, y>>]
    BY <1>6, <1>8, <2>2 DEF Vouches
  <2>3. QED
    BY <2>1, <2>2 DEF Vouches
<1>10. ASSUME NEW e \in Drafts' \ {d} PROVE e \in Drafts /\ PersonalState'[e] = PersonalState[e] /\ Remembers(e)
  BY <1>3, <1>8, <1>10, DraftsOfState DEF Remembers
<1>11. QED
  BY <1>3, <1>5, <1>9, <1>10, SeenOne

\* A row that is given up is forgotten.
LEMMA SeenTheirs ==
    ASSUME LayerInv, Inv', SeenInv, NEW d \in Drafts, NEW x \in Feature, HistoryTheirs(d, x)
    PROVE  SeenInv'
<1>1. PICK b, p, m : PersonalState[d] = [base |-> b, patch |-> p, mine |-> m]
  BY DraftRecord
<1>2. Layer!TakeTheirs(d, x)
  BY ResolveTheirsRefines DEF HistoryTheirs
<1>3. /\ Official' = Official /\ Layer!InConflict(d, x)
      /\ PersonalState' = [PersonalState EXCEPT ![d].patch = Restrict(@, DOMAIN @ \ {x})]
  BY <1>2, LayerTheirsElim
<1>4. x \notin m
  BY <1>1, <1>3, LayerConflict
<1> DEFINE q == Restrict(p, DOMAIN p \ {x})
<1>5. PersonalState'[d] = [base |-> b, patch |-> q, mine |-> m]
  <2>1. PersonalState'[d] = [PersonalState[d] EXCEPT !.patch = Restrict(@, DOMAIN @ \ {x})]
    BY <1>3, DraftsOfState
  <2>2. PersonalState[d].patch = p
    BY <1>1
  <2>3. PersonalState'[d] = [PersonalState[d] EXCEPT !.patch = q]
    BY <2>1, <2>2
  <2> HIDE DEF q
  <2>4. QED
    BY <1>1, <2>3
<1>6. Vouches(seen, d, [base |-> b, patch |-> p, mine |-> m], Official)
  BY <1>1 DEF SeenInv
<1>7. seen' = Restrict(seen, DOMAIN seen \ {<<d, x>>})
  BY DEF HistoryTheirs, Keep
<1>8. \A k \in DOMAIN seen : k # <<d, x>> => k \in DOMAIN seen' /\ seen'[k] = seen[k]
  BY <1>7 DEF Restrict
<1>9. DOMAIN q = DOMAIN p \ {x}
  BY DEF Restrict
<1> HIDE DEF q
<1>10. Vouches(seen', d, [base |-> b, patch |-> q, mine |-> m], Official)
  BY <1>4, <1>6, <1>8, <1>9 DEF Vouches
<1>11. ASSUME NEW e \in Drafts' \ {d} PROVE e \in Drafts /\ PersonalState'[e] = PersonalState[e] /\ Remembers(e)
  BY <1>3, <1>8, <1>11, DraftsOfState DEF Remembers
<1>12. QED
  BY <1>3, <1>5, <1>10, <1>11, SeenOne

\* Without a conflict, what the map says of a feature the draft touches is a content it answers for.
LEMMA NoConflictSeen ==
    ASSUME LayerInv, SeenInv, NEW d \in Drafts, \A x \in Feature : ~Layer!InConflict(d, x),
           NEW x \in DOMAIN rows[d]
    PROVE  x \in Feature /\ <<d, x>> \in DOMAIN seen /\ Official[x] \in seen[<<d, x>>]
<1>1. PICK b, p, m : /\ PersonalState[d] = [base |-> b, patch |-> p, mine |-> m]
                     /\ DOMAIN p = DOMAIN rows[d]
  BY DraftRecord
<1>2. Vouches(seen, d, [base |-> b, patch |-> p, mine |-> m], Official)
  BY <1>1 DEF SeenInv
<1>3. x \in Feature
  <2>1. d \in DOMAIN versions /\ rows \in [DOMAIN versions -> RowsOfVersion]
    BY DEF LayerInv, Inv, Tables, Drafts
  <2>2. QED
    BY <2>1, RowsElim
<1>4. x \in DOMAIN p /\ (b[x] = Official[x] \/ x \in m)
  BY <1>1, <1>3, LayerConflict
<1>5. QED
  BY <1>2, <1>3, <1>4 DEF Vouches

\* A rebase takes as its base what the draft answers for.
LEMMA SeenRebase ==
    ASSUME LayerInv, Inv', SeenInv, NEW d \in Drafts, HistoryRebase(d)
    PROVE  SeenInv'
<1>1. PICK b, p, m : /\ PersonalState[d] = [base |-> b, patch |-> p, mine |-> m]
                     /\ DOMAIN p = DOMAIN rows[d]
  BY DraftRecord
<1>2. Layer!Rebase(d) /\ seen' = seen
  BY RebaseDraftRefines DEF HistoryRebase
<1>3. /\ Official' = Official /\ \A x \in Feature : ~Layer!InConflict(d, x)
      /\ PersonalState' = [PersonalState EXCEPT ![d].base = Official, ![d].mine = {}]
  BY <1>2, LayerRebaseElim
<1>4. /\ PersonalState'[d] = [base |-> Official, patch |-> p, mine |-> {}]
      /\ \A e \in Drafts' \ {d} : e \in Drafts /\ PersonalState'[e] = PersonalState[e]
  <2>1. /\ [PersonalState[d] EXCEPT !.base = Official] = [base |-> Official, patch |-> p, mine |-> m]
        /\ [[base |-> Official, patch |-> p, mine |-> m] EXCEPT !.mine = {}]
              = [base |-> Official, patch |-> p, mine |-> {}]
    BY <1>1
  <2>2. PersonalState' = [PersonalState EXCEPT ![d] = [base |-> Official, patch |-> p, mine |-> {}]]
    BY <1>3, <2>1
  <2>3. QED
    BY <2>2, DraftsOfState
<1>5. \A x \in DOMAIN p : <<d, x>> \in DOMAIN seen /\ Official[x] \in seen[<<d, x>>]
  BY <1>1, <1>3, NoConflictSeen
<1>6. Vouches(seen', d, [base |-> Official, patch |-> p, mine |-> {}], Official)
  BY <1>2, <1>5 DEF Vouches
<1>7. QED
  BY <1>2, <1>3, <1>4, <1>6, SeenOne DEF Remembers

\* A draft that ends is forgotten; what goes live with it lets the choices of the others lapse.
LEMMA SeenEnd ==
    ASSUME LayerInv, Inv', SeenInv, NEW d \in Drafts, HistoryEnd(d)
    PROVE  SeenInv'
<1>1. seen' = Restrict(seen, {k \in DOMAIN seen : k[1] # d})
  BY DEF HistoryEnd, Keep
<1>2. \A e : e # d => Remembers(e)
  BY <1>1 DEF Remembers, Restrict
<1>3. CASE DiscardDraft(d)
  <2>1. Official' = Official /\ PersonalState' = Restrict(PersonalState, DOMAIN PersonalState \ {d})
    BY <1>3, DiscardDraftRefines, LayerDiscardElim
  <2>2. \A e \in Drafts' : e \in Drafts \ {d} /\ PersonalState'[e] = PersonalState[e]
    BY <2>1, DraftsOfState DEF Restrict
  <2>3. QED
    BY <1>2, <2>1, <2>2, SeenOne
<1>4. CASE PublishDraft(d)
  <2>1. PersonalState' = Layer!Lapsed(Restrict(PersonalState, DOMAIN PersonalState \ {d}))
    BY <1>4, PublishDraftRefines, LayerPublishElim
  <2>2. Drafts' = Drafts \ {d}
    BY <1>4, PublishDraftEffect DEF Activated, LayerInv
  <2>3. QED
    BY <1>2, <2>1, <2>2, SeenAll
<1>5. QED
  BY <1>3, <1>4 DEF HistoryEnd

\* Nobody but its editor writes a draft.
LEMMA SeenOther ==
    ASSUME LayerInv, Inv', SeenInv, HistoryOther
    PROVE  SeenInv'
<1>1. seen' = seen /\ \A e : Remembers(e)
  BY DEF HistoryOther, Remembers
<1>2. ASSUME NEW v, v \notin Drafts, Activated(v) PROVE SeenInv'
  <2>1. Drafts' = Drafts \ {v}
    BY <1>2 DEF Activated
  <2>2. QED
    BY <1>1, <1>2, <2>1, ChoicesLapse, SeenAll
<1>3. ASSUME NEW supersede \in BOOLEAN, Load(supersede) PROVE SeenInv'
  <2>1. PICK v : v = clock + 1
    OBVIOUS
  <2>2. v \notin DOMAIN versions /\ Activated(v)
    BY <1>3, <2>1, LoadEffect DEF LayerInv
  <2>3. QED
    BY <1>2, <2>2 DEF Drafts
<1>4. ASSUME NEW user \in Users, NEW x \in Feature, DirectWrite(user, x) PROVE SeenInv'
  <2>1. PICK v : v = clock + 1
    OBVIOUS
  <2>2. v \notin DOMAIN versions /\ Activated(v)
    BY <1>4, <2>1, DirectWriteEffect DEF LayerInv
  <2>3. QED
    BY <1>2, <2>2 DEF Drafts
<1>5. ASSUME NEW user \in Users, OpenDraft(user) PROVE SeenInv'
  BY <1>1, <1>5, SeenOpen
<1>6. CASE RestampUnchanged
  <2>1. Official' = Official /\ PersonalState' = PersonalState
    BY <1>6, RestampEffect, NothingSeen, LayerStutterElim DEF LayerInv
  <2>2. QED
    BY <1>1, <2>1, DraftsOfState DEF SeenInv
<1>7. QED
  BY <1>3, <1>4, <1>5, <1>6 DEF HistoryOther

\* What the history adds to the tables holds in every step.
LEMMA SeenStep ==
    ASSUME LayerInv, Inv', SeenInv, [HistoryNext]_historyVars
    PROVE  SeenInv'
<1>1. ASSUME NEW d \in Drafts, NEW x \in Feature, NEW from \in UntouchedFrom, HistoryEdit(d, x, from)
      PROVE  SeenInv'
  BY <1>1, SeenEdit
<1>2. CASE UNCHANGED historyVars
  <2>1. seen' = seen /\ UNCHANGED vars
    BY <1>2 DEF historyVars
  <2>2. Official' = Official /\ PersonalState' = PersonalState
    BY <2>1 DEF vars, Official, PersonalState, DraftState, ContentAt, Patch, Drafts
  <2>3. QED
    BY <2>1, <2>2, DraftsOfState DEF SeenInv
<1>3. QED
  BY <1>1, <1>2, SeenCopy, SeenMine, SeenTheirs, SeenRebase, SeenEnd, SeenOther DEF HistoryNext

\* With the history, a step is one of the store's.
LEMMA HistoryIsStep == [HistoryNext]_historyVars => [Next]_vars
  BY DEF HistoryNext, HistoryEdit, HistoryCopy, HistoryMine, HistoryTheirs, HistoryRebase, HistoryEnd,
         HistoryOther, historyVars, Next

\* The history remembers of each row of a draft what the draft's base says of the feature, and what the
\* map says where the draft's side was chosen, whichever state the rows were started from.
THEOREM SeenInvariance == HistorySpec => [](LayerInv /\ SeenInv)
<1>1. Init /\ seen = NoRows => LayerInv /\ SeenInv
  <2>1. Init => LayerInv /\ Drafts = {}
    BY LayerInvInit DEF Init, Drafts, NoRows
  <2>2. QED
    BY <2>1 DEF SeenInv
<1>2. LayerInv /\ SeenInv /\ [HistoryNext]_historyVars => (LayerInv /\ SeenInv)'
  <2> SUFFICES ASSUME LayerInv, SeenInv, [HistoryNext]_historyVars PROVE LayerInv' /\ SeenInv'
    OBVIOUS
  <2>1. LayerInv'
    BY HistoryIsStep, LayerInvStep
  <2>2. Inv'
    BY <2>1 DEF LayerInv
  <2>3. QED
    BY <2>1, <2>2, SeenStep
<1>3. QED
  BY <1>1, <1>2, PTL DEF HistorySpec

\* No lost update: what a publish replaces on the map is content the draft was built on when the feature
\* was first edited, or one its side was chosen against, whatever was loaded, published, rebased, copied
\* or chosen since, and from whichever state the edits started.
THEOREM NoSilentOverwriteHolds == HistorySpec => NoSilentOverwrite
<1>1. LayerInv /\ SeenInv /\ [HistoryNext]_historyVars =>
         [\A d \in Drafts : active' = d =>
             \A x \in DOMAIN rows[d] : Content(rows, current, x) \in seen[<<d, x>>]]_historyVars
  <2>1. SUFFICES ASSUME LayerInv, SeenInv, HistoryNext, NEW d \in Drafts, active' = d, NEW x \in DOMAIN rows[d]
                 PROVE  Content(rows, current, x) \in seen[<<d, x>>]
    OBVIOUS
  <2>2. d \in DOMAIN versions /\ active # d
    BY <2>1, BaseOfDraft
  <2>3. Next
    BY <2>1, <2>2, HistoryIsStep DEF vars
  <2>4. PublishDraft(d)
    <3>1. ASSUME NEW supersede \in BOOLEAN, Load(supersede) PROVE FALSE
      BY <2>1, <2>2, <3>1, LoadEffect DEF Activated, LayerInv
    <3>2. ASSUME NEW e \in Drafts, PublishDraft(e) PROVE e = d
      BY <2>1, <3>2, PublishDraftEffect DEF Activated, LayerInv
    <3>3. ASSUME NEW user \in Users, NEW y \in Feature, DirectWrite(user, y) PROVE FALSE
      BY <2>1, <2>2, <3>3, DirectWriteEffect DEF Activated, LayerInv
    <3>4. d \in DOMAIN versions'
      <4>1. Inv' /\ d # NoVersion
        BY <2>1, <2>2, <2>3, LayerInvStep DEF LayerInv, Inv, Tables, NoVersion
      <4>2. QED
        BY <2>1, <4>1 DEF Inv, References
    <3>5. QED
      BY <2>1, <2>2, <2>3, <3>1, <3>2, <3>3, <3>4, ActivationIsPublish
  <2>5. \A y \in Feature : ~Layer!InConflict(d, y)
    BY <2>1, <2>4, ConflictSeen DEF PublishDraft
  <2>6. x \in Feature /\ Official[x] \in seen[<<d, x>>]
    BY <2>1, <2>5, NoConflictSeen
  <2>7. QED
    BY <2>6 DEF Official
<1>2. QED
  BY <1>1, SeenInvariance, PTL DEF HistorySpec, NoSilentOverwrite
=============================================================================
