--------------------------- MODULE RiverHierarchy ---------------------------
(***************************************************************************)
(* The derived levels of the rivers layer.  Reaches (level 2, ingested)    *)
(* form a network; ways (level 3, edited by stewards) carry names; the     *)
(* activation of any version names the reaches after the ways beside them, *)
(* groups them into rivers (level 1) and writes only what differs from     *)
(* the version's ancestors, then the gates decide whether it goes live.    *)
(*                                                                         *)
(* Abstracted: geometry.  A way follows one of a few courses, each with    *)
(* its distance to every sample point of every reach.  Resolving conflicts *)
(* is VersionStore's: here a draft with one can only be edited on or       *)
(* discarded.                                                              *)
(***************************************************************************)
EXTENDS Integers, Sequences, FiniteSets, FiniteSetsExt

CONSTANTS
    Reach, Way, Name,   \* sets of integers: their order is the order of their ids
    Course,             \* where a way may run
    DistanceOf,         \* [course -> [reach -> [sample -> distance]]]
    Samples,            \* MATCH_SAMPLES: sample points of a reach
    MinVotes,           \* MATCH_MIN_VOTES
    Tolerance,          \* MATCH_TOLERANCE_DEG: no way further off is considered
    MaxMedian,          \* MATCH_MAX_MEDIAN_M
    Networks,           \* the networks and ways that may be ingested
    Baseline,           \* RIVER_BASELINE: [reaches, names, rivers]
    Draft, MaxVersions, MaxEdits,   \* bounds: drafts at once, versions, edits in all
    Null

ASSUME RiverAssumption ==
    /\ Reach \cup Way \cup Name \subseteq Nat
    /\ Samples \in Nat /\ MinVotes \in 1..Samples /\ 2 * MinVotes > Samples
    /\ DistanceOf \in [Course -> [Reach -> [1..Samples -> Nat]]]
    /\ \A network \in Networks : /\ DOMAIN network.reach \subseteq Reach /\ DOMAIN network.way \subseteq Way
                               /\ \A w \in DOMAIN network.way : network.way[w].course \in Course
    /\ Null \notin Reach

VARIABLES
    chain,      \* the row tables of the active version and its ancestors, nearest first
    draft,      \* [Draft -> Null or [base, way]]: the ways it edits, and those of its parent
    edits       \* edits so far (bounded)

riverVars == <<chain, draft, edits>>

-----------------------------------------------------------------------------
(* Rows.  A table maps the ids a version has rows of, by level, to the rows. *)

Level == {"reach", "way", "river"}
NoRows == [reach |-> <<>>, way |-> <<>>, river |-> <<>>]

\* The same function, which TLC computes once, to compare it, and not at each use.
Evaluated(f) == CHOOSE g \in {f} : g = g

\* The rows of f, and those of g where f has none.
Over(f, g) == Evaluated([id \in DOMAIN f \cup DOMAIN g |-> IF id \in DOMAIN f THEN f[id] ELSE g[id]])

\* Per id the row of the nearest version that has one.
Nearest(tables) ==
    Evaluated([id \in UNION {DOMAIN tables[i] : i \in DOMAIN tables} |->
                  tables[Min({i \in DOMAIN tables : id \in DOMAIN tables[i]})][id]])

\* A tombstone hides the feature.
Live(rows) == Evaluated([id \in {id \in DOMAIN rows : ~rows[id].deleted} |-> rows[id]])

\* What a chain of tables resolves to.
Resolved(tables) ==
    [reach |-> Live(Nearest([i \in DOMAIN tables |-> tables[i].reach])),
     way   |-> Live(Nearest([i \in DOMAIN tables |-> tables[i].way])),
     river |-> Live(Nearest([i \in DOMAIN tables |-> tables[i].river]))]

\* What the build reads of the resolved rows: nothing that an earlier build derived.
Content(res) ==
    [reach |-> Evaluated([r \in DOMAIN res.reach |-> [flows |-> res.reach[r].flows, order |-> res.reach[r].order]]),
     way   |-> Evaluated([w \in DOMAIN res.way |-> [name |-> res.way[w].name, course |-> res.way[w].course]])]

\* The order of keys that are sequences of numbers.
Before(k, l) == \E i \in DOMAIN k : k[i] < l[i] /\ \A j \in 1..(i - 1) : k[j] = l[j]

-----------------------------------------------------------------------------
(* The vote: each sample point of a reach votes for the name of the nearest *)
(* named way, ties by id; a strict majority that lies close enough wins.    *)

Distance(net, w, r, i) == DistanceOf[net.way[w].course][r][i]

\* The vote of sample point i of reach r, for the way nearest to it within the tolerance.
Cast(r, i, away, way) ==
    LET near == {w \in DOMAIN away : away[w][r][i] <= Tolerance}
        Closer(v, w) == away[v][r][i] < away[w][r][i] \/ (away[v][r][i] = away[w][r][i] /\ v < w)
    IN  {[reach |-> r, sample |-> i, name |-> way[w].name, distance |-> away[w][r][i]] :
            w \in {w \in near : ~\E v \in near : Closer(v, w)}}

Ballots(net) ==
    LET away == Evaluated([w \in {w \in DOMAIN net.way : net.way[w].name # Null} |-> DistanceOf[net.way[w].course]])
    IN  UNION {Cast(p[1], p[2], away, net.way) : p \in (DOMAIN net.reach) \X (1..Samples)}

\* Twice the median (percentile_cont) of the distances of votes <<distance, sample>>.
TwiceMedian(votes) ==
    LET n == Cardinality(votes)
        Ranked(k) == CHOOSE d \in {v[1] : v \in votes} : /\ Cardinality({v \in votes : v[1] < d}) < k
                                                         /\ Cardinality({v \in votes : v[1] <= d}) >= k
    IN  Ranked((n + 1) \div 2) + Ranked(n \div 2 + 1)

Trusted(t) == t.votes >= MinVotes /\ t.median <= 2 * MaxMedian

\* The votes of each name for each reach.
Tally(reach, name, votes) ==
    [reach |-> reach, name |-> name, votes |-> Cardinality(votes), median |-> TwiceMedian(votes)]
Tallies(ballots) ==
    LET Votes(c) == {<<b.distance, b.sample>> : b \in {b \in ballots : <<b.reach, b.name>> = c}}
    IN  {Tally(c[1], c[2], Votes(c)) : c \in {<<b.reach, b.name>> : b \in ballots}}

\* The first of each reach, if it is trusted; votes and median stand for its match_confidence.
Elected(tallies) ==
    LET Rank(t) == <<-t.votes, t.median, t.name>>
        First(r) == CHOOSE t \in tallies : /\ t.reach = r
                                           /\ \A u \in tallies : u.reach = r => u = t \/ Before(Rank(t), Rank(u))
    IN  Evaluated([r \in {r \in {t.reach : t \in tallies} : Trusted(First(r))} |-> First(r)])

\* The reaches the vote names.
Voted(net) == Elected(Tallies(Ballots(net)))

\* A reach without a name between two of one name takes it, at a confidence
\* (BRIDGED_CONFIDENCE) below any vote's.
Bridges(net, named) ==
    LET Down(r) == net.reach[r].flows
        gaps == {r \in (DOMAIN net.reach) \ (DOMAIN named) :
                    /\ Down(r) \in DOMAIN named
                    /\ \E u \in DOMAIN named : Down(u) = r /\ named[u].name = named[Down(r)].name}
    IN  [r \in gaps |-> [reach |-> r, name |-> named[Down(r)].name, votes |-> 0, median |-> 0]]

\* Against a snapshot of the vote, in one pass.
Bridged(net, voted) == Over(voted, Bridges(net, voted))

Names(net) == Bridged(net, Voted(net))

-----------------------------------------------------------------------------
(* Grouping: a river is one name and one connected group of reaches, known  *)
(* by its most downstream reach.                                            *)

\* Mutant: the walk goes on into a reach of another name.
NextNamed(net, named) ==
    [r \in DOMAIN named |-> IF net.reach[r].flows \in DOMAIN named THEN net.reach[r].flows ELSE Null]

\* The reach downstream, where it has the same name.
NextOfName(net, named) ==
    [r \in DOMAIN named |->
        LET down == net.reach[r].flows
        IN  IF down \in DOMAIN named /\ named[down].name = named[r].name THEN down ELSE Null]

\* Where the walk along next from each of its points comes to an end: the least set that has the
\* point and all that next leads to.  A walk into a cycle has no end.
WalkEnds(next) ==
    LET points == DOMAIN next
        closed == {S \in SUBSET points : \A s \in S : next[s] \in points => next[s] \in S}
        last == {s \in points : next[s] \notin points}
    IN  Evaluated([r \in points |-> {s \in last : \A S \in closed : r \in S => s \in S}])

\* Each reach belongs to the river of the reach its walk ends at; one on a cycle to none.
RiverOfReach(net, named) ==
    LET ends == WalkEnds(Evaluated(NextOfName(net, named)))
    IN  Evaluated([r \in {r \in DOMAIN named : ends[r] # {}} |-> CHOOSE s \in ends[r] : TRUE])

\* A named way joins the river of its name whose reaches lie nearest.
RiverOfWay(net, riverOf, named) ==
    LET OfName(w) == {r \in DOMAIN riverOf : named[r].name = net.way[w].name}
        Rank(w, r) == <<Min({Distance(net, w, r, i) : i \in 1..Samples}), riverOf[r], r>>
        First(w) == CHOOSE r \in OfName(w) : \A q \in OfName(w) \ {r} : Before(Rank(w, r), Rank(w, q))
    IN  Evaluated([w \in DOMAIN net.way |-> IF OfName(w) = {} THEN Null ELSE riverOf[First(w)]])

\* The geometry of a river is that of its ways, or of its reaches when it has none.
NewRivers(net, named, riverOf, wayRiver) ==
    LET Members(x) == {r \in DOMAIN riverOf : riverOf[r] = x}
        Ways(x) == {w \in DOMAIN wayRiver : wayRiver[w] = x}
        Below(x) == LET down == net.reach[x].flows
                    IN  IF down \in DOMAIN riverOf /\ riverOf[down] # x THEN riverOf[down] ELSE Null
    IN  Evaluated([x \in {riverOf[r] : r \in DOMAIN riverOf} |->
            [name |-> named[x].name,
             order |-> Max({net.reach[r].order : r \in Members(x)}),
             geom |-> IF Ways(x) # {} THEN [ways |-> {<<w, net.way[w].course>> : w \in Ways(x)}, reaches |-> {}]
                      ELSE [ways |-> {}, reaches |-> Members(x)],
             flows |-> Below(x), deleted |-> FALSE]])

-----------------------------------------------------------------------------
(* Only differences are written, as rows of the version being built. *)

\* Mutant: a value that became absent is no difference (<> and not IS DISTINCT FROM).
DiffersIfPresent(stored, new) == new # Null /\ stored # new

IsDistinctFrom(stored, new) == stored # new

\* Mutant: every river is written again.
EveryRiver(stored, new) == DOMAIN new

RiversToWrite(stored, new) == {x \in DOMAIN new : x \notin DOMAIN stored \/ stored[x] # new[x]}

\* Mutant: a river without reaches is left to its ancestor's row.
NoneGone(stored, new) == {}

RiversGone(stored, new) == (DOMAIN stored) \ (DOMAIN new)

\* What the build derives, for every reach and way, and the rivers.
Derived(net) ==
    LET named == Names(net)
        ofReach == RiverOfReach(net, named)
        ofWay == RiverOfWay(net, ofReach, named)
    IN  [river |-> [r \in DOMAIN net.reach |-> IF r \in DOMAIN ofReach THEN ofReach[r] ELSE Null],
         confidence |-> [r \in DOMAIN net.reach |-> IF r \in DOMAIN ofReach
                                                    THEN <<named[r].votes, named[r].median>> ELSE Null],
         ofWay |-> ofWay,
         rivers |-> NewRivers(net, named, ofReach, ofWay)]

\* The rows of `own` after the build has written what it derived over what own and its ancestors resolve to.
Superseded(own, res, derived) ==
    LET reaches == {r \in DOMAIN res.reach : \/ IsDistinctFrom(res.reach[r].parent, derived.river[r])
                                             \/ IsDistinctFrom(res.reach[r].confidence, derived.confidence[r])}
        ways == {w \in DOMAIN res.way : IsDistinctFrom(res.way[w].parent, derived.ofWay[w])}
    IN  [reach |-> Over([r \in reaches |-> [res.reach[r] EXCEPT !.parent = derived.river[r],
                                                                !.confidence = derived.confidence[r]]], own.reach),
         way |-> Over([w \in ways |-> [res.way[w] EXCEPT !.parent = derived.ofWay[w]]], own.way),
         river |-> Over([x \in RiversGone(res.river, derived.rivers) |->
                            [res.river[x] EXCEPT !.flows = Null, !.deleted = TRUE]],
                        Over([x \in RiversToWrite(res.river, derived.rivers) |-> derived.rivers[x]], own.river))]

Build(own, ancestors) ==
    LET res == Resolved(<<own>> \o ancestors) IN Superseded(own, res, Derived(Content(res)))

-----------------------------------------------------------------------------
(* The gates, over what the built version resolves to. *)

\* Reaches with a path to an outlet: none of a cycle, nor above one.
Draining(reach) ==
    LET ends == WalkEnds([r \in DOMAIN reach |-> reach[r].flows]) IN {r \in DOMAIN reach : ends[r] # {}}

Gates(res, ingest) ==
    LET reaches == DOMAIN res.reach
        rivers == DOMAIN res.river
        withRiver == {r \in reaches : res.reach[r].parent # Null}
    IN  /\ \A r \in reaches : res.reach[r].flows \in reaches =>
              res.reach[res.reach[r].flows].order >= res.reach[r].order
        /\ \A x \in rivers : \E r \in withRiver : res.reach[r].parent = x
        /\ \A r \in withRiver : res.reach[r].parent \in rivers
        /\ \A w \in DOMAIN res.way : res.way[w].parent # Null => res.way[w].parent \in rivers
        /\ Draining(res.reach) = reaches
        /\ ingest => /\ Cardinality(withRiver) >= Baseline.reaches
                     /\ Cardinality({res.river[x].name : x \in rivers}) >= Baseline.names
                     /\ Cardinality(rivers) >= Baseline.rivers

-----------------------------------------------------------------------------
\* The rows of a load: nothing derived yet.
Loaded(network) ==
    [reach |-> [r \in DOMAIN network.reach |-> [flows |-> network.reach[r].flows, order |-> network.reach[r].order,
                                            parent |-> Null, confidence |-> Null, deleted |-> FALSE]],
     way |-> [w \in DOMAIN network.way |-> [name |-> network.way[w].name, course |-> network.way[w].course,
                                        parent |-> Null, deleted |-> FALSE]],
     river |-> <<>>]

\* An ingest has no parent: its chain is itself.  A refused one leaves no trace.  (A
\* later ingest starts over, so one is enough.)
Ingest(network) ==
    /\ chain = <<>>
    /\ LET built == Build(Loaded(network), <<>>)
       IN  Gates(Resolved(<<built>>), TRUE) /\ chain' = <<built>>
    /\ UNCHANGED <<draft, edits>>

Active == Resolved(chain)

OpenRiverDraft(d) ==
    /\ draft[d] = Null /\ chain # <<>> /\ Len(chain) < MaxVersions
    /\ draft' = [draft EXCEPT ![d] = [base |-> Active.way, way |-> <<>>]]
    /\ UNCHANGED <<chain, edits>>

\* What draft d shows of the ways: its own rows over its parent's.
Shown(d) == Live(Over(draft[d].way, draft[d].base))

Touch(d, w, row) ==
    /\ draft' = [draft EXCEPT ![d].way = Over([v \in {w} |-> row], @)]
    /\ edits' = edits + 1
    /\ UNCHANGED chain

\* Ids no version and no draft has a row of.
Unused == {w \in Way : /\ \A i \in DOMAIN chain : w \notin DOMAIN chain[i].way
                       /\ \A d \in Draft : draft[d] # Null => w \notin DOMAIN draft[d].way}

\* A draft's row carries the way's own attributes and geometry, not its river; a new
\* way has a minted id.
EditWay(d, w, row) ==
    /\ draft[d] # Null /\ edits < MaxEdits
    /\ w \in (DOMAIN Shown(d)) \cup Unused
    /\ w \in DOMAIN Shown(d) => row # [Shown(d)[w] EXCEPT !.parent = Null]
    /\ Touch(d, w, row)

\* Deleting leaves a tombstone; no other column of it is read.
DeleteWay(d, w) ==
    /\ draft[d] # Null /\ edits < MaxEdits
    /\ w \in DOMAIN Shown(d)
    /\ Touch(d, w, [Shown(d)[w] EXCEPT !.parent = Null, !.deleted = TRUE])

\* The ways of the draft whose content is no longer its parent's; the river a build
\* derived for a way counts as its content (CONTENT_EXCLUDED_KEYS does not name it).
InConflict(d) ==
    LET now == Active.way
        RowOf(ways, w) == IF w \in DOMAIN ways THEN ways[w] ELSE Null
    IN  {w \in DOMAIN draft[d].way : RowOf(draft[d].base, w) # RowOf(now, w)}

BuiltDraft(d) == Build([NoRows EXCEPT !.way = draft[d].way], chain)

\* Publishing: rebased onto the active version, built, gated, activated.
Publish(d) ==
    /\ draft[d] # Null /\ Len(chain) < MaxVersions /\ InConflict(d) = {}
    /\ LET built == BuiltDraft(d)
       IN  Gates(Resolved(<<built>> \o chain), FALSE) /\ chain' = <<built>> \o chain
    /\ draft' = [draft EXCEPT ![d] = Null]
    /\ UNCHANGED edits

Discard(d) ==
    /\ draft[d] # Null
    /\ draft' = [draft EXCEPT ![d] = Null]
    /\ UNCHANGED <<chain, edits>>

WayRow == [name : Name \cup {Null}, course : Course, parent : {Null}, deleted : {FALSE}]

RiverInit == chain = <<>> /\ draft = [d \in Draft |-> Null] /\ edits = 0

RiverNext ==
    \/ \E network \in Networks : Ingest(network)
    \/ \E d \in Draft :
          \/ OpenRiverDraft(d) \/ Publish(d) \/ Discard(d)
          \/ \E w \in Way : DeleteWay(d, w) \/ \E row \in WayRow : EditWay(d, w, row)

RiverSpec == RiverInit /\ [][RiverNext]_riverVars

-----------------------------------------------------------------------------

\* The reaches of each river of a version are one connected group of reaches of one name.
ConnectedNames(now) ==
    LET named == Names(Content(now))
        bearing == DOMAIN named
        Joined(r, s) == now.reach[r].flows = s /\ named[r].name = named[s].name
        apart == {S \in SUBSET bearing : \A r, s \in bearing : Joined(r, s) => (r \in S <=> s \in S)}
        Group(r) == {s \in bearing : \A S \in apart : r \in S => s \in S}
        River(r) == now.reach[r].parent
    IN  /\ \A r \in bearing : River(r) # Null /\ {s \in bearing : River(s) = River(r)} = Group(r)
        /\ \A r \in (DOMAIN now.reach) \ bearing : River(r) = Null /\ now.reach[r].confidence = Null

\* Two reaches belong to one river exactly when a path of reaches of their one
\* name joins them, upstream and down; a reach without a name has no river and no
\* confidence.  After any sequence of edits, in the version stewards and readers
\* see - whose rows may come from many versions (computeRiverGrouping).
RiversAreConnectedNames == ConnectedNames(Active)

\* The rows of a version's rivers, and the ways of each, follow from its reaches and ways.
RowsFollow(now) ==
    LET Members(x) == {r \in DOMAIN now.reach : now.reach[r].parent = x}
        Ways(x) == {w \in DOMAIN now.way : now.way[w].parent = x}
        Outflows(x) == {now.reach[now.reach[r].flows].parent :
                           r \in {m \in Members(x) : now.reach[m].flows \in DOMAIN now.reach}} \ {x, Null}
    IN  /\ \A x \in DOMAIN now.river : LET river == now.river[x] IN
              /\ \A w \in Ways(x) : now.way[w].name = river.name
              /\ river.order = Max({now.reach[r].order : r \in Members(x)})
              /\ river.geom.ways = {<<w, now.way[w].course>> : w \in Ways(x)}
              /\ Ways(x) = {} => river.geom.reaches = Members(x)
              /\ Outflows(x) = {river.flows} \ {Null}
        /\ \A w \in DOMAIN now.way :
              now.way[w].parent = Null <=> ~\E x \in DOMAIN now.river : now.river[x].name = now.way[w].name

\* A river's row is what its members are now: its highest order, the present
\* course of exactly its ways, and an outflow into the river its lowest reach
\* flows to; and a way belongs to a river of its name if there is one.
RiverRowsFollowMembers == RowsFollow(Active)

\* Building the active version again writes nothing: no row of it depends on a
\* value an earlier build derived.
RebuildWritesNothing ==
    chain # <<>> => LET again == Build(NoRows, chain) IN \A level \in Level : DOMAIN again[level] = {}

\* A steward who edits ways is never refused by a gate: the gates an edit passes
\* hold of what the build makes of any edits over a version that passed them.
EditsPassGates ==
    \A d \in Draft : draft[d] # Null => Gates(Resolved(<<BuiltDraft(d)>> \o chain), FALSE)
=============================================================================
