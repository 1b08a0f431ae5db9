--------------------------- MODULE EditCopyHistory ---------------------------
(***************************************************************************)
(* VersionStore with a history variable that remembers the official        *)
(* contents a draft answers for. An edit copy starts the row of a feature  *)
(* it has not touched from what the map shows now (`active'), not from the *)
(* draft's own chain; what a publish compares is all the same the version  *)
(* the draft is built on, so that version's content is what is remembered. *)
(***************************************************************************)
EXTENDS VersionStore

VARIABLE
    seen   \* <<draft, feature>> -> contents of the version the draft was built on when its row was
           \* started, or that `mine' was chosen against

historyVars == <<vars, seen>>

BuiltOn(d, x) == Content(rows, Resolved(versions, rows, versions[d].parent), x)

Keep(S) == seen' = Restrict(seen, S)

HistoryEdit(d, x, from) ==
    /\ EditDraft(d, x, from)
    /\ seen' = IF x \in DOMAIN rows[d] THEN seen ELSE Put(seen, <<d, x>>, {BuiltOn(d, x)})

HistoryCopy(d, user) ==
    /\ CopyDraft(d, user)
    /\ LET copied == {<<clock', x>> : x \in DOMAIN rows[d]}
       IN  seen' = [k \in DOMAIN seen \cup copied |-> IF k \in copied THEN seen[<<d, k[2]>>] ELSE seen[k]]

HistoryMine(d, x) ==
    /\ ResolveMine(d, x)
    /\ seen' = [seen EXCEPT ![<<d, x>>] = @ \cup {Content(rows, current, x)}]

HistoryTheirs(d, x) ==
    /\ ResolveTheirs(d, x)
    /\ Keep(DOMAIN seen \ {<<d, x>>})

HistoryRebase(d) ==
    /\ RebaseDraft(d)
    /\ UNCHANGED seen

HistoryEnd(d) ==
    /\ DiscardDraft(d) \/ PublishDraft(d)
    /\ Keep({k \in DOMAIN seen : k[1] # d})

HistoryOther ==
    /\ \/ \E supersede \in BOOLEAN : Load(supersede)
       \/ RestampUnchanged
       \/ \E user \in Users : OpenDraft(user)
       \/ \E user \in Users, x \in Feature : DirectWrite(user, x)
    /\ UNCHANGED seen

HistoryNext ==
    \/ \E d \in Drafts, x \in Feature, from \in UntouchedFrom : HistoryEdit(d, x, from)
    \/ \E d \in Drafts, user \in Users : HistoryCopy(d, user)
    \/ \E d \in Drafts, x \in Feature : HistoryMine(d, x)
    \/ \E d \in Drafts, x \in Feature : HistoryTheirs(d, x)
    \/ \E d \in Drafts : HistoryRebase(d)
    \/ \E d \in Drafts : HistoryEnd(d)
    \/ HistoryOther

HistorySpec == Init /\ seen = NoRows /\ [][HistoryNext]_historyVars

-----------------------------------------------------------------------------
\* No lost update: when a draft goes live, the official content of each feature it replaces is the one
\* the draft was built on when the feature was first edited, or one that `mine' was chosen against.
\* Having been shown a newer content, and having edited from it, is not enough, and neither is a choice
\* made before the layer moved on. What it leaves open: a layer that moves on, is edited from here, and
\* is put back to the content the draft was built on shows no conflict.
NoSilentOverwrite ==
    [][\A d \in Drafts : active' = d =>
          \A x \in DOMAIN rows[d] : Content(rows, current, x) \in seen[<<d, x>>]]_historyVars
=============================================================================
