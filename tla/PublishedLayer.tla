--------------------------- MODULE PublishedLayer ---------------------------
(***************************************************************************)
(* What packages/versioning promises to the rest of the atlas, without     *)
(* version trees, row flags, chains or retention: a layer has an official  *)
(* state, and personal drafts are patches over the official state they     *)
(* were opened on.  A draft reaches the map feature by feature: only when  *)
(* nobody changed a feature it touches, or its owner chose to keep the     *)
(* draft's side against the official state as it now is.                   *)
(* VersionStore is shown to implement this specification.                  *)
(***************************************************************************)
EXTENDS Integers, Functions

CONSTANTS Feature, Contents, Units, Rule, DraftId

\* What a layer says of a feature: one pair of content and managing unit, or nothing.
Value == {{}} \cup {{p} : p \in Contents \X Units}
State == [Feature -> Value]

VARIABLES
    official,   \* the state the map shows
    personal    \* draft -> its base state, its patch, and the features chosen as `mine'

layerVars == <<official, personal>>

With(f, k, e) == [x \in DOMAIN f \cup {k} |-> IF x = k THEN e ELSE f[x]]

\* A choice holds against the official state it was made on, and lapses when that state is replaced.
Lapsed(drafts) == [d \in DOMAIN drafts |-> [drafts[d] EXCEPT !.mine = {}]]

InConflict(d, x) ==
    LET p == personal[d]
    IN  x \in DOMAIN p.patch /\ p.base[x] # official[x] /\ x \notin p.mine

Applied(patch, state) == [x \in Feature |-> IF x \in DOMAIN patch THEN patch[x] ELSE state[x]]

Open(d) ==
    /\ d \notin DOMAIN personal
    /\ personal' = With(personal, d, [base |-> official, patch |-> [x \in {} |-> {}], mine |-> {}])
    /\ UNCHANGED official

Copy(d, e) ==
    /\ e \notin DOMAIN personal
    /\ personal' = With(personal, e, [personal[d] EXCEPT !.mine = {}])
    /\ UNCHANGED official

Discard(d) ==
    /\ personal' = Restrict(personal, DOMAIN personal \ {d})
    /\ UNCHANGED official

Edit(d, x, value) ==
    /\ personal' = [personal EXCEPT ![d].patch = With(@, x, value)]
    /\ UNCHANGED official

TakeMine(d, x) ==
    /\ InConflict(d, x)
    /\ personal' = [personal EXCEPT ![d].mine = @ \cup {x}]
    /\ UNCHANGED official

TakeTheirs(d, x) ==
    /\ InConflict(d, x)
    /\ personal' = [personal EXCEPT ![d].patch = Restrict(@, DOMAIN @ \ {x})]
    /\ UNCHANGED official

Rebase(d) ==
    /\ \A x \in Feature : ~InConflict(d, x)
    /\ personal' = [personal EXCEPT ![d].base = official, ![d].mine = {}]
    /\ UNCHANGED official

Publish(d) ==
    /\ \A x \in Feature : ~InConflict(d, x)
    /\ official' = Applied(personal[d].patch, official)
    /\ personal' = Lapsed(Restrict(personal, DOMAIN personal \ {d}))

Write(x, value) ==
    /\ official' = [official EXCEPT ![x] = value]
    /\ personal' = Lapsed(personal)

\* A load replaces the whole state, but a feature that stays keeps its managing unit.
Replace(state) ==
    /\ \A x \in Feature : \A p \in state[x] :
          p[2] \in (IF official[x] # {} THEN {q[2] : q \in official[x]} ELSE {Rule[p[1]]})
    /\ official' = state
    /\ personal' = Lapsed(personal)

LayerInit ==
    /\ official = [x \in Feature |-> {}]
    /\ personal = [d \in {} |-> {}]

LayerNext ==
    \/ \E d \in DraftId : Open(d)
    \/ \E d \in DOMAIN personal, e \in DraftId : Copy(d, e)
    \/ \E d \in DOMAIN personal : Discard(d)
    \/ \E d \in DOMAIN personal, x \in Feature, value \in Value : Edit(d, x, value)
    \/ \E d \in DOMAIN personal, x \in Feature : TakeMine(d, x)
    \/ \E d \in DOMAIN personal, x \in Feature : TakeTheirs(d, x)
    \/ \E d \in DOMAIN personal : Rebase(d)
    \/ \E d \in DOMAIN personal : Publish(d)
    \/ \E x \in Feature, value \in Value : Write(x, value)
    \/ \E state \in State : Replace(state)

LayerSpec == LayerInit /\ [][LayerNext]_layerVars
=============================================================================
