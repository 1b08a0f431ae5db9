-------------------------- MODULE BuildRunner_proofs --------------------------
(* Proofs about BuildRunner, for any registry without cycles, any number of processes and commands. *)
EXTENDS BuildRunner, TLAPS

------------------------------------------------------------------------------
(* The registry *)

\* What a dataset rests on lies in every set that is closed under dependencies and holds what it
\* depends on.
LEMMA AncestorsLeast ==
  ASSUME NEW d \in Dataset, NEW C \in SUBSET Dataset,
         DependsOn[d] \subseteq C, \A e \in C : DependsOn[e] \subseteq C
  PROVE  Ancestors[d] \subseteq C
  BY DEF Ancestors, Closure

\* To rest on something is transitive.
LEMMA AncestorsTransitive ==
  ASSUME NEW d \in Dataset, NEW e \in Ancestors[d]
  PROVE  e \in Dataset /\ Ancestors[e] \subseteq Ancestors[d]
<1>1. e \in Dataset
  BY DEF Ancestors, Closure
<1>2. ASSUME NEW x \in Ancestors[e] PROVE x \in Ancestors[d]
  <2>1. x \in Dataset /\ \A S \in SUBSET Dataset :
           DependsOn[e] \subseteq S /\ (\A y \in S : DependsOn[y] \subseteq S) => x \in S
    BY <1>1, <1>2 DEF Ancestors, Closure
  <2>2. \A S \in SUBSET Dataset :
           DependsOn[d] \subseteq S /\ (\A y \in S : DependsOn[y] \subseteq S) => e \in S
    BY DEF Ancestors, Closure
  <2>3. QED
    BY <2>1, <2>2 DEF Ancestors, Closure
<1>3. QED
  BY <1>1, <1>2

\* A stage is a dataset and a number.
LEMMA StageShape ==
  ASSUME NEW s \in Stage
  PROVE  s[1] \in Dataset /\ s[2] \in 1 .. StageCount[s[1]] /\ s[2] \in Nat /\ s = <<s[1], s[2]>>
<1>1. PICK d \in Dataset : s \in {d} \X (1 .. StageCount[d])
  BY DEF Stage
<1>2. s[1] = d /\ s[2] \in 1 .. StageCount[d] /\ s = <<s[1], s[2]>>
  BY <1>1
<1>3. StageCount[d] \in Nat
  BY GraphAssumption
<1>4. QED
  BY <1>2, <1>3

LEMMA StageMade ==
  ASSUME NEW d \in Dataset, NEW i \in 1 .. StageCount[d]
  PROVE  <<d, i>> \in Stage
  BY DEF Stage

\* Up- and downstream are each other's inverse, and no stage is below itself.
LEMMA UpDown ==
  ASSUME NEW s \in Stage, NEW t \in Stage
  PROVE  /\ t \in Upstream[s] <=> t = s \/ s \in Downstream[t]
         /\ s \notin Downstream[s]
         /\ t \in Upstream[s] <=> (t[1] = s[1] /\ t[2] <= s[2]) \/ t[1] \in Ancestors[s[1]]
         /\ t \in Downstream[s] <=> (t[1] = s[1] /\ t[2] > s[2]) \/ s[1] \in Ancestors[t[1]]
<1>1. /\ s[1] \in Dataset /\ s[2] \in Nat /\ s = <<s[1], s[2]>>
      /\ t[1] \in Dataset /\ t[2] \in Nat /\ t = <<t[1], t[2]>>
  BY StageShape
<1>2. s[1] \notin Ancestors[s[1]] /\ t[1] \notin Ancestors[t[1]]
  BY <1>1, GraphAssumption
<1>3. Ancestors[s[1]] \subseteq Dataset
  BY <1>1, AncestorsTransitive
<1>4. t \in Upstream[s] <=> (t[1] = s[1] /\ t[2] <= s[2]) \/ t[1] \in Ancestors[s[1]]
  BY DEF Upstream, StagesOf
<1>5. \A a, b \in Stage : b \in Downstream[a] <=>
         (b[1] = a[1] /\ b[2] > a[2]) \/ (b[1] \in Dataset /\ a[1] \in Ancestors[b[1]])
  <2> SUFFICES ASSUME NEW a \in Stage, NEW b \in Stage
               PROVE b \in Downstream[a] <=>
                 (b[1] = a[1] /\ b[2] > a[2]) \/ (b[1] \in Dataset /\ a[1] \in Ancestors[b[1]])
    OBVIOUS
  <2>1. a[1] \in Dataset
    BY StageShape
  <2>2. QED
    BY <2>1 DEF Downstream, StagesOf, TransitiveDependents
<1>6. t = s <=> t[1] = s[1] /\ t[2] = s[2]
  BY <1>1
<1>7. QED
  BY <1>1, <1>2, <1>4, <1>5, <1>6

LEMMA UpstreamStages == ASSUME NEW s \in Stage PROVE Upstream[s] \subseteq Stage /\ Downstream[s] \subseteq Stage
  BY DEF Upstream, Downstream, StagesOf

\* What is below something that is below a stage is below it, too.
LEMMA DownstreamClosed ==
  ASSUME NEW a \in Stage, NEW t \in Downstream[a], NEW s \in Stage, t \in Upstream[s]
  PROVE  s \in Downstream[a]
<1>1. t \in Stage
  BY UpstreamStages
<1>2. /\ a[1] \in Dataset /\ a[2] \in Nat /\ s[1] \in Dataset /\ s[2] \in Nat /\ t[1] \in Dataset /\ t[2] \in Nat
  BY <1>1, StageShape
<1>3. (t[1] = s[1] /\ t[2] <= s[2]) \/ t[1] \in Ancestors[s[1]]
  BY <1>1, UpDown
<1>4. (t[1] = a[1] /\ t[2] > a[2]) \/ a[1] \in Ancestors[t[1]]
  BY <1>1, UpDown
<1>5. t[1] \in Ancestors[s[1]] => Ancestors[t[1]] \subseteq Ancestors[s[1]]
  BY <1>2, AncestorsTransitive
<1>6. (s[1] = a[1] /\ s[2] > a[2]) \/ a[1] \in Ancestors[s[1]]
  BY <1>2, <1>3, <1>4, <1>5
<1>7. QED
  BY <1>6, UpDown

------------------------------------------------------------------------------
(* The inductive invariant: what a build in progress, and the rows it has left behind, can rely on. *)

Ok(s) == state[s] # Nothing /\ state[s].status = "ok"

\* One command at a time, whether or not it still has its lock.
Alone ==
    /\ \A b, c \in Build : b # c => builds[b].step = "idle" \/ builds[c].step = "idle"
    /\ \A b \in Build : builds[b].step # "idle" => b \in lock \/ unlocked

InBuild(b) == builds[b].step \notin {"idle", "adopt"}
Located(b) == builds[b].at # Nothing

\* The datasets this build has left built.
Good(b) == builds[b].done \ builds[b].broken

\* The plan is one look at the files; of the other stages it says what their descriptors are.
PlanTold(b) ==
    \A s \in StagesOf(builds[b].selected) :
        /\ DOMAIN builds[b].plan[s] = Upstream[s]
        /\ s \notin Loads => builds[b].plan[s][s] \in 0 .. MaxContent
        /\ \A t \in Upstream[s] :
              t \in StagesOf(builds[b].selected) => builds[b].plan[s][t] = builds[b].plan[t][t]

\* What a built dataset, and the one at hand, depend on is built.
Ordered(b) ==
    /\ \A d \in Good(b) : DependsOn[d] \subseteq Good(b)
    /\ Located(b) => DependsOn[builds[b].at[1]] \subseteq Good(b)

\* The stages this build has been through, and not failed.
Through(b) ==
    {s \in Stage : s[1] \in Good(b) \/ (Located(b) /\ s[1] = builds[b].at[1] /\ s[2] < builds[b].at[2])}

\* Their rows say ok, with the hash of the plan.
Recorded(b) == \A s \in Through(b) : Ok(s) /\ state[s].hash = builds[b].plan[s]

\* From the invalidation on nothing that rests on the stage at hand has a row, ...
Cleared(b) ==
    builds[b].step \in {"mark", "execute", "append", "record"} =>
        \A s \in Downstream[builds[b].at] : state[s] = Nothing

\* ... and, while it runs, its own says failed.
Marked(b) == builds[b].step \in {"execute", "append", "record"} => ~ Ok(builds[b].at)

\* What has run is made from what the plan says, unless its file has changed since, and is on the ground
\* of all that is upstream.
Fresh(b) ==
    LET s == builds[b].at
    IN  /\ builds[b].step \in {"append", "record"} =>
              s \notin behind /\ (s \notin raced => output[s] = builds[b].plan[s][s] /\ output[s] \in Nat)
        /\ builds[b].step = "record" => s \notin owed

Progress(b) ==
    PlanTold(b) /\ Ordered(b) /\ Recorded(b) /\ Cleared(b) /\ Marked(b) /\ Fresh(b)

\* An ok row rests on ok rows that tell the same inputs.
Chain ==
    \A s \in Stage : Ok(s) /\ s \notin adopted =>
        \A t \in Upstream[s] : Ok(t) /\ state[t].hash[t] = state[s].hash[t]

\* And tells what the output was made from, unless the file changed under the build.
Own ==
    \A s \in Stage : Ok(s) /\ s \notin adopted =>
        /\ s \notin raced => output[s] = state[s].hash[s] /\ output[s] \in Nat
        /\ s \notin behind /\ s \notin owed

IInv == TypeOK /\ Alone /\ (\A b \in Build : InBuild(b) => Progress(b)) /\ Chain /\ Own

------------------------------------------------------------------------------
(* Types, and what a step does to the process that takes it. *)

LEMMA Numbers == MaxContent \in Nat /\ MaxEdits \in Nat /\ MaxCommands \in Nat /\ Nothing \notin Stage /\ Nothing \notin Row
  BY RunnerAssumption, NothingAssumption

LEMMA IdleType == Idle \in Command /\ Idle.step = "idle"
<1>1. [s \in {} |-> {}] \in UNION {[S -> Hash] : S \in SUBSET Stage}
  <2>1. [s \in {} |-> {}] \in [{} -> Hash] /\ {} \in SUBSET Stage
    OBVIOUS
  <2>2. QED
    BY <2>1
<1>2. Idle \in Fields
  BY <1>1 DEF Idle, Fields, Steps
<1>3. DOMAIN [s \in {} |-> {}] = StagesOf({})
  BY DEF StagesOf
<1>4. QED
  BY <1>2, <1>3 DEF Idle, Command

\* The parts of a command's state.
LEMMA CommandParts ==
  ASSUME TypeOK, NEW b \in Build
  PROVE  /\ builds[b] \in Command /\ builds[b] \in Fields
         /\ builds[b].selected \in SUBSET Dataset
         /\ builds[b].broken \subseteq builds[b].done /\ builds[b].done \subseteq builds[b].selected
         /\ DOMAIN builds[b].plan = StagesOf(builds[b].selected)
         /\ \A s \in StagesOf(builds[b].selected) : builds[b].plan[s] \in Hash
         /\ builds[b].at = Nothing <=> builds[b].step \in {"idle", "dataset", "adopt"}
<1>1. builds[b] \in Command /\ builds[b] \in Fields
  BY DEF TypeOK, Command
<1>2. /\ builds[b].selected \in SUBSET Dataset
      /\ builds[b].broken \subseteq builds[b].done /\ builds[b].done \subseteq builds[b].selected
      /\ DOMAIN builds[b].plan = StagesOf(builds[b].selected)
      /\ builds[b].at = Nothing <=> builds[b].step \in {"idle", "dataset", "adopt"}
  BY <1>1 DEF Command, Fields
<1>3. PICK S \in SUBSET Stage : builds[b].plan \in [S -> Hash]
  BY <1>1 DEF Fields
<1>4. \A s \in StagesOf(builds[b].selected) : builds[b].plan[s] \in Hash
  BY <1>2, <1>3
<1>5. QED
  BY <1>1, <1>2, <1>4

\* The stage at hand.
LEMMA AtParts ==
  ASSUME TypeOK, NEW b \in Build, builds[b].step \notin {"idle", "dataset", "adopt"}
  PROVE  LET s == builds[b].at
         IN  /\ s # Nothing /\ s \in Stage /\ s[1] \in builds[b].selected \ builds[b].done
             /\ s[1] \in Dataset /\ s \in StagesOf(builds[b].selected)
             /\ s \in DOMAIN builds[b].plan /\ builds[b].plan[s] \in Hash
<1> DEFINE s == builds[b].at
<1>1. s # Nothing /\ s[1] \in builds[b].selected \ builds[b].done
  BY CommandParts DEF Command
<1>2. s \in Stage
  BY <1>1, CommandParts DEF Fields
<1>3. QED
  BY <1>1, <1>2, CommandParts DEF StagesOf

LEMMA SetCommand ==
  ASSUME TypeOK, NEW b \in Build, NEW new \in Command, builds' = [builds EXCEPT ![b] = new]
  PROVE  /\ builds' \in [Build -> Command] /\ builds'[b] = new
         /\ \A c \in Build \ {b} : builds'[c] = builds[c]
  BY DEF TypeOK

\* The process b of the next state, told by what changes in it.
Moved(b, step, at, done, broken) ==
    /\ builds' \in [Build -> Command]
    /\ \A c \in Build \ {b} : builds'[c] = builds[c]
    /\ builds'[b].step = step /\ builds'[b].at = at /\ builds'[b].done = done /\ builds'[b].broken = broken
    /\ builds'[b].selected = builds[b].selected /\ builds'[b].plan = builds[b].plan

LEMMA GotoMoves ==
  ASSUME TypeOK, NEW b \in Build, NEW step \in {"mark", "execute", "append", "record"}, Goto(b, step),
         builds[b].step \notin {"idle", "dataset", "adopt"}
  PROVE  Moved(b, step, builds[b].at, builds[b].done, builds[b].broken)
<1> DEFINE new == [builds[b] EXCEPT !.step = step]
<1>1. builds[b] \in Command /\ builds[b] \in Fields /\ builds[b].at # Nothing
  BY CommandParts
<1>2. new \in Command
  BY <1>1 DEF Command, Fields, Steps
<1>3. builds' = [builds EXCEPT ![b] = new]
  BY DEF Goto
<1>4. /\ new.step = step /\ new.at = builds[b].at /\ new.done = builds[b].done /\ new.broken = builds[b].broken
      /\ new.selected = builds[b].selected /\ new.plan = builds[b].plan
  BY <1>1 DEF Fields
<1> HIDE DEF new
<1>5. QED
  BY <1>2, <1>3, <1>4, SetCommand DEF Moved

LEMMA LeaveMoves ==
  ASSUME TypeOK, NEW b \in Build, NEW d \in builds[b].selected, NEW broken \in BOOLEAN, Leave(b, d, broken)
  PROVE  Moved(b, "dataset", Nothing, builds[b].done \cup {d},
               IF broken THEN builds[b].broken \cup {d} ELSE builds[b].broken)
<1> DEFINE new == [builds[b] EXCEPT !.step = "dataset", !.at = Nothing, !.done = @ \cup {d},
                                    !.broken = IF broken THEN @ \cup {d} ELSE @]
<1>1. /\ builds[b] \in Command /\ builds[b] \in Fields /\ builds[b].selected \in SUBSET Dataset
      /\ builds[b].broken \subseteq builds[b].done /\ builds[b].done \subseteq builds[b].selected
      /\ DOMAIN builds[b].plan = StagesOf(builds[b].selected)
  BY CommandParts
<1>2. builds' = [builds EXCEPT ![b] = new]
  BY <1>1 DEF Leave, TypeOK, Fields
<1>3. /\ new.step = "dataset" /\ new.at = Nothing /\ new.done = builds[b].done \cup {d}
      /\ new.broken = (IF broken THEN builds[b].broken \cup {d} ELSE builds[b].broken)
      /\ new.selected = builds[b].selected /\ new.plan = builds[b].plan
  BY <1>1 DEF Fields
<1>4. new \in Fields
  BY <1>1 DEF Fields, Steps
<1> HIDE DEF new
<1>5. new \in Command
  BY <1>1, <1>3, <1>4 DEF Command
<1>6. QED
  BY <1>2, <1>3, <1>5, SetCommand DEF Moved

LEMMA StageMoves ==
  ASSUME TypeOK, NEW b \in Build, NEW s \in Stage, s[1] \in builds[b].selected \ builds[b].done,
         builds' = [builds EXCEPT ![b].step = "stage", ![b].at = s]
  PROVE  Moved(b, "stage", s, builds[b].done, builds[b].broken)
<1> DEFINE new == [builds[b] EXCEPT !.step = "stage", !.at = s]
<1>1. builds[b] \in Command /\ builds[b] \in Fields /\ s # Nothing
  BY CommandParts, Numbers
<1>2. builds' = [builds EXCEPT ![b] = new]
  BY <1>1 DEF TypeOK, Fields
<1>3. /\ new.step = "stage" /\ new.at = s /\ new.done = builds[b].done /\ new.broken = builds[b].broken
      /\ new.selected = builds[b].selected /\ new.plan = builds[b].plan
  BY <1>1 DEF Fields
<1>4. new \in Fields
  BY <1>1 DEF Fields, Steps
<1> HIDE DEF new
<1>5. new \in Command
  BY <1>1, <1>3, <1>4 DEF Command
<1>6. QED
  BY <1>2, <1>3, <1>5, SetCommand DEF Moved

LEMMA BreaksMoves ==
  ASSUME TypeOK, NEW b \in Build, Breaks(b), builds[b].step \notin {"idle", "dataset", "adopt"}
  PROVE  Moved(b, "dataset", Nothing, builds[b].done \cup {builds[b].at[1]},
               builds[b].broken \cup {builds[b].at[1]})
<1>1. builds[b].at[1] \in builds[b].selected
  BY AtParts
<1>2. QED
  BY <1>1, LeaveMoves DEF Breaks

\* The next stage of the dataset, or the dataset is through.
LEMMA NextMoves ==
  ASSUME TypeOK, NEW b \in Build, NextStage(b), builds[b].step \notin {"idle", "dataset", "adopt"}
  PROVE  LET s == builds[b].at
         IN  \/ <<s[1], s[2] + 1>> \in Stage /\ Moved(b, "stage", <<s[1], s[2] + 1>>, builds[b].done, builds[b].broken)
             \/ /\ s[2] = StageCount[s[1]]
                /\ Moved(b, "dataset", Nothing, builds[b].done \cup {s[1]}, builds[b].broken)
<1> DEFINE s == builds[b].at
<1>1. s \in Stage /\ s[1] \in builds[b].selected \ builds[b].done /\ s[1] \in Dataset
  BY AtParts
<1>2. s[2] \in Nat /\ s[2] \in 1 .. StageCount[s[1]] /\ StageCount[s[1]] \in Nat
  BY <1>1, StageShape, GraphAssumption
<1>3. CASE s[2] < StageCount[s[1]]
  <2>1. s[2] + 1 \in 1 .. StageCount[s[1]]
    BY <1>2, <1>3
  <2> DEFINE n == <<s[1], s[2] + 1>>
  <2>2. n \in Stage /\ n[1] = s[1]
    BY <1>1, <2>1, StageMade
  <2>3. builds' = [builds EXCEPT ![b].step = "stage", ![b].at = n]
    BY <1>3 DEF NextStage
  <2> HIDE DEF n
  <2>4. Moved(b, "stage", n, builds[b].done, builds[b].broken)
    BY <1>1, <2>2, <2>3, StageMoves
  <2>5. QED
    BY <2>2, <2>4 DEF n
<1>4. CASE ~ (s[2] < StageCount[s[1]])
  <2>1. Leave(b, s[1], FALSE)
    BY <1>4 DEF NextStage
  <2>2. Moved(b, "dataset", Nothing, builds[b].done \cup {s[1]}, builds[b].broken)
    BY <1>1, <2>1, LeaveMoves
  <2>3. QED
    BY <1>2, <1>4, <2>2
<1>5. QED
  BY <1>3, <1>4

LEMMA EndsMoves ==
  ASSUME TypeOK, NEW b \in Build, Ends(b)
  PROVE  /\ builds' \in [Build -> Command] /\ builds'[b].step = "idle"
         /\ \A c \in Build \ {b} : builds'[c] = builds[c]
         /\ lock' = lock \ {b} /\ unlocked' = unlocked /\ begun' = begun
         /\ lock' \subseteq Build
  BY IdleType, SetCommand DEF Ends, TypeOK

LEMMA InputHashType == ASSUME TypeOK, NEW s \in Stage PROVE InputHash(s) \in Hash /\ DOMAIN InputHash(s) = Upstream[s]
<1>1. InputHash(s) \in [Upstream[s] -> 0 .. MaxContent \cup {Missing}]
  BY UpstreamStages DEF InputHash, TypeOK
<1>2. Upstream[s] \in SUBSET Stage
  BY UpstreamStages
<1>3. QED
  BY <1>1, <1>2 DEF Hash

\* A command begins with a look at the files.
LEMMA BeginType ==
  ASSUME TypeOK, NEW b \in Build, NEW step \in {"dataset", "adopt"}, NEW D \in SUBSET Dataset, NEW force \in SUBSET D,
         step = "adopt" => D = Dataset,
         builds' = [builds EXCEPT ![b] =
                      [Idle EXCEPT !.step = step, !.selected = D, !.force = force,
                                   !.plan = [s \in StagesOf(D) |-> InputHash(s)]]]
  PROVE  /\ builds' \in [Build -> Command]
         /\ \A c \in Build \ {b} : builds'[c] = builds[c]
         /\ builds'[b].step = step /\ builds'[b].at = Nothing /\ builds'[b].done = {} /\ builds'[b].broken = {}
         /\ builds'[b].selected = D /\ builds'[b].plan = [s \in StagesOf(D) |-> InputHash(s)]
<1> DEFINE plan == [s \in StagesOf(D) |-> InputHash(s)]
           new == [Idle EXCEPT !.step = step, !.selected = D, !.force = force, !.plan = plan]
<1>1. plan \in UNION {[S -> Hash] : S \in SUBSET Stage}
  <2>1. StagesOf(D) \in SUBSET Stage
    BY DEF StagesOf
  <2>2. plan \in [StagesOf(D) -> Hash]
    BY <2>1, InputHashType
  <2>3. QED
    BY <2>1, <2>2
<1>2. Idle \in Fields /\ Idle.done = {} /\ Idle.broken = {} /\ Idle.at = Nothing
  <2>1. Idle.done = {} /\ Idle.broken = {} /\ Idle.at = Nothing
    BY DEF Idle
  <2>2. QED
    BY <2>1, IdleType DEF Command
<1>3. DOMAIN plan = StagesOf(D)
  OBVIOUS
<1> HIDE DEF plan
<1>4. /\ new \in Fields /\ new.step = step /\ new.selected = D /\ new.plan = plan
      /\ new.done = {} /\ new.broken = {} /\ new.at = Nothing
  <2> HIDE <1>3
  <2>1. QED
    BY <1>1, <1>2 DEF Fields, Steps
<1> HIDE DEF new
<1>5. new \in Command
  BY <1>3, <1>4 DEF Command
<1>6. builds'[b] = new /\ builds' \in [Build -> Command] /\ \A c \in Build \ {b} : builds'[c] = builds[c]
  BY <1>5, SetCommand DEF new, plan
<1>7. QED
  BY <1>4, <1>6 DEF plan

\* What a write leaves in the state rows.
LEMMA Written ==
  ASSUME TypeOK, NEW s \in Stage, NEW status \in {"ok", "failed"}, NEW hash \in Hash, Write(s, status, hash)
  PROVE  /\ state' \in [Stage -> Row \cup {Nothing}]
         /\ state'[s] # Nothing /\ state'[s].status = status /\ state'[s].hash = hash
         /\ \A t \in Stage \ {s} : state'[t] = state[t]
         /\ adopted' = adopted \ {s} /\ adopted' \subseteq Stage
<1> DEFINE row == [status |-> status, hash |-> hash]
<1>1. row \in Row /\ row.status = status /\ row.hash = hash
  BY DEF Row
<1>2. row # Nothing
  BY <1>1, Numbers
<1>3. state' = [state EXCEPT ![s] = row] /\ adopted' = adopted \ {s}
  BY DEF Write
<1> HIDE DEF row
<1>4. QED
  BY <1>1, <1>2, <1>3 DEF TypeOK

------------------------------------------------------------------------------
(* What keeps a build in progress in order. *)

\* The built datasets are closed under what they rest on; so a stage at hand has been reached through all
\* that is upstream, and through nothing that is downstream.
LEMMA ThroughUpstream ==
  ASSUME TypeOK, NEW b \in Build, builds[b].step \notin {"idle", "dataset", "adopt"}, Ordered(b)
  PROVE  /\ \A t \in Upstream[builds[b].at] : t = builds[b].at \/ t \in Through(b)
         /\ builds[b].at \notin Through(b)
         /\ \A t \in Downstream[builds[b].at] : t \notin Through(b)
<1> DEFINE s == builds[b].at
<1>1. /\ s # Nothing /\ s \in Stage /\ s[1] \in builds[b].selected \ builds[b].done /\ s[1] \in Dataset
      /\ s[2] \in Nat /\ s = <<s[1], s[2]>>
  BY AtParts, StageShape
<1>2. Good(b) \subseteq Dataset /\ s[1] \notin Good(b)
  BY <1>1, CommandParts DEF Good
<1>3. Located(b) /\ DependsOn[s[1]] \subseteq Good(b) /\ \A d \in Good(b) : DependsOn[d] \subseteq Good(b)
  BY <1>1 DEF Located, Ordered
<1>4. Ancestors[s[1]] \subseteq Good(b)
  BY <1>1, <1>2, <1>3, AncestorsLeast
<1>5. \A d \in Good(b) : Ancestors[d] \subseteq Good(b)
  BY <1>2, <1>3, AncestorsLeast
<1>6. s[1] \notin Ancestors[s[1]]
  BY <1>1, GraphAssumption
<1>7. ASSUME NEW t \in Upstream[s] PROVE t = s \/ t \in Through(b)
  <2>1. t \in Stage /\ t[2] \in Nat /\ t = <<t[1], t[2]>>
    BY <1>1, UpstreamStages, StageShape
  <2>2. (t[1] = s[1] /\ t[2] <= s[2]) \/ t[1] \in Ancestors[s[1]]
    BY <1>1, <2>1, UpDown
  <2>3. QED
    BY <1>1, <1>3, <1>4, <2>1, <2>2 DEF Through
<1>8. s \notin Through(b)
  BY <1>1, <1>2 DEF Through
<1>9. ASSUME NEW t \in Downstream[s] PROVE t \notin Through(b)
  <2>1. t \in Stage /\ t[2] \in Nat
    BY <1>1, UpstreamStages, StageShape
  <2>2. (t[1] = s[1] /\ t[2] > s[2]) \/ s[1] \in Ancestors[t[1]]
    BY <1>1, <2>1, UpDown
  <2>3. t \in Through(b) => t[1] \in Good(b) \/ (t[1] = s[1] /\ t[2] < s[2])
    BY DEF Through
  <2>4. QED
    BY <1>1, <1>2, <1>5, <1>6, <2>1, <2>2, <2>3
<1>10. QED
  BY <1>7, <1>8, <1>9

\* The rows of the stages gone through are left alone.
Left(b) == \A s \in Through(b) : state'[s] = state[s]

\* A dataset breaks.
LEMMA BreaksProgress ==
  ASSUME TypeOK, NEW b \in Build, Progress(b), builds[b].step \notin {"idle", "dataset", "adopt"},
         Breaks(b), Left(b)
  PROVE  Progress(b)' /\ builds' \in [Build -> Command] /\ \A c \in Build \ {b} : builds'[c] = builds[c]
<1> DEFINE s == builds[b].at
<1>1. Moved(b, "dataset", Nothing, builds[b].done \cup {s[1]}, builds[b].broken \cup {s[1]})
  BY BreaksMoves
<1>2. s[1] \notin builds[b].done
  BY AtParts
<1>3. Good(b)' = Good(b) /\ ~ Located(b)'
  BY <1>1, <1>2 DEF Moved, Good, Located
<1>4. Through(b)' \subseteq Through(b)
  BY <1>3 DEF Through
<1>5. PlanTold(b)'
  BY <1>1 DEF Moved, Progress, PlanTold
<1>6. Ordered(b)'
  BY <1>3 DEF Progress, Ordered
<1>7. Recorded(b)'
  BY <1>1, <1>4 DEF Moved, Progress, Recorded, Left, Ok
<1>8. Cleared(b)' /\ Marked(b)' /\ Fresh(b)'
  BY <1>1 DEF Moved, Cleared, Marked, Fresh
<1>9. QED
  BY <1>1, <1>5, <1>6, <1>7, <1>8 DEF Progress, Moved

\* The stage at hand has its row, and the build goes on to the next.
LEMMA NextProgress ==
  ASSUME TypeOK, NEW b \in Build, Progress(b), builds[b].step \notin {"idle", "dataset", "adopt"},
         NextStage(b), Left(b),
         state'[builds[b].at] # Nothing, state'[builds[b].at].status = "ok",
         state'[builds[b].at].hash = builds[b].plan[builds[b].at]
  PROVE  Progress(b)' /\ builds' \in [Build -> Command] /\ \A c \in Build \ {b} : builds'[c] = builds[c]
<1> DEFINE s == builds[b].at
<1>1. /\ s # Nothing /\ s \in Stage /\ s[1] \in builds[b].selected \ builds[b].done /\ s[1] \in Dataset
      /\ s[2] \in Nat /\ s = <<s[1], s[2]>>
  BY AtParts, StageShape
<1>2. builds[b].broken \subseteq builds[b].done
  BY CommandParts
<1>3. /\ Located(b) /\ DependsOn[s[1]] \subseteq Good(b) /\ \A d \in Good(b) : DependsOn[d] \subseteq Good(b)
  BY <1>1 DEF Located, Progress, Ordered
<1>a. state'[s] # Nothing /\ state'[s].status = "ok" /\ state'[s].hash = builds[b].plan[s]
  OBVIOUS
<1>b. \A t \in Through(b) : state'[t] # Nothing /\ state'[t].status = "ok" /\ state'[t].hash = builds[b].plan[t]
  BY DEF Left, Progress, Recorded, Ok
<1> DEFINE n == <<s[1], s[2] + 1>>
<1>4. CASE n \in Stage /\ Moved(b, "stage", n, builds[b].done, builds[b].broken)
  <2>1. n[1] = s[1] /\ n[2] = s[2] + 1
    OBVIOUS
  <2> HIDE DEF n
  <2>2. Good(b)' = Good(b) /\ builds'[b].at = n /\ builds'[b].step = "stage" /\ builds'[b].plan = builds[b].plan
    BY <1>4 DEF Moved, Good
  <2>3. ASSUME NEW t \in Through(b)' PROVE t = s \/ t \in Through(b)
    <3>1. t \in Stage /\ t[2] \in Nat /\ t = <<t[1], t[2]>>
      BY StageShape DEF Through
    <3>2. t[1] \in Good(b) \/ (t[1] = s[1] /\ t[2] < s[2] + 1)
      BY <2>1, <2>2 DEF Through
    <3>3. QED
      BY <1>1, <1>3, <3>1, <3>2 DEF Through
  <2>4. PlanTold(b)'
    BY <1>4 DEF Moved, Progress, PlanTold
  <2>5. Ordered(b)'
    BY <1>3, <2>1, <2>2 DEF Ordered
  <2>6. Recorded(b)'
    BY <1>a, <1>b, <2>2, <2>3 DEF Recorded, Ok
  <2>7. Cleared(b)' /\ Marked(b)' /\ Fresh(b)'
    BY <2>2 DEF Cleared, Marked, Fresh
  <2>8. QED
    BY <1>4, <2>4, <2>5, <2>6, <2>7 DEF Progress, Moved
<1>5. CASE s[2] = StageCount[s[1]] /\ Moved(b, "dataset", Nothing, builds[b].done \cup {s[1]}, builds[b].broken)
  <2>2. /\ Good(b)' = Good(b) \cup {s[1]} /\ ~ Located(b)'
        /\ builds'[b].step = "dataset" /\ builds'[b].plan = builds[b].plan
    BY <1>1, <1>2, <1>5 DEF Moved, Good, Located
  <2>3. ASSUME NEW t \in Through(b)' PROVE t = s \/ t \in Through(b)
    <3>1. t \in Stage /\ t[2] \in Nat /\ t = <<t[1], t[2]>> /\ t[2] \in 1 .. StageCount[t[1]]
      BY StageShape DEF Through
    <3>2. t[1] \in Good(b) \/ t[1] = s[1]
      BY <2>2 DEF Through
    <3>3. t[1] = s[1] => t[2] <= s[2]
      BY <1>1, <1>5, <3>1
    <3>4. QED
      BY <1>1, <1>3, <3>1, <3>2, <3>3 DEF Through
  <2>4. PlanTold(b)'
    BY <1>5 DEF Moved, Progress, PlanTold
  <2>5. Ordered(b)'
    BY <1>3, <2>2 DEF Ordered
  <2>6. Recorded(b)'
    BY <1>a, <1>b, <2>2, <2>3 DEF Recorded, Ok
  <2>7. Cleared(b)' /\ Marked(b)' /\ Fresh(b)'
    BY <2>2 DEF Cleared, Marked, Fresh
  <2>8. QED
    BY <1>5, <2>4, <2>5, <2>6, <2>7 DEF Progress, Moved
<1>6. QED
  BY <1>4, <1>5, NextMoves

\* The build stays at its stage.
LEMMA GotoProgress ==
  ASSUME TypeOK, NEW b \in Build, Progress(b), builds[b].step \notin {"idle", "dataset", "adopt"},
         NEW step \in {"mark", "execute", "append", "record"}, Goto(b, step), Left(b)
  PROVE  /\ PlanTold(b)' /\ Ordered(b)' /\ Recorded(b)'
         /\ builds'[b].step = step /\ builds'[b].at = builds[b].at /\ builds'[b].plan = builds[b].plan
         /\ builds' \in [Build -> Command] /\ \A c \in Build \ {b} : builds'[c] = builds[c]
<1>1. Moved(b, step, builds[b].at, builds[b].done, builds[b].broken)
  BY GotoMoves
<1>2. Good(b)' = Good(b) /\ Located(b)' = Located(b) /\ Through(b)' = Through(b)
  BY <1>1 DEF Moved, Good, Located, Through
<1>3. PlanTold(b)'
  BY <1>1 DEF Moved, Progress, PlanTold
<1>4. Ordered(b)'
  BY <1>1, <1>2 DEF Moved, Progress, Ordered
<1>5. Recorded(b)'
  BY <1>1, <1>2 DEF Moved, Progress, Recorded, Left, Ok
<1>6. QED
  BY <1>1, <1>3, <1>4, <1>5 DEF Moved

------------------------------------------------------------------------------
(* The steps, one by one. *)

LEMMA OneAtWork ==
  ASSUME IInv, NEW b \in Build, builds[b].step # "idle"
  PROVE  /\ \A c \in Build \ {b} : builds[c].step = "idle"
         /\ b \in lock \/ unlocked
  BY DEF IInv, Alone

\* One process has gone on; the others are idle.
LEMMA WorkGoesOn ==
  ASSUME IInv, NEW b \in Build, builds[b].step # "idle", UNCHANGED locking,
         \A c \in Build \ {b} : builds'[c] = builds[c], InBuild(b)' => Progress(b)'
  PROVE  Alone' /\ (\A c \in Build : InBuild(c) => Progress(c))'
<1>1. \A c \in Build \ {b} : builds'[c].step = "idle"
  BY OneAtWork
<1>2. Alone'
  <2>1. \A c, d \in Build : c # d => builds'[c].step = "idle" \/ builds'[d].step = "idle"
    BY <1>1
  <2>2. \A c \in Build : builds'[c].step # "idle" => c \in lock' \/ unlocked'
    BY <1>1, OneAtWork DEF locking
  <2>3. QED
    BY <2>1, <2>2 DEF Alone
<1>3. \A c \in Build \ {b} : ~ InBuild(c)'
  BY <1>1 DEF InBuild
<1>4. QED
  BY <1>2, <1>3

\* A command is over; all processes are idle.
LEMMA WorkEnds ==
  ASSUME IInv, NEW b \in Build, builds[b].step # "idle", Ends(b)
  PROVE  Alone' /\ (\A c \in Build : InBuild(c) => Progress(c))'
<1>1. \A c \in Build \ {b} : builds[c].step = "idle"
  BY OneAtWork
<1>2. TypeOK
  BY DEF IInv
<1>3. \A c \in Build : builds'[c].step = "idle"
  BY <1>1, <1>2, EndsMoves
<1>4. Alone'
  BY <1>3 DEF Alone
<1>5. \A c \in Build : ~ InBuild(c)'
  BY <1>3 DEF InBuild
<1>6. QED
  BY <1>4, <1>5

LEMMA RowsStay ==
  ASSUME IInv, UNCHANGED <<state, adopted, output, behind, owed, raced>>
  PROVE  Chain' /\ Own'
<1>1. Chain /\ Own
  BY DEF IInv
<1>2. Chain'
  BY <1>1 DEF Chain, Ok
<1>3. Own'
  BY <1>1 DEF Own, Ok
<1>4. QED
  BY <1>2, <1>3

LEMMA InitInv == Init => IInv
<1> SUFFICES ASSUME Init PROVE IInv
  OBVIOUS
<1>1. \A b \in Build : builds[b] = Idle
  BY DEF Init
<1>2. TypeOK
  <2>1. builds \in [Build -> Command]
    BY IdleType DEF Init
  <2>2. /\ state \in [Stage -> Row \cup {Nothing}] /\ content \in [Stage -> 0 .. MaxContent]
        /\ output \in [Stage -> 0 .. MaxContent \cup {Partial, Nothing}]
    BY Numbers DEF Init
  <2>3. absent = {} /\ edits = 0 /\ behind = {} /\ owed = {} /\ raced = {} /\ adopted = {} /\ lock = {} /\ unlocked = FALSE /\ begun = 0
    BY DEF Init
  <2>4. begun \in 0 .. MaxCommands /\ edits \in 0 .. MaxEdits
    BY <2>3, Numbers
  <2>5. QED
    BY <2>1, <2>2, <2>3, <2>4 DEF TypeOK
<1>3. Alone /\ \A b \in Build : ~ InBuild(b)
  BY <1>1, IdleType DEF Alone, InBuild
<1>4. Chain /\ Own
  BY DEF Init, Chain, Own, Ok
<1>5. QED
  BY <1>2, <1>3, <1>4 DEF IInv

\* No row and no plan looks at the files again.
LEMMA EditInputInv == ASSUME IInv, NEW s \in Stage, EditInput(s) PROVE IInv'
<1>1. TypeOK
  BY DEF IInv
<1>2. /\ edits < MaxEdits /\ edits' = edits + 1
      /\ content' \in [Stage -> 0 .. MaxContent]
      /\ UNCHANGED <<absent, state, output, behind, owed, raced, adopted, builds, lock, unlocked, begun>>
  BY <1>1 DEF EditInput, made, locking, TypeOK
<1>3. TypeOK'
  <2>1. edits' \in 0 .. MaxEdits
    BY <1>1, <1>2, Numbers DEF TypeOK
  <2>2. QED
    BY <1>1, <1>2, <2>1 DEF TypeOK
<1>4. Alone' /\ Chain' /\ Own'
  BY <1>2, RowsStay DEF IInv, Alone
<1>5. ASSUME NEW b \in Build, InBuild(b)' PROVE Progress(b)'
  <2>1. Progress(b)
    BY <1>2, <1>5 DEF IInv, InBuild
  <2>2. QED
    BY <1>2, <2>1 DEF Progress, PlanTold, Ordered, Recorded, Cleared, Marked, Fresh, Located, Good, Through, Ok
<1>6. QED
  BY <1>3, <1>4, <1>5 DEF IInv

LEMMA FilesInv == ASSUME IInv, NEW s \in Stage, LoseFile(s) \/ RestoreFile(s) PROVE IInv'
<1>1. TypeOK
  BY DEF IInv
<1>2. /\ UNCHANGED <<content, edits, state, output, behind, owed, raced, adopted, builds, lock, unlocked, begun>>
      /\ absent' \subseteq Loads
  BY <1>1 DEF LoseFile, RestoreFile, made, locking, TypeOK
<1>3. TypeOK'
  BY <1>1, <1>2 DEF TypeOK
<1>4. Alone' /\ Chain' /\ Own'
  BY <1>2, RowsStay DEF IInv, Alone
<1>5. ASSUME NEW b \in Build, InBuild(b)' PROVE Progress(b)'
  <2>1. Progress(b)
    BY <1>2, <1>5 DEF IInv, InBuild
  <2>2. QED
    BY <1>2, <2>1 DEF Progress, PlanTold, Ordered, Recorded, Cleared, Marked, Fresh, Located, Good, Through, Ok
<1>6. QED
  BY <1>3, <1>4, <1>5 DEF IInv

LEMMA LoseLockInv == ASSUME IInv, NEW b \in Build, LoseLock(b) PROVE IInv'
<1>1. TypeOK
  BY DEF IInv
<1>2. /\ UNCHANGED <<content, absent, edits, state, output, behind, owed, raced, adopted, builds, begun>>
      /\ lock' = lock \ {b} /\ unlocked' = TRUE
  BY DEF LoseLock, made, files
<1>3. TypeOK'
  BY <1>1, <1>2 DEF TypeOK
<1>4. Alone' /\ Chain' /\ Own'
  BY <1>2, RowsStay DEF IInv, Alone
<1>5. ASSUME NEW c \in Build, InBuild(c)' PROVE Progress(c)'
  <2>1. Progress(c)
    BY <1>2, <1>5 DEF IInv, InBuild
  <2>2. QED
    BY <1>2, <2>1 DEF Progress, PlanTold, Ordered, Recorded, Cleared, Marked, Fresh, Located, Good, Through, Ok
<1>6. QED
  BY <1>3, <1>4, <1>5 DEF IInv

\* A build begins: nothing else runs, and its plan is of now.
LEMMA BeginBuildInv ==
  ASSUME IInv, NEW b \in Build, NEW only \in SUBSET Dataset, NEW except \in SUBSET Dataset,
         NEW force \in SUBSET Dataset, BeginBuild(b, only, except, force)
  PROVE  IInv'
<1> DEFINE D == SelectDatasets(only, except)
           plan == [s \in StagesOf(D) |-> InputHash(s)]
<1>1. TypeOK
  BY DEF IInv
<1>2. D \in SUBSET Dataset /\ force \in SUBSET D
  BY DEF SelectDatasets, WithoutDependents, BeginBuild
<1>3. /\ lock = {} /\ ~ unlocked /\ lock' = {b} /\ unlocked' = unlocked /\ begun' = begun + 1 /\ begun < MaxCommands
      /\ UNCHANGED <<content, absent, edits, state, output, behind, owed, raced, adopted>>
  BY DEF BeginBuild, TakeLock, MayBegin, files, made
<1>4. builds' = [builds EXCEPT ![b] = [Idle EXCEPT !.step = "dataset", !.selected = D, !.force = force, !.plan = plan]]
  BY DEF BeginBuild
<1> HIDE DEF D
<1>5. /\ builds' \in [Build -> Command]
      /\ \A c \in Build \ {b} : builds'[c] = builds[c]
      /\ builds'[b].step = "dataset" /\ builds'[b].at = Nothing /\ builds'[b].done = {} /\ builds'[b].broken = {}
      /\ builds'[b].selected = D /\ builds'[b].plan = plan
  BY <1>1, <1>2, <1>4, BeginType
<1>6. TypeOK'
  <2>1. begun' \in 0 .. MaxCommands
    BY <1>1, <1>3, Numbers DEF TypeOK
  <2>2. QED
    BY <1>1, <1>3, <1>5, <2>1 DEF TypeOK
<1>7. \A c \in Build \ {b} : builds'[c].step = "idle"
  BY <1>3, <1>5 DEF IInv, Alone
<1>8. Alone'
  BY <1>3, <1>7 DEF Alone
<1>9. Progress(b)'
  <2>1. PlanTold(b)'
    <3>1. ASSUME NEW s \in StagesOf(D)
          PROVE  /\ DOMAIN plan[s] = Upstream[s]
                 /\ s \notin Loads => plan[s][s] \in 0 .. MaxContent
                 /\ \A t \in Upstream[s] : t \in StagesOf(D) => plan[s][t] = plan[t][t]
      <4>1. plan[s] = InputHash(s) /\ s \in Stage /\ Upstream[s] \subseteq Stage
        BY UpstreamStages DEF StagesOf
      <4>2. DOMAIN plan[s] = Upstream[s]
        BY <4>1 DEF InputHash
      <4>3. ASSUME s \notin Loads PROVE plan[s][s] \in 0 .. MaxContent
        <5>1. s \in Upstream[s] /\ s \notin absent
          BY <1>1, <4>1, <4>3, UpDown DEF TypeOK
        <5>2. plan[s][s] = content[s]
          BY <4>1, <5>1 DEF InputHash
        <5>3. QED
          BY <1>1, <4>1, <5>2 DEF TypeOK
      <4>4. ASSUME NEW t \in Upstream[s], t \in StagesOf(D) PROVE plan[s][t] = plan[t][t]
        <5>1. plan[t] = InputHash(t) /\ t \in Upstream[t]
          BY <4>1, <4>4, UpDown
        <5>2. QED
          BY <4>1, <5>1 DEF InputHash
      <4>5. QED
        BY <4>2, <4>3, <4>4
    <3> HIDE DEF plan
    <3>2. QED
      BY <1>3, <1>5, <3>1 DEF PlanTold
  <2>2. Good(b)' = {} /\ ~ Located(b)'
    BY <1>5 DEF Good, Located
  <2>3. Ordered(b)' /\ Recorded(b)'
    BY <2>2 DEF Ordered, Recorded, Through
  <2>4. Cleared(b)' /\ Marked(b)' /\ Fresh(b)'
    BY <1>5 DEF Cleared, Marked, Fresh
  <2>5. QED
    BY <2>1, <2>3, <2>4 DEF Progress
<1>10. \A c \in Build : InBuild(c)' => Progress(c)'
  BY <1>7, <1>9 DEF InBuild
<1>11. Chain' /\ Own'
  BY <1>3, RowsStay
<1>12. QED
  BY <1>6, <1>8, <1>10, <1>11 DEF IInv

LEMMA BeginAdoptInv == ASSUME IInv, NEW b \in Build, BeginAdopt(b) PROVE IInv'
<1> DEFINE plan == [s \in Stage |-> InputHash(s)]
<1>1. TypeOK
  BY DEF IInv
<1>2. StagesOf(Dataset) = Stage /\ {} \in SUBSET Dataset /\ Dataset \in SUBSET Dataset
  BY StageShape DEF StagesOf
<1>3. /\ lock = {} /\ ~ unlocked /\ lock' = {b} /\ unlocked' = unlocked /\ begun' = begun + 1 /\ begun < MaxCommands
      /\ UNCHANGED <<content, absent, edits, state, output, behind, owed, raced, adopted>>
  BY DEF BeginAdopt, TakeLock, MayBegin, files, made
<1>4. builds' = [builds EXCEPT ![b] = [Idle EXCEPT !.step = "adopt", !.selected = Dataset, !.force = {}, !.plan = plan]]
  <2>1. Idle \in Fields /\ Idle.force = {}
    BY IdleType DEF Command, Idle
  <2>2. [Idle EXCEPT !.step = "adopt", !.selected = Dataset, !.force = {}, !.plan = plan]
          = [Idle EXCEPT !.step = "adopt", !.selected = Dataset, !.plan = plan]
    <3> HIDE DEF plan
    <3>1. QED
      BY <2>1 DEF Fields
  <2>3. QED
    BY <2>2 DEF BeginAdopt
<1>5. /\ builds' \in [Build -> Command]
      /\ \A c \in Build \ {b} : builds'[c] = builds[c]
      /\ builds'[b].step = "adopt"
  <2>1. plan = [s \in StagesOf(Dataset) |-> InputHash(s)]
    BY <1>2
  <2>2. QED
    BY <1>1, <1>2, <1>4, <2>1, BeginType
<1>6. TypeOK'
  <2>1. begun' \in 0 .. MaxCommands
    BY <1>1, <1>3, Numbers DEF TypeOK
  <2>2. QED
    BY <1>1, <1>3, <1>5, <2>1 DEF TypeOK
<1>7. \A c \in Build \ {b} : builds'[c].step = "idle"
  BY <1>3, <1>5 DEF IInv, Alone
<1>8. Alone'
  BY <1>3, <1>7 DEF Alone
<1>9. \A c \in Build : ~ InBuild(c)'
  BY <1>5, <1>7 DEF InBuild
<1>10. Chain' /\ Own'
  BY <1>3, RowsStay
<1>11. QED
  BY <1>6, <1>8, <1>9, <1>10 DEF IInv

\* A kill may spoil the output of the stage that runs: its row says failed.
LEMMA KillInv == ASSUME IInv, NEW b \in Build, Kill(b) PROVE IInv'
<1>1. TypeOK /\ Chain /\ Own
  BY DEF IInv
<1>2. /\ builds[b].step # "idle" /\ Ends(b)
      /\ UNCHANGED <<content, absent, edits, state, behind, owed, raced, adopted>>
      /\ output' = output \/ (builds[b].step = "execute" /\ output' = [output EXCEPT ![builds[b].at] = Partial])
  BY DEF Kill, files
<1>3. builds[b].step = "execute" => builds[b].at \in Stage /\ ~ Ok(builds[b].at)
  <2>1. builds[b].step = "execute" => Marked(b)
    BY DEF IInv, InBuild, Progress
  <2>2. QED
    BY <1>1, <2>1, AtParts DEF Marked
<1>4. output' \in [Stage -> 0 .. MaxContent \cup {Partial, Nothing}]
  BY <1>1, <1>2 DEF TypeOK
<1>5. TypeOK'
  BY <1>1, <1>2, <1>4, EndsMoves DEF TypeOK
<1>6. Chain'
  BY <1>1, <1>2 DEF Chain, Ok
<1>7. ASSUME NEW s \in Stage, Ok(s) PROVE output'[s] = output[s]
  BY <1>1, <1>2, <1>3, <1>7 DEF TypeOK
<1>8. Own'
  BY <1>1, <1>2, <1>7 DEF Own, Ok
<1>9. QED
  BY <1>2, <1>5, <1>6, <1>8, WorkEnds DEF IInv

LEMMA OverInv == ASSUME IInv, NEW b \in Build, EndBuild(b) \/ EndAdopt(b) PROVE IInv'
<1>1. TypeOK
  BY DEF IInv
<1>2. /\ builds[b].step # "idle" /\ Ends(b)
      /\ UNCHANGED <<content, absent, edits, state, output, behind, owed, raced, adopted>>
  BY DEF EndBuild, EndAdopt, files, made
<1>3. TypeOK'
  BY <1>1, <1>2, EndsMoves DEF TypeOK
<1>4. QED
  BY <1>2, <1>3, WorkEnds, RowsStay DEF IInv

\* Adoption writes rows where there were none, and marks them.
LEMMA AdoptInv ==
  ASSUME IInv, NEW b \in Build, NEW d \in Dataset, NEW last \in 1 .. StageCount[d], AdoptDataset(b, d, last)
  PROVE  IInv'
<1> DEFINE rows == {s \in StagesOf({d}) : s[2] <= last}
<1>1. TypeOK /\ Chain /\ Own
  BY DEF IInv
<1>2. /\ builds[b].step = "adopt"
      /\ \A s \in rows : state[s] = Nothing
      /\ state' = [s \in Stage |-> IF s \in rows THEN [status |-> "ok", hash |-> builds[b].plan[s]] ELSE state[s]]
      /\ adopted' = adopted \cup rows
      /\ Ends(b) \/ UNCHANGED <<builds, locking>>
      /\ UNCHANGED <<content, absent, edits, output, behind, owed, raced>>
  BY DEF AdoptDataset, files, made
<1>3. rows \subseteq Stage
  BY DEF StagesOf
<1> HIDE DEF rows
<1>4. state' \in [Stage -> Row \cup {Nothing}]
  <2>1. \A s \in Stage : builds[b].plan[s] \in Hash
    <3>1. builds[b].selected = Dataset
      BY <1>1, <1>2 DEF TypeOK, Command
    <3>2. QED
      BY <1>1, <3>1, CommandParts, StageShape DEF StagesOf
  <2>2. \A s \in Stage : [status |-> "ok", hash |-> builds[b].plan[s]] \in Row
    BY <2>1 DEF Row
  <2>3. QED
    BY <1>1, <1>2, <2>2 DEF TypeOK
<1>5. TypeOK'
  <2>1. CASE Ends(b)
    BY <1>1, <1>2, <1>3, <1>4, <2>1, EndsMoves DEF TypeOK
  <2>2. CASE UNCHANGED <<builds, locking>>
    BY <1>1, <1>2, <1>3, <1>4, <2>2 DEF TypeOK, locking
  <2>3. QED
    BY <1>2, <2>1, <2>2
<1>6. ASSUME NEW s \in Stage, s \notin adopted', Ok(s)' PROVE Ok(s) /\ s \notin adopted /\ state'[s] = state[s]
  BY <1>2, <1>6 DEF Ok
<1>7. ASSUME NEW s \in Stage, Ok(s) PROVE Ok(s)' /\ state'[s] = state[s]
  BY <1>2, <1>7 DEF Ok
<1>8. Chain'
  <2>1. ASSUME NEW s \in Stage, s \notin adopted', Ok(s)', NEW t \in Upstream[s]
        PROVE  Ok(t)' /\ state'[t].hash[t] = state'[s].hash[t]
    <3>1. Ok(t) /\ state[t].hash[t] = state[s].hash[t] /\ t \in Stage
      BY <1>1, <1>6, <2>1, UpstreamStages DEF Chain
    <3>2. QED
      BY <1>6, <1>7, <2>1, <3>1
  <2>2. QED
    BY <2>1 DEF Chain
<1>9. Own'
  BY <1>1, <1>2, <1>6 DEF Own
<1>10. Alone' /\ \A c \in Build : InBuild(c)' => Progress(c)'
  <2>1. CASE Ends(b)
    BY <1>2, <2>1, WorkEnds
  <2>2. CASE UNCHANGED <<builds, locking>>
    <3>1. ~ InBuild(b)'
      BY <1>2, <2>2 DEF InBuild
    <3>2. QED
      BY <1>2, <2>2, <3>1, WorkGoesOn
  <2>3. QED
    BY <1>2, <2>1, <2>2
<1>11. QED
  BY <1>5, <1>8, <1>9, <1>10 DEF IInv

\* A dataset is taken up once all it depends on is built, or blocked.
LEMMA NextDatasetInv == ASSUME IInv, NEW b \in Build, NextDataset(b) PROVE IInv'
<1>1. TypeOK
  BY DEF IInv
<1>2. /\ builds[b].step = "dataset"
      /\ UNCHANGED <<content, absent, edits, state, output, behind, owed, raced, adopted, lock, unlocked, begun>>
      /\ UNCHANGED locking
  BY DEF NextDataset, files, made, locking
<1>3. Progress(b) /\ builds[b].at = Nothing
  BY <1>1, <1>2, CommandParts DEF IInv, InBuild
<1>4. PICK d \in builds[b].selected \ builds[b].done :
         /\ DependsOn[d] \subseteq builds[b].done
         /\ \/ Leave(b, d, TRUE)
            \/ /\ DependsOn[d] \cap builds[b].broken = {}
               /\ builds' = [builds EXCEPT ![b].step = "stage", ![b].at = <<d, 1>>]
  BY DEF NextDataset
<1>5. Progress(b)' /\ builds' \in [Build -> Command] /\ \A c \in Build \ {b} : builds'[c] = builds[c]
  <2>1. CASE Leave(b, d, TRUE)
    <3>1. Moved(b, "dataset", Nothing, builds[b].done \cup {d}, builds[b].broken \cup {d})
      BY <1>1, <1>4, <2>1, LeaveMoves
    <3>2. Good(b)' = Good(b) /\ ~ Located(b)' /\ Through(b)' = Through(b)
      BY <1>3, <1>4, <3>1 DEF Moved, Good, Located, Through
    <3>3. QED
      BY <1>2, <1>3, <3>1, <3>2
      DEF Moved, Progress, PlanTold, Ordered, Recorded, Cleared, Marked, Fresh, Ok
  <2>2. CASE /\ DependsOn[d] \cap builds[b].broken = {}
             /\ builds' = [builds EXCEPT ![b].step = "stage", ![b].at = <<d, 1>>]
    <3> DEFINE s == <<d, 1>>
    <3>1. d \in Dataset /\ StageCount[d] \in Nat \ {0}
      BY <1>1, <1>4, CommandParts, GraphAssumption
    <3>2. s \in Stage /\ s[1] = d /\ s[2] = 1
      BY <3>1, StageMade
    <3>3. builds' = [builds EXCEPT ![b].step = "stage", ![b].at = s]
      BY <2>2
    <3> HIDE DEF s
    <3>4. Moved(b, "stage", s, builds[b].done, builds[b].broken)
      BY <1>1, <1>4, <3>2, <3>3, StageMoves
    <3>5. Good(b)' = Good(b) /\ builds'[b].at = s /\ DependsOn[d] \subseteq Good(b)
      BY <1>4, <2>2, <3>4 DEF Moved, Good
    <3>6. Through(b)' \subseteq Through(b)
      <4>1. \A t \in Stage : t[2] >= 1
        BY StageShape
      <4>2. QED
        BY <3>2, <3>5, <4>1, StageShape DEF Through
    <3>7. Ordered(b)'
      BY <1>3, <3>2, <3>5 DEF Progress, Ordered
    <3>8. PlanTold(b)'
      BY <1>2, <1>3, <3>4 DEF Moved, Progress, PlanTold
    <3>9. Recorded(b)'
      BY <1>2, <1>3, <3>4, <3>6 DEF Moved, Progress, Recorded, Ok
    <3>10. Cleared(b)' /\ Marked(b)' /\ Fresh(b)'
      BY <3>4 DEF Moved, Cleared, Marked, Fresh
    <3>11. QED
      BY <3>4, <3>7, <3>8, <3>9, <3>10 DEF Progress, Moved
  <2>3. QED
    BY <1>4, <2>1, <2>2
<1>6. TypeOK'
  BY <1>1, <1>2, <1>5 DEF TypeOK
<1>7. QED
  BY <1>2, <1>5, <1>6, WorkGoesOn, RowsStay DEF IInv

LEMMA SkipInv == ASSUME IInv, NEW b \in Build, Skip(b) PROVE IInv'
<1>1. TypeOK
  BY DEF IInv
<1>2. /\ builds[b].step = "stage" /\ UpToDate(b, builds[b].at) /\ NextStage(b)
      /\ UNCHANGED <<content, absent, edits, state, output, behind, owed, raced, adopted, lock, unlocked, begun>>
      /\ UNCHANGED locking
  BY DEF Skip, files, made, locking
<1>3. Progress(b)
  BY <1>2 DEF IInv, InBuild
<1>4. Progress(b)' /\ builds' \in [Build -> Command] /\ \A c \in Build \ {b} : builds'[c] = builds[c]
  BY <1>1, <1>2, <1>3, NextProgress DEF UpToDate, Left
<1>5. TypeOK'
  BY <1>1, <1>2, <1>4 DEF TypeOK
<1>6. QED
  BY <1>2, <1>4, <1>5, WorkGoesOn, RowsStay DEF IInv

LEMMA RefusedInv == ASSUME IInv, NEW b \in Build, MissingInput(b) \/ StatementFails(b) PROVE IInv'
<1>1. TypeOK
  BY DEF IInv
<1>2. /\ builds[b].step \notin {"idle", "dataset", "adopt"} /\ Breaks(b)
      /\ UNCHANGED <<content, absent, edits, state, output, behind, owed, raced, adopted, lock, unlocked, begun>>
      /\ UNCHANGED locking
  BY DEF MissingInput, StatementFails, files, made, locking
<1>3. Progress(b)
  BY <1>2 DEF IInv, InBuild
<1>4. Progress(b)' /\ builds' \in [Build -> Command] /\ \A c \in Build \ {b} : builds'[c] = builds[c]
  BY <1>1, <1>2, <1>3, BreaksProgress DEF Left
<1>5. TypeOK'
  BY <1>1, <1>2, <1>4 DEF TypeOK
<1>6. QED
  BY <1>2, <1>4, <1>5, WorkGoesOn, RowsStay DEF IInv

\* The rows of all that rests on the stage go at once: no row is left that rests on one that went.
LEMMA InvalidateInv == ASSUME IInv, NEW b \in Build, Invalidate(b) PROVE IInv'
<1> DEFINE s == builds[b].at
<1>1. TypeOK /\ Chain /\ Own
  BY DEF IInv
<1>2. /\ builds[b].step = "stage" /\ Goto(b, "mark")
      /\ state' = [t \in Stage |-> IF t \in Downstream[s] THEN Nothing ELSE state[t]]
      /\ adopted' = adopted \ Downstream[s]
      /\ UNCHANGED <<content, absent, edits, output, behind, owed, raced, lock, unlocked, begun>>
      /\ UNCHANGED locking
  BY DEF Invalidate, Forgotten, files, made, locking
<1>3. Progress(b) /\ s \in Stage
  BY <1>1, <1>2, AtParts DEF IInv, InBuild
<1>4. \A t \in Stage : t \notin Downstream[s] => state'[t] = state[t]
  BY <1>2
<1>5. Left(b)
  BY <1>1, <1>2, <1>3, <1>4, ThroughUpstream DEF Progress, Left, Through
<1>6. /\ PlanTold(b)' /\ Ordered(b)' /\ Recorded(b)'
      /\ builds'[b].step = "mark" /\ builds'[b].at = s
      /\ builds' \in [Build -> Command] /\ \A c \in Build \ {b} : builds'[c] = builds[c]
  BY <1>1, <1>2, <1>3, <1>5, GotoProgress
<1>7. Cleared(b)' /\ Marked(b)' /\ Fresh(b)'
  <2>1. \A t \in Downstream[s] : state'[t] = Nothing
    BY <1>2, <1>3, UpstreamStages
  <2>2. QED
    BY <1>6, <2>1 DEF Cleared, Marked, Fresh
<1>8. TypeOK'
  <2>1. state' \in [Stage -> Row \cup {Nothing}] /\ adopted' \subseteq Stage
    BY <1>1, <1>2 DEF TypeOK
  <2>2. QED
    BY <1>1, <1>2, <1>6, <2>1 DEF TypeOK
<1>9. ASSUME NEW t \in Stage, Ok(t)', t \notin adopted'
      PROVE  Ok(t) /\ t \notin adopted /\ t \notin Downstream[s] /\ state'[t] = state[t]
  BY <1>2, <1>9 DEF Ok
<1>10. Chain'
  <2>1. ASSUME NEW t \in Stage, Ok(t)', t \notin adopted', NEW u \in Upstream[t]
        PROVE  Ok(u)' /\ state'[u].hash[u] = state'[t].hash[u]
    <3>1. Ok(t) /\ t \notin adopted /\ t \notin Downstream[s] /\ state'[t] = state[t]
      BY <1>9, <2>1
    <3>2. u \in Stage /\ Ok(u) /\ state[u].hash[u] = state[t].hash[u]
      BY <1>1, <3>1, UpstreamStages DEF Chain
    <3>3. u \notin Downstream[s]
      BY <1>3, <3>1, DownstreamClosed
    <3>4. state'[u] = state[u]
      BY <1>4, <3>2, <3>3
    <3>5. QED
      BY <3>1, <3>2, <3>4 DEF Ok
  <2>2. QED
    BY <2>1 DEF Chain
<1>11. Own'
  BY <1>1, <1>2, <1>9 DEF Own
<1>12. QED
  BY <1>2, <1>6, <1>7, <1>8, <1>10, <1>11, WorkGoesOn DEF IInv, Progress

\* A row is written of a stage that nothing with a row rests on: the other rows keep what they rest on.
LEMMA WriteKeeps ==
  ASSUME TypeOK, Chain, NEW s \in Stage, NEW status \in {"ok", "failed"}, NEW hash \in Hash, Write(s, status, hash),
         \A t \in Downstream[s] : state[t] = Nothing
  PROVE  \A t \in Stage \ {s} : Ok(t)' /\ t \notin adopted' =>
            /\ Ok(t) /\ t \notin adopted /\ state'[t] = state[t] /\ t \notin Downstream[s]
            /\ \A u \in Upstream[t] : Ok(u)' /\ state'[u].hash[u] = state'[t].hash[u]
<1> SUFFICES ASSUME NEW t \in Stage \ {s}, Ok(t)', t \notin adopted'
             PROVE  /\ Ok(t) /\ t \notin adopted /\ state'[t] = state[t] /\ t \notin Downstream[s]
                    /\ \A u \in Upstream[t] : Ok(u)' /\ state'[u].hash[u] = state'[t].hash[u]
  OBVIOUS
<1>1. /\ \A u \in Stage \ {s} : state'[u] = state[u]
      /\ adopted' = adopted \ {s}
  BY Written
<1>2. Ok(t) /\ t \notin adopted /\ state'[t] = state[t] /\ t \notin Downstream[s]
  BY <1>1 DEF Ok
<1>3. ASSUME NEW u \in Upstream[t] PROVE Ok(u)' /\ state'[u].hash[u] = state'[t].hash[u]
  <2>1. u \in Stage /\ Ok(u) /\ state[u].hash[u] = state[t].hash[u]
    BY <1>2, UpstreamStages DEF Chain
  <2>2. u # s
    BY <1>2, UpDown
  <2>3. QED
    BY <1>1, <1>2, <2>1, <2>2 DEF Ok
<1>4. QED
  BY <1>2, <1>3

LEMMA MarkFailedInv == ASSUME IInv, NEW b \in Build, MarkFailed(b) PROVE IInv'
<1> DEFINE s == builds[b].at
<1>1. TypeOK /\ Chain /\ Own
  BY DEF IInv
<1>2. /\ builds[b].step = "mark" /\ Goto(b, "execute") /\ Write(s, "failed", builds[b].plan[s])
      /\ UNCHANGED <<content, absent, edits, output, behind, owed, raced, lock, unlocked, begun>>
      /\ UNCHANGED locking
  BY DEF MarkFailed, files, made, locking
<1>3. Progress(b) /\ s \in Stage /\ builds[b].plan[s] \in Hash
  BY <1>1, <1>2, AtParts DEF IInv, InBuild
<1>4. \A t \in Downstream[s] : state[t] = Nothing
  BY <1>2, <1>3 DEF Progress, Cleared
<1>5. /\ state' \in [Stage -> Row \cup {Nothing}] /\ adopted' \subseteq Stage
      /\ state'[s].status = "failed" /\ \A t \in Stage \ {s} : state'[t] = state[t]
  BY <1>1, <1>2, <1>3, Written
<1>6. Left(b)
  BY <1>1, <1>2, <1>3, <1>5, ThroughUpstream DEF Progress, Left, Through
<1>7. /\ PlanTold(b)' /\ Ordered(b)' /\ Recorded(b)'
      /\ builds'[b].step = "execute" /\ builds'[b].at = s
      /\ builds' \in [Build -> Command] /\ \A c \in Build \ {b} : builds'[c] = builds[c]
  BY <1>1, <1>2, <1>3, <1>6, GotoProgress
<1>8. Cleared(b)' /\ Marked(b)' /\ Fresh(b)'
  <2>1. \A t \in Downstream[s] : state'[t] = Nothing
    BY <1>3, <1>4, <1>5, UpDown, UpstreamStages
  <2>2. QED
    BY <1>5, <1>7, <2>1 DEF Cleared, Marked, Fresh, Ok
<1>9. TypeOK'
  BY <1>1, <1>2, <1>5, <1>7 DEF TypeOK
<1>11. \A t \in Stage : Ok(t)' /\ t \notin adopted' =>
            /\ Ok(t) /\ t \notin adopted /\ state'[t] = state[t]
            /\ \A u \in Upstream[t] : Ok(u)' /\ state'[u].hash[u] = state'[t].hash[u]
  BY <1>1, <1>2, <1>3, <1>4, <1>5, WriteKeeps DEF Ok
<1>12. Chain' /\ Own'
  BY <1>1, <1>2, <1>11 DEF Chain, Own
<1>13. QED
  BY <1>2, <1>7, <1>8, <1>9, <1>12, WorkGoesOn DEF IInv, Progress

\* A stage runs: what is below it is behind from now on, and has no row.
LEMMA ExecuteInv == ASSUME IInv, NEW b \in Build, Execute(b) PROVE IInv'
<1> DEFINE s == builds[b].at
           read == IF s \in Loads THEN content[s] ELSE builds[b].plan[s][s]
<1>1. TypeOK /\ Chain /\ Own
  BY DEF IInv
<1>2. /\ builds[b].step = "execute" /\ Goto(b, "append")
      /\ output' = [output EXCEPT ![s] = read]
      /\ raced' = IF read = builds[b].plan[s][s] THEN raced \ {s} ELSE raced \cup {s}
      /\ behind' = (behind \ {s}) \cup Downstream[s] /\ owed' = owed \cup {s}
      /\ UNCHANGED <<content, absent, edits, state, adopted, lock, unlocked, begun>>
      /\ UNCHANGED locking
  BY DEF Execute, files, locking
<1>3. Progress(b) /\ s \in Stage /\ s \in StagesOf(builds[b].selected)
  BY <1>1, <1>2, AtParts DEF IInv, InBuild
<1>4. (\A t \in Downstream[s] : state[t] = Nothing) /\ ~ Ok(s)
  BY <1>2, <1>3 DEF Progress, Cleared, Marked
<1>5. /\ PlanTold(b)' /\ Ordered(b)' /\ Recorded(b)'
      /\ builds'[b].step = "append" /\ builds'[b].at = s /\ builds'[b].plan = builds[b].plan
      /\ builds' \in [Build -> Command] /\ \A c \in Build \ {b} : builds'[c] = builds[c]
  BY <1>1, <1>2, <1>3, GotoProgress DEF Left
<1>a. read \in 0 .. MaxContent /\ (s \notin Loads => read = builds[b].plan[s][s])
  <2>1. s \notin Loads => builds[b].plan[s][s] \in 0 .. MaxContent
    BY <1>3 DEF Progress, PlanTold
  <2>2. content[s] \in 0 .. MaxContent
    BY <1>1, <1>3 DEF TypeOK
  <2>3. QED
    BY <2>1, <2>2
<1> HIDE DEF read
<1>6. s \notin behind' /\ (s \notin raced' => output'[s] = builds[b].plan[s][s] /\ output'[s] \in Nat)
  <2>1. s \notin Downstream[s]
    BY <1>3, UpDown
  <2>2. output'[s] = read /\ read \in Nat
    BY <1>1, <1>2, <1>3, <1>a, Numbers DEF TypeOK
  <2>3. s \notin raced' => read = builds[b].plan[s][s]
    BY <1>2
  <2>4. QED
    BY <1>2, <2>1, <2>2, <2>3
<1>7. Cleared(b)' /\ Marked(b)' /\ Fresh(b)'
  <2>1. Cleared(b)'
    BY <1>2, <1>4, <1>5 DEF Cleared
  <2>2. Marked(b)'
    BY <1>2, <1>4, <1>5 DEF Marked, Ok
  <2>3. Fresh(b)'
    BY <1>5, <1>6 DEF Fresh
  <2>4. QED
    BY <2>1, <2>2, <2>3
<1>8. TypeOK'
  <2>1. behind' \subseteq Stage /\ owed' \subseteq Stage
    BY <1>1, <1>2, <1>3, UpstreamStages DEF TypeOK
  <2>2. output' \in [Stage -> 0 .. MaxContent \cup {Partial, Nothing}]
    BY <1>1, <1>2, <1>3, <1>a DEF TypeOK
  <2>3. raced' \subseteq Loads
    BY <1>1, <1>2, <1>a DEF TypeOK
  <2>4. QED
    BY <1>1, <1>2, <1>5, <2>1, <2>2, <2>3 DEF TypeOK
<1>9. Chain'
  BY <1>1, <1>2 DEF Chain, Ok
<1>10. Own'
  <2>1. ASSUME NEW t \in Stage, Ok(t)
        PROVE  t # s /\ t \notin Downstream[s] /\ output'[t] = output[t] /\ (t \in raced' <=> t \in raced)
    BY <1>1, <1>2, <1>4, <2>1 DEF Ok, TypeOK
  <2>2. QED
    BY <1>1, <1>2, <2>1 DEF Own, Ok
<1>11. QED
  BY <1>2, <1>5, <1>7, <1>8, <1>9, <1>10, WorkGoesOn DEF IInv, Progress

LEMMA ExecuteFailsInv == ASSUME IInv, NEW b \in Build, ExecuteFails(b) PROVE IInv'
<1> DEFINE s == builds[b].at
<1>1. TypeOK /\ Chain /\ Own
  BY DEF IInv
<1>2. /\ builds[b].step = "execute" /\ Breaks(b) /\ Write(s, "failed", builds[b].plan[s])
      /\ output' \in {output, [output EXCEPT ![s] = Partial]}
      /\ UNCHANGED <<content, absent, edits, behind, owed, raced, lock, unlocked, begun>>
      /\ UNCHANGED locking
  BY DEF ExecuteFails, files, locking
<1>3. Progress(b) /\ s \in Stage /\ builds[b].plan[s] \in Hash
  BY <1>1, <1>2, AtParts DEF IInv, InBuild
<1>4. \A t \in Downstream[s] : state[t] = Nothing
  BY <1>2, <1>3 DEF Progress, Cleared
<1>5. /\ state' \in [Stage -> Row \cup {Nothing}] /\ adopted' \subseteq Stage
      /\ state'[s].status = "failed" /\ \A t \in Stage \ {s} : state'[t] = state[t]
  BY <1>1, <1>2, <1>3, Written
<1>6. Left(b)
  BY <1>1, <1>2, <1>3, <1>5, ThroughUpstream DEF Progress, Left, Through
<1>7. Progress(b)' /\ builds' \in [Build -> Command] /\ \A c \in Build \ {b} : builds'[c] = builds[c]
  BY <1>1, <1>2, <1>3, <1>6, BreaksProgress
<1>8. TypeOK'
  <2>1. output' \in [Stage -> 0 .. MaxContent \cup {Partial, Nothing}]
    BY <1>1, <1>2, <1>3 DEF TypeOK
  <2>2. QED
    BY <1>1, <1>2, <1>5, <1>7, <2>1 DEF TypeOK
<1>9. \A t \in Stage : Ok(t)' /\ t \notin adopted' =>
            /\ t # s /\ Ok(t) /\ t \notin adopted /\ state'[t] = state[t]
            /\ \A u \in Upstream[t] : Ok(u)' /\ state'[u].hash[u] = state'[t].hash[u]
  BY <1>1, <1>2, <1>3, <1>4, <1>5, WriteKeeps DEF Ok
<1>10. \A t \in Stage \ {s} : output'[t] = output[t]
  BY <1>1, <1>2 DEF TypeOK
<1>11. Chain' /\ Own'
  BY <1>1, <1>2, <1>9, <1>10 DEF Chain, Own
<1>12. QED
  BY <1>2, <1>7, <1>8, <1>11, WorkGoesOn DEF IInv

LEMMA AppendInv == ASSUME IInv, NEW b \in Build, AppendProcessStep(b) PROVE IInv'
<1> DEFINE s == builds[b].at
<1>1. TypeOK /\ Chain /\ Own
  BY DEF IInv
<1>2. /\ builds[b].step = "append" /\ Goto(b, "record") /\ owed' = owed \ {s}
      /\ UNCHANGED <<content, absent, edits, state, output, behind, raced, adopted, lock, unlocked, begun>>
      /\ UNCHANGED locking
  BY DEF AppendProcessStep, files, locking
<1>3. Progress(b)
  BY <1>2 DEF IInv, InBuild
<1>4. /\ PlanTold(b)' /\ Ordered(b)' /\ Recorded(b)'
      /\ builds'[b].step = "record" /\ builds'[b].at = s /\ builds'[b].plan = builds[b].plan
      /\ builds' \in [Build -> Command] /\ \A c \in Build \ {b} : builds'[c] = builds[c]
  BY <1>1, <1>2, <1>3, GotoProgress DEF Left
<1>5. Cleared(b)' /\ Marked(b)' /\ Fresh(b)'
  BY <1>2, <1>3, <1>4 DEF Progress, Cleared, Marked, Fresh, Ok
<1>6. TypeOK'
  BY <1>1, <1>2, <1>4 DEF TypeOK
<1>7. Chain' /\ Own'
  BY <1>1, <1>2 DEF Chain, Own, Ok
<1>8. QED
  BY <1>2, <1>4, <1>5, <1>6, <1>7, WorkGoesOn DEF IInv, Progress

\* The row that says ok rests on the rows of the stages the build has been through.
LEMMA RecordOkInv == ASSUME IInv, NEW b \in Build, RecordOk(b) PROVE IInv'
<1> DEFINE s == builds[b].at
           hash == builds[b].plan[s]
<1>1. TypeOK /\ Chain /\ Own
  BY DEF IInv
<1>2. /\ builds[b].step = "record" /\ NextStage(b) /\ Write(s, "ok", hash)
      /\ UNCHANGED <<content, absent, edits, output, behind, owed, raced, lock, unlocked, begun>>
      /\ UNCHANGED locking
  BY DEF RecordOk, files, made, locking
<1>3. Progress(b) /\ s \in Stage /\ hash \in Hash /\ s \in StagesOf(builds[b].selected)
  BY <1>1, <1>2, AtParts DEF IInv, InBuild
<1>4. \A t \in Downstream[s] : state[t] = Nothing
  BY <1>2, <1>3 DEF Progress, Cleared
<1>5. /\ state' \in [Stage -> Row \cup {Nothing}] /\ adopted' \subseteq Stage
      /\ state'[s] # Nothing /\ state'[s].status = "ok" /\ state'[s].hash = hash
      /\ \A t \in Stage \ {s} : state'[t] = state[t]
  BY <1>1, <1>2, <1>3, Written
<1>6. Left(b)
  BY <1>1, <1>2, <1>3, <1>5, ThroughUpstream DEF Progress, Left, Through
<1>7. Progress(b)' /\ builds' \in [Build -> Command] /\ \A c \in Build \ {b} : builds'[c] = builds[c]
  BY <1>1, <1>2, <1>3, <1>5, <1>6, NextProgress
<1>8. TypeOK'
  BY <1>1, <1>2, <1>5, <1>7 DEF TypeOK
<1>9. \A t \in Stage \ {s} : Ok(t)' /\ t \notin adopted' =>
            /\ Ok(t) /\ t \notin adopted /\ state'[t] = state[t]
            /\ \A u \in Upstream[t] : Ok(u)' /\ state'[u].hash[u] = state'[t].hash[u]
  BY <1>1, <1>2, <1>3, <1>4, WriteKeeps
<1>10. \A u \in Upstream[s] : Ok(u)' /\ state'[u].hash[u] = hash[u]
  <2> SUFFICES ASSUME NEW u \in Upstream[s] PROVE Ok(u)' /\ state'[u].hash[u] = hash[u]
    OBVIOUS
  <2>1. CASE u = s
    <3>1. state'[u] # Nothing /\ state'[u].status = "ok" /\ state'[u].hash = hash
      BY <1>5, <2>1
    <3> HIDE DEF s, hash
    <3>2. QED
      BY <3>1 DEF Ok
  <2>2. CASE u # s
    <3>1. u \in Through(b) /\ u \in Stage
      BY <1>1, <1>2, <1>3, <2>2, ThroughUpstream DEF Progress, Through
    <3>2. Ok(u) /\ state[u].hash = builds[b].plan[u] /\ state'[u] = state[u]
      BY <1>3, <1>5, <2>2, <3>1 DEF Progress, Recorded
    <3>3. u \in StagesOf(builds[b].selected)
      <4>1. Good(b) \subseteq builds[b].selected /\ s[1] \in builds[b].selected
        BY <1>1, <1>3, CommandParts DEF Good, StagesOf
      <4>2. QED
        BY <3>1, <4>1 DEF Through, StagesOf
    <3>4. hash[u] = builds[b].plan[u][u]
      BY <1>3, <3>3 DEF Progress, PlanTold
    <3>5. QED
      BY <3>2, <3>4 DEF Ok
  <2>3. QED
    BY <2>1, <2>2
<1>11. Chain'
  BY <1>5, <1>9, <1>10 DEF Chain
<1>12. Own'
  <2>1. /\ s \notin raced => output[s] = hash[s] /\ output[s] \in Nat
        /\ s \notin behind /\ s \notin owed
    BY <1>2, <1>3 DEF Progress, Fresh
  <2> HIDE DEF s, hash
  <2>2. ASSUME NEW t \in Stage, Ok(t)', t \notin adopted'
        PROVE  /\ t \notin raced => output[t] = state'[t].hash[t] /\ output[t] \in Nat
               /\ t \notin behind /\ t \notin owed
    <3>1. CASE t = s
      BY <1>5, <2>1, <3>1
    <3>2. CASE t # s
      BY <1>1, <1>9, <2>2, <3>2 DEF Own
    <3>3. QED
      BY <3>1, <3>2
  <2>3. QED
    BY <1>2, <2>2 DEF Own
<1>13. QED
  BY <1>2, <1>7, <1>8, <1>11, <1>12, WorkGoesOn DEF IInv

------------------------------------------------------------------------------
LEMMA NextInv == IInv /\ [Next]_vars => IInv'
<1> SUFFICES ASSUME IInv, [Next]_vars PROVE IInv'
  OBVIOUS
<1>1. CASE UNCHANGED vars
  <2>1. /\ UNCHANGED <<content, absent, edits, state, output, behind, owed, raced, adopted, builds, lock, unlocked, begun>>
    BY <1>1 DEF vars, files, made, locking
  <2>2. TypeOK' /\ Alone' /\ Chain' /\ Own'
    BY <2>1, RowsStay DEF IInv, TypeOK, Alone
  <2>3. ASSUME NEW b \in Build, InBuild(b)' PROVE Progress(b)'
    <3>1. Progress(b)
      BY <2>1, <2>3 DEF IInv, InBuild
    <3>2. QED
      BY <2>1, <3>1 DEF Progress, PlanTold, Ordered, Recorded, Cleared, Marked, Fresh, Located, Good, Through, Ok
  <2>4. QED
    BY <2>2, <2>3 DEF IInv
<1>2. ASSUME NEW s \in Stage, EditInput(s) \/ LoseFile(s) \/ RestoreFile(s) PROVE IInv'
  BY <1>2, EditInputInv, FilesInv
<1>3. ASSUME NEW b \in Build, NEW only \in SUBSET Dataset, NEW except \in SUBSET Dataset,
             NEW force \in SUBSET Dataset, BeginBuild(b, only, except, force)
      PROVE  IInv'
  BY <1>3, BeginBuildInv
<1>4. ASSUME NEW b \in Build, BeginAdopt(b) \/ LoseLock(b) \/ Kill(b) PROVE IInv'
  BY <1>4, BeginAdoptInv, LoseLockInv, KillInv
<1>5. ASSUME NEW b \in Build, Runs(b) PROVE IInv'
  BY <1>5, NextDatasetInv, OverInv, SkipInv, RefusedInv, InvalidateInv, MarkFailedInv, ExecuteInv, ExecuteFailsInv,
     AppendInv, RecordOkInv DEF Runs
<1>6. ASSUME NEW b \in Build, NEW d \in Dataset, NEW last \in 1 .. StageCount[d], AdoptDataset(b, d, last)
      PROVE  IInv'
  BY <1>6, AdoptInv
<1>7. QED
  BY <1>1, <1>2, <1>3, <1>4, <1>5, <1>6 DEF Next

(* What every step can rely on: while one command runs, with its lock or after losing it, it has been
   through everything upstream of the stage at hand, everything downstream has lost its row, every row
   that says ok rests on ok rows that tell the same inputs, and tells what its output was made from, unless
   a load's file changed between the hashing and the load. *)
THEOREM BuildInvariant == Spec => []IInv
  BY InitInv, NextInv, PTL DEF Spec

(* Every variable keeps its type (atlas:build and atlas:adopt, for any registry without cycles). *)
THEOREM TypeCorrect == Spec => []TypeOK
<1>1. IInv => TypeOK
  BY DEF IInv
<1>2. QED
  BY <1>1, BuildInvariant, PTL

(* What atlas:status calls ok is built from the present inputs, after every run upstream, unless adopt
   wrote a row it rests on or a file changed between the hashing and the load: for every registry without
   cycles, number of processes, commands and edits back and forth (runner.ts, status.ts). *)
THEOREM OkIsBuiltHolds == Spec => []OkIsBuilt
<1>1. IInv => OkIsBuilt
  <2> SUFFICES ASSUME IInv, NEW s \in Stage, Status(s) = "ok", Upstream[s] \cap (adopted \cup raced) = {},
                      NEW t \in Upstream[s]
               PROVE  output[t] = content[t] /\ t \notin behind
    BY DEF OkIsBuilt, Built
  <2>1. Chain /\ Own
    BY DEF IInv
  <2>2. Ok(s) /\ state[s].hash = InputHash(s)
    BY DEF Status, Ok
  <2>3. s \in Upstream[s] /\ t \in Stage
    BY UpDown, UpstreamStages
  <2>4. s \notin adopted /\ t \notin adopted /\ t \notin raced
    BY <2>3
  <2>5. Ok(t) /\ state[t].hash[t] = state[s].hash[t]
    BY <2>1, <2>2, <2>4 DEF Chain
  <2>6. output[t] = state[s].hash[t] /\ output[t] \in Nat /\ t \notin behind
    BY <2>1, <2>3, <2>4, <2>5 DEF Own
  <2>7. state[s].hash[t] = content[t] \/ state[s].hash[t] = Missing
    BY <2>2 DEF InputHash
  <2>8. QED
    BY <2>6, <2>7, RunnerAssumption
<1>2. QED
  BY <1>1, BuildInvariant, PTL

(* No stage that is recorded as built lacks its step in the lineage (runner.ts: the process step before
   the row). *)
THEOREM LineageNeverBehindHolds == Spec => []LineageNeverBehind
<1>1. IInv => LineageNeverBehind
  BY DEF IInv, Own, LineageNeverBehind, Status, Ok
<1>2. QED
  BY <1>1, BuildInvariant, PTL

===============================================================================
