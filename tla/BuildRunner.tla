------------------------------ MODULE BuildRunner ------------------------------
(* atlas:build and atlas:adopt against one database: which stages a build runs, what it writes in
   app.dataset_stage_state before and after each, and what a failure, a kill at any statement, a file
   edited or missing, or a lost lock leaves behind. A stage's own work is one step: it succeeds, or
   fails leaving its output as it was (a transaction) or half done. *)
EXTENDS BuildGraph

CONSTANTS
    Build,       \* the processes that run a command
    MaxCommands, \* bound on the commands begun
    MaxContent,  \* bound on the contents a stage's input may have, 0 the one at first
    MaxEdits,    \* bound on the edits of inputs
    Nothing, Missing, Partial

ASSUME RunnerAssumption == {MaxCommands, MaxContent, MaxEdits} \subseteq Nat /\ {Nothing, Missing, Partial} \cap Nat = {}

VARIABLES
    content,   \* the input of each stage: its file as it is on disk, or its descriptor as the next process has it
    absent,    \* the load stages whose file is not there
    edits,     \* the number of edits of inputs
    state,     \* app.dataset_stage_state: [status, hash] of each stage, or Nothing
    output,    \* what each stage's output was made from: a content, Partial (half done, or unknown) or Nothing
    behind,    \* the stages below which something ran, or failed half way, since they ran
    owed,      \* the stages that ran without a process step in the lineage since
    raced,     \* the loads that last read another file than the one their build had hashed
    adopted,   \* the stages whose row atlas:adopt wrote
    lock,      \* the processes whose connection holds the build lock
    builds,    \* what each process is doing
    unlocked,  \* whether a build has lost its lock's connection and gone on
    begun      \* the number of commands begun

files == <<content, absent, edits>>
made == <<output, behind, owed, raced>>
locking == <<lock, unlocked, begun>>
vars == <<files, state, made, adopted, builds, locking>>

Steps == {"idle", "dataset", "stage", "mark", "execute", "append", "record", "adopt"}
Idle == [step |-> "idle", selected |-> {}, force |-> {}, plan |-> [s \in {} |-> {}], done |-> {}, broken |-> {},
         at |-> Nothing]

Hash == UNION {[S -> 0 .. MaxContent \cup {Missing}] : S \in SUBSET Stage}
Row == [status: {"ok", "failed"}, hash: Hash]
Fields == [step: Steps, selected: SUBSET Dataset, force: SUBSET Dataset,
           plan: UNION {[S -> Hash] : S \in SUBSET Stage},
           done: SUBSET Dataset, broken: SUBSET Dataset, at: Stage \cup {Nothing}]
Command ==
    {r \in Fields :
        /\ DOMAIN r.plan = StagesOf(r.selected)
        /\ r.broken \subseteq r.done /\ r.done \subseteq r.selected
        /\ r.at = Nothing <=> r.step \in {"idle", "dataset", "adopt"}
        /\ r.at # Nothing => r.at[1] \in r.selected \ r.done
        /\ r.step = "adopt" => r.selected = Dataset}

ASSUME NothingAssumption == Nothing \notin Stage /\ Nothing \notin Row

TypeOK ==
    /\ content \in [Stage -> 0 .. MaxContent] /\ absent \subseteq Loads /\ edits \in 0 .. MaxEdits
    /\ state \in [Stage -> Row \cup {Nothing}]
    /\ output \in [Stage -> 0 .. MaxContent \cup {Partial, Nothing}]
    /\ {behind, owed, adopted} \subseteq SUBSET Stage /\ raced \subseteq Loads
    /\ lock \subseteq Build /\ unlocked \in BOOLEAN /\ begun \in 0 .. MaxCommands
    /\ builds \in [Build -> Command]

\* A new database, or an already-built machine of before there was a state table, for atlas:adopt.
Init ==
    /\ content = [s \in Stage |-> 0] /\ absent = {} /\ edits = 0
    /\ state = [s \in Stage |-> Nothing]
    /\ output \in {[s \in Stage |-> Nothing], [s \in Stage |-> Partial]}
    /\ behind = {} /\ owed = {} /\ raced = {} /\ adopted = {}
    /\ lock = {} /\ unlocked = FALSE /\ begun = 0
    /\ builds = [b \in Build |-> Idle]

------------------------------------------------------------------------------
(* stageHashPlan: chained, so a stage's hash tells the input of everything it is built from. *)
InputHash(s) == [t \in Upstream[s] |-> IF t \in absent THEN Missing ELSE content[t]]

\* computeStatusOne
Status(s) ==
    IF state[s] = Nothing THEN "missing"
    ELSE IF state[s].status # "ok" THEN "failed"
    ELSE IF state[s].hash # InputHash(s) THEN "stale" ELSE "ok"

Write(s, status, hash) ==
    /\ state' = [state EXCEPT ![s] = [status |-> status, hash |-> hash]]
    /\ adopted' = adopted \ {s}

------------------------------------------------------------------------------
(* The files *)

\* A file or a descriptor becomes another, or what it was before. Bounds: so many edits, and one input at a
\* time is not what it was at first.
EditInput(s) ==
    /\ s \notin absent
    /\ edits < MaxEdits /\ edits' = edits + 1
    /\ \A t \in Stage \ {s} : content[t] = 0
    /\ \E c \in (0 .. MaxContent) \ {content[s]} : content' = [content EXCEPT ![s] = c]
    /\ UNCHANGED <<absent, state, made, adopted, builds, locking>>

LoseFile(s) ==
    /\ s \in Loads \ absent
    /\ absent' = absent \cup {s}
    /\ UNCHANGED <<content, edits, state, made, adopted, builds, locking>>

RestoreFile(s) ==
    /\ s \in absent
    /\ absent' = absent \ {s}
    /\ UNCHANGED <<content, edits, state, made, adopted, builds, locking>>

------------------------------------------------------------------------------
(* withBuildLock: a try-lock on a connection of its own, for as long as the command runs. *)

\* Bounds: so many commands, and none once one has lost its lock. Two that run together then may overwrite
\* each other's rows: the code promises nothing for that but a message to check and build again.
MayBegin == begun < MaxCommands /\ ~ unlocked

TakeLock(b) ==
    /\ MayBegin /\ begun' = begun + 1
    /\ lock = {} /\ lock' = {b}
    /\ UNCHANGED unlocked

BeginBuild(b, only, except, force) ==
    LET selected == SelectDatasets(only, except)
    IN  /\ builds[b].step = "idle"
        /\ selected # {} /\ force \subseteq selected
        /\ TakeLock(b)
        /\ builds' = [builds EXCEPT ![b] =
              [Idle EXCEPT !.step = "dataset", !.selected = selected, !.force = force,
                           !.plan = [s \in StagesOf(selected) |-> InputHash(s)]]]
        /\ UNCHANGED <<files, state, made, adopted>>

BeginAdopt(b) ==
    /\ builds[b].step = "idle"
    /\ TakeLock(b)
    /\ builds' = [builds EXCEPT ![b] =
          [Idle EXCEPT !.step = "adopt", !.selected = Dataset,
                       !.plan = [s \in Stage |-> InputHash(s)]]]
    /\ UNCHANGED <<files, state, made, adopted>>

\* The command is over: its connection is closed, and the lock with it.
Ends(b) ==
    /\ builds' = [builds EXCEPT ![b] = Idle]
    /\ lock' = lock \ {b}
    /\ UNCHANGED <<unlocked, begun>>

\* The lock's connection drops; the command is told only when it is through.
LoseLock(b) ==
    /\ b \in lock
    /\ lock' = lock \ {b}
    /\ unlocked' = TRUE
    /\ UNCHANGED <<files, state, made, adopted, builds, begun>>

\* A kill, at any statement; in the middle of a stage its output may be half done.
Kill(b) ==
    /\ builds[b].step # "idle"
    /\ output' \in IF builds[b].step = "execute"
                     THEN {output, [output EXCEPT ![builds[b].at] = Partial]} ELSE {output}
    /\ Ends(b)
    /\ UNCHANGED <<files, state, behind, owed, raced, adopted>>

------------------------------------------------------------------------------
(* runBuild *)

Goto(b, step) == builds' = [builds EXCEPT ![b].step = step]

\* The dataset is through: built, blocked or broken.
Leave(b, d, broken) ==
    builds' = [builds EXCEPT ![b].step = "dataset", ![b].at = Nothing, ![b].done = @ \cup {d},
                             ![b].broken = IF broken THEN @ \cup {d} ELSE @]

Breaks(b) == Leave(b, builds[b].at[1], TRUE)

\* In topological order; a dependent of a broken dataset is blocked, and so breaks its own.
NextDataset(b) ==
    /\ builds[b].step = "dataset"
    /\ \E d \in builds[b].selected \ builds[b].done :
          /\ DependsOn[d] \subseteq builds[b].done
          /\ IF DependsOn[d] \cap builds[b].broken # {}
               THEN Leave(b, d, TRUE)
               ELSE builds' = [builds EXCEPT ![b].step = "stage", ![b].at = <<d, 1>>]
    /\ UNCHANGED <<files, state, made, adopted, locking>>

\* Nothing is left: the report is printed.
EndBuild(b) ==
    /\ builds[b].step = "dataset"
    /\ builds[b].done = builds[b].selected
    /\ Ends(b)
    /\ UNCHANGED <<files, state, made, adopted>>

\* On to the dataset's next stage, if it has one.
NextStage(b) ==
    LET s == builds[b].at
    IN  IF s[2] < StageCount[s[1]]
          THEN builds' = [builds EXCEPT ![b].step = "stage", ![b].at = <<s[1], s[2] + 1>>]
          ELSE Leave(b, s[1], FALSE)

\* A forced dataset runs every stage.
UpToDate(b, s) ==
    /\ s[1] \notin builds[b].force
    /\ state[s] # Nothing
    /\ state[s].status = "ok" /\ state[s].hash = builds[b].plan[s]

Skip(b) ==
    /\ builds[b].step = "stage"
    /\ UpToDate(b, builds[b].at)
    /\ NextStage(b)
    /\ UNCHANGED <<files, state, made, adopted, locking>>

\* A load whose file is not there is refused before anything is invalidated.
MissingInput(b) ==
    /\ builds[b].step = "stage"
    /\ ~ UpToDate(b, builds[b].at)
    /\ builds[b].at \in absent
    /\ Breaks(b)
    /\ UNCHANGED <<files, state, made, adopted, locking>>

\* The later stages of the dataset, and every stage of what depends on it, selected or not.
Forgotten(b, s) == Downstream[s]

\* Before a stage runs, the rows of all that rests on it go, in one statement ...
Invalidate(b) ==
    LET s == builds[b].at
    IN  /\ builds[b].step = "stage"
        /\ ~ UpToDate(b, s) /\ s \notin absent
        /\ state' = [t \in Stage |-> IF t \in Forgotten(b, s) THEN Nothing ELSE state[t]]
        /\ adopted' = adopted \ Forgotten(b, s)
        /\ Goto(b, "mark")
        /\ UNCHANGED <<files, made, locking>>

\* Mutant of MarkFailed: the row of the stage stays as it is while the stage runs.
MarkNothing(b) ==
    /\ builds[b].step = "mark"
    /\ Goto(b, "execute")
    /\ UNCHANGED <<files, state, adopted, made, locking>>

\* ... and its own is written failed until it succeeds.
MarkFailed(b) ==
    /\ builds[b].step = "mark"
    /\ Write(builds[b].at, "failed", builds[b].plan[builds[b].at])
    /\ Goto(b, "execute")
    /\ UNCHANGED <<files, made, locking>>

\* A load reads its file now; any other stage is what the process's own code says, which the plan has seen.
Execute(b) ==
    LET s == builds[b].at
        read == IF s \in Loads THEN content[s] ELSE builds[b].plan[s][s]
    IN  /\ builds[b].step = "execute"
        /\ s \notin absent
        /\ output' = [output EXCEPT ![s] = read]
        /\ raced' = IF read = builds[b].plan[s][s] THEN raced \ {s} ELSE raced \cup {s}
        /\ behind' = (behind \ {s}) \cup Downstream[s]
        /\ owed' = owed \cup {s}
        /\ Goto(b, "append")
        /\ UNCHANGED <<files, state, adopted, locking>>

ExecuteFails(b) ==
    LET s == builds[b].at
    IN  /\ builds[b].step = "execute"
        /\ output' \in {output, [output EXCEPT ![s] = Partial]}
        /\ Write(s, "failed", builds[b].plan[s])
        /\ Breaks(b)
        /\ UNCHANGED <<files, behind, owed, raced, locking>>

\* Mutant of AppendProcessStep: the lineage is left for the next time.
AppendLater(b) ==
    /\ builds[b].step = "append"
    /\ Goto(b, "record")
    /\ UNCHANGED <<files, state, made, adopted, locking>>

\* The lineage first, the row after it.
AppendProcessStep(b) ==
    /\ builds[b].step = "append"
    /\ owed' = owed \ {builds[b].at}
    /\ Goto(b, "record")
    /\ UNCHANGED <<files, state, output, behind, raced, adopted, locking>>

RecordOk(b) ==
    /\ builds[b].step = "record"
    /\ Write(builds[b].at, "ok", builds[b].plan[builds[b].at])
    /\ NextStage(b)
    /\ UNCHANGED <<files, made, locking>>

\* A statement fails: the dataset is broken, the build goes on.
StatementFails(b) ==
    /\ builds[b].step \in {"stage", "mark", "append", "record"}
    /\ Breaks(b)
    /\ UNCHANGED <<files, state, made, adopted, locking>>

------------------------------------------------------------------------------
(* adoptDatasets: a dataset without any row, whose files and those of all it rests on are there, and
   whose probe passes (its outputs are there, half done or not), is written ok, row by row. *)
AdoptDataset(b, d, last) ==
    /\ builds[b].step = "adopt"
    /\ StagesOf(Ancestors[d] \cup {d}) \cap absent = {}
    /\ \A s \in StagesOf({d}) : state[s] = Nothing /\ output[s] # Nothing
    /\ LET rows == {s \in StagesOf({d}) : s[2] <= last}
       IN  /\ state' = [s \in Stage |-> IF s \in rows THEN [status |-> "ok", hash |-> builds[b].plan[s]]
                                        ELSE state[s]]
           /\ adopted' = adopted \cup rows
    /\ IF last = StageCount[d] THEN UNCHANGED <<builds, locking>> ELSE Ends(b)
    /\ UNCHANGED <<files, made>>

EndAdopt(b) ==
    /\ builds[b].step = "adopt"
    /\ Ends(b)
    /\ UNCHANGED <<files, state, made, adopted>>

------------------------------------------------------------------------------
Runs(b) ==
    \/ NextDataset(b) \/ EndBuild(b) \/ Skip(b) \/ MissingInput(b) \/ Invalidate(b) \/ MarkFailed(b)
    \/ Execute(b) \/ ExecuteFails(b) \/ AppendProcessStep(b) \/ RecordOk(b) \/ StatementFails(b)
    \/ EndAdopt(b)

Next ==
    \/ \E s \in Stage : EditInput(s) \/ LoseFile(s) \/ RestoreFile(s)
    \/ \E b \in Build :
         \/ \E only, except, force \in SUBSET Dataset : BeginBuild(b, only, except, force)
         \/ BeginAdopt(b) \/ LoseLock(b) \/ Kill(b) \/ Runs(b)
         \/ \E d \in Dataset : \E last \in 1 .. StageCount[d] : AdoptDataset(b, d, last)

Spec == Init /\ [][Next]_vars

------------------------------------------------------------------------------
\* The output of the stage is what its input, and everything upstream, now say.
Built(s) == \A t \in Upstream[s] : output[t] = content[t] /\ t \notin behind

(* What atlas:status calls ok, and the next build skips, is built: from the present inputs of the stage
   and of all it rests on, by a run that finished, after every run upstream. No kill at any statement,
   failure, --force, --except, edit of a descriptor or lost file breaks it. Excepted are stages over a
   row that atlas:adopt wrote on the word of a probe, and over a load whose file changed between the
   build's hashing and the load: its row tells the hash of the one and its output is made from the other,
   so with the first put back the stage shows ok (runner.ts hashes once, before the first stage). *)
OkIsBuilt ==
    \A s \in Stage : Status(s) = "ok" /\ Upstream[s] \cap (adopted \cup raced) = {} => Built(s)

(* The lineage never lacks a step of a stage that is recorded as built (runner.ts: "over-recording a
   re-execution, never under-recording one"). *)
LineageNeverBehind == \A s \in Stage : Status(s) = "ok" /\ s \notin adopted => s \notin owed

===============================================================================
