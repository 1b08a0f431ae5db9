------------------------------ MODULE BuildGraph ------------------------------
(* The registry of packages/atlas-data: datasets that depend on others, each a sequence of stages, and
   what the build commands compute from it before they run anything. *)
EXTENDS Integers, FiniteSets

CONSTANTS
    Dataset,     \* the registry
    DependsOn,   \* the datasets each one is built from
    StageCount,  \* the number of its stages
    Loads        \* the load-geojson stages, which read a file

\* The smallest set that holds the datasets of from and whatever next leads to from one of its members.
Closure(next, from) ==
    {d \in Dataset : \A S \in SUBSET Dataset :
        from \subseteq S /\ (\A e \in S : next[e] \subseteq S) => d \in S}

Ancestors == [d \in Dataset |-> Closure(DependsOn, DependsOn[d])]
TransitiveDependents == [d \in Dataset |-> {e \in Dataset : d \in Ancestors[e]}]

Stage == UNION {{d} \X (1 .. StageCount[d]) : d \in Dataset}

StagesOf(D) == {s \in Stage : s[1] \in D}

\* What a stage is built from, itself included: its input hash chains over these.
Upstream ==
    [s \in Stage |-> {t \in Stage : t[1] = s[1] /\ t[2] <= s[2]} \cup StagesOf(Ancestors[s[1]])]

\* What an execution of the stage changes the ground of.
Downstream ==
    [s \in Stage |-> {t \in Stage : t[1] = s[1] /\ t[2] > s[2]} \cup StagesOf(TransitiveDependents[s[1]])]

ASSUME GraphAssumption ==
    /\ IsFiniteSet(Dataset)
    /\ DependsOn \in [Dataset -> SUBSET Dataset]
    /\ \A d \in Dataset : d \notin Ancestors[d]
    /\ StageCount \in [Dataset -> Nat \ {0}]
    /\ Loads \subseteq Stage

\* --only: the named datasets and all they rest on.
WithDependencies(ids) == Closure(DependsOn, ids)

\* --except: not the named datasets, nor anything built on one.
WithoutDependents(ids) == {d \in Dataset : d \notin ids /\ Ancestors[d] \cap ids = {}}

\* Both flags are read against the whole registry; an absent --only keeps everything.
SelectDatasets(only, except) ==
    (IF only = {} THEN Dataset ELSE WithDependencies(only)) \cap WithoutDependents(except)
===============================================================================
