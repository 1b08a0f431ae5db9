--------------------------- MODULE SerialPublishing ---------------------------
(* What publishing promises whoever edits or loads a layer, however the transactions overlap: they might
   as well have run one after another. A write is built on the version it replaces, a load replaces the
   edits of others only if told to, and external ids and "version N" labels are given without a gap. *)
EXTENDS Naturals, FiniteSets

CONSTANTS Writers, Editors, Loads, Superseding, Creating, Base, FirstActive

VARIABLES
    active,     \* the live version
    published,  \* the versions that are not drafts
    builtOn,    \* each write with the version it was built on
    identified, \* the external ids given
    labelled    \* the labels given

Init ==
    /\ active = FirstActive /\ published = Base
    /\ builtOn = {} /\ identified = {} /\ labelled = {}

WithNext(numbers) == numbers \cup {Cardinality(numbers) + 1}

Identify(t) == identified' = IF t \in Creating THEN WithNext(identified) ELSE identified

GoesLive(t) ==
    /\ t \notin published
    /\ active' = t /\ published' = published \cup {t}

Write(t) ==
    /\ GoesLive(t)
    /\ builtOn' = builtOn \cup {<<t, active>>}
    /\ Identify(t)
    /\ UNCHANGED labelled

Load(t) ==
    /\ active \in Writers => t \in Superseding
    /\ GoesLive(t)
    /\ labelled' = WithNext(labelled)
    /\ UNCHANGED <<builtOn, identified>>

\* A change of a durable draft, which publishes nothing.
Edit(t) ==
    /\ Identify(t)
    /\ UNCHANGED <<active, published, builtOn, labelled>>

Next == (\E t \in Writers : Write(t)) \/ (\E t \in Loads : Load(t)) \/ (\E t \in Editors : Edit(t))

Spec == Init /\ [][Next]_<<active, published, builtOn, identified, labelled>>
===============================================================================
