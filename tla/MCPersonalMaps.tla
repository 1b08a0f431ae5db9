---------------------------- MODULE MCPersonalMaps ----------------------------
(* Small instances of PersonalMaps for TLC. *)
EXTENDS PersonalMaps, TLC

CONSTANTS o, r, g, t1, t2, m1, m2

\* The owner has the tabs; r is shared with directly or as a member of the group g.
MCMembers == [member \in {g} |-> {r}]
MCUserOf == [t \in Tabs |-> o]

\* Both tabs of the run are the owner's, and the maps differ in nothing.
MCSymmetry == Permutations({t1, t2}) \cup Permutations(Maps)
==============================================================================
