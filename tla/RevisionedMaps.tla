---------------------------- MODULE RevisionedMaps ----------------------------
(* What the personal maps promise their clients, whatever a map is made of: a map appears at
   revision 0, every change of its content moves its revision by one, no step changes two maps, and a
   map that is gone does not come back. A write that names the revision it was made on is therefore
   refused exactly when the map changed since. *)
EXTENDS Naturals

CONSTANT Maps
VARIABLE maps   \* map -> its life ("unused", "live", "deleted"), its revision and its content

Init == \A m \in Maps : maps[m].life = "unused"

Create(m) ==
    /\ maps[m].life = "unused" /\ maps'[m].life = "live"
    /\ maps'[m].revision = 0

Change(m) ==
    /\ maps[m].life = "live" /\ maps'[m].life = "live"
    /\ maps'[m].revision = maps[m].revision + 1

Remove(m) == maps[m].life = "live" /\ maps'[m].life = "deleted"

Next ==
    \E m \in Maps :
        /\ Create(m) \/ Change(m) \/ Remove(m)
        /\ \A other \in Maps \ {m} : maps'[other] = maps[other]

Spec == Init /\ [][Next]_maps
==============================================================================
