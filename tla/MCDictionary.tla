---------------------------- MODULE MCDictionary ----------------------------
(* Three units of two dimensions, two codes, and histories of two releases.  *)
EXTENDS Dictionary, TLC

CONSTANTS m, km, s, c1, c2, old, new, mine, u1, u2

MCDimensionOf == [u \in Unit |-> IF u = s THEN "time" ELSE "length"]

Attribute(label, unit, units, shown, list) ==
    [label |-> label, storedUnit |-> unit, displayUnits |-> units, displayUnit |-> shown, codeList |-> list,
     validFrom |-> 0, validTo |-> Null]
Release(attribute, listed) == [attribute |-> attribute, values |-> listed]
Listed(name) == [name |-> name, retired |-> FALSE]
NoValues == [c \in {} |-> Null]

\* A unit that changes its list, a unit that changes its dimension, an open list
\* that closes, a list that drops and takes up a code, an attribute that goes.
MCReleases ==
    { << Release(Attribute(old, m, {m, km}, m, Null), NoValues),
         Release(Attribute(new, m, {km}, km, Null), NoValues) >>,
      << Release(Attribute(old, m, {m}, m, Null), NoValues),
         Release(Attribute(old, s, {s}, s, Null), NoValues) >>,
      << Release(Attribute(old, Null, {}, Null, "open"), c1 :> Listed(old)),
         Release(Attribute(old, Null, {}, Null, "closed"), c1 :> Listed(new)) >>,
      << Release(Attribute(old, Null, {}, Null, "open"), c1 :> Listed(old)),
         Release(Attribute(old, Null, {}, Null, "open"), c2 :> Listed(new)),
         Release(Null, NoValues) >> }
MCSymmetry == Permutations(Staff)
=============================================================================
