--------------------------- MODULE MCVersionStore ---------------------------
(* Small instances of VersionStore for TLC. *)
EXTENDS VersionStore

CONSTANTS c1, c2, u1, u2, national, regional

MCContents == {c1, c2}
MCUnits == {u1, u2}
\* The assignment rule: what c1 describes lies in u1, what c2 describes in u2.
MCRule == [c \in Contents |-> IF c = c1 \/ u2 \notin Units THEN u1 ELSE u2]
\* The national user may change everything, the regional one what u1 manages.
MCJurisdiction == [user \in Users |-> IF user = national THEN Units \cup {NoUnit} ELSE {u1}]
=============================================================================
