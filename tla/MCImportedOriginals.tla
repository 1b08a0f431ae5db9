------------------------ MODULE MCImportedOriginals ------------------------
(* Small instances of ImportedOriginals for TLC. *)
EXTENDS ImportedOriginals

CONSTANTS j1, j2, m1, m2
=============================================================================
