----------------------------- MODULE MCFileStore -----------------------------
(* Small instances of FileStore for TLC: r copies o's map while uploading, o imports into it. *)
EXTENDS FileStore

CONSTANTS o, r, up1, up2, copy1, import1

MCKindOf == [q \in Requests |->
                IF q = copy1 THEN "copy" ELSE IF q = import1 THEN "import" ELSE "upload"]
MCUserOf == [q \in Requests |-> IF q = import1 THEN o ELSE r]
==============================================================================
