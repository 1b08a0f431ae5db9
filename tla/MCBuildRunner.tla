---------------------------- MODULE MCBuildRunner ----------------------------
(* Small instances of BuildRunner for TLC. *)
EXTENDS BuildRunner, TLC

CONSTANTS dem, contours, rivers, b1, b2

Symmetry == Permutations(Build)

\* A chain, a fork and a join in one: contours from dem, rivers from both.
MCDependsOn == [d \in Dataset |-> CASE d = dem -> {} [] d = contours -> {dem}
                                    [] OTHER -> {dem, contours} \cap Dataset]
MCStageCount == [d \in Dataset |-> IF d = contours THEN 2 ELSE 1]
MCLoads == {<<dem, 1>>}
===============================================================================
