---------------------------- MODULE MCDualStore ----------------------------
(***************************************************************************)
(* One story whose row has its full key and a stored phase, one with a row *)
(* under its id and no stored phase yet, and one that has no row.          *)
(***************************************************************************)
EXTENDS DualStore, TLC

CONSTANTS s1, s2, s3

Rows == [k \in Keys |-> IF k \in {<<s1, "full">>, <<s2, "id">>} THEN "in-progress" ELSE None]
Entries == [k \in Keys |-> IF k = <<s1, "id">> THEN "dev-running" ELSE None]

Pair(status, phase) == [status |-> status, phase |-> phase]
Done == Pair("done", "done")
SomeWrites == [s \in Stories |-> IF s = s1 THEN {Done, Pair("in-progress", "dev-running")}
                                 ELSE {Done}]

\* Only finishing writes: at equal file times the phase side wins.
DoneWrites == [s \in Stories |-> {Done}]

ASSUME TidyProject == Tidy

Symmetry == Permutations(Procs)
=============================================================================
