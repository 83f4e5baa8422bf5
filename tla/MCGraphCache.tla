---------------------------- MODULE MCGraphCache ----------------------------
(* Small instances of GraphCache.                                          *)
EXTENDS GraphCache, DependencyGraphCases, TLC

CONSTANTS f1, f2

MCFiles == {f1, f2}

\* A file that references nothing, one that references f1, one that is broken.
MCContents == { [ok |-> TRUE, refs |-> {}], [ok |-> TRUE, refs |-> {f1}],
                [ok |-> FALSE, refs |-> {}] }

Symmetry == Permutations(Procs)
=============================================================================
