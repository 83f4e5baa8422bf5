--------------------------- MODULE MCWorkspaceSync ---------------------------
(* Small instances of WorkspaceSync.                                       *)
EXTENDS WorkspaceSync, TLC

Symmetry == Permutations(Projects)
=============================================================================
