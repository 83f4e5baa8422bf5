--------------------------- MODULE MCSpawnSession ---------------------------
(***************************************************************************)
(* Two callers on one session whose spawn makes two worktrees, the code's  *)
(* and that of the project-tracking repository.                            *)
(***************************************************************************)
EXTENDS SpawnSession, PreparationCases

CS == INSTANCE CodingSession
TLC == INSTANCE TLC

MCRepos == <<"code", "proj">>
MCRoutes == CS!SessionRoutes
MCTargets == {"executing", "in_review", "paused", "queued", "abandoned"}
CallerSymmetry == TLC!Permutations(Callers)
=============================================================================
