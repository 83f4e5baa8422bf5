--------------------------- MODULE MCProjectStore ---------------------------
(***************************************************************************)
(* Two phases, and an issue between planned, queued and executing.         *)
(*                                                                         *)
(* The assumptions are about the file the phase is in, and about files of  *)
(* instances in general; those about migrations are in MigrationCases.     *)
(* TLC evaluates all of them.                                              *)
(***************************************************************************)
EXTENDS ProjectStore, MigrationCases, TLC

MCPhases == {"scoping", "scoped"}
MCPhaseRoutes == { <<"scoping", "scoped">> }
MCRoutes == { <<"planned", "queued">>, <<"queued", "executing">>, <<"executing", "queued">> }
Symmetry == Permutations(Procs)

File == INSTANCE InstanceFile
          WITH Keys <- {"phase", "updated_at"}, Scalars <- {"scoping", "scoped", "now"},
               Texts <- {"words"}, Empty <- "", Names <- {"project", "another"}

\* phase-advancement: one instance, project.yaml, whatever name it is given.
PhaseShape == [placeholder |-> FALSE, field |-> "phase", required |-> {"phase"},
               enum |-> {"scoping", "scoped", "executing", "reviewing"}, blank |-> {""}]

\* The lock of the executor does not guard project.yaml, and validate does not
\* check the shape of it; both hold for a file per instance.
ASSUME PhaseFileIsUnguarded ==
  LET files == << "project" >> :> [parses |-> TRUE, file |-> [front |-> FALSE, body |-> File!NoBody,
                                                             data |-> ("phase" :> "lost")]]
      shapes == [p \in BOOLEAN |-> [PhaseShape EXCEPT !.placeholder = p]]
  IN /\ ~File!OneLockPerFile("phase-advancement", PhaseShape)
     /\ File!OneLockPerFile("phase-advancement", shapes[TRUE])
     /\ File!check_instance_shape_conforms(PhaseShape, files) = {}
     /\ File!check_instance_shape_conforms(shapes[TRUE], files) # {}

\* What a move leaves is as well formed as what it found, and a second move to
\* the same status changes nothing more.
ASSUME MovesSettle ==
  \A f \in File!Files :
     File!WellFormed(f) =>
       LET g == File!AfterMove(f, "phase", "scoped", "visit", "now")
       IN File!WellFormed(g) /\ File!AfterMove(g, "phase", "scoped", "visit", "now") = g
=============================================================================
