------------------------- MODULE MCSessionLifecycle -------------------------
(***************************************************************************)
(* Two callers on one session with one member issue, under the routes of   *)
(* the shipped workflows.  IssueClosure is the table of the issue-closure  *)
(* workflow (workflow.yaml.j2).                                            *)
(***************************************************************************)
EXTENDS SessionLifecycle

CS == INSTANCE CodingSession
TLC == INSTANCE TLC

MCRoutes == CS!SessionRoutes
MCScripts == CS!SideEffects
OneIssue == <<"k1">>

IssueClosure ==
  { <<Lifecycle[n], Lifecycle[n + 1]>> : n \in 1..5 }
  \cup { <<"in_review", "executing">>, <<"verified", "in_review">>,
         <<"deferred", "planned">> }
  \cup { <<s, "deferred">> : s \in {"planned", "queued", "executing"} }
  \cup { <<s, "abandoned">> :
           s \in {"planned", "queued", "executing", "in_review", "verified", "deferred"} }

\* The scripts that import load_session from core.store, where it is not.
Shipped == {"sweep_issues_forward", "flip_drafts_to_ready", "flip_drafts_to_draft",
            "close_open_prs", "remove_worktrees", "kill_runtime",
            "rebase_pt_branch"}
AsShipped == {Shipped}
Either == {{}, Shipped}
CallerSymmetry == TLC!Permutations(Callers)
EarlyStart == {"planned", "executing", "in_review", "verified", "completed"}
InReview == {"in_review"}
=============================================================================
