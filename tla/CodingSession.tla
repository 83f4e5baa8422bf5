---------------------------- MODULE CodingSession ----------------------------
(***************************************************************************)
(* The coding-session workflow as shipped in templates/workflow.yaml.j2:   *)
(* its statuses, its declared routes and what each route asks of a         *)
(* transition.  The workflow executor is generic over these tables; the    *)
(* MC modules hand them to it as constants.                                *)
(*                                                                         *)
(* A route is the pair <<from, to>>.  The creation route                   *)
(* source:issue -> planned is left out: no session ever has the status     *)
(* "source:issue", so the executor cannot take it.                         *)
(***************************************************************************)
EXTENDS Sequences, TLC

SessionStatuses == {"planned", "queued", "executing", "in_review", "verified",
             "completed", "paused", "failed", "abandoned"}

ForwardRoutes ==
  { <<"planned", "queued">>, <<"queued", "executing">>,
    <<"executing", "in_review">>, <<"in_review", "verified">>,
    <<"in_review", "executing">>, <<"verified", "in_review">>,
    <<"verified", "completed">> }

SideRoutes ==
  { <<"executing", "paused">>, <<"executing", "failed">>,
    <<"paused", "executing">>, <<"failed", "executing">>,
    <<"paused", "queued">>, <<"paused", "completed">>,
    <<"completed", "paused">> }

AbandonRoutes ==
  { <<s, "abandoned">> : s \in SessionStatuses \ {"completed", "abandoned"} }

SessionRoutes == ForwardRoutes \cup SideRoutes \cup AbandonRoutes

\* The statuses in the order of the file, and the ones that are terminal.
StatusList == << "planned", "queued", "executing", "in_review", "verified",
                 "completed", "paused", "failed", "abandoned" >>
TerminalStatuses == {"completed", "abandoned"}

\* kind: of every route; the ones not listed are side routes.
ForwardKinds ==
  { <<"planned", "queued">>, <<"queued", "executing">>, <<"executing", "in_review">>,
    <<"in_review", "verified">>, <<"verified", "completed">>,
    <<"paused", "executing">>, <<"failed", "executing">> }
RevertKinds ==
  { <<"in_review", "executing">>, <<"verified", "in_review">>, <<"paused", "queued">>,
    <<"paused", "completed">>, <<"completed", "paused">> }
RouteKind(r) == IF r \in ForwardKinds THEN "forward"
                ELSE IF r \in RevertKinds THEN "revert" ELSE "side"

\* side_effects: the scripts a route runs before its status flip, in order.
SideEffects ==
  [r \in SessionRoutes |->
     CASE r = <<"planned", "queued">> -> <<"sweep_issues_forward">>
       [] r = <<"executing", "in_review">> ->
            <<"sweep_issues_forward", "rebase_pt_branch">>
       [] r = <<"in_review", "verified">> -> <<"sweep_issues_forward">>
       [] r = <<"verified", "completed">> ->
            <<"flip_drafts_to_ready", "sweep_issues_forward", "remove_worktrees">>
       [] r = <<"completed", "paused">> ->
            <<"flip_drafts_to_draft", "append_pm_followup_stub">>
       [] r = <<"executing", "abandoned">> ->
            <<"kill_runtime", "close_open_prs", "remove_worktrees">>
       [] r \in {<<s, "abandoned">> : s \in {"paused", "failed", "in_review", "verified"}} ->
            <<"close_open_prs", "remove_worktrees">>
       [] OTHER -> <<>>]

\* Routes whose controls list a prompt_check (each lists at most one).
PromptCheckedRoutes ==
  { <<"planned", "queued">>, <<"queued", "executing">>,
    <<"in_review", "verified">>, <<"verified", "completed">> }

\* Routes whose controls list jit_prompts.
JitPromptedRoutes == { <<"verified", "completed">> }

\* Targets for which close_active_engagement has an outcome.
EngagementClosingStatuses == {"completed", "abandoned", "failed"}
=============================================================================
