-------------------------- MODULE SpawnConfigCases --------------------------
(***************************************************************************)
(* The shipped layers and routes, and what SpawnConfig makes of them for   *)
(* sessions and projects that say a little more.  Texts stand for          *)
(* themselves only by name.                                                *)
(***************************************************************************)
EXTENDS TLC

Cfg == INSTANCE SpawnConfig

ShippedInvocation ==
  [command |-> "claude", runtime |-> "claude", codex_sandbox |-> "read-only",
   background |-> "yes", log_path_template |-> "log", monitor |-> "yes",
   monitor_log_path_template |-> "monitor log"]
ShippedConfig ==
  [provider |-> "claude", model |-> "opus", fallback_model |-> "sonnet", effort |-> "xhigh",
   permission_mode |-> "bypassPermissions", disallowed_tools |-> "Agent",
   max_turns |-> "200", max_budget_usd |-> "100", output_format |-> "stream-json",
   task_kind |-> Cfg!Nothing]
ShippedDefaults ==
  [leaf \in Cfg!Leaves |->
     CASE leaf[1] = "invocation" -> ShippedInvocation[leaf[2]]
       [] leaf[1] = "config" -> ShippedConfig[leaf[2]]
       [] leaf[1] = "prompts" -> leaf[2]]

NoRoutes == [default |-> Cfg!Nothing, routes |-> Cfg!NoLayer]

\* A session of an agent whose file, like all that are shipped, says claude.
Plain == [shipped |-> ShippedDefaults, agent |-> Cfg!NoLayer, file |-> Cfg!NoLayer,
          inline |-> Cfg!NoLayer, own |-> FALSE, session |-> Cfg!NoLayer, declared |-> "claude"]
Started == [resume |-> FALSE, prompt |-> "plan", append |-> "rules", skills |-> {},
            turns |-> Cfg!Nothing]
Starts(in, how) == Cfg!Command(in, Cfg!ShippedRouting, NoRoutes, how)
Own(layer) == [Plain EXCEPT !.own = TRUE, !.session = layer]
Pinned(in) == [in EXCEPT !.inline = Cfg!Runtime :> "claude"]
Reviewer == [Plain EXCEPT !.declared = "codex"]

\* A session that has settings of its own can only be loaded in a project that
\* pins the runtime, whatever the settings are, also when they pin it themselves;
\* the check before the spawn stays silent about it.
ASSUME OwnSettingsNeedAPin ==
  \A own \in {Cfg!NoLayer, Cfg!Runtime :> "claude", Cfg!Effort :> "max"} :
     /\ Cfg!load_resolved_spawn_config(Own(own)) = Cfg!Failed
     /\ ~Cfg!_check_invalid_effort(Own(own))
     /\ Cfg!load_resolved_spawn_config(Pinned(Own(own))) # Cfg!Failed

\* Model and effort of a claude are those of its route; what the layers say of
\* them is checked and not used, and what is used is not checked.
ASSUME RoutesDecideForClaude ==
  LET haiku == [Plain EXCEPT !.inline = (Cfg!Model :> "haiku") @@ (Cfg!Effort :> "xhigh")]
      debug == Pinned(Own(Cfg!TaskKind :> "gnarly_debug"))
  IN /\ Cfg!_check_invalid_effort(haiku)
     /\ Starts(haiku, Started) = Starts(Plain, Started)
     /\ ~Cfg!_check_invalid_effort(debug)
     /\ Starts(debug, Started).effort \notin Cfg!EffortMatrix[Starts(debug, Started).model]

\* The reviewer's own model is read by nobody: its codex is asked for a claude's.
ASSUME CodexGetsOpus ==
  /\ Starts(Reviewer, Started).command = "codex"
  /\ Starts(Reviewer, Started).model = "opus"
  /\ Cfg!load_resolved_spawn_config(Reviewer)[Cfg!Fallback] = Cfg!Nothing
  /\ Cfg!Warnings(Reviewer, Cfg!_apply_agent_yaml_overrides(Reviewer, ShippedDefaults))
       = {Cfg!Disallowed, Cfg!Fallback, Cfg!SystemAppend}

\* A project that pins the runtime alone gets a codex that is treated like a
\* claude: it is given no skills, and nothing is dropped or warned of.
ASSUME RuntimeAndProviderDiffer ==
  LET codex == [Reviewer EXCEPT !.inline = Cfg!Runtime :> "codex"]
      skilled == [Started EXCEPT !.skills = {"reviewing"}]
  IN /\ Starts(codex, skilled).prompt = <<"rules", "plan">>
     /\ Starts(Reviewer, skilled).prompt = <<"rules", "skills", "plan">>
     /\ Cfg!Warnings(codex, Cfg!Stacked(codex)) = {}

\* What an operator is told to type to resume has the two flags that
\* build_claude_args never puts together.
ASSUME ManualResumeHasBoth ==
  LET manual == [Plain EXCEPT !.file = Cfg!Runtime :> "manual"]
      again == [Started EXCEPT !.resume = TRUE]
  IN /\ Starts(manual, again).flags = {"--session-id", "--resume"}
     /\ Starts(Plain, again).flags = {"--resume"}

\* A project's route replaces a shipped one whole: fields it leaves out are empty,
\* not those of the route it replaces.  An unknown route fails only now.
ASSUME RoutesAreReplacedWhole ==
  LET project == [NoRoutes EXCEPT !.routes = "cross_review" :> [effort |-> "low"]]
      review == Pinned(Own(Cfg!TaskKind :> "cross_review"))
      unknown == Pinned(Own(Cfg!TaskKind :> "misspelt"))
  IN /\ Cfg!Command(review, Cfg!ShippedRouting, project, Started).model = Cfg!Nothing
     /\ Starts(unknown, Started) = Cfg!Failed
     /\ Cfg!load_resolved_spawn_config(unknown) # Cfg!Failed

\* The order of the layers; the two callers that know better come last.
ASSUME LaterLayersWin ==
  LET says(layer) == Cfg!MaxTurns :> layer
      three == Pinned([Own(says("session")) EXCEPT !.agent = says("agent"), !.file = says("file")])
      two == [three EXCEPT !.own = FALSE]
      one == [two EXCEPT !.file = Cfg!NoLayer]
  IN /\ Starts(one, Started).turns = "agent" /\ Starts(two, Started).turns = "file"
     /\ Starts(three, Started).turns = "session"
     /\ Starts(three, [Started EXCEPT !.turns = "caller"]).turns = "caller"
=============================================================================
