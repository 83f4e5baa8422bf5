---------------------------- MODULE SpawnConfig ----------------------------
(***************************************************************************)
(* From the layers of spawn configuration to the command line an agent is  *)
(* started with: core/spawn_config.py, core/spawn_routing.py,              *)
(* core/codex_args.py, models/spawn.py and what the runtimes take of it.   *)
(* Computation only; the theorem about it follows the definitions.         *)
(*                                                                         *)
(* A layer is a function on the leaves it sets, pairs of a section and a   *)
(* key; what it says of a leaf is a value nobody looks into.               *)
(***************************************************************************)
EXTENDS Integers, Sequences

Failed == <<>>    \* a layer without leaves, which is never accepted

Invocation == {"invocation"} \X {"command", "runtime", "codex_sandbox", "background",
                                 "log_path_template", "monitor", "monitor_log_path_template"}
Config == {"config"} \X {"provider", "model", "fallback_model", "effort", "permission_mode",
                         "disallowed_tools", "max_turns", "max_budget_usd", "output_format",
                         "task_kind"}
Prompts == {"prompts"} \X {"prompt_template", "resume_prompt_template", "system_prompt_append"}
Leaves == Invocation \cup Config \cup Prompts

Runtime == <<"invocation", "runtime">>
Provider == <<"config", "provider">>
Model == <<"config", "model">>
Effort == <<"config", "effort">>
TaskKind == <<"config", "task_kind">>
MaxTurns == <<"config", "max_turns">>
Fallback == <<"config", "fallback_model">>
Disallowed == <<"config", "disallowed_tools">>
SystemAppend == <<"prompts", "system_prompt_append">>
Nothing == "nothing"    \* the value that stands for an empty string or list

_deep_merge(base, override) ==
  [x \in DOMAIN base \cup DOMAIN override |->
     IF x \in DOMAIN override THEN override[x] ELSE base[x]]
Nowhere == {}
NoLayer == [x \in Nowhere |-> Nothing]

-----------------------------------------------------------------------------
(* Layers.  in has                                                         *)
(*   shipped    templates/spawn/defaults.yaml                              *)
(*   agent      the packaged template of the session's agent               *)
(*   file       .tripwire/spawn/defaults.yaml of the project               *)
(*   inline     spawn_defaults in project.yaml                             *)
(*   session    spawn_config in session.yaml, and own: whether it is there *)
(*   declared   the runtime in the project's file of the agent             *)

Layers(in) == << in.shipped, in.agent, in.file, in.inline,
                 IF in.own THEN in.session ELSE NoLayer >>
Stacked(in) ==
  LET layer == Layers(in)
  IN _deep_merge(_deep_merge(_deep_merge(_deep_merge(layer[1], layer[2]), layer[3]),
                             layer[4]),
                 layer[5])

\* No layer may add a leaf and none may be missing.
model_validate(layer) == DOMAIN layer = Leaves

Runtimes == {"claude", "codex"}
_project_explicitly_pins_runtime(in) ==
  Runtime \in DOMAIN in.file \/ Runtime \in DOMAIN in.inline

\* Whether the session pins the runtime is asked of `invocation` as if it were a
\* model; it is a dict, and the question raises.
_apply_agent_yaml_overrides(in, resolved) ==
  IF in.declared \notin Runtimes \/ _project_explicitly_pins_runtime(in) THEN resolved
  ELSE IF in.own THEN Failed
  ELSE [resolved EXCEPT ![Runtime] = in.declared, ![Provider] = in.declared]

\* What codex cannot be told is dropped; what it is told otherwise is kept.
_apply_provider_validation(resolved) ==
  IF resolved[Provider] # "codex" THEN resolved
  ELSE [resolved EXCEPT ![Disallowed] = Nothing, ![Fallback] = Nothing]
Warnings(in, resolved) ==
  IF resolved[Provider] # "codex" THEN {}
  ELSE {x \in {Disallowed, Fallback, SystemAppend} : resolved[x] # Nothing} \cup
       {x \in {MaxTurns} : resolved[x] # in.shipped[x]}

load_resolved_spawn_config(in) ==
  IF ~model_validate(Stacked(in)) THEN Failed
  ELSE LET resolved == _apply_agent_yaml_overrides(in, Stacked(in))
       IN IF resolved = Failed THEN Failed ELSE _apply_provider_validation(resolved)

-----------------------------------------------------------------------------
(* Routes.  A table has a default and routes, each a function on those of  *)
(* its three fields that are given.                                        *)

Claude(model, effort) == [provider |-> "claude", model |-> model, effort |-> effort]
ShippedRouting ==
  [default |-> "agentic_loop",
   routes |-> [lint_or_template_edit |-> Claude("sonnet", "low"),
               small_cli_command |-> Claude("sonnet", "medium"),
               refactor_with_tdd |-> Claude("sonnet", "high"),
               agentic_loop |-> Claude("opus", "xhigh"),
               gnarly_debug |-> Claude("opus", "max"),
               cross_review |-> Claude("opus", "high")]]

_merge_routes(base, override) ==
  [default |-> IF override.default = Nothing THEN base.default ELSE override.default,
   routes |-> _deep_merge(base.routes, override.routes)]

Field(route, field, otherwise) == IF field \in DOMAIN route THEN route[field] ELSE otherwise
_build_resolution(name, route) ==
  [task_kind |-> name, provider |-> Field(route, "provider", "claude"),
   model |-> Field(route, "model", Nothing), effort |-> Field(route, "effort", Nothing)]

resolve_route(task_kind, shipped, project) ==
  LET table == _merge_routes(shipped, project)
      name == IF task_kind = Nothing THEN table.default ELSE task_kind
  IN IF name \in DOMAIN table.routes THEN _build_resolution(name, table.routes[name]) ELSE Failed

-----------------------------------------------------------------------------
(* Command lines.  how has                                                 *)
(*   resume     whether an earlier conversation is taken up again          *)
(*   prompt     the rendered template for that, and append likewise        *)
(*   skills     those the project's file of the agent declares             *)
(*   turns      --max-turns of the caller, or nothing                      *)

build_claude_args(config, route, how) ==
  IF route = Failed THEN Failed
  ELSE [command |-> config[<<"invocation", "command">>],
        flags |-> {IF how.resume THEN "--resume" ELSE "--session-id"},
        model |-> route.model, effort |-> route.effort, fallback |-> config[Fallback],
        permission |-> config[<<"config", "permission_mode">>],
        disallowed |-> config[Disallowed], turns |-> config[MaxTurns],
        budget |-> config[<<"config", "max_budget_usd">>],
        format |-> config[<<"config", "output_format">>],
        append |-> how.append, prompt |-> how.prompt]

build_codex_args(config, how) ==
  [command |-> IF config[<<"invocation", "command">>] = "claude" THEN "codex"
               ELSE config[<<"invocation", "command">>],
   flags |-> IF how.resume THEN {"resume"} ELSE {},
   model |-> config[Model], effort |-> config[Effort],
   sandbox |-> config[<<"invocation", "codex_sandbox">>],
   prompt |-> IF how.append = Nothing THEN how.prompt ELSE <<how.append>> \o how.prompt]

\* What an operator is told to type.
_start_command(how) ==
  [command |-> "claude",
   flags |-> {"--session-id"} \cup (IF how.resume THEN {"--resume"} ELSE {})]

\* The runtime decides the command line, the provider whether skills go into the
\* prompt, and nobody compares the two.
Command(in, shippedRoutes, projectRoutes, how) ==
  LET loaded == load_resolved_spawn_config(in)
      config == [loaded EXCEPT ![MaxTurns] = IF how.turns = Nothing THEN @ ELSE how.turns]
      inlined == config[Provider] = "codex" /\ how.skills # {}
      told == [how EXCEPT !.prompt = IF inlined THEN <<"skills", @>> ELSE <<@>>]
  IN IF loaded = Failed THEN Failed
     ELSE CASE config[Runtime] = "claude" ->
                 build_claude_args(config, resolve_route(config[TaskKind], shippedRoutes,
                                                         projectRoutes), told)
            [] config[Runtime] = "codex" -> build_codex_args(config, told)
            [] config[Runtime] = "manual" -> _start_command(told)

-----------------------------------------------------------------------------

\* check/invalid_effort, on the values of the layers.
EffortMatrix == [opus |-> {"low", "medium", "high", "xhigh"},
                 sonnet |-> {"low", "medium", "high"}, haiku |-> {"low", "medium"}]
_check_invalid_effort(in) ==
  LET config == load_resolved_spawn_config(in)
  IN /\ config # Failed
     /\ config[Model] \in DOMAIN EffortMatrix
     /\ config[Effort] \notin EffortMatrix[config[Model]]
=============================================================================
