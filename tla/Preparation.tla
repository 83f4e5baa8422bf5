---------------------------- MODULE Preparation ----------------------------
(***************************************************************************)
(* What stands between a queued session and its agent: the readiness and   *)
(* strict checks (core/session_readiness.py, core/session_check.py), what  *)
(* preparation writes into the worktrees (runtimes/prep.py,                *)
(* cli/project/hooks.py) and the order in which all of it may fail.  The   *)
(* worktrees themselves, as two callers make and find them, are those of   *)
(* SpawnSession.                                                           *)
(*                                                                         *)
(* A session and its surroundings are a record w:                          *)
(*   plan, tasks, checks   "missing", "scaffold" or "filled"               *)
(*   repos, clones, home   the session's repositories in order, where the  *)
(*                         project has them, and where the project is      *)
(*   members, issues       issue keys; for those on disk status, blockers  *)
(*                         and the documents their DoD asks for            *)
(*   templates             documents there is a template for               *)
(*   waits, sessions       sessions waited for; the status of those there  *)
(*   manifest              artifacts: doc, phase, owner, required          *)
(*   handoff               "missing", "invalid" or "valid"                 *)
(*   in, routes, how       as in SpawnConfig                               *)
(*   known                 the skills that are shipped                     *)
(*   has                   of claude, codex, login, gh, remote,            *)
(*                         conversation (the id to resume), monitor        *)
(*                         (a readable runtime configuration)              *)
(*   accepts               of worktrees, project (its worktree), pull:     *)
(*                         what git and gh agree to                        *)
(***************************************************************************)
EXTENDS SpawnConfig, FiniteSets

-----------------------------------------------------------------------------
(* Strict checks.                                                          *)

Document(w, doc) ==
  CASE doc = "plan.md" -> w.plan
    [] doc = "task-checklist.md" -> w.tasks
    [] doc = "verification-checklist.md" -> w.checks

_check_plan_unfilled(w) == w.plan # "filled"
_check_checklist_unfilled(w) == w.tasks = "scaffold"
_check_verification_unfilled(w) == w.checks = "scaffold"
_check_repos_overlap(w) ==
  \E i \in DOMAIN w.repos : w.repos[i] \in DOMAIN w.clones /\ w.clones[w.repos[i]] = w.home
_check_missing_template(w) ==
  \E key \in w.members \cap DOMAIN w.issues : ~(w.issues[key].asks \subseteq w.templates)

\* All errors but the one on templates, which is a warning.
strict_check(w) ==
     {x \in {"no_repos"} : w.repos = <<>>}
\cup {x \in {"no_issues"} : w.members = {}}
\cup {x \in {"repos_overlap"} : _check_repos_overlap(w)}
\cup {x \in {"plan_unfilled"} : _check_plan_unfilled(w)}
\cup {x \in {"checklist_unfilled"} : _check_checklist_unfilled(w)}
\cup {x \in {"verification_unfilled"} : _check_verification_unfilled(w)}
\cup {x \in {"missing_template"} : _check_missing_template(w)}
\cup {x \in {"invalid_effort"} : _check_invalid_effort(w.in)}
any_blocking_error(results) == results \ {"missing_template"} # {}

-----------------------------------------------------------------------------
(* Readiness.                                                              *)

Planning(w) == {a.doc : a \in {b \in w.manifest : b.phase = "planning" /\ b.owner = "pm"
                                                  /\ b.required}}
Blockers(w) == UNION {w.issues[key].blockers : key \in w.members \cap DOMAIN w.issues}
               \ w.members
Blocks(w, key) == key \notin DOMAIN w.issues \/ w.issues[key].status # "completed"
Delays(w, s) == s \in DOMAIN w.sessions /\ w.sessions[s] \notin {"completed", "verified"}

check_readiness(w, kind) ==
     {<<"artifact", doc>> : doc \in {d \in Planning(w) : Document(w, d) = "missing"}}
\cup {<<"issue", key>> : key \in w.members \ DOMAIN w.issues}
\cup {<<"blocker", key>> : key \in {k \in Blockers(w) : Blocks(w, k)}}
\cup {<<"session", s>> : s \in {t \in w.waits : Delays(w, t)}}
\cup {<<"handoff", w.handoff>> : x \in {y \in {1} : w.handoff # "valid"}}
\cup {<<"claude", "PATH">> : x \in {y \in {1} : kind = "spawn" /\ ~w.has.claude}}

-----------------------------------------------------------------------------
(* What preparation leaves in a worktree: a record t of                    *)
(*   skills, hash    the skills in .claude, the set the sentinel names     *)
(*   text, mark      what CLAUDE.md says, what its sentinel names          *)
(*   kept            how many old versions of either are kept beside       *)
(*   settings        of .claude: nothing, Broken, or whether our hook is   *)
(*                   among them, other hooks and the rest                  *)
(*   excludes, hook, kickoff                                               *)

None == <<>>
Broken == <<"not", "JSON">>
Fresh == [skills |-> {}, hash |-> {}, text |-> None, mark |-> None, kept |-> 0,
          settings |-> None, excludes |-> {}, hook |-> None, kickoff |-> None]
_MANAGED_EXCLUDES == {".claude/", ".tripwire/"}

_append_to_git_info_exclude(t) == [t EXCEPT !.excludes = @ \cup _MANAGED_EXCLUDES]

\* An agent without skills is left those of the agent before it.
copy_skills(t, names) ==
  _append_to_git_info_exclude(
    IF names = {} \/ (t.hash = names /\ names \subseteq t.skills) THEN t
    ELSE [t EXCEPT !.skills = names, !.hash = names,
                   !.kept = IF t.skills = {} THEN @ ELSE @ + 1])

\* The text names skills, worktrees and concepts in order and says on which branch
\* a worktree is; the fingerprint knows neither order nor branch.
Elements(s) == {s[i] : i \in DOMAIN s}
_claude_md_hash(inputs) ==
  [agent |-> inputs.agent, skills |-> Elements(inputs.skills),
   trees |-> {<<e.repo, e.path>> : e \in Elements(inputs.trees)},
   concepts |-> Elements(inputs.concepts)]
render_claude_md(t, inputs) ==
  IF t.mark = <<_claude_md_hash(inputs)>> /\ t.text # None THEN t
  ELSE [t EXCEPT !.text = <<inputs>>, !.mark = <<_claude_md_hash(inputs)>>,
                 !.kept = IF t.text = None THEN @ ELSE @ + 1]

\* One entry per reference in the plan, in the order of the first.
extract_plan_concepts(refs, nodes) ==
  LET first == {i \in DOMAIN refs : \A j \in DOMAIN refs : j < i => refs[j] # refs[i]}
      rank(i) == Cardinality({j \in first : j <= i})
  IN [n \in 1..Cardinality(first) |->
        LET i == CHOOSE k \in first : rank(k) = n
        IN <<refs[i], refs[i] \in nodes>>]

\* Settings that can be read are kept, but for the hooks that --force replaces.
install_settings_into(t, force) ==
  LET old == IF t.settings \in {None, Broken} THEN [ours |-> FALSE, hooks |-> {}, rest |-> {}]
             ELSE t.settings[1]
      new == IF force THEN [old EXCEPT !.ours = TRUE, !.hooks = {}] ELSE [old EXCEPT !.ours = TRUE]
  IN [t EXCEPT !.settings = <<new>>]

install_pre_push_hook(t, enabled, session) ==
  IF enabled THEN [t EXCEPT !.hook = <<session>>] ELSE t
render_kickoff(t, prompt) == [t EXCEPT !.kickoff = <<prompt>>]

\* git takes hooks and excludes from the repository, never from the directory it
\* keeps for a linked worktree, where these two are put.
HookThatRuns(t, linked) == IF linked THEN None ELSE t.hook
Ignored(t, linked) == IF linked THEN {} ELSE t.excludes

\* All of it, in the first worktree.
Prepared(t, enabled, session, inputs, prompt) ==
  LET hooked == install_settings_into(install_pre_push_hook(t, enabled, session), FALSE)
      skilled == copy_skills(hooked, Elements(inputs.skills))
  IN render_kickoff(render_claude_md(skilled, inputs), prompt)

-----------------------------------------------------------------------------
(* The spawn, step by step.                                                *)

resume(w) == w.how.resume
Resolved(w) == load_resolved_spawn_config(w.in)
Refused(w) ==
  \/ ~w.has.claude
  \/ ~resume(w) /\ any_blocking_error(strict_check(w))
  \/ Resolved(w) = Failed

Steps == << "environment", "gh", "handoff", "worktrees", "project tree", "some tree",
            "hook", "settings", "skills", "claude_md", "prompt", "kickoff", "conversation",
            "argv", "agent", "monitor" >>
Uncloned(w) == \E i \in DOMAIN w.repos : w.repos[i] \notin DOMAIN w.clones
CodeTrees(w) == {i \in DOMAIN w.repos : /\ w.repos[i] \in DOMAIN w.clones
                                        /\ w.clones[w.repos[i]] # w.home}

Fails(w, step) ==
  CASE step = "environment" -> Resolved(w)[Runtime] = "codex" /\ ~w.has.login
    [] step = "gh" -> ~w.has.gh
    [] step = "handoff" -> w.handoff # "valid"
    [] step = "worktrees" -> Uncloned(w) \/ ~w.accepts.worktrees
    [] step = "project tree" -> w.has.remote /\ ~resume(w) /\ ~(w.accepts.project /\ w.accepts.pull)
    [] step = "some tree" -> CodeTrees(w) = {} /\ ~w.has.remote
    [] step = "skills" -> ~(w.how.skills \subseteq w.known)
    [] step = "prompt" -> w.plan = "missing" /\ ~resume(w)
    [] step = "conversation" -> resume(w) /\ ~w.has.conversation
    [] step = "argv" -> Command(w.in, ShippedRouting, w.routes, w.how) = Failed
    [] step = "agent" -> Resolved(w)[Runtime] = "codex" /\ ~w.has.codex
    [] step = "monitor" -> Resolved(w)[Runtime] # "manual" /\ ~w.has.monitor
    [] OTHER -> FALSE    \* hooks and settings are installed or warned of

\* The step a spawn ends at, 0 if it is refused.
EndsAt(w) ==
  IF Refused(w) THEN 0
  ELSE LET failing == {i \in DOMAIN Steps : Fails(w, Steps[i])}
       IN IF failing = {} THEN Len(Steps) + 1
          ELSE CHOOSE i \in failing : \A j \in failing : i <= j
Spawned(w) == EndsAt(w) = Len(Steps) + 1
Reaches(w, step) == \E i \in DOMAIN Steps : Steps[i] = step /\ i <= EndsAt(w)

\* What is there by then.  Worktrees are made one after the other, and the pull
\* request of the project's after it is made.
LeftBehind(w) ==
     {i \in CodeTrees(w) : /\ Reaches(w, "worktrees") /\ w.accepts.worktrees
                           /\ \A j \in 1..i : w.repos[j] \in DOMAIN w.clones}
\cup {x \in {0} : Reaches(w, "project tree") /\ w.has.remote /\ w.accepts.project}
AgentRuns(w) == Reaches(w, "monitor") /\ Resolved(w)[Runtime] # "manual"

\* What the next spawn of the session meets: the worktrees of this one.
Again(w) == [w EXCEPT !.accepts.worktrees = @ /\ LeftBehind(w) \ {0} = {},
                      !.accepts.project = @ /\ 0 \notin LeftBehind(w)]

\* A batch goes on after every failure, and primes the cache for two or more.
batch_spawn(ws, prime, primes) ==
  [primed |-> prime /\ Len(ws) > 1 /\ primes,
   spawned |-> {i \in DOMAIN ws : Spawned(ws[i])},
   failed |-> {i \in DOMAIN ws : ~Spawned(ws[i])}]

-----------------------------------------------------------------------------
(* The hook that validates after every edit.  A path is the sequence of    *)
(* its names, from the root.                                               *)

_SESSION_ARTIFACTS == {"session.yaml", "pm-response.yaml", "developer.md", "verified.md",
                       "self-review.md", "decisions.md"}
Named(path, up) == IF Len(path) > up THEN path[Len(path) - up] ELSE ""
_is_tripwire_artifact(path, yaml) ==
  \/ Named(path, 0) \in _SESSION_ARTIFACTS /\ Named(path, 2) = "sessions"
  \/ Named(path, 0) = "issue.yaml" /\ Named(path, 2) = "issues"
  \/ yaml /\ \E i \in 1..(Len(path) - 1) : path[i] = "nodes"
  \/ Named(path, 0) = "project.yaml"

\* The innermost project around the file.
_find_project_root(path, projects) ==
  LET around == {i \in 0..(Len(path) - 1) : SubSeq(path, 1, i) \in projects}
  IN IF around = {} THEN Failed ELSE SubSeq(path, 1, CHOOSE i \in around : \A j \in around : j <= i)

\* Only errors found in time block; verdict is what validate makes of the project.
validate_on_edit(path, yaml, projects, verdict) ==
  IF /\ _is_tripwire_artifact(path, yaml)
     /\ _find_project_root(path, projects) # Failed
     /\ verdict = "errors"
  THEN "block" ELSE "silent"

-----------------------------------------------------------------------------
(* validate-plan.  A plan has references and steps, a step the verbs of    *)
(* its title and the paths it names.                                       *)

_classify_step(step) ==
  CASE "create" \in step.verbs /\ "modify" \notin step.verbs -> "create"
    [] "modify" \in step.verbs /\ "create" \notin step.verbs -> "modify"
    [] OTHER -> "other"
\* trees has, for each clone that is registered, the paths in it with the prefix of
\* the session's binding and without.
_check_target_existence(step, trees) ==
  {<<_classify_step(step), p>> : p \in
     {q \in step.paths : CASE _classify_step(step) = "create" -> q \in UNION trees
                           [] _classify_step(step) = "modify" -> q \notin UNION trees
                           [] OTHER -> FALSE}}
validate_plan(plan, refs, nodes, steps, trees) ==
  IF plan = "missing" THEN 2
  ELSE IF \E i \in DOMAIN refs : refs[i] \notin nodes THEN 2
  ELSE IF trees # {} /\ \E step \in steps : _check_target_existence(step, trees) # {} THEN 1
  ELSE 0
=============================================================================
