-------------------------- MODULE PreparationCases --------------------------
(***************************************************************************)
(* Sessions for Preparation: what is found out before the first worktree   *)
(* is made and what only after, and what a second preparation changes.     *)
(***************************************************************************)
EXTENDS SpawnConfigCases, Sequences

Prep == INSTANCE Preparation

\* A session that can be spawned, and ways in which another differs from it.
Sound ==
  [plan |-> "filled", tasks |-> "missing", checks |-> "filled",
   repos |-> <<"code">>, clones |-> "code" :> "/code", home |-> "/project",
   members |-> {"k1"}, issues |-> "k1" :> [status |-> "queued", blockers |-> {}, asks |-> {}],
   templates |-> {}, waits |-> {}, sessions |-> Cfg!NoLayer,
   manifest |-> {[doc |-> doc, phase |-> "planning", owner |-> "pm", required |-> TRUE] :
                   doc \in {"plan.md", "verification-checklist.md"}},
   handoff |-> "valid", in |-> Pinned(Plain), routes |-> NoRoutes, how |-> Started,
   known |-> {"tdd"},
   has |-> [claude |-> TRUE, codex |-> TRUE, login |-> TRUE, gh |-> TRUE, remote |-> TRUE,
            conversation |-> TRUE, monitor |-> TRUE],
   accepts |-> [worktrees |-> TRUE, project |-> TRUE, pull |-> TRUE]]
Misrouted(w) == [w EXCEPT !.in = Pinned(Own(Cfg!TaskKind :> "misspelt"))]
Unskilled(w) == [w EXCEPT !.how.skills = {"misspelt"}]

Sessions ==
  {[w EXCEPT !.has.gh = gh, !.has.codex = codex, !.has.monitor = monitor, !.accepts.pull = pull,
             !.handoff = handoff] :
     w \in {Sound, Misrouted(Sound), Unskilled(Sound), [Sound EXCEPT !.in = Reviewer],
            [Sound EXCEPT !.in = Own(Cfg!NoLayer)], [Sound EXCEPT !.repos = <<"code", "lib">>],
            [Sound EXCEPT !.plan = "missing"], [Sound EXCEPT !.clones["code"] = "/project"]},
     gh \in BOOLEAN, codex \in BOOLEAN, monitor \in BOOLEAN, pull \in BOOLEAN,
     handoff \in {"missing", "valid"}}

\* What ends a spawn after it has made a worktree.  Then the next one is refused,
\* also when nothing else is wrong any more.
ASSUME LateFailures ==
  LET late == {w \in Sessions : ~Prep!Spawned(w) /\ Prep!LeftBehind(w) # {}}
      next(w) == [Sound EXCEPT !.accepts = [Prep!Again(w).accepts EXCEPT !.pull = TRUE]]
  IN /\ {Prep!Steps[Prep!EndsAt(w)] : w \in late}
          = {"worktrees", "project tree", "skills", "argv", "agent", "monitor"}
     /\ \A w \in late : ~Prep!Spawned(next(w))
     /\ \A w \in Sessions : ~Prep!Spawned(w) /\ Prep!LeftBehind(w) = {}
                              => Prep!Spawned(next(w))

\* The runtime configuration of the monitor is read when the agent runs already.
ASSUME AgentBeforeMonitor ==
  \A w \in Sessions : (Prep!AgentRuns(w) /\ ~Prep!Spawned(w))
                        <=> (Prep!EndsAt(w) \in DOMAIN Prep!Steps
                             /\ Prep!Steps[Prep!EndsAt(w)] = "monitor")

\* The reviewer's codex is looked for when everything is prepared; the claude it
\* does not need, before.
ASSUME OnlyClaudeIsLookedFor ==
  LET review == [Sound EXCEPT !.in = Reviewer]
  IN /\ Prep!Spawned(review)
     /\ Prep!Refused([review EXCEPT !.has.claude = FALSE])
     /\ Prep!LeftBehind([review EXCEPT !.has.codex = FALSE]) = {0, 1}

\* Readiness is asked for by queue, not by spawn: what a queued session waits for
\* may be reopened and does not hold it up.  A missing checklist does not either.
\* What is abandoned is waited for without end.
ASSUME ReadinessIsNotAskedAgain ==
  LET waiting(status) == [Sound EXCEPT !.waits = {"s2"}, !.sessions = "s2" :> status]
      unchecked == [Sound EXCEPT !.checks = "missing"]
  IN /\ \A status \in {"planned", "executing", "abandoned"} :
          Prep!check_readiness(waiting(status), "queue") # {} /\ Prep!Spawned(waiting(status))
     /\ Prep!check_readiness(waiting("verified"), "queue") = {}
     /\ Prep!check_readiness(unchecked, "queue") # {} /\ Prep!Spawned(unchecked)

\* One failing session of a batch does not keep the others.
ASSUME BatchesGoOn ==
  Prep!batch_spawn(<<Sound, Misrouted(Sound), Sound>>, TRUE, TRUE)
    = [primed |-> TRUE, spawned |-> {1, 3}, failed |-> {2}]

-----------------------------------------------------------------------------

Tree(repo, branch) == [repo |-> repo, path |-> repo, branch |-> branch]
Inputs(skills, trees) == [agent |-> "coder", skills |-> skills, trees |-> trees,
                          concepts |-> Prep!extract_plan_concepts(<<"a", "b", "a">>, {"a"})]
Both == <<Tree("code", "feat/x"), Tree("project", "proj/x")>>
Prepared(t, inputs) == Prep!Prepared(t, TRUE, "s1", inputs, "plan")

\* A second preparation changes nothing.  Of what differs, skills that are gone and
\* the order and branches of the worktrees leave everything as it was, although the
\* text says that the first is the one the agent is in.
ASSUME PreparedOnce ==
  LET skilled == Inputs(<<"tdd", "git">>, Both)
      once == Prepared(Prep!Fresh, skilled)
      turned == Inputs(<<"git", "tdd">>, <<Both[2], Both[1]>>)
      renamed == Inputs(<<"tdd", "git">>, <<Tree("code", "fix/x"), Both[2]>>)
      unskilled == Prepared(once, Inputs(<<>>, Both))
  IN /\ once.kept = 0 /\ Len(skilled.concepts) = 2
     /\ \A inputs \in {skilled, turned, renamed} : Prepared(once, inputs) = once
     /\ unskilled.skills = once.skills /\ unskilled.text # once.text /\ unskilled.kept = 1
     /\ Prepared(once, Inputs(<<"tdd">>, Both)).kept = 2

\* In a linked worktree, which is what a session gets, neither the hook nor the
\* excludes count; settings nobody can read are lost.
ASSUME LinkedTreesAreNotGuarded ==
  LET once == Prepared(Prep!Fresh, Inputs(<<>>, Both))
      mine == <<[ours |-> FALSE, hooks |-> {"mine"}, rest |-> {"env"}]>>
      installed(settings, force) ==
        Prep!install_settings_into([once EXCEPT !.settings = settings], force).settings[1]
  IN /\ Prep!HookThatRuns(once, FALSE) = <<"s1">> /\ Prep!HookThatRuns(once, TRUE) = <<>>
     /\ Prep!Ignored(once, TRUE) = {} /\ Prep!Ignored(once, FALSE) # {}
     /\ installed(mine, FALSE) = [mine[1] EXCEPT !.ours = TRUE]
     /\ installed(mine, TRUE).rest = {"env"} /\ installed(Prep!Broken, FALSE).rest = {}

-----------------------------------------------------------------------------

\* An edit is validated wherever the file's project is, in time or not at all.
\* The records of an issue are looked for below sessions only, where they are not.
ASSUME EditsAreValidated ==
  LET projects == {<<"p">>, <<"p", "wt">>}
      edit(path, verdict) == Prep!validate_on_edit(path, FALSE, projects, verdict)
  IN /\ edit(<<"p", "wt", "sessions", "s1", "session.yaml">>, "errors") = "block"
     /\ Prep!_find_project_root(<<"p", "wt", "project.yaml">>, projects) = <<"p", "wt">>
     /\ edit(<<"p", "issues", "k1", "docs", "developer.md">>, "errors") = "silent"
     /\ edit(<<"p", "sessions", "s1", "plan.md">>, "errors") = "silent"
     /\ edit(<<"q", "project.yaml">>, "errors") = "silent"
     /\ \A verdict \in {"none", "late", "raised"} : edit(<<"p", "project.yaml">>, verdict) = "silent"

\* A plan is found obsolete by its titles; a step that says both is passed over.
ASSUME PlansAreJudged ==
  LET step(verbs, path) == {[verbs |-> verbs, paths |-> {path}]}
      judged(steps) == Prep!validate_plan("filled", <<"a">>, {"a"}, steps, {{"old"}, {"lib/old"}})
  IN /\ judged(step({"create"}, "old")) = 1 /\ judged(step({"modify"}, "new")) = 1
     /\ judged(step({"create"}, "new") \cup step({"modify"}, "lib/old")) = 0
     /\ judged(step({"create", "modify"}, "old")) = 0
     /\ Prep!validate_plan("filled", <<"b">>, {"a"}, {}, {{"old"}}) = 2
     /\ Prep!validate_plan("filled", <<>>, {}, step({"create"}, "old"), {}) = 0
=============================================================================
