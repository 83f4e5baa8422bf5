---------------------------- MODULE SpawnSession ----------------------------
(***************************************************************************)
(* Starting, pausing, abandoning and cleaning up the agent of one session: *)
(* `tripwire session spawn [--resume]`, `pause`, `abandon`, `cleanup` and  *)
(* a plain transition, run by any number of callers.                       *)
(*                                                                         *)
(* session.yaml, the worktrees, the branches and the agents are four       *)
(* pieces of state that no lock ties together: a spawn loads the session,  *)
(* makes worktrees and branches one by one, starts the agent, saves the    *)
(* session it loaded and only then asks the executor for executing.        *)
(*                                                                         *)
(* The executor is one step here (TransitionExecutor and SessionLifecycle  *)
(* have its inside); its gate may refuse at any time.  Pull requests and   *)
(* rendered files are left out: of the draft pull request only the failure *)
(* matters.  The runtime is one with a process of its own (claude, codex). *)
(***************************************************************************)
EXTENDS Naturals, SequencesExt

CONSTANTS
  Callers,
  Repos,          \* worktrees of a spawn in the order they are made, the code first
  Routes,         \* of the coding-session workflow
  Targets,        \* where a plain transition may go
  MaxVerbs, MaxFaults, MaxAgents

Trees == Range(Repos)
Pids == 1..MaxAgents

ASSUME SpawnAssumption ==
  /\ Repos \in Seq(Trees) /\ Repos # <<>>
  /\ MaxVerbs \in Nat /\ MaxFaults \in Nat /\ MaxAgents \in Nat

VARIABLES
  file,     \* session.yaml: status, recorded worktrees, pid and conversation (0: none)
  dir,      \* worktree directories that exist
  branch,   \* local branches that exist
  alive,    \* agents that run
  started,  \* agents started so far; the n-th has pid n
  verb,     \* what each caller is doing, and the session it has loaded
  budget,   \* verbs and faults left
  why       \* history: what has gone half way, for the properties only

vars == <<file, dir, branch, alive, started, verb, budget, why>>

NoSession == [status |-> "none", trees |-> {}, pid |-> 0, csid |-> 0]
Idle == [name |-> "none", step |-> "idle", resume |-> FALSE, i |-> 1,
         attach |-> FALSE, pid |-> 0, snap |-> NoSession]

Becomes(p, v) == verb' = [verb EXCEPT ![p] = v]
Goes(p, s) == Becomes(p, [verb[p] EXCEPT !.step = s])
Ends(p) == Becomes(p, Idle)
AtStep(p, n, s) == verb[p].name = n /\ verb[p].step = s
Spend(what) == /\ budget[what] > 0
               /\ budget' = [budget EXCEPT ![what] = @ - 1]

\* Every verb begins by loading session.yaml.
Loads(p, n, s) ==
  /\ verb[p] = Idle /\ Spend("verbs")
  /\ Becomes(p, [Idle EXCEPT !.name = n, !.step = s, !.snap = file])

\* Writing back a session somebody has saved since: the writer's copy wins.
Stale(p) == verb[p].snap # file

-----------------------------------------------------------------------------
(* The executor.                                                           *)

\* The scripts of the routes to abandoned: kill_runtime, from executing, sends
\* one SIGTERM, which the agent may outlive; remove_worktrees.
TearsDown(p, from) ==
  /\ alive' \in IF from = "executing" THEN {alive, alive \ {file.pid}} ELSE {alive}
  /\ dir' = IF from \in {"planned", "queued"} THEN dir ELSE dir \ file.trees
  /\ why' = [why EXCEPT
       !.soft = @ \/ (file.pid \in alive' /\ ~AtStep(p, "abandon", "move"))
                  \/ (file.pid \in alive' /\ verb[p].snap.status # "executing"),
       !.raced = @ \/ (AtStep(p, "abandon", "move") /\ verb[p].snap.pid # file.pid)]

Executor(p, to) ==
  /\ <<file.status, to>> \in Routes
  /\ file' = [file EXCEPT !.status = to]
  /\ IF to = "abandoned" THEN TearsDown(p, file.status)
     ELSE /\ why' = [why EXCEPT !.back = @ \/ to = "queued"]
          /\ UNCHANGED <<alive, dir>>

\* The last step of a verb: the move, or its refusal, which undoes nothing.
MoveTo(p, to) ==
  /\ \/ Executor(p, to) /\ UNCHANGED budget
     \/ /\ IF <<file.status, to>> \in Routes THEN Spend("faults") ELSE UNCHANGED budget
        /\ why' = [why EXCEPT !.half = @ \/ (verb[p].name = "spawn" /\ ~verb[p].resume)]
        /\ UNCHANGED <<file, dir, alive>>
  /\ Ends(p)
  /\ UNCHANGED <<branch, started>>

Transition(p) ==
  /\ verb[p] = Idle /\ Spend("verbs")
  /\ \E t \in Targets : Executor(p, t)
  /\ UNCHANGED <<branch, started, verb>>

-----------------------------------------------------------------------------
(* session spawn                                                           *)

SpawnFresh(p) ==
  /\ file.status = "queued"
  /\ Loads(p, "spawn", "look")
  /\ UNCHANGED <<file, dir, branch, alive, started, why>>

\* --resume looks at the status only, not at the recorded process.
SpawnResume(p) ==
  /\ file.status \in {"executing", "in_review", "paused", "failed"}
  /\ verb[p] = Idle /\ Spend("verbs")
  /\ Becomes(p, [Idle EXCEPT !.name = "spawn", !.step = "look",
                             !.resume = TRUE, !.snap = file])
  /\ why' = [why EXCEPT !.doubled = @ \cup alive]
  /\ UNCHANGED <<file, dir, branch, alive, started>>

\* A spawn that stops leaves what it has made; an agent it has started and not
\* recorded yet runs on.
Stops(p) ==
  /\ Ends(p)
  /\ why' = [why EXCEPT
       !.half = @ \/ (verb[p].name = "spawn" /\ ~verb[p].resume),
       !.orphans = IF AtStep(p, "spawn", "save") THEN @ \cup {verb[p].pid} ELSE @]

\* Mutant of Look: a first spawn reuses worktrees too.
LookReusing(p) ==
  LET v == verb[p] IN
  /\ AtStep(p, "spawn", "look")
  /\ IF v.i > Len(Repos) THEN Goes(p, "start")
     ELSE IF Repos[v.i] \in dir THEN Becomes(p, [v EXCEPT !.i = @ + 1])
     ELSE Becomes(p, [v EXCEPT !.step = "make", !.attach = Repos[v.i] \in branch])
  /\ UNCHANGED <<file, dir, branch, alive, started, budget, why>>

\* resolve_worktrees and maybe_add_project_tracking_worktree: the checks for
\* one worktree.  After the last, a resumed session must have a conversation.
Look(p) ==
  LET v == verb[p] IN
  /\ AtStep(p, "spawn", "look")
  /\ IF v.i > Len(Repos)
     THEN IF v.resume /\ v.snap.csid = 0
          THEN Stops(p)
          ELSE Goes(p, "start") /\ UNCHANGED why
     ELSE LET w == Repos[v.i] IN
       CASE w \in dir /\ v.resume ->
              Becomes(p, [v EXCEPT !.i = @ + 1]) /\ UNCHANGED why
         [] w \notin dir /\ (w \in branch => v.resume) ->
              Becomes(p, [v EXCEPT !.step = "make", !.attach = w \in branch])
              /\ UNCHANGED why
         [] OTHER -> Stops(p)
  /\ UNCHANGED <<file, dir, branch, alive, started, budget>>

\* What git accepts: worktree add -b wants a new branch, without -b an existing
\* one, and both want a path that is free.
GitAdds(w, attach) == w \notin dir /\ (w \in branch) = attach

\* worktree_add or worktree_attach
Make(p) ==
  LET w == Repos[verb[p].i] IN
  /\ AtStep(p, "spawn", "make")
  /\ \/ /\ GitAdds(w, verb[p].attach)
        /\ dir' = dir \cup {w} /\ branch' = branch \cup {w}
        /\ Goes(p, "draft")
        /\ UNCHANGED <<budget, why>>
     \/ /\ IF GitAdds(w, verb[p].attach) THEN Spend("faults") ELSE UNCHANGED budget
        /\ Stops(p)
        /\ UNCHANGED <<dir, branch>>
  /\ UNCHANGED <<file, alive, started>>

\* _open_draft_pr: a failure ends a first spawn and is logged by a resume.
Draft(p) ==
  /\ AtStep(p, "spawn", "draft")
  /\ \/ /\ Becomes(p, [verb[p] EXCEPT !.step = "look", !.i = @ + 1])
        /\ UNCHANGED <<budget, why>>
     \/ ~verb[p].resume /\ Spend("faults") /\ Stops(p)
  /\ UNCHANGED <<file, dir, branch, alive, started>>

\* runtime.start
StartAgent(p) ==
  /\ AtStep(p, "spawn", "start") /\ started < MaxAgents
  /\ started' = started + 1
  /\ alive' = alive \cup {started + 1}
  /\ Becomes(p, [verb[p] EXCEPT !.step = "save", !.pid = started + 1])
  /\ why' = [why EXCEPT !.fresh = IF verb[p].resume THEN @ ELSE @ + 1]
  /\ UNCHANGED <<file, dir, branch, budget>>

\* Mutant of SaveSpawn: a resume keeps the recorded process.
SaveSpawnKeepingPid(p) ==
  LET v == verb[p] IN
  /\ AtStep(p, "spawn", "save")
  /\ file' = [v.snap EXCEPT !.trees = Trees,
                            !.pid = IF v.resume THEN @ ELSE v.pid,
                            !.csid = IF v.resume THEN @ ELSE v.pid]
  /\ why' = [why EXCEPT !.stale = @ \/ Stale(p)]
  /\ Goes(p, "move")
  /\ UNCHANGED <<dir, branch, alive, started, budget>>

\* The session loaded at the start is saved with the new runtime state.
SaveSpawn(p) ==
  LET v == verb[p] IN
  /\ AtStep(p, "spawn", "save")
  /\ file' = [v.snap EXCEPT !.trees = Trees, !.pid = v.pid,
                            !.csid = IF v.resume THEN @ ELSE v.pid]
  /\ why' = [why EXCEPT !.stale = @ \/ Stale(p)]
  /\ Goes(p, "move")
  /\ UNCHANGED <<dir, branch, alive, started, budget>>

MoveSpawn(p) == AtStep(p, "spawn", "move") /\ MoveTo(p, "executing")

-----------------------------------------------------------------------------
(* session pause                                                           *)

Pause(p) ==
  /\ file.status = "executing"
  /\ Loads(p, "pause", "signal")
  /\ UNCHANGED <<file, dir, branch, alive, started, why>>

\* A dead process means failed.  SIGTERM is sent to a live one, which leaves
\* within two seconds or keeps the session executing.
Signal(p) ==
  LET pid == verb[p].snap.pid IN
  /\ AtStep(p, "pause", "signal")
  /\ IF pid # 0 /\ pid \notin alive
     THEN Goes(p, "fail") /\ UNCHANGED alive
     ELSE \/ Goes(p, "move") /\ alive' = alive \ {pid}
          \/ pid \in alive /\ Ends(p) /\ UNCHANGED alive
  /\ UNCHANGED <<file, dir, branch, started, budget, why>>

MovePause(p) ==
  \/ AtStep(p, "pause", "move") /\ MoveTo(p, "paused")
  \/ AtStep(p, "pause", "fail") /\ MoveTo(p, "failed")

-----------------------------------------------------------------------------
(* session abandon and session cleanup                                     *)

Abandon(p) ==
  /\ file.status \notin {"completed", "abandoned"}
  /\ Loads(p, "abandon", "kill")
  /\ UNCHANGED <<file, dir, branch, alive, started, why>>

\* Any session but one that is executing is not asked to stop.
Cleanup(p) ==
  /\ Loads(p, "cleanup", "kill")
  /\ UNCHANGED <<file, dir, branch, alive, started, why>>

\* Mutant of Kills: SIGTERM is not followed by SIGKILL.
KillsSoftly(p) == alive' \in {alive, alive \ {verb[p].snap.pid}}

\* runtime.abandon: SIGTERM, two seconds, SIGKILL.
Kills(p) == alive' = alive \ {verb[p].snap.pid}

\* abandon kills the recorded process of an executing session only.
Kill(p) ==
  /\ verb[p].name \in {"abandon", "cleanup"} /\ verb[p].step = "kill"
  /\ IF verb[p].name = "abandon" /\ verb[p].snap.status # "executing"
     THEN UNCHANGED alive ELSE Kills(p)
  /\ Goes(p, "remove")
  /\ UNCHANGED <<file, dir, branch, started, budget, why>>

\* Worktrees of the loaded record; one that is dirty or will not go stays.
\* The branches stay, and worktrees no record names are not found: the orphan
\* scan looks for <repo>-wt-<session>, not for worktree-<repo>-<session>.
RemoveTrees(p) ==
  /\ verb[p].name \in {"abandon", "cleanup"} /\ verb[p].step = "remove"
  /\ \E kept \in SUBSET verb[p].snap.trees : dir' = dir \ (verb[p].snap.trees \ kept)
  /\ IF verb[p].name = "abandon" THEN Goes(p, "move")
     ELSE IF verb[p].snap.trees # {} THEN Goes(p, "save") ELSE Ends(p)
  /\ UNCHANGED <<file, branch, alive, started, budget, why>>

MoveAbandon(p) == AtStep(p, "abandon", "move") /\ MoveTo(p, "abandoned")

\* Mutant of SaveCleanup: the session is queued again.
SaveCleanupRequeues(p) ==
  /\ AtStep(p, "cleanup", "save")
  /\ file' = [verb[p].snap EXCEPT !.trees = @ \cap dir, !.status = "queued"]
  /\ why' = [why EXCEPT !.stale = @ \/ Stale(p)]
  /\ Ends(p)
  /\ UNCHANGED <<dir, branch, alive, started, budget>>

SaveCleanup(p) ==
  /\ AtStep(p, "cleanup", "save")
  /\ file' = [verb[p].snap EXCEPT !.trees = @ \cap dir]
  /\ why' = [why EXCEPT !.stale = @ \/ Stale(p)]
  /\ Ends(p)
  /\ UNCHANGED <<dir, branch, alive, started, budget>>

-----------------------------------------------------------------------------
(* Agents and callers come to an end.                                      *)

AgentEnds ==
  /\ \E a \in alive : alive' = alive \ {a}
  /\ UNCHANGED <<file, dir, branch, started, verb, budget, why>>

Crash(p) ==
  /\ verb[p] # Idle /\ Spend("faults")
  /\ Stops(p)
  /\ UNCHANGED <<file, dir, branch, alive, started>>

Init ==
  /\ file = [NoSession EXCEPT !.status = "queued"]
  /\ dir = {} /\ branch = {} /\ alive = {} /\ started = 0
  /\ verb = [p \in Callers |-> Idle]
  /\ budget = [verbs |-> MaxVerbs, faults |-> MaxFaults]
  /\ why = [fresh |-> 0, doubled |-> {}, orphans |-> {}, stale |-> FALSE,
            half |-> FALSE, back |-> FALSE, soft |-> FALSE, raced |-> FALSE]

Next ==
  \/ \E p \in Callers :
       \/ Transition(p)
       \/ SpawnFresh(p) \/ SpawnResume(p) \/ Look(p) \/ Make(p) \/ Draft(p)
       \/ StartAgent(p) \/ SaveSpawn(p) \/ MoveSpawn(p)
       \/ Pause(p) \/ Signal(p) \/ MovePause(p)
       \/ Abandon(p) \/ Cleanup(p) \/ Kill(p) \/ RemoveTrees(p) \/ MoveAbandon(p)
       \/ SaveCleanup(p) \/ Crash(p)
  \/ AgentEnds

Spec == Init /\ [][Next]_vars

-----------------------------------------------------------------------------
(* Properties.                                                             *)

\* However many callers spawn it without --resume, and whatever is paused,
\* cleaned up or moved in between, a session gets one first agent: the branch
\* it leaves, which nothing deletes, excludes all later ones.
FreshAgentOnce == why.fresh <= 1

\* Every agent that runs is the one session.yaml names, so that pause, abandon
\* and cleanup can stop it, unless its spawn is still to save it or died before,
\* it was running when somebody resumed the session, or somebody wrote back a
\* session that was no longer the one on disk.
AgentsAreRecorded ==
  \A a \in alive :
    \/ a = file.pid
    \/ \E p \in Callers : AtStep(p, "spawn", "save") /\ verb[p].pid = a
    \/ a \in why.orphans \cup why.doubled
    \/ why.stale

\* A queued session can be spawned: it has no worktree and no branch, unless a
\* spawn is under way or has stopped (a failed draft pull request is enough),
\* it came back from paused, or an older session was written back.
QueuedIsSpawnable ==
  file.status = "queued" =>
    \/ dir = {} /\ branch = {}
    \/ \E p \in Callers : verb[p].name = "spawn"
    \/ why.half \/ why.back \/ why.stale

\* The recorded agent of an abandoned session is dead, unless the session was
\* moved there by a transition or from another status than executing (neither
\* makes sure of it), the agent was started while the session was being
\* abandoned, or a spawn wrote its own copy back.
AbandonedStopsItsAgent ==
  (file.status = "abandoned" /\ file.pid \in alive)
    => why.soft \/ why.raced \/ why.stale
=============================================================================
