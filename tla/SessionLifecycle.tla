-------------------------- MODULE SessionLifecycle --------------------------
(***************************************************************************)
(* The verbs of `tripwire session` around the workflow executor: queue,    *)
(* complete, abandon, reopen, spawn, sweep and plain transition, run by    *)
(* any number of callers on one session and its member issues.  A verb is  *)
(* a sequence of effects (pull requests, worktrees, moves of issues) with  *)
(* one move of the session in it that may be refused; what it has done by  *)
(* then stays done.  The executor's critical section is a lock, a gate,    *)
(* the side-effect scripts of the route and the commit: TransitionExecutor *)
(* has the rest of it.  A move of an issue is one step.                    *)
(*                                                                         *)
(* The worktrees of the session are one flag, and so are its branches on   *)
(* the remote: a branch has been merged or not, and at most one pull       *)
(* request of it is open.  What a gate reads outside the model (artifacts, *)
(* reviews, prompt checks) is a verdict the gate may return at any time.   *)
(***************************************************************************)
EXTENDS StatusContract

CONSTANTS
  Callers, Nobody,
  Members,         \* session.issues, in order
  LifecycleRoutes, \* of the coding-session workflow
  Scripts,         \* their side effects, in order
  IssueRoutes,     \* of the issue-closure workflow
  ScriptSets,      \* sets of scripts that may be the ones that always fail
  StartStatuses,   \* statuses the session is found in
  MaxVerbs, MaxOutside, MaxFailures

Keys == Range(Members)
ScriptNames == UNION { Range(Scripts[r]) : r \in LifecycleRoutes }

ASSUME LifecycleAssumption ==
  /\ Nobody \notin Callers
  /\ Members \in Seq(Keys)
  /\ Scripts \in [LifecycleRoutes -> Seq(ScriptNames)]
  /\ IssueRoutes \subseteq IssueStatuses \X IssueStatuses
  /\ MaxVerbs \in Nat /\ MaxOutside \in Nat /\ MaxFailures \in Nat

\* What the properties need of the routes: how far the issues have to be in
\* each status the session can have.  paused and failed have no goal of their
\* own; they are only reached from executing and completed.
Floor(s) == IF s \in {"paused", "failed"} THEN 2 ELSE Goal(s)
Has(r, script) == script \in Range(Scripts[r])

\* Every route takes the issues along, or asks no more of them than the status
\* it leaves did, but for the one from paused straight to completed; a move of
\* an issue brings it back onto the path as planned only.
ASSUME FloorAssumption ==
  /\ \A r \in LifecycleRoutes :
       \/ Has(r, "sweep_issues_forward") /\ Floor(r[2]) = Goal(r[2])
       \/ r = <<"paused", "completed">>
       \/ /\ Floor(r[2]) <= Floor(r[1])
          /\ r[1] = "completed" => Floor(r[2]) <= Floor("paused")
  /\ \A s \in StartStatuses : Floor(s) = Goal(s)
  /\ \A r \in IssueRoutes : r[1] \in OffPath => r[2] \in OffPath \cup {"planned"}

Live == {"executing", "in_review", "verified"}

\* Only the routes to the two terminal statuses remove worktrees, and every
\* route to abandoned from a status a launched session has tears down all of
\* it.
ASSUME TeardownAssumption ==
  \A r \in LifecycleRoutes :
    /\ r[1] # "abandoned" /\ r[2] # "planned"
    /\ r[2] \in {"in_review", "verified"} => r[1] \in Live
    /\ r[2] = "completed" => r[1] \in {"verified", "paused"}
    /\ Has(r, "remove_worktrees") =>
         r[2] = "abandoned" \/ r = <<"verified", "completed">>
    /\ r[2] = "abandoned" =>
         \/ r[1] \in {"planned", "queued"}
         \/ Has(r, "close_open_prs") /\ Has(r, "remove_worktrees")

VARIABLES
  session,   \* status in session.yaml
  issue,     \* status in each issue.yaml
  closable,  \* issues whose pm-issue-close prompt check was invoked
  tree,      \* the session's worktree directories exist
  recorded,  \* runtime_state.worktrees lists them
  pull,      \* its open pull request: "none", "draft", "ready" or "closed"
  merged,    \* its branch has a merged pull request
  broken,    \* side-effect scripts that always exit non-zero here
  owner,     \* who holds the session's instance lock
  verb,      \* what each caller is doing
  allowance, \* verbs, outside moves and faults left
  history    \* what has gone half way, for the properties only

lifecycleVars == <<session, issue, closable, tree, recorded, pull, merged, broken,
                   owner, verb, allowance, history>>
project == <<session, issue, closable, tree, recorded, pull, merged, broken>>

Verbs == {"queue", "promote", "complete", "abandon", "reopen", "spawn",
          "sweep", "transition"}
Steps == {"idle", "promote", "walk", "close", "remove", "reopen", "move",
          "script", "tidy"}

\* i: the issue a loop is at; at, start: the step its walk takes next and the
\* one it started from; cut: the verb has removed the worktrees.
Idle == [name |-> "queue", step |-> "idle", to |-> "", from |-> "",
         left |-> <<>>, i |-> 1, at |-> 0, start |-> 0, goal |-> 0,
         partial |-> FALSE, cut |-> FALSE]

\* A caller's step changes its own verb only.
Becomes(p, v) == verb' = [verb EXCEPT ![p] = v]
Goes(p, s) == Becomes(p, [verb[p] EXCEPT !.step = s])
Ends(p) == Becomes(p, Idle)

InMove(p) == owner = p
AtStep(p, s) == verb[p].step = s

\* A move that fails ends its verb; what the verb had torn down, or a spawn
\* had set up, stays so.
Fails(p) ==
  /\ owner' = IF InMove(p) THEN Nobody ELSE owner
  /\ Ends(p)
  /\ history' = [history EXCEPT !.torn = @ \/ verb[p].cut,
                                !.leak = @ \/ verb[p].name = "spawn"]

OpenPR == pull \in {"draft", "ready"}

Spend(what) == /\ allowance[what] > 0
               /\ allowance' = [allowance EXCEPT ![what] = @ - 1]

-----------------------------------------------------------------------------
(* Starting a verb: the load of the session and the verb's own checks; one *)
(* that refuses to start leaves everything as it is.                       *)

Starts(p, name, step, to) ==
  /\ AtStep(p, "idle") /\ Spend("verbs")
  /\ Becomes(p, [Idle EXCEPT !.name = name, !.step = step, !.to = to])

\* session queue: the status check, then the promotion, then the readiness
\* report, which may say no whatever the statuses are.
Queue(p) ==
  /\ session = "planned"
  /\ \E step \in {"promote", "move"} : Starts(p, "queue", step, "queued")
  /\ UNCHANGED <<project, owner, history>>

\* --promote-issues: one executor move per issue still planned; a refusal is
\* printed and the loop goes on.
Promote(p) ==
  LET k == Members[verb[p].i] IN
  /\ AtStep(p, "promote")
  /\ IF verb[p].i > Len(Members)
     THEN Goes(p, "move") /\ UNCHANGED <<issue, allowance>>
     ELSE /\ Becomes(p, [verb[p] EXCEPT !.i = @ + 1])
          /\ \/ /\ issue[k] = "planned"
                /\ issue' = [issue EXCEPT ![k] = "queued"]
                /\ UNCHANGED allowance
             \/ issue[k] # "planned" /\ UNCHANGED <<issue, allowance>>
             \/ issue[k] = "planned" /\ Spend("faults") /\ UNCHANGED issue
  /\ UNCHANGED <<session, closable, tree, recorded, pull, merged, broken, owner, history>>

\* complete_session up to the sweep: status, merged pull request (gh runs in
\* the worktree, so a missing one counts as not merged), artifacts, review;
\* then the draft is marked ready, and a failure of gh is swallowed.
Complete(p) ==
  /\ session \in {"in_review", "verified"} /\ merged /\ tree
  /\ pull' \in IF pull = "draft" THEN {"draft", "ready"} ELSE {pull}
  /\ AtStep(p, "idle") /\ Spend("verbs")
  /\ Becomes(p, [Idle EXCEPT !.name = "complete", !.step = "walk",
                             !.to = "completed", !.goal = Goal("completed")])
  /\ UNCHANGED <<session, issue, closable, tree, recorded, merged, broken, owner, history>>

Abandon(p) ==
  /\ session \notin {"completed", "abandoned"}
  /\ Starts(p, "abandon", "close", "abandoned")
  /\ UNCHANGED <<project, owner, history>>

\* The CLI flips the pull request back to draft before anything is checked.
Reopen(p) ==
  /\ Starts(p, "reopen", "reopen", "paused")
  /\ pull' \in IF pull = "ready" THEN {"draft", "ready"} ELSE {pull}
  /\ UNCHANGED <<session, issue, closable, tree, recorded, merged, broken, owner, history>>

ReopenChecks(p) ==
  /\ AtStep(p, "reopen")
  /\ IF session = "completed" THEN Goes(p, "move") ELSE Ends(p)
  /\ UNCHANGED <<project, owner, allowance, history>>

\* Mutant of Spawn: a resumed session is taken to have its worktree.
SpawnReusing(p) ==
  /\ session \in {"queued", "executing", "in_review", "paused", "failed"}
  /\ session = "queued" => ~tree
  /\ tree' = (tree \/ session = "queued") /\ recorded' = TRUE
  /\ UNCHANGED pull
  /\ Starts(p, "spawn", "move", "executing")
  /\ UNCHANGED <<session, issue, closable, merged, broken, owner, history>>

\* session spawn, as far as the other verbs see it: preparation leaves the
\* worktree there, with a draft pull request if it had to make the worktree
\* (SpawnSession has the rest).
Spawn(p) ==
  /\ session \in {"queued", "executing", "in_review", "paused", "failed"}
  /\ session = "queued" => ~tree
  /\ tree' = TRUE /\ recorded' = TRUE
  /\ pull' \in IF tree THEN {pull} ELSE {pull, "draft"}
  /\ Starts(p, "spawn", "move", "executing")
  /\ UNCHANGED <<session, issue, closable, merged, broken, owner, history>>

\* session sweep-issues-forward works on the status it has loaded.
Sweep(p) ==
  /\ Goal(session) > 0
  /\ AtStep(p, "idle") /\ Spend("verbs")
  /\ Becomes(p, [Idle EXCEPT !.name = "sweep", !.step = "walk", !.goal = Goal(session)])
  /\ UNCHANGED <<project, owner, history>>

Transition(p) ==
  /\ \E t \in {r[2] : r \in LifecycleRoutes} : Starts(p, "transition", "move", t)
  /\ UNCHANGED <<project, owner, history>>

-----------------------------------------------------------------------------
(* sweep_issues: issue by issue, one executor move per lifecycle step.     *)

\* Is this the walk of a script of the executor?
Scripted(p) == InMove(p)

\* The next issue is loaded: skipped when it is off the path or far enough.
LoadIssue(p) ==
  LET n == Index(issue[Members[verb[p].i]]) IN
  /\ AtStep(p, "walk") /\ verb[p].at = 0 /\ verb[p].i <= Len(Members)
  /\ Becomes(p, IF n = 0 \/ n >= verb[p].goal
                THEN [verb[p] EXCEPT !.i = @ + 1]
                ELSE [verb[p] EXCEPT !.at = n + 1, !.start = n])
  /\ UNCHANGED <<project, owner, allowance, history>>

\* Does the issue-closure executor let issue k move to t?
IssueMay(k, t) ==
  /\ <<issue[k], t>> \in IssueRoutes
  /\ <<issue[k], t>> = <<"verified", "completed">> => k \in closable

\* A step of the walk succeeds.  The step to take was fixed by the status
\* loaded before, the route is looked up in the status the issue has now.
AdvanceIssue(p) ==
  LET k == Members[verb[p].i]
      t == Lifecycle[verb[p].at] IN
  /\ AtStep(p, "walk") /\ verb[p].at > 0
  /\ IssueMay(k, t)
  /\ issue' = [issue EXCEPT ![k] = t]
  /\ Becomes(p, IF verb[p].at = verb[p].goal
                THEN [verb[p] EXCEPT !.i = @ + 1, !.at = 0]
                ELSE [verb[p] EXCEPT !.at = @ + 1])
  /\ history' = [history EXCEPT !.behind =
                   IF Index(t) < Index(issue[k]) THEN @ \cup {k}
                   ELSE IF /\ verb[p].at = verb[p].goal /\ verb[p].goal >= Goal(session)
                           /\ owner \in {p, Nobody}
                        THEN @ \ {k}
                   ELSE @]
  /\ UNCHANGED <<session, closable, tree, recorded, pull, merged, broken, owner, allowance>>

\* A step is refused: the walk of this issue stops.  It is reported as
\* partial only if an earlier step succeeded.
StopIssue(p) ==
  LET k == Members[verb[p].i]
      moved == verb[p].at > verb[p].start + 1 IN
  /\ AtStep(p, "walk") /\ verb[p].at > 0
  /\ IF IssueMay(k, Lifecycle[verb[p].at]) THEN Spend("faults") ELSE UNCHANGED allowance
  /\ Becomes(p, [verb[p] EXCEPT !.i = @ + 1, !.at = 0, !.partial = @ \/ moved])
  /\ history' = [history EXCEPT !.behind = IF moved THEN @ ELSE @ \cup {k}]
  /\ UNCHANGED <<project, owner>>

\* The sweep is over.  A partial one fails the script or the verb.
EndSweep(p) ==
  /\ AtStep(p, "walk") /\ verb[p].i > Len(Members)
  /\ \/ /\ Scripted(p) /\ ~verb[p].partial
        /\ Becomes(p, [verb[p] EXCEPT !.step = "script", !.left = Tail(@), !.i = 1])
        /\ UNCHANGED <<owner, history>>
     \/ /\ Scripted(p) /\ verb[p].partial
        /\ Fails(p)
     \/ /\ ~Scripted(p) /\ verb[p].name = "complete" /\ ~verb[p].partial
        /\ Becomes(p, [verb[p] EXCEPT !.step = "move", !.i = 1])
        /\ UNCHANGED <<owner, history>>
     \/ /\ ~Scripted(p) /\ (verb[p].name = "complete" => verb[p].partial)
        /\ Ends(p)
        /\ UNCHANGED <<owner, history>>
  /\ UNCHANGED <<project, allowance>>

-----------------------------------------------------------------------------
(* Abandoning: each step is tried and its failure only recorded.           *)

\* gh runs inside the worktree; without it no pull request is closed.
ClosePR(p) ==
  /\ AtStep(p, "close")
  /\ pull' \in IF tree /\ pull \in {"draft", "ready"} THEN {pull, "closed"} ELSE {pull}
  /\ history' = [history EXCEPT !.leak = @ \/ pull' \in {"draft", "ready"}]
  /\ Goes(p, "remove")
  /\ UNCHANGED <<session, issue, closable, tree, recorded, merged, broken, owner, allowance>>

RemoveTrees(p) ==
  /\ AtStep(p, "remove")
  /\ tree' \in {FALSE, tree}
  /\ history' = [history EXCEPT !.leak = @ \/ tree']
  /\ Becomes(p, [verb[p] EXCEPT !.step = "move", !.cut = ~tree'])
  /\ UNCHANGED <<session, issue, closable, recorded, pull, merged, broken, owner, allowance>>

-----------------------------------------------------------------------------
(* execute_transition on the session.                                      *)

\* What the gates ask of the state modelled here.  The validators run in
\* strict mode, where a warning is an error too, and see the status the
\* session still has.
IssuesFitSession == \A k \in Keys : issue[k] \in Allowed(session)
NoIssueDoneEarly == \A k \in Keys : issue[k] # "completed"

\* pr_merged_for_session passes over a recorded worktree that is not there.
\* Mutant of PrMerged: only the record is looked at.
PrMergedOnRecord == recorded

PrMerged == recorded /\ (tree => merged)

GateAllows(from, to) ==
  /\ <<from, to>> = <<"planned", "queued">> => IssuesFitSession
  /\ <<from, to>> = <<"queued", "executing">> => NoIssueDoneEarly
  /\ <<from, to>> = <<"verified", "completed">> => PrMerged

MoveAcquires(p) ==
  LET r == <<session, verb[p].to>> IN
  /\ AtStep(p, "move") /\ owner = Nobody
  /\ r \in LifecycleRoutes /\ GateAllows(session, verb[p].to)
  /\ owner' = p
  /\ Becomes(p, [verb[p] EXCEPT !.step = "script", !.from = session,
                                !.left = Scripts[r]])
  /\ UNCHANGED <<project, allowance, history>>

\* No route, a gate that says no, or another control of the route.
MoveRefused(p) ==
  /\ AtStep(p, "move") /\ owner = Nobody
  /\ IF <<session, verb[p].to>> \in LifecycleRoutes /\ GateAllows(session, verb[p].to)
     THEN Spend("faults") ELSE UNCHANGED allowance
  /\ Fails(p)
  /\ UNCHANGED project

\* The lock is waited for ten seconds.
MoveTimesOut(p) ==
  /\ AtStep(p, "move") /\ owner \notin {Nobody, p}
  /\ Fails(p)
  /\ UNCHANGED <<project, allowance>>

NextScript(p) == Becomes(p, [verb[p] EXCEPT !.left = Tail(@)])

\* Mutant of SweepScript: the target is that of the status the session has.
SweepFromStatus(p) ==
  /\ Becomes(p, [verb[p] EXCEPT !.step = "walk", !.i = 1, !.at = 0,
                   !.partial = FALSE, !.goal = Goal(verb[p].from)])
  /\ UNCHANGED <<tree, pull, history>>

SweepScript(p) ==
  /\ Becomes(p, [verb[p] EXCEPT !.step = "walk", !.i = 1, !.at = 0,
                   !.partial = FALSE, !.goal = Goal(verb[p].to)])
  /\ UNCHANGED <<tree, pull, history>>

FlipToReady(p) ==
  /\ pull' = IF OpenPR THEN "ready" ELSE pull
  /\ NextScript(p) /\ UNCHANGED <<tree, history>>

FlipToDraft(p) ==
  /\ pull' = IF OpenPR THEN "draft" ELSE pull
  /\ NextScript(p) /\ UNCHANGED <<tree, history>>

\* Mutant of CloseOpenPRs: only drafts count as open.
CloseDraftPRs(p) ==
  /\ pull' = IF tree /\ pull = "draft" THEN "closed" ELSE pull
  /\ history' = [history EXCEPT !.leak = @ \/ (OpenPR /\ ~tree)]
  /\ NextScript(p) /\ UNCHANGED tree

\* close_open_prs passes over a missing worktree.
CloseOpenPRs(p) ==
  /\ pull' = IF tree /\ OpenPR THEN "closed" ELSE pull
  /\ history' = [history EXCEPT !.leak = @ \/ (OpenPR /\ ~tree)]
  /\ NextScript(p) /\ UNCHANGED tree

RemoveWorktrees(p) ==
  /\ tree' = FALSE
  /\ Becomes(p, [verb[p] EXCEPT !.left = Tail(@), !.cut = @ \/ tree])
  /\ UNCHANGED <<pull, history>>

\* kill_runtime, rebase_pt_branch and append_pm_followup_stub touch nothing
\* of what is modelled here.
OtherScript(p) == NextScript(p) /\ UNCHANGED <<tree, pull, history>>

ScriptWorks(p) ==
  LET s == Head(verb[p].left) IN
  /\ AtStep(p, "script") /\ verb[p].left # <<>> /\ s \notin broken
  /\ CASE s = "sweep_issues_forward" -> SweepScript(p)
       [] s = "flip_drafts_to_ready" -> FlipToReady(p)
       [] s = "flip_drafts_to_draft" -> FlipToDraft(p)
       [] s = "close_open_prs"       -> CloseOpenPRs(p)
       [] s = "remove_worktrees"     -> RemoveWorktrees(p)
       [] OTHER                      -> OtherScript(p)
  /\ UNCHANGED <<session, issue, closable, recorded, merged, broken, owner, allowance>>

\* A script exits non-zero: always (it cannot even import what it needs),
\* because gh has nothing to flip or close any more, or by a fault.
ScriptFails(p) ==
  LET s == Head(verb[p].left)
      ghSaysNo == \/ s = "flip_drafts_to_ready" /\ pull # "draft"
                  \/ s = "flip_drafts_to_draft" /\ pull # "ready"
                  \/ s = "close_open_prs" /\ tree /\ ~OpenPR IN
  /\ AtStep(p, "script") /\ verb[p].left # <<>>
  /\ IF s \in broken \/ ghSaysNo THEN UNCHANGED allowance ELSE Spend("faults")
  /\ Fails(p)
  /\ UNCHANGED project

\* The status write, and the release of the lock.
Commit(p) ==
  /\ AtStep(p, "script") /\ verb[p].left = <<>>
  /\ session' = verb[p].to
  /\ owner' = Nobody
  /\ IF verb[p].name = "complete" THEN Goes(p, "tidy") ELSE Ends(p)
  /\ history' = [history EXCEPT
       !.bypass = @ \/ <<verb[p].from, verb[p].to>> = <<"paused", "completed">>,
       !.bare = @ \/ (verb[p].to = "executing" /\ verb[p].name # "spawn"),
       !.back = @ \/ (verb[p].to = "queued" /\ (tree \/ OpenPR)),
       !.late = @ \/ /\ verb[p].to = "completed"
                     /\ \E q \in Callers : verb[q].name = "spawn"]
  /\ UNCHANGED <<issue, closable, tree, recorded, pull, merged, broken, allowance>>

\* The complete command removes the worktrees of the session it loads again,
\* whatever its status is by then.
Tidy(p) ==
  /\ AtStep(p, "tidy")
  /\ tree' \in {FALSE, tree}
  /\ Ends(p)
  /\ history' = [history EXCEPT !.late = @ \/ (tree /\ ~tree' /\ session # "completed")]
  /\ UNCHANGED <<session, issue, closable, recorded, pull, merged, broken, owner, allowance>>

\* The process of a caller dies; the kernel drops its lock.
Crash(p) ==
  /\ ~AtStep(p, "idle") /\ Spend("faults")
  /\ Fails(p)
  /\ UNCHANGED project

-----------------------------------------------------------------------------
(* What goes on beside the verbs.                                          *)

IssueMove ==
  /\ Spend("outside")
  /\ \E k \in Keys, s \in IssueStatuses :
       /\ IssueMay(k, s)
       /\ issue' = [issue EXCEPT ![k] = s]
       /\ history' = [history EXCEPT !.behind =
                        IF Index(s) < Index(issue[k]) \/ s = "planned"
                        THEN @ \cup {k} ELSE @]
  /\ UNCHANGED <<session, closable, tree, recorded, pull, merged, broken, owner, verb>>

\* People on GitHub.
PullRequest ==
  /\ \/ pull = "draft" /\ pull' = "ready" /\ UNCHANGED merged
     \/ pull = "ready" /\ pull' = "none" /\ merged' = TRUE
  /\ UNCHANGED <<session, issue, closable, tree, recorded, broken, owner, verb,
                 allowance, history>>

LifecycleInit ==
  /\ session \in StartStatuses
  /\ issue \in [Keys -> IssueStatuses]
  /\ \A k \in Keys : /\ issue[k] \in Allowed(session)
                     /\ issue[k] \in OffPath \/ Index(issue[k]) >= Goal(session)
  /\ closable \in {{}, Keys}
  /\ tree = (session \notin {"planned", "queued", "completed", "abandoned"})
  /\ recorded = (session \notin {"planned", "queued"})
  /\ pull \in IF tree THEN {"none", "draft"} ELSE {"none"}
  /\ merged = (session = "completed")
  /\ broken \in ScriptSets
  /\ owner = Nobody
  /\ verb = [p \in Callers |-> Idle]
  /\ allowance = [verbs |-> MaxVerbs, outside |-> MaxOutside, faults |-> MaxFailures]
  /\ history = [behind |-> {}, torn |-> FALSE, leak |-> FALSE, bypass |-> FALSE,
                bare |-> FALSE, back |-> FALSE, late |-> FALSE]

\* What a caller does once its verb has started.
Runs(p) ==
  \/ Promote(p) \/ ReopenChecks(p)
  \/ LoadIssue(p) \/ AdvanceIssue(p) \/ StopIssue(p) \/ EndSweep(p)
  \/ ClosePR(p) \/ RemoveTrees(p)
  \/ MoveAcquires(p) \/ MoveRefused(p) \/ MoveTimesOut(p)
  \/ ScriptWorks(p) \/ ScriptFails(p) \/ Commit(p) \/ Tidy(p)

StartVerb(p) ==
  \/ Queue(p) \/ Complete(p) \/ Abandon(p) \/ Reopen(p) \/ Spawn(p) \/ Sweep(p)
  \/ Transition(p)

LifecycleNext ==
  \/ \E p \in Callers : StartVerb(p) \/ Runs(p) \/ Crash(p)
  \/ IssueMove \/ PullRequest

LifecycleSpec == LifecycleInit /\ [][LifecycleNext]_lifecycleVars

-----------------------------------------------------------------------------
(* Properties.                                                             *)

\* ALLOWED_ISSUE_STATES and the sweep together promise that member issues keep
\* up with the session: each is at least where the status of the session wants
\* it, unless somebody moved it back, or a sweep found its first step refused
\* (which no sweep reports), or the session went from paused straight to
\* completed, a route without a sweep.
FloorKept ==
  \A k \in Keys :
    \/ issue[k] \in OffPath \/ Index(issue[k]) >= Goal(session)
    \/ k \in history.behind
    \/ history.bypass /\ session = "completed"

\* No session is completed whose branch was never merged, whichever of the
\* verbs completed it, unless the worktrees the check looks at are gone (a
\* teardown that did not end in its own move) or it went from paused straight
\* to completed, which checks nothing.
CompletedMeansMerged ==
  session = "completed" =>
    \/ merged
    \/ history.torn \/ history.bypass
    \/ \E p \in Callers : verb[p].cut

\* An abandoned session leaves no worktree and no open pull request behind,
\* unless a step of the teardown failed (abandon goes on; close_open_prs skips
\* a missing worktree), a spawn was under way and refused at its end, or the
\* session had been paused and set back to queued with what it had: the routes
\* to abandoned from planned and queued run no scripts.
AbandonedLeavesNothing ==
  session = "abandoned" =>
    \/ ~tree /\ pull \notin {"draft", "ready"}
    \/ history.leak \/ history.back
    \/ \E p \in Callers : verb[p].name = "spawn" /\ AtStep(p, "move")

\* A session at work or under review has its worktrees, without which no
\* complete can ever see its merge: unless a teardown did not end in its own
\* move, the session was moved to executing without a spawn, a complete came
\* late to remove the worktrees of a session reopened meanwhile, or the session
\* was completed, and its worktrees removed, under a spawn that had started.
LiveSessionHasTrees ==
  session \in {"executing", "in_review", "verified"} =>
    \/ tree
    \/ history.torn \/ history.bare \/ history.late
    \/ \E p \in Callers : verb[p].cut

\* session_abandon.py:22: "The session ALWAYS transitions to abandoned".
AbandonAlwaysAbandons ==
  [][\A p \in Callers :
       (InMove(p) /\ verb[p].name = "abandon" /\ verb'[p].step = "idle")
         => session' = "abandoned"]_lifecycleVars
=============================================================================
