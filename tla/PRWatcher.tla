------------------------------ MODULE PRWatcher ------------------------------
(***************************************************************************)
(* `tripwire pr watch`: the daemon that polls the pull requests of the     *)
(* sessions and reacts when one of its four tripwires fires.               *)
(*                                                                         *)
(* A tick takes a snapshot of the sessions, asks GitHub about each of them *)
(* and collects actions; only then are the actions carried out, one after  *)
(* the other, on a world that has moved on.  What has fired is remembered  *)
(* in memory, so it is gone when the daemon dies; what was written to      *)
(* plan.md is recognised by its marker.  One pidfile is to keep a second   *)
(* daemon away, and nothing makes looking at it and writing it one step.   *)
(*                                                                         *)
(* A life of a daemon is a number: the n-th one started.  Pids are not     *)
(* reused.  A session has at most one project-tracking (PT) pull request,  *)
(* whose number somebody puts in state.json (nothing in src does).  The    *)
(* executor and `session pause` / `session spawn --resume`, modelled in    *)
(* TransitionExecutor and SpawnSession, are one step each.                 *)
(***************************************************************************)
EXTENDS Naturals, Sequences, FiniteSets

CONSTANTS
  Sessions,
  Routes,      \* of the coding-session workflow
  MaxStarts,   \* daemons started
  Targets,     \* where others may move a session
  MaxFaults    \* failed requests that lose something

ASSUME WatcherAssumption == MaxStarts \in Nat /\ MaxFaults \in Nat

Lives == 1..MaxStarts
Statuses == {r[1] : r \in Routes} \cup {r[2] : r \in Routes}

VARIABLES
  status,    \* of each session, in session.yaml
  pr,        \* the code pull request: none, open or merged
  ci,        \* the checks of its merge commit: FAIL, or anything else
  pt,        \* the PT pull request: none, incomplete or complete
  opened,    \* code_pr_opened_at in state.json: unset, young, or old (10 minutes)
  plan,      \* the follow-ups whose markers are in plan.md
  comments,  \* comments made on the PT pull request
  daemon,    \* the daemons
  pidfile,   \* the life watch.pid names, or 0
  stopper,   \* a `watch stop` that has found the pidfile stale
  budget,
  why        \* history, for the properties only

world == <<pr, ci, pt>>
files == <<status, plan, opened, comments>>
vars == <<world, files, daemon, pidfile, stopper, budget, why>>

Tripwires == {"merged_executing", "post_merge_ci_failure", "no_pt_pr", "pt_missing"}

\* What each tripwire makes the executor do, in order.
Does(t) ==
  CASE t = "merged_executing" -> <<"move", "inject">>
    [] t = "post_merge_ci_failure" -> <<"inject", "move", "reengage">>
    [] t = "no_pt_pr" -> <<"inject", "reengage">>
    [] t = "pt_missing" -> <<"comment", "reengage">>

NoTick == [snap |-> <<>>, todo |-> {}, acts |-> <<>>, read |-> {}]
Unborn == [pc |-> "unborn", fired |-> {}, tick |-> NoTick]

Running == {w \in Lives : daemon[w].pc \in {"idle", "look", "act", "write"}}
Fault == budget > 0 /\ budget' = budget - 1

Step(w, pc, tick) == daemon' = [daemon EXCEPT ![w].pc = pc, ![w].tick = tick]

-----------------------------------------------------------------------------
(* One daemon at a time: watch start, watch stop, the end of a daemon.     *)

\* Mutant of Start: the pidfile is not looked at.
StartUnchecked(w) ==
  /\ daemon[w] = Unborn /\ (\A x \in Lives : x < w => daemon[x] # Unborn)
  /\ daemon' = [daemon EXCEPT ![w].pc = "starting"]
  /\ why' = [why EXCEPT !.overlap = @ \/ \E x \in Lives : daemon[x].pc = "starting"]
  /\ UNCHANGED <<world, files, pidfile, stopper, budget>>

\* watch start: refused while the pidfile names a live process.
Start(w) ==
  /\ daemon[w] = Unborn /\ (\A x \in Lives : x < w => daemon[x] # Unborn)
  /\ pidfile \notin Running \cup {x \in Lives : daemon[x].pc = "starting"}
  /\ daemon' = [daemon EXCEPT ![w].pc = "starting"]
  /\ why' = [why EXCEPT !.overlap = @ \/ \E x \in Lives : daemon[x].pc = "starting"]
  /\ UNCHANGED <<world, files, pidfile, stopper, budget>>

Begin(w) ==
  /\ daemon[w].pc = "starting"
  /\ Step(w, "idle", NoTick)
  /\ pidfile' = w
  /\ UNCHANGED <<world, files, stopper, budget, why>>

\* SIGTERM (watch stop sends it to the pid on file) and SIGKILL end the process
\* where it is; no handler removes the pidfile, and a plan being rewritten is
\* left empty or as it was.
Dies(w) ==
  /\ daemon[w].pc \notin {"unborn", "dead"}
  /\ daemon' = [daemon EXCEPT ![w] = [Unborn EXCEPT !.pc = "dead"]]
  /\ IF daemon[w].pc = "write"
     THEN LET s == Head(daemon[w].tick.acts).s IN
          \/ UNCHANGED <<plan, why>>
          \/ /\ plan' = [plan EXCEPT ![s] = {}]
             /\ why' = [why EXCEPT !.lost[s] = @ \cup plan[s]]
     ELSE UNCHANGED <<plan, why>>
  /\ UNCHANGED <<status, opened, comments, world, pidfile, stopper, budget>>

\* Ctrl-C: the finally clause removes the pidfile, whosever it is.
Interrupted(w) ==
  /\ daemon[w].pc \in {"idle", "look", "act"}
  /\ daemon' = [daemon EXCEPT ![w] = [Unborn EXCEPT !.pc = "dead"]]
  /\ pidfile' = 0
  /\ UNCHANGED <<world, files, stopper, budget, why>>

\* watch stop on a dead daemon removes the pidfile it has read.
StopFinds ==
  /\ pidfile # 0 /\ ~stopper /\ daemon[pidfile].pc = "dead"
  /\ stopper' = TRUE
  /\ UNCHANGED <<world, files, daemon, pidfile, budget, why>>

StopUnlinks ==
  /\ stopper /\ stopper' = FALSE
  /\ pidfile' = 0
  /\ why' = [why EXCEPT !.overlap = @ \/ pidfile \in Running]
  /\ UNCHANGED <<world, files, daemon, budget>>

-----------------------------------------------------------------------------
(* A tick, first half: look.                                               *)

_ACTIVE_STATUSES == {"executing", "paused", "in_review", "verified", "completed"}

\* The first sight of a pull request starts its ten minutes.
Sighted(s) == IF pr[s] # "none" /\ opened[s] = "unset" THEN "young" ELSE opened[s]

\* build_watched_sessions
Build(w) ==
  LET active == {s \in Sessions : status[s] \in _ACTIVE_STATUSES} IN
  /\ daemon[w].pc = "idle" /\ active # {}
  /\ opened' = [s \in Sessions |-> IF s \in active THEN Sighted(s) ELSE opened[s]]
  /\ Step(w, "look",
       [NoTick EXCEPT !.todo = active,
          !.snap = [s \in active |-> [status |-> status[s], pr |-> pr[s] # "none",
                                      pt |-> pt[s] # "none", opened |-> opened'[s]]]])
  /\ UNCHANGED <<status, plan, comments, world, pidfile, stopper, budget, why>>

_POST_MERGE_INACTIVE_STATUSES == {"paused", "in_review", "verified", "completed"}

\* The condition of a tripwire: pull request as it is now, session as it was
\* when the tick began.
Trips(t, s, snap) ==
  CASE t = "merged_executing" -> pr[s] = "merged" /\ snap.status = "executing"
    [] t = "post_merge_ci_failure" ->
         pr[s] = "merged" /\ ci[s] = "FAIL" /\ snap.status \in _POST_MERGE_INACTIVE_STATUSES
    [] t = "no_pt_pr" -> pr[s] = "open" /\ ~snap.pt /\ snap.opened = "old"
    [] t = "pt_missing" -> snap.pt /\ pt[s] = "incomplete"

Actions(T, s) ==
  LET of(t) == IF t \notin T THEN <<>>
               ELSE [j \in DOMAIN Does(t) |-> [do |-> Does(t)[j], s |-> s, t |-> t]]
  IN of("merged_executing") \o of("post_merge_ci_failure") \o of("no_pt_pr") \o of("pt_missing")

\* The session is done with; after the last one the actions are carried out.
Seen(w, s, acts, fired) ==
  LET k == daemon[w].tick
      left == k.todo \ {s} IN
  daemon' = [daemon EXCEPT
    ![w].fired = @ \cup {<<t, s>> : t \in fired},
    ![w].pc = IF left # {} THEN "look" ELSE IF k.acts \o acts = <<>> THEN "idle" ELSE "act",
    ![w].tick = IF left # {} THEN [k EXCEPT !.todo = left, !.acts = @ \o acts]
                ELSE [NoTick EXCEPT !.acts = k.acts \o acts]]

\* Mutant of Unfired: the daemon does not remember.
UnfiredAlways(w, T, s) == T

Unfired(w, T, s) == {t \in T : <<t, s>> \notin daemon[w].fired}

\* _tick_session.  A request that fails ends it: when it is the one for the files
\* of the PT pull request, the tripwires before it stay fired and their actions
\* are gone.
Look(w) ==
  /\ daemon[w].pc = "look"
  /\ \E s \in daemon[w].tick.todo :
       LET snap == daemon[w].tick.snap[s]
           T == Unfired(w, {t \in Tripwires : Trips(t, s, snap)}, s) IN
       \/ /\ IF snap.pr THEN Seen(w, s, Actions(T, s), T) ELSE Seen(w, s, <<>>, {})
          /\ UNCHANGED <<budget, why>>
       \/ /\ snap.pr /\ Seen(w, s, <<>>, {})
          /\ UNCHANGED <<budget, why>>
       \/ /\ snap.pr /\ snap.pt /\ <<"pt_missing", s>> \notin daemon[w].fired
          /\ Fault
          /\ Seen(w, s, <<>>, T \ {"pt_missing"})
          /\ why' = [why EXCEPT !.lost[s] = @ \cup (T \ {"pt_missing"})]
  /\ UNCHANGED <<files, world, pidfile, stopper>>

-----------------------------------------------------------------------------
(* A tick, second half: act.                                               *)

Does1(w, what, s) ==
  /\ daemon[w].pc = "act" /\ Head(daemon[w].tick.acts).do = what
  /\ s = Head(daemon[w].tick.acts).s

\* The head of the list has been dealt with.
Done(w) ==
  LET acts == Tail(daemon[w].tick.acts) IN
  Step(w, IF acts = <<>> THEN "idle" ELSE "act", [NoTick EXCEPT !.acts = acts])

\* _do_transition: to paused, without pausing anything.  The executor may refuse.
DoMove(w) == \E s \in Sessions :
  /\ Does1(w, "move", s)
  /\ \/ /\ <<status[s], "paused">> \in Routes
        /\ status' = [status EXCEPT ![s] = "paused"]
     \/ UNCHANGED status
  /\ Done(w)
  /\ UNCHANGED <<plan, opened, comments, world, pidfile, stopper, budget, why>>

\* Mutant of Marked: any follow-up counts.
MarkedAny(s, t) == plan[s] # {}

\* The marker of the tripwire is in the plan already.
Marked(s, t) == t \in plan[s]

\* _do_inject reads the plan ...
DoInject(w) == \E s \in Sessions :
  /\ Does1(w, "inject", s)
  /\ IF Marked(s, Head(daemon[w].tick.acts).t) THEN Done(w)
     ELSE Step(w, "write", [daemon[w].tick EXCEPT !.read = plan[s]])
  /\ UNCHANGED <<files, world, pidfile, stopper, budget, why>>

\* Mutant of Text: the follow-up replaces the plan.
TextAlone(read, t) == {t}

Text(read, t) == read \cup {t}

\* ... and writes it whole.
DoWrite(w) == LET a == Head(daemon[w].tick.acts) IN
  /\ daemon[w].pc = "write"
  /\ plan' = [plan EXCEPT ![a.s] = Text(daemon[w].tick.read, a.t)]
  /\ Done(w)
  /\ UNCHANGED <<status, opened, comments, world, pidfile, stopper, budget, why>>

\* _do_comment: posted, or logged and forgotten.
DoComment(w) == \E s \in Sessions :
  /\ Does1(w, "comment", s)
  /\ \/ comments' = [comments EXCEPT ![s] = @ + 1] /\ UNCHANGED <<budget, why>>
     \/ /\ Fault /\ UNCHANGED comments
        /\ why' = [why EXCEPT !.lost[s] = @ \cup {"pt_missing"}]
  /\ Done(w)
  /\ UNCHANGED <<status, plan, opened, world, pidfile, stopper>>

\* session pause: paused, or failed when the agent is dead; one that outlives
\* SIGTERM, or a refusal, leaves the session executing.
AfterPause(from) == IF from = "executing" THEN {from, "paused", "failed"} ELSE {from}

\* session spawn --resume, which may fail or be refused executing.
AfterResume(from) == IF from \in {"in_review", "paused", "failed"} THEN {from, "executing"} ELSE {from}

DoReengage(w) == \E s \in Sessions :
  /\ Does1(w, "reengage", s)
  /\ \E to \in UNION {AfterResume(x) : x \in AfterPause(status[s])} :
       status' = [status EXCEPT ![s] = to]
  /\ Done(w)
  /\ UNCHANGED <<plan, opened, comments, world, pidfile, stopper, budget, why>>

Tick(w) ==
  \/ Build(w) \/ Look(w)
  \/ DoMove(w) \/ DoInject(w) \/ DoWrite(w) \/ DoComment(w) \/ DoReengage(w)

-----------------------------------------------------------------------------
(* What others do: GitHub, the clock, people and the agents themselves.    *)

\* Pull requests are opened and merged, checks end; a PT pull request is opened
\* with all its files or without some.
GitHubMoves(s) ==
  /\ \/ pr[s] = "none" /\ pr' = [pr EXCEPT ![s] = "open"] /\ UNCHANGED <<ci, pt>>
     \/ /\ pr[s] = "open" /\ pr' = [pr EXCEPT ![s] = "merged"]
        /\ \E c \in {"FAIL", "other"} : ci' = [ci EXCEPT ![s] = c]
        /\ UNCHANGED pt
     \/ /\ pt[s] = "none" /\ \E f \in {"incomplete", "complete"} : pt' = [pt EXCEPT ![s] = f]
        /\ UNCHANGED <<pr, ci>>
  /\ UNCHANGED <<files, daemon, pidfile, stopper, budget, why>>

TenMinutes(s) ==
  /\ opened[s] = "young" /\ opened' = [opened EXCEPT ![s] = "old"]
  /\ UNCHANGED <<status, plan, comments, world, daemon, pidfile, stopper, budget, why>>

Moved(s) ==
  /\ \E to \in Targets :
       /\ <<status[s], to>> \in Routes
       /\ status' = [status EXCEPT ![s] = to]
  /\ UNCHANGED <<plan, opened, comments, world, daemon, pidfile, stopper, budget, why>>

Init ==
  /\ status = [s \in Sessions |-> "executing"]
  /\ pr = [s \in Sessions |-> "none"] /\ ci = [s \in Sessions |-> "other"]
  /\ pt = [s \in Sessions |-> "none"]
  /\ opened = [s \in Sessions |-> "unset"]
  /\ plan = [s \in Sessions |-> {}] /\ comments = [s \in Sessions |-> 0]
  /\ daemon = [w \in Lives |-> Unborn] /\ pidfile = 0 /\ stopper = FALSE
  /\ budget = MaxFaults
  /\ why = [overlap |-> FALSE, lost |-> [s \in Sessions |-> {}]]

Next ==
  \/ \E w \in Lives : Start(w) \/ Begin(w) \/ Dies(w) \/ Interrupted(w) \/ Tick(w)
  \/ StopFinds \/ StopUnlinks
  \/ \E s \in Sessions : GitHubMoves(s) \/ TenMinutes(s) \/ Moved(s)

Spec == Init /\ [][Next]_vars

-----------------------------------------------------------------------------
(* Properties.                                                             *)

\* Two daemons run at once only if two starts overlapped, or a `watch stop` that
\* had read the pid of a dead daemon removed the pidfile of a live one.
SoleDaemon == \A w, x \in Running : w # x => why.overlap

\* A follow-up that is in plan.md stays there, however often daemons are killed
\* and started again, unless two of them run at once or one is killed while it
\* rewrites the file.
FollowUpsStay ==
  [][\A s \in Sessions : plan[s] \subseteq plan'[s]
       \/ why.overlap
       \/ \E w \in Lives : daemon[w].pc = "write" /\ daemon'[w].pc = "dead"]_vars

\* Each life of the daemon comments at most once on a PT pull request, whatever
\* happens to the session; a restarted daemon does comment again.
CommentsPerLife ==
  \A s \in Sessions :
    comments[s] <= Cardinality({w \in Lives : daemon[w].pc \notin {"unborn", "starting"}})

\* What a daemon counts as fired, and so will never raise again, has been told in
\* the plan or on the pull request, or is still on its list, unless a request
\* failed in the same tick, the comment was refused, or the plan was overwritten.
Told(t, s) == IF t = "pt_missing" THEN comments[s] > 0 ELSE t \in plan[s]
FiredIsTold ==
  \A w \in Running : \A f \in daemon[w].fired :
    LET t == f[1]
        s == f[2] IN
    \/ Told(t, s)
    \/ \E i \in DOMAIN daemon[w].tick.acts :
         LET a == daemon[w].tick.acts[i] IN
         a.s = s /\ a.t = t /\ a.do \in {"inject", "comment"}
    \/ t \in why.lost[s] \/ why.overlap
=============================================================================
