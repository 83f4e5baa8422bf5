------------------------- MODULE TransitionExecutor -------------------------
(***************************************************************************)
(* core/workflow/transitions.py: execute_transition, run by several        *)
(* processes (CLI verbs, the runtime monitor, the PR watcher, the UI) on   *)
(* one workflow instance.  Each process steps through                      *)
(*                                                                         *)
(*   pre-lock load, transition.requested, per-instance flock, in-lock      *)
(*   load, gate, side-effect scripts, status save, post-write hooks,       *)
(*   transition.completed                                                  *)
(*                                                                         *)
(* Each step below is one access to what the processes share: the          *)
(* instance file, the events log, the lock, the ack markers.  A process    *)
(* may be killed between any two of them; an emit may time out on the      *)
(* per-day events lock and a save on the graph-cache lock.                 *)
(*                                                                         *)
(* Only the control of the gate is kept.  Reachability, JIT acks and       *)
(* prompt checks are computed from the state; the verdicts of tripwires    *)
(* and of the artifact check depend on data outside the model and are      *)
(* free.  move, moves and Event.move are history: no guard reads them.     *)
(***************************************************************************)
EXTENDS Naturals, Sequences, FiniteSets

CONSTANTS
  Callers,          \* processes that call execute_transition
  Statuses,         \* statuses the workflow declares
  Routes,           \* declared routes: pairs <<from, to>>
  Effects,          \* route -> the names of its side-effect scripts, in order
  CheckedRoutes,    \* routes with a prompt_check in their controls
  PromptedRoutes,   \* routes with jit_prompts in their controls
  ClosingStatuses,  \* targets that close the active engagement
  StartStatuses,    \* statuses the instance file may have at first
  Targets,          \* statuses the callers ask for
  ResetFlags,       \* values of flags["reset_acks"] the callers pass
  NoCaller,         \* the lock is free
  MaxRequests, MaxCrashes, MaxFaults, MaxChecks  \* bounds of the model

ASSUME RoutesAssumption ==
  /\ Routes \subseteq Statuses \X Statuses
  /\ StartStatuses \subseteq Statuses
  /\ Targets \subseteq Statuses
  /\ CheckedRoutes \subseteq Routes
  /\ PromptedRoutes \subseteq Routes
  /\ Effects \in [Routes -> Seq(STRING)]
ASSUME CallersAssumption == NoCaller \notin Callers
ASSUME FlagsAssumption == ResetFlags \subseteq BOOLEAN
ASSUME BoundsAssumption ==
  /\ MaxRequests \in Nat
  /\ MaxCrashes \in Nat
  /\ MaxFaults \in Nat
  /\ MaxChecks \in Nat

VARIABLES
  session,   \* the instance file: status, current_status_instance, engagement
  log,       \* the events log of this instance
  acked,     \* every JIT prompt of the instance has its ack marker
  holder,    \* process holding the transition lock
  scripts,   \* side-effect scripts that are running
  pc,        \* where each process is in execute_transition
  target,    \* target_status of each process's request
  reset,     \* flags["reset_acks"] of each request
  snap,      \* instance object each process loaded under the lock
  done,      \* how many side-effect scripts of the route have exited 0
  reply,     \* how the last request of each process ended
  move,      \* history: index in moves of the move the request made, 0 if none
  moves,     \* history: every status the executor saved, in order
  spent      \* how much of each bound is used up

diskVars == <<session, log, acked>>
procVars == <<pc, target, reset, snap, done, reply>>
histVars == <<move, moves>>
vars == <<diskVars, holder, scripts, procVars, histVars, spent>>

NoVisit == [status |-> "none", n |-> 0]

Session == [status : Statuses,
            visit : [status : Statuses \cup {"none"}, n : Nat],
            engagement : {"none", "open", "closed"}]

\* transition.requested and transition.rejected are emitted, each by a step of
\* its own that may fail, but no code reads them back: the log keeps the rest.
Event == [kind : {"completed", "invoked"}, to : Statuses, n : Nat, move : Nat]

\* A save of the status; visit numbers start at 1.
Saved == [from : Statuses, to : Statuses, n : Nat \ {0}]

\* The locals of a process outside of execute_transition.
NoTarget == "none"
NoSession == [status |-> "none", visit |-> NoVisit, engagement |-> "none"]

\* Process states in which the process holds the transition lock.
Inside == {"locked", "gate", "effects", "script", "hooks", "report", "refuse"}

PCs == {"idle", "asked", "waiting", "timedout", "dead"} \cup Inside

\* What the model bounds.
Bounded == {"requests", "crashes", "faults", "checks"}

Replies == {"none", "ok", "refused", "lock_timeout", "raised"}

Init ==
  /\ \E s \in StartStatuses :
       session = [status |-> s, visit |-> NoVisit,
                  engagement |-> IF s \in ClosingStatuses THEN "closed" ELSE "open"]
  /\ log = <<>>
  /\ acked = FALSE
  /\ holder = NoCaller
  /\ scripts = {}
  /\ pc = [c \in Callers |-> "idle"]
  /\ target = [c \in Callers |-> NoTarget]
  /\ reset = [c \in Callers |-> FALSE]
  /\ snap = [c \in Callers |-> NoSession]
  /\ done = [c \in Callers |-> 0]
  /\ reply = [c \in Callers |-> "none"]
  /\ move = [c \in Callers |-> 0]
  /\ moves = <<>>
  /\ spent = [b \in Bounded |-> 0]

-----------------------------------------------------------------------------
(* What the gate computes *)

Route(c) == <<snap[c].status, target[c]>>

\* Mutant of Visits: only the log file of a new day is read.
VisitsToday(s) == 0 * Cardinality({s})

\* _next_status_instance_n: one more than the completed visits in the log.
Visits(s) ==
  Cardinality({i \in DOMAIN log : log[i].kind = "completed" /\ log[i].to = s})

\* _invoked_prompt_checks_at_status: any prompt_check.invoked event ever
\* logged for this instance with this status.
Invoked(s) == \E i \in DOMAIN log : log[i].kind = "invoked" /\ log[i].to = s

\* The part of the gate that the state decides.
GateOpen(c) ==
  /\ Route(c) \in Routes
  /\ Route(c) \in PromptedRoutes => acked
  /\ Route(c) \in CheckedRoutes => Invoked(target[c])

Emit(kind, to, n, id) ==
  log' = Append(log, [kind |-> kind, to |-> to, n |-> n, move |-> id])

GoTo(c, where) == pc' = [pc EXCEPT ![c] = where]

\* The call is over and its locals are gone.
Leave(c, where) ==
  /\ GoTo(c, where)
  /\ target' = [target EXCEPT ![c] = NoTarget]
  /\ reset' = [reset EXCEPT ![c] = FALSE]
  /\ snap' = [snap EXCEPT ![c] = NoSession]
  /\ done' = [done EXCEPT ![c] = 0]

Return(c, answer) ==
  /\ Leave(c, "idle")
  /\ reply' = [reply EXCEPT ![c] = answer]

\* Only the size of the model stops a process from asking, failing or dying.
Spend(what, limit) ==
  /\ spent[what] < limit
  /\ spent' = [spent EXCEPT ![what] = @ + 1]

-----------------------------------------------------------------------------
(* One action per step of execute_transition *)

\* Entry and the pre-lock load; the loaded status only feeds the event below.
Request(c, t, flag) ==
  /\ pc[c] = "idle"
  /\ Spend("requests", MaxRequests)
  /\ GoTo(c, "asked")
  /\ target' = [target EXCEPT ![c] = t]
  /\ reset' = [reset EXCEPT ![c] = flag]
  /\ reply' = [reply EXCEPT ![c] = "none"]
  /\ move' = [move EXCEPT ![c] = 0]
  /\ UNCHANGED <<diskVars, holder, scripts, snap, done, moves>>

\* emit_event("transition.requested")
LogRequested(c) ==
  /\ pc[c] = "asked"
  /\ GoTo(c, "waiting")
  /\ UNCHANGED <<diskVars, holder, scripts, target, reset, snap, done, reply,
                 histVars, spent>>

\* This emit is outside the try: its LockTimeout reaches the caller.
LogRequestedFails(c) ==
  /\ pc[c] = "asked"
  /\ Spend("faults", MaxFaults)
  /\ Return(c, "raised")
  /\ UNCHANGED <<diskVars, holder, scripts, histVars>>

\* Mutant of Acquire: no mutual exclusion.
AcquireShared(c) ==
  /\ pc[c] = "waiting"
  /\ holder' = c
  /\ GoTo(c, "locked")
  /\ UNCHANGED <<diskVars, scripts, target, reset, snap, done, reply, histVars,
                 spent>>

Acquire(c) ==
  /\ pc[c] = "waiting"
  /\ holder = NoCaller
  /\ holder' = c
  /\ GoTo(c, "locked")
  /\ UNCHANGED <<diskVars, scripts, target, reset, snap, done, reply, histVars,
                 spent>>

\* Ten seconds of polling while another process holds the lock.
AcquireTimesOut(c) ==
  /\ pc[c] = "waiting"
  /\ holder # NoCaller
  /\ GoTo(c, "timedout")
  /\ UNCHANGED <<diskVars, holder, scripts, target, reset, snap, done, reply,
                 histVars, spent>>

Load(c) ==
  /\ pc[c] = "locked"
  /\ snap' = [snap EXCEPT ![c] = session]
  /\ GoTo(c, "gate")
  /\ UNCHANGED <<diskVars, holder, scripts, target, reset, done, reply, histVars,
                 spent>>

\* The load or a validator raises: the with block frees the lock and the
\* exception, which is no LockTimeout, reaches the caller unlogged.
Raises(c) ==
  /\ pc[c] \in {"locked", "gate"}
  /\ holder' = NoCaller
  /\ Return(c, "raised")
  /\ UNCHANGED <<diskVars, scripts, histVars, spent>>

\* Mutant of GatePasses: the lock only covers the gate, not the scripts.
GatePassesUnlocking(c) ==
  /\ pc[c] = "gate"
  /\ GateOpen(c)
  /\ GoTo(c, "effects")
  /\ holder' = NoCaller
  /\ UNCHANGED <<diskVars, scripts, target, reset, snap, done, reply, histVars,
                 spent>>

GatePasses(c) ==
  /\ pc[c] = "gate"
  /\ GateOpen(c)
  /\ GoTo(c, "effects")
  /\ UNCHANGED <<diskVars, holder, scripts, target, reset, snap, done, reply,
                 histVars, spent>>

\* No route, an unacked prompt or a missing prompt check when the gate is not
\* open; a failed tripwire or a missing artifact otherwise.
GateRefuses(c) ==
  /\ pc[c] = "gate"
  /\ GoTo(c, "refuse")
  /\ UNCHANGED <<diskVars, holder, scripts, target, reset, snap, done, reply,
                 histVars, spent>>

Script(c, i) == [by |-> c, name |-> Effects[Route(c)][i]]

\* _run_declared_side_effects: subprocess.run of the next declared script.
RunScript(c) ==
  /\ pc[c] = "effects"
  /\ done[c] < Len(Effects[Route(c)])
  /\ scripts' = scripts \cup {Script(c, done[c] + 1)}
  /\ GoTo(c, "script")
  /\ UNCHANGED <<diskVars, holder, target, reset, snap, done, reply, histVars,
                 spent>>

ScriptSucceeds(c) ==
  /\ pc[c] = "script"
  /\ scripts' = scripts \ {Script(c, done[c] + 1)}
  /\ done' = [done EXCEPT ![c] = @ + 1]
  /\ GoTo(c, "effects")
  /\ UNCHANGED <<diskVars, holder, target, reset, snap, reply, histVars, spent>>

\* Mutant of ScriptFails: a failing script is run again.
ScriptFailsRetrying(c) ==
  /\ pc[c] = "script"
  /\ scripts' = scripts \ {Script(c, done[c] + 1)}
  /\ GoTo(c, "effects")
  /\ UNCHANGED <<diskVars, holder, target, reset, snap, done, reply, histVars,
                 spent>>

ScriptFails(c) ==
  /\ pc[c] = "script"
  /\ scripts' = scripts \ {Script(c, done[c] + 1)}
  /\ GoTo(c, "refuse")
  /\ UNCHANGED <<diskVars, holder, target, reset, snap, done, reply, histVars,
                 spent>>

\* The whole object loaded under the lock is written back: a new status and
\* visit number, every other field as it was loaded.
Flipped(c) ==
  [status |-> target[c],
   visit |-> [status |-> target[c], n |-> Visits(target[c]) + 1],
   engagement |-> snap[c].engagement]

SaveFlip(c) ==
  /\ pc[c] = "effects"
  /\ done[c] = Len(Effects[Route(c)])
  /\ session' = Flipped(c)
  /\ move' = [move EXCEPT ![c] = Len(moves) + 1]
  /\ moves' = Append(moves, [from |-> snap[c].status,
                             to |-> target[c], n |-> Flipped(c).visit.n])

\* Mutant of Commit: the hooks get the object as it was before the flip.
CommitKeepingOld(c) ==
  /\ SaveFlip(c)
  /\ GoTo(c, "hooks")
  /\ UNCHANGED <<log, acked, holder, scripts, target, reset, snap, done, reply,
                 spent>>

Commit(c) ==
  /\ SaveFlip(c)
  /\ snap' = [snap EXCEPT ![c] = Flipped(c)]
  /\ GoTo(c, "hooks")
  /\ UNCHANGED <<log, acked, holder, scripts, target, reset, done, reply, spent>>

\* save_session has written session.yaml when the graph-cache update raises
\* TimeoutError, which is not the LockTimeout the executor catches.
CommitRaises(c) ==
  /\ SaveFlip(c)
  /\ Spend("faults", MaxFaults)
  /\ holder' = NoCaller
  /\ Return(c, "raised")
  /\ UNCHANGED <<log, acked, scripts>>

\* Mutant of Hooks: the lock is released before the event is logged.
HooksUnlocking(c) ==
  /\ pc[c] = "hooks"
  /\ holder' = NoCaller
  /\ GoTo(c, "report")
  /\ UNCHANGED <<diskVars, scripts, target, reset, snap, done, reply, histVars,
                 spent>>

\* Mutant of Hooks: the closed engagement is not saved.
HooksUnsaved(c) ==
  /\ pc[c] = "hooks"
  /\ acked' = (acked /\ ~reset[c])
  /\ GoTo(c, "report")
  /\ UNCHANGED <<session, log, holder, scripts, target, reset, snap, done, reply,
                 histVars, spent>>

\* close_active_engagement with its second save, then reset_acks_if_requested.
\* Audit and telemetry rows are not modelled.
Hooks(c) ==
  LET closes == /\ target[c] \in ClosingStatuses
                /\ snap[c].engagement = "open"
      closed == [snap[c] EXCEPT !.engagement = "closed"]
  IN  /\ pc[c] = "hooks"
      /\ session' = IF closes THEN closed ELSE session
      /\ snap' = IF closes THEN [snap EXCEPT ![c] = closed] ELSE snap
      /\ acked' = (acked /\ ~reset[c])
      /\ GoTo(c, "report")
      /\ UNCHANGED <<log, holder, scripts, target, reset, done, reply, histVars,
                     spent>>

\* Mutant of Report: the event is forgotten.
ReportSilently(c) ==
  /\ pc[c] = "report"
  /\ holder' = NoCaller
  /\ Return(c, "ok")
  /\ UNCHANGED <<diskVars, scripts, histVars, spent>>

Report(c) ==
  /\ pc[c] = "report"
  /\ Emit("completed", target[c], snap[c].visit.n, move[c])
  /\ holder' = NoCaller
  /\ Return(c, "ok")
  /\ UNCHANGED <<session, acked, scripts, histVars,
                 spent>>

\* _reject: emit_event("transition.rejected") under the lock.
Refuse(c) ==
  /\ pc[c] = "refuse"
  /\ holder' = NoCaller
  /\ Return(c, "refused")
  /\ UNCHANGED <<diskVars, scripts, histVars, spent>>

\* Mutant of InnerEmitTimesOut: a failed emit is swallowed.
InnerEmitSwallowed(c) ==
  /\ pc[c] \in {"report", "refuse"}
  /\ Spend("faults", MaxFaults)
  /\ holder' = NoCaller
  /\ Return(c, "ok")
  /\ UNCHANGED <<diskVars, scripts, histVars>>

\* Both emits happen inside the try: the LockTimeout of the events lock is
\* taken for a timeout of the transition lock.
InnerEmitTimesOut(c) ==
  /\ pc[c] \in {"report", "refuse"}
  /\ Spend("faults", MaxFaults)
  /\ holder' = NoCaller
  /\ GoTo(c, "timedout")
  /\ UNCHANGED <<diskVars, scripts, target, reset, snap, done, reply, histVars>>

\* emit_event("transition.rejected") with reason lock_timeout.
LogTimeout(c) ==
  /\ pc[c] = "timedout"
  /\ Return(c, "lock_timeout")
  /\ UNCHANGED <<diskVars, holder, scripts, histVars, spent>>

LogTimeoutFails(c) ==
  /\ pc[c] = "timedout"
  /\ Spend("faults", MaxFaults)
  /\ Return(c, "raised")
  /\ UNCHANGED <<diskVars, holder, scripts, histVars>>

\* The process is killed for good: the kernel frees its flock, a running
\* script is orphaned and goes on.
Crash(c) ==
  /\ pc[c] \notin {"idle", "dead"}
  /\ Spend("crashes", MaxCrashes)
  /\ holder' = IF holder = c THEN NoCaller ELSE holder
  /\ Leave(c, "dead")
  /\ UNCHANGED <<diskVars, scripts, reply, histVars>>

Orphans == {s \in scripts : pc[s.by] = "dead"}

OrphanExits ==
  /\ \E s \in Orphans : scripts' = scripts \ {s}
  /\ UNCHANGED <<diskVars, holder, procVars, histVars, spent>>

-----------------------------------------------------------------------------
(* What goes on around the executor *)

\* `tripwire prompt-check invoke`: needs a route to t that declares a check.
InvokeCheck(t) ==
  /\ \E r \in CheckedRoutes : r[2] = t
  /\ Spend("checks", MaxChecks)
  /\ Emit("invoked", t, 0, 0)
  /\ UNCHANGED <<session, acked, holder, scripts, procVars, histVars>>

\* The agent acknowledges the fired JIT prompts (--ack).
AckPrompts ==
  /\ ~acked
  /\ acked' = TRUE
  /\ UNCHANGED <<session, log, holder, scripts, procVars, histVars, spent>>

-----------------------------------------------------------------------------
Progress(c) ==
  \/ LogRequested(c) \/ Acquire(c) \/ AcquireTimesOut(c) \/ Load(c)
  \/ GatePasses(c) \/ GateRefuses(c)
  \/ RunScript(c) \/ ScriptSucceeds(c) \/ ScriptFails(c)
  \/ Commit(c) \/ Hooks(c) \/ Report(c) \/ Refuse(c) \/ LogTimeout(c)

Fault(c) ==
  \/ LogRequestedFails(c) \/ Raises(c) \/ CommitRaises(c)
  \/ InnerEmitTimesOut(c) \/ LogTimeoutFails(c) \/ Crash(c)

Next ==
  \/ \E c \in Callers :
       \/ \E t \in Targets, flag \in ResetFlags : Request(c, t, flag)
       \/ Progress(c)
       \/ Fault(c)
  \/ OrphanExits
  \/ \E t \in Targets : InvokeCheck(t)
  \/ AckPrompts

Spec == Init /\ [][Next]_vars

\* A process that was scheduled keeps running, and side-effect scripts end.
FairSpec == Spec /\ \A c \in Callers : WF_vars(Progress(c))

-----------------------------------------------------------------------------
(* Properties *)

\* Every variable has its type; the only type invariant of the module.
TypeOK ==
  /\ session \in Session
  /\ log \in Seq(Event)
  /\ acked \in BOOLEAN
  /\ holder \in Callers \cup {NoCaller}
  /\ scripts \subseteq [by : Callers, name : STRING]
  /\ pc \in [Callers -> PCs]
  /\ target \in [Callers -> Statuses \cup {NoTarget}]
  /\ reset \in [Callers -> BOOLEAN]
  /\ snap \in [Callers -> Session \cup {NoSession}]
  /\ done \in [Callers -> Nat]
  /\ reply \in [Callers -> Replies]
  /\ move \in [Callers -> Nat]
  /\ moves \in Seq(Saved)
  /\ spent \in [Bounded -> Nat]

\* The statuses saved to the instance file form one chain: each transition
\* started from the status the previous one left, along a declared route, and
\* the file holds the end of the chain.  This is what the in-lock re-read
\* (transitions.py:416) is for: two concurrent requests must not both be
\* validated against the same stale status.
MovesFormOneChain ==
  /\ \A i \in DOMAIN moves :
       /\ <<moves[i].from, moves[i].to>> \in Routes
       /\ i > 1 => moves[i].from = moves[i-1].to
  /\ moves # <<>> => session.status = moves[Len(moves)].to

Completed == {i \in DOMAIN log : log[i].kind = "completed"}

\* The events log tells the truth about the file, in order: transition.completed
\* events describe moves that were saved, each at most once, in the order the
\* saves happened, although the save and the event are two steps of a process
\* that others race with.
LogTellsMovesInOrder ==
  /\ \A i \in Completed :
       /\ log[i].move \in DOMAIN moves
       /\ log[i].to = moves[log[i].move].to
       /\ log[i].n = moves[log[i].move].n
  /\ \A i, j \in Completed : i < j => log[i].move < log[j].move

Logged == {log[i].move : i \in Completed}
Lost == DOMAIN moves \ Logged

\* A saved move is missing from the log only while its process is between the
\* save and the event, or after a crash or a lock timeout hit it there.
EveryLostEventHasACause ==
  Cardinality(Lost) <= Cardinality({c \in Callers : pc[c] \in {"hooks", "report"}})
                       + spent["crashes"] + spent["faults"]

\* current_status_instance numbers the visits of a status.  The number is
\* counted from the events log, so it can name two visits only when the event
\* of the earlier one was lost.
VisitNumberReusedOnlyAfterLoss ==
  \A i, j \in DOMAIN moves :
    (i < j /\ moves[i].to = moves[j].to /\ moves[i].n >= moves[j].n) => i \in Lost

\* The answer a caller gets agrees with file and log: "ok" means its move was saved
\* and logged; a refusal by the gate or by a script means it saved nothing; and a
\* move whose caller is told of an exception or of a lock_timeout is not in the log.
\* It may be in the file: a lock_timeout is also what a timeout of the events lock
\* is reported as, after the save (transitions.py:442).
AnswersAgreeWithTheFile ==
  \A c \in Callers :
    /\ reply[c] = "ok" => move[c] \in Logged
    /\ reply[c] = "refused" => move[c] = 0
    /\ reply[c] \in {"raised", "lock_timeout"} => move[c] \notin Logged

\* Mutant of UnexpectedTransition: the first completed event is compared.
UnexpectedSinceFirst ==
  \E i \in Completed :
    /\ \A j \in Completed : j >= i
    /\ session.status # log[i].to
    /\ <<log[i].to, session.status>> \notin Routes

\* drift/unexpected_transition of workflow/drift.py: the file's status is
\* neither the target of the last completed event nor one route away from it.
UnexpectedTransition ==
  \E i \in Completed :
    /\ \A j \in Completed : j <= i
    /\ session.status # log[i].to
    /\ <<log[i].to, session.status>> \notin Routes

\* `tripwire drift report` blames a gate bypass on a session that only ever
\* went through the executor only if at least two completed events in a row
\* are missing from the log.
DriftBlamesOnlyDoubleLoss ==
  UnexpectedTransition => Cardinality(Lost) >= 2

\* Side-effect scripts of two requests run at the same time (two sweeps, two
\* worktree removals) only if an executor was killed under its script.
ScriptOverlapNeedsCrash ==
  Cardinality(scripts) <= 1 + spent["crashes"]

\* A session resting in a completed, abandoned or failed status has no open
\* engagement, unless a fault hit the process between its save and its hook.
\* close_active_engagement writes back an object loaded before the scripts ran.
ClosedWhenTerminal ==
  (session.status \in ClosingStatuses /\ session.engagement = "open")
  => \/ \E c \in Callers : holder = c /\ pc[c] = "hooks"
     \/ spent["crashes"] + spent["faults"] > 0

\* Every call of execute_transition ends: whatever others do with the locks,
\* a process that is not killed gets its answer.
EveryRequestEnds ==
  \A c \in Callers : pc[c] # "idle" ~> pc[c] \in {"idle", "dead"}

\* The executor implements the ledger: its saves are the ledger's moves, and
\* nothing else it does changes the status.
Ledger == INSTANCE StatusLedger WITH
            status <- session.status,
            ledger <- [i \in DOMAIN moves |-> <<moves[i].from, moves[i].to>>]

ImplementsLedger == Ledger!Spec
=============================================================================
