--------------------------- MODULE RuntimeMonitor ---------------------------
(***************************************************************************)
(* runtimes/monitor.py, monitor_actions.py and monitor_runner.py: the      *)
(* detached process that watches one agent.  The agent appends lines to    *)
(* its stream log; the tail thread reads them, feeds the monitor and       *)
(* carries out the actions it asks for (signals, session stamps, status    *)
(* transitions, notes in plan.md); the main thread waits for the agent to  *)
(* die, to go silent or to run out of time, flushes the log with the same  *)
(* code the tail thread may still be running, joins it for two seconds and *)
(* exits, which ends the tail, the resume timer and the gh poller at once. *)
(*                                                                         *)
(* A step is one access to what the threads and the other programs share:  *)
(* the log, the offset and buffer of the reader, the session file,         *)
(* plan.md, the agent.  What CPython runs between two calls that give up   *)
(* the interpreter lock is one step.  A line stands for one fact an event  *)
(* can carry; an event with several is as many lines.  A clock tick is ten *)
(* minutes; the runner's one-second polls all happen between two ticks.    *)
(***************************************************************************)
EXTENDS Naturals, Sequences, FiniteSets

CONSTANTS
  Routes,        \* routes of the session workflow: pairs <<from, to>>
  Closing,       \* targets that close the active engagement
  Elsewhere,     \* routes other programs take while the agent runs
  Budget,        \* spend lines that exhaust max_budget_usd
  PushLimit,     \* push_loop_terminate_threshold
  IdleChoices,   \* stream_idle_threshold_seconds, in ticks; 0 disables
  ResumeAfter,   \* _DEFENSIVE_RESUME_SECONDS, in ticks
  MaxRuntime,    \* max_runtime_seconds, in ticks
  LineKinds,     \* what the agent may write
  MaxLines, MaxFaults  \* bounds of the model

Kinds == {"work", "spend", "push", "ok", "err", "poll", "blindpoll", "quota",
          "complete", "pr"}

ASSUME MonitorAssumption ==
  /\ Elsewhere \subseteq Routes
  /\ LineKinds \subseteq Kinds
  /\ Budget \in Nat \ {0}
  /\ PushLimit \in Nat \ {0}
  /\ IdleChoices \subseteq Nat
  /\ ResumeAfter \in Nat \ {0}
  /\ MaxRuntime \in Nat \ {0}
  /\ MaxLines \in Nat
  /\ MaxFaults \in Nat

VARIABLES
  agent,    \* the agent process
  term,     \* a SIGTERM was sent to it; a stopped process keeps it pending
  ci,       \* the status checks of its pull request
  out,      \* the stream log: the kinds of the lines written
  offset,   \* MonitorThread._offset, in lines
  buffer,   \* MonitorThread._buffer: indices of lines read and not handled
  mon,      \* RuntimeMonitor: what it has accumulated and fired
  thread,   \* what the tail and the main thread are doing
  runner,   \* phase of MonitorRunner.run
  exitReason, \* why it stopped watching
  wake,     \* resume timer, gh poller and their shared event
  clock,    \* ticks of silence, of runtime and since the timer was started
  idleAfter,\* the configured stream-idle threshold
  session,  \* session file: status, stamps on engagement and runtime state
  plan,     \* notes injected into plan.md
  seen,     \* history: lines handled by process_event
  cut,      \* history: the exit cut the tail thread off
  undone,   \* history: a save wrote back an old status or dropped a note
  faults    \* how many faults happened

agentVars == <<agent, term, out>>
readVars == <<offset, buffer, mon, seen>>
envVars == <<ci, idleAfter>>
fileVars == <<session, plan>>
histVars == <<cut, undone>>
mainVars == <<runner, exitReason>>
vars == <<agentVars, readVars, envVars, fileVars, thread, mainVars, wake, clock,
          histVars, faults>>

Threads == {"tail", "main"}
Notes == {"note_overrun", "note_pr", "note_complete", "note_idle"}
Phases == {"watching", "reaping", "flushing", "leaving", "stopping",
           "joining", "gone"}

Nothing == [status |-> "none", closed |-> FALSE, overrun |-> FALSE]
AtRest == [pc |-> "rest", chunk |-> <<>>, end |-> 0, todo |-> <<>>,
           loaded |-> FALSE, held |-> Nothing, notes |-> {}]

Init ==
  /\ agent = "running" /\ term = FALSE /\ ci = "none" /\ out = <<>>
  /\ offset = 0 /\ buffer = <<>>
  /\ mon = [cost |-> 0, fails |-> 0, pending |-> FALSE, suspended |-> FALSE,
            complete |-> FALSE, fired |-> {}]
  /\ thread = [t \in Threads |-> AtRest]
  /\ runner = "watching" /\ exitReason = "none"
  /\ wake = [timer |-> FALSE, polling |-> FALSE, resumed |-> FALSE]
  /\ clock = [quiet |-> 0, age |-> 0, frozen |-> 0]
  /\ idleAfter \in IdleChoices
  /\ session = [status |-> "executing", closed |-> FALSE, overrun |-> FALSE]
  /\ plan = {} /\ seen = {} /\ cut = FALSE /\ undone = FALSE /\ faults = 0

-----------------------------------------------------------------------------
(* RuntimeMonitor: the policy *)

\* An action of the monitor is the sequence of steps its executor takes.
Sigterm == <<"term", "stamp">>
Overrun == << <<"term", "stamp", "mark">>, <<"paused">>, <<"note_overrun">> >>

\* Mutant of Reap: the agent is not terminated.
ReapSparing == << <<"failed">>, <<"note_idle">> >>

\* _reap_stream_idle
Reap == << Sigterm, <<"failed">>, <<"note_idle">> >>
Suspend(kind) ==
  IF kind = "poll" THEN <<"stop", "timer", "poller">> ELSE <<"stop", "timer">>

Quiet(m) == [mon |-> m, todo |-> <<>>]
Fires(tripwire, m, acts) ==
  IF tripwire \in m.fired THEN Quiet(m)
  ELSE [mon |-> [m EXCEPT !.fired = @ \cup {tripwire}], todo |-> acts]

\* _maybe_fire_cost_overrun
Spent(m) ==
  IF m.cost < Budget THEN Quiet(m) ELSE Fires("cost", m, Overrun)

\* _handle_user: any tool result decides a pending push, whose id is kept but
\* not compared.  The warning at warn_threshold only logs and is left out.
Result(m, failed) ==
  LET n == IF failed THEN m.fails + 1 ELSE 0
      settled == [m EXCEPT !.pending = FALSE, !.fails = n]
  IN  IF ~m.pending THEN Quiet(m)
      ELSE IF n >= PushLimit THEN Fires("push", settled, <<Sigterm>>)
      ELSE Quiet(settled)

\* Mutant of CiPoll: a later poll suspends again.
CiPollAgain(m, kind) == [mon |-> m, todo |-> <<Suspend(kind)>>]

\* _maybe_fire_ci_wait_suspend: _suspended_pending is never cleared.
CiPoll(m, kind) ==
  IF m.suspended THEN Quiet(m)
  ELSE [mon |-> [m EXCEPT !.suspended = TRUE], todo |-> <<Suspend(kind)>>]

\* process_event: the monitor after a line, and the actions it asks for.
Process(m, kind) ==
  CASE kind = "spend" -> Spent([m EXCEPT !.cost = @ + 1])
    [] kind = "push" -> Quiet([m EXCEPT !.pending = TRUE])
    [] kind \in {"ok", "err"} -> Result(m, kind = "err")
    [] kind \in {"poll", "blindpoll"} -> CiPoll(m, kind)
    [] kind = "quota" -> Fires("quota", m, << <<"failed">> >>)
    [] kind = "complete" -> Quiet([m EXCEPT !.complete = TRUE])
    [] kind = "pr" -> [mon |-> m, todo |-> << <<"note_pr">> >>]
    [] kind = "work" -> Quiet(m)

-----------------------------------------------------------------------------
(* MonitorThread._read_once, by the tail thread and by the flush *)

Busy(t) == thread[t].todo # <<>>

\* The tail thread reads until it is stopped, the main thread only to flush.  A
\* poll of the tail thread that finds nothing new is left out.
MayRead(t) ==
  IF t = "tail" THEN runner \notin {"joining", "gone"} /\ offset < Len(out)
  ELSE runner = "flushing"

\* open, seek(self._offset) and read
Read(t) ==
  /\ thread[t].pc = "rest"
  /\ MayRead(t)
  /\ thread' = [thread EXCEPT
       ![t] = [AtRest EXCEPT !.pc = "read", !.end = Len(out),
                 !.chunk = [i \in 1..(Len(out) - offset) |-> offset + i]]]
  /\ UNCHANGED <<agentVars, readVars, envVars, fileVars, mainVars, wake, clock,
                 histVars, faults>>

\* _read_once returns: the flush is over, or the tail thread waits for a while.
Returns(t) ==
  /\ thread' = [thread EXCEPT ![t] = AtRest]
  /\ runner' = IF t = "main" THEN "leaving" ELSE runner

\* Mutant of Keep: the offset is not kept.
KeepNot(t) ==
  /\ thread[t].pc = "read" /\ thread[t].chunk # <<>>
  /\ buffer' = buffer \o thread[t].chunk
  /\ thread' = [thread EXCEPT ![t] = [AtRest EXCEPT !.pc = "lines"]]
  /\ UNCHANGED <<agentVars, offset, mon, seen, envVars, fileVars, mainVars,
                 wake, clock, histVars, faults>>

\* self._offset = f.tell(), then the chunk joins the buffer: a thread that reads
\* in between finds nothing, as it does just after.
Keep(t) ==
  /\ thread[t].pc = "read" /\ thread[t].chunk # <<>>
  /\ offset' = thread[t].end
  /\ buffer' = buffer \o thread[t].chunk
  /\ thread' = [thread EXCEPT ![t] = [AtRest EXCEPT !.pc = "lines"]]
  /\ UNCHANGED <<agentVars, mon, seen, envVars, fileVars, mainVars, wake, clock,
                 histVars, faults>>

\* Mutant of Take: the line is left in the buffer.
TakePeeking(t) ==
  LET line == Head(buffer)
      result == Process(mon, out[line])
  IN  /\ thread[t].pc = "lines" /\ ~Busy(t)
      /\ buffer # <<>>
      /\ buffer' = buffer
      /\ seen' = seen \cup {line}
      /\ mon' = result.mon
      /\ thread' = [thread EXCEPT ![t].todo = result.todo]
      /\ clock' = [clock EXCEPT !.quiet = 0]
      /\ UNCHANGED <<agentVars, offset, envVars, fileVars, mainVars, wake,
                     histVars, faults>>

\* One turn of the loop over the buffer: take a line, stamp the stream-idle
\* clock, process the event.
Take(t) ==
  LET line == Head(buffer)
      result == Process(mon, out[line])
  IN  /\ thread[t].pc = "lines" /\ ~Busy(t)
      /\ buffer # <<>>
      /\ buffer' = Tail(buffer)
      /\ seen' = seen \cup {line}
      /\ mon' = result.mon
      /\ thread' = [thread EXCEPT ![t].todo = result.todo]
      /\ clock' = [clock EXCEPT !.quiet = 0]
      /\ UNCHANGED <<agentVars, offset, envVars, fileVars, mainVars, wake,
                     histVars, faults>>

\* An empty chunk, even if the buffer holds lines, or an empty buffer.
Finish(t) ==
  /\ \/ thread[t].pc = "read" /\ thread[t].chunk = <<>>
     \/ thread[t].pc = "lines" /\ ~Busy(t) /\ buffer = <<>>
  /\ Returns(t)
  /\ UNCHANGED <<agentVars, readVars, envVars, fileVars, exitReason, wake,
                 clock, histVars, faults>>

-----------------------------------------------------------------------------
(* ActionExecutor.execute, by either thread; runner "gone" leaves no todo *)

Step(t) == Head(Head(thread[t].todo))

\* What is left after a step, and after an exception.  Only _read_once catches
\* it, action by action; in the reaper it ends the list.
AfterStep(todo) ==
  IF Len(Head(todo)) = 1 THEN Tail(todo)
  ELSE <<Tail(Head(todo))>> \o Tail(todo)
AfterRaise(t) ==
  IF t = "main" /\ runner # "flushing" THEN <<>> ELSE Tail(thread[t].todo)

Goes(t, todo) ==
  thread' = [thread EXCEPT ![t].todo = todo, ![t].loaded = FALSE,
                           ![t].held = Nothing, ![t].notes = {}]

\* send_sigterm: a process that is gone is no error.
Kill(t) ==
  /\ Busy(t) /\ Step(t) = "term"
  /\ term' = (agent # "dead")
  /\ Goes(t, AfterStep(thread[t].todo))
  /\ UNCHANGED <<agent, out, readVars, envVars, fileVars, mainVars, wake, clock,
                 histVars, faults>>

\* The load of _stamp_engagement and _stamp_cost_overrun, and the read of
\* plan.md in _do_inject.
Stamps == {"stamp", "mark"}
Load(t) ==
  /\ Busy(t) /\ Step(t) \in Stamps \cup Notes /\ ~thread[t].loaded
  /\ thread' = [thread EXCEPT
       ![t].loaded = TRUE,
       ![t].held = IF Step(t) \in Stamps THEN session ELSE Nothing,
       ![t].notes = IF Step(t) \in Notes THEN plan ELSE {}]
  /\ UNCHANGED <<agentVars, readVars, envVars, fileVars, mainVars, wake, clock,
                 histVars, faults>>

\* The object a stamp saves: everything else in it is as it was loaded.
Stamped(t) ==
  IF Step(t) = "stamp" THEN [thread[t].held EXCEPT !.closed = TRUE]
  ELSE [thread[t].held EXCEPT !.overrun = TRUE]

\* The engagement has no outcome yet; the overrun is not stamped yet.
Needed(t) ==
  IF Step(t) = "stamp" THEN ~thread[t].held.closed ELSE ~thread[t].held.overrun

Save(new) ==
  /\ session' = new
  /\ undone' = (undone \/ new.status # session.status)

Write(notes) ==
  /\ plan' = notes
  /\ undone' = (undone \/ ~(plan \subseteq notes))

Stamp(t) ==
  /\ Busy(t) /\ Step(t) \in Stamps /\ thread[t].loaded
  /\ Save(IF Needed(t) THEN Stamped(t) ELSE session)
  /\ Goes(t, AfterStep(thread[t].todo))
  /\ UNCHANGED <<agentVars, readVars, envVars, plan, mainVars, wake, clock, cut,
                 faults>>

\* save_session wrote the file, then the graph-cache lock timed out.
StampRaises(t) ==
  /\ Busy(t) /\ Step(t) \in Stamps /\ thread[t].loaded /\ Needed(t)
  /\ faults < MaxFaults
  /\ faults' = faults + 1
  /\ Save(Stamped(t))
  /\ Goes(t, AfterRaise(t))
  /\ UNCHANGED <<agentVars, readVars, envVars, plan, mainVars, wake, clock,
                 cut>>

\* A note that plan.md already held when it was read is not added again.
Inject(t) ==
  /\ Busy(t) /\ Step(t) \in Notes /\ thread[t].loaded
  /\ Write(IF Step(t) \in thread[t].notes THEN plan
           ELSE thread[t].notes \cup {Step(t)})
  /\ Goes(t, AfterStep(thread[t].todo))
  /\ UNCHANGED <<agentVars, readVars, envVars, session, mainVars, wake, clock,
                 cut, faults>>

\* The file after a move of the executor, which checks the route under its lock.
Moved(to) ==
  [session EXCEPT !.status = to, !.closed = @ \/ to \in Closing]

\* _do_transition: a rejection is logged and forgotten.
Transition(t) ==
  /\ Busy(t) /\ Step(t) \in {"paused", "failed"}
  /\ session' = IF <<session.status, Step(t)>> \in Routes THEN Moved(Step(t))
                ELSE session
  /\ Goes(t, AfterStep(thread[t].todo))
  /\ UNCHANGED <<agentVars, readVars, envVars, plan, mainVars, wake, clock,
                 histVars, faults>>

\* The executor answers lock_timeout or raises TransitionError.
TransitionFails(t) ==
  /\ Busy(t) /\ Step(t) \in {"paused", "failed"}
  /\ faults < MaxFaults
  /\ faults' = faults + 1
  /\ Goes(t, AfterStep(thread[t].todo))
  /\ UNCHANGED <<agentVars, readVars, envVars, fileVars, mainVars, wake, clock,
                 histVars>>

\* send_sigstop; nothing is scheduled for a process that is gone.
Freeze(t) ==
  /\ Busy(t) /\ Step(t) = "stop"
  /\ agent' = IF agent = "dead" THEN agent ELSE "stopped"
  /\ Goes(t, IF agent = "dead" THEN Tail(thread[t].todo)
             ELSE AfterStep(thread[t].todo))
  /\ UNCHANGED <<term, out, readVars, envVars, fileVars, mainVars, wake, clock,
                 histVars, faults>>

\* The event is made by setdefault: a set event stays set.
StartTimer(t) ==
  /\ Busy(t) /\ Step(t) = "timer"
  /\ wake' = [wake EXCEPT !.timer = TRUE]
  /\ clock' = [clock EXCEPT !.frozen = 0]
  /\ Goes(t, AfterStep(thread[t].todo))
  /\ UNCHANGED <<agentVars, readVars, envVars, fileVars, mainVars, histVars,
                 faults>>

StartPoller(t) ==
  /\ Busy(t) /\ Step(t) = "poller"
  /\ wake' = [wake EXCEPT !.polling = ~wake.resumed]
  /\ Goes(t, AfterStep(thread[t].todo))
  /\ UNCHANGED <<agentVars, readVars, envVars, fileVars, mainVars, clock,
                 histVars, faults>>

-----------------------------------------------------------------------------
(* The daemon threads that wake the agent *)

SigCont == agent' = IF agent = "stopped" THEN "running" ELSE agent

\* _defensive_resume
TimerFires ==
  /\ wake.timer /\ clock.frozen >= ResumeAfter
  /\ wake' = [timer |-> FALSE, polling |-> FALSE, resumed |-> TRUE]
  /\ IF wake.resumed THEN UNCHANGED agent ELSE SigCont
  /\ UNCHANGED <<term, out, readVars, envVars, fileVars, thread, mainVars,
                 clock, histVars, faults>>

\* Mutant of AllChecksCompleted: an empty rollup counts as completed.
AllChecksNotRunning == ci # "running"

AllChecksCompleted == ci = "done"

\* _gh_poll_once, when gh answers; a failed call changes nothing.
PollerWakes ==
  /\ wake.polling /\ ~wake.resumed
  /\ AllChecksCompleted
  /\ wake' = [wake EXCEPT !.polling = FALSE, !.resumed = TRUE]
  /\ SigCont
  /\ UNCHANGED <<term, out, readVars, envVars, fileVars, thread, mainVars,
                 clock, histVars, faults>>

-----------------------------------------------------------------------------
(* MonitorRunner.run *)

TimeIsUp == clock.age >= MaxRuntime
StreamIdle == idleAfter > 0 /\ clock.quiet >= idleAfter

Enters(phase) ==
  /\ runner' = phase
  /\ UNCHANGED <<agentVars, readVars, envVars, fileVars, wake, clock, histVars,
                 faults>>

PidDead ==
  /\ runner = "watching" /\ agent = "dead"
  /\ exitReason' = "pid_dead"
  /\ Enters("flushing") /\ UNCHANGED thread

\* The deadline has passed; no signal is sent.
OutOfTime ==
  /\ runner = "watching" /\ agent # "dead" /\ TimeIsUp
  /\ exitReason' = "max_runtime"
  /\ Enters("flushing") /\ UNCHANGED thread

\* _reap_stream_idle; the exit reason is set once it has returned.
Reaps ==
  /\ runner = "watching" /\ agent # "dead" /\ ~TimeIsUp /\ StreamIdle
  /\ Enters("reaping") /\ UNCHANGED exitReason
  /\ thread' = [thread EXCEPT !["main"].todo = Reap]

Reaped ==
  /\ runner = "reaping" /\ ~Busy("main")
  /\ exitReason' = "stream_idle"
  /\ Enters("flushing") /\ UNCHANGED thread

\* RuntimeMonitor.on_process_exit: missing says whether a required artifact is
\* not committed.  The warning about key_files only logs and is left out.
ExitChecks(missing) ==
  /\ runner = "leaving"
  /\ Enters("stopping") /\ UNCHANGED exitReason
  /\ thread' = [thread EXCEPT !["main"].todo =
       IF mon.complete /\ missing THEN << <<"note_complete">> >> ELSE <<>>]

Stops ==
  /\ runner = "stopping" /\ ~Busy("main")
  /\ Enters("joining") /\ UNCHANGED <<thread, exitReason>>

\* The process ends: every daemon thread with it, and all it kept in memory.
Exit ==
  /\ runner = "joining"
  /\ runner' = "gone"
  /\ thread' = [t \in Threads |-> AtRest]
  /\ wake' = [timer |-> FALSE, polling |-> FALSE, resumed |-> FALSE]
  /\ clock' = [quiet |-> 0, age |-> 0, frozen |-> 0]
  /\ offset' = 0 /\ buffer' = <<>>
  /\ UNCHANGED <<agentVars, mon, seen, envVars, fileVars, exitReason, undone,
                 faults>>

\* Mutant of Joined: stop() does not join the thread.
JoinedAtOnce == Exit /\ UNCHANGED cut

Joined == thread["tail"].pc = "rest" /\ Exit /\ UNCHANGED cut

\* stop() waits two seconds for the tail thread.
JoinTimesOut == thread["tail"].pc # "rest" /\ Exit /\ cut' = TRUE

-----------------------------------------------------------------------------
(* The agent, its pull request, the other programs and the passing of time *)

\* Lines written after the runner is gone are read by nobody.
AgentWrites(kind) ==
  /\ agent = "running" /\ runner # "gone"
  /\ Len(out) < MaxLines
  /\ out' = Append(out, kind)
  /\ UNCHANGED <<agent, term, readVars, envVars, fileVars, thread, mainVars,
                 wake, clock, histVars, faults>>

\* Of its own, or some time after a SIGTERM.
AgentExits ==
  /\ agent = "running"
  /\ agent' = "dead" /\ term' = FALSE
  /\ UNCHANGED <<out, readVars, envVars, fileVars, thread, mainVars, wake,
                 clock, histVars, faults>>

\* The checks matter only while somebody polls them.
CiAdvances ==
  /\ wake.polling
  /\ \/ ci = "none" /\ ci' = "running"
     \/ ci = "running" /\ ci' = "done"
  /\ UNCHANGED <<agentVars, readVars, idleAfter, fileVars, thread, mainVars,
                 wake, clock, histVars, faults>>

\* The agent, or somebody next to it, moves the session through the executor.
OthersMove ==
  /\ agent = "running" /\ runner # "gone"
  /\ \E r \in Elsewhere : session.status = r[1] /\ session' = Moved(r[2])
  /\ UNCHANGED <<agentVars, readVars, envVars, plan, thread, mainVars, wake,
                 clock, histVars, faults>>

\* Ten minutes pass; whatever is due within seconds has happened by then.
Settled ==
  /\ runner = "watching" /\ agent # "dead" /\ ~TimeIsUp /\ ~StreamIdle
  /\ thread["tail"] = AtRest /\ offset = Len(out) /\ buffer = <<>>
  /\ ~(wake.timer /\ clock.frozen >= ResumeAfter)
  /\ ~(agent = "running" /\ term)

Tick ==
  /\ Settled
  /\ clock' = [clock EXCEPT !.quiet = @ + 1, !.age = @ + 1,
                            !.frozen = IF wake.timer THEN @ + 1 ELSE @]
  /\ UNCHANGED <<agentVars, readVars, envVars, fileVars, thread, mainVars, wake,
                 histVars, faults>>

-----------------------------------------------------------------------------
Works(t) ==
  \/ Read(t) \/ Keep(t) \/ Take(t) \/ Finish(t)
  \/ Kill(t) \/ Load(t) \/ Stamp(t) \/ Inject(t) \/ Transition(t)
  \/ Freeze(t) \/ StartTimer(t) \/ StartPoller(t)

Runs ==
  \/ PidDead \/ OutOfTime \/ Reaps \/ Reaped
  \/ \E missing \in BOOLEAN : ExitChecks(missing)
  \/ Stops \/ Joined \/ JoinTimesOut

Next ==
  \/ \E t \in Threads : Works(t) \/ StampRaises(t) \/ TransitionFails(t)
  \/ TimerFires \/ PollerWakes
  \/ Runs
  \/ \E kind \in LineKinds : AgentWrites(kind)
  \/ AgentExits \/ CiAdvances \/ OthersMove \/ Tick

Spec == Init /\ [][Next]_vars

\* The threads of the runner keep running, a timer fires, time passes, and an
\* agent that is running dies of a SIGTERM.  Nothing is assumed of gh, of CI
\* or of an agent that was not asked to end.
FairSpec ==
  /\ Spec
  /\ \A t \in Threads : WF_vars(Works(t))
  /\ WF_vars(Runs) /\ WF_vars(TimerFires) /\ WF_vars(Tick)
  /\ WF_vars(term /\ AgentExits)

-----------------------------------------------------------------------------
(* Properties *)

\* As long as the runner watches, each line has been handled once and in the
\* order of the log: the cost the budget is compared with is the cost of the
\* lines read so far.  Every line an agent wrote before it died goes through
\* the tripwires in the end, even though the flush, which may handle a line
\* twice, reads the log with the offset and the buffer the tail thread is still
\* using (monitor_runner.py:170, on_process_exit before stop); only a tail
\* thread that outlasts the two seconds of stop() can take lines with it.
LinesAccounted ==
  /\ runner = "watching" =>
       /\ \A i \in seen : \A j \in 1..i : j \in seen
       /\ mon.cost = Cardinality({i \in seen : out[i] = "spend"})
  /\ (runner = "gone" /\ exitReason = "pid_dead" /\ ~cut) => seen = DOMAIN out

\* While the runner lives, an agent it froze has somebody left to wake it: the
\* timer or the poller is there and their event is not set, or the thread that
\* sent SIGSTOP is about to start the timer.  The event is never cleared, so
\* this needs the monitor to suspend at most once.
SleeperHasAWaker ==
  (agent = "stopped" /\ runner # "gone") =>
    \/ \E t \in Threads : Busy(t) /\ Step(t) = "timer"
    \/ ~wake.resumed /\ (wake.timer \/ wake.polling)

\* A frozen agent is only woken when its checks have completed or thirty
\* minutes have passed (monitor_actions.py:36-40: not mid-poll).
WokenForAReason ==
  [][(agent = "stopped" /\ agent' = "running") =>
       (ci = "done" \/ clock.frozen >= ResumeAfter)]_vars

\* A runner that leaves a live agent behind either ran out of time or has sent
\* it a SIGTERM it has not died of yet.
SurvivorsAreKnown ==
  (runner = "gone" /\ agent # "dead") => (term \/ exitReason = "max_runtime")

\* The overrun can pause a session that is executing, and no other program takes
\* one back to "executing" while the runner watches its agent.
OverrunRoutes ==
  <<"executing", "paused">> \in Routes /\ \A r \in Elsewhere : r[2] # "executing"

\* When the runner is gone, a session over budget is off "executing" and its
\* plan says so, unless the exit cut the tail thread off, a fault hit it, or a
\* save of an object loaded earlier undid the move or the note.
OverrunSettledUnlessHit ==
  (runner = "gone" /\ "cost" \in mon.fired) =>
    \/ session.status # "executing" /\ "note_overrun" \in plan
    \/ cut \/ undone \/ faults > 0

\* The runner ends, whatever the agent does: its threads cannot wait for each
\* other, and silence, death and the deadline all lead out of the loop.
RunnerEnds == <>(runner = "gone")

\* monitor_actions.py:237-238: even if nothing else wakes the agent, it cannot
\* be left frozen indefinitely.
NeverFrozenForGood == agent = "stopped" ~> agent # "stopped"
=============================================================================
