---------------------------- MODULE ObserverProofs ----------------------------
(***************************************************************************)
(* What is proved of the two programs that follow what others write.       *)
(*                                                                         *)
(* Of RuntimeMonitor, for every workflow, every limit and log of any       *)
(* length: the invariants the runs check and that a frozen agent is only   *)
(* woken for a reason.  TypeOK gives a thread one of the few lists of      *)
(* steps it can have ahead; LogInv and MainInv say what the offset, the    *)
(* buffer and the two threads are to each other at any moment.  On these   *)
(* rest OrderInv and CoverInv (which lines have been handled), SurvivorInv *)
(* (what became of the agent), SuspendInv (who is to wake it) and          *)
(* OverrunInv (how far the overrun is).                                    *)
(*                                                                         *)
(* Of LiveView, for any number of pages, keys, changes, mounts and breaks: *)
(* what is out of date on a page is on its way.  ViewInv has it as Shown,  *)
(* with what it takes that a page's next socket exists and is unused       *)
(* (SocketsInTurn, Counted) and that nobody waits for a server that is     *)
(* gone (NobodyServes).                                                    *)
(***************************************************************************)
EXTENDS RuntimeMonitor, LiveView, TLAPS, FiniteSetTheorems, SequenceTheorems

\* The lists of steps a thread can have ahead, by what the head does next.
OverStamp == << <<"stamp", "mark">>, <<"paused">>, <<"note_overrun">> >>
OverMark == << <<"mark">>, <<"paused">>, <<"note_overrun">> >>
OverPause == << <<"paused">>, <<"note_overrun">> >>
OverNote == << <<"note_overrun">> >>
OverTodos == {Overrun, OverStamp, OverMark, OverPause, OverNote}

ReapStamp == << <<"stamp">>, <<"failed">>, <<"note_idle">> >>
ReapFail == << <<"failed">>, <<"note_idle">> >>
ReapNote == << <<"note_idle">> >>
ReapTodos == {Reap, ReapStamp, ReapFail, ReapNote}

SigTodo == <<Sigterm>>
SigStamp == << <<"stamp">> >>
JustFail == << <<"failed">> >>
NotePr == << <<"note_pr">> >>
NoteComplete == << <<"note_complete">> >>
OtherTodos == {SigTodo, SigStamp, JustFail, NotePr, NoteComplete}

StopAll == <<Suspend("poll")>>
StopOne == <<Suspend("blindpoll")>>
TimerAll == << <<"timer", "poller">> >>
TimerOne == << <<"timer">> >>
PollerOne == << <<"poller">> >>
SuspendTodos == {StopAll, StopOne, TimerAll, TimerOne, PollerOne}

Todos == {<<>>} \cup OverTodos \cup ReapTodos \cup OtherTodos \cup SuspendTodos

Statuses == {"executing", "paused", "failed", "none"} \cup {r[2] : r \in Elsewhere}
Sessions == [status : Statuses, closed : BOOLEAN, overrun : BOOLEAN]
Monitors == [cost : Nat, fails : Nat, pending : BOOLEAN, suspended : BOOLEAN,
             complete : BOOLEAN, fired : SUBSET {"cost", "push", "quota"}]
Works1 == [pc : {"rest", "read", "lines"}, chunk : Seq(Nat), end : Nat, todo : Todos,
           loaded : BOOLEAN, held : Sessions, notes : SUBSET Notes]
Reasons == {"none", "pid_dead", "max_runtime", "stream_idle"}

AgentOK ==
  /\ agent \in {"running", "stopped", "dead"}
  /\ term \in BOOLEAN
  /\ out \in Seq(Kinds)
ReadOK ==
  /\ offset \in Nat
  /\ buffer \in Seq(Nat)
  /\ mon \in Monitors
FileOK ==
  /\ session \in Sessions
  /\ plan \in SUBSET Notes
RunOK ==
  /\ runner \in Phases
  /\ exitReason \in Reasons
  /\ wake \in [timer : BOOLEAN, polling : BOOLEAN, resumed : BOOLEAN]
  /\ cut \in BOOLEAN /\ undone \in BOOLEAN /\ faults \in Nat

\* The clocks, the checks and the threshold are of no consequence here.
TypeOK == AgentOK /\ ReadOK /\ FileOK /\ RunOK /\ thread \in [Threads -> Works1]

\* What is in the hands of the readers is in the log.
Lines == 1..Len(out)
LogInv ==
  /\ offset <= Len(out)
  /\ buffer \in Seq(Lines)
  /\ seen \subseteq Lines
  /\ \A t \in Threads : thread[t].pc = "read" =>
       /\ thread[t].chunk \in Seq(Lines)
       /\ thread[t].end <= Len(out)

\* The main thread reads to flush only, and has actions of its own only while it
\* reaps and when it has made its exit checks.
MainOf(d) ==
  /\ d.pc # "rest" => runner = "flushing"
  /\ d.pc = "rest" /\ d.todo # <<>> => runner \in {"reaping", "stopping"}
  /\ d.pc = "read" => d.todo = <<>>
TailOf(d) == d.pc # "lines" => d.todo = <<>>
MainInv ==
  /\ MainOf(thread["main"]) /\ TailOf(thread["tail"])
  /\ runner = "gone" => /\ thread["tail"].todo = <<>>
                        /\ \A t \in Threads : thread[t].pc = "rest"

\* While the runner watches, lines are handled one after the other: those that
\* have been, those in the buffer and those just read follow upon each other.
OrderInv ==
  runner = "watching" =>
    /\ Len(buffer) <= offset
    /\ seen = 1..(offset - Len(buffer))
    /\ \A i \in 1..Len(buffer) : buffer[i] = offset - Len(buffer) + i
    /\ thread["tail"].pc = "read" =>
         /\ Len(thread["tail"].chunk) = thread["tail"].end - offset
         /\ \A i \in 1..Len(thread["tail"].chunk) : thread["tail"].chunk[i] = offset + i
    /\ mon.cost = Cardinality({i \in seen : out[i] = "spend"})

\* A line before the offset has been handled or is in the buffer, one before the
\* end of what a thread has read is in that too, and a buffer with lines in it is
\* being emptied.
Held(q, i) == \E j \in 1..Len(q) : q[j] = i
Got(i) == i \in seen \/ Held(buffer, i)
CoverInv ==
  /\ runner # "gone" => \A i \in 1..offset : Got(i)
  /\ \A t \in Threads : thread[t].pc = "read" =>
       \A i \in 1..thread[t].end : Got(i) \/ Held(thread[t].chunk, i)
  /\ buffer # <<>> => \E t \in Threads : thread[t].pc = "lines"

\* Once the agent is known to be dead, the flush reads to the end of the log.
FlushInv ==
  exitReason = "pid_dead" =>
    /\ thread["main"].pc = "read" => thread["main"].end = Len(out)
    /\ thread["main"].pc = "lines" \/ runner \in {"leaving", "stopping", "joining"} =>
         \A i \in Lines : Got(i)
    /\ runner = "gone" /\ ~cut => seen = Lines

\* Why the runner stopped watching, and what became of the agent.
SurvivorInv ==
  /\ runner \in {"watching", "reaping"} <=> exitReason = "none"
  /\ exitReason = "pid_dead" => agent = "dead"
  /\ exitReason = "stream_idle" => term \/ agent = "dead"
  /\ runner = "reaping" => thread["main"].todo = Reap \/ term \/ agent = "dead"

\* One thread suspends the agent, once.  Until it has started the timer nobody has
\* woken the agent; after that the timer or the poller is there, or somebody has.
Suspending(t) == thread[t].todo \in SuspendTodos
Untouched == ~wake.timer /\ ~wake.polling /\ ~wake.resumed
SuspendInv ==
  runner # "gone" =>
    /\ \A t, x \in Threads : Suspending(t) /\ Suspending(x) => t = x
    /\ ~mon.suspended => Untouched /\ agent # "stopped" /\ \A t \in Threads : ~Suspending(t)
    /\ \A t \in Threads :
         /\ thread[t].todo \in {StopAll, StopOne} => Untouched /\ agent # "stopped"
         /\ thread[t].todo \in {TimerAll, TimerOne} => Untouched
    /\ agent = "stopped" =>
         \/ \E t \in Threads : thread[t].todo \in {TimerAll, TimerOne}
         \/ ~wake.resumed /\ (wake.timer \/ wake.polling)

\* An overrun that has fired is being settled or is settled, and a thread that has
\* read plan.md has read nothing that is not in it.
Unhit == ~cut /\ ~undone /\ faults = 0
OverrunInv ==
  Unhit =>
    /\ "cost" \in mon.fired =>
         \/ \E t \in Threads : thread[t].todo \in OverTodos
         \/ "note_overrun" \in plan
    /\ "cost" \in mon.fired =>
         \/ \E t \in Threads : thread[t].todo \in OverTodos \ {OverNote}
         \/ session.status # "executing"
    /\ \A t \in Threads : thread[t].loaded => thread[t].todo # <<>> /\ thread[t].notes \subseteq plan

IInv == /\ TypeOK /\ LogInv /\ MainInv /\ OrderInv /\ CoverInv /\ FlushInv
        /\ SurvivorInv /\ SuspendInv

-----------------------------------------------------------------------------
(* The lists of steps.                                                     *)

\* The head of q does step next; after it after is left, after an exception rest.
Row(q, step, after, rest) ==
  q # <<>> /\ Head(Head(q)) = step /\ AfterStep(q) = after /\ Tail(q) = rest

LEMMA Cons ==
  ASSUME NEW S, NEW q \in Seq(S), q # <<>>
  PROVE  <<Head(q)>> \o Tail(q) = q
OBVIOUS

\* A step of a longer action, at the head of a list of one and of three.
LEMMA AfterOne ==
  ASSUME NEW x, Len(x) # 1
  PROVE  AfterStep(<<x>>) = <<Tail(x)>>
BY DEF AfterStep

LEMMA AfterThree ==
  ASSUME NEW x, NEW y, NEW z, Len(x) # 1
  PROVE  AfterStep(<<x, y, z>>) = <<Tail(x), y, z>>
<1>1. Head(<<x, y, z>>) = x /\ Tail(<<x, y, z>>) = <<y, z>>
  OBVIOUS
<1>2. ASSUME NEW w PROVE <<w>> \o <<y, z>> = <<w, y, z>>
  <2> DEFINE q == <<w, y, z>>
  <2>1. q \in Seq({w, y, z}) /\ q # <<>> /\ Head(q) = w /\ Tail(q) = <<y, z>>
    OBVIOUS
  <2> HIDE DEF q
  <2>2. <<Head(q)>> \o Tail(q) = q
    BY <2>1, Cons
  <2> QED
    BY <2>1, <2>2 DEF q
<1> QED
  BY <1>1, <1>2 DEF AfterStep

LEMMA OverRows ==
  /\ Row(Overrun, "term", OverStamp, OverPause)
  /\ Row(OverStamp, "stamp", OverMark, OverPause)
  /\ Row(OverMark, "mark", OverPause, OverPause)
  /\ Row(OverPause, "paused", OverNote, OverNote)
  /\ Row(OverNote, "note_overrun", <<>>, <<>>)
<1>1. Row(Overrun, "term", OverStamp, OverPause)
  <2> DEFINE x == <<"term", "stamp", "mark">>
             y == <<"paused">>
             z == <<"note_overrun">>
  <2>1. Len(x) # 1
    OBVIOUS
  <2>2. Head(x) = "term" /\ Tail(x) = <<"stamp", "mark">>
    OBVIOUS
  <2>3. Overrun = <<x, y, z>>
    BY DEF Overrun
  <2> HIDE DEF x, y, z
  <2>4. AfterStep(<<x, y, z>>) = <<Tail(x), y, z>>
    BY <2>1, AfterThree
  <2>5. <<x, y, z>> # <<>> /\ Head(<<x, y, z>>) = x /\ Tail(<<x, y, z>>) = <<y, z>>
    OBVIOUS
  <2> QED
    BY <2>2, <2>3, <2>4, <2>5 DEF Row, OverStamp, OverPause, y, z
<1>2. Row(OverStamp, "stamp", OverMark, OverPause)
  <2> DEFINE x == <<"stamp", "mark">>
             y == <<"paused">>
             z == <<"note_overrun">>
  <2>1. Len(x) # 1
    OBVIOUS
  <2>2. Head(x) = "stamp" /\ Tail(x) = <<"mark">>
    OBVIOUS
  <2>3. OverStamp = <<x, y, z>>
    BY DEF OverStamp
  <2> HIDE DEF x, y, z
  <2>4. AfterStep(<<x, y, z>>) = <<Tail(x), y, z>>
    BY <2>1, AfterThree
  <2>5. <<x, y, z>> # <<>> /\ Head(<<x, y, z>>) = x /\ Tail(<<x, y, z>>) = <<y, z>>
    OBVIOUS
  <2> QED
    BY <2>2, <2>3, <2>4, <2>5 DEF Row, OverMark, OverPause, y, z
<1>3. /\ Row(OverMark, "mark", OverPause, OverPause)
      /\ Row(OverPause, "paused", OverNote, OverNote)
      /\ Row(OverNote, "note_overrun", <<>>, <<>>)
  BY DEF Row, AfterStep, OverMark, OverPause, OverNote
<1> QED
  BY <1>1, <1>2, <1>3

LEMMA ReapRows ==
  /\ Row(Reap, "term", ReapStamp, ReapFail)
  /\ Row(ReapStamp, "stamp", ReapFail, ReapFail)
  /\ Row(ReapFail, "failed", ReapNote, ReapNote)
  /\ Row(ReapNote, "note_idle", <<>>, <<>>)
<1>1. Row(Reap, "term", ReapStamp, ReapFail)
  <2> DEFINE x == <<"term", "stamp">>
             y == <<"failed">>
             z == <<"note_idle">>
  <2>1. Len(x) # 1
    OBVIOUS
  <2>2. Head(x) = "term" /\ Tail(x) = <<"stamp">>
    OBVIOUS
  <2>3. Reap = <<x, y, z>>
    BY DEF Reap, Sigterm
  <2> HIDE DEF x, y, z
  <2>4. AfterStep(<<x, y, z>>) = <<Tail(x), y, z>>
    BY <2>1, AfterThree
  <2>5. <<x, y, z>> # <<>> /\ Head(<<x, y, z>>) = x /\ Tail(<<x, y, z>>) = <<y, z>>
    OBVIOUS
  <2> QED
    BY <2>2, <2>3, <2>4, <2>5 DEF Row, ReapStamp, ReapFail, y, z
<1>2. /\ Row(ReapStamp, "stamp", ReapFail, ReapFail)
      /\ Row(ReapFail, "failed", ReapNote, ReapNote)
      /\ Row(ReapNote, "note_idle", <<>>, <<>>)
  BY DEF Row, AfterStep, ReapStamp, ReapFail, ReapNote
<1> QED
  BY <1>1, <1>2

LEMMA OtherRows ==
  /\ Row(SigTodo, "term", SigStamp, <<>>)
  /\ Row(SigStamp, "stamp", <<>>, <<>>)
  /\ Row(JustFail, "failed", <<>>, <<>>)
  /\ Row(NotePr, "note_pr", <<>>, <<>>)
  /\ Row(NoteComplete, "note_complete", <<>>, <<>>)
<1>1. Row(SigTodo, "term", SigStamp, <<>>)
  <2> DEFINE x == <<"term", "stamp">>
  <2>1. Len(x) # 1
    OBVIOUS
  <2>2. Head(x) = "term" /\ Tail(x) = <<"stamp">>
    OBVIOUS
  <2>3. SigTodo = <<x>>
    BY DEF SigTodo, Sigterm
  <2> HIDE DEF x
  <2>4. AfterStep(<<x>>) = <<Tail(x)>>
    BY <2>1, AfterOne
  <2>5. <<x>> # <<>> /\ Head(<<x>>) = x /\ Tail(<<x>>) = <<>>
    OBVIOUS
  <2> QED
    BY <2>2, <2>3, <2>4, <2>5 DEF Row, SigStamp
<1>2. /\ Row(SigStamp, "stamp", <<>>, <<>>)
      /\ Row(JustFail, "failed", <<>>, <<>>)
      /\ Row(NotePr, "note_pr", <<>>, <<>>)
      /\ Row(NoteComplete, "note_complete", <<>>, <<>>)
  BY DEF Row, AfterStep, SigStamp, JustFail, NotePr, NoteComplete
<1> QED
  BY <1>1, <1>2

LEMMA SuspendRows ==
  /\ Row(StopAll, "stop", TimerAll, <<>>)
  /\ Row(StopOne, "stop", TimerOne, <<>>)
  /\ Row(TimerAll, "timer", PollerOne, <<>>)
  /\ Row(TimerOne, "timer", <<>>, <<>>)
  /\ Row(PollerOne, "poller", <<>>, <<>>)
<1>1. Row(StopAll, "stop", TimerAll, <<>>)
  <2> DEFINE x == <<"stop", "timer", "poller">>
  <2>1. Len(x) # 1
    OBVIOUS
  <2>2. Head(x) = "stop" /\ Tail(x) = <<"timer", "poller">>
    OBVIOUS
  <2>3. StopAll = <<x>>
    BY DEF StopAll, Suspend
  <2> HIDE DEF x
  <2>4. AfterStep(<<x>>) = <<Tail(x)>>
    BY <2>1, AfterOne
  <2>5. <<x>> # <<>> /\ Head(<<x>>) = x /\ Tail(<<x>>) = <<>>
    OBVIOUS
  <2> QED
    BY <2>2, <2>3, <2>4, <2>5 DEF Row, TimerAll
<1>2. Row(StopOne, "stop", TimerOne, <<>>)
  <2> DEFINE x == <<"stop", "timer">>
  <2>1. Len(x) # 1
    OBVIOUS
  <2>2. Head(x) = "stop" /\ Tail(x) = <<"timer">>
    OBVIOUS
  <2>3. StopOne = <<x>>
    BY DEF StopOne, Suspend
  <2> HIDE DEF x
  <2>4. AfterStep(<<x>>) = <<Tail(x)>>
    BY <2>1, AfterOne
  <2>5. <<x>> # <<>> /\ Head(<<x>>) = x /\ Tail(<<x>>) = <<>>
    OBVIOUS
  <2> QED
    BY <2>2, <2>3, <2>4, <2>5 DEF Row, TimerOne
<1>3. Row(TimerAll, "timer", PollerOne, <<>>)
  <2> DEFINE x == <<"timer", "poller">>
  <2>1. Len(x) # 1
    OBVIOUS
  <2>2. Head(x) = "timer" /\ Tail(x) = <<"poller">>
    OBVIOUS
  <2>3. TimerAll = <<x>>
    BY DEF TimerAll
  <2> HIDE DEF x
  <2>4. AfterStep(<<x>>) = <<Tail(x)>>
    BY <2>1, AfterOne
  <2>5. <<x>> # <<>> /\ Head(<<x>>) = x /\ Tail(<<x>>) = <<>>
    OBVIOUS
  <2> QED
    BY <2>2, <2>3, <2>4, <2>5 DEF Row, PollerOne
<1>4. /\ Row(TimerOne, "timer", <<>>, <<>>)
      /\ Row(PollerOne, "poller", <<>>, <<>>)
  BY DEF Row, AfterStep, TimerOne, PollerOne
<1> QED
  BY <1>1, <1>2, <1>3, <1>4

Steps == {"term", "stamp", "mark", "paused", "failed", "stop", "timer", "poller"} \cup Notes

\* What the rows say of every list.
LEMMA TodoSteps ==
  ASSUME NEW q \in Todos, q # <<>>
  PROVE  /\ Head(Head(q)) \in Steps
         /\ AfterStep(q) \in Todos /\ Tail(q) \in Todos
         /\ q \in SuspendTodos <=> Head(Head(q)) \in {"stop", "timer", "poller"}
         /\ q \in {StopAll, StopOne} <=> Head(Head(q)) = "stop"
         /\ q \in {TimerAll, TimerOne} <=> Head(Head(q)) = "timer"
         /\ q \notin SuspendTodos => AfterStep(q) \notin SuspendTodos
         /\ Tail(q) \notin SuspendTodos
         /\ Head(Head(q)) = "stop" => AfterStep(q) \in {TimerAll, TimerOne} /\ Tail(q) = <<>>
         /\ Head(Head(q)) = "timer" => AfterStep(q) \in {PollerOne, <<>>}
         /\ Head(Head(q)) = "poller" => AfterStep(q) = <<>>
<1>1. \A x \in SuspendTodos : Head(Head(x)) \in {"stop", "timer", "poller"} /\ x # <<>>
  BY SuspendRows DEF Row, SuspendTodos
<1>2. CASE q \in OverTodos
  <2>1. /\ Head(Head(q)) \in {"term", "stamp", "mark", "paused", "note_overrun"}
        /\ AfterStep(q) \in OverTodos \cup {<<>>} /\ Tail(q) \in OverTodos \cup {<<>>}
    BY <1>2, OverRows DEF Row, OverTodos
  <2>2. \A x \in OverTodos : Head(Head(x)) \in {"term", "stamp", "mark", "paused", "note_overrun"}
    BY OverRows DEF Row, OverTodos
  <2>3. AfterStep(q) \notin SuspendTodos /\ Tail(q) \notin SuspendTodos /\ q \notin SuspendTodos
    BY <1>1, <1>2, <2>1, <2>2
  <2>4. q \notin {StopAll, StopOne} /\ q \notin {TimerAll, TimerOne}
    BY <2>3 DEF SuspendTodos
  <2> QED
    BY <2>1, <2>3, <2>4 DEF Todos, Steps, Notes
<1>3. CASE q \in ReapTodos
  <2>1. /\ Head(Head(q)) \in {"term", "stamp", "failed", "note_idle"}
        /\ AfterStep(q) \in ReapTodos \cup {<<>>} /\ Tail(q) \in ReapTodos \cup {<<>>}
    BY <1>3, ReapRows DEF Row, ReapTodos
  <2>2. \A x \in ReapTodos : Head(Head(x)) \in {"term", "stamp", "failed", "note_idle"}
    BY ReapRows DEF Row, ReapTodos
  <2>3. AfterStep(q) \notin SuspendTodos /\ Tail(q) \notin SuspendTodos /\ q \notin SuspendTodos
    BY <1>1, <1>3, <2>1, <2>2
  <2>4. q \notin {StopAll, StopOne} /\ q \notin {TimerAll, TimerOne}
    BY <2>3 DEF SuspendTodos
  <2> QED
    BY <2>1, <2>3, <2>4 DEF Todos, Steps, Notes
<1>4. CASE q \in OtherTodos
  BY <1>4, OtherRows, SuspendRows, SMTT(30) DEF Row, OtherTodos, Todos, SuspendTodos, Steps, Notes
<1>5. CASE q \in SuspendTodos
  BY <1>5, SuspendRows DEF Row, Todos, SuspendTodos, Steps
<1> QED
  BY <1>2, <1>3, <1>4, <1>5 DEF Todos

LEMMA OverSteps ==
  ASSUME NEW q \in OverTodos
  PROVE  /\ q # <<>>
         /\ q = OverNote => Head(Head(q)) = "note_overrun" /\ AfterStep(q) = <<>>
         /\ q = OverPause => Head(Head(q)) = "paused" /\ AfterStep(q) = OverNote
         /\ q \notin {OverNote, OverPause} => /\ Head(Head(q)) \in {"term", "stamp", "mark"}
                                              /\ AfterStep(q) \in OverTodos \ {OverNote}
         /\ OverPause # OverNote
BY OverRows DEF Row, OverTodos

\* Done nothing, a list suspends nothing.
LEMMA EmptyTodo == <<>> \notin SuspendTodos /\ <<>> \notin OverTodos /\ <<>> \in Todos /\ <<>> # Reap
BY OverRows, SuspendRows, ReapRows DEF Row, OverTodos, SuspendTodos, Todos

-----------------------------------------------------------------------------
(* What the steps do.                                                      *)

\* The other thread is left alone.
Only(t) == /\ thread' \in [Threads -> Works1]
           /\ \A x \in Threads : x # t => thread'[x] = thread[x]

\* What the thread is doing now.
Is(t, pc, chunk, end, todo) ==
  /\ thread'[t].pc = pc /\ thread'[t].chunk = chunk /\ thread'[t].end = end
  /\ thread'[t].todo = todo

\* It reads as before.
ReadsOn(t) == /\ thread'[t].pc = thread[t].pc /\ thread'[t].chunk = thread[t].chunk
              /\ thread'[t].end = thread[t].end

LEMMA RestTypes ==
  /\ AtRest \in Works1 /\ AtRest.pc = "rest" /\ AtRest.todo = <<>> /\ AtRest.chunk = <<>>
  /\ AtRest.loaded = FALSE /\ Nothing \in Sessions
BY EmptySeq, EmptyTodo DEF AtRest, Nothing, Works1, Sessions, Statuses

LEMMA ThreadTypes ==
  ASSUME TypeOK, NEW t \in Threads
  PROVE  /\ thread[t] \in Works1
         /\ thread[t].pc \in {"rest", "read", "lines"} /\ thread[t].chunk \in Seq(Nat)
         /\ thread[t].end \in Nat /\ thread[t].todo \in Todos /\ thread[t].loaded \in BOOLEAN
         /\ thread[t].held \in Sessions /\ thread[t].notes \in SUBSET Notes
BY DEF TypeOK, Works1

LEMMA GoesIs ==
  ASSUME TypeOK, NEW t \in Threads, NEW q \in Todos, Goes(t, q)
  PROVE  /\ Only(t) /\ ReadsOn(t)
         /\ thread'[t].todo = q /\ thread'[t].loaded = FALSE /\ thread'[t].notes = {}
<1> DEFINE d == [thread[t] EXCEPT !.todo = q, !.loaded = FALSE, !.held = Nothing, !.notes = {}]
<1>1. thread \in [Threads -> Works1] /\ thread[t] \in Works1
  BY DEF TypeOK
<1>2. thread' = [thread EXCEPT ![t] = d]
  BY DEF Goes
<1>3. /\ d \in Works1 /\ d.todo = q /\ d.loaded = FALSE /\ d.notes = {}
      /\ d.pc = thread[t].pc /\ d.chunk = thread[t].chunk /\ d.end = thread[t].end
  BY <1>1, RestTypes DEF Works1
<1> HIDE DEF d
<1> QED
  BY <1>1, <1>2, <1>3 DEF Only, ReadsOn

\* The step of a load: the file it reads is held until the save.
LEMMA LoadIs ==
  ASSUME TypeOK, NEW t \in Threads, Load(t)
  PROVE  /\ Only(t) /\ ReadsOn(t) /\ thread'[t].todo = thread[t].todo
         /\ thread'[t].notes \subseteq plan
<1> DEFINE h == IF Step(t) \in Stamps THEN session ELSE Nothing
           n == IF Step(t) \in Notes THEN plan ELSE {}
           d == [thread[t] EXCEPT !.loaded = TRUE, !.held = h, !.notes = n]
<1>1. /\ thread \in [Threads -> Works1] /\ thread[t] \in Works1
      /\ h \in Sessions /\ n \in SUBSET Notes /\ n \subseteq plan
  BY RestTypes DEF TypeOK, FileOK
<1>2. thread' = [thread EXCEPT ![t] = d]
  BY DEF Load
<1> HIDE DEF h, n
<1>3. /\ d \in Works1 /\ d.todo = thread[t].todo /\ d.notes = n
      /\ d.pc = thread[t].pc /\ d.chunk = thread[t].chunk /\ d.end = thread[t].end
  BY <1>1 DEF Works1
<1> HIDE DEF d
<1> QED
  BY <1>1, <1>2, <1>3 DEF Only, ReadsOn

\* A step of the list a thread has ahead.
Executes(t) ==
  \/ Kill(t) \/ Load(t) \/ Stamp(t) \/ StampRaises(t) \/ Inject(t) \/ Transition(t)
  \/ TransitionFails(t) \/ Freeze(t) \/ StartTimer(t) \/ StartPoller(t)

\* The list of a thread can only lose its head, a step of it, or everything.
LEMMA ExecIs ==
  ASSUME TypeOK, NEW t \in Threads, Executes(t)
  PROVE  /\ Only(t) /\ ReadsOn(t) /\ thread[t].todo # <<>>
         /\ UNCHANGED <<out, offset, buffer, mon, seen, runner, exitReason, cut>>
         /\ \/ thread'[t].todo = thread[t].todo /\ Load(t)
            \/ /\ thread'[t].todo = AfterStep(thread[t].todo)
               /\ thread'[t].loaded = FALSE
            \/ /\ thread'[t].todo \in {Tail(thread[t].todo), <<>>}
               /\ thread'[t].loaded = FALSE
<1> DEFINE q == thread[t].todo
<1>1. q # <<>>
  BY DEF Executes, Kill, Load, Stamp, StampRaises, Inject, Transition, TransitionFails, Freeze,
         StartTimer, StartPoller, Busy
<1>2. AfterStep(q) \in Todos /\ Tail(q) \in Todos /\ <<>> \in Todos
  BY <1>1, ThreadTypes, TodoSteps, EmptyTodo
<1>3. UNCHANGED <<out, offset, buffer, mon, seen, runner, exitReason, cut>>
  BY DEF Executes, Kill, Load, Stamp, StampRaises, Inject, Transition, TransitionFails, Freeze,
         StartTimer, StartPoller, agentVars, readVars, mainVars, histVars
<1>4. CASE Load(t)
  BY <1>1, <1>3, <1>4, LoadIs
<1>5. CASE ~Load(t)
  <2>1. \E r \in {AfterStep(q), Tail(q), <<>>} : Goes(t, r)
    BY <1>5 DEF Executes, Kill, Stamp, StampRaises, Inject, Transition, TransitionFails, Freeze,
         StartTimer, StartPoller, AfterRaise
  <2>2. PICK r \in {AfterStep(q), Tail(q), <<>>} : Goes(t, r)
    BY <2>1
  <2> QED
    BY <1>1, <1>2, <1>3, <2>2, GoesIs
<1> QED
  BY <1>4, <1>5

\* What the environment does, and the threads that wake the agent.
Outside ==
  \/ TimerFires \/ PollerWakes \/ AgentExits \/ CiAdvances \/ OthersMove \/ Tick

LEMMA OutsideIs ==
  ASSUME Outside
  PROVE  /\ UNCHANGED <<thread, out, offset, buffer, mon, seen, runner, exitReason, plan>>
         /\ UNCHANGED <<cut, undone, faults>>
BY DEF Outside, TimerFires, PollerWakes, AgentExits, CiAdvances, OthersMove, Tick, readVars,
       mainVars, agentVars, fileVars, histVars

\* A phase of the runner ends.
Advances ==
  \/ PidDead \/ OutOfTime \/ Reaps \/ Reaped \/ Stops
  \/ \E missing \in BOOLEAN : ExitChecks(missing)

LEMMA AdvancesIs ==
  ASSUME TypeOK, Advances
  PROVE  /\ Only("main") /\ ReadsOn("main")
         /\ thread'["main"].todo \in {thread["main"].todo, Reap, NoteComplete, <<>>}
         /\ thread'["main"].loaded = thread["main"].loaded
         /\ thread'["main"].notes = thread["main"].notes
         /\ UNCHANGED <<agent, term, out, offset, buffer, mon, seen, session, plan, wake, cut, undone, faults>>
<1>1. UNCHANGED <<agent, term, out, offset, buffer, mon, seen, session, plan, wake, cut, undone, faults>>
  BY DEF Advances, PidDead, OutOfTime, Reaps, Reaped, Stops, ExitChecks, Enters, agentVars,
         readVars, fileVars, histVars
<1>2. \/ UNCHANGED thread
      \/ \E q \in {Reap, NoteComplete, <<>>} : thread' = [thread EXCEPT !["main"].todo = q]
  BY DEF Advances, PidDead, OutOfTime, Reaps, Reaped, Stops, ExitChecks, NoteComplete
<1>3. "main" \in Threads /\ {Reap, NoteComplete, <<>>} \subseteq Todos
  BY DEF Threads, Todos, ReapTodos, OtherTodos
<1>4. CASE UNCHANGED thread
  BY <1>1, <1>3, <1>4 DEF TypeOK, Only, ReadsOn
<1>5. CASE \E q \in {Reap, NoteComplete, <<>>} : thread' = [thread EXCEPT !["main"].todo = q]
  <2>1. PICK q \in {Reap, NoteComplete, <<>>} : thread' = [thread EXCEPT !["main"].todo = q]
    BY <1>5
  <2> DEFINE d == [thread["main"] EXCEPT !.todo = q]
  <2>2. thread' = [thread EXCEPT !["main"] = d]
    BY <2>1
  <2>3. thread \in [Threads -> Works1] /\ thread["main"] \in Works1
    BY <1>3 DEF TypeOK
  <2>4. /\ d \in Works1 /\ d.todo = q /\ d.pc = thread["main"].pc
        /\ d.chunk = thread["main"].chunk /\ d.end = thread["main"].end
        /\ d.loaded = thread["main"].loaded /\ d.notes = thread["main"].notes
    BY <1>3, <2>3 DEF Works1
  <2> HIDE DEF d
  <2> QED
    BY <1>1, <1>3, <2>2, <2>3, <2>4 DEF Only, ReadsOn
<1> QED
  BY <1>2, <1>4, <1>5

\* The end of the process.
LEMMA ExitIs ==
  ASSUME TypeOK, Joined \/ JoinTimesOut
  PROVE  /\ runner = "joining" /\ runner' = "gone" /\ thread' \in [Threads -> Works1]
         /\ \A t \in Threads : Is(t, "rest", <<>>, 0, <<>>) /\ thread'[t].loaded = FALSE
         /\ offset' = 0 /\ buffer' = <<>>
         /\ UNCHANGED <<agent, term, out, mon, seen, session, plan, exitReason, undone, faults>>
         /\ ~cut' => ~cut /\ thread["tail"].pc = "rest"
         /\ cut' \in BOOLEAN
         /\ wake' = [timer |-> FALSE, polling |-> FALSE, resumed |-> FALSE]
<1>1. Exit /\ (cut' = TRUE \/ (UNCHANGED cut /\ thread["tail"].pc = "rest"))
  BY DEF Joined, JoinTimesOut
<1>2. \A t \in Threads : thread'[t] = AtRest
  BY <1>1 DEF Exit
<1>3. thread' \in [Threads -> Works1]
  BY <1>1, RestTypes DEF Exit
<1> QED
  BY <1>1, <1>2, <1>3 DEF Exit, agentVars, fileVars, Is, AtRest, TypeOK, RunOK

\* Reading the log.
LEMMA ReadIs ==
  ASSUME TypeOK, LogInv, NEW t \in Threads, Read(t)
  PROVE  /\ Only(t) /\ MayRead(t) /\ thread[t].pc = "rest"
         /\ \E q \in Seq(Lines) :
              /\ Is(t, "read", q, Len(out), <<>>) /\ thread'[t].loaded = FALSE
              /\ Len(q) = Len(out) - offset
              /\ \A i \in 1..Len(q) : q[i] = offset + i
         /\ UNCHANGED <<agent, term, out, offset, buffer, mon, seen, session, plan, wake, runner,
                        exitReason, cut, undone, faults>>
<1> DEFINE n == Len(out) - offset
           q == [i \in 1..n |-> offset + i]
           d == [AtRest EXCEPT !.pc = "read", !.end = Len(out), !.chunk = q]
<1>1. offset \in Nat /\ Len(out) \in Nat /\ n \in Nat
  BY LenProperties DEF TypeOK, AgentOK, ReadOK, LogInv
<1>2. q \in Seq(Lines) /\ Len(q) = n /\ \A i \in 1..Len(q) : q[i] = offset + i
  <2>1. q \in [1..n -> Lines]
    BY <1>1 DEF Lines
  <2>2. q \in Seq(Lines)
    BY <1>1, <2>1, SeqDef
  <2>3. Len(q) = n
    BY <1>1, <2>1, <2>2, LenProperties
  <2> QED
    BY <2>2, <2>3
<1>3. q \in Seq(Nat)
  <2>1. Lines \subseteq Nat
    BY <1>1 DEF Lines
  <2> QED
    BY <1>2, <2>1, SeqMonotonic
<1>4. thread' = [thread EXCEPT ![t] = d] /\ MayRead(t) /\ thread[t].pc = "rest"
  BY DEF Read
<1> HIDE DEF q
<1>5. /\ d \in Works1 /\ d.pc = "read" /\ d.chunk = q /\ d.end = Len(out) /\ d.todo = <<>>
      /\ d.loaded = FALSE
  <2>1. AtRest \in Works1 /\ AtRest.todo = <<>> /\ AtRest.loaded = FALSE
    BY RestTypes
  <2> QED
    BY <1>1, <1>3, <2>1 DEF Works1
<1> HIDE DEF d
<1>6. thread \in [Threads -> Works1]
  BY DEF TypeOK
<1>7. UNCHANGED <<agent, term, out, offset, buffer, mon, seen, session, plan, wake, runner,
                  exitReason, cut, undone, faults>>
  BY DEF Read, agentVars, readVars, fileVars, mainVars, histVars
<1> QED
  BY <1>2, <1>4, <1>5, <1>6, <1>7 DEF Only, Is

\* The offset is kept and the chunk joins the buffer.
LEMMA KeepIs ==
  ASSUME TypeOK, NEW t \in Threads, Keep(t)
  PROVE  /\ Only(t) /\ thread[t].pc = "read" /\ thread[t].chunk # <<>>
         /\ Is(t, "lines", <<>>, 0, <<>>) /\ thread'[t].loaded = FALSE
         /\ offset' = thread[t].end /\ buffer' = buffer \o thread[t].chunk
         /\ UNCHANGED <<agent, term, out, mon, seen, session, plan, wake, runner, exitReason, cut,
                        undone, faults>>
<1> DEFINE d == [AtRest EXCEPT !.pc = "lines"]
<1>1. thread' = [thread EXCEPT ![t] = d] /\ thread \in [Threads -> Works1]
  BY DEF Keep, TypeOK
<1>2. d \in Works1 /\ d.pc = "lines" /\ d.chunk = <<>> /\ d.end = 0 /\ d.todo = <<>> /\ d.loaded = FALSE
  BY RestTypes DEF Works1, AtRest
<1> HIDE DEF d
<1>3. /\ thread[t].pc = "read" /\ thread[t].chunk # <<>>
      /\ offset' = thread[t].end /\ buffer' = buffer \o thread[t].chunk
      /\ UNCHANGED <<agent, term, out, mon, seen, session, plan, wake, runner, exitReason, cut,
                     undone, faults>>
  BY DEF Keep, agentVars, fileVars, mainVars, histVars
<1> QED
  BY <1>1, <1>2, <1>3 DEF Only, Is

\* The end of a reading.
LEMMA FinishIs ==
  ASSUME TypeOK, NEW t \in Threads, Finish(t)
  PROVE  /\ Only(t)
         /\ \/ thread[t].pc = "read" /\ thread[t].chunk = <<>>
            \/ thread[t].pc = "lines" /\ thread[t].todo = <<>> /\ buffer = <<>>
         /\ Is(t, "rest", <<>>, 0, <<>>) /\ thread'[t].loaded = FALSE
         /\ runner' = IF t = "main" THEN "leaving" ELSE runner
         /\ UNCHANGED <<agent, term, out, offset, buffer, mon, seen, session, plan, wake,
                        exitReason, cut, undone, faults>>
<1>1. /\ thread' = [thread EXCEPT ![t] = AtRest] /\ thread \in [Threads -> Works1]
      /\ runner' = IF t = "main" THEN "leaving" ELSE runner
  BY DEF Finish, Returns, TypeOK
<1>2. UNCHANGED <<agent, term, out, offset, buffer, mon, seen, session, plan, wake,
                  exitReason, cut, undone, faults>>
  BY DEF Finish, agentVars, readVars, fileVars, histVars
<1>3. \/ thread[t].pc = "read" /\ thread[t].chunk = <<>>
      \/ thread[t].pc = "lines" /\ thread[t].todo = <<>> /\ buffer = <<>>
  BY DEF Finish, Busy
<1> QED
  BY <1>1, <1>2, <1>3, RestTypes DEF Only, Is, AtRest

\* A line is taken from the buffer and processed.
LEMMA ProcessIs ==
  ASSUME NEW m \in Monitors, NEW kind \in Kinds
  PROVE  /\ Process(m, kind).mon \in Monitors
         /\ Process(m, kind).todo \in {<<>>, Overrun, SigTodo, StopAll, StopOne, JustFail, NotePr}
         /\ Process(m, kind).mon.cost = m.cost + (IF kind = "spend" THEN 1 ELSE 0)
         /\ m.fired \subseteq Process(m, kind).mon.fired
         /\ "cost" \in Process(m, kind).mon.fired => "cost" \in m.fired \/ Process(m, kind).todo = Overrun
         /\ IF Process(m, kind).todo \in {StopAll, StopOne}
            THEN ~m.suspended /\ Process(m, kind).mon.suspended
            ELSE Process(m, kind).mon.suspended = m.suspended
<1>1. /\ <<>> \notin {StopAll, StopOne} /\ Overrun \notin {StopAll, StopOne}
      /\ SigTodo \notin {StopAll, StopOne} /\ JustFail \notin {StopAll, StopOne}
      /\ NotePr \notin {StopAll, StopOne}
  BY OverRows, OtherRows, SuspendRows DEF Row
<1>2. m.cost \in Nat /\ m.fails \in Nat
  BY DEF Monitors
<1>3. CASE kind = "spend"
  <2> DEFINE n == [m EXCEPT !.cost = @ + 1]
  <2>1. n \in Monitors /\ n.cost = m.cost + 1 /\ n.fired = m.fired /\ n.suspended = m.suspended
    BY DEF Monitors
  <2>2. Process(m, kind) = Spent(n)
    BY <1>3 DEF Process
  <2> HIDE DEF n
  <2> DEFINE o == [n EXCEPT !.fired = @ \cup {"cost"}]
  <2>3. /\ o \in Monitors /\ o.cost = n.cost /\ o.fired = n.fired \cup {"cost"}
        /\ o.suspended = n.suspended
    BY <2>1 DEF Monitors
  <2>4. \/ Spent(n).mon = n /\ Spent(n).todo = <<>>
        \/ Spent(n).mon = o /\ Spent(n).todo = Overrun
    BY DEF Spent, Quiet, Fires
  <2> HIDE DEF o
  <2> QED
    BY <1>1, <1>3, <2>1, <2>2, <2>3, <2>4
<1>4. CASE kind \in {"ok", "err"}
  <2> DEFINE n == IF kind = "err" THEN m.fails + 1 ELSE 0
             s == [m EXCEPT !.pending = FALSE, !.fails = n]
             o == [s EXCEPT !.fired = @ \cup {"push"}]
  <2>1. Process(m, kind) = Result(m, kind = "err")
    BY <1>4 DEF Process
  <2>2. n \in Nat
    BY <1>2
  <2> HIDE DEF n
  <2>3. /\ s \in Monitors /\ s.cost = m.cost /\ s.fired = m.fired /\ s.suspended = m.suspended
    BY <2>2 DEF Monitors
  <2>4. /\ o \in Monitors /\ o.cost = m.cost /\ o.fired = m.fired \cup {"push"}
        /\ o.suspended = m.suspended
    BY <2>3 DEF Monitors
  <2>5. \/ Process(m, kind).mon = m /\ Process(m, kind).todo = <<>>
        \/ Process(m, kind).mon = s /\ Process(m, kind).todo = <<>>
        \/ Process(m, kind).mon = o /\ Process(m, kind).todo = SigTodo
    BY <2>1 DEF Result, Quiet, Fires, SigTodo, n
  <2> HIDE DEF s, o
  <2> QED
    BY <1>1, <1>4, <2>3, <2>4, <2>5, <1>2
<1>5. CASE kind \in {"poll", "blindpoll"}
  <2> DEFINE n == [m EXCEPT !.suspended = TRUE]
  <2>1. Process(m, kind) = CiPoll(m, kind)
    BY <1>5 DEF Process
  <2>2. n \in Monitors /\ n.cost = m.cost /\ n.fired = m.fired /\ n.suspended = TRUE
    BY DEF Monitors
  <2>3. <<Suspend(kind)>> \in {StopAll, StopOne}
    BY <1>5 DEF StopAll, StopOne
  <2>4. \/ m.suspended /\ Process(m, kind).mon = m /\ Process(m, kind).todo = <<>>
        \/ ~m.suspended /\ Process(m, kind).mon = n /\ Process(m, kind).todo = <<Suspend(kind)>>
    BY <2>1 DEF CiPoll, Quiet
  <2> HIDE DEF n
  <2> QED
    BY <1>1, <1>5, <2>2, <2>3, <2>4, <1>2
<1>6. CASE kind = "quota"
  <2> DEFINE o == [m EXCEPT !.fired = @ \cup {"quota"}]
  <2>1. /\ o \in Monitors /\ o.cost = m.cost /\ o.fired = m.fired \cup {"quota"}
        /\ o.suspended = m.suspended
    BY DEF Monitors
  <2>2. \/ Process(m, kind).mon = m /\ Process(m, kind).todo = <<>>
        \/ Process(m, kind).mon = o /\ Process(m, kind).todo = JustFail
    BY <1>6 DEF Process, Fires, Quiet, JustFail
  <2> HIDE DEF o
  <2> QED
    BY <1>1, <1>6, <2>1, <2>2, <1>2
<1>7. CASE kind \in {"push", "complete"}
  <2> DEFINE o == IF kind = "push" THEN [m EXCEPT !.pending = TRUE] ELSE [m EXCEPT !.complete = TRUE]
  <2>1. /\ o \in Monitors /\ o.cost = m.cost /\ o.fired = m.fired /\ o.suspended = m.suspended
    BY DEF Monitors
  <2>2. Process(m, kind).mon = o /\ Process(m, kind).todo = <<>>
    BY <1>7 DEF Process, Quiet
  <2> HIDE DEF o
  <2> QED
    BY <1>1, <1>7, <2>1, <2>2, <1>2
<1>8. CASE kind \in {"pr", "work"}
  <2>1. Process(m, kind).mon = m /\ Process(m, kind).todo \in {<<>>, NotePr}
    BY <1>8 DEF Process, Quiet, NotePr
  <2> QED
    BY <1>1, <1>8, <2>1, <1>2
<1> QED
  BY <1>3, <1>4, <1>5, <1>6, <1>7, <1>8 DEF Kinds

LEMMA TakeIs ==
  ASSUME TypeOK, LogInv, NEW t \in Threads, Take(t)
  PROVE  /\ Only(t) /\ ReadsOn(t) /\ thread[t].pc = "lines" /\ thread[t].todo = <<>>
         /\ buffer # <<>> /\ buffer' = Tail(buffer)
         /\ Head(buffer) \in Lines /\ out[Head(buffer)] \in Kinds
         /\ seen' = seen \cup {Head(buffer)}
         /\ mon' = Process(mon, out[Head(buffer)]).mon
         /\ thread'[t].todo = Process(mon, out[Head(buffer)]).todo
         /\ thread'[t].todo \in Todos /\ mon' \in Monitors
         /\ thread'[t].loaded = thread[t].loaded /\ thread'[t].notes = thread[t].notes
         /\ UNCHANGED <<agent, term, out, offset, session, plan, wake, runner, exitReason, cut,
                        undone, faults>>
<1> DEFINE r == Process(mon, out[Head(buffer)])
           d == [thread[t] EXCEPT !.todo = r.todo]
<1>1. /\ thread' = [thread EXCEPT ![t] = d] /\ buffer # <<>> /\ buffer' = Tail(buffer)
      /\ seen' = seen \cup {Head(buffer)} /\ mon' = r.mon
      /\ thread[t].pc = "lines" /\ thread[t].todo = <<>>
      /\ UNCHANGED <<agent, term, out, offset, session, plan, wake, runner, exitReason, cut,
                     undone, faults>>
  BY DEF Take, Busy, agentVars, fileVars, mainVars, histVars
<1>2. Head(buffer) \in Lines /\ out[Head(buffer)] \in Kinds
  <2>1. Head(buffer) \in Lines
    BY <1>1, HeadTailProperties DEF LogInv
  <2> QED
    BY <2>1, ElementOfSeq DEF TypeOK, AgentOK, Lines
<1>3. mon \in Monitors
  BY DEF TypeOK, ReadOK
<1>4. r.mon \in Monitors /\ r.todo \in Todos
  <2>1. PICK kind \in Kinds : kind = out[Head(buffer)]
    BY <1>2
  <2>2. PICK m \in Monitors : m = mon
    BY <1>3
  <2>3. Process(m, kind).mon \in Monitors /\ Process(m, kind).todo \in Todos
    BY ProcessIs DEF Todos, OverTodos, OtherTodos, SuspendTodos
  <2> QED
    BY <2>1, <2>2, <2>3
<1> HIDE DEF r
<1>5. thread \in [Threads -> Works1] /\ thread[t] \in Works1
  BY DEF TypeOK
<1>6. /\ d \in Works1 /\ d.todo = r.todo /\ d.pc = thread[t].pc /\ d.chunk = thread[t].chunk
      /\ d.end = thread[t].end /\ d.loaded = thread[t].loaded /\ d.notes = thread[t].notes
  BY <1>4, <1>5 DEF Works1
<1> HIDE DEF d
<1>7. Only(t) /\ ReadsOn(t) /\ thread'[t].todo = r.todo
      /\ thread'[t].loaded = thread[t].loaded /\ thread'[t].notes = thread[t].notes
  BY <1>1, <1>5, <1>6 DEF Only, ReadsOn
<1> QED
  BY <1>1, <1>2, <1>4, <1>7 DEF r

\* The steps, by what they do.
LEMMA NextIs ==
  Next <=> \/ \E t \in Threads : Read(t) \/ Keep(t) \/ Take(t) \/ Finish(t) \/ Executes(t)
           \/ Outside \/ Advances \/ Joined \/ JoinTimesOut
           \/ \E kind \in LineKinds : AgentWrites(kind)
BY DEF Next, Works, Runs, Executes, Outside, Advances

-----------------------------------------------------------------------------
(* Types.                                                                  *)

LEMMA MovedIs ==
  ASSUME TypeOK, NEW to \in Statuses
  PROVE  Moved(to) \in Sessions /\ Moved(to).status = to
<1> DEFINE c == session.closed \/ to \in Closing
<1>1. session \in Sessions /\ c \in BOOLEAN
  BY DEF TypeOK, FileOK
<1>2. Moved(to) = [session EXCEPT !.status = to, !.closed = c]
  BY DEF Moved
<1> HIDE DEF c
<1> QED
  BY <1>1, <1>2 DEF Sessions

LEMMA StampedIs ==
  ASSUME TypeOK, NEW t \in Threads
  PROVE  Stamped(t) \in Sessions
<1>1. thread[t].held \in Sessions
  BY ThreadTypes
<1>2. /\ [thread[t].held EXCEPT !.closed = TRUE] \in Sessions
      /\ [thread[t].held EXCEPT !.overrun = TRUE] \in Sessions
  BY <1>1 DEF Sessions
<1> QED
  BY <1>2 DEF Stamped

LEMMA TypeJoin ==
  ASSUME AgentOK', ReadOK', FileOK', RunOK', thread' \in [Threads -> Works1]
  PROVE  TypeOK'
BY DEF TypeOK

LEMMA TypeSame ==
  ASSUME TypeOK
  PROVE  /\ UNCHANGED <<agent, term, out>> => AgentOK'
         /\ UNCHANGED <<offset, buffer, mon>> => ReadOK'
         /\ UNCHANGED <<session, plan>> => FileOK'
         /\ UNCHANGED <<runner, exitReason, wake, cut, undone, faults>> => RunOK'
<1>1. UNCHANGED <<agent, term, out>> => AgentOK'
  BY DEF TypeOK, AgentOK
<1>2. UNCHANGED <<offset, buffer, mon>> => ReadOK'
  BY DEF TypeOK, ReadOK
<1>3. UNCHANGED <<session, plan>> => FileOK'
  BY DEF TypeOK, FileOK
<1>4. UNCHANGED <<runner, exitReason, wake, cut, undone, faults>> => RunOK'
  BY DEF TypeOK, RunOK
<1> QED
  BY <1>1, <1>2, <1>3, <1>4

\* A save changes the status only if something was undone.
LEMMA SaveIs ==
  ASSUME TypeOK, NEW new \in Sessions, Save(new)
  PROVE  /\ session' \in Sessions /\ undone' \in BOOLEAN
         /\ ~undone' => ~undone /\ session'.status = session.status
BY DEF Save, TypeOK, RunOK

LEMMA WriteIs ==
  ASSUME TypeOK, NEW notes \in SUBSET Notes, Write(notes)
  PROVE  /\ plan' \in SUBSET Notes /\ undone' \in BOOLEAN
         /\ ~undone' => ~undone /\ plan \subseteq plan'
         /\ plan' = notes
BY DEF Write, TypeOK, RunOK

LEMMA StampIs ==
  ASSUME TypeOK, NEW t \in Threads, Stamp(t) \/ StampRaises(t)
  PROVE  /\ session' \in Sessions /\ undone' \in BOOLEAN
         /\ ~undone' => ~undone /\ session'.status = session.status
         /\ UNCHANGED <<agent, term, wake, plan>>
         /\ faults' \in {faults, faults + 1}
<1>1. /\ \E new \in {Stamped(t), session} : Save(new)
      /\ UNCHANGED <<agent, term, wake, plan>> /\ faults' \in {faults, faults + 1}
  BY DEF Stamp, StampRaises, agentVars
<1>2. Stamped(t) \in Sessions /\ session \in Sessions
  BY StampedIs DEF TypeOK, FileOK
<1> QED
  BY <1>1, <1>2, SaveIs

LEMMA InjectIs ==
  ASSUME TypeOK, NEW t \in Threads, Inject(t)
  PROVE  /\ plan' \in SUBSET Notes /\ undone' \in BOOLEAN
         /\ ~undone' => ~undone /\ plan \subseteq plan'
         /\ Step(t) \in thread[t].notes \/ Step(t) \in plan'
         /\ thread[t].loaded
         /\ UNCHANGED <<agent, term, wake, session, faults>>
<1>1. /\ Write(IF Step(t) \in thread[t].notes THEN plan ELSE thread[t].notes \cup {Step(t)})
      /\ Step(t) \in Notes /\ thread[t].loaded
      /\ UNCHANGED <<agent, term, wake, session, faults>>
  BY DEF Inject, agentVars
<1>2. plan \in SUBSET Notes /\ thread[t].notes \in SUBSET Notes
  BY ThreadTypes DEF TypeOK, FileOK
<1>3. CASE Step(t) \in thread[t].notes
  BY <1>1, <1>2, <1>3, WriteIs
<1>4. CASE Step(t) \notin thread[t].notes
  <2>1. thread[t].notes \cup {Step(t)} \in SUBSET Notes
    BY <1>1, <1>2
  <2>2. Write(thread[t].notes \cup {Step(t)})
    BY <1>1, <1>4
  <2> QED
    BY <1>1, <2>1, <2>2, WriteIs
<1> QED
  BY <1>3, <1>4

LEMMA TransitionIs ==
  ASSUME TypeOK, NEW t \in Threads, Transition(t)
  PROVE  /\ session' \in Sessions
         /\ Step(t) \in {"paused", "failed"}
         /\ session' = IF <<session.status, Step(t)>> \in Routes THEN Moved(Step(t)) ELSE session
         /\ <<session.status, Step(t)>> \in Routes => session'.status = Step(t)
         /\ UNCHANGED <<agent, term, wake, plan, undone, faults>>
<1>1. /\ Step(t) \in {"paused", "failed"}
      /\ session' = IF <<session.status, Step(t)>> \in Routes THEN Moved(Step(t)) ELSE session
      /\ UNCHANGED <<agent, term, wake, plan, undone, faults>>
  BY DEF Transition, agentVars, histVars
<1>2. Step(t) \in Statuses
  BY <1>1 DEF Statuses
<1>3. Moved(Step(t)) \in Sessions /\ Moved(Step(t)).status = Step(t)
  BY <1>2, MovedIs
<1> QED
  BY <1>1, <1>3 DEF TypeOK, FileOK

\* What the other steps of a list change.
LEMMA SignalIs ==
  ASSUME TypeOK, NEW t \in Threads,
         Kill(t) \/ Load(t) \/ TransitionFails(t) \/ Freeze(t) \/ StartTimer(t) \/ StartPoller(t)
  PROVE  /\ UNCHANGED <<session, plan, undone>>
         /\ faults' \in {faults, faults + 1}
         /\ ~Kill(t) => UNCHANGED term
         /\ ~Freeze(t) => UNCHANGED agent
         /\ ~StartTimer(t) /\ ~StartPoller(t) => UNCHANGED wake
<1>1. UNCHANGED <<session, plan, undone>> /\ faults' \in {faults, faults + 1}
  BY DEF Kill, Load, TransitionFails, Freeze, StartTimer, StartPoller, fileVars, histVars
<1>2. /\ ~Kill(t) => UNCHANGED term
      /\ ~Freeze(t) => UNCHANGED agent
      /\ ~StartTimer(t) /\ ~StartPoller(t) => UNCHANGED wake
  BY DEF Kill, Load, TransitionFails, Freeze, StartTimer, StartPoller, agentVars
<1> QED
  BY <1>1, <1>2

LEMMA ExecTypes == ASSUME TypeOK, NEW t \in Threads, Executes(t) PROVE TypeOK'
<1>1. thread' \in [Threads -> Works1] /\ UNCHANGED <<out, offset, buffer, mon, runner, exitReason, cut>>
  BY ExecIs DEF Only
<1>2. AgentOK'
  <2>1. agent' \in {"running", "stopped", "dead"}
    <3>1. CASE Freeze(t)
      BY <3>1 DEF Freeze, TypeOK, AgentOK
    <3>2. CASE ~Freeze(t)
      BY <3>2, StampIs, InjectIs, TransitionIs, SignalIs DEF Executes, TypeOK, AgentOK
    <3> QED
      BY <3>1, <3>2
  <2>2. term' \in BOOLEAN
    <3>1. CASE Kill(t)
      BY <3>1 DEF Kill
    <3>2. CASE ~Kill(t)
      BY <3>2, StampIs, InjectIs, TransitionIs, SignalIs DEF Executes, TypeOK, AgentOK
    <3> QED
      BY <3>1, <3>2
  <2> QED
    BY <1>1, <2>1, <2>2 DEF TypeOK, AgentOK
<1>3. ReadOK'
  BY <1>1, TypeSame
<1>4. FileOK'
  BY StampIs, InjectIs, TransitionIs, SignalIs DEF Executes, TypeOK, FileOK
<1>5. RunOK'
  <2>1. wake' \in [timer : BOOLEAN, polling : BOOLEAN, resumed : BOOLEAN]
    <3>1. CASE StartTimer(t)
      BY <3>1 DEF StartTimer, TypeOK, RunOK
    <3>2. CASE StartPoller(t)
      BY <3>2 DEF StartPoller, TypeOK, RunOK
    <3>3. CASE ~StartTimer(t) /\ ~StartPoller(t)
      BY <3>3, StampIs, InjectIs, TransitionIs, SignalIs DEF Executes, TypeOK, RunOK
    <3> QED
      BY <3>1, <3>2, <3>3
  <2>2. undone' \in BOOLEAN
    BY StampIs, InjectIs, TransitionIs, SignalIs DEF Executes, TypeOK, RunOK
  <2>3. faults' \in Nat
    <3>1. faults' \in {faults, faults + 1} /\ faults \in Nat
      BY StampIs, InjectIs, TransitionIs, SignalIs DEF Executes, TypeOK, RunOK
    <3> QED
      BY <3>1
  <2> QED
    BY <1>1, <2>1, <2>2, <2>3 DEF TypeOK, RunOK
<1> QED
  BY <1>1, <1>2, <1>3, <1>4, <1>5, TypeJoin

LEMMA ReaderTypes ==
  ASSUME TypeOK, LogInv, NEW t \in Threads, Read(t) \/ Keep(t) \/ Take(t) \/ Finish(t)
  PROVE  TypeOK'
<1>1. thread' \in [Threads -> Works1] /\ AgentOK' /\ FileOK'
  BY ReadIs, KeepIs, TakeIs, FinishIs, TypeSame DEF Only
<1>2. RunOK'
  <2>1. CASE Finish(t)
    BY <2>1, FinishIs DEF TypeOK, RunOK, Phases
  <2> QED
    BY <2>1, ReadIs, KeepIs, TakeIs, TypeSame
<1>3. ReadOK'
  <2>1. CASE Keep(t)
    <3>1. thread[t].end \in Nat /\ buffer \o thread[t].chunk \in Seq(Nat)
      BY ThreadTypes, ConcatProperties DEF TypeOK, ReadOK
    <3> QED
      BY <2>1, <3>1, KeepIs DEF TypeOK, ReadOK
  <2>2. CASE Take(t)
    <3>1. buffer # <<>> /\ Tail(buffer) \in Seq(Nat)
      BY <2>2, TakeIs, HeadTailProperties DEF TypeOK, ReadOK
    <3> QED
      BY <2>2, <3>1, TakeIs DEF TypeOK, ReadOK
  <2> QED
    BY <2>1, <2>2, ReadIs, FinishIs, TypeSame
<1> QED
  BY <1>1, <1>2, <1>3, TypeJoin

LEMMA TypeStep == ASSUME TypeOK, LogInv, [Next]_vars PROVE TypeOK'
<1>1. CASE UNCHANGED vars
  BY <1>1 DEF TypeOK, AgentOK, ReadOK, FileOK, RunOK, vars, agentVars, readVars, envVars, fileVars,
              mainVars, histVars
<1>2. CASE Outside
  <2>1. thread' \in [Threads -> Works1] /\ ReadOK'
    BY <1>2, OutsideIs, TypeSame DEF TypeOK
  <2>2. AgentOK'
    BY <1>2, OutsideIs DEF Outside, TimerFires, PollerWakes, AgentExits, CiAdvances, OthersMove,
       Tick, SigCont, agentVars, TypeOK, AgentOK
  <2>3. FileOK'
    <3>1. CASE OthersMove
      <4>1. PICK r \in Elsewhere : session' = Moved(r[2])
        BY <3>1 DEF OthersMove
      <4>2. r[2] \in Statuses
        BY DEF Statuses
      <4> QED
        BY <1>2, <4>1, <4>2, MovedIs, OutsideIs DEF TypeOK, FileOK
    <3>2. CASE ~OthersMove
      BY <1>2, <3>2, TypeSame DEF Outside, TimerFires, PollerWakes, AgentExits, CiAdvances, Tick, fileVars
    <3> QED
      BY <3>1, <3>2
  <2>4. RunOK'
    <3>1. wake' \in [timer : BOOLEAN, polling : BOOLEAN, resumed : BOOLEAN]
      <4>1. CASE TimerFires
        BY <4>1 DEF TimerFires
      <4>2. CASE PollerWakes
        BY <4>2 DEF PollerWakes, TypeOK, RunOK
      <4>3. CASE ~TimerFires /\ ~PollerWakes
        <5>1. UNCHANGED wake
          BY <1>2, <4>3 DEF Outside, AgentExits, CiAdvances, OthersMove, Tick
        <5> QED
          BY <5>1 DEF TypeOK, RunOK
      <4> QED
        BY <4>1, <4>2, <4>3
    <3> QED
      BY <1>2, <3>1, OutsideIs DEF TypeOK, RunOK
  <2> QED
    BY <2>1, <2>2, <2>3, <2>4, TypeJoin
<1>3. CASE Advances
  <2>1. thread' \in [Threads -> Works1] /\ AgentOK' /\ ReadOK' /\ FileOK'
    BY <1>3, AdvancesIs, TypeSame DEF Only
  <2>2. runner' \in Phases /\ exitReason' \in Reasons
    BY <1>3 DEF Advances, PidDead, OutOfTime, Reaps, Reaped, Stops, ExitChecks, Enters, Phases,
       Reasons, TypeOK, RunOK
  <2>3. RunOK'
    BY <1>3, <2>2, AdvancesIs DEF TypeOK, RunOK
  <2> QED
    BY <2>1, <2>3, TypeJoin
<1>4. CASE Joined \/ JoinTimesOut
  <2>1. thread' \in [Threads -> Works1] /\ AgentOK' /\ FileOK'
    BY <1>4, ExitIs, TypeSame
  <2>2. ReadOK'
    <3>1. offset' = 0 /\ buffer' = <<>> /\ mon' = mon
      BY <1>4, ExitIs
    <3>2. mon \in Monitors
      BY DEF TypeOK, ReadOK
    <3>3. offset' \in Nat /\ buffer' \in Seq(Nat) /\ mon' \in Monitors
      BY <3>1, <3>2
    <3> QED
      BY <3>3 DEF ReadOK
  <2>3. RunOK'
    <3>1. /\ runner' = "gone" /\ exitReason' = exitReason /\ cut' \in BOOLEAN
          /\ wake' = [timer |-> FALSE, polling |-> FALSE, resumed |-> FALSE]
          /\ undone' = undone /\ faults' = faults
      BY <1>4, ExitIs
    <3>2. exitReason \in Reasons /\ undone \in BOOLEAN /\ faults \in Nat
      BY DEF TypeOK, RunOK
    <3>3. "gone" \in Phases /\ wake' \in [timer : BOOLEAN, polling : BOOLEAN, resumed : BOOLEAN]
      BY <3>1 DEF Phases
    <3> QED
      BY <3>1, <3>2, <3>3 DEF RunOK
  <2> QED
    BY <2>1, <2>2, <2>3, TypeJoin
<1>5. ASSUME NEW kind \in LineKinds, AgentWrites(kind) PROVE TypeOK'
  <2>1. /\ UNCHANGED <<agent, term, offset, buffer, mon, session, plan, thread>>
        /\ UNCHANGED <<runner, exitReason, wake, cut, undone, faults>>
        /\ out' = Append(out, kind)
    BY <1>5 DEF AgentWrites, readVars, fileVars, mainVars, histVars
  <2>2. AgentOK'
    BY <2>1, MonitorAssumption, AppendProperties DEF TypeOK, AgentOK
  <2> QED
    BY <2>1, <2>2, TypeSame, TypeJoin DEF TypeOK
<1> QED
  BY <1>1, <1>2, <1>3, <1>4, <1>5, ExecTypes, ReaderTypes, NextIs

-----------------------------------------------------------------------------
(* The readers and the log.                                                *)

\* The log only grows.
LEMMA LogGrows ==
  ASSUME TypeOK, NEW kind \in LineKinds, AgentWrites(kind)
  PROVE  /\ UNCHANGED <<thread, offset, buffer, mon, seen, runner, exitReason, cut>>
         /\ agent = "running" /\ agent' = "running" /\ runner # "gone"
         /\ Len(out) \in Nat /\ Len(out') = Len(out) + 1
         /\ \A i \in Lines : i \in Lines' /\ out'[i] = out[i]
         /\ Seq(Lines) \subseteq Seq(Lines')
<1>1. /\ UNCHANGED <<thread, offset, buffer, mon, seen, runner, exitReason, cut>>
      /\ agent = "running" /\ agent' = "running" /\ runner # "gone" /\ out' = Append(out, kind)
  BY DEF AgentWrites, readVars, mainVars, histVars
<1>2. out \in Seq(Kinds) /\ kind \in Kinds
  BY MonitorAssumption DEF TypeOK, AgentOK
<1>3. /\ Len(out) \in Nat /\ Len(out') = Len(out) + 1
      /\ \A i \in 1..Len(out) : out'[i] = out[i]
  BY <1>1, <1>2, AppendProperties, LenProperties
<1>4. Lines \subseteq Lines'
  BY <1>3 DEF Lines
<1>5. Seq(Lines) \subseteq Seq(Lines')
  BY <1>4, SeqMonotonic
<1> QED
  BY <1>1, <1>3, <1>4, <1>5 DEF Lines

LEMMA LogStep == ASSUME TypeOK, LogInv, [Next]_vars PROVE LogInv'
<1>1. CASE UNCHANGED vars
  BY <1>1 DEF LogInv, Lines, vars, agentVars, readVars
<1>2. ASSUME UNCHANGED <<out, offset, buffer, seen>>, NEW t \in Threads, Only(t), ReadsOn(t)
      PROVE  LogInv'
  BY <1>2 DEF LogInv, Lines, Only, ReadsOn
<1>3. CASE Outside
  BY <1>3, OutsideIs DEF LogInv, Lines
<1>4. CASE Advances
  BY <1>2, <1>4, AdvancesIs DEF Threads
<1>5. CASE Joined \/ JoinTimesOut
  <2>1. /\ offset' = 0 /\ buffer' = <<>> /\ UNCHANGED <<out, seen>>
        /\ \A t \in Threads : thread'[t].pc = "rest"
    BY <1>5, ExitIs DEF Is
  <2>2. Len(out) \in Nat
    BY LenProperties DEF TypeOK, AgentOK
  <2>3. buffer' \in Seq(Lines)
    BY <2>1
  <2> QED
    BY <2>1, <2>2, <2>3 DEF LogInv, Lines
<1>6. ASSUME NEW kind \in LineKinds, AgentWrites(kind) PROVE LogInv'
  <2>1. /\ UNCHANGED <<thread, offset, buffer, seen>> /\ Len(out) \in Nat /\ Len(out') = Len(out) + 1
        /\ \A i \in Lines : i \in Lines'
        /\ Seq(Lines) \subseteq Seq(Lines')
    BY <1>6, LogGrows
  <2>2. offset \in Nat /\ \A t \in Threads : thread[t].end \in Nat
    BY ThreadTypes DEF TypeOK, ReadOK
  <2>3. /\ offset <= Len(out) /\ buffer \in Seq(Lines) /\ seen \subseteq Lines
        /\ \A t \in Threads : thread[t].pc = "read" =>
             thread[t].chunk \in Seq(Lines) /\ thread[t].end <= Len(out)
    BY DEF LogInv
  <2>4. offset' <= Len(out')
    BY <2>1, <2>2, <2>3
  <2>5. buffer' \in Seq(Lines')
    BY <2>1, <2>3
  <2>6. seen' \subseteq Lines'
    BY <2>1, <2>3
  <2>7. ASSUME NEW t \in Threads, thread'[t].pc = "read"
        PROVE  thread'[t].chunk \in Seq(Lines') /\ thread'[t].end <= Len(out')
    BY <2>1, <2>2, <2>3, <2>7
  <2> QED
    BY <2>4, <2>5, <2>6, <2>7 DEF LogInv
<1>7. ASSUME NEW t \in Threads, Executes(t) PROVE LogInv'
  BY <1>2, <1>7, ExecIs
<1>8. ASSUME NEW t \in Threads, Read(t) PROVE LogInv'
  <2>1. /\ UNCHANGED <<out, offset, buffer, seen>>
        /\ thread'[t].chunk \in Seq(Lines) /\ thread'[t].end = Len(out) /\ Only(t)
    BY <1>8, ReadIs DEF Is
  <2>2. Len(out) \in Nat
    BY LenProperties DEF TypeOK, AgentOK
  <2>3. Lines' = Lines
    BY <2>1 DEF Lines
  <2>4. ASSUME NEW x \in Threads, thread'[x].pc = "read"
        PROVE  thread'[x].chunk \in Seq(Lines) /\ thread'[x].end <= Len(out)
    BY <2>1, <2>2, <2>4 DEF LogInv, Only
  <2>5. offset <= Len(out) /\ buffer \in Seq(Lines) /\ seen \subseteq Lines
    BY DEF LogInv
  <2> QED
    BY <2>1, <2>3, <2>4, <2>5 DEF LogInv
<1>9. ASSUME NEW t \in Threads, Keep(t) PROVE LogInv'
  <2>1. /\ UNCHANGED <<out, seen>> /\ Only(t) /\ thread'[t].pc = "lines" /\ thread[t].pc = "read"
        /\ offset' = thread[t].end /\ buffer' = buffer \o thread[t].chunk
    BY <1>9, KeepIs DEF Is
  <2>2. buffer \o thread[t].chunk \in Seq(Lines)
    BY <2>1, ConcatProperties DEF LogInv
  <2> QED
    BY <2>1, <2>2 DEF LogInv, Lines, Only
<1>10. ASSUME NEW t \in Threads, Take(t) PROVE LogInv'
  <2>1. /\ UNCHANGED <<out, offset>> /\ Only(t) /\ ReadsOn(t) /\ Head(buffer) \in Lines
        /\ buffer # <<>> /\ buffer' = Tail(buffer) /\ seen' = seen \cup {Head(buffer)}
    BY <1>10, TakeIs
  <2>2. Tail(buffer) \in Seq(Lines)
    BY <2>1, HeadTailProperties DEF LogInv
  <2> QED
    BY <2>1, <2>2 DEF LogInv, Lines, Only, ReadsOn
<1>11. ASSUME NEW t \in Threads, Finish(t) PROVE LogInv'
  <2>1. UNCHANGED <<out, offset, buffer, seen>> /\ Only(t) /\ thread'[t].pc = "rest"
    BY <1>11, FinishIs DEF Is
  <2> QED
    BY <2>1 DEF LogInv, Lines, Only
<1> QED
  BY <1>1, <1>3, <1>4, <1>5, <1>6, <1>7, <1>8, <1>9, <1>10, <1>11, NextIs

-----------------------------------------------------------------------------
(* The phases of the runner.                                               *)

LEMMA PhaseIs ==
  ASSUME TypeOK, Advances
  PROVE  \/ /\ runner = "watching" /\ agent = "dead" /\ runner' = "flushing"
            /\ exitReason' = "pid_dead" /\ UNCHANGED thread
         \/ /\ runner = "watching" /\ agent # "dead" /\ runner' = "flushing"
            /\ exitReason' = "max_runtime" /\ UNCHANGED thread
         \/ /\ runner = "watching" /\ runner' = "reaping" /\ UNCHANGED exitReason
            /\ thread'["main"].todo = Reap
         \/ /\ runner = "reaping" /\ thread["main"].todo = <<>> /\ runner' = "flushing"
            /\ exitReason' = "stream_idle" /\ UNCHANGED thread
         \/ /\ runner = "leaving" /\ runner' = "stopping" /\ UNCHANGED exitReason
            /\ thread'["main"].todo \in {NoteComplete, <<>>}
         \/ /\ runner = "stopping" /\ thread["main"].todo = <<>> /\ runner' = "joining"
            /\ UNCHANGED <<thread, exitReason>>
<1>1. CASE PidDead \/ OutOfTime
  BY <1>1 DEF PidDead, OutOfTime, Enters
<1>2. CASE Reaps
  <2>1. thread' = [thread EXCEPT !["main"].todo = Reap] /\ "main" \in Threads
    BY <1>2 DEF Reaps, Threads
  <2>2. thread \in [Threads -> Works1] /\ thread["main"] \in Works1
    BY <2>1 DEF TypeOK
  <2>3. thread'["main"].todo = Reap
    BY <2>1, <2>2 DEF Works1
  <2> QED
    BY <1>2, <2>3 DEF Reaps, Enters
<1>3. CASE Reaped \/ Stops
  BY <1>3 DEF Reaped, Stops, Enters, Busy
<1>4. CASE \E missing \in BOOLEAN : ExitChecks(missing)
  <2>1. PICK missing \in BOOLEAN : ExitChecks(missing)
    BY <1>4
  <2>2. PICK q \in {NoteComplete, <<>>} : thread' = [thread EXCEPT !["main"].todo = q]
    BY <2>1 DEF ExitChecks, NoteComplete
  <2>3. thread \in [Threads -> Works1] /\ "main" \in Threads /\ thread["main"] \in Works1
    BY DEF TypeOK, Threads
  <2>4. thread'["main"].todo = q
    BY <2>2, <2>3 DEF Works1
  <2> QED
    BY <2>1, <2>4 DEF ExitChecks, Enters
<1> QED
  BY <1>1, <1>2, <1>3, <1>4 DEF Advances

LEMMA MainStep == ASSUME TypeOK, LogInv, MainInv, [Next]_vars PROVE MainInv'
<1>0. "main" \in Threads /\ "tail" \in Threads /\ "main" # "tail"
  BY DEF Threads
<1>1. CASE UNCHANGED <<thread, runner>>
  BY <1>1 DEF MainInv, MainOf, TailOf
<1>2. CASE Outside \/ UNCHANGED vars
  <2>1. UNCHANGED <<thread, runner>>
    BY <1>2, OutsideIs DEF vars, mainVars
  <2> QED
    BY <1>1, <2>1
<1>3. ASSUME NEW kind \in LineKinds, AgentWrites(kind) PROVE MainInv'
  <2>1. UNCHANGED <<thread, runner>>
    BY <1>3, LogGrows
  <2> QED
    BY <1>1, <2>1
<1>4. CASE Advances
  <2>1. /\ \A t \in Threads : ReadsOn(t)
        /\ thread'["tail"] = thread["tail"] /\ runner \in Phases
    BY <1>0, <1>4, AdvancesIs DEF Only, ReadsOn, TypeOK, RunOK
  <2>2. \A t \in Threads : thread'[t].pc = thread[t].pc
    BY <2>1 DEF ReadsOn
  <2>3. /\ runner' # "gone" /\ thread'["main"].pc = "rest"
        /\ thread'["main"].todo # <<>> => runner' \in {"reaping", "stopping"}
    BY <1>0, <1>4, <2>2, PhaseIs DEF MainInv, MainOf
  <2> QED
    BY <1>0, <2>1, <2>2, <2>3 DEF MainInv, MainOf, TailOf
<1>5. CASE Joined \/ JoinTimesOut
  <2>1. \A t \in Threads : thread'[t].pc = "rest" /\ thread'[t].todo = <<>>
    BY <1>5, ExitIs DEF Is
  <2> QED
    BY <1>0, <2>1 DEF MainInv, MainOf, TailOf
<1>6. ASSUME NEW t \in Threads, Executes(t) PROVE MainInv'
  <2>1. /\ Only(t) /\ thread'[t].pc = thread[t].pc /\ thread[t].todo # <<>> /\ UNCHANGED runner
    BY <1>6, ExecIs DEF ReadsOn
  <2>2. CASE t = "main"
    BY <1>0, <2>1, <2>2 DEF MainInv, MainOf, TailOf, Only
  <2>3. CASE t = "tail"
    BY <1>0, <2>1, <2>3 DEF MainInv, MainOf, TailOf, Only
  <2> QED
    BY <2>2, <2>3 DEF Threads
<1>7. ASSUME NEW t \in Threads, Read(t) \/ Keep(t) PROVE MainInv'
  <2>1. /\ Only(t) /\ thread'[t].pc \in {"read", "lines"} /\ thread'[t].todo = <<>> /\ UNCHANGED runner
        /\ (thread[t].pc = "rest" /\ MayRead(t)) \/ thread[t].pc = "read"
    BY <1>7, ReadIs, KeepIs DEF Is
  <2>2. CASE t = "main"
    BY <1>0, <2>1, <2>2 DEF MainInv, MainOf, TailOf, Only, MayRead
  <2>3. CASE t = "tail"
    BY <1>0, <2>1, <2>3 DEF MainInv, MainOf, TailOf, Only, MayRead
  <2> QED
    BY <2>2, <2>3 DEF Threads
<1>8. ASSUME NEW t \in Threads, Take(t) PROVE MainInv'
  <2>1. Only(t) /\ thread'[t].pc = "lines" /\ thread[t].pc = "lines" /\ UNCHANGED runner
    BY <1>8, TakeIs DEF ReadsOn
  <2>2. CASE t = "main"
    BY <1>0, <2>1, <2>2 DEF MainInv, MainOf, TailOf, Only
  <2>3. CASE t = "tail"
    BY <1>0, <2>1, <2>3 DEF MainInv, MainOf, TailOf, Only
  <2> QED
    BY <2>2, <2>3 DEF Threads
<1>9. ASSUME NEW t \in Threads, Finish(t) PROVE MainInv'
  <2>1. /\ Only(t) /\ thread'[t].pc = "rest" /\ thread[t].pc # "rest" /\ thread'[t].todo = <<>>
        /\ runner' = IF t = "main" THEN "leaving" ELSE runner
    BY <1>9, FinishIs DEF Is
  <2>2. CASE t = "main"
    BY <1>0, <2>1, <2>2 DEF MainInv, MainOf, TailOf, Only
  <2>3. CASE t = "tail"
    BY <1>0, <2>1, <2>3 DEF MainInv, MainOf, TailOf, Only
  <2> QED
    BY <2>2, <2>3 DEF Threads
<1> QED
  BY <1>2, <1>3, <1>4, <1>5, <1>6, <1>7, <1>8, <1>9, NextIs

-----------------------------------------------------------------------------
(* Lines are handled once and in order.                                    *)

\* The lines handled whose cost was counted.
SpendsSeen == {i \in seen : out[i] = "spend"}

LEMMA OrderSame ==
  ASSUME OrderInv, UNCHANGED <<out, offset, buffer, seen, mon>>,
         runner' = "watching" => runner = "watching",
         \/ thread'["tail"].pc # "read"
         \/ /\ thread'["tail"].pc = thread["tail"].pc /\ thread'["tail"].chunk = thread["tail"].chunk
            /\ thread'["tail"].end = thread["tail"].end
  PROVE  OrderInv'
BY DEF OrderInv

LEMMA OrderKeep ==
  ASSUME TypeOK, LogInv, OrderInv, Keep("tail"), runner = "watching"
  PROVE  OrderInv'
<1> DEFINE c == thread["tail"].chunk
           e == thread["tail"].end
<1>1. /\ thread["tail"].pc = "read" /\ thread'["tail"].pc = "lines"
      /\ offset' = e /\ buffer' = buffer \o c /\ UNCHANGED <<out, mon, seen, runner>>
  BY KeepIs DEF Is, Threads
<1>2. /\ buffer \in Seq(Nat) /\ c \in Seq(Nat) /\ offset \in Nat /\ e \in Nat
      /\ Len(buffer) \in Nat /\ Len(c) \in Nat
  BY ThreadTypes, LenProperties DEF TypeOK, ReadOK, Threads
<1>3. /\ Len(buffer) <= offset /\ seen = 1..(offset - Len(buffer))
      /\ \A i \in 1..Len(buffer) : buffer[i] = offset - Len(buffer) + i
      /\ Len(c) = e - offset
      /\ \A i \in 1..Len(c) : c[i] = offset + i
      /\ mon.cost = Cardinality({i \in seen : out[i] = "spend"})
  BY <1>1 DEF OrderInv
<1> HIDE DEF c, e
<1>4. /\ Len(buffer \o c) = Len(buffer) + Len(c)
      /\ \A i \in 1..(Len(buffer) + Len(c)) :
           (buffer \o c)[i] = IF i <= Len(buffer) THEN buffer[i] ELSE c[i - Len(buffer)]
  BY <1>2, ConcatProperties
<1>5. Len(buffer') <= offset' /\ offset' - Len(buffer') = offset - Len(buffer)
  BY <1>1, <1>2, <1>3, <1>4
<1>6. ASSUME NEW i \in 1..Len(buffer') PROVE buffer'[i] = offset' - Len(buffer') + i
  <2>1. CASE i <= Len(buffer)
    BY <1>1, <1>2, <1>3, <1>4, <1>5, <1>6, <2>1
  <2>2. CASE ~(i <= Len(buffer))
    <3>1. i - Len(buffer) \in 1..Len(c)
      BY <1>1, <1>2, <1>4, <1>6, <2>2
    <3>2. c[i - Len(buffer)] = offset + (i - Len(buffer))
      BY <1>3, <3>1
    <3> QED
      BY <1>1, <1>2, <1>4, <1>5, <1>6, <2>2, <3>2
  <2> QED
    BY <2>1, <2>2
<1> QED
  BY <1>1, <1>3, <1>5, <1>6 DEF OrderInv

LEMMA OrderTake ==
  ASSUME TypeOK, LogInv, OrderInv, Take("tail"), runner = "watching"
  PROVE  OrderInv'
<1> DEFINE n == offset - Len(buffer)
           kind == out[Head(buffer)]
<1>1. /\ buffer # <<>> /\ buffer' = Tail(buffer) /\ Head(buffer) \in Lines /\ kind \in Kinds
      /\ seen' = seen \cup {Head(buffer)} /\ mon' = Process(mon, kind).mon
      /\ thread'["tail"].pc = "lines" /\ UNCHANGED <<out, offset, runner>>
  BY TakeIs DEF Threads, ReadsOn
<1>2. buffer \in Seq(Nat) /\ offset \in Nat /\ Len(buffer) \in Nat /\ mon \in Monitors
  BY LenProperties DEF TypeOK, ReadOK
<1>3. /\ Len(buffer) <= offset /\ seen = 1..n
      /\ \A i \in 1..Len(buffer) : buffer[i] = n + i
      /\ mon.cost = Cardinality(SpendsSeen)
  BY <1>1 DEF OrderInv, SpendsSeen
<1>4. /\ Len(Tail(buffer)) = Len(buffer) - 1 /\ Len(buffer) >= 1
      /\ \A i \in 1..Len(Tail(buffer)) : Tail(buffer)[i] = buffer[i + 1]
      /\ Head(buffer) = buffer[1]
  BY <1>1, <1>2, HeadTailProperties, EmptySeq
<1>5. Head(buffer) = n + 1 /\ n \in Nat
  BY <1>2, <1>3, <1>4
<1> HIDE DEF kind
<1>6. seen' = 1..(n + 1)
  BY <1>1, <1>3, <1>5
<1>7. offset' - Len(buffer') = n + 1 /\ Len(buffer') <= offset'
  BY <1>1, <1>2, <1>3, <1>4
<1>8. ASSUME NEW i \in 1..Len(buffer') PROVE buffer'[i] = offset' - Len(buffer') + i
  <2>1. i + 1 \in 1..Len(buffer) /\ buffer'[i] = buffer[i + 1]
    BY <1>1, <1>2, <1>4, <1>8
  <2>2. buffer[i + 1] = n + (i + 1)
    BY <1>3, <2>1
  <2> QED
    BY <1>5, <1>7, <1>8, <2>1, <2>2
<1>9. mon'.cost = Cardinality({i \in seen' : out'[i] = "spend"})
  <2>1. mon'.cost = mon.cost + (IF kind = "spend" THEN 1 ELSE 0)
    <3>1. \A m \in Monitors : Process(m, kind).mon.cost = m.cost + (IF kind = "spend" THEN 1 ELSE 0)
      BY <1>1, ProcessIs
    <3> QED
      BY <1>1, <1>2, <3>1
  <2>2. IsFiniteSet(SpendsSeen) /\ Head(buffer) \notin SpendsSeen
    <3>1. IsFiniteSet(seen)
      BY <1>3, <1>5, FS_Interval
    <3>2. SpendsSeen \subseteq seen /\ Head(buffer) \notin seen
      BY <1>3, <1>5 DEF SpendsSeen
    <3> QED
      BY <3>1, <3>2, FS_Subset
  <2>3. {i \in seen' : out'[i] = "spend"} = IF kind = "spend" THEN SpendsSeen \cup {Head(buffer)}
                                           ELSE SpendsSeen
    BY <1>1 DEF SpendsSeen, kind
  <2>4. Cardinality(SpendsSeen \cup {Head(buffer)}) = Cardinality(SpendsSeen) + 1
    BY <2>2, FS_AddElement
  <2>5. Cardinality(SpendsSeen) \in Nat
    BY <2>2, FS_CardinalityType
  <2>6. CASE kind = "spend"
    <3>1. {i \in seen' : out'[i] = "spend"} = SpendsSeen \cup {Head(buffer)} /\ mon'.cost = mon.cost + 1
      BY <2>1, <2>3, <2>6
    <3> QED
      BY <1>3, <2>4, <3>1
  <2>7. CASE kind # "spend"
    <3>1. {i \in seen' : out'[i] = "spend"} = SpendsSeen /\ mon'.cost = mon.cost + 0
      BY <2>1, <2>3, <2>7
    <3> QED
      BY <1>3, <2>5, <3>1, SMTT(30)
  <2> QED
    BY <2>6, <2>7
<1> QED
  BY <1>1, <1>6, <1>7, <1>8, <1>9 DEF OrderInv

LEMMA OrderStep == ASSUME TypeOK, LogInv, MainInv, OrderInv, [Next]_vars PROVE OrderInv'
<1>0. "main" \in Threads /\ "tail" \in Threads /\ "main" # "tail" /\ Threads = {"tail", "main"}
  BY DEF Threads
<1>1. CASE UNCHANGED vars
  BY <1>1, OrderSame DEF vars, agentVars, readVars, mainVars
<1>2. CASE Outside
  BY <1>2, OutsideIs, OrderSame
<1>3. CASE Advances
  <2>1. runner' # "watching"
    BY <1>3, PhaseIs
  <2> QED
    BY <2>1 DEF OrderInv
<1>4. CASE Joined \/ JoinTimesOut
  <2>1. runner' # "watching"
    BY <1>4, ExitIs
  <2> QED
    BY <2>1 DEF OrderInv
<1>5. ASSUME NEW kind \in LineKinds, AgentWrites(kind) PROVE OrderInv'
  <2>1. /\ UNCHANGED <<thread, offset, buffer, mon, seen, runner>>
        /\ \A i \in Lines : out'[i] = out[i]
    BY <1>5, LogGrows
  <2>2. {i \in seen : out'[i] = "spend"} = {i \in seen : out[i] = "spend"}
    BY <2>1 DEF LogInv
  <2> QED
    BY <2>1, <2>2 DEF OrderInv
<1>6. ASSUME NEW t \in Threads, Executes(t) PROVE OrderInv'
  <2>1. Only(t) /\ ReadsOn(t) /\ UNCHANGED <<out, offset, buffer, seen, mon, runner>>
    BY <1>6, ExecIs
  <2> QED
    BY <1>0, <2>1, OrderSame DEF Only, ReadsOn
<1>7. ASSUME NEW t \in Threads, Read(t) PROVE OrderInv'
  <2>1. /\ Only(t) /\ MayRead(t) /\ UNCHANGED <<out, offset, buffer, seen, mon, runner>>
        /\ thread'[t].end = Len(out) /\ Len(thread'[t].chunk) = Len(out) - offset
        /\ \A i \in 1..Len(thread'[t].chunk) : thread'[t].chunk[i] = offset + i
    BY <1>7, ReadIs DEF Is
  <2>2. CASE t = "main"
    BY <2>1, <2>2 DEF MayRead, OrderInv
  <2>3. CASE t = "tail"
    BY <2>1, <2>3 DEF OrderInv
  <2> QED
    BY <1>0, <2>2, <2>3
<1>8. ASSUME NEW t \in Threads, Keep(t) \/ Take(t) PROVE OrderInv'
  <2>1. UNCHANGED runner /\ thread[t].pc # "rest"
    BY <1>8, KeepIs, TakeIs
  <2>2. CASE runner # "watching"
    BY <2>1, <2>2 DEF OrderInv
  <2>3. CASE runner = "watching"
    <3>1. t = "tail"
      BY <1>0, <2>1, <2>3 DEF MainInv, MainOf
    <3> QED
      BY <1>8, <2>3, <3>1, OrderKeep, OrderTake
  <2> QED
    BY <2>2, <2>3
<1>9. ASSUME NEW t \in Threads, Finish(t) PROVE OrderInv'
  <2>1. /\ Only(t) /\ thread'[t].pc = "rest" /\ UNCHANGED <<out, offset, buffer, seen, mon>>
        /\ runner' = "watching" => t = "tail" /\ runner = "watching"
    BY <1>0, <1>9, FinishIs DEF Is
  <2>2. CASE t = "main"
    BY <2>1, <2>2, <1>0 DEF OrderInv
  <2>3. CASE t = "tail"
    BY <2>1, <2>3, OrderSame
  <2> QED
    BY <1>0, <2>2, <2>3
<1> QED
  BY <1>1, <1>2, <1>3, <1>4, <1>5, <1>6, <1>7, <1>8, <1>9, NextIs

-----------------------------------------------------------------------------
(* Lines do not get lost.                                                  *)

LEMMA HeldConcat ==
  ASSUME NEW q \in Seq(Nat), NEW r \in Seq(Nat), NEW i \in Nat, Held(q, i) \/ Held(r, i)
  PROVE  Held(q \o r, i)
<1>1. /\ Len(q) \in Nat /\ Len(r) \in Nat /\ Len(q \o r) = Len(q) + Len(r)
      /\ \A j \in 1..(Len(q) + Len(r)) : (q \o r)[j] = IF j <= Len(q) THEN q[j] ELSE r[j - Len(q)]
  BY ConcatProperties, LenProperties
<1>2. CASE Held(q, i)
  <2>1. PICK j \in 1..Len(q) : q[j] = i
    BY <1>2 DEF Held
  <2>2. j \in 1..Len(q \o r) /\ (q \o r)[j] = i
    BY <1>1, <2>1
  <2> QED
    BY <2>2 DEF Held
<1>3. CASE Held(r, i)
  <2>1. PICK j \in 1..Len(r) : r[j] = i
    BY <1>3 DEF Held
  <2>2. Len(q) + j \in 1..Len(q \o r) /\ (q \o r)[Len(q) + j] = i
    BY <1>1, <2>1
  <2> QED
    BY <2>2 DEF Held
<1> QED
  BY <1>2, <1>3

LEMMA HeldTail ==
  ASSUME NEW q \in Seq(Nat), NEW i \in Nat, Held(q, i), q # <<>>
  PROVE  i = Head(q) \/ Held(Tail(q), i)
<1>1. PICK j \in 1..Len(q) : q[j] = i
  BY DEF Held
<1>2. /\ Len(q) \in Nat /\ Len(Tail(q)) = Len(q) - 1 /\ Head(q) = q[1]
      /\ \A k \in 1..Len(Tail(q)) : Tail(q)[k] = q[k + 1]
  BY LenProperties, HeadTailProperties
<1>3. CASE j = 1
  BY <1>1, <1>2, <1>3
<1>4. CASE j # 1
  <2>1. j - 1 \in 1..Len(Tail(q)) /\ Tail(q)[j - 1] = i
    BY <1>1, <1>2, <1>4
  <2> QED
    BY <2>1 DEF Held
<1> QED
  BY <1>3, <1>4

\* What has been got stays got, and a chunk that joins the buffer is got.
LEMMA GotStays ==
  ASSUME TypeOK, LogInv, NEW t \in Threads,
         \/ Keep(t) \/ Take(t)
         \/ UNCHANGED <<buffer, seen>>,
         NEW i \in Nat
  PROVE  /\ Got(i) => Got(i)'
         /\ Keep(t) /\ Held(thread[t].chunk, i) => Got(i)'
<1>0. buffer \in Seq(Nat) /\ thread[t].chunk \in Seq(Nat)
  BY ThreadTypes DEF TypeOK, ReadOK
<1>1. CASE Keep(t)
  <2>1. buffer' = buffer \o thread[t].chunk /\ seen' = seen
    BY <1>1, KeepIs
  <2>2. Held(buffer, i) \/ Held(thread[t].chunk, i) => Held(buffer \o thread[t].chunk, i)
    BY <1>0, HeldConcat
  <2> QED
    BY <2>1, <2>2 DEF Got
<1>2. CASE Take(t)
  <2>1. buffer # <<>> /\ buffer' = Tail(buffer) /\ seen' = seen \cup {Head(buffer)} /\ thread[t].pc = "lines"
    BY <1>2, TakeIs
  <2>2. Held(buffer, i) => i = Head(buffer) \/ Held(Tail(buffer), i)
    BY <1>0, <2>1, HeldTail
  <2>3. Got(i) => Got(i)'
    BY <2>1, <2>2 DEF Got
  <2>4. ~Keep(t)
    BY <2>1 DEF Keep
  <2> QED
    BY <2>3, <2>4
<1>3. CASE UNCHANGED <<buffer, seen>> /\ ~Keep(t) /\ ~Take(t)
  BY <1>3 DEF Got
<1> QED
  BY <1>1, <1>2, <1>3

LEMMA CoverSame ==
  ASSUME CoverInv, UNCHANGED <<offset, buffer, seen>>, runner' # "gone" => runner # "gone",
         \A t \in Threads : ReadsOn(t)
  PROVE  CoverInv'
BY DEF CoverInv, Got, Held, ReadsOn

LEMMA CoverRead ==
  ASSUME TypeOK, LogInv, MainInv, CoverInv, NEW t \in Threads, Read(t)
  PROVE  CoverInv'
<1>1. /\ Only(t) /\ MayRead(t) /\ thread[t].pc = "rest" /\ UNCHANGED <<offset, buffer, seen, runner>>
      /\ thread'[t].pc = "read" /\ thread'[t].end = Len(out)
      /\ thread'[t].chunk \in Seq(Lines)
      /\ Len(thread'[t].chunk) = Len(out) - offset
      /\ \A i \in 1..Len(thread'[t].chunk) : thread'[t].chunk[i] = offset + i
  BY ReadIs DEF Is
<1>2. runner # "gone" /\ offset \in Nat /\ Len(out) \in Nat
  BY <1>1, LenProperties DEF MayRead, TypeOK, ReadOK, AgentOK
<1>3. \A i \in Nat : Got(i)' <=> Got(i)
  BY <1>1 DEF Got
<1>4. ASSUME NEW i \in 1..Len(out) PROVE Got(i)' \/ Held(thread[t].chunk, i)'
  <2>1. CASE i <= offset
    BY <1>2, <1>3, <1>4, <2>1 DEF CoverInv
  <2>2. CASE ~(i <= offset)
    <3>1. i - offset \in 1..Len(thread'[t].chunk) /\ thread'[t].chunk[i - offset] = i
      BY <1>1, <1>2, <1>4, <2>2
    <3> QED
      BY <3>1 DEF Held
  <2> QED
    BY <2>1, <2>2
<1>5. ASSUME NEW x \in Threads, thread'[x].pc = "read", NEW i \in 1..thread'[x].end
      PROVE  Got(i)' \/ Held(thread[x].chunk, i)'
  <2>1. CASE x = t
    BY <1>1, <1>4, <1>5, <2>1
  <2>2. CASE x # t
    <3>1. thread'[x] = thread[x] /\ thread[x].end \in Nat
      BY <1>1, <2>2, ThreadTypes DEF Only
    <3>2. Got(i) \/ Held(thread[x].chunk, i)
      BY <1>5, <3>1 DEF CoverInv
    <3> QED
      BY <1>3, <3>1, <3>2 DEF Held
  <2> QED
    BY <2>1, <2>2
<1>6. runner' # "gone" => \A i \in 1..offset' : Got(i)'
  BY <1>1, <1>2, <1>3 DEF CoverInv
<1>7. buffer' # <<>> => \E x \in Threads : thread'[x].pc = "lines"
  BY <1>1 DEF CoverInv, Only
<1> QED
  BY <1>5, <1>6, <1>7 DEF CoverInv

LEMMA CoverHandle ==
  ASSUME TypeOK, LogInv, MainInv, CoverInv, NEW t \in Threads, Keep(t) \/ Take(t)
  PROVE  CoverInv'
<1>1. /\ Only(t) /\ thread'[t].pc = "lines" /\ thread[t].pc # "rest" /\ UNCHANGED runner
      /\ Keep(t) => offset' = thread[t].end /\ thread[t].pc = "read"
      /\ ~Keep(t) => offset' = offset
  BY KeepIs, TakeIs DEF Is, ReadsOn
<1>2. runner # "gone" /\ offset \in Nat /\ thread[t].end \in Nat
  BY <1>1, ThreadTypes DEF MainInv, TypeOK, ReadOK
<1>3. \A i \in Nat : Got(i) => Got(i)'
  BY GotStays
<1>4. ASSUME NEW i \in 1..offset' PROVE Got(i)'
  <2>1. CASE Keep(t)
    <3>1. Got(i) \/ Held(thread[t].chunk, i)
      BY <1>1, <1>4, <2>1 DEF CoverInv
    <3>2. i \in Nat
      BY <1>1, <1>2, <1>4, <2>1
    <3> QED
      BY <2>1, <3>1, <3>2, GotStays
  <2>2. CASE ~Keep(t)
    <3>1. Got(i) /\ i \in Nat
      BY <1>1, <1>2, <1>4, <2>2 DEF CoverInv
    <3> QED
      BY <1>3, <3>1
  <2> QED
    BY <2>1, <2>2
<1>5. ASSUME NEW x \in Threads, thread'[x].pc = "read", NEW i \in 1..thread'[x].end
      PROVE  Got(i)' \/ Held(thread[x].chunk, i)'
  <2>1. thread'[x] = thread[x] /\ thread[x].end \in Nat
    BY <1>1, <1>5, ThreadTypes DEF Only
  <2>2. Got(i) \/ Held(thread[x].chunk, i)
    BY <1>5, <2>1 DEF CoverInv
  <2>3. i \in Nat
    BY <1>5, <2>1
  <2> QED
    BY <1>3, <2>1, <2>2, <2>3 DEF Held
<1> QED
  BY <1>1, <1>4, <1>5 DEF CoverInv

LEMMA CoverStep == ASSUME TypeOK, LogInv, MainInv, CoverInv, [Next]_vars PROVE CoverInv'
<1>0. "main" \in Threads /\ "tail" \in Threads /\ Threads = {"tail", "main"}
  BY DEF Threads
<1>1. CASE UNCHANGED vars
  BY <1>1, CoverSame DEF vars, readVars, mainVars, ReadsOn
<1>2. CASE Outside
  BY <1>2, OutsideIs, CoverSame DEF ReadsOn
<1>3. CASE Advances
  <2>1. \A t \in Threads : ReadsOn(t)
    BY <1>0, <1>3, AdvancesIs DEF Only, ReadsOn
  <2>2. runner # "gone" /\ UNCHANGED <<offset, buffer, seen>>
    BY <1>3, PhaseIs, AdvancesIs
  <2> QED
    BY <2>1, <2>2, CoverSame
<1>4. CASE Joined \/ JoinTimesOut
  <2>1. runner' = "gone" /\ buffer' = <<>> /\ \A t \in Threads : thread'[t].pc = "rest"
    BY <1>4, ExitIs DEF Is
  <2> QED
    BY <2>1 DEF CoverInv
<1>5. ASSUME NEW kind \in LineKinds, AgentWrites(kind) PROVE CoverInv'
  BY <1>5, LogGrows, CoverSame DEF ReadsOn
<1>6. ASSUME NEW t \in Threads, Executes(t) PROVE CoverInv'
  <2>1. Only(t) /\ ReadsOn(t) /\ UNCHANGED <<offset, buffer, seen, runner>>
    BY <1>6, ExecIs
  <2>2. \A x \in Threads : ReadsOn(x)
    BY <2>1 DEF Only, ReadsOn
  <2> QED
    BY <2>1, <2>2, CoverSame
<1>7. ASSUME NEW t \in Threads, Finish(t) PROVE CoverInv'
  <2>1. /\ Only(t) /\ thread'[t].pc = "rest" /\ UNCHANGED <<offset, buffer, seen>>
        /\ thread[t].pc = "read" \/ buffer = <<>>
        /\ runner' # "gone" => runner # "gone"
    BY <1>7, FinishIs DEF Is, MainInv
  <2>2. \A x \in Threads : thread'[x].pc # "rest" => thread'[x] = thread[x]
    BY <2>1 DEF Only
  <2>3. \A i : Got(i)' <=> Got(i)
    BY <2>1 DEF Got
  <2>4. runner' # "gone" => \A i \in 1..offset' : Got(i)'
    BY <2>1, <2>3 DEF CoverInv
  <2>5. \A x \in Threads : thread'[x].pc = "read" =>
          \A i \in 1..thread'[x].end : Got(i)' \/ Held(thread[x].chunk, i)'
    BY <2>1, <2>2, <2>3 DEF CoverInv, Held
  <2>6. buffer' # <<>> => \E x \in Threads : thread'[x].pc = "lines"
    BY <2>1 DEF CoverInv, Only
  <2> QED
    BY <2>4, <2>5, <2>6 DEF CoverInv
<1> QED
  BY <1>1, <1>2, <1>3, <1>4, <1>5, <1>6, <1>7, CoverRead, CoverHandle, NextIs

LEMMA FlushSame ==
  ASSUME FlushInv, UNCHANGED <<out, buffer, seen>>, \A t \in Threads : ReadsOn(t),
         exitReason' = "pid_dead" => exitReason = "pid_dead",
         runner' \in {"leaving", "stopping", "joining"} => runner \in {"leaving", "stopping", "joining"},
         runner' = "gone" => runner = "gone" /\ cut' = cut
  PROVE  FlushInv'
BY DEF FlushInv, Lines, Got, Held, ReadsOn, Threads

LEMMA FlushStep ==
  ASSUME TypeOK, LogInv, MainInv, CoverInv, FlushInv, SurvivorInv, [Next]_vars
  PROVE  FlushInv'
<1>0. "main" \in Threads /\ "tail" \in Threads /\ Threads = {"tail", "main"}
  BY DEF Threads
<1>1. CASE UNCHANGED vars
  BY <1>1, FlushSame DEF vars, agentVars, readVars, mainVars, histVars, ReadsOn
<1>2. CASE Outside
  BY <1>2, OutsideIs, FlushSame DEF ReadsOn
<1>3. CASE Advances
  <2>1. \A t \in Threads : ReadsOn(t)
    BY <1>0, <1>3, AdvancesIs DEF Only, ReadsOn
  <2>2. UNCHANGED <<out, buffer, seen, cut>>
    BY <1>3, AdvancesIs
  <2>3. CASE runner = "watching"
    <3>1. thread'["main"].pc = "rest" /\ runner' \in {"flushing", "reaping"}
      BY <1>0, <1>3, <2>1, <2>3, PhaseIs DEF MainInv, MainOf, ReadsOn
    <3> QED
      BY <3>1 DEF FlushInv
  <2>4. CASE runner # "watching"
    <3>1. /\ exitReason' = "pid_dead" => exitReason = "pid_dead"
          /\ runner' \in {"leaving", "stopping", "joining"} => runner \in {"leaving", "stopping", "joining"}
          /\ runner' # "gone"
      BY <1>3, <2>4, PhaseIs
    <3> QED
      BY <2>1, <2>2, <3>1, FlushSame
  <2> QED
    BY <2>3, <2>4
<1>4. CASE Joined \/ JoinTimesOut
  <2>1. /\ runner = "joining" /\ runner' = "gone" /\ UNCHANGED <<out, seen, exitReason>>
        /\ \A t \in Threads : thread'[t].pc = "rest"
        /\ ~cut' => thread["tail"].pc = "rest"
    BY <1>4, ExitIs DEF Is
  <2>2. ASSUME exitReason = "pid_dead", ~cut' PROVE seen = Lines
    <3>1. \A t \in Threads : thread[t].pc = "rest"
      BY <1>0, <2>1, <2>2 DEF MainInv, MainOf
    <3>2. buffer = <<>>
      BY <3>1 DEF CoverInv
    <3>3. \A i \in Lines : Got(i)
      BY <2>1, <2>2 DEF FlushInv
    <3>4. \A i : ~Held(<<>>, i)
      BY DEF Held
    <3>5. Lines \subseteq seen
      BY <3>2, <3>3, <3>4 DEF Got
    <3> QED
      BY <3>5 DEF LogInv
  <2> QED
    BY <1>0, <2>1, <2>2 DEF FlushInv, Lines
<1>5. ASSUME NEW kind \in LineKinds, AgentWrites(kind) PROVE FlushInv'
  <2>1. agent = "running" /\ UNCHANGED exitReason
    BY <1>5, LogGrows
  <2> QED
    BY <2>1 DEF FlushInv, SurvivorInv
<1>6. ASSUME NEW t \in Threads, Executes(t) PROVE FlushInv'
  <2>1. Only(t) /\ ReadsOn(t) /\ UNCHANGED <<out, buffer, seen, runner, exitReason, cut>>
    BY <1>6, ExecIs
  <2>2. \A x \in Threads : ReadsOn(x)
    BY <2>1 DEF Only, ReadsOn
  <2> QED
    BY <2>1, <2>2, FlushSame
<1>7. ASSUME NEW t \in Threads, Read(t) PROVE FlushInv'
  <2>1. /\ Only(t) /\ MayRead(t) /\ thread'[t].pc = "read" /\ thread'[t].end = Len(out)
        /\ UNCHANGED <<out, buffer, seen, runner, exitReason, cut>>
    BY <1>7, ReadIs DEF Is
  <2>2. CASE t = "main"
    <3>1. runner' = "flushing"
      BY <2>1, <2>2 DEF MayRead
    <3> QED
      BY <2>1, <2>2, <3>1 DEF FlushInv
  <2>3. CASE t = "tail"
    <3>1. thread'["main"] = thread["main"]
      BY <1>0, <2>1, <2>3 DEF Only
    <3>2. Lines' = Lines /\ \A i : Got(i)' <=> Got(i)
      BY <2>1 DEF Lines, Got
    <3> QED
      BY <2>1, <3>1, <3>2 DEF FlushInv
  <2> QED
    BY <1>0, <2>2, <2>3
<1>8. ASSUME NEW t \in Threads, Keep(t) \/ Take(t) PROVE FlushInv'
  <2>1. /\ Only(t) /\ thread'[t].pc = "lines" /\ UNCHANGED <<out, runner, exitReason>>
        /\ Keep(t) \/ thread[t].pc = "lines"
        /\ thread[t].pc # "rest"
        /\ Keep(t) => thread[t].pc = "read"
    BY <1>8, KeepIs, TakeIs DEF Is, ReadsOn
  <2>2. runner # "gone"
    BY <2>1 DEF MainInv
  <2>3. Lines' = Lines /\ Lines \subseteq Nat
    BY <2>1 DEF Lines
  <2>4. \A i \in Lines : Got(i) => Got(i)'
    BY <1>8, <2>3, GotStays
  <2>5. CASE t = "main" /\ Keep(t)
    <3>1. ASSUME exitReason = "pid_dead", NEW i \in Lines PROVE Got(i)'
      <4>1. i \in 1..thread[t].end
        BY <2>1, <2>5, <3>1 DEF FlushInv, Lines
      <4>2. Got(i) \/ Held(thread[t].chunk, i)
        BY <2>1, <2>5, <4>1 DEF CoverInv
      <4> QED
        BY <2>3, <2>4, <2>5, <4>2, GotStays
    <3> QED
      BY <2>1, <2>2, <2>3, <2>5, <3>1 DEF FlushInv
  <2>6. CASE ~(t = "main" /\ Keep(t))
    <3>1. /\ thread'["main"].pc = "lines" => thread["main"].pc = "lines"
          /\ thread'["main"].pc = "read" => thread'["main"] = thread["main"]
      BY <1>0, <2>1, <2>6 DEF Only
    <3> QED
      BY <2>1, <2>2, <2>3, <2>4, <3>1 DEF FlushInv
  <2> QED
    BY <2>5, <2>6
<1>9. ASSUME NEW t \in Threads, Finish(t) PROVE FlushInv'
  <2>1. /\ Only(t) /\ thread'[t].pc = "rest" /\ UNCHANGED <<out, buffer, seen, exitReason, cut>>
        /\ \/ thread[t].pc = "read" /\ thread[t].chunk = <<>>
           \/ thread[t].pc = "lines"
        /\ runner' = IF t = "main" THEN "leaving" ELSE runner
    BY <1>9, FinishIs DEF Is
  <2>2. Lines' = Lines /\ \A i : Got(i)' <=> Got(i)
    BY <2>1 DEF Lines, Got
  <2>3. CASE t = "main"
    <3>1. ASSUME exitReason = "pid_dead", NEW i \in Lines PROVE Got(i)
      <4>1. CASE thread[t].pc = "lines"
        BY <2>3, <3>1, <4>1 DEF FlushInv
      <4>2. CASE thread[t].pc = "read" /\ thread[t].chunk = <<>>
        <5>1. i \in 1..thread[t].end
          BY <2>3, <3>1, <4>2 DEF FlushInv, Lines
        <5>2. Got(i) \/ Held(<<>>, i)
          BY <4>2, <5>1 DEF CoverInv
        <5> QED
          BY <5>2 DEF Held
      <4> QED
        BY <2>1, <4>1, <4>2
    <3> QED
      BY <2>1, <2>2, <2>3, <3>1 DEF FlushInv
  <2>4. CASE t = "tail"
    <3>1. thread'["main"] = thread["main"] /\ runner' = runner
      BY <1>0, <2>1, <2>4 DEF Only
    <3> QED
      BY <2>1, <2>2, <3>1 DEF FlushInv
  <2> QED
    BY <1>0, <2>3, <2>4
<1> QED
  BY <1>1, <1>2, <1>3, <1>4, <1>5, <1>6, <1>7, <1>8, <1>9, NextIs

-----------------------------------------------------------------------------
(* What became of the agent.                                               *)

LEMMA SurvivorSame ==
  ASSUME SurvivorInv, UNCHANGED <<runner, exitReason>>,
         term \/ agent = "dead" => term' \/ agent' = "dead",
         agent = "dead" => agent' = "dead",
         thread["main"].todo = Reap => thread'["main"].todo = Reap \/ term' \/ agent' = "dead"
  PROVE  SurvivorInv'
BY DEF SurvivorInv

\* Nothing brings a dead agent back, and a SIGTERM is forgotten only by an agent
\* that has died of it.
LEMMA AgentStays ==
  ASSUME TypeOK, NEW t \in Threads, Executes(t)
  PROVE  /\ term \/ agent = "dead" => term' \/ agent' = "dead"
         /\ agent = "dead" => agent' = "dead"
<1>1. agent = "dead" => agent' = "dead"
  <2>1. CASE Freeze(t)
    BY <2>1 DEF Freeze
  <2>2. CASE ~Freeze(t)
    BY <2>2, StampIs, InjectIs, TransitionIs, SignalIs DEF Executes
  <2> QED
    BY <2>1, <2>2
<1>2. term => term' \/ agent' = "dead"
  <2>1. CASE Kill(t)
    BY <2>1 DEF Kill
  <2>2. CASE ~Kill(t)
    BY <2>2, StampIs, InjectIs, TransitionIs, SignalIs DEF Executes
  <2> QED
    BY <2>1, <2>2
<1> QED
  BY <1>1, <1>2

LEMMA SurvivorStep ==
  ASSUME TypeOK, LogInv, MainInv, SurvivorInv, [Next]_vars
  PROVE  SurvivorInv'
<1>0. "main" \in Threads /\ "tail" \in Threads /\ Threads = {"tail", "main"}
  BY DEF Threads
<1>1. CASE UNCHANGED vars
  BY <1>1, SurvivorSame DEF vars, agentVars, mainVars
<1>2. CASE Outside
  <2>1. /\ agent = "dead" => agent' = "dead"
        /\ term => term' \/ agent' = "dead"
    BY <1>2 DEF Outside, TimerFires, PollerWakes, AgentExits, CiAdvances, OthersMove, Tick, SigCont,
       agentVars
  <2> QED
    BY <1>2, <2>1, OutsideIs, SurvivorSame
<1>3. CASE Advances
  <2>1. UNCHANGED <<agent, term>>
    BY <1>3, AdvancesIs
  <2>2. runner \in Phases
    BY DEF TypeOK, RunOK
  <2>3. Reap # <<>>
    BY ReapRows DEF Row
  <2> QED
    BY <1>3, <2>1, <2>2, <2>3, PhaseIs DEF SurvivorInv
<1>4. CASE Joined \/ JoinTimesOut
  BY <1>4, ExitIs DEF SurvivorInv
<1>5. ASSUME NEW kind \in LineKinds, AgentWrites(kind) PROVE SurvivorInv'
  <2>1. UNCHANGED <<thread, runner, exitReason, agent, term>>
    BY <1>5, LogGrows DEF AgentWrites
  <2> QED
    BY <2>1, SurvivorSame
<1>6. ASSUME NEW t \in Threads, Executes(t) PROVE SurvivorInv'
  <2>1. Only(t) /\ UNCHANGED <<runner, exitReason>>
    BY <1>6, ExecIs
  <2>2. ASSUME thread["main"].todo = Reap
        PROVE  thread'["main"].todo = Reap \/ term' \/ agent' = "dead"
    <3>1. CASE t # "main"
      BY <1>0, <2>1, <2>2, <3>1 DEF Only
    <3>2. CASE t = "main"
      <4>1. Step(t) = "term"
        BY <2>2, <3>2, ReapRows DEF Row, Step
      <4>2. Kill(t)
        BY <1>6, <4>1 DEF Executes, Load, Stamp, StampRaises, Inject, Transition, TransitionFails,
           Freeze, StartTimer, StartPoller, Stamps, Notes
      <4> QED
        BY <4>2 DEF Kill, TypeOK, AgentOK
    <3> QED
      BY <3>1, <3>2
  <2> QED
    BY <1>6, <2>1, <2>2, AgentStays, SurvivorSame
<1>7. ASSUME NEW t \in Threads, Read(t) \/ Keep(t) \/ Take(t) PROVE SurvivorInv'
  <2>1. /\ Only(t) /\ UNCHANGED <<runner, exitReason, agent, term>>
        /\ (thread[t].pc = "rest" /\ MayRead(t)) \/ thread[t].pc # "rest"
    BY <1>7, ReadIs, KeepIs, TakeIs
  <2>2. CASE t = "tail"
    BY <1>0, <2>1, <2>2, SurvivorSame DEF Only
  <2>3. CASE t = "main"
    <3>1. runner = "flushing"
      BY <2>1, <2>3 DEF MayRead, MainInv, MainOf
    <3> QED
      BY <2>1, <3>1 DEF SurvivorInv
  <2> QED
    BY <1>0, <2>2, <2>3
<1>8. ASSUME NEW t \in Threads, Finish(t) PROVE SurvivorInv'
  <2>1. /\ Only(t) /\ UNCHANGED <<exitReason, agent, term>> /\ thread[t].pc # "rest"
        /\ runner' = IF t = "main" THEN "leaving" ELSE runner
    BY <1>8, FinishIs
  <2>2. CASE t = "tail"
    BY <1>0, <2>1, <2>2, SurvivorSame DEF Only
  <2>3. CASE t = "main"
    <3>1. runner = "flushing"
      BY <2>1, <2>3 DEF MainInv, MainOf
    <3> QED
      BY <2>1, <2>3, <3>1 DEF SurvivorInv
  <2> QED
    BY <1>0, <2>2, <2>3
<1> QED
  BY <1>1, <1>2, <1>3, <1>4, <1>5, <1>6, <1>7, <1>8, NextIs

-----------------------------------------------------------------------------
(* Who is to wake the agent.                                               *)

\* Lists the readers leave as they are.
SameTodos == \A t \in Threads : thread'[t].todo = thread[t].todo

\* A thread that reads has nothing else ahead.
LEMMA ReadersIdle ==
  ASSUME TypeOK, LogInv, MainInv, NEW t \in Threads, Read(t) \/ Keep(t) \/ Finish(t)
  PROVE  SameTodos
<1>1. /\ Only(t) /\ thread'[t].todo = <<>>
      /\ \/ thread[t].pc = "rest" /\ MayRead(t)
         \/ thread[t].pc = "read"
         \/ thread[t].todo = <<>>
  BY ReadIs, KeepIs, FinishIs DEF Is
<1>2. thread[t].todo = <<>>
  <2>1. CASE t = "main"
    BY <1>1, <2>1 DEF MainInv, MainOf, MayRead
  <2>2. CASE t = "tail"
    BY <1>1, <2>2 DEF MainInv, TailOf
  <2> QED
    BY <2>1, <2>2 DEF Threads
<1> QED
  BY <1>1, <1>2 DEF Only, SameTodos

LEMMA AdvancesTodos ==
  ASSUME TypeOK, MainInv, Advances
  PROVE  SameTodos \/ /\ thread["main"].todo = <<>> /\ thread'["main"].todo \in {Reap, NoteComplete, <<>>}
                      /\ thread'["tail"] = thread["tail"]
<1>1. Only("main") /\ "main" \in Threads /\ "tail" \in Threads /\ "main" # "tail"
  BY AdvancesIs DEF Threads
<1>2. CASE UNCHANGED thread
  BY <1>2 DEF SameTodos
<1>3. CASE ~(UNCHANGED thread)
  <2>1. /\ runner \in {"watching", "leaving"}
        /\ thread'["main"].todo \in {Reap, NoteComplete, <<>>}
    BY <1>3, PhaseIs
  <2>2. thread["main"].todo = <<>>
    BY <2>1 DEF MainInv, MainOf
  <2> QED
    BY <1>1, <2>1, <2>2 DEF Only
<1> QED
  BY <1>2, <1>3

LEMMA NotSuspending ==
  /\ <<>> \notin SuspendTodos /\ Reap \notin SuspendTodos /\ NoteComplete \notin SuspendTodos
  /\ Overrun \notin SuspendTodos /\ SigTodo \notin SuspendTodos /\ JustFail \notin SuspendTodos
  /\ NotePr \notin SuspendTodos
  /\ PollerOne \notin {StopAll, StopOne} /\ PollerOne \notin {TimerAll, TimerOne}
  /\ TimerAll \notin {StopAll, StopOne} /\ TimerOne \notin {StopAll, StopOne}
<1>1. <<>> \notin SuspendTodos
  BY EmptyTodo
<1>2. \A q \in SuspendTodos : Head(Head(q)) \in {"stop", "timer", "poller"}
  BY SuspendRows DEF Row, SuspendTodos
<1>3. /\ Reap \notin SuspendTodos /\ NoteComplete \notin SuspendTodos
      /\ Overrun \notin SuspendTodos /\ SigTodo \notin SuspendTodos /\ JustFail \notin SuspendTodos
      /\ NotePr \notin SuspendTodos
  BY <1>2, OverRows, ReapRows, OtherRows DEF Row
<1>4. /\ PollerOne \notin {StopAll, StopOne} /\ PollerOne \notin {TimerAll, TimerOne}
      /\ TimerAll \notin {StopAll, StopOne} /\ TimerOne \notin {StopAll, StopOne}
  BY SuspendRows DEF Row
<1> QED
  BY <1>1, <1>3, <1>4

LEMMA SuspendSame ==
  ASSUME SuspendInv, runner' # "gone" => runner # "gone", UNCHANGED <<mon, wake>>,
         agent' = "stopped" => agent = "stopped",
         \A t \in Threads : \/ thread'[t].todo = thread[t].todo
                            \/ thread'[t].todo \notin SuspendTodos /\ thread[t].todo \notin SuspendTodos
  PROVE  SuspendInv'
<1>1. \A t \in Threads : /\ thread'[t].todo \in SuspendTodos <=> thread[t].todo \in SuspendTodos
                         /\ thread'[t].todo \in {StopAll, StopOne} <=> thread[t].todo \in {StopAll, StopOne}
                         /\ thread'[t].todo \in {TimerAll, TimerOne} <=> thread[t].todo \in {TimerAll, TimerOne}
  BY DEF SuspendTodos
<1>2. CASE runner' = "gone"
  BY <1>2 DEF SuspendInv
<1>3. CASE runner' # "gone"
  <2>1. /\ \A t, x \in Threads : Suspending(t) /\ Suspending(x) => t = x
        /\ ~mon.suspended => Untouched /\ agent # "stopped" /\ \A t \in Threads : ~Suspending(t)
        /\ \A t \in Threads :
             /\ thread[t].todo \in {StopAll, StopOne} => Untouched /\ agent # "stopped"
             /\ thread[t].todo \in {TimerAll, TimerOne} => Untouched
        /\ agent = "stopped" =>
             \/ \E t \in Threads : thread[t].todo \in {TimerAll, TimerOne}
             \/ ~wake.resumed /\ (wake.timer \/ wake.polling)
    BY <1>3 DEF SuspendInv
  <2>2. \A t \in Threads : Suspending(t)' <=> Suspending(t)
    BY <1>1 DEF Suspending
  <2>3. Untouched' <=> Untouched
    BY DEF Untouched
  <2> QED
    BY <1>1, <2>1, <2>2, <2>3 DEF SuspendInv
<1> QED
  BY <1>2, <1>3

\* The three steps of a suspension.
LEMMA SuspendExec ==
  ASSUME TypeOK, SuspendInv, NEW t \in Threads, Executes(t), Suspending(t), runner # "gone"
  PROVE  SuspendInv'
<1> DEFINE q == thread[t].todo
<1>1. /\ Only(t) /\ q # <<>> /\ q \in Todos /\ UNCHANGED <<mon, runner>>
      /\ Step(t) \in {"stop", "timer", "poller"} /\ Step(t) = Head(Head(q))
  BY ExecIs, ThreadTypes, TodoSteps DEF Suspending, Step
<1>2. Freeze(t) \/ StartTimer(t) \/ StartPoller(t)
  BY <1>1 DEF Executes, Kill, Load, Stamp, StampRaises, Inject, Transition, TransitionFails, Stamps, Notes
<1>3. /\ mon.suspended /\ \A x \in Threads : x # t => ~Suspending(x)
      /\ q \in {StopAll, StopOne} => Untouched /\ agent # "stopped"
      /\ q \in {TimerAll, TimerOne} => Untouched
      /\ agent = "stopped" =>
           \/ \E x \in Threads : thread[x].todo \in {TimerAll, TimerOne}
           \/ ~wake.resumed /\ (wake.timer \/ wake.polling)
  BY DEF SuspendInv
<1>4. \A x \in Threads : x # t => thread'[x].todo = thread[x].todo /\ thread'[x].todo \notin SuspendTodos
  BY <1>1, <1>3 DEF Only, Suspending
<1>5. \A x \in Threads : x # t => /\ thread'[x].todo \notin {StopAll, StopOne}
                                  /\ thread'[x].todo \notin {TimerAll, TimerOne}
                                  /\ thread[x].todo \notin {TimerAll, TimerOne}
  BY <1>4 DEF SuspendTodos
<1>6. /\ q \in {StopAll, StopOne} <=> Step(t) = "stop"
      /\ q \in {TimerAll, TimerOne} <=> Step(t) = "timer"
      /\ Step(t) = "stop" => AfterStep(q) \in {TimerAll, TimerOne} /\ Tail(q) = <<>>
      /\ Step(t) = "timer" => AfterStep(q) \in {PollerOne, <<>>}
      /\ Step(t) = "poller" => AfterStep(q) = <<>>
  BY <1>1, TodoSteps
<1>7. wake \in [timer : BOOLEAN, polling : BOOLEAN, resumed : BOOLEAN]
  BY DEF TypeOK, RunOK
<1> HIDE DEF q
<1>8. \A x, y \in Threads : Suspending(x)' /\ Suspending(y)' => x = y
  BY <1>4 DEF Suspending
<1>9. CASE Freeze(t)
  <2>1. /\ Step(t) = "stop" /\ wake' = wake /\ agent' = IF agent = "dead" THEN agent ELSE "stopped"
        /\ Goes(t, IF agent = "dead" THEN Tail(q) ELSE AfterStep(q))
    BY <1>9 DEF Freeze, q
  <2>2. <<>> \in Todos /\ TimerAll \in Todos /\ TimerOne \in Todos
    BY DEF Todos, SuspendTodos
  <2>3. thread'[t].todo = IF agent = "dead" THEN Tail(q) ELSE AfterStep(q)
    <3>1. CASE agent = "dead"
      BY <1>6, <2>1, <2>2, <3>1, GoesIs
    <3>2. CASE agent # "dead"
      BY <1>6, <2>1, <2>2, <3>2, GoesIs
    <3> QED
      BY <3>1, <3>2
  <2>4. Untouched'
    BY <1>3, <1>6, <2>1 DEF Untouched
  <2>5. thread'[t].todo \notin {StopAll, StopOne}
    BY <1>6, <2>1, <2>3, NotSuspending DEF SuspendTodos
  <2>6. agent' = "stopped" => thread'[t].todo \in {TimerAll, TimerOne}
    BY <1>6, <2>1, <2>3
  <2> QED
    BY <1>1, <1>3, <1>5, <1>8, <2>4, <2>5, <2>6 DEF SuspendInv
<1>10. CASE StartTimer(t)
  <2>1. /\ Step(t) = "timer" /\ wake' = [wake EXCEPT !.timer = TRUE] /\ Goes(t, AfterStep(q))
    BY <1>10 DEF StartTimer, q
  <2>2. AfterStep(q) \in {PollerOne, <<>>} /\ Untouched
    BY <1>3, <1>6, <2>1
  <2>3. <<>> \in Todos /\ PollerOne \in Todos
    BY DEF Todos, SuspendTodos
  <2>4. thread'[t].todo = AfterStep(q)
    BY <2>1, <2>2, <2>3, GoesIs
  <2>5. thread'[t].todo \notin {StopAll, StopOne} /\ thread'[t].todo \notin {TimerAll, TimerOne}
    BY <2>2, <2>4, NotSuspending DEF SuspendTodos
  <2>6. wake'.timer /\ ~wake'.resumed
    BY <1>7, <2>1, <2>2 DEF Untouched
  <2> QED
    BY <1>1, <1>3, <1>5, <1>8, <2>5, <2>6 DEF SuspendInv
<1>11. CASE StartPoller(t)
  <2>1. /\ Step(t) = "poller" /\ wake' = [wake EXCEPT !.polling = ~wake.resumed] /\ Goes(t, AfterStep(q))
        /\ agent' = agent
    BY <1>11 DEF StartPoller, q, agentVars
  <2>2. AfterStep(q) = <<>> /\ <<>> \in Todos
    BY <1>6, <2>1 DEF Todos
  <2>3. thread'[t].todo = <<>>
    BY <2>1, <2>2, GoesIs
  <2>4. thread'[t].todo \notin {StopAll, StopOne} /\ thread'[t].todo \notin {TimerAll, TimerOne}
    BY <2>3, NotSuspending DEF SuspendTodos
  <2>5. wake'.polling = ~wake.resumed /\ wake'.resumed = wake.resumed
    BY <1>7, <2>1
  <2>6. q \notin {TimerAll, TimerOne}
    BY <1>6, <2>1
  <2>7. agent = "stopped" => ~wake.resumed
    BY <1>3, <1>5, <2>6 DEF q
  <2> QED
    BY <1>1, <1>3, <1>5, <1>8, <2>1, <2>4, <2>5, <2>7 DEF SuspendInv
<1> QED
  BY <1>2, <1>9, <1>10, <1>11

LEMMA SuspendTake ==
  ASSUME TypeOK, LogInv, SuspendInv, NEW t \in Threads, Take(t), runner # "gone"
  PROVE  SuspendInv'
<1> DEFINE kind == out[Head(buffer)]
<1>1. /\ Only(t) /\ thread[t].todo = <<>> /\ kind \in Kinds /\ mon \in Monitors
      /\ mon' = Process(mon, kind).mon /\ thread'[t].todo = Process(mon, kind).todo
      /\ UNCHANGED <<agent, wake, runner>>
  BY TakeIs DEF TypeOK, ReadOK
<1> HIDE DEF kind
<1>2. /\ thread'[t].todo \in {<<>>, Overrun, SigTodo, StopAll, StopOne, JustFail, NotePr}
      /\ IF thread'[t].todo \in {StopAll, StopOne}
         THEN ~mon.suspended /\ mon'.suspended
         ELSE mon'.suspended = mon.suspended
  <2>1. \A m \in Monitors :
          /\ Process(m, kind).todo \in {<<>>, Overrun, SigTodo, StopAll, StopOne, JustFail, NotePr}
          /\ IF Process(m, kind).todo \in {StopAll, StopOne}
             THEN ~m.suspended /\ Process(m, kind).mon.suspended
             ELSE Process(m, kind).mon.suspended = m.suspended
    BY <1>1, ProcessIs
  <2> QED
    BY <1>1, <2>1
<1>3. CASE thread'[t].todo \in {StopAll, StopOne}
  <2>1. Untouched /\ agent # "stopped" /\ \A x \in Threads : ~Suspending(x)
    BY <1>2, <1>3 DEF SuspendInv
  <2>2. Untouched' /\ agent' # "stopped" /\ mon'.suspended
    BY <1>1, <1>2, <1>3, <2>1 DEF Untouched
  <2>3. \A x \in Threads : x # t => ~Suspending(x)'
    BY <1>1, <2>1 DEF Suspending, Only
  <2> QED
    BY <2>2, <2>3 DEF SuspendInv
<1>4. CASE thread'[t].todo \notin {StopAll, StopOne}
  <2>1. /\ mon'.suspended = mon.suspended /\ thread'[t].todo \notin SuspendTodos
        /\ thread[t].todo \notin SuspendTodos
    BY <1>1, <1>2, <1>4, NotSuspending
  <2>2. \A x \in Threads : /\ Suspending(x)' <=> Suspending(x)
                           /\ thread'[x].todo \in {StopAll, StopOne} <=> thread[x].todo \in {StopAll, StopOne}
                           /\ thread'[x].todo \in {TimerAll, TimerOne} <=> thread[x].todo \in {TimerAll, TimerOne}
    <3> TAKE x \in Threads
    <3>1. CASE x = t
      BY <2>1, <3>1 DEF Suspending, SuspendTodos
    <3>2. CASE x # t
      BY <1>1, <3>2 DEF Only, Suspending
    <3> QED
      BY <3>1, <3>2
  <2>3. Untouched' <=> Untouched
    BY <1>1 DEF Untouched
  <2> QED
    BY <1>1, <2>1, <2>2, <2>3 DEF SuspendInv
<1> QED
  BY <1>3, <1>4

LEMMA SuspendStep ==
  ASSUME TypeOK, LogInv, MainInv, SuspendInv, [Next]_vars
  PROVE  SuspendInv'
<1>0. "main" \in Threads /\ "tail" \in Threads /\ Threads = {"tail", "main"}
  BY DEF Threads
<1>1. CASE UNCHANGED vars
  BY <1>1, SuspendSame DEF vars, agentVars, readVars, mainVars
<1>2. CASE TimerFires \/ PollerWakes
  <2>1. UNCHANGED <<thread, mon, runner>> /\ (wake.timer \/ wake.polling)
    BY <1>2, OutsideIs DEF Outside, TimerFires, PollerWakes
  <2>2. CASE runner = "gone"
    BY <2>1, <2>2 DEF SuspendInv
  <2>3. CASE runner # "gone"
    <3>1. /\ mon.suspended /\ \A t, x \in Threads : Suspending(t) /\ Suspending(x) => t = x
          /\ \A t \in Threads : /\ thread[t].todo \notin {StopAll, StopOne}
                                /\ thread[t].todo \notin {TimerAll, TimerOne}
          /\ wake.resumed => agent # "stopped"
      BY <2>1, <2>3 DEF SuspendInv, Untouched
    <3>2. agent' # "stopped"
      BY <1>2, <3>1 DEF TimerFires, PollerWakes, SigCont
    <3> QED
      BY <2>1, <3>1, <3>2 DEF SuspendInv, Suspending
  <2> QED
    BY <2>2, <2>3
<1>3. CASE Outside /\ ~TimerFires /\ ~PollerWakes
  <2>1. UNCHANGED wake /\ (agent' = "stopped" => agent = "stopped")
    BY <1>3 DEF Outside, AgentExits, CiAdvances, OthersMove, Tick, agentVars
  <2> QED
    BY <1>3, <2>1, OutsideIs, SuspendSame
<1>4. CASE Advances
  <2>1. UNCHANGED <<agent, mon, wake>> /\ runner # "gone"
    BY <1>4, AdvancesIs, PhaseIs
  <2>2. \A t \in Threads : \/ thread'[t].todo = thread[t].todo
                           \/ thread'[t].todo \notin SuspendTodos /\ thread[t].todo \notin SuspendTodos
    BY <1>0, <1>4, AdvancesTodos, NotSuspending DEF SameTodos
  <2> QED
    BY <2>1, <2>2, SuspendSame
<1>5. CASE Joined \/ JoinTimesOut
  BY <1>5, ExitIs DEF SuspendInv
<1>6. ASSUME NEW kind \in LineKinds, AgentWrites(kind) PROVE SuspendInv'
  <2>1. UNCHANGED <<thread, mon, wake, agent, runner>>
    BY <1>6, LogGrows DEF AgentWrites
  <2> QED
    BY <2>1, SuspendSame
<1>7. ASSUME NEW t \in Threads, Read(t) \/ Keep(t) \/ Finish(t) PROVE SuspendInv'
  <2>1. SameTodos /\ UNCHANGED <<mon, wake, agent>> /\ (runner' # "gone" => runner # "gone")
    BY <1>7, ReadIs, KeepIs, FinishIs, ReadersIdle DEF MainInv
  <2> QED
    BY <2>1, SuspendSame DEF SameTodos
<1>8. ASSUME NEW t \in Threads, Take(t) PROVE SuspendInv'
  <2>1. runner # "gone"
    BY <1>8, TakeIs DEF MainInv
  <2> QED
    BY <1>8, <2>1, SuspendTake
<1>9. ASSUME NEW t \in Threads, Executes(t) PROVE SuspendInv'
  <2>1. /\ Only(t) /\ thread[t].todo # <<>> /\ thread[t].todo \in Todos /\ UNCHANGED <<mon, runner>>
        /\ thread'[t].todo \in {thread[t].todo, AfterStep(thread[t].todo), Tail(thread[t].todo), <<>>}
    BY <1>9, ExecIs, ThreadTypes
  <2>2. CASE runner = "gone"
    BY <2>1, <2>2 DEF SuspendInv
  <2>3. CASE runner # "gone" /\ Suspending(t)
    BY <1>9, <2>3, SuspendExec
  <2>4. CASE ~Suspending(t)
    <3>1. /\ Step(t) \notin {"stop", "timer", "poller"}
          /\ AfterStep(thread[t].todo) \notin SuspendTodos /\ Tail(thread[t].todo) \notin SuspendTodos
      BY <2>1, <2>4, TodoSteps DEF Suspending, Step
    <3>2. UNCHANGED <<agent, wake>>
      <4>1. ~Freeze(t) /\ ~StartTimer(t) /\ ~StartPoller(t)
        BY <3>1 DEF Freeze, StartTimer, StartPoller
      <4> QED
        BY <1>9, <4>1, StampIs, InjectIs, TransitionIs, SignalIs DEF Executes
    <3>3. \A x \in Threads : \/ thread'[x].todo = thread[x].todo
                             \/ thread'[x].todo \notin SuspendTodos /\ thread[x].todo \notin SuspendTodos
      BY <2>1, <2>4, <3>1, NotSuspending DEF Suspending, Only
    <3> QED
      BY <2>1, <3>2, <3>3, SuspendSame
  <2> QED
    BY <2>2, <2>3, <2>4
<1> QED
  BY <1>1, <1>2, <1>3, <1>4, <1>5, <1>6, <1>7, <1>8, <1>9, NextIs

-----------------------------------------------------------------------------
(* The overrun is settled.                                                 *)

\* The state of an overrun that has fired.
Settling == \/ \E t \in Threads : thread[t].todo \in OverTodos
            \/ "note_overrun" \in plan
Leaving == \/ \E t \in Threads : thread[t].todo \in OverTodos \ {OverNote}
           \/ session.status # "executing"
Fresh == \A t \in Threads : thread[t].loaded => thread[t].todo # <<>> /\ thread[t].notes \subseteq plan

LEMMA OverrunIs ==
  OverrunInv <=> (Unhit => ("cost" \in mon.fired => Settling /\ Leaving) /\ Fresh)
BY DEF OverrunInv, Settling, Leaving, Fresh

LEMMA OverrunNext ==
  ASSUME Unhit' => ("cost" \in mon'.fired => Settling' /\ Leaving') /\ Fresh'
  PROVE  OverrunInv'
BY DEF OverrunInv, Settling, Leaving, Fresh

\* A step without a fault loses nothing of a list.
LEMMA ExecUnhit ==
  ASSUME TypeOK, NEW t \in Threads, Executes(t), faults' = faults
  PROVE  \/ Load(t)
         \/ thread'[t].todo = AfterStep(thread[t].todo)
         \/ Step(t) = "stop"
<1> DEFINE q == thread[t].todo
<1>1. faults \in Nat
  BY DEF TypeOK, RunOK
<1>2. ~StampRaises(t) /\ ~TransitionFails(t)
  <2>1. faults' # faults + 1
    BY <1>1
  <2> QED
    BY <2>1 DEF StampRaises, TransitionFails
<1>3. CASE Kill(t) \/ Stamp(t) \/ Inject(t) \/ Transition(t) \/ StartTimer(t) \/ StartPoller(t)
  <2>1. Goes(t, AfterStep(q))
    BY <1>3 DEF Kill, Stamp, Inject, Transition, StartTimer, StartPoller
  <2>2. q # <<>>
    BY ExecIs
  <2>3. AfterStep(q) \in Todos
    BY <2>2, ThreadTypes, TodoSteps
  <2> QED
    BY <2>1, <2>3, GoesIs
<1>4. CASE Freeze(t)
  BY <1>4 DEF Freeze
<1> QED
  BY <1>2, <1>3, <1>4 DEF Executes

\* Unless something is undone, notes stay and a session does not come back to
\* "executing".
LEMMA ExecFiles ==
  ASSUME TypeOK, NEW t \in Threads, Executes(t), ~undone'
  PROVE  /\ ~undone /\ plan \subseteq plan'
         /\ session.status # "executing" => session'.status # "executing"
         /\ faults' \in {faults, faults + 1}
<1>1. CASE Stamp(t) \/ StampRaises(t)
  BY <1>1, StampIs
<1>2. CASE Inject(t)
  BY <1>2, InjectIs
<1>3. CASE Transition(t)
  BY <1>3, TransitionIs
<1>4. CASE Kill(t) \/ Load(t) \/ TransitionFails(t) \/ Freeze(t) \/ StartTimer(t) \/ StartPoller(t)
  BY <1>4, SignalIs
<1> QED
  BY <1>1, <1>2, <1>3, <1>4 DEF Executes

LEMMA OverrunExec ==
  ASSUME TypeOK, MainInv, OverrunInv, OverrunRoutes, NEW t \in Threads, Executes(t)
  PROVE  OverrunInv'
<1> SUFFICES ASSUME Unhit'
             PROVE  ("cost" \in mon'.fired => Settling' /\ Leaving') /\ Fresh'
  BY OverrunNext
<1> DEFINE q == thread[t].todo
<1>1. /\ Only(t) /\ q # <<>> /\ UNCHANGED <<mon, cut>>
      /\ \/ thread'[t].todo = q /\ Load(t)
         \/ thread'[t].loaded = FALSE
  BY ExecIs
<1>2. /\ ~undone /\ plan \subseteq plan' /\ faults' = faults
      /\ session.status # "executing" => session'.status # "executing"
  <2>1. ~undone' /\ faults' = 0
    BY DEF Unhit
  <2>2. faults \in Nat /\ faults' \in {faults, faults + 1}
    BY <2>1, ExecFiles DEF TypeOK, RunOK
  <2>3. faults' = faults
    BY <2>1, <2>2
  <2> QED
    BY <2>1, <2>3, ExecFiles
<1>3. Unhit
  BY <1>1, <1>2 DEF Unhit
<1>4. Fresh /\ ("cost" \in mon.fired => Settling /\ Leaving)
  BY <1>3, OverrunIs
<1>5. \/ Load(t) /\ thread'[t].todo = q
      \/ thread'[t].todo = AfterStep(q)
      \/ Step(t) = "stop"
  <2>1. CASE Load(t)
    BY <2>1, LoadIs
  <2>2. CASE ~Load(t)
    BY <1>2, <2>2, ExecUnhit
  <2> QED
    BY <2>1, <2>2
<1>6. Fresh'
  <2>1. ASSUME NEW x \in Threads, thread'[x].loaded
        PROVE  thread'[x].todo # <<>> /\ thread'[x].notes \subseteq plan'
    <3>1. CASE x # t
      BY <1>1, <1>2, <1>4, <2>1, <3>1 DEF Only, Fresh
    <3>2. CASE x = t
      <4>1. Load(t) /\ thread'[t].todo = q
        BY <1>1, <2>1, <3>2
      <4>2. thread'[t].notes \subseteq plan
        BY <4>1, LoadIs
      <4> QED
        BY <1>1, <1>2, <3>2, <4>1, <4>2
    <3> QED
      BY <3>1, <3>2
  <2> QED
    BY <2>1 DEF Fresh
<1>7. ASSUME Settling PROVE Settling'
  <2>1. CASE "note_overrun" \in plan
    BY <1>2, <2>1 DEF Settling
  <2>2. CASE \E x \in Threads : x # t /\ thread[x].todo \in OverTodos
    BY <1>1, <2>2 DEF Settling, Only
  <2>3. CASE q \in OverTodos
    <3>1. CASE q = OverNote
      <4>1. Step(t) = "note_overrun" /\ AfterStep(q) = <<>>
        BY <2>3, <3>1, OverSteps DEF Step
      <4>2. CASE Load(t)
        BY <1>5, <2>3, <4>1, <4>2, LoadIs DEF Settling
      <4>3. CASE Inject(t)
        <5>1. thread[t].loaded /\ (Step(t) \in thread[t].notes \/ Step(t) \in plan')
          BY <4>3, InjectIs
        <5>2. "note_overrun" \in plan'
          BY <1>2, <1>4, <4>1, <5>1 DEF Fresh
        <5> QED
          BY <5>2 DEF Settling
      <4> QED
        BY <4>1, <4>2, <4>3 DEF Executes, Kill, Stamp, StampRaises, Transition, TransitionFails,
           Freeze, StartTimer, StartPoller, Stamps
    <3>2. CASE q # OverNote
      <4>1. AfterStep(q) \in OverTodos /\ Step(t) # "stop"
        BY <2>3, <3>2, OverSteps DEF Step, OverTodos
      <4> QED
        BY <1>5, <2>3, <4>1 DEF Settling
    <3> QED
      BY <3>1, <3>2
  <2> QED
    BY <1>7, <2>1, <2>2, <2>3 DEF Settling
<1>8. ASSUME Leaving PROVE Leaving'
  <2>1. CASE session.status # "executing"
    BY <1>2, <2>1 DEF Leaving
  <2>2. CASE \E x \in Threads : x # t /\ thread[x].todo \in OverTodos \ {OverNote}
    BY <1>1, <2>2 DEF Leaving, Only
  <2>3. CASE q \in OverTodos \ {OverNote}
    <3>1. CASE q = OverPause
      <4>1. Step(t) = "paused"
        BY <3>1, OverRows DEF Row, Step
      <4>2. Transition(t)
        <5>1. ~TransitionFails(t)
          <6>1. faults' # faults + 1
            BY <1>2 DEF TypeOK, RunOK
          <6> QED
            BY <6>1 DEF TransitionFails
        <5> QED
          BY <4>1, <5>1 DEF Executes, Kill, Load, Stamp, StampRaises, Inject, Freeze, StartTimer,
             StartPoller, Stamps, Notes
      <4>3. session'.status # "executing"
        BY <4>1, <4>2, TransitionIs DEF OverrunRoutes
      <4> QED
        BY <4>3 DEF Leaving
    <3>2. CASE q # OverPause
      <4>1. AfterStep(q) \in OverTodos \ {OverNote} /\ Step(t) # "stop"
        BY <2>3, <3>2, OverSteps DEF Step
      <4> QED
        BY <1>5, <2>3, <4>1 DEF Leaving
    <3> QED
      BY <3>1, <3>2
  <2> QED
    BY <1>8, <2>1, <2>2, <2>3 DEF Leaving
<1> QED
  BY <1>1, <1>4, <1>6, <1>7, <1>8

LEMMA OverrunTake ==
  ASSUME TypeOK, LogInv, OverrunInv, NEW t \in Threads, Take(t)
  PROVE  OverrunInv'
<1> SUFFICES ASSUME Unhit'
             PROVE  ("cost" \in mon'.fired => Settling' /\ Leaving') /\ Fresh'
  BY OverrunNext
<1> DEFINE kind == out[Head(buffer)]
<1>1. /\ Only(t) /\ thread[t].todo = <<>> /\ kind \in Kinds /\ mon \in Monitors
      /\ mon' = Process(mon, kind).mon /\ thread'[t].todo = Process(mon, kind).todo
      /\ thread'[t].loaded = thread[t].loaded
      /\ UNCHANGED <<session, plan, cut, undone, faults>>
  BY TakeIs DEF TypeOK, ReadOK
<1> HIDE DEF kind
<1>2. Unhit
  BY <1>1 DEF Unhit
<1>3. Fresh /\ ("cost" \in mon.fired => Settling /\ Leaving)
  BY <1>2, OverrunIs
<1>4. "cost" \in mon'.fired => "cost" \in mon.fired \/ thread'[t].todo = Overrun
  <2>1. \A m \in Monitors : "cost" \in Process(m, kind).mon.fired =>
                              "cost" \in m.fired \/ Process(m, kind).todo = Overrun
    BY <1>1, ProcessIs
  <2> QED
    BY <1>1, <2>1
<1>5. Fresh'
  BY <1>1, <1>3 DEF Fresh, Only
<1>6. ASSUME thread'[t].todo = Overrun PROVE Settling' /\ Leaving'
  <2>1. Overrun \in OverTodos \ {OverNote}
    BY OverRows DEF Row, OverTodos
  <2> QED
    BY <1>6, <2>1 DEF Settling, Leaving
<1>7. ASSUME Settling, Leaving PROVE Settling' /\ Leaving'
  <2>1. \A x \in Threads : thread[x].todo \in OverTodos => thread'[x] = thread[x]
    BY <1>1, EmptyTodo DEF Only
  <2> QED
    BY <1>1, <1>7, <2>1 DEF Settling, Leaving
<1> QED
  BY <1>3, <1>4, <1>5, <1>6, <1>7

\* Steps that leave the lists and plan.md as they are.
LEMMA OverrunSame ==
  ASSUME OverrunInv, SameTodos, UNCHANGED <<plan, mon, cut, undone, faults>>,
         session.status # "executing" => session'.status # "executing",
         \A t \in Threads : \/ ~thread'[t].loaded
                            \/ thread'[t] = thread[t]
  PROVE  OverrunInv'
<1> SUFFICES ASSUME Unhit'
             PROVE  ("cost" \in mon'.fired => Settling' /\ Leaving') /\ Fresh'
  BY OverrunNext
<1>1. Unhit
  BY DEF Unhit
<1>2. Fresh /\ ("cost" \in mon.fired => Settling /\ Leaving)
  BY <1>1, OverrunIs
<1> QED
  BY <1>2 DEF Fresh, Settling, Leaving, SameTodos

LEMMA OverrunStep ==
  ASSUME TypeOK, LogInv, MainInv, OverrunInv, OverrunRoutes, [Next]_vars
  PROVE  OverrunInv'
<1>0. "main" \in Threads /\ "tail" \in Threads /\ Threads = {"tail", "main"}
  BY DEF Threads
<1>1. CASE UNCHANGED vars
  BY <1>1, OverrunSame DEF vars, readVars, fileVars, histVars, SameTodos
<1>2. CASE Outside
  <2>1. session.status # "executing" => session'.status # "executing"
    <3>1. CASE OthersMove
      <4>1. PICK r \in Elsewhere : session' = Moved(r[2])
        BY <3>1 DEF OthersMove
      <4>2. r[2] \in Statuses
        BY DEF Statuses
      <4> QED
        BY <4>1, <4>2, MovedIs DEF OverrunRoutes
    <3>2. CASE ~OthersMove
      BY <1>2, <3>2 DEF Outside, TimerFires, PollerWakes, AgentExits, CiAdvances, Tick, fileVars
    <3> QED
      BY <3>1, <3>2
  <2> QED
    BY <1>2, <2>1, OutsideIs, OverrunSame DEF SameTodos
<1>3. CASE Advances
  <2>1. /\ UNCHANGED <<session, plan, mon, cut, undone, faults>> /\ thread'["tail"] = thread["tail"]
        /\ thread'["main"].loaded = thread["main"].loaded
        /\ thread'["main"].notes = thread["main"].notes
    BY <1>0, <1>3, AdvancesIs DEF Only
  <2>2. SameTodos \/ /\ thread["main"].todo = <<>>
                     /\ thread'["main"].todo \in {Reap, NoteComplete, <<>>}
    BY <1>3, AdvancesTodos
  <2>3. \A t \in Threads : /\ thread'[t].loaded = thread[t].loaded
                           /\ thread'[t].notes = thread[t].notes
                           /\ thread'[t].todo = thread[t].todo \/ thread[t].todo = <<>>
    BY <1>0, <2>1, <2>2 DEF SameTodos
  <2>4. ASSUME Unhit' PROVE ("cost" \in mon'.fired => Settling' /\ Leaving') /\ Fresh'
    <3>1. Fresh /\ ("cost" \in mon.fired => Settling /\ Leaving)
      <4>1. Unhit
        BY <2>1, <2>4 DEF Unhit
      <4> QED
        BY <4>1, OverrunIs
    <3>2. Fresh'
      BY <2>1, <2>3, <3>1 DEF Fresh
    <3>3. Settling /\ Leaving => Settling' /\ Leaving'
      <4>1. \A x \in Threads : thread[x].todo \in OverTodos => thread'[x].todo = thread[x].todo
        BY <2>3, EmptyTodo
      <4> QED
        BY <2>1, <4>1 DEF Settling, Leaving
    <3> QED
      BY <2>1, <3>1, <3>2, <3>3
  <2> QED
    BY <2>4, OverrunNext
<1>4. CASE Joined \/ JoinTimesOut
  <2>1. /\ runner = "joining" /\ \A t \in Threads : ~thread'[t].loaded /\ thread'[t].todo = <<>>
        /\ UNCHANGED <<session, plan, mon, undone, faults>>
        /\ ~cut' => ~cut /\ thread["tail"].pc = "rest"
    BY <1>4, ExitIs DEF Is
  <2>2. ASSUME Unhit' PROVE ("cost" \in mon'.fired => Settling' /\ Leaving') /\ Fresh'
    <3>1. ("cost" \in mon.fired => Settling /\ Leaving) /\ thread["tail"].pc = "rest"
      <4>1. Unhit /\ thread["tail"].pc = "rest"
        BY <2>1, <2>2 DEF Unhit
      <4> QED
        BY <4>1, OverrunIs
    <3>2. \A t \in Threads : thread[t].todo = <<>>
      BY <1>0, <2>1, <3>1 DEF MainInv, MainOf, TailOf
    <3>3. Settling /\ Leaving => "note_overrun" \in plan /\ session.status # "executing"
      BY <3>2, EmptyTodo DEF Settling, Leaving
    <3> QED
      BY <2>1, <3>1, <3>3 DEF Settling, Leaving, Fresh
  <2> QED
    BY <2>2, OverrunNext
<1>5. ASSUME NEW kind \in LineKinds, AgentWrites(kind) PROVE OverrunInv'
  BY <1>5, OverrunSame DEF AgentWrites, readVars, fileVars, histVars, SameTodos
<1>6. ASSUME NEW t \in Threads, Read(t) \/ Keep(t) \/ Finish(t) PROVE OverrunInv'
  <2>1. /\ Only(t) /\ ~thread'[t].loaded /\ UNCHANGED <<session, plan, mon, cut, undone, faults>>
    BY <1>6, ReadIs, KeepIs, FinishIs
  <2>2. SameTodos
    BY <1>6, ReadersIdle
  <2> QED
    BY <2>1, <2>2, OverrunSame DEF Only
<1>7. ASSUME NEW t \in Threads, Take(t) PROVE OverrunInv'
  BY <1>7, OverrunTake
<1>8. ASSUME NEW t \in Threads, Executes(t) PROVE OverrunInv'
  BY <1>8, OverrunExec
<1> QED
  BY <1>1, <1>2, <1>3, <1>4, <1>5, <1>6, <1>7, <1>8, NextIs

-----------------------------------------------------------------------------
(* The invariant, and what it says of the runner.                          *)

LEMMA InitInv == Init => IInv
<1> SUFFICES ASSUME Init PROVE IInv
  OBVIOUS
<1>1. \A t \in Threads : thread[t] = AtRest
  BY DEF Init
<1>2. TypeOK
  <2>1. thread \in [Threads -> Works1]
    BY RestTypes DEF Init
  <2>2. mon \in Monitors
    BY DEF Init, Monitors
  <2>3. AgentOK
    <3>1. agent = "running" /\ term = FALSE /\ out = <<>>
      BY DEF Init
    <3>2. out \in Seq(Kinds)
      BY <3>1
    <3> QED
      BY <3>1, <3>2 DEF AgentOK
  <2>4. ReadOK
    BY <2>2 DEF Init, ReadOK
  <2>5. FileOK
    BY DEF Init, FileOK, Sessions, Statuses
  <2>6. RunOK
    BY DEF Init, RunOK, Phases, Reasons
  <2> QED
    BY <2>1, <2>3, <2>4, <2>5, <2>6 DEF TypeOK
<1>3. LogInv
  BY <1>1, RestTypes DEF Init, LogInv, Lines
<1>4. MainInv
  BY <1>1, RestTypes DEF Init, MainInv, MainOf, TailOf, Threads
<1>5. OrderInv
  <2>1. {i \in seen : out[i] = "spend"} = {} /\ 1..0 = {} /\ Cardinality({}) = 0
    BY FS_EmptySet DEF Init
  <2>2. buffer = <<>> /\ offset = 0 /\ seen = {} /\ mon.cost = 0 /\ thread["tail"].pc = "rest"
    BY <1>1, RestTypes DEF Init, Threads
  <2>3. Len(buffer) = 0
    BY <2>2
  <2> QED
    BY <2>1, <2>2, <2>3 DEF OrderInv
<1>6. CoverInv
  BY <1>1, RestTypes DEF Init, CoverInv
<1>7. FlushInv /\ SurvivorInv
  BY DEF Init, FlushInv, SurvivorInv
<1>8. SuspendInv
  BY <1>1, RestTypes, NotSuspending DEF Init, SuspendInv, Untouched, Suspending, SuspendTodos
<1> QED
  BY <1>2, <1>3, <1>4, <1>5, <1>6, <1>7, <1>8 DEF IInv

\* At every moment the runner, its two threads, the log and the agent are to
\* each other as IInv says.
THEOREM Invariant == Spec => []IInv
<1>1. ASSUME IInv, [Next]_vars PROVE IInv'
  BY <1>1, TypeStep, LogStep, MainStep, OrderStep, CoverStep, FlushStep, SurvivorStep, SuspendStep
     DEF IInv
<1> QED
  BY <1>1, InitInv, PTL DEF Spec

\* What the reader counts is what the log says, and every line an agent wrote
\* before it died has been handled when the runner is gone, however the flush
\* and the tail thread interleave.
THEOREM LinesAlwaysAccounted == Spec => []LinesAccounted
<1>1. IInv => LinesAccounted
  <2> SUFFICES ASSUME IInv PROVE LinesAccounted
    OBVIOUS
  <2>1. out \in Seq(Kinds) /\ offset \in Nat /\ Len(buffer) \in Nat
    BY LenProperties DEF IInv, TypeOK, AgentOK, ReadOK
  <2>2. ASSUME runner = "watching"
        PROVE  /\ \A i \in seen : \A j \in 1..i : j \in seen
               /\ mon.cost = Cardinality({i \in seen : out[i] = "spend"})
    BY <2>1, <2>2 DEF IInv, OrderInv
  <2>3. ASSUME runner = "gone", exitReason = "pid_dead", ~cut PROVE seen = DOMAIN out
    BY <2>1, <2>3, LenProperties DEF IInv, FlushInv, Lines
  <2> QED
    BY <2>2, <2>3 DEF LinesAccounted
<1> QED
  BY <1>1, Invariant, PTL

\* An agent the monitor froze has somebody left to wake it as long as the
\* runner lives.
THEOREM SleeperAlwaysHasAWaker == Spec => []SleeperHasAWaker
<1>1. IInv => SleeperHasAWaker
  <2>1. \A q \in {TimerAll, TimerOne} : q # <<>> /\ Head(Head(q)) = "timer"
    BY SuspendRows DEF Row
  <2> QED
    BY <2>1 DEF IInv, SuspendInv, SleeperHasAWaker, Busy, Step
<1> QED
  BY <1>1, Invariant, PTL

\* A live agent is left behind only by a runner that ran out of time or has sent
\* it a SIGTERM.
THEOREM SurvivorsAlwaysKnown == Spec => []SurvivorsAreKnown
<1>1. IInv => SurvivorsAreKnown
  BY DEF IInv, SurvivorInv, SurvivorsAreKnown, TypeOK, RunOK, Reasons
<1> QED
  BY <1>1, Invariant, PTL

\* Where the workflow lets a running session be paused and nobody else starts one
\* the runner watches, an overrun that fired is settled when the runner is gone,
\* unless the exit cut it off, a fault hit it or a save undid it.
THEOREM OverrunAlwaysSettled == ASSUME OverrunRoutes PROVE Spec => []OverrunSettledUnlessHit
<1>1. Init => OverrunInv
  <2>1. ASSUME Init PROVE \A t \in Threads : ~thread[t].loaded
    BY <2>1, RestTypes DEF Init
  <2>2. Init => mon.fired = {}
    BY DEF Init
  <2> QED
    BY <2>1, <2>2 DEF OverrunInv
<1>2. ASSUME IInv, OverrunInv, [Next]_vars PROVE OverrunInv'
  BY <1>2, OverrunRoutes, OverrunStep DEF IInv
<1>3. IInv /\ OverrunInv => OverrunSettledUnlessHit
  <2> SUFFICES ASSUME IInv, OverrunInv, runner = "gone", "cost" \in mon.fired, ~cut, ~undone, ~(faults > 0)
               PROVE  session.status # "executing" /\ "note_overrun" \in plan
    BY DEF OverrunSettledUnlessHit
  <2>1. faults = 0
    BY DEF IInv, TypeOK, RunOK
  <2>2. \A t \in Threads : thread[t].todo = <<>>
    BY DEF IInv, MainInv, MainOf, TailOf, Threads
  <2> QED
    BY <2>1, <2>2, EmptyTodo DEF OverrunInv, Unhit
<1> QED
  BY <1>1, <1>2, <1>3, Invariant, PTL DEF Spec

\* A frozen agent is woken when its checks have completed or the half hour is
\* over, and by nothing else.
THEOREM AlwaysWokenForAReason == Spec => WokenForAReason
<1>1. ASSUME IInv, [Next]_vars, agent = "stopped", agent' = "running"
      PROVE  ci = "done" \/ clock.frozen >= ResumeAfter
  <2> USE <1>1
  <2>1. CASE UNCHANGED vars
    BY <2>1 DEF vars, agentVars
  <2>2. CASE Outside
    BY <2>2 DEF Outside, TimerFires, PollerWakes, AllChecksCompleted, AgentExits, CiAdvances,
       OthersMove, Tick, agentVars
  <2>3. CASE Advances
    BY <2>3, AdvancesIs DEF IInv
  <2>4. CASE Joined \/ JoinTimesOut
    BY <2>4, ExitIs DEF IInv
  <2>5. CASE \E kind \in LineKinds : AgentWrites(kind)
    BY <2>5 DEF AgentWrites
  <2>6. ASSUME NEW t \in Threads, Read(t) \/ Keep(t) \/ Take(t) \/ Finish(t) PROVE agent' = agent
    BY <2>6, ReadIs, KeepIs, TakeIs, FinishIs DEF IInv
  <2>7. ASSUME NEW t \in Threads, Executes(t) PROVE agent' # "running"
    <3>1. CASE Freeze(t)
      BY <3>1 DEF Freeze
    <3>2. CASE ~Freeze(t)
      BY <2>7, <3>2, StampIs, InjectIs, TransitionIs, SignalIs DEF Executes, IInv
    <3> QED
      BY <3>1, <3>2
  <2> QED
    BY <2>1, <2>2, <2>3, <2>4, <2>5, <2>6, <2>7, NextIs
<1> QED
  BY <1>1, Invariant, PTL DEF Spec, WokenForAReason

-----------------------------------------------------------------------------
(* The inductive invariant of LiveView.                                    *)

Events == [key : Keys, how : {"modified", "created", "moved"}]
Debounced == [pending : BOOLEAN, armed : BOOLEAN, loose : Nat]
Endpoints == [end : {"none", "accepted", "added", "ended"}, ok : BOOLEAN, wire : Seq(Keys)]
Queries == [st : {"idle", "asked", "read"}, got : Int, data : Int]
Views == [at : {"away", "connecting", "accepted", "open"}, socket : Nat, retrying : BOOLEAN,
          query : [Keys -> Queries]]
Sendings == [ev : Keys \cup {"none"}, left : SUBSET Sockets, dead : SUBSET Sockets]

ViewTypeOK ==
  /\ disk \in [Keys -> Int] /\ phase \in {"up", "stopping", "down"}
  /\ fs \in Seq(Events) /\ deb \in [Keys -> Debounced] /\ queue \in Seq(Keys)
  /\ conns \in SUBSET Sockets /\ task \in Sendings
  /\ sock \in [Sockets -> Endpoints] /\ page \in [Pages -> Views]
  /\ budget \in [changes : Nat, mounts : Nat, faults : Nat]
  /\ missed \in [Pages -> SUBSET Keys]

\* What the hub has or sends to has been accepted, and what was not accepted yet
\* is beyond what its page has had.
SocketsInTurn ==
  /\ task.left # {} => task.ev \in Keys
  /\ \A s \in conns \cup task.left : sock[s].end # "none"
  /\ \A s \in Sockets : sock[s].end = "none" => ~sock[s].ok
  /\ \A p \in Pages, n \in 1..(MaxMounts + MaxBreaks) :
       n > page[p].socket => sock[<<p, n>>].end = "none"

\* A page that has no connection, or a broken one, owes a mount or a fault for it.
Owed(p) == page[p].at = "connecting" \/ (Connected(p) /\ ~sock[Own(p)].ok)
Counted(p) ==
  /\ page[p].socket + (IF Owed(p) THEN 1 ELSE 0)
       <= (MaxMounts - budget.mounts) + (MaxBreaks - budget.faults)
  /\ Connected(p) => page[p].socket >= 1

\* Without a server no socket is whole, and a page that has never had one will
\* not be told.
NobodyServes ==
  phase # "up" =>
    /\ \A s \in Sockets : ~sock[s].ok
    /\ \A p \in Pages : page[p].at = "connecting" /\ ~page[p].retrying => Keys \subseteq missed[p]

Covered(p, k) == Pending(k) \/ Sent(p, k) \/ Resyncs(p) \/ Missed(p, k)
Shown(p, k) == page[p].at # "away" /\ Outdated(p, k) => Covered(p, k)

ViewInv ==
  /\ ViewTypeOK /\ SocketsInTurn /\ NobodyServes
  /\ \A p \in Pages : Counted(p)
  /\ \A p \in Pages, k \in Keys : Shown(p, k)

-----------------------------------------------------------------------------
(* Sequences of events.                                                    *)

LEMMA HasAppend ==
  ASSUME NEW S, NEW s \in Seq(S), NEW x \in S
  PROVE  /\ Append(s, x) \in Seq(S)
         /\ Has(Append(s, x), x) /\ \A y : Has(s, y) => Has(Append(s, x), y)
<1>1. /\ Append(s, x) \in Seq(S) /\ DOMAIN Append(s, x) = 1..(Len(s) + 1)
      /\ DOMAIN s = 1..Len(s) /\ Len(s) \in Nat
      /\ Append(s, x)[Len(s) + 1] = x /\ \A i \in 1..Len(s) : Append(s, x)[i] = s[i]
  OBVIOUS
<1>2. \A i \in 1..Len(s) : i \in 1..(Len(s) + 1)
  BY <1>1
<1>3. Has(Append(s, x), x)
  BY <1>1 DEF Has
<1>4. \A y : Has(s, y) => Has(Append(s, x), y)
  BY <1>1, <1>2 DEF Has
<1> QED BY <1>1, <1>3, <1>4

LEMMA HasTail ==
  ASSUME NEW S, NEW s \in Seq(S), s # <<>>
  PROVE  /\ Tail(s) \in Seq(S) /\ Head(s) \in S
         /\ \A y : Has(s, y) => y = Head(s) \/ Has(Tail(s), y)
<1>1. Len(s) \in Nat /\ Len(s) >= 1 /\ DOMAIN s = 1..Len(s) /\ Head(s) = s[1] /\ s[1] \in S
  OBVIOUS
<1>2. /\ Tail(s) \in Seq(S) /\ DOMAIN Tail(s) = 1..(Len(s) - 1)
      /\ \A n \in 1..(Len(s) - 1) : Tail(s)[n] = s[n + 1]
  BY <1>1
<1>3. ASSUME NEW y, Has(s, y) PROVE y = Head(s) \/ Has(Tail(s), y)
  <2>1. PICK n \in 1..Len(s) : s[n] = y
    BY <1>1, <1>3 DEF Has
  <2>2. CASE n = 1
    BY <1>1, <2>1, <2>2
  <2>3. CASE n # 1
    <3>1. n - 1 \in 1..(Len(s) - 1) /\ (n - 1) + 1 = n
      BY <1>1, <2>3
    <3>2. Tail(s)[n - 1] = y
      BY <1>2, <2>1, <3>1
    <3> QED BY <1>2, <3>1, <3>2 DEF Has
  <2> QED BY <2>2, <2>3
<1> QED BY <1>1, <1>2, <1>3

\* The same of the observer's events, by their keys.
LEMMA EventsAppend ==
  ASSUME ViewTypeOK, NEW e \in Events, fs' = Append(fs, e)
  PROVE  /\ fs' \in Seq(Events) /\ \E i \in DOMAIN fs' : fs'[i].key = e.key
         /\ \A k : (\E i \in DOMAIN fs : fs[i].key = k) => \E i \in DOMAIN fs' : fs'[i].key = k
<1>1. fs \in Seq(Events)
  BY DEF ViewTypeOK
<1>2. fs' \in Seq(Events) /\ Has(fs', e) /\ \A y : Has(fs, y) => Has(fs', y)
  BY <1>1, HasAppend
<1> QED BY <1>2 DEF Has

LEMMA EventsTail ==
  ASSUME ViewTypeOK, fs # <<>>, fs' = Tail(fs)
  PROVE  /\ fs' \in Seq(Events) /\ Head(fs) \in Events
         /\ \A k : (\E i \in DOMAIN fs : fs[i].key = k) =>
                     k = Head(fs).key \/ \E i \in DOMAIN fs' : fs'[i].key = k
<1>1. fs \in Seq(Events)
  BY DEF ViewTypeOK
<1>2. /\ fs' \in Seq(Events) /\ Head(fs) \in Events
      /\ \A y : Has(fs, y) => y = Head(fs) \/ Has(fs', y)
  BY <1>1, HasTail
<1> QED BY <1>2 DEF Has

-----------------------------------------------------------------------------
(* Sockets and the pages they belong to.                                   *)

LEMMA ViewBounds ==
  ASSUME ViewTypeOK
  PROVE  /\ MaxMounts \in Nat /\ MaxBreaks \in Nat
         /\ budget.mounts \in Nat /\ budget.faults \in Nat
         /\ \A p \in Pages : page[p] \in Views /\ page[p].socket \in Nat
BY LiveViewAssumption DEF ViewTypeOK, Views

\* The socket a page has, or is about to have, is among the Sockets.
LEMMA OwnIs ==
  ASSUME ViewTypeOK, NEW p \in Pages, Counted(p)
  PROVE  /\ page[p].at # "away" => Own(p) \in Sockets
         /\ Own(p)[1] = p
<1>1. Own(p)[1] = p
  BY DEF Own
<1>2. ASSUME Connected(p) PROVE Own(p) \in Sockets
  <2>1. page[p].socket \in 1..(MaxMounts + MaxBreaks)
    BY <1>2, ViewBounds DEF Counted
  <2> QED BY <1>2, <2>1 DEF Own, Sockets
<1>3. ASSUME page[p].at = "connecting" PROVE Own(p) \in Sockets
  <2>1. page[p].socket + 1 \in 1..(MaxMounts + MaxBreaks)
    BY <1>3, ViewBounds DEF Counted, Owed
  <2>2. ~Connected(p)
    BY <1>3 DEF Connected
  <2> QED BY <2>1, <2>2 DEF Own, Sockets
<1>4. page[p].at \in {"away", "connecting", "accepted", "open"}
  BY DEF ViewTypeOK, Views
<1> QED BY <1>1, <1>2, <1>3, <1>4 DEF Connected

\* A page that stays as it is keeps its socket.
LEMMA OwnStays ==
  ASSUME NEW p, page'[p] = page[p]
  PROVE  Own(p)' = Own(p) /\ (Connected(p)' <=> Connected(p))
BY DEF Own, Connected

\* Who is not connected is not sent to.
LEMMA SentIsConnected ==
  ASSUME ViewTypeOK, SocketsInTurn, NEW p \in Pages, Own(p) \in task.left
  PROVE  Connected(p)
<1>1. task.left \in SUBSET Sockets /\ page[p].socket \in Nat
  BY ViewBounds DEF ViewTypeOK, Sendings
<1>2. ASSUME ~Connected(p) PROVE FALSE
  <2>1. Own(p) = <<p, page[p].socket + 1>>
    BY <1>2 DEF Own
  <2>2. page[p].socket + 1 \in 1..(MaxMounts + MaxBreaks)
    BY <1>1, <2>1 DEF Sockets
  <2>3. sock[Own(p)].end = "none"
    BY <1>1, <2>1, <2>2 DEF SocketsInTurn
  <2> QED BY <2>3 DEF SocketsInTurn
<1> QED BY <1>2

LEMMA PageTurns ==
  ASSUME ViewTypeOK, NEW p \in Pages, NEW r \in Views, Becomes(p, r)
  PROVE  /\ page'[p] = r /\ page' \in [Pages -> Views]
         /\ \A q \in Pages : q # p => page'[q] = page[q]
BY DEF ViewTypeOK, Becomes

LEMMA MissesIs ==
  ASSUME ViewTypeOK, NEW S, NEW K \in SUBSET Keys, Misses(S, K)
  PROVE  /\ missed' \in [Pages -> SUBSET Keys]
         /\ \A p \in Pages : /\ missed[p] \subseteq missed'[p]
                             /\ p \in S => K \subseteq missed'[p]
BY DEF ViewTypeOK, Misses

\* A page that has no part in a step is as up to date as it was.
LEMMA Bystander ==
  ASSUME ViewInv, NEW p \in Pages, page'[p] = page[p],
         UNCHANGED <<disk, fs, deb, queue, task>>,
         Connected(p) => sock'[Own(p)] = sock[Own(p)],
         missed[p] \subseteq missed'[p], NEW k \in Keys
  PROVE  Shown(p, k)'
<1>1. Own(p)' = Own(p) /\ (Connected(p)' <=> Connected(p))
  BY OwnStays
<1>2. Shown(p, k)
  BY DEF ViewInv
<1>3. Outdated(p, k)' <=> Outdated(p, k)
  BY DEF Outdated
<1>4. Pending(k)' <=> Pending(k)
  BY DEF Pending, Has
<1>5. Sent(p, k) => Sent(p, k)'
  BY <1>1 DEF Sent, Has
<1>6. Resyncs(p) => Resyncs(p)'
  BY <1>1 DEF Resyncs
<1>7. Missed(p, k) => Missed(p, k)'
  BY DEF Missed
<1> QED BY <1>2, <1>3, <1>4, <1>5, <1>6, <1>7 DEF Shown, Covered

-----------------------------------------------------------------------------
(* Steps of the server that no page notices at once.                       *)

LEMMA PageStands ==
  ASSUME ViewInv, page' = page, disk' = disk, NEW p \in Pages, NEW k \in Keys,
         \A s \in Sockets : sock'[s].ok <=> sock[s].ok,
         missed[p] \subseteq missed'[p],
         page[p].at # "away" /\ (Pending(k) \/ Sent(p, k)) => Covered(p, k)'
  PROVE  Shown(p, k)'
<1>1. Shown(p, k) /\ (Outdated(p, k)' <=> Outdated(p, k))
  BY DEF ViewInv, Outdated
<1>2. page[p].at # "away" => Own(p) \in Sockets
  BY OwnIs DEF ViewInv
<1>3. page[p].at # "away" /\ Resyncs(p) => Resyncs(p)'
  <2>1. Own(p)' = Own(p) /\ (Connected(p)' <=> Connected(p))
    BY DEF Own, Connected
  <2> QED BY <1>2, <2>1 DEF Resyncs
<1>4. Missed(p, k) => Missed(p, k)'
  BY DEF Missed
<1> QED BY <1>1, <1>3, <1>4 DEF Shown, Covered

LEMMA ServerStep ==
  ASSUME ViewInv, ViewTypeOK', page' = page, phase' = phase,
         budget'.mounts = budget.mounts, budget'.faults = budget.faults,
         \A s \in Sockets : /\ sock'[s].ok <=> sock[s].ok
                            /\ sock'[s].end = "none" <=> sock[s].end = "none",
         \A p \in Pages : missed[p] \subseteq missed'[p],
         task'.left # {} => task'.ev \in Keys,
         \A s \in conns' \cup task'.left : sock[s].end # "none",
         \A p \in Pages, k \in Keys : Shown(p, k)'
  PROVE  ViewInv'
<1>1. ViewTypeOK /\ SocketsInTurn /\ NobodyServes /\ \A p \in Pages : Counted(p)
  BY DEF ViewInv
<1>2. \A p \in Pages : Own(p)' = Own(p) /\ (Connected(p)' <=> Connected(p))
  BY DEF Own, Connected
<1>3. conns' \cup task'.left \subseteq Sockets
  BY DEF ViewTypeOK, Sendings
<1>4. SocketsInTurn'
  <2>1. \A p \in Pages, n \in 1..(MaxMounts + MaxBreaks) : <<p, n>> \in Sockets
    BY DEF Sockets
  <2> QED BY <1>1, <1>3, <2>1 DEF SocketsInTurn
<1>5. NobodyServes'
  BY <1>1 DEF NobodyServes
<1>6. ASSUME NEW p \in Pages PROVE Counted(p)'
  <2>1. page[p].at # "away" => Own(p) \in Sockets
    BY <1>1, OwnIs
  <2>2. Owed(p)' <=> Owed(p)
    BY <1>2, <2>1 DEF Owed, Connected
  <2> QED BY <1>1, <1>2, <2>2 DEF Counted
<1> QED BY <1>4, <1>5, <1>6 DEF ViewInv

\* Without a server every open page will ask again, or is not to be told.
LEMMA OutOfService ==
  ASSUME ViewInv, phase # "up", NEW p \in Pages, page[p].at # "away"
  PROVE  Resyncs(p) \/ Keys \subseteq missed[p]
<1>1. Own(p) \in Sockets
  BY OwnIs DEF ViewInv
<1>2. page[p].at \in {"connecting", "accepted", "open"}
  BY DEF ViewInv, ViewTypeOK, Views
<1> QED BY <1>1, <1>2 DEF ViewInv, NobodyServes, Resyncs, Connected

LEMMA ChangeKept ==
  ASSUME ViewInv, NEW k \in Keys, Change(k)
  PROVE  ViewInv'
<1>1. /\ UNCHANGED <<phase, deb, queue, conns, task, sock, page, missed>>
      /\ disk' = [disk EXCEPT ![k] = @ + 1]
      /\ budget' = [budget EXCEPT !.changes = @ - 1] /\ budget.changes > 0
  BY DEF Change, Spend
<1>2. ViewTypeOK /\ SocketsInTurn
  BY DEF ViewInv
<1>3. /\ fs' \in Seq(Events) /\ (phase # "down" => \E i \in DOMAIN fs' : fs'[i].key = k)
      /\ \A j : (\E i \in DOMAIN fs : fs[i].key = j) => \E i \in DOMAIN fs' : fs'[i].key = j
  <2>1. CASE phase # "down"
    <3>1. PICK how \in Told(k) : fs' = Append(fs, [key |-> k, how |-> how])
      BY <2>1 DEF Change
    <3>2. PICK e \in Events : e = [key |-> k, how |-> how] /\ e.key = k
      <4>1. how \in {"modified", "created", "moved"}
        BY DEF Told
      <4>2. [key |-> k, how |-> how] \in Events /\ [key |-> k, how |-> how].key = k
        BY <4>1 DEF Events
      <4> QED BY <4>2
    <3>3. fs' = Append(fs, e)
      BY <3>1, <3>2
    <3> QED BY <1>2, <3>2, <3>3, EventsAppend
  <2>2. CASE phase = "down"
    BY <1>2, <2>2 DEF Change, ViewTypeOK
  <2> QED BY <2>1, <2>2
<1>4. /\ budget' \in [changes : Nat, mounts : Nat, faults : Nat]
      /\ budget'.mounts = budget.mounts /\ budget'.faults = budget.faults
  <2>1. /\ budget \in [changes : Nat, mounts : Nat, faults : Nat]
        /\ budget.changes - 1 \in Nat
    BY <1>1, <1>2 DEF ViewTypeOK
  <2>2. budget' = [budget EXCEPT !.changes = budget.changes - 1]
    BY <1>1
  <2> QED BY <2>1, <2>2
<1>5. disk' \in [Keys -> Int] /\ \A j \in Keys : j # k => disk'[j] = disk[j]
  BY <1>1, <1>2 DEF ViewTypeOK
<1>6. ViewTypeOK'
  BY <1>1, <1>2, <1>3, <1>4, <1>5 DEF ViewTypeOK
<1>7. ASSUME NEW p \in Pages, NEW j \in Keys PROVE Shown(p, j)'
  <2>1. /\ Shown(p, j) /\ (Resyncs(p)' <=> Resyncs(p)) /\ (Sent(p, j)' <=> Sent(p, j))
        /\ Missed(p, j)' <=> Missed(p, j)
    BY <1>1 DEF ViewInv, Resyncs, Sent, Missed, Own, Connected, Has
  <2>2. Pending(j) => Pending(j)'
    BY <1>1, <1>3 DEF Pending, Has
  <2>3. CASE j # k
    <3>1. Outdated(p, j)' <=> Outdated(p, j)
      BY <1>1, <1>5, <2>3 DEF Outdated
    <3> QED BY <1>1, <2>1, <2>2, <3>1 DEF Shown, Covered
  <2>4. CASE j = k /\ phase # "down"
    BY <1>3, <2>4 DEF Pending, Shown, Covered
  <2>5. CASE j = k /\ phase = "down"
    BY <1>1, <2>1, <2>5, OutOfService DEF Shown, Covered, Missed
  <2> QED BY <2>3, <2>4, <2>5
<1>8. \A s \in conns' \cup task'.left : sock[s].end # "none"
  BY <1>1, <1>2 DEF SocketsInTurn
<1>9. task'.left # {} => task'.ev \in Keys
  BY <1>1, <1>2 DEF SocketsInTurn
<1> QED BY <1>1, <1>4, <1>6, <1>7, <1>8, <1>9, ServerStep

LEMMA HandleKept ==
  ASSUME ViewInv, Handle
  PROVE  ViewInv'
<1>1. /\ UNCHANGED <<disk, phase, conns, task, sock, page, budget>>
      /\ fs # <<>> /\ fs' = Tail(fs)
  BY DEF Handle, files
<1>2. ViewTypeOK /\ SocketsInTurn
  BY DEF ViewInv
<1>3. PICK e \in Events :
        /\ e = Head(fs) /\ e.key \in Keys /\ fs' \in Seq(Events)
        /\ \A j : (\E i \in DOMAIN fs : fs[i].key = j) =>
                    j = e.key \/ \E i \in DOMAIN fs' : fs'[i].key = j
  BY <1>1, <1>2, EventsTail DEF Events
<1>4. \/ schedule(e.key) /\ UNCHANGED <<queue, missed>>
      \/ queue' = Append(queue, e.key) /\ UNCHANGED <<deb, missed>>
      \/ Misses(Open, {e.key}) /\ UNCHANGED <<deb, queue>>
  BY <1>3 DEF Handle
\* The change of this key is pending still, or missed; the others are where they were.
<1>5. /\ deb' \in [Keys -> Debounced] /\ queue' \in Seq(Keys) /\ missed' \in [Pages -> SUBSET Keys]
      /\ \A p \in Pages : missed[p] \subseteq missed'[p]
      /\ \A p \in Open : Pending(e.key)' \/ e.key \in missed'[p]
      /\ \A j \in Keys : Pending(j) => j = e.key \/ Pending(j)'
  <2>1. CASE schedule(e.key) /\ UNCHANGED <<queue, missed>>
    <3>1. PICK late \in BOOLEAN :
            deb' = [deb EXCEPT ![e.key] =
                      [pending |-> TRUE, armed |-> TRUE,
                       loose |-> IF late THEN @.loose + 1 ELSE @.loose]]
      BY <2>1 DEF schedule
    <3>2. deb[e.key] \in Debounced /\ deb[e.key].loose \in Nat
      BY <1>2, <1>3 DEF ViewTypeOK, Debounced
    <3>3. PICK n \in Nat : deb' = [deb EXCEPT ![e.key] = [pending |-> TRUE, armed |-> TRUE,
                                                          loose |-> n]]
      <4>1. CASE late
        <5>1. deb' = [deb EXCEPT ![e.key] = [pending |-> TRUE, armed |-> TRUE,
                                             loose |-> deb[e.key].loose + 1]]
          BY <3>1, <4>1
        <5>2. deb[e.key].loose + 1 \in Nat
          BY <3>2
        <5> QED BY <5>1, <5>2
      <4>2. CASE ~late
        <5>1. deb' = [deb EXCEPT ![e.key] = [pending |-> TRUE, armed |-> TRUE,
                                             loose |-> deb[e.key].loose]]
          BY <3>1, <4>2
        <5> QED BY <3>2, <5>1
      <4> QED BY <4>1, <4>2
    <3>4. /\ deb' \in [Keys -> Debounced] /\ deb'[e.key].pending /\ deb'[e.key].armed
          /\ \A j \in Keys : j # e.key => deb'[j] = deb[j]
      BY <1>2, <1>3, <3>3 DEF ViewTypeOK, Debounced
    <3>5. Pending(e.key)'
      BY <3>4 DEF Pending
    <3>6. \A j \in Keys : Pending(j) => j = e.key \/ Pending(j)'
      BY <1>3, <2>1, <3>4 DEF Pending, Has
    <3> QED BY <1>2, <2>1, <3>4, <3>5, <3>6 DEF ViewTypeOK
  <2>2. CASE queue' = Append(queue, e.key) /\ UNCHANGED <<deb, missed>>
    <3>1. /\ queue' \in Seq(Keys) /\ Has(queue', e.key) /\ \A j : Has(queue, j) => Has(queue', j)
      BY <1>2, <1>3, <2>2, HasAppend DEF ViewTypeOK
    <3>2. Pending(e.key)'
      BY <3>1 DEF Pending, Has
    <3>3. \A j \in Keys : Pending(j) => j = e.key \/ Pending(j)'
      BY <1>3, <2>2, <3>1 DEF Pending, Has
    <3> QED BY <1>2, <2>2, <3>1, <3>2, <3>3 DEF ViewTypeOK
  <2>3. CASE Misses(Open, {e.key}) /\ UNCHANGED <<deb, queue>>
    <3>1. \A j \in Keys : Pending(j) => j = e.key \/ Pending(j)'
      BY <1>3, <2>3 DEF Pending, Has
    <3>2. {e.key} \in SUBSET Keys /\ Open \subseteq Pages
      BY <1>3 DEF Open
    <3> QED BY <1>2, <2>3, <3>1, <3>2, MissesIs DEF ViewTypeOK
  <2> QED BY <1>4, <2>1, <2>2, <2>3
<1>6. ViewTypeOK'
  BY <1>1, <1>2, <1>3, <1>5 DEF ViewTypeOK
<1>7. ASSUME NEW p \in Pages, NEW j \in Keys PROVE Shown(p, j)'
  <2>1. Sent(p, j) => Sent(p, j)'
    BY <1>1 DEF Sent, Own, Connected, Has
  <2>2. page[p].at # "away" /\ Pending(j) => Pending(j)' \/ Missed(p, j)'
    BY <1>5 DEF Open, Missed
  <2> QED BY <1>1, <1>5, <2>1, <2>2, PageStands DEF Covered
<1>8. \A s \in conns' \cup task'.left : sock[s].end # "none"
  BY <1>1, <1>2 DEF SocketsInTurn
<1>9. task'.left # {} => task'.ev \in Keys
  BY <1>1, <1>2 DEF SocketsInTurn
<1> QED BY <1>1, <1>5, <1>6, <1>7, <1>8, <1>9, ServerStep

LEMMA FireKept ==
  ASSUME ViewInv, NEW k \in Keys, _fire(k)
  PROVE  ViewInv'
<1>1. /\ UNCHANGED <<disk, phase, fs, conns, task, sock, page, budget, missed>>
      /\ queue' = IF deb[k].pending THEN Append(queue, k) ELSE queue
  BY DEF _fire, files
<1>2. ViewTypeOK /\ SocketsInTurn
  BY DEF ViewInv
<1>3. PICK n \in Nat : deb' = [deb EXCEPT ![k] = [pending |-> FALSE, armed |-> FALSE, loose |-> n]]
  <2>1. deb[k] \in Debounced /\ deb[k].loose \in Nat
    BY <1>2 DEF ViewTypeOK, Debounced
  <2>2. \/ deb' = [deb EXCEPT ![k] = Taken(deb[k], deb[k].loose)]
        \/ /\ deb[k].loose > 0
           /\ deb' = [deb EXCEPT ![k] = Taken(deb[k], IF deb[k].armed THEN deb[k].loose
                                                      ELSE deb[k].loose - 1)]
    BY DEF _fire
  <2>3. CASE deb' = [deb EXCEPT ![k] = Taken(deb[k], deb[k].loose)]
    BY <2>1, <2>3 DEF Taken
  <2>4. CASE /\ deb[k].loose > 0
             /\ deb' = [deb EXCEPT ![k] = Taken(deb[k], IF deb[k].armed THEN deb[k].loose
                                                        ELSE deb[k].loose - 1)]
    <3>1. deb[k].loose - 1 \in Nat
      BY <2>1, <2>4
    <3> QED BY <2>1, <2>4, <3>1 DEF Taken
  <2> QED BY <2>2, <2>3, <2>4
<1>4. /\ deb' \in [Keys -> Debounced] /\ \A j \in Keys : j # k => deb'[j] = deb[j]
  BY <1>2, <1>3 DEF ViewTypeOK, Debounced
<1>5. /\ queue' \in Seq(Keys) /\ (deb[k].pending => Has(queue', k))
      /\ \A j : Has(queue, j) => Has(queue', j)
  <2>1. queue \in Seq(Keys)
    BY <1>2 DEF ViewTypeOK
  <2>2. CASE deb[k].pending
    BY <1>1, <2>1, <2>2, HasAppend
  <2>3. CASE ~deb[k].pending
    BY <1>1, <2>1, <2>3
  <2> QED BY <2>2, <2>3
<1>6. ViewTypeOK'
  BY <1>1, <1>2, <1>4, <1>5 DEF ViewTypeOK
<1>7. ASSUME NEW p \in Pages, NEW j \in Keys PROVE Shown(p, j)'
  <2>1. Sent(p, j) => Sent(p, j)'
    BY <1>1 DEF Sent, Own, Connected, Has
  <2>2. Pending(j) => Pending(j)'
    BY <1>1, <1>4, <1>5 DEF Pending, Has
  <2> QED BY <1>1, <2>1, <2>2, PageStands DEF Covered
<1>8. \A s \in conns' \cup task'.left : sock[s].end # "none"
  BY <1>1, <1>2 DEF SocketsInTurn
<1>9. task'.left # {} => task'.ev \in Keys
  BY <1>1, <1>2 DEF SocketsInTurn
<1> QED BY <1>1, <1>6, <1>7, <1>8, <1>9, ServerStep

LEMMA BroadcastKept ==
  ASSUME ViewInv, broadcast_events
  PROVE  ViewInv'
<1>1. /\ UNCHANGED <<disk, phase, fs, deb, conns, sock, page, budget>>
      /\ queue # <<>> /\ queue' = Tail(queue) /\ task = Resting
  BY DEF broadcast_events, files
<1>2. ViewTypeOK /\ SocketsInTurn /\ queue \in Seq(Keys)
  BY DEF ViewInv, ViewTypeOK
<1>3. PICK e \in Keys : /\ e = Head(queue) /\ queue' \in Seq(Keys)
                        /\ \A j : Has(queue, j) => j = e \/ Has(queue', j)
  BY <1>1, <1>2, HasTail
<1>4. /\ task' = IF conns = {} THEN Resting ELSE [ev |-> e, left |-> conns, dead |-> {}]
      /\ Misses(Unheard, {e})
  BY <1>3 DEF broadcast_events, broadcast
<1>5. /\ task' \in Sendings /\ task'.left = conns /\ (conns # {} => task'.ev = e)
      /\ task.left = {}
  BY <1>1, <1>2, <1>4 DEF Resting, Sendings, ViewTypeOK
<1>6. /\ missed' \in [Pages -> SUBSET Keys]
      /\ \A p \in Pages : missed[p] \subseteq missed'[p] /\ (p \in Unheard => e \in missed'[p])
  BY <1>2, <1>3, <1>4, MissesIs
<1>7. ViewTypeOK'
  BY <1>1, <1>2, <1>3, <1>5, <1>6 DEF ViewTypeOK
<1>8. ASSUME NEW p \in Pages, NEW j \in Keys PROVE Shown(p, j)'
  <2>1. Own(p)' = Own(p) /\ (Connected(p)' <=> Connected(p)) /\ (Resyncs(p)' <=> Resyncs(p))
    BY <1>1 DEF Own, Connected, Resyncs
  <2>2. Sent(p, j) => Sent(p, j)'
    BY <1>1, <1>5, <2>1 DEF Sent, Has
  <2>3. ASSUME page[p].at # "away", Pending(j) PROVE Covered(p, j)'
    <3>1. CASE j = e
      <4>1. p \in Unheard \/ Resyncs(p) \/ Own(p) \in conns
        BY <2>3 DEF Unheard, Open
      <4>2. CASE p \in Unheard
        BY <1>6, <3>1, <4>2 DEF Covered, Missed
      <4>3. CASE Resyncs(p)
        BY <2>1, <4>3 DEF Covered
      <4>4. CASE Own(p) \in conns
        BY <1>5, <2>1, <3>1, <4>4 DEF Covered, Sent
      <4> QED BY <4>1, <4>2, <4>3, <4>4
    <3>2. CASE j # e
      <4>1. Pending(j)'
        BY <1>1, <1>3, <2>3, <3>2 DEF Pending, Has
      <4> QED BY <4>1 DEF Covered
    <3> QED BY <3>1, <3>2
  <2> QED BY <1>1, <1>6, <2>2, <2>3, PageStands DEF Covered
<1>9. \A s \in conns' \cup task'.left : sock[s].end # "none"
  BY <1>1, <1>2, <1>5 DEF SocketsInTurn
<1>10. task'.left # {} => task'.ev \in Keys
  BY <1>5
<1> QED BY <1>1, <1>6, <1>7, <1>8, <1>9, <1>10, ServerStep

LEMMA SendKept ==
  ASSUME ViewInv, Send
  PROVE  ViewInv'
<1>1. PICK s \in task.left, L \in SUBSET task.left, D \in SUBSET (task.dead \cup task.left) :
        /\ L = task.left \ {s} /\ D \in {task.dead, task.dead \cup {s}}
        /\ sock' = IF sock[s].ok THEN [sock EXCEPT ![s].wire = Append(@, task.ev)] ELSE sock
        /\ task' = IF L = {} THEN Resting ELSE [task EXCEPT !.left = L, !.dead = D]
        /\ conns' = IF L = {} THEN conns \ D ELSE conns
        /\ UNCHANGED <<disk, phase, fs, deb, queue, page, budget, missed>>
  <2>1. PICK s \in task.left :
          LET left == task.left \ {s}
              dead == IF Undeliverable(s) THEN task.dead \cup {s} ELSE task.dead
          IN /\ sock' = IF sock[s].ok THEN [sock EXCEPT ![s].wire = Append(@, task.ev)] ELSE sock
             /\ task' = IF left = {} THEN Resting ELSE [task EXCEPT !.left = left, !.dead = dead]
             /\ conns' = IF left = {} THEN conns \ dead ELSE conns
             /\ UNCHANGED <<disk, phase, fs, deb, queue, page, budget, missed>>
    BY DEF Send, files
  <2>2. PICK L \in SUBSET task.left : L = task.left \ {s}
    OBVIOUS
  <2>3. PICK D \in SUBSET (task.dead \cup task.left) :
          /\ D \in {task.dead, task.dead \cup {s}}
          /\ D = IF Undeliverable(s) THEN task.dead \cup {s} ELSE task.dead
    OBVIOUS
  <2> QED BY <2>1, <2>2, <2>3
<1>2. /\ ViewTypeOK /\ SocketsInTurn /\ task \in Sendings /\ s \in Sockets
      /\ task.left \in SUBSET Sockets /\ task.dead \in SUBSET Sockets /\ task.ev \in Keys
      /\ conns \in SUBSET Sockets /\ sock \in [Sockets -> Endpoints]
  BY <1>1 DEF ViewInv, ViewTypeOK, SocketsInTurn, Sendings
<1>3. /\ task' \in Sendings /\ task'.left = L
      /\ L # {} => task'.ev = task.ev
  <2>1. CASE L = {}
    BY <1>1, <2>1 DEF Resting, Sendings
  <2>2. CASE L # {}
    <3>1. L \in SUBSET Sockets /\ D \in SUBSET Sockets
      BY <1>1, <1>2
    <3> QED BY <1>1, <1>2, <2>2, <3>1 DEF Sendings
  <2> QED BY <2>1, <2>2
<1>4. conns' \in SUBSET Sockets /\ conns' \subseteq conns
  BY <1>1, <1>2
<1>5. /\ sock' \in [Sockets -> Endpoints]
      /\ \A t \in Sockets : /\ sock'[t].ok = sock[t].ok /\ sock'[t].end = sock[t].end
                            /\ \A j : Has(sock[t].wire, j) => Has(sock'[t].wire, j)
      /\ sock[s].ok => Has(sock'[s].wire, task.ev)
  <2>1. CASE sock[s].ok
    <3>1. PICK w \in Seq(Keys) : /\ w = Append(sock[s].wire, task.ev) /\ Has(w, task.ev)
                                 /\ \A j : Has(sock[s].wire, j) => Has(w, j)
      <4>1. sock[s].wire \in Seq(Keys) /\ task.ev \in Keys
        BY <1>2 DEF Endpoints
      <4>2. /\ Append(sock[s].wire, task.ev) \in Seq(Keys)
            /\ Has(Append(sock[s].wire, task.ev), task.ev)
            /\ \A j : Has(sock[s].wire, j) => Has(Append(sock[s].wire, task.ev), j)
        BY <4>1, HasAppend
      <4> QED BY <4>2
    <3>2. sock' = [sock EXCEPT ![s].wire = w]
      BY <1>1, <2>1, <3>1
    <3>3. sock[s] \in Endpoints
      BY <1>2
    <3>4. sock' \in [Sockets -> Endpoints]
      BY <1>2, <3>2, <3>3 DEF Endpoints
    <3>5. /\ sock'[s].ok = sock[s].ok /\ sock'[s].end = sock[s].end /\ sock'[s].wire = w
          /\ \A t \in Sockets : t # s => sock'[t] = sock[t]
      BY <1>2, <3>2, <3>3 DEF Endpoints
    <3> QED BY <3>1, <3>4, <3>5
  <2>2. CASE ~sock[s].ok
    BY <1>1, <1>2, <2>2
  <2> QED BY <2>1, <2>2
<1>6. ViewTypeOK'
  BY <1>1, <1>2, <1>3, <1>4, <1>5 DEF ViewTypeOK
<1>7. ASSUME NEW p \in Pages, NEW j \in Keys PROVE Shown(p, j)'
  <2>1. Own(p)' = Own(p) /\ (Connected(p)' <=> Connected(p))
    BY <1>1 DEF Own, Connected
  <2>2. Connected(p) => Own(p) \in Sockets
    BY OwnIs DEF ViewInv, Connected
  <2>3. Pending(j) => Pending(j)'
    BY <1>1 DEF Pending, Has
  <2>4. ASSUME Sent(p, j) PROVE Covered(p, j)'
    <3>1. CASE Connected(p) /\ Has(sock[Own(p)].wire, j)
      BY <1>5, <2>1, <2>2, <3>1 DEF Sent, Covered
    <3>2. CASE task.ev = j /\ Own(p) \in task.left /\ Own(p) # s
      BY <1>1, <1>3, <2>1, <3>2 DEF Sent, Covered
    <3>3. CASE task.ev = j /\ Own(p) = s
      <4>1. Connected(p)
        BY <1>1, <1>2, <3>3, SentIsConnected
      <4>2. CASE sock[s].ok
        BY <1>5, <2>1, <3>3, <4>1, <4>2 DEF Sent, Covered
      <4>3. CASE ~sock[s].ok
        BY <1>2, <1>5, <2>1, <3>3, <4>1, <4>3 DEF Resyncs, Covered
      <4> QED BY <4>2, <4>3
    <3> QED BY <2>4, <3>1, <3>2, <3>3 DEF Sent
  <2> QED BY <1>1, <1>5, <2>3, <2>4, PageStands DEF Covered
<1>8. \A t \in conns' \cup task'.left : sock[t].end # "none"
  BY <1>1, <1>2, <1>3, <1>4 DEF SocketsInTurn
<1>9. task'.left # {} => task'.ev \in Keys
  BY <1>2, <1>3
<1> QED BY <1>1, <1>5, <1>6, <1>7, <1>8, <1>9, ServerStep

\* The hub's list of sockets is of no consequence before the next broadcast.
LEMMA HubStep ==
  ASSUME ViewInv, UNCHANGED <<disk, phase, fs, deb, queue, task, page, budget, missed>>,
         conns' \in SUBSET Sockets, sock' \in [Sockets -> Endpoints],
         \A s \in Sockets : /\ sock'[s].ok = sock[s].ok /\ sock'[s].wire = sock[s].wire
                            /\ sock'[s].end = "none" <=> sock[s].end = "none",
         \A s \in conns' : sock[s].end # "none"
  PROVE  ViewInv'
<1>1. ViewTypeOK /\ SocketsInTurn
  BY DEF ViewInv
<1>2. ViewTypeOK'
  BY <1>1 DEF ViewTypeOK
<1>3. ASSUME NEW p \in Pages, NEW j \in Keys PROVE Shown(p, j)'
  <2>1. Own(p)' = Own(p) /\ (Connected(p)' <=> Connected(p))
    BY DEF Own, Connected
  <2>2. Connected(p) => Own(p) \in Sockets
    BY OwnIs DEF ViewInv, Connected
  <2>3. Pending(j) => Pending(j)'
    BY DEF Pending, Has
  <2>4. Sent(p, j) => Sent(p, j)'
    BY <2>1, <2>2 DEF Sent, Has
  <2> QED BY <2>3, <2>4, PageStands DEF Covered
<1>4. \A s \in conns' \cup task'.left : sock[s].end # "none"
  BY <1>1 DEF SocketsInTurn
<1>5. task'.left # {} => task'.ev \in Keys
  BY <1>1 DEF SocketsInTurn
<1> QED BY <1>2, <1>3, <1>4, <1>5, ServerStep

LEMMA HeartbeatKept ==
  ASSUME ViewInv, heartbeat_loop
  PROVE  ViewInv'
<1>1. PICK D : conns' = conns \ D
  BY DEF heartbeat_loop
<1>2. UNCHANGED <<disk, phase, fs, deb, queue, task, sock, page, budget, missed>>
  BY DEF heartbeat_loop, files
<1>3. /\ conns \in SUBSET Sockets /\ sock \in [Sockets -> Endpoints]
      /\ \A s \in conns : sock[s].end # "none"
  BY DEF ViewInv, ViewTypeOK, SocketsInTurn
<1> QED BY <1>1, <1>2, <1>3, HubStep

LEMMA EndpointKept ==
  ASSUME ViewInv, NEW s \in Sockets, Add(s) \/ disconnect(s)
  PROVE  ViewInv'
<1>1. /\ conns \in SUBSET Sockets /\ sock \in [Sockets -> Endpoints]
      /\ \A t \in conns : sock[t].end # "none"
  BY DEF ViewInv, ViewTypeOK, SocketsInTurn
<1>2. PICK e \in {"added", "ended"} :
        /\ sock' = [sock EXCEPT ![s].end = e] /\ sock[s].end # "none"
        /\ conns' \subseteq conns \cup {s}
        /\ UNCHANGED <<disk, phase, fs, deb, queue, task, page, budget, missed>>
  <2>1. CASE Add(s)
    BY <2>1 DEF Add, files
  <2>2. CASE disconnect(s)
    BY <2>2 DEF disconnect, files
  <2> QED BY <2>1, <2>2
<1>3. sock[s] \in Endpoints
  BY <1>1
<1>4. sock' \in [Sockets -> Endpoints]
  BY <1>1, <1>2, <1>3 DEF Endpoints
<1>5. \A t \in Sockets : /\ sock'[t].ok = sock[t].ok /\ sock'[t].wire = sock[t].wire
                         /\ sock'[t].end = "none" <=> sock[t].end = "none"
  BY <1>1, <1>2, <1>3 DEF Endpoints
<1> QED BY <1>1, <1>2, <1>4, <1>5, HubStep

-----------------------------------------------------------------------------
(* Sockets that break.                                                     *)

LEMMA FaultSpent ==
  ASSUME ViewTypeOK, Spend("faults")
  PROVE  /\ budget' \in [changes : Nat, mounts : Nat, faults : Nat]
         /\ budget'.mounts = budget.mounts /\ budget'.faults = budget.faults - 1
<1>1. /\ budget \in [changes : Nat, mounts : Nat, faults : Nat]
      /\ budget.faults - 1 \in Nat
  BY DEF ViewTypeOK, Spend
<1>2. budget' = [budget EXCEPT !.faults = budget.faults - 1]
  BY DEF Spend
<1> QED BY <1>1, <1>2

\* A fault may cost each page its connection.
LEMMA CountedFault ==
  ASSUME ViewInv, page' = page, Spend("faults"), NEW p \in Pages
  PROVE  Counted(p)'
<1>1. ViewTypeOK /\ Counted(p)
  BY DEF ViewInv
<1>2. budget'.mounts = budget.mounts /\ budget'.faults = budget.faults - 1
  BY <1>1, FaultSpent
<1>3. Connected(p)' <=> Connected(p)
  BY DEF Connected
<1>4. PICK m \in {0, 1}, n \in {0, 1} :
        m = (IF Owed(p) THEN 1 ELSE 0) /\ n = (IF Owed(p)' THEN 1 ELSE 0)
  OBVIOUS
<1>5. page[p].socket + m <= (MaxMounts - budget.mounts) + (MaxBreaks - budget.faults)
  BY <1>1, <1>4 DEF Counted
<1>6. page[p].socket + n <= (MaxMounts - budget'.mounts) + (MaxBreaks - budget'.faults)
  BY <1>1, <1>2, <1>5, ViewBounds
<1> QED BY <1>1, <1>3, <1>4, <1>6 DEF Counted

LEMMA BrokenIs ==
  ASSUME sock \in [Sockets -> Endpoints], NEW s \in Sockets
  PROVE  Broken(s) \in Endpoints /\ ~Broken(s).ok /\ Broken(s).end = sock[s].end
<1>1. sock[s] \in Endpoints /\ <<>> \in Seq(Keys) /\ FALSE \in BOOLEAN
  OBVIOUS
<1>2. CASE sock[s].ok
  <2>1. Broken(s) = [sock[s] EXCEPT !.ok = FALSE, !.wire = <<>>]
    BY <1>2 DEF Broken
  <2> QED BY <1>1, <2>1 DEF Endpoints
<1>3. CASE ~sock[s].ok
  BY <1>1, <1>3 DEF Broken
<1> QED BY <1>2, <1>3

LEMMA BreakKept ==
  ASSUME ViewInv, NEW s \in Sockets, Break(s)
  PROVE  ViewInv'
<1>1. /\ UNCHANGED <<disk, phase, fs, deb, queue, conns, task, page, missed>>
      /\ sock' = [sock EXCEPT ![s] = Broken(s)] /\ Spend("faults")
  BY DEF Break, server, files
<1>2. ViewTypeOK /\ SocketsInTurn /\ NobodyServes /\ sock \in [Sockets -> Endpoints]
      /\ task.left \in SUBSET Sockets /\ conns \in SUBSET Sockets
  BY DEF ViewInv, ViewTypeOK, Sendings
<1>3. Broken(s) \in Endpoints /\ ~Broken(s).ok /\ Broken(s).end = sock[s].end
  BY <1>2, BrokenIs
<1>4. /\ sock' \in [Sockets -> Endpoints] /\ sock'[s] = Broken(s)
      /\ \A t \in Sockets : t # s => sock'[t] = sock[t]
      /\ \A t \in Sockets : sock'[t].end = sock[t].end /\ (sock'[t].ok => sock[t].ok)
  BY <1>1, <1>2, <1>3
<1>5. ViewTypeOK'
  BY <1>1, <1>2, <1>4, FaultSpent DEF ViewTypeOK
<1>6. SocketsInTurn'
  <2>1. \A p \in Pages, n \in 1..(MaxMounts + MaxBreaks) : <<p, n>> \in Sockets
    BY DEF Sockets
  <2> QED BY <1>1, <1>2, <1>4, <2>1 DEF SocketsInTurn
<1>7. NobodyServes'
  BY <1>1, <1>2, <1>4 DEF NobodyServes
<1>8. ASSUME NEW p \in Pages, NEW k \in Keys PROVE Shown(p, k)'
  <2>1. CASE Connected(p) /\ Own(p) = s
    <3>1. Resyncs(p)'
      <4>1. Own(p)' = s /\ Connected(p)'
        BY <1>1, <2>1 DEF Own, Connected
      <4> QED BY <1>3, <1>4, <4>1 DEF Resyncs
    <3> QED BY <3>1 DEF Shown, Covered
  <2>2. CASE ~(Connected(p) /\ Own(p) = s)
    <3>1. Connected(p) => Own(p) \in Sockets
      BY OwnIs DEF ViewInv, Connected
    <3>2. Connected(p) => sock'[Own(p)] = sock[Own(p)]
      BY <1>4, <2>2, <3>1
    <3> QED BY <1>1, <3>2, Bystander
  <2> QED BY <2>1, <2>2
<1> QED BY <1>1, <1>5, <1>6, <1>7, <1>8, CountedFault DEF ViewInv

\* When every socket is closed, the pages that had one will ask again, and those
\* that never had one are not told.
LEMMA AllBroken ==
  ASSUME ViewInv, page' = page, \A s \in Sockets : ~sock'[s].ok, Forgets,
         NEW p \in Pages, NEW k \in Keys
  PROVE  page[p].at # "away" => Resyncs(p)' \/ Missed(p, k)'
<1> SUFFICES ASSUME page[p].at # "away" PROVE Resyncs(p)' \/ Missed(p, k)'
  OBVIOUS
<1>1. page[p].at \in {"connecting", "accepted", "open"} /\ Own(p) \in Sockets /\ ViewTypeOK
  BY OwnIs DEF ViewInv, ViewTypeOK, Views
<1>2. CASE page[p].at = "connecting" /\ ~page[p].retrying
  <2>1. Keys \subseteq missed'[p]
    BY <1>1, <1>2, MissesIs DEF Forgets
  <2> QED BY <2>1 DEF Missed
<1>3. CASE page[p].retrying
  BY <1>3 DEF Resyncs
<1>4. CASE Connected(p)
  <2>1. Connected(p)' /\ Own(p)' = Own(p)
    BY <1>4 DEF Connected, Own
  <2> QED BY <1>1, <2>1 DEF Resyncs
<1> QED BY <1>1, <1>2, <1>3, <1>4 DEF Connected

LEMMA Forgotten ==
  ASSUME ViewTypeOK, page' = page, Forgets
  PROVE  /\ missed' \in [Pages -> SUBSET Keys]
         /\ \A p \in Pages : missed[p] \subseteq missed'[p]
         /\ \A p \in Pages : page'[p].at = "connecting" /\ ~page'[p].retrying
                               => Keys \subseteq missed'[p]
BY MissesIs DEF Forgets

LEMMA StopKept ==
  ASSUME ViewInv, Stop
  PROVE  ViewInv'
<1>1. /\ UNCHANGED <<disk, fs, deb, queue, conns, task, page>> /\ phase' = "stopping"
      /\ sock' = [s \in Sockets |-> Broken(s)] /\ Spend("faults") /\ Forgets
  BY DEF Stop, files
<1>2. ViewTypeOK /\ SocketsInTurn /\ sock \in [Sockets -> Endpoints]
      /\ task.left \in SUBSET Sockets /\ conns \in SUBSET Sockets
  BY DEF ViewInv, ViewTypeOK, Sendings
<1>3. /\ sock' \in [Sockets -> Endpoints]
      /\ \A s \in Sockets : ~sock'[s].ok /\ sock'[s].end = sock[s].end
  BY <1>1, <1>2, BrokenIs
<1>4. /\ missed' \in [Pages -> SUBSET Keys]
      /\ \A p \in Pages : page'[p].at = "connecting" /\ ~page'[p].retrying
                            => Keys \subseteq missed'[p]
  BY <1>1, <1>2, Forgotten
<1>5. ViewTypeOK'
  <2>1. budget' \in [changes : Nat, mounts : Nat, faults : Nat]
    BY <1>1, <1>2, FaultSpent
  <2>2. phase' \in {"up", "stopping", "down"}
    BY <1>1
  <2>3. /\ UNCHANGED <<disk, fs, deb, queue, conns, task, page>> /\ ViewTypeOK
        /\ sock' \in [Sockets -> Endpoints] /\ missed' \in [Pages -> SUBSET Keys]
    BY <1>1, <1>2, <1>3, <1>4
  <2> QED BY <2>1, <2>2, <2>3 DEF ViewTypeOK
<1>6. SocketsInTurn'
  <2>1. \A p \in Pages, n \in 1..(MaxMounts + MaxBreaks) : <<p, n>> \in Sockets
    BY DEF Sockets
  <2> QED BY <1>1, <1>2, <1>3, <2>1 DEF SocketsInTurn
<1>7. NobodyServes'
  BY <1>3, <1>4 DEF NobodyServes
<1>8. ASSUME NEW p \in Pages, NEW k \in Keys PROVE Shown(p, k)'
  BY <1>1, <1>3, AllBroken DEF Shown, Covered
<1> QED BY <1>1, <1>5, <1>6, <1>7, <1>8, CountedFault DEF ViewInv

LEMMA EndsKept ==
  ASSUME ViewInv, lifespan \/ Crash
  PROVE  ViewInv'
<1>1. /\ UNCHANGED <<disk, page>> /\ phase' = "down" /\ fs' = <<>> /\ queue' = <<>>
      /\ conns' = {} /\ deb' = [k \in Keys |-> Calm] /\ task' = Resting /\ Forgets
      /\ sock' = [s \in Sockets |-> IF sock[s].end = "none" THEN sock[s]
                                    ELSE Socket("ended", FALSE)]
  BY DEF lifespan, Crash, Ends, files
<1>2. ViewTypeOK /\ SocketsInTurn /\ NobodyServes /\ sock \in [Sockets -> Endpoints]
  BY DEF ViewInv, ViewTypeOK
<1>3. /\ sock' \in [Sockets -> Endpoints]
      /\ \A s \in Sockets : /\ ~sock'[s].ok
                            /\ sock[s].end = "none" => sock'[s].end = "none"
  <2>1. /\ Socket("ended", FALSE) \in Endpoints /\ Socket("ended", FALSE).ok = FALSE
    <3>1. <<>> \in Seq(Keys) /\ FALSE \in BOOLEAN
      OBVIOUS
    <3> QED BY <3>1 DEF Socket, Endpoints
  <2>2. \A s \in Sockets : sock[s].end = "none" => ~sock[s].ok
    BY <1>2 DEF SocketsInTurn
  <2> QED BY <1>1, <1>2, <2>1, <2>2
<1>4. /\ missed' \in [Pages -> SUBSET Keys]
      /\ \A p \in Pages : page'[p].at = "connecting" /\ ~page'[p].retrying
                            => Keys \subseteq missed'[p]
  BY <1>1, <1>2, Forgotten
<1>5. budget' \in [changes : Nat, mounts : Nat, faults : Nat]
  BY <1>2, FaultSpent DEF lifespan, Crash, ViewTypeOK
<1>6. task' \in Sendings /\ task'.left = {} /\ deb' \in [Keys -> Debounced]
  BY <1>1 DEF Resting, Sendings, Calm, Debounced
<1>7. ViewTypeOK'
  <2>1. fs' \in Seq(Events) /\ queue' \in Seq(Keys)
    BY <1>1
  <2>2. phase' \in {"up", "stopping", "down"} /\ conns' \in SUBSET Sockets
    BY <1>1
  <2>3. disk' \in [Keys -> Int] /\ page' \in [Pages -> Views]
    BY <1>1, <1>2 DEF ViewTypeOK
  <2> QED BY <1>3, <1>4, <1>5, <1>6, <2>1, <2>2, <2>3 DEF ViewTypeOK
<1>8. SocketsInTurn'
  <2>1. \A p \in Pages, n \in 1..(MaxMounts + MaxBreaks) : <<p, n>> \in Sockets
    BY DEF Sockets
  <2> QED BY <1>1, <1>2, <1>3, <1>6, <2>1 DEF SocketsInTurn
<1>9. NobodyServes'
  BY <1>3, <1>4 DEF NobodyServes
<1>10. ASSUME NEW p \in Pages, NEW k \in Keys PROVE Shown(p, k)'
  BY <1>1, <1>3, AllBroken DEF Shown, Covered
<1>11. ASSUME NEW p \in Pages PROVE Counted(p)'
  <2>1. CASE Crash
    BY <1>1, <2>1, CountedFault DEF Crash
  <2>2. CASE lifespan
    <3>1. UNCHANGED budget /\ phase = "stopping"
      BY <2>2 DEF lifespan
    <3>2. Counted(p) /\ (page[p].at # "away" => Own(p) \in Sockets)
      BY OwnIs DEF ViewInv
    <3>3. Own(p)' = Own(p) /\ (Connected(p)' <=> Connected(p))
      BY <1>1 DEF Own, Connected
    <3>4. Owed(p)' <=> Owed(p)
      BY <1>1, <1>2, <1>3, <3>1, <3>2, <3>3 DEF Owed, NobodyServes, Connected
    <3> QED BY <1>1, <3>1, <3>2, <3>3, <3>4 DEF Counted
  <2> QED BY <2>1, <2>2
<1> QED BY <1>7, <1>8, <1>9, <1>10, <1>11 DEF ViewInv

LEMMA StartKept ==
  ASSUME ViewInv, Start
  PROVE  ViewInv'
<1>1. /\ UNCHANGED <<disk, fs, deb, queue, conns, task, sock, page, budget, missed>>
      /\ phase' = "up"
  BY DEF Start, files
<1>2. ViewTypeOK /\ SocketsInTurn
  BY DEF ViewInv
<1>3. ViewTypeOK'
  BY <1>1, <1>2 DEF ViewTypeOK
<1>4. SocketsInTurn'
  BY <1>1, <1>2 DEF SocketsInTurn
<1>5. NobodyServes'
  BY <1>1 DEF NobodyServes
<1>6. ASSUME NEW p \in Pages PROVE Counted(p)'
  BY <1>1 DEF ViewInv, Counted, Owed, Connected, Own
<1>7. ASSUME NEW p \in Pages, NEW k \in Keys PROVE Shown(p, k)'
  BY <1>1, Bystander
<1> QED BY <1>3, <1>4, <1>5, <1>6, <1>7 DEF ViewInv

-----------------------------------------------------------------------------
(* Steps of a page.                                                        *)

\* Of the others a step of page p takes nothing, so that it is as good as its own
\* account of p.
LEMMA PageStep ==
  ASSUME ViewInv, NEW p \in Pages, NEW r \in Views, Becomes(p, r),
         UNCHANGED <<disk, phase, fs, deb, queue, conns, task>>,
         budget' \in [changes : Nat, mounts : Nat, faults : Nat],
         budget'.mounts <= budget.mounts, budget'.faults = budget.faults,
         sock' \in [Sockets -> Endpoints], missed' \in [Pages -> SUBSET Keys],
         \A q \in Pages : q # p => missed[q] \subseteq missed'[q],
         \A s \in Sockets : /\ s[1] # p => sock'[s] = sock[s]
                            /\ sock[s].end # "none" => sock'[s].end # "none"
                            /\ sock'[s].end = "none" => ~sock'[s].ok
                            /\ phase # "up" => ~sock'[s].ok,
         \A n \in 1..(MaxMounts + MaxBreaks) : n > r.socket => sock'[<<p, n>>].end = "none",
         phase # "up" /\ r.at = "connecting" /\ ~r.retrying => Keys \subseteq missed'[p],
         Counted(p)', \A k \in Keys : Shown(p, k)'
  PROVE  ViewInv'
<1>1. /\ ViewTypeOK /\ SocketsInTurn /\ NobodyServes /\ \A q \in Pages : Counted(q)
      /\ conns \in SUBSET Sockets /\ task.left \in SUBSET Sockets
  BY DEF ViewInv, ViewTypeOK, Sendings
<1>2. /\ page'[p] = r /\ page' \in [Pages -> Views]
      /\ \A q \in Pages : q # p => page'[q] = page[q]
  BY <1>1, PageTurns
<1>3. ViewTypeOK'
  BY <1>1, <1>2 DEF ViewTypeOK
<1>4. ASSUME NEW q \in Pages, q # p
      PROVE  /\ Own(q)' = Own(q) /\ (Connected(q)' <=> Connected(q))
             /\ page[q].at # "away" => Own(q) \in Sockets /\ sock'[Own(q)] = sock[Own(q)]
  <2>1. Own(q)' = Own(q) /\ (Connected(q)' <=> Connected(q))
    BY <1>2, <1>4, OwnStays
  <2>2. (page[q].at # "away" => Own(q) \in Sockets) /\ Own(q)[1] = q
    BY <1>1, OwnIs
  <2> QED BY <1>4, <2>1, <2>2
<1>5. SocketsInTurn'
  <2>1. task'.left # {} => task'.ev \in Keys
    BY <1>1 DEF SocketsInTurn
  <2>2. \A s \in conns' \cup task'.left : sock'[s].end # "none"
    BY <1>1 DEF SocketsInTurn
  <2>3. ASSUME NEW q \in Pages, NEW n \in 1..(MaxMounts + MaxBreaks), n > page'[q].socket
        PROVE  sock'[<<q, n>>].end = "none"
    <3>1. CASE q = p
      BY <1>2, <2>3, <3>1
    <3>2. CASE q # p
      <4>1. <<q, n>> \in Sockets /\ <<q, n>>[1] = q
        BY DEF Sockets
      <4>2. sock'[<<q, n>>] = sock[<<q, n>>] /\ n > page[q].socket
        BY <1>2, <2>3, <3>2, <4>1
      <4> QED BY <1>1, <4>2 DEF SocketsInTurn
    <3> QED BY <3>1, <3>2
  <2> QED BY <2>1, <2>2, <2>3 DEF SocketsInTurn
<1>6. NobodyServes'
  <2>1. ASSUME NEW q \in Pages, phase # "up", page'[q].at = "connecting", ~page'[q].retrying
        PROVE  Keys \subseteq missed'[q]
    BY <1>1, <1>2, <2>1 DEF NobodyServes
  <2> QED BY <2>1 DEF NobodyServes
<1>7. ASSUME NEW q \in Pages PROVE Counted(q)'
  <2>1. CASE q # p
    <3>1. (Owed(q)' <=> Owed(q)) /\ page'[q] = page[q]
      BY <1>2, <1>4, <2>1 DEF Owed, Connected
    <3>2. PICK m \in {0, 1} : m = IF Owed(q) THEN 1 ELSE 0
      OBVIOUS
    <3>3. page[q].socket + m <= (MaxMounts - budget.mounts) + (MaxBreaks - budget.faults)
      BY <1>1, <3>2 DEF Counted
    <3>4. page[q].socket + m <= (MaxMounts - budget'.mounts) + (MaxBreaks - budget'.faults)
      BY <1>1, <3>3, ViewBounds
    <3> QED BY <1>1, <1>4, <2>1, <3>1, <3>2, <3>4 DEF Counted
  <2> QED BY <2>1
<1>8. ASSUME NEW q \in Pages, NEW k \in Keys PROVE Shown(q, k)'
  <2>1. CASE q # p
    <3>1. Connected(q) => sock'[Own(q)] = sock[Own(q)]
      BY <1>4, <2>1 DEF Connected
    <3> QED BY <1>2, <2>1, <3>1, Bystander
  <2> QED BY <2>1
<1> QED BY <1>3, <1>5, <1>6, <1>7, <1>8 DEF ViewInv

\* What a page's sockets are, before they change.
LEMMA SocketsHold ==
  ASSUME ViewInv
  PROVE  /\ ViewTypeOK /\ sock \in [Sockets -> Endpoints] /\ missed \in [Pages -> SUBSET Keys]
         /\ budget \in [changes : Nat, mounts : Nat, faults : Nat]
         /\ \A s \in Sockets : /\ sock[s].end = "none" => ~sock[s].ok
                               /\ phase # "up" => ~sock[s].ok
         /\ \A p \in Pages, n \in 1..(MaxMounts + MaxBreaks) :
              n > page[p].socket => sock[<<p, n>>].end = "none"
         /\ \A p \in Pages : /\ page[p] \in Views
                             /\ phase # "up" /\ page[p].at = "connecting" /\ ~page[p].retrying
                                  => Keys \subseteq missed[p]
BY DEF ViewInv, ViewTypeOK, SocketsInTurn, NobodyServes

\* A page's own connection depends on no more than this.
LEMMA SameConnection ==
  ASSUME NEW p, page'[p].at = page[p].at, page'[p].socket = page[p].socket
  PROVE  Own(p)' = Own(p) /\ (Connected(p)' <=> Connected(p))
BY DEF Own, Connected

\* A step of a page's queries leaves its connection alone.
LEMMA QueryStep ==
  ASSUME ViewInv, NEW p \in Pages, NEW r \in Views, Becomes(p, r),
         r.at = page[p].at, r.socket = page[p].socket, r.retrying = page[p].retrying,
         UNCHANGED <<disk, phase, fs, deb, queue, conns, task, sock, budget>>,
         missed' \in [Pages -> SUBSET Keys],
         \A q \in Pages : q # p => missed[q] \subseteq missed'[q],
         phase # "up" => missed[p] \subseteq missed'[p],
         \A k \in Keys : page[p].at # "away" /\ Outdated(p, k)' =>
                           Pending(k) \/ Sent(p, k) \/ Resyncs(p) \/ Missed(p, k)'
  PROVE  ViewInv'
<1>1. page'[p] = r
  BY PageTurns DEF ViewInv
<1>2. Own(p)' = Own(p) /\ (Connected(p)' <=> Connected(p))
  BY <1>1, SameConnection
<1>3. Counted(p)'
  BY <1>1, <1>2 DEF ViewInv, Counted, Owed
<1>4. ASSUME NEW k \in Keys PROVE Shown(p, k)'
  <2>1. Pending(k) => Pending(k)'
    BY DEF Pending, Has
  <2>2. Sent(p, k) => Sent(p, k)'
    BY <1>2 DEF Sent, Has
  <2>3. Resyncs(p) => Resyncs(p)'
    BY <1>1, <1>2 DEF Resyncs
  <2> QED BY <1>1, <2>1, <2>2, <2>3 DEF Shown, Covered
<1>5. budget'.mounts <= budget.mounts
  BY SocketsHold
<1> QED BY <1>3, <1>4, <1>5, SocketsHold, PageStep

\* A query of a page replaced.
LEMMA QueryPut ==
  ASSUME NEW v \in Views, NEW k \in Keys, NEW q \in Queries, NEW r,
         r = [v EXCEPT !.query = [@ EXCEPT ![k] = q]]
  PROVE  /\ r \in Views /\ r.query[k] = q
         /\ r.at = v.at /\ r.socket = v.socket /\ r.retrying = v.retrying
         /\ \A j \in Keys : j # k => r.query[j] = v.query[j]
<1>1. v.query \in [Keys -> Queries]
  BY DEF Views
<1>2. PICK w : w = [v.query EXCEPT ![k] = q]
  OBVIOUS
<1>3. w \in [Keys -> Queries] /\ w[k] = q /\ \A j \in Keys : j # k => w[j] = v.query[j]
  BY <1>1, <1>2
<1>4. r = [v EXCEPT !.query = w]
  BY <1>2
<1>5. r \in Views
  BY <1>3, <1>4 DEF Views
<1>6. r.query = w /\ r.at = v.at /\ r.socket = v.socket /\ r.retrying = v.retrying
  BY <1>4 DEF Views
<1> QED BY <1>3, <1>5, <1>6

LEMMA AskIs ==
  ASSUME NEW q \in Queries
  PROVE  Ask(q) \in Queries /\ Ask(q).st = "asked"
<1>1. PICK n \in Int : n = NoData
  BY DEF NoData
<1>2. Ask(q) = [q EXCEPT !.st = "asked", !.got = n]
  BY <1>1 DEF Ask
<1> QED BY <1>2 DEF Queries

\* An invalidated query starts again, unless it is in its first load.
LEMMA InvalidatedIs ==
  ASSUME NEW q \in Queries
  PROVE  /\ Invalidated(q) \in Queries
         /\ \/ Invalidated(q).st = "asked"
            \/ Joins(q) /\ q.st = "read" /\ Invalidated(q) = q
<1>1. CASE Joins(q)
  <2>1. Invalidated(q) = q /\ q.st \in {"asked", "read"}
    BY <1>1 DEF Invalidated, Joins, Queries
  <2> QED BY <1>1, <2>1
<1>2. CASE ~Joins(q)
  BY <1>2, AskIs DEF Invalidated
<1> QED BY <1>1, <1>2

\* What is asked for is not out of date.
LEMMA AskedIsNotOutdated ==
  ASSUME NEW p, NEW k, page[p].query[k].st = "asked"
  PROVE  ~Outdated(p, k)
BY DEF Outdated

-----------------------------------------------------------------------------
(* The page's queries.                                                     *)

LEMMA ServeKept ==
  ASSUME ViewInv, NEW p \in Pages, NEW k \in Keys, Serve(p, k)
  PROVE  ViewInv'
<1>1. /\ page[p] \in Views /\ page[p].query \in [Keys -> Queries] /\ disk[k] \in Int
      /\ ViewTypeOK /\ missed \in [Pages -> SUBSET Keys]
  BY DEF ViewInv, ViewTypeOK, Views
<1>2. PICK q \in Queries : q = [page[p].query[k] EXCEPT !.st = "read", !.got = disk[k]]
  BY <1>1 DEF Queries
<1>3. PICK r : r = [page[p] EXCEPT !.query[k].st = "read", !.query[k].got = disk[k]]
  OBVIOUS
<1>4. r = [page[p] EXCEPT !.query = [@ EXCEPT ![k] = q]]
  BY <1>1, <1>2, <1>3 DEF Views, Queries
<1>5. /\ r \in Views /\ r.query[k] = q
      /\ r.at = page[p].at /\ r.socket = page[p].socket /\ r.retrying = page[p].retrying
      /\ \A j \in Keys : j # k => r.query[j] = page[p].query[j]
  BY <1>1, <1>4, QueryPut
<1>6. Becomes(p, r) /\ phase = "up" /\ missed' = [missed EXCEPT ![p] = @ \ {k}]
      /\ UNCHANGED <<disk, phase, fs, deb, queue, conns, task, sock, budget>>
  BY <1>3 DEF Serve, server, files
<1>7. page'[p] = r
  BY <1>1, <1>5, <1>6, PageTurns
<1>8. /\ missed' \in [Pages -> SUBSET Keys] /\ missed'[p] = missed[p] \ {k}
      /\ \A o \in Pages : o # p => missed[o] \subseteq missed'[o]
  BY <1>1, <1>6
<1>9. q.st = "read" /\ q.got = disk[k]
  BY <1>1, <1>2 DEF Queries
<1>10. ASSUME NEW j \in Keys, page[p].at # "away", Outdated(p, j)'
       PROVE  Pending(j) \/ Sent(p, j) \/ Resyncs(p) \/ Missed(p, j)'
  <2>1. j # k
    BY <1>5, <1>6, <1>7, <1>9, <1>10 DEF Outdated
  <2>2. Outdated(p, j)
    BY <1>5, <1>6, <1>7, <1>10, <2>1 DEF Outdated
  <2>3. Missed(p, j) => Missed(p, j)'
    BY <1>8, <2>1 DEF Missed
  <2> QED BY <1>10, <2>2, <2>3 DEF ViewInv, Shown, Covered
<1> QED BY <1>5, <1>6, <1>8, <1>10, QueryStep

LEMMA ShowKept ==
  ASSUME ViewInv, NEW p \in Pages, NEW k \in Keys, Show(p, k)
  PROVE  ViewInv'
<1>1. /\ page[p] \in Views /\ page[p].query[k] \in Queries /\ page[p].query[k].got \in Int
      /\ ViewTypeOK /\ missed \in [Pages -> SUBSET Keys]
  BY DEF ViewInv, ViewTypeOK, Views, Queries
<1>2. PICK q \in Queries : /\ q = [Unasked EXCEPT !.data = page[p].query[k].got]
                           /\ q.st = "idle" /\ q.data = page[p].query[k].got
  <2>1. PICK n \in Int : n = NoData
    BY DEF NoData
  <2>2. [Unasked EXCEPT !.data = page[p].query[k].got]
          = [st |-> "idle", got |-> n, data |-> page[p].query[k].got]
    BY <2>1 DEF Unasked
  <2>3. [st |-> "idle", got |-> n, data |-> page[p].query[k].got] \in Queries
    BY <1>1, <2>1 DEF Queries
  <2> QED BY <2>2, <2>3
<1>3. PICK r : r = [page[p] EXCEPT !.query = [@ EXCEPT ![k] = q]]
  OBVIOUS
<1>4. /\ r \in Views /\ r.query[k] = q
      /\ r.at = page[p].at /\ r.socket = page[p].socket /\ r.retrying = page[p].retrying
      /\ \A j \in Keys : j # k => r.query[j] = page[p].query[j]
  BY <1>1, <1>3, QueryPut
<1>5. Becomes(p, r) /\ page[p].query[k].st = "read"
      /\ UNCHANGED <<disk, phase, fs, deb, queue, conns, task, sock, budget, missed>>
  BY <1>2, <1>3 DEF Show, server, files
<1>6. page'[p] = r
  BY <1>1, <1>4, <1>5, PageTurns
<1>7. ASSUME NEW j \in Keys, page[p].at # "away", Outdated(p, j)'
      PROVE  Pending(j) \/ Sent(p, j) \/ Resyncs(p) \/ Missed(p, j)'
  <2>1. Outdated(p, j)
    <3>1. CASE j = k
      BY <1>2, <1>4, <1>5, <1>6, <1>7, <3>1 DEF Outdated
    <3>2. CASE j # k
      BY <1>4, <1>5, <1>6, <1>7, <3>2 DEF Outdated
    <3> QED BY <3>1, <3>2
  <2> QED BY <1>5, <1>7, <2>1 DEF ViewInv, Shown, Covered, Missed
<1> QED BY <1>1, <1>4, <1>5, <1>7, QueryStep

LEMMA UnservedKept ==
  ASSUME ViewInv, NEW p \in Pages, NEW k \in Keys, Unserved(p, k)
  PROVE  ViewInv'
<1>1. /\ page[p] \in Views /\ page[p].query \in [Keys -> Queries]
      /\ ViewTypeOK /\ missed \in [Pages -> SUBSET Keys]
  BY DEF ViewInv, ViewTypeOK, Views
<1>2. PICK n \in Int : n = NoData
  BY DEF NoData
<1>3. PICK q \in Queries : q = [page[p].query[k] EXCEPT !.st = "idle", !.got = n]
  BY <1>1 DEF Queries
<1>4. PICK r : r = [page[p] EXCEPT !.query[k].st = "idle", !.query[k].got = n]
  OBVIOUS
<1>5. r = [page[p] EXCEPT !.query = [@ EXCEPT ![k] = q]]
  BY <1>1, <1>3, <1>4 DEF Views, Queries
<1>6. /\ r \in Views
      /\ r.at = page[p].at /\ r.socket = page[p].socket /\ r.retrying = page[p].retrying
  BY <1>1, <1>5, QueryPut
<1>7. Becomes(p, r) /\ phase # "up"
      /\ UNCHANGED <<disk, phase, fs, deb, queue, conns, task, sock, budget, missed>>
  BY <1>2, <1>4 DEF Unserved, server, files
<1>8. ASSUME NEW j \in Keys, page[p].at # "away"
      PROVE  Resyncs(p) \/ Missed(p, j)'
  BY <1>7, <1>8, OutOfService DEF Missed
<1> QED BY <1>1, <1>6, <1>7, <1>8, QueryStep

-----------------------------------------------------------------------------
(* The page's connection.                                                  *)

LEMMA AcceptKept ==
  ASSUME ViewInv, NEW p \in Pages, Accept(p)
  PROVE  ViewInv'
<1>1. /\ page[p] \in Views /\ page[p].socket \in Nat /\ page[p].at = "connecting" /\ phase = "up"
      /\ ViewTypeOK /\ sock \in [Sockets -> Endpoints] /\ Counted(p)
      /\ UNCHANGED <<disk, phase, fs, deb, queue, conns, task, budget, missed>>
      /\ sock' = [sock EXCEPT ![Own(p)] = Socket("accepted", TRUE)]
  BY SocketsHold DEF Accept, server, files, ViewInv, Views
<1>2. ~Connected(p) /\ Own(p) = <<p, page[p].socket + 1>> /\ Own(p) \in Sockets /\ Owed(p)
  BY <1>1, OwnIs DEF Connected, Own, Owed
<1>3. PICK r \in Views : /\ r = [page[p] EXCEPT !.at = "accepted", !.socket = @ + 1]
                         /\ r.at = "accepted" /\ r.socket = page[p].socket + 1
                         /\ r.retrying = page[p].retrying /\ r.query = page[p].query
  <2>1. page[p].socket + 1 \in Nat
    BY <1>1
  <2>2. PICK r : r = [page[p] EXCEPT !.at = "accepted", !.socket = page[p].socket + 1]
    OBVIOUS
  <2>3. r \in Views
    BY <1>1, <2>1, <2>2 DEF Views
  <2> QED BY <1>1, <2>2, <2>3 DEF Views
<1>4. Becomes(p, r)
  BY <1>3 DEF Accept
<1>5. page'[p] = r
  BY <1>1, <1>4, PageTurns
<1>6. Own(p)' = Own(p) /\ Connected(p)'
  BY <1>2, <1>3, <1>5 DEF Own, Connected
<1>7. /\ sock' \in [Sockets -> Endpoints] /\ sock'[Own(p)].ok /\ sock'[Own(p)].end = "accepted"
      /\ \A s \in Sockets : s # Own(p) => sock'[s] = sock[s]
  <2>1. PICK e \in Endpoints : e = Socket("accepted", TRUE) /\ e.ok /\ e.end = "accepted"
    <3>1. <<>> \in Seq(Keys) /\ TRUE \in BOOLEAN
      OBVIOUS
    <3>2. Socket("accepted", TRUE) = [end |-> "accepted", ok |-> TRUE, wire |-> <<>>]
      BY DEF Socket
    <3>3. [end |-> "accepted", ok |-> TRUE, wire |-> <<>>] \in Endpoints
      BY <3>1 DEF Endpoints
    <3> QED BY <3>2, <3>3
  <2> QED BY <1>1, <1>2, <2>1
<1>8. Counted(p)'
  <2>1. ~Owed(p)'
    BY <1>3, <1>5, <1>6, <1>7 DEF Owed
  <2>2. page[p].socket + 1 <= (MaxMounts - budget.mounts) + (MaxBreaks - budget.faults)
    BY <1>1, <1>2 DEF Counted
  <2>3. r.socket + 0 = page[p].socket + 1 /\ r.socket >= 1
    BY <1>1, <1>3
  <2> QED BY <1>1, <1>5, <1>6, <2>1, <2>2, <2>3 DEF Counted
<1>9. ASSUME NEW k \in Keys PROVE Shown(p, k)'
  <2>1. Shown(p, k) /\ page[p].at # "away"
    BY <1>1 DEF ViewInv
  <2>2. Outdated(p, k)' <=> Outdated(p, k)
    BY <1>1, <1>3, <1>5 DEF Outdated
  <2>3. Pending(k) => Pending(k)'
    BY <1>1 DEF Pending, Has
  <2>4. Sent(p, k) => Sent(p, k)'
    BY <1>1, <1>2, <1>6 DEF Sent
  <2>5. Resyncs(p) => Resyncs(p)'
    BY <1>2, <1>3, <1>5 DEF Resyncs
  <2>6. Missed(p, k) => Missed(p, k)'
    BY <1>1 DEF Missed
  <2> QED BY <2>1, <2>2, <2>3, <2>4, <2>5, <2>6 DEF Shown, Covered
<1>10. /\ budget' \in [changes : Nat, mounts : Nat, faults : Nat]
       /\ budget'.mounts <= budget.mounts /\ budget'.faults = budget.faults
       /\ missed' \in [Pages -> SUBSET Keys] /\ missed' = missed
  BY <1>1, SocketsHold
<1>11. \A s \in Sockets : /\ s[1] # p => sock'[s] = sock[s]
                          /\ sock[s].end # "none" => sock'[s].end # "none"
                          /\ sock'[s].end = "none" => ~sock'[s].ok
                          /\ phase # "up" => ~sock'[s].ok
  <2>1. Own(p)[1] = p
    BY <1>1, OwnIs
  <2> TAKE s \in Sockets
  <2>2. CASE s = Own(p)
    BY <1>1, <1>7, <2>1, <2>2
  <2>3. CASE s # Own(p)
    <3>1. sock'[s] = sock[s]
      BY <1>7, <2>3
    <3> QED BY <3>1, SocketsHold
  <2> QED BY <2>2, <2>3
<1>12. ASSUME NEW n \in 1..(MaxMounts + MaxBreaks), n > r.socket
       PROVE  sock'[<<p, n>>].end = "none"
  <2>1. n > page[p].socket /\ n # page[p].socket + 1
    BY <1>1, <1>3, <1>12
  <2>2. <<p, n>> \in Sockets /\ <<p, n>> # Own(p)
    BY <1>2, <2>1 DEF Sockets
  <2> QED BY <1>7, <2>1, <2>2, SocketsHold
<1>13. phase # "up" /\ r.at = "connecting" /\ ~r.retrying => Keys \subseteq missed'[p]
  BY <1>1
<1> QED BY <1>1, <1>4, <1>7, <1>8, <1>9, <1>10, <1>11, <1>12, <1>13, PageStep

LEMMA OncloseKept ==
  ASSUME ViewInv, NEW p \in Pages, onclose(p)
  PROVE  ViewInv'
<1>1. /\ page[p] \in Views /\ ViewTypeOK /\ Counted(p)
      /\ UNCHANGED <<disk, phase, fs, deb, queue, conns, task, sock, budget, missed>>
  BY SocketsHold DEF onclose, server, files, ViewInv
<1>2. Owed(p) /\ page[p].at # "away"
  BY DEF onclose, Owed, Connected
<1>3. PICK r \in Views : /\ r = [page[p] EXCEPT !.at = "connecting", !.retrying = TRUE]
                         /\ r.at = "connecting" /\ r.retrying
                         /\ r.socket = page[p].socket /\ r.query = page[p].query
  <2>1. PICK r : r = [page[p] EXCEPT !.at = "connecting", !.retrying = TRUE]
    OBVIOUS
  <2>2. TRUE \in BOOLEAN
    OBVIOUS
  <2>3. r \in Views
    BY <1>1, <2>1, <2>2 DEF Views
  <2> QED BY <1>1, <2>1, <2>3 DEF Views
<1>4. Becomes(p, r)
  BY <1>3 DEF onclose
<1>5. page'[p] = r
  BY <1>1, <1>4, PageTurns
<1>6. Counted(p)'
  <2>1. page[p].socket + 1 <= (MaxMounts - budget.mounts) + (MaxBreaks - budget.faults)
    BY <1>1, <1>2 DEF Counted
  <2>2. Owed(p)' /\ ~Connected(p)'
    BY <1>3, <1>5 DEF Owed, Connected
  <2> QED BY <1>1, <1>3, <1>5, <2>1, <2>2 DEF Counted
<1>7. \A k \in Keys : Shown(p, k)'
  BY <1>3, <1>5 DEF Shown, Covered, Resyncs
<1>8. /\ budget' \in [changes : Nat, mounts : Nat, faults : Nat]
      /\ budget'.mounts <= budget.mounts /\ budget'.faults = budget.faults
      /\ sock' \in [Sockets -> Endpoints] /\ missed' \in [Pages -> SUBSET Keys]
      /\ missed' = missed /\ sock' = sock
  BY <1>1, SocketsHold
<1> QED BY <1>1, <1>3, <1>4, <1>6, <1>7, <1>8, SocketsHold, PageStep

LEMMA LeaveKept ==
  ASSUME ViewInv, NEW p \in Pages, Leave(p)
  PROVE  ViewInv'
<1>1. /\ page[p] \in Views /\ page[p].socket \in Nat /\ ViewTypeOK /\ Counted(p)
      /\ sock \in [Sockets -> Endpoints] /\ page[p].at # "away"
      /\ UNCHANGED <<disk, phase, fs, deb, queue, conns, task, budget>>
      /\ missed' = [missed EXCEPT ![p] = {}] /\ missed \in [Pages -> SUBSET Keys]
      /\ sock' = IF Connected(p) THEN [sock EXCEPT ![Own(p)] = Broken(Own(p))] ELSE sock
  BY SocketsHold DEF Leave, server, files, ViewInv, Views
<1>2. Own(p) \in Sockets /\ Own(p)[1] = p
  BY <1>1, OwnIs
<1>3. PICK r \in Views : /\ r = [page[p] EXCEPT !.at = "away", !.retrying = FALSE]
                         /\ r.at = "away" /\ r.socket = page[p].socket
  <2>1. PICK r : r = [page[p] EXCEPT !.at = "away", !.retrying = FALSE]
    OBVIOUS
  <2>2. FALSE \in BOOLEAN
    OBVIOUS
  <2>3. r \in Views
    BY <1>1, <2>1, <2>2 DEF Views
  <2> QED BY <1>1, <2>1, <2>3 DEF Views
<1>4. Becomes(p, r)
  BY <1>3 DEF Leave
<1>5. page'[p] = r
  BY <1>1, <1>4, PageTurns
<1>6. Counted(p)'
  <2>1. ~Owed(p)' /\ ~Connected(p)'
    BY <1>3, <1>5 DEF Owed, Connected
  <2>2. PICK m \in {0, 1} : m = IF Owed(p) THEN 1 ELSE 0
    OBVIOUS
  <2>3. page[p].socket + m <= (MaxMounts - budget.mounts) + (MaxBreaks - budget.faults)
    BY <1>1, <2>2 DEF Counted
  <2>4. page[p].socket + 0 <= (MaxMounts - budget.mounts) + (MaxBreaks - budget.faults)
    BY <1>1, <2>3, ViewBounds
  <2> QED BY <1>1, <1>3, <1>5, <2>1, <2>4 DEF Counted
<1>7. \A k \in Keys : Shown(p, k)'
  BY <1>3, <1>5 DEF Shown
<1>8. Broken(Own(p)) \in Endpoints /\ ~Broken(Own(p)).ok /\ Broken(Own(p)).end = sock[Own(p)].end
  BY <1>1, <1>2, BrokenIs
<1>9. /\ sock' \in [Sockets -> Endpoints]
      /\ \A s \in Sockets : /\ s[1] # p => sock'[s] = sock[s]
                            /\ sock'[s].end = sock[s].end
                            /\ sock'[s].ok => sock[s].ok
  BY <1>1, <1>2, <1>8
<1>10. /\ budget' \in [changes : Nat, mounts : Nat, faults : Nat]
       /\ budget'.mounts <= budget.mounts /\ budget'.faults = budget.faults
  BY <1>1, SocketsHold
<1>11. /\ missed' \in [Pages -> SUBSET Keys]
       /\ \A q \in Pages : q # p => missed[q] \subseteq missed'[q]
  BY <1>1
<1>12. \A s \in Sockets : /\ s[1] # p => sock'[s] = sock[s]
                          /\ sock[s].end # "none" => sock'[s].end # "none"
                          /\ sock'[s].end = "none" => ~sock'[s].ok
                          /\ phase # "up" => ~sock'[s].ok
  BY <1>9, SocketsHold
<1>13. ASSUME NEW n \in 1..(MaxMounts + MaxBreaks), n > r.socket
       PROVE  sock'[<<p, n>>].end = "none"
  <2>1. <<p, n>> \in Sockets
    BY DEF Sockets
  <2> QED BY <1>3, <1>9, <1>13, <2>1, SocketsHold
<1> QED BY <1>1, <1>3, <1>4, <1>6, <1>7, <1>9, <1>10, <1>11, <1>12, <1>13, PageStep

LEMMA MountKept ==
  ASSUME ViewInv, NEW p \in Pages, Mount(p)
  PROVE  ViewInv'
<1>1. PICK kept :
        /\ \A k \in Keys \ kept : page[p].query[k].st = "idle"
        /\ page[p].at = "away" /\ Spend("mounts")
        /\ Becomes(p, [page[p] EXCEPT
             !.at = "connecting", !.retrying = FALSE,
             !.query = [k \in Keys |-> IF k \in kept THEN @[k] ELSE Ask(@[k])]])
        /\ Misses({p}, IF phase = "up" THEN {k \in kept : Outdated(p, k)} ELSE Keys)
        /\ UNCHANGED <<disk, phase, fs, deb, queue, conns, task, sock>>
        /\ kept \subseteq Keys
  <2>1. PICK fresh \in SUBSET {k \in Keys : page[p].query[k].data # NoData} :
          LET kept == fresh \cup {k \in Keys : page[p].query[k].st # "idle"} IN
          /\ page[p].at = "away" /\ Spend("mounts")
          /\ Becomes(p, [page[p] EXCEPT
               !.at = "connecting", !.retrying = FALSE,
               !.query = [k \in Keys |-> IF k \in kept THEN @[k] ELSE Ask(@[k])]])
          /\ Misses({p}, IF phase = "up" THEN {k \in kept : Outdated(p, k)} ELSE Keys)
          /\ UNCHANGED <<disk, phase, fs, deb, queue, conns, task, sock>>
    BY DEF Mount, server, files
  <2>2. PICK kept : kept = fresh \cup {k \in Keys : page[p].query[k].st # "idle"}
    OBVIOUS
  <2> QED BY <2>1, <2>2
<1>2. /\ page[p] \in Views /\ page[p].query \in [Keys -> Queries]
      /\ ViewTypeOK /\ Counted(p)
  BY SocketsHold DEF ViewInv, Views
<1>3. PICK w : w = [k \in Keys |-> IF k \in kept THEN page[p].query[k] ELSE Ask(page[p].query[k])]
  OBVIOUS
<1>4. /\ w \in [Keys -> Queries]
      /\ \A k \in Keys : IF k \in kept THEN w[k] = page[p].query[k] ELSE w[k].st = "asked"
  <2>1. ASSUME NEW k \in Keys
        PROVE  w[k] \in Queries /\ IF k \in kept THEN w[k] = page[p].query[k] ELSE w[k].st = "asked"
    BY <1>2, <1>3, AskIs
  <2> QED BY <1>3, <2>1
<1>5. PICK r \in Views : /\ r = [page[p] EXCEPT !.at = "connecting", !.retrying = FALSE, !.query = w]
                         /\ r.at = "connecting" /\ ~r.retrying
                         /\ r.socket = page[p].socket /\ r.query = w
  <2>1. PICK r : r = [page[p] EXCEPT !.at = "connecting", !.retrying = FALSE, !.query = w]
    OBVIOUS
  <2>2. FALSE \in BOOLEAN
    OBVIOUS
  <2>3. r \in Views
    BY <1>2, <1>4, <2>1, <2>2 DEF Views
  <2> QED BY <1>2, <1>4, <2>1, <2>3 DEF Views
<1>6. Becomes(p, r)
  BY <1>1, <1>3, <1>5
<1>7. page'[p] = r
  BY <1>2, <1>6, PageTurns
<1>8. /\ budget' \in [changes : Nat, mounts : Nat, faults : Nat]
      /\ budget'.mounts = budget.mounts - 1 /\ budget'.faults = budget.faults
  <2>1. budget \in [changes : Nat, mounts : Nat, faults : Nat] /\ budget.mounts - 1 \in Nat
    BY <1>1, <1>2 DEF ViewTypeOK, Spend
  <2>2. budget' = [budget EXCEPT !.mounts = budget.mounts - 1]
    BY <1>1 DEF Spend
  <2> QED BY <2>1, <2>2
<1>9. Counted(p)'
  <2>1. ~Owed(p)
    BY <1>1 DEF Owed, Connected
  <2>2. page[p].socket + 0 <= (MaxMounts - budget.mounts) + (MaxBreaks - budget.faults)
    BY <1>2, <2>1 DEF Counted
  <2>3. page[p].socket + 1 <= (MaxMounts - budget'.mounts) + (MaxBreaks - budget'.faults)
    BY <1>2, <1>8, <2>2, ViewBounds
  <2>4. Owed(p)' /\ ~Connected(p)'
    BY <1>5, <1>7 DEF Owed, Connected
  <2> QED BY <1>5, <1>7, <2>3, <2>4 DEF Counted
\* What is kept although it is out of date is missed.
<1>10. /\ missed' \in [Pages -> SUBSET Keys]
       /\ \A q \in Pages : missed[q] \subseteq missed'[q]
       /\ \A k \in kept : phase = "up" /\ Outdated(p, k) => k \in missed'[p]
       /\ phase # "up" => Keys \subseteq missed'[p]
  <2>1. PICK K \in SUBSET Keys : /\ Misses({p}, K)
                                 /\ \A k \in kept : phase = "up" /\ Outdated(p, k) => k \in K
                                 /\ phase # "up" => Keys \subseteq K
    BY <1>1
  <2> QED BY <1>2, <2>1, MissesIs
<1>11. ASSUME NEW k \in Keys PROVE Shown(p, k)'
  <2>1. CASE k \notin kept
    <3>1. page'[p].query[k].st = "asked"
      BY <1>4, <1>5, <1>7, <2>1
    <3> QED BY <3>1 DEF Shown, Outdated
  <2>2. CASE k \in kept
    <3>1. Outdated(p, k)' <=> Outdated(p, k)
      BY <1>1, <1>4, <1>5, <1>7, <2>2 DEF Outdated
    <3> QED BY <1>10, <2>2, <3>1 DEF Shown, Covered, Missed
  <2> QED BY <2>1, <2>2
<1>12. /\ budget'.mounts <= budget.mounts
       /\ sock' \in [Sockets -> Endpoints] /\ sock' = sock
  BY <1>1, <1>2, <1>8, SocketsHold, ViewBounds
<1>13. /\ \A s \in Sockets : /\ s[1] # p => sock'[s] = sock[s]
                             /\ sock[s].end # "none" => sock'[s].end # "none"
                             /\ sock'[s].end = "none" => ~sock'[s].ok
                             /\ phase # "up" => ~sock'[s].ok
       /\ \A n \in 1..(MaxMounts + MaxBreaks) : n > r.socket => sock'[<<p, n>>].end = "none"
  BY <1>5, <1>12, SocketsHold
<1>14. UNCHANGED <<disk, phase, fs, deb, queue, conns, task>>
  BY <1>1
<1> QED BY <1>6, <1>8, <1>9, <1>10, <1>11, <1>12, <1>13, <1>14, PageStep

\* What is invalidated is asked for, or it is in its first load and missed.
LEMMA InvalidatedShown ==
  ASSUME NEW p, NEW k, page[p].query[k] \in Queries,
         page'[p].query[k] = Invalidated(page[p].query[k]),
         Joins(page[p].query[k]) /\ page[p].query[k].st = "read" => k \in missed'[p]
  PROVE  Shown(p, k)'
<1>1. CASE page'[p].query[k].st = "asked"
  BY <1>1 DEF Shown, Outdated
<1>2. CASE Joins(page[p].query[k]) /\ page[p].query[k].st = "read"
  BY <1>2 DEF Shown, Covered, Missed
<1> QED BY <1>1, <1>2, InvalidatedIs

LEMMA OnopenKept ==
  ASSUME ViewInv, NEW p \in Pages, onopen(p)
  PROVE  ViewInv'
<1>1. /\ page[p] \in Views /\ page[p].query \in [Keys -> Queries] /\ ViewTypeOK /\ Counted(p)
      /\ page[p].at = "accepted" /\ sock[Own(p)].ok
      /\ UNCHANGED <<disk, phase, fs, deb, queue, conns, task, sock, budget>>
  BY SocketsHold DEF onopen, server, files, ViewInv, Views
<1>2. PICK w : w = IF page[p].retrying THEN [k \in Keys |-> Invalidated(page[p].query[k])]
                   ELSE page[p].query
  OBVIOUS
<1>3. /\ w \in [Keys -> Queries]
      /\ \A k \in Keys : IF page[p].retrying THEN w[k] = Invalidated(page[p].query[k])
                         ELSE w[k] = page[p].query[k]
  <2>1. \A k \in Keys : Invalidated(page[p].query[k]) \in Queries
    BY <1>1, InvalidatedIs
  <2>2. CASE page[p].retrying
    BY <1>2, <2>1, <2>2
  <2>3. CASE ~page[p].retrying
    BY <1>1, <1>2, <2>3
  <2> QED BY <2>2, <2>3
<1>4. PICK r \in Views : /\ r = [page[p] EXCEPT !.at = "open", !.retrying = FALSE, !.query = w]
                         /\ r.at = "open" /\ ~r.retrying
                         /\ r.socket = page[p].socket /\ r.query = w
  <2>1. PICK r : r = [page[p] EXCEPT !.at = "open", !.retrying = FALSE, !.query = w]
    OBVIOUS
  <2>2. FALSE \in BOOLEAN
    OBVIOUS
  <2>3. r \in Views
    BY <1>1, <1>3, <2>1, <2>2 DEF Views
  <2> QED BY <1>1, <1>3, <2>1, <2>3 DEF Views
<1>5. Becomes(p, r)
  BY <1>2, <1>4 DEF onopen, wasReconnect
<1>6. page'[p] = r
  BY <1>1, <1>5, PageTurns
<1>7. Connected(p) /\ Connected(p)' /\ Own(p)' = Own(p)
  BY <1>1, <1>4, <1>6 DEF Connected, Own
<1>8. Counted(p)'
  BY <1>1, <1>4, <1>6, <1>7 DEF Counted, Owed
<1>9. /\ missed' \in [Pages -> SUBSET Keys]
      /\ \A q \in Pages : missed[q] \subseteq missed'[q]
      /\ page[p].retrying => FirstLoads(p, Keys) \subseteq missed'[p]
  <2>1. PICK K \in SUBSET Keys : /\ Misses({p}, K)
                                 /\ page[p].retrying => K = FirstLoads(p, Keys)
    BY DEF onopen, wasReconnect, FirstLoads
  <2> QED BY <1>1, <2>1, MissesIs
<1>10. ASSUME NEW k \in Keys PROVE Shown(p, k)'
  <2>1. CASE page[p].retrying
    <3>1. /\ page[p].query[k] \in Queries
          /\ page'[p].query[k] = Invalidated(page[p].query[k])
      BY <1>1, <1>3, <1>4, <1>6, <2>1
    <3>2. Joins(page[p].query[k]) /\ page[p].query[k].st = "read" => k \in missed'[p]
      BY <1>9, <2>1 DEF FirstLoads
    <3> QED BY <3>1, <3>2, InvalidatedShown
  <2>2. CASE ~page[p].retrying
    <3>1. Shown(p, k) /\ (Outdated(p, k)' <=> Outdated(p, k))
      BY <1>1, <1>3, <1>4, <1>6, <2>2 DEF ViewInv, Outdated
    <3>2. ~Resyncs(p)
      BY <1>1, <2>2 DEF Resyncs
    <3>3. Pending(k) => Pending(k)'
      BY <1>1 DEF Pending, Has
    <3>4. Sent(p, k) => Sent(p, k)'
      BY <1>1, <1>7 DEF Sent, Has
    <3>5. Missed(p, k) => Missed(p, k)'
      BY <1>9 DEF Missed
    <3> QED BY <1>1, <3>1, <3>2, <3>3, <3>4, <3>5 DEF Shown, Covered
  <2> QED BY <2>1, <2>2
<1>11. /\ budget' \in [changes : Nat, mounts : Nat, faults : Nat]
       /\ budget'.mounts <= budget.mounts /\ budget'.faults = budget.faults
       /\ sock' \in [Sockets -> Endpoints] /\ sock' = sock
  BY <1>1, SocketsHold
<1> QED BY <1>1, <1>4, <1>5, <1>8, <1>9, <1>10, <1>11, SocketsHold, PageStep

LEMMA OnmessageKept ==
  ASSUME ViewInv, NEW p \in Pages, onmessage(p)
  PROVE  ViewInv'
<1>1. /\ page[p] \in Views /\ page[p].query \in [Keys -> Queries] /\ ViewTypeOK /\ Counted(p)
      /\ sock \in [Sockets -> Endpoints] /\ page[p].at = "open" /\ sock[Own(p)].wire # <<>>
      /\ UNCHANGED <<disk, phase, fs, deb, queue, conns, task, budget>>
      /\ sock' = [sock EXCEPT ![Own(p)].wire = Tail(@)]
  BY SocketsHold DEF onmessage, server, files, ViewInv, Views
<1>2. Connected(p) /\ Own(p) \in Sockets /\ Own(p)[1] = p
  BY <1>1, OwnIs DEF Connected
<1>3. sock[Own(p)] \in Endpoints /\ sock[Own(p)].wire \in Seq(Keys)
  BY <1>1, <1>2 DEF Endpoints
<1>4. PICK k \in Keys, l \in Seq(Keys) :
        /\ k = Head(sock[Own(p)].wire) /\ l = Tail(sock[Own(p)].wire)
        /\ \A j : Has(sock[Own(p)].wire, j) => j = k \/ Has(l, j)
  BY <1>1, <1>3, HasTail
<1>5. PICK q \in Queries : q = Invalidated(page[p].query[k])
  BY <1>1, InvalidatedIs
<1>6. PICK r : r = [page[p] EXCEPT !.query = [@ EXCEPT ![k] = q]]
  OBVIOUS
<1>7. /\ r \in Views /\ r.query[k] = q
      /\ r.at = page[p].at /\ r.socket = page[p].socket /\ r.retrying = page[p].retrying
      /\ \A j \in Keys : j # k => r.query[j] = page[p].query[j]
  BY <1>1, <1>6, QueryPut
<1>8. Becomes(p, r) /\ Misses({p}, FirstLoads(p, {k}))
  BY <1>4, <1>5, <1>6 DEF onmessage
<1>9. page'[p] = r /\ Own(p)' = Own(p) /\ Connected(p)'
  BY <1>1, <1>2, <1>7, <1>8, PageTurns, SameConnection
<1>10. /\ missed' \in [Pages -> SUBSET Keys] /\ FirstLoads(p, {k}) \subseteq missed'[p]
       /\ \A o \in Pages : missed[o] \subseteq missed'[o]
  <2>1. PICK K \in SUBSET Keys : K = FirstLoads(p, {k})
    BY DEF FirstLoads
  <2>2. Misses({p}, K)
    BY <1>8, <2>1
  <2>3. /\ missed' \in [Pages -> SUBSET Keys] /\ K \subseteq missed'[p]
        /\ \A o \in Pages : missed[o] \subseteq missed'[o]
    BY <1>1, <2>2, MissesIs
  <2> QED BY <2>1, <2>3
<1>11. /\ sock' \in [Sockets -> Endpoints]
       /\ \A s \in Sockets : /\ s[1] # p => sock'[s] = sock[s]
                             /\ sock'[s].end = sock[s].end
                             /\ sock'[s].ok = sock[s].ok
       /\ sock'[Own(p)].wire = l
  <2>1. PICK e \in Endpoints : /\ e = [sock[Own(p)] EXCEPT !.wire = l]
                               /\ e.end = sock[Own(p)].end /\ e.ok = sock[Own(p)].ok /\ e.wire = l
    <3>1. PICK e : e = [sock[Own(p)] EXCEPT !.wire = l]
      OBVIOUS
    <3>2. e \in Endpoints
      BY <1>3, <3>1 DEF Endpoints
    <3> QED BY <1>3, <3>1, <3>2 DEF Endpoints
  <2>2. sock' = [sock EXCEPT ![Own(p)] = e]
    BY <1>1, <1>4, <2>1
  <2> QED BY <1>1, <1>2, <2>1, <2>2
<1>12. Counted(p)'
  BY <1>1, <1>2, <1>7, <1>9, <1>11 DEF Counted, Owed
<1>13. ASSUME NEW j \in Keys PROVE Shown(p, j)'
  <2>1. CASE j = k
    BY <1>1, <1>5, <1>7, <1>9, <1>10, <2>1, InvalidatedShown DEF FirstLoads
  <2>2. CASE j # k
    <3>1. Shown(p, j) /\ (Outdated(p, j)' <=> Outdated(p, j))
      BY <1>1, <1>7, <1>9, <2>2 DEF ViewInv, Outdated
    <3>2. Pending(j) => Pending(j)'
      BY <1>1 DEF Pending, Has
    <3>3. Sent(p, j) => Sent(p, j)'
      <4>1. task.ev = j /\ Own(p) \in task.left => Sent(p, j)'
        BY <1>1, <1>9 DEF Sent
      <4>2. Has(sock[Own(p)].wire, j) => Has(sock'[Own(p)].wire, j)
        BY <1>4, <1>11, <2>2
      <4>3. Has(sock'[Own(p)].wire, j) => Sent(p, j)'
        BY <1>9 DEF Sent, Has
      <4> QED BY <4>1, <4>2, <4>3 DEF Sent
    <3>4. Resyncs(p) => Resyncs(p)'
      BY <1>2, <1>7, <1>9, <1>11 DEF Resyncs
    <3>5. Missed(p, j) => Missed(p, j)'
      BY <1>10 DEF Missed
    <3> QED BY <1>1, <3>1, <3>2, <3>3, <3>4, <3>5 DEF Shown, Covered
  <2> QED BY <2>1, <2>2
<1>14. /\ budget' \in [changes : Nat, mounts : Nat, faults : Nat]
       /\ budget'.mounts <= budget.mounts /\ budget'.faults = budget.faults
  BY <1>1, SocketsHold
<1>15. \A s \in Sockets : /\ s[1] # p => sock'[s] = sock[s]
                          /\ sock[s].end # "none" => sock'[s].end # "none"
                          /\ sock'[s].end = "none" => ~sock'[s].ok
                          /\ phase # "up" => ~sock'[s].ok
  BY <1>11, SocketsHold
<1>16. ASSUME NEW n \in 1..(MaxMounts + MaxBreaks), n > r.socket
       PROVE  sock'[<<p, n>>].end = "none"
  <2>1. <<p, n>> \in Sockets
    BY DEF Sockets
  <2> QED BY <1>7, <1>11, <1>16, <2>1, SocketsHold
<1> QED BY <1>1, <1>7, <1>8, <1>10, <1>11, <1>12, <1>13, <1>14, <1>15, <1>16, PageStep

LEMMA ViewInitOK == ViewInit => ViewInv
<1> SUFFICES ASSUME ViewInit PROVE ViewInv
  OBVIOUS
<1>1. /\ disk = [k \in Keys |-> 0] /\ phase = "up" /\ fs = <<>> /\ queue = <<>> /\ conns = {}
      /\ deb = [k \in Keys |-> Calm] /\ task = Resting
      /\ sock = [s \in Sockets |-> Socket("none", FALSE)]
      /\ page = [p \in Pages |-> [at |-> "away", socket |-> 0, retrying |-> FALSE,
                                  query |-> [k \in Keys |-> Unasked]]]
      /\ budget = [changes |-> MaxChanges, mounts |-> MaxMounts, faults |-> MaxBreaks]
      /\ missed = [p \in Pages |-> {}]
  BY DEF ViewInit
<1>2. ViewTypeOK
  <2>1. disk \in [Keys -> Int] /\ phase \in {"up", "stopping", "down"}
    BY <1>1
  <2>2. fs \in Seq(Events) /\ queue \in Seq(Keys)
    BY <1>1
  <2>3. conns \in SUBSET Sockets /\ missed \in [Pages -> SUBSET Keys]
    BY <1>1
  <2>4. deb \in [Keys -> Debounced] /\ task \in Sendings
    BY <1>1 DEF Calm, Debounced, Resting, Sendings
  <2>5. sock \in [Sockets -> Endpoints]
    <3>1. <<>> \in Seq(Keys) /\ FALSE \in BOOLEAN
      OBVIOUS
    <3>2. [end |-> "none", ok |-> FALSE, wire |-> <<>>] \in Endpoints
      BY <3>1 DEF Endpoints
    <3> QED BY <1>1, <3>2 DEF Socket
  <2>6. page \in [Pages -> Views]
    <3>1. PICK n \in Int : n = NoData
      BY DEF NoData
    <3>2. [st |-> "idle", got |-> n, data |-> n] \in Queries
      BY DEF Queries
    <3>3. PICK w \in [Keys -> Queries] : w = [k \in Keys |-> Unasked]
      BY <3>1, <3>2 DEF Unasked
    <3>4. 0 \in Nat /\ FALSE \in BOOLEAN
      OBVIOUS
    <3>5. [at |-> "away", socket |-> 0, retrying |-> FALSE, query |-> w] \in Views
      BY <3>4 DEF Views
    <3> QED BY <1>1, <3>3, <3>5
  <2>7. budget \in [changes : Nat, mounts : Nat, faults : Nat]
    BY <1>1, LiveViewAssumption
  <2> QED BY <2>1, <2>2, <2>3, <2>4, <2>5, <2>6, <2>7 DEF ViewTypeOK
<1>3. \A s \in Sockets : sock[s].end = "none" /\ ~sock[s].ok
  BY <1>1 DEF Socket
<1>4. \A p \in Pages : page[p].at = "away" /\ page[p].socket = 0
  BY <1>1
<1>5. SocketsInTurn
  <2>1. conns = {} /\ task.left = {}
    BY <1>1 DEF Resting
  <2>2. \A p \in Pages, n \in 1..(MaxMounts + MaxBreaks) : <<p, n>> \in Sockets
    BY DEF Sockets
  <2> QED BY <1>3, <2>1, <2>2 DEF SocketsInTurn
<1>6. NobodyServes
  BY <1>1 DEF NobodyServes
<1>7. ASSUME NEW p \in Pages PROVE Counted(p)
  <2>1. ~Owed(p) /\ ~Connected(p)
    BY <1>4 DEF Owed, Connected
  <2>2. 0 + 0 <= (MaxMounts - budget.mounts) + (MaxBreaks - budget.faults)
    BY <1>1, LiveViewAssumption
  <2> QED BY <1>4, <2>1, <2>2 DEF Counted
<1>8. \A p \in Pages, k \in Keys : Shown(p, k)
  BY <1>4 DEF Shown
<1> QED BY <1>2, <1>5, <1>6, <1>7, <1>8 DEF ViewInv

LEMMA ViewStepOK == ViewInv /\ [ViewNext]_viewVars => ViewInv'
<1> SUFFICES ASSUME ViewInv, [ViewNext]_viewVars PROVE ViewInv'
  OBVIOUS
<1>1. CASE Server
  <2>1. CASE \E p \in Pages : Accept(p)
    BY <2>1, AcceptKept
  <2>2. CASE \E k \in Keys : _fire(k)
    BY <2>2, FireKept
  <2>3. CASE \E s \in Sockets : Add(s) \/ disconnect(s)
    BY <2>3, EndpointKept
  <2>4. CASE Handle \/ broadcast_events \/ Send \/ lifespan
    BY <2>4, HandleKept, BroadcastKept, SendKept, EndsKept
  <2> QED BY <1>1, <2>1, <2>2, <2>3, <2>4 DEF Server
<1>2. CASE Client
  <2>1. PICK p \in Pages :
          \/ onopen(p) \/ onmessage(p) \/ onclose(p)
          \/ \E k \in Keys : Serve(p, k) \/ Show(p, k) \/ Unserved(p, k)
    BY <1>2 DEF Client
  <2>2. CASE onopen(p) \/ onmessage(p) \/ onclose(p)
    BY <2>2, OnopenKept, OnmessageKept, OncloseKept
  <2>3. CASE \E k \in Keys : Serve(p, k) \/ Show(p, k) \/ Unserved(p, k)
    BY <2>3, ServeKept, ShowKept, UnservedKept
  <2> QED BY <2>1, <2>2, <2>3
<1>3. CASE World
  <2>1. CASE heartbeat_loop \/ Stop \/ Crash \/ Start
    BY <2>1, HeartbeatKept, StopKept, EndsKept, StartKept
  <2>2. CASE \E k \in Keys : Change(k)
    BY <2>2, ChangeKept
  <2>3. CASE \E s \in Sockets : Break(s)
    BY <2>3, BreakKept
  <2>4. CASE \E p \in Pages : Mount(p) \/ Leave(p)
    BY <2>4, MountKept, LeaveKept
  <2> QED BY <1>3, <2>1, <2>2, <2>3, <2>4 DEF World
<1>4. CASE UNCHANGED viewVars
  <2>1. UNCHANGED <<disk, phase, fs, deb, queue, conns, task, sock, page, budget, missed>>
    BY <1>4 DEF viewVars, files, server
  <2>2. ViewTypeOK' /\ SocketsInTurn' /\ NobodyServes'
    BY <2>1 DEF ViewInv, ViewTypeOK, SocketsInTurn, NobodyServes
  <2>3. \A p \in Pages : Counted(p)'
    BY <2>1 DEF ViewInv, Counted, Owed, Connected, Own
  <2>4. \A p \in Pages, k \in Keys : Shown(p, k)'
    BY <2>1, Bystander
  <2> QED BY <2>2, <2>3, <2>4 DEF ViewInv
<1> QED BY <1>1, <1>2, <1>3, <1>4 DEF ViewNext

\* What the server and the pages rely on of each other holds throughout, whatever
\* is changed, broken, stopped or left in between.
THEOREM LiveViewInvariant == ViewSpec => []ViewInv
<1> QED BY ViewInitOK, ViewStepOK, PTL DEF ViewSpec

\* A change an open page does not show is on its way to it, from the observer's
\* queue to the socket, or the page will ask again, or has missed it for one of the
\* known reasons.
THEOREM StaleViewsAreCovered == ViewSpec => []StaleIsOnItsWay
<1>1. ViewInv => StaleIsOnItsWay
  BY DEF ViewInv, Shown, Covered, StaleIsOnItsWay
<1> QED BY <1>1, LiveViewInvariant, PTL
===============================================================================
