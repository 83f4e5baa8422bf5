---------------------- MODULE TransitionExecutorProofs ----------------------
(***************************************************************************)
(* Proofs about TransitionExecutor for every set of callers, statuses and  *)
(* routes, and every bound.  What makes them go through is LockInv: a      *)
(* process is between taking and freeing the transition lock exactly when  *)
(* it is the holder, so the object it loaded is the file (SnapInv) until   *)
(* it lets go, and the status it moves from is the one the file has.       *)
(***************************************************************************)
EXTENDS TransitionExecutor, TLAPS, FiniteSetTheorems

\* Exactly the holder of the lock is inside the critical section.
LockInv == \A c \in Callers : pc[c] \in Inside <=> holder = c

\* Once it is loaded, the object of the lock's holder equals the file.
SnapInv == \A c \in Callers : pc[c] \in Inside \ {"locked"} => snap[c] = session

\* A process in a call has a declared target.
TargetInv ==
  \A c \in Callers : pc[c] \notin {"idle", "dead"} => target[c] \in Statuses

\* A process past the gate follows a declared route.
RouteInv ==
  \A c \in Callers : pc[c] \in {"effects", "script"} => Route(c) \in Routes

\* The inductive invariant behind TypeOK and MovesFormOneChain.
SafeInv == TypeOK /\ LockInv /\ SnapInv /\ TargetInv /\ RouteInv

-----------------------------------------------------------------------------
(* The operators the gate is built from *)

\* A visit count is a natural number: the log is finite.
LEMMA VisitsType ==
  ASSUME log \in Seq(Event), NEW s
  PROVE  Visits(s) \in Nat
<1> DEFINE S == {i \in DOMAIN log : log[i].kind = "completed" /\ log[i].to = s}
<1>1. Len(log) \in Nat /\ DOMAIN log = 1..Len(log)
  OBVIOUS
<1>2. IsFiniteSet(1..Len(log))
  BY <1>1, FS_Interval
<1>3. S \subseteq 1..Len(log)
  BY <1>1
<1>4. IsFiniteSet(S)
  BY <1>2, <1>3, FS_Subset
<1> QED
  BY <1>4, FS_CardinalityType DEF Visits

\* What a transition along a declared route writes is an instance file with the
\* target's status and a positive visit number.
LEMMA FlippedType ==
  ASSUME TypeOK, NEW c \in Callers, snap[c] \in Session, target[c] \in Statuses
  PROVE  /\ Flipped(c) \in Session
         /\ Flipped(c).status = target[c]
         /\ Flipped(c).visit.n \in Nat \ {0}
<1>1. Visits(target[c]) \in Nat
  BY VisitsType DEF TypeOK
<1> QED
  BY <1>1 DEF Flipped, Session

\* The events the executor and prompt-check append are events.
LEMMA EmitType ==
  ASSUME log \in Seq(Event), NEW kind \in {"completed", "invoked"},
         NEW to \in Statuses, NEW n \in Nat, NEW id \in Nat, Emit(kind, to, n, id)
  PROVE  log' \in Seq(Event)
<1>1. [kind |-> kind, to |-> to, n |-> n, move |-> id] \in Event
  BY DEF Event
<1> QED
  BY <1>1 DEF Emit

\* A save writes an instance file and one more typed move.
LEMMA SaveFlipType ==
  ASSUME TypeOK, SnapInv, TargetInv, NEW c \in Callers, SaveFlip(c)
  PROVE  /\ session' = Flipped(c) /\ Flipped(c) \in Session
         /\ move' \in [Callers -> Nat]
         /\ moves' \in Seq(Saved)
<1>1. snap[c] \in Session /\ target[c] \in Statuses
  BY DEF TypeOK, SnapInv, TargetInv, SaveFlip, Inside
<1>2. Flipped(c) \in Session /\ Flipped(c).visit.n \in Nat \ {0}
  BY <1>1, FlippedType
<1>3. [from |-> snap[c].status, to |-> target[c], n |-> Flipped(c).visit.n]
        \in Saved
  BY <1>1, <1>2 DEF Session, Saved
<1> QED
  BY <1>2, <1>3 DEF SaveFlip, TypeOK

-----------------------------------------------------------------------------
(* Preservation, one conjunct of SafeInv after the other *)

\* LockInv: the lock is exclusive, and every way out of it lets go.
LEMMA LockStep ==
  ASSUME TypeOK, LockInv, [Next]_vars
  PROVE  LockInv'
<1> USE CallersAssumption DEF TypeOK, LockInv, Inside, GoTo, Leave, Return
<1>1. CASE UNCHANGED vars
  BY <1>1 DEF vars, diskVars, procVars, histVars
<1>2. ASSUME NEW c \in Callers, NEW t \in Targets, NEW flag \in ResetFlags,
             Request(c, t, flag)
      PROVE  LockInv'
  BY <1>2 DEF Request, diskVars
<1>3. ASSUME NEW c \in Callers, Progress(c)
      PROVE  LockInv'
  <2>1. CASE LogRequested(c)
    BY <2>1 DEF LogRequested
  <2>2. CASE Acquire(c)
    BY <2>2 DEF Acquire
  <2>3. CASE AcquireTimesOut(c)
    BY <2>3 DEF AcquireTimesOut
  <2>4. CASE Load(c)
    BY <2>4 DEF Load
  <2>5. CASE GatePasses(c)
    BY <2>5 DEF GatePasses
  <2>6. CASE GateRefuses(c)
    BY <2>6 DEF GateRefuses
  <2>7. CASE RunScript(c)
    BY <2>7 DEF RunScript
  <2>8. CASE ScriptSucceeds(c)
    BY <2>8 DEF ScriptSucceeds
  <2>9. CASE ScriptFails(c)
    BY <2>9 DEF ScriptFails
  <2>10. CASE Commit(c)
    BY <2>10 DEF Commit, SaveFlip
  <2>11. CASE Hooks(c)
    BY <2>11 DEF Hooks
  <2>12. CASE Report(c)
    BY <2>12 DEF Report
  <2>13. CASE Refuse(c)
    BY <2>13 DEF Refuse
  <2>14. CASE LogTimeout(c)
    BY <2>14 DEF LogTimeout
  <2> QED
    BY <1>3, <2>1, <2>2, <2>3, <2>4, <2>5, <2>6, <2>7, <2>8, <2>9, <2>10, <2>11, <2>12, <2>13, <2>14 DEF Progress
<1>4. ASSUME NEW c \in Callers, Fault(c)
      PROVE  LockInv'
  <2>1. CASE LogRequestedFails(c)
    BY <2>1 DEF LogRequestedFails
  <2>2. CASE Raises(c)
    BY <2>2 DEF Raises
  <2>3. CASE CommitRaises(c)
    BY <2>3 DEF CommitRaises, SaveFlip
  <2>4. CASE InnerEmitTimesOut(c)
    BY <2>4 DEF InnerEmitTimesOut
  <2>5. CASE LogTimeoutFails(c)
    BY <2>5 DEF LogTimeoutFails
  <2>6. CASE Crash(c)
    BY <2>6 DEF Crash
  <2> QED
    BY <1>4, <2>1, <2>2, <2>3, <2>4, <2>5, <2>6 DEF Fault
<1>5. CASE OrphanExits
  BY <1>5 DEF OrphanExits, procVars
<1>6. ASSUME NEW t \in Targets, InvokeCheck(t)
      PROVE  LockInv'
  BY <1>6 DEF InvokeCheck, procVars
<1>7. CASE AckPrompts
  BY <1>7 DEF AckPrompts, procVars
<1> QED
  BY <1>1, <1>2, <1>3, <1>4, <1>5, <1>6, <1>7 DEF Next

\* SnapInv: only the holder of the lock writes the file, and what it writes it
\* keeps as its own object.
LEMMA SnapStep ==
  ASSUME TypeOK, LockInv, SnapInv, [Next]_vars
  PROVE  SnapInv'
<1> USE CallersAssumption
    DEF TypeOK, LockInv, SnapInv, Inside, GoTo, Leave, Return, diskVars
<1>1. CASE UNCHANGED vars
  BY <1>1 DEF vars, diskVars, procVars, histVars
<1>2. ASSUME NEW c \in Callers, NEW t \in Targets, NEW flag \in ResetFlags,
             Request(c, t, flag)
      PROVE  SnapInv'
  BY <1>2 DEF Request, diskVars
<1>3. ASSUME NEW c \in Callers, Progress(c)
      PROVE  SnapInv'
  <2>1. CASE LogRequested(c)
    BY <2>1 DEF LogRequested
  <2>2. CASE Acquire(c)
    BY <2>2 DEF Acquire
  <2>3. CASE AcquireTimesOut(c)
    BY <2>3 DEF AcquireTimesOut
  <2>4. CASE Load(c)
    BY <2>4 DEF Load
  <2>5. CASE GatePasses(c)
    BY <2>5 DEF GatePasses
  <2>6. CASE GateRefuses(c)
    BY <2>6 DEF GateRefuses
  <2>7. CASE RunScript(c)
    BY <2>7 DEF RunScript
  <2>8. CASE ScriptSucceeds(c)
    BY <2>8 DEF ScriptSucceeds
  <2>9. CASE ScriptFails(c)
    BY <2>9 DEF ScriptFails
  <2>10. CASE Commit(c)
    BY <2>10 DEF Commit, SaveFlip
  <2>11. CASE Hooks(c)
    BY <2>11 DEF Hooks
  <2>12. CASE Report(c)
    BY <2>12 DEF Report
  <2>13. CASE Refuse(c)
    BY <2>13 DEF Refuse
  <2>14. CASE LogTimeout(c)
    BY <2>14 DEF LogTimeout
  <2> QED
    BY <1>3, <2>1, <2>2, <2>3, <2>4, <2>5, <2>6, <2>7, <2>8, <2>9, <2>10, <2>11, <2>12, <2>13, <2>14 DEF Progress
<1>4. ASSUME NEW c \in Callers, Fault(c)
      PROVE  SnapInv'
  <2>1. CASE LogRequestedFails(c)
    BY <2>1 DEF LogRequestedFails
  <2>2. CASE Raises(c)
    BY <2>2 DEF Raises
  <2>3. CASE CommitRaises(c)
    BY <2>3 DEF CommitRaises, SaveFlip
  <2>4. CASE InnerEmitTimesOut(c)
    BY <2>4 DEF InnerEmitTimesOut
  <2>5. CASE LogTimeoutFails(c)
    BY <2>5 DEF LogTimeoutFails
  <2>6. CASE Crash(c)
    BY <2>6 DEF Crash
  <2> QED
    BY <1>4, <2>1, <2>2, <2>3, <2>4, <2>5, <2>6 DEF Fault
<1>5. CASE OrphanExits
  BY <1>5 DEF OrphanExits, procVars, diskVars
<1>6. ASSUME NEW t \in Targets, InvokeCheck(t)
      PROVE  SnapInv'
  BY <1>6 DEF InvokeCheck, procVars
<1>7. CASE AckPrompts
  BY <1>7 DEF AckPrompts, procVars
<1> QED
  BY <1>1, <1>2, <1>3, <1>4, <1>5, <1>6, <1>7 DEF Next

\* TargetInv: the target is set on entry and kept until the call ends.
LEMMA TargetStep ==
  ASSUME TypeOK, TargetInv, [Next]_vars
  PROVE  TargetInv'
<1> USE RoutesAssumption DEF TypeOK, TargetInv, Inside, GoTo, Leave, Return
<1>1. CASE UNCHANGED vars
  BY <1>1 DEF vars, diskVars, procVars, histVars
<1>2. ASSUME NEW c \in Callers, NEW t \in Targets, NEW flag \in ResetFlags,
             Request(c, t, flag)
      PROVE  TargetInv'
  BY <1>2 DEF Request, diskVars
<1>3. ASSUME NEW c \in Callers, Progress(c)
      PROVE  TargetInv'
  <2>1. CASE LogRequested(c)
    BY <2>1 DEF LogRequested
  <2>2. CASE Acquire(c)
    BY <2>2 DEF Acquire
  <2>3. CASE AcquireTimesOut(c)
    BY <2>3 DEF AcquireTimesOut
  <2>4. CASE Load(c)
    BY <2>4 DEF Load
  <2>5. CASE GatePasses(c)
    BY <2>5 DEF GatePasses
  <2>6. CASE GateRefuses(c)
    BY <2>6 DEF GateRefuses
  <2>7. CASE RunScript(c)
    BY <2>7 DEF RunScript
  <2>8. CASE ScriptSucceeds(c)
    BY <2>8 DEF ScriptSucceeds
  <2>9. CASE ScriptFails(c)
    BY <2>9 DEF ScriptFails
  <2>10. CASE Commit(c)
    BY <2>10 DEF Commit, SaveFlip
  <2>11. CASE Hooks(c)
    BY <2>11 DEF Hooks
  <2>12. CASE Report(c)
    BY <2>12 DEF Report
  <2>13. CASE Refuse(c)
    BY <2>13 DEF Refuse
  <2>14. CASE LogTimeout(c)
    BY <2>14 DEF LogTimeout
  <2> QED
    BY <1>3, <2>1, <2>2, <2>3, <2>4, <2>5, <2>6, <2>7, <2>8, <2>9, <2>10, <2>11, <2>12, <2>13, <2>14 DEF Progress
<1>4. ASSUME NEW c \in Callers, Fault(c)
      PROVE  TargetInv'
  <2>1. CASE LogRequestedFails(c)
    BY <2>1 DEF LogRequestedFails
  <2>2. CASE Raises(c)
    BY <2>2 DEF Raises
  <2>3. CASE CommitRaises(c)
    BY <2>3 DEF CommitRaises, SaveFlip
  <2>4. CASE InnerEmitTimesOut(c)
    BY <2>4 DEF InnerEmitTimesOut
  <2>5. CASE LogTimeoutFails(c)
    BY <2>5 DEF LogTimeoutFails
  <2>6. CASE Crash(c)
    BY <2>6 DEF Crash
  <2> QED
    BY <1>4, <2>1, <2>2, <2>3, <2>4, <2>5, <2>6 DEF Fault
<1>5. CASE OrphanExits
  BY <1>5 DEF OrphanExits, procVars, diskVars
<1>6. ASSUME NEW t \in Targets, InvokeCheck(t)
      PROVE  TargetInv'
  BY <1>6 DEF InvokeCheck, procVars
<1>7. CASE AckPrompts
  BY <1>7 DEF AckPrompts, procVars
<1> QED
  BY <1>1, <1>2, <1>3, <1>4, <1>5, <1>6, <1>7 DEF Next

\* RouteInv: the gate lets declared routes pass only, and the object and the
\* target that make the route do not change while scripts run.
LEMMA RouteStep ==
  ASSUME TypeOK, RouteInv, [Next]_vars
  PROVE  RouteInv'
<1> USE DEF TypeOK, RouteInv, Route, Inside, GoTo, Leave, Return
<1>1. CASE UNCHANGED vars
  BY <1>1 DEF vars, diskVars, procVars, histVars
<1>2. ASSUME NEW c \in Callers, NEW t \in Targets, NEW flag \in ResetFlags,
             Request(c, t, flag)
      PROVE  RouteInv'
  BY <1>2 DEF Request, diskVars
<1>3. ASSUME NEW c \in Callers, Progress(c)
      PROVE  RouteInv'
  <2>1. CASE LogRequested(c)
    BY <2>1 DEF LogRequested
  <2>2. CASE Acquire(c)
    BY <2>2 DEF Acquire
  <2>3. CASE AcquireTimesOut(c)
    BY <2>3 DEF AcquireTimesOut
  <2>4. CASE Load(c)
    BY <2>4 DEF Load
  <2>5. CASE GatePasses(c)
    BY <2>5 DEF GatePasses, GateOpen
  <2>6. CASE GateRefuses(c)
    BY <2>6 DEF GateRefuses
  <2>7. CASE RunScript(c)
    BY <2>7 DEF RunScript
  <2>8. CASE ScriptSucceeds(c)
    BY <2>8 DEF ScriptSucceeds
  <2>9. CASE ScriptFails(c)
    BY <2>9 DEF ScriptFails
  <2>10. CASE Commit(c)
    BY <2>10 DEF Commit, SaveFlip
  <2>11. CASE Hooks(c)
    BY <2>11 DEF Hooks
  <2>12. CASE Report(c)
    BY <2>12 DEF Report
  <2>13. CASE Refuse(c)
    BY <2>13 DEF Refuse
  <2>14. CASE LogTimeout(c)
    BY <2>14 DEF LogTimeout
  <2> QED
    BY <1>3, <2>1, <2>2, <2>3, <2>4, <2>5, <2>6, <2>7, <2>8, <2>9, <2>10, <2>11, <2>12, <2>13, <2>14 DEF Progress
<1>4. ASSUME NEW c \in Callers, Fault(c)
      PROVE  RouteInv'
  <2>1. CASE LogRequestedFails(c)
    BY <2>1 DEF LogRequestedFails
  <2>2. CASE Raises(c)
    BY <2>2 DEF Raises
  <2>3. CASE CommitRaises(c)
    BY <2>3 DEF CommitRaises, SaveFlip
  <2>4. CASE InnerEmitTimesOut(c)
    BY <2>4 DEF InnerEmitTimesOut
  <2>5. CASE LogTimeoutFails(c)
    BY <2>5 DEF LogTimeoutFails
  <2>6. CASE Crash(c)
    BY <2>6 DEF Crash
  <2> QED
    BY <1>4, <2>1, <2>2, <2>3, <2>4, <2>5, <2>6 DEF Fault
<1>5. CASE OrphanExits
  BY <1>5 DEF OrphanExits, procVars, diskVars
<1>6. ASSUME NEW t \in Targets, InvokeCheck(t)
      PROVE  RouteInv'
  BY <1>6 DEF InvokeCheck, procVars
<1>7. CASE AckPrompts
  BY <1>7 DEF AckPrompts, procVars
<1> QED
  BY <1>1, <1>2, <1>3, <1>4, <1>5, <1>6, <1>7 DEF Next

\* TypeOK: the saves need a declared target, the scripts a declared route.
LEMMA TypeStep ==
  ASSUME SafeInv, [Next]_vars
  PROVE  TypeOK'
<1> USE RoutesAssumption, CallersAssumption, FlagsAssumption
    DEF SafeInv, TypeOK, Inside, PCs, GoTo, Leave, Return, Spend, Bounded,
        Replies, diskVars, procVars, histVars
<1>1. CASE UNCHANGED vars
  BY <1>1 DEF vars, diskVars, procVars, histVars
<1>2. ASSUME NEW c \in Callers, NEW t \in Targets, NEW flag \in ResetFlags,
             Request(c, t, flag)
      PROVE  TypeOK'
  <2>1. flag \in BOOLEAN
    BY Zenon
  <2> QED
    BY <1>2, <2>1, SMTT(30) DEF Request, diskVars
<1>3. ASSUME NEW c \in Callers, Progress(c)
      PROVE  TypeOK'
  <2>1. CASE LogRequested(c)
    BY <2>1 DEF LogRequested
  <2>2. CASE Acquire(c)
    BY <2>2 DEF Acquire
  <2>3. CASE AcquireTimesOut(c)
    BY <2>3 DEF AcquireTimesOut
  <2>4. CASE Load(c)
    BY <2>4 DEF Load
  <2>5. CASE GatePasses(c)
    BY <2>5 DEF GatePasses
  <2>6. CASE GateRefuses(c)
    BY <2>6 DEF GateRefuses
  <2>7. CASE RunScript(c)
    <3>1. Effects[Route(c)] \in Seq(STRING)
      BY <2>7 DEF RunScript, RouteInv
    <3>2. Script(c, done[c] + 1) \in [by : Callers, name : STRING]
      BY <2>7, <3>1 DEF RunScript, Script
    <3> QED
      BY <2>7, <3>2 DEF RunScript
  <2>8. CASE ScriptSucceeds(c)
    BY <2>8 DEF ScriptSucceeds
  <2>9. CASE ScriptFails(c)
    BY <2>9 DEF ScriptFails
  <2>10. CASE Commit(c)
    BY <2>10, SaveFlipType DEF Commit
  <2>11. CASE Hooks(c)
    <3>1. snap[c] \in Session
      BY <2>11 DEF Hooks, SnapInv
    <3>2. [snap[c] EXCEPT !.engagement = "closed"] \in Session
      BY <3>1 DEF Session
    <3> QED
      BY <2>11, <3>2 DEF Hooks
  <2>12. CASE Report(c)
    <3>1. snap[c].visit.n \in Nat /\ target[c] \in Statuses
      BY <2>12 DEF Report, SnapInv, TargetInv, Session
    <3>2. log' \in Seq(Event)
      BY <2>12, <3>1, EmitType DEF Report
    <3> QED
      BY <2>12, <3>2 DEF Report
  <2>13. CASE Refuse(c)
    BY <2>13 DEF Refuse
  <2>14. CASE LogTimeout(c)
    BY <2>14 DEF LogTimeout
  <2> QED
    BY <1>3, <2>1, <2>2, <2>3, <2>4, <2>5, <2>6, <2>7, <2>8, <2>9, <2>10, <2>11, <2>12, <2>13, <2>14 DEF Progress
<1>4. ASSUME NEW c \in Callers, Fault(c)
      PROVE  TypeOK'
  <2>1. CASE LogRequestedFails(c)
    BY <2>1, SMTT(30) DEF LogRequestedFails
  <2>2. CASE Raises(c)
    BY <2>2 DEF Raises
  <2>3. CASE CommitRaises(c)
    <3>1. SaveFlip(c)
      BY <2>3 DEF CommitRaises
    <3>2. /\ session' \in Session
          /\ move' \in [Callers -> Nat]
          /\ moves' \in Seq(Saved)
      BY <3>1, SaveFlipType
    <3>3. /\ UNCHANGED <<log, acked, scripts>>
          /\ holder' \in Callers \cup {NoCaller}
          /\ spent' \in [Bounded -> Nat]
      BY <2>3 DEF CommitRaises
    <3>4. /\ pc' \in [Callers -> PCs]
          /\ target' \in [Callers -> Statuses \cup {NoTarget}]
          /\ reset' \in [Callers -> BOOLEAN]
          /\ snap' \in [Callers -> Session \cup {NoSession}]
          /\ done' \in [Callers -> Nat]
          /\ reply' \in [Callers -> Replies]
      BY <2>3 DEF CommitRaises
    <3> QED
      BY <3>2, <3>3, <3>4
  <2>4. CASE InnerEmitTimesOut(c)
    BY <2>4 DEF InnerEmitTimesOut
  <2>5. CASE LogTimeoutFails(c)
    BY <2>5, SMTT(30) DEF LogTimeoutFails
  <2>6. CASE Crash(c)
    BY <2>6, SMTT(30) DEF Crash
  <2> QED
    BY <1>4, <2>1, <2>2, <2>3, <2>4, <2>5, <2>6 DEF Fault
<1>5. CASE OrphanExits
  BY <1>5 DEF OrphanExits, procVars, diskVars
<1>6. ASSUME NEW t \in Targets, InvokeCheck(t)
      PROVE  TypeOK'
  <2>1. log' \in Seq(Event)
    BY <1>6, EmitType DEF InvokeCheck
  <2>2. /\ UNCHANGED <<session, acked, holder, scripts, procVars, histVars>>
        /\ spent' \in [Bounded -> Nat]
    BY <1>6 DEF InvokeCheck
  <2> QED
    BY <2>1, <2>2
<1>7. CASE AckPrompts
  BY <1>7 DEF AckPrompts, procVars
<1> QED
  BY <1>1, <1>2, <1>3, <1>4, <1>5, <1>6, <1>7 DEF Next

-----------------------------------------------------------------------------
(* SafeInv *)

\* The executor starts in SafeInv: the lock is free and nobody is in a call.
LEMMA SafeInit ==
  Init => SafeInv
<1> SUFFICES ASSUME Init PROVE SafeInv
  OBVIOUS
<1> USE RoutesAssumption, CallersAssumption DEF Init
<1>1. session \in Session
  BY DEF Session, NoVisit
<1>2. TypeOK
  <2>1. log \in Seq(Event) /\ moves \in Seq(Saved)
    OBVIOUS
  <2>2. /\ pc \in [Callers -> PCs]
        /\ target \in [Callers -> Statuses \cup {NoTarget}]
        /\ reset \in [Callers -> BOOLEAN]
        /\ snap \in [Callers -> Session \cup {NoSession}]
        /\ done \in [Callers -> Nat]
        /\ reply \in [Callers -> Replies]
        /\ move \in [Callers -> Nat]
    BY DEF PCs, Replies
  <2>3. spent \in [Bounded -> Nat]
    OBVIOUS
  <2> QED
    BY <1>1, <2>1, <2>2, <2>3 DEF TypeOK
<1>3. LockInv /\ SnapInv /\ TargetInv /\ RouteInv
  BY DEF LockInv, SnapInv, TargetInv, RouteInv, Inside
<1> QED
  BY <1>2, <1>3 DEF SafeInv

\* SafeInv is inductive: its conjuncts are preserved one by one above.
LEMMA SafeStep ==
  SafeInv /\ [Next]_vars => SafeInv'
BY TypeStep, LockStep, SnapStep, TargetStep, RouteStep DEF SafeInv

\* Type correctness, with everything the later proofs need of a single state.
THEOREM Safe == Spec => []SafeInv
BY SafeInit, SafeStep, PTL DEF Spec

\* Every variable of the executor keeps its type, however many processes call
\* execute_transition and whatever is killed or times out.
THEOREM TypeCorrect == Spec => []TypeOK
BY Safe, PTL DEF SafeInv

-----------------------------------------------------------------------------
(* The moves *)

Unmoved == UNCHANGED <<session.status, moves>>

\* The status and the moves change together, in the save of a process that is
\* past the gate, and in no other step: the second save of the hooks writes the
\* status back that the file has.
LEMMA OnlySavesMove ==
  ASSUME SafeInv, [Next]_vars
  PROVE  Unmoved \/ \E c \in Callers : SaveFlip(c)
<1> USE DEF Unmoved, diskVars, histVars
<1>1. CASE UNCHANGED vars
  BY <1>1 DEF vars
<1>2. ASSUME NEW c \in Callers, NEW t \in Targets, NEW flag \in ResetFlags,
             Request(c, t, flag)
      PROVE  Unmoved \/ \E d \in Callers : SaveFlip(d)
  BY <1>2 DEF Request
<1>3. ASSUME NEW c \in Callers, Progress(c)
      PROVE  Unmoved \/ \E d \in Callers : SaveFlip(d)
  <2>1. CASE LogRequested(c)
    BY <2>1 DEF LogRequested
  <2>2. CASE Acquire(c)
    BY <2>2 DEF Acquire
  <2>3. CASE AcquireTimesOut(c)
    BY <2>3 DEF AcquireTimesOut
  <2>4. CASE Load(c)
    BY <2>4 DEF Load
  <2>5. CASE GatePasses(c)
    BY <2>5 DEF GatePasses
  <2>6. CASE GateRefuses(c)
    BY <2>6 DEF GateRefuses
  <2>7. CASE RunScript(c)
    BY <2>7 DEF RunScript
  <2>8. CASE ScriptSucceeds(c)
    BY <2>8 DEF ScriptSucceeds
  <2>9. CASE ScriptFails(c)
    BY <2>9 DEF ScriptFails
  <2>10. CASE Commit(c)
    BY <2>10 DEF Commit
  <2>11. CASE Hooks(c)
    <3>1. snap[c] \in Session /\ snap[c] = session
      BY <2>11 DEF Hooks, SafeInv, SnapInv, TypeOK, Inside
    <3>2. [snap[c] EXCEPT !.engagement = "closed"].status = snap[c].status
      BY <3>1 DEF Session
    <3> QED
      BY <2>11, <3>1, <3>2 DEF Hooks
  <2>12. CASE Report(c)
    BY <2>12 DEF Report
  <2>13. CASE Refuse(c)
    BY <2>13 DEF Refuse
  <2>14. CASE LogTimeout(c)
    BY <2>14 DEF LogTimeout
  <2> QED
    BY <1>3, <2>1, <2>2, <2>3, <2>4, <2>5, <2>6, <2>7, <2>8, <2>9, <2>10, <2>11, <2>12, <2>13, <2>14 DEF Progress
<1>4. ASSUME NEW c \in Callers, Fault(c)
      PROVE  Unmoved \/ \E d \in Callers : SaveFlip(d)
  <2>1. CASE LogRequestedFails(c)
    BY <2>1 DEF LogRequestedFails
  <2>2. CASE Raises(c)
    BY <2>2 DEF Raises
  <2>3. CASE CommitRaises(c)
    BY <2>3 DEF CommitRaises
  <2>4. CASE InnerEmitTimesOut(c)
    BY <2>4 DEF InnerEmitTimesOut
  <2>5. CASE LogTimeoutFails(c)
    BY <2>5 DEF LogTimeoutFails
  <2>6. CASE Crash(c)
    BY <2>6 DEF Crash
  <2> QED
    BY <1>4, <2>1, <2>2, <2>3, <2>4, <2>5, <2>6 DEF Fault
<1>5. CASE OrphanExits
  BY <1>5 DEF OrphanExits
<1>6. ASSUME NEW t \in Targets, InvokeCheck(t)
      PROVE  Unmoved \/ \E d \in Callers : SaveFlip(d)
  BY <1>6 DEF InvokeCheck
<1>7. CASE AckPrompts
  BY <1>7 DEF AckPrompts
<1> QED
  BY <1>1, <1>2, <1>3, <1>4, <1>5, <1>6, <1>7 DEF Next

\* What a save does to the moves and to the status.
LEMMA SaveMoves ==
  ASSUME SafeInv, NEW c \in Callers, SaveFlip(c)
  PROVE  /\ Route(c) \in Routes
         /\ snap[c].status = session.status
         /\ session'.status = target[c]
         /\ moves' = Append(moves, [from |-> session.status, to |-> target[c],
                                   n |-> Flipped(c).visit.n])
<1>1. Route(c) \in Routes /\ snap[c] = session
  BY DEF SafeInv, RouteInv, SnapInv, SaveFlip, Inside
<1>2. snap[c] \in Session /\ target[c] \in Statuses
  BY <1>1 DEF SafeInv, TypeOK, TargetInv, SaveFlip
<1>3. Flipped(c).status = target[c]
  BY <1>2, FlippedType DEF SafeInv
<1> QED
  BY <1>1, <1>3 DEF SaveFlip

\* MovesFormOneChain: a save starts at the status the last one left, because
\* the object it was decided on equals the file.
LEMMA ChainStep ==
  ASSUME SafeInv, MovesFormOneChain, [Next]_vars
  PROVE  MovesFormOneChain'
<1>1. CASE Unmoved
  BY <1>1 DEF Unmoved, MovesFormOneChain
<1>2. ASSUME NEW c \in Callers, SaveFlip(c)
      PROVE  MovesFormOneChain'
  <2> DEFINE m == [from |-> session.status, to |-> target[c],
                   n |-> Flipped(c).visit.n]
  <2>1. /\ <<m.from, m.to>> \in Routes
        /\ m.from = session.status /\ m.to = session'.status
        /\ moves' = Append(moves, m)
    BY <1>2, SaveMoves DEF Route
  <2>2. moves \in Seq(Saved)
    BY DEF SafeInv, TypeOK
  <2> HIDE DEF m
  <2>3. /\ Len(moves') = Len(moves) + 1
        /\ moves'[Len(moves) + 1] = m
        /\ \A i \in 1..Len(moves) : moves'[i] = moves[i]
        /\ DOMAIN moves' = 1..(Len(moves) + 1)
        /\ DOMAIN moves = 1..Len(moves)
        /\ Len(moves) \in Nat
    BY <2>1, <2>2
  <2>4. ASSUME NEW i \in DOMAIN moves'
        PROVE  /\ <<moves'[i].from, moves'[i].to>> \in Routes
               /\ i > 1 => moves'[i].from = moves'[i-1].to
    <3>1. CASE i = Len(moves) + 1
      <4>1. i > 1 => m.from = moves[i-1].to
        BY <3>1, <2>1, <2>2, <2>3 DEF MovesFormOneChain
      <4>2. i > 1 => moves'[i-1] = moves[i-1]
        BY <3>1, <2>3
      <4> QED
        BY <3>1, <4>1, <4>2, <2>1, <2>3
    <3>2. CASE i \in 1..Len(moves)
      BY <3>2, <2>3, SMTT(30) DEF MovesFormOneChain
    <3> QED
      BY <2>3, <3>1, <3>2
  <2>5. session'.status = moves'[Len(moves')].to
    BY <2>1, <2>3
  <2> QED
    BY <2>4, <2>5 DEF MovesFormOneChain
<1> QED
  BY <1>1, <1>2, OnlySavesMove

\* The saved statuses form one chain along declared routes and the file holds
\* its end: no two requests are validated against the same status.
THEOREM OneChain == Spec => []MovesFormOneChain
<1>1. Init => MovesFormOneChain
  BY DEF Init, MovesFormOneChain
<1>2. SafeInv /\ MovesFormOneChain /\ [Next]_vars => MovesFormOneChain'
  BY ChainStep
<1> QED
  BY <1>1, <1>2, Safe, PTL DEF Spec

-----------------------------------------------------------------------------
(* Refinement *)

\* The executor's initial states are the ledger's.
LEMMA LedgerInit ==
  Init => Ledger!Init
<1> SUFFICES ASSUME Init PROVE Ledger!Init
  OBVIOUS
<1>1. session.status \in StartStatuses
  BY DEF Init
<1>2. [i \in DOMAIN moves |-> <<moves[i].from, moves[i].to>>] = <<>>
  BY DEF Init
<1> QED
  BY <1>1, <1>2 DEF Ledger!Init

\* A save is a move of the ledger; every other step is a stutter.
LEMMA LedgerStep ==
  ASSUME SafeInv, [Next]_vars
  PROVE  [Ledger!Next]_(Ledger!vars)
<1>1. CASE Unmoved
  BY <1>1 DEF Unmoved, Ledger!vars
<1>2. ASSUME NEW c \in Callers, SaveFlip(c)
      PROVE  Ledger!Next
  <2> DEFINE m == [from |-> session.status, to |-> target[c],
                   n |-> Flipped(c).visit.n]
             L(ms) == [i \in DOMAIN ms |-> <<ms[i].from, ms[i].to>>]
  <2>1. /\ Route(c) \in Routes
        /\ Route(c) = <<m.from, m.to>>
        /\ m.from = session.status /\ m.to = session'.status
        /\ moves' = Append(moves, m)
    BY <1>2, SaveMoves DEF Route
  <2>2. moves \in Seq(Saved)
    BY DEF SafeInv, TypeOK
  <2> HIDE DEF m
  <2>3. L(moves') = Append(L(moves), Route(c))
    <3>1. /\ L(moves) \in Seq(Statuses \X Statuses)
          /\ Len(L(moves)) = Len(moves)
      <4>1. \A i \in 1..Len(moves) :
              <<moves[i].from, moves[i].to>> \in Statuses \X Statuses
        <5>1. TAKE i \in 1..Len(moves)
        <5>2. moves[i] \in Saved
          BY <2>2
        <5> QED
          BY <5>2 DEF Saved
      <4> QED
        BY <4>1, <2>2
    <3>2. /\ Len(moves) \in Nat
          /\ DOMAIN moves' = 1..(Len(moves) + 1)
          /\ moves'[Len(moves) + 1] = m
          /\ \A i \in 1..Len(moves) : moves'[i] = moves[i]
      BY <2>1, <2>2
    <3>3. Append(L(moves), Route(c)) =
            [i \in 1..(Len(moves) + 1) |->
               IF i = Len(moves) + 1 THEN Route(c) ELSE L(moves)[i]]
      BY <3>1, <3>2
    <3>4. \A i \in 1..(Len(moves) + 1) :
            L(moves')[i] = IF i = Len(moves) + 1 THEN Route(c) ELSE L(moves)[i]
      BY <2>1, <2>2, <3>2
    <3> QED
      BY <3>2, <3>3, <3>4
  <2>4. Ledger!Move(Route(c))
    BY <2>1, <2>3 DEF Ledger!Move, Route
  <2> QED
    BY <2>1, <2>4 DEF Ledger!Next, Ledger!Move
<1> QED
  BY <1>1, <1>2, OnlySavesMove

\* The executor implements the ledger: every step is one declared move from the
\* current status, or leaves the status and the ledger alone.
THEOREM Implements == Spec => ImplementsLedger
<1>1. SafeInv /\ [Next]_vars => [Ledger!Next]_(Ledger!vars)
  BY LedgerStep
<1> QED
  BY <1>1, LedgerInit, Safe, PTL DEF Spec, ImplementsLedger, Ledger!Spec

-----------------------------------------------------------------------------
(* The log *)

\* Between its save and its event a process owns the last move, and no event
\* tells of that move yet.
OwnInv ==
  \A c \in Callers : pc[c] \in {"hooks", "report"} =>
    /\ move[c] = Len(moves) /\ move[c] \in DOMAIN moves
    /\ moves[move[c]].to = target[c]
    /\ moves[move[c]].n = snap[c].visit.n
    /\ \A i \in Completed : log[i].move # move[c]

\* The events an append to the log leaves.
LEMMA AppendedEvent ==
  ASSUME log \in Seq(Event), NEW kind \in {"completed", "invoked"},
         NEW to \in Statuses, NEW n \in Nat, NEW id \in Nat, Emit(kind, to, n, id)
  PROVE  /\ DOMAIN log = 1..Len(log) /\ Len(log) \in Nat
         /\ Completed' = IF kind = "completed" THEN Completed \cup {Len(log) + 1}
                         ELSE Completed
         /\ \A i \in Completed : log'[i] = log[i]
         /\ log'[Len(log) + 1] = [kind |-> kind, to |-> to, n |-> n, move |-> id]
<1> DEFINE e == [kind |-> kind, to |-> to, n |-> n, move |-> id]
<1>1. e.kind = kind /\ log' = Append(log, e) /\ e \in Event
  BY DEF Emit, Event
<1> HIDE DEF e
<1>2. /\ DOMAIN log = 1..Len(log) /\ Len(log) \in Nat
      /\ DOMAIN log' = 1..(Len(log) + 1)
      /\ \A i \in 1..Len(log) : log'[i] = log[i]
      /\ log'[Len(log) + 1] = e
  BY <1>1
<1>3. Completed' = IF kind = "completed" THEN Completed \cup {Len(log) + 1}
                  ELSE Completed
  BY <1>1, <1>2 DEF Completed
<1>4. \A i \in Completed : log'[i] = log[i]
  BY <1>2 DEF Completed
<1> QED
  BY <1>2, <1>3, <1>4 DEF e

\* A save leaves the earlier moves as they are and adds one.
LEMMA SavedMove ==
  ASSUME SafeInv, NEW c \in Callers, SaveFlip(c)
  PROVE  /\ Len(moves) \in Nat /\ DOMAIN moves = 1..Len(moves)
         /\ Len(moves') = Len(moves) + 1 /\ DOMAIN moves' = 1..(Len(moves) + 1)
         /\ \A i \in DOMAIN moves : moves'[i] = moves[i]
         /\ moves'[Len(moves) + 1].to = target[c]
         /\ moves'[Len(moves) + 1].n = Flipped(c).visit.n
<1> DEFINE m == [from |-> session.status, to |-> target[c], n |-> Flipped(c).visit.n]
<1>1. moves' = Append(moves, m) /\ m.to = target[c] /\ m.n = Flipped(c).visit.n
  BY SaveMoves
<1>2. moves \in Seq(Saved)
  BY DEF SafeInv, TypeOK
<1> HIDE DEF m
<1> QED
  BY <1>1, <1>2

\* OwnInv: the lock is held from the save to the event.
LEMMA OwnStep ==
  ASSUME SafeInv, OwnInv, LogTellsMovesInOrder, [Next]_vars
  PROVE  OwnInv'
<1> USE DEF OwnInv, Completed, GoTo, Leave, Return, diskVars, histVars
<1>0. /\ TypeOK /\ LockInv /\ SnapInv /\ Len(moves) \in Nat
      /\ \A i \in Completed : log[i].move \in 1..Len(moves)
  BY DEF SafeInv, TypeOK, LogTellsMovesInOrder
<1> USE <1>0 DEF TypeOK
<1>1. CASE UNCHANGED vars
  BY <1>1 DEF vars, procVars
<1>2. ASSUME NEW c \in Callers, NEW t \in Targets, NEW flag \in ResetFlags,
             Request(c, t, flag)
      PROVE  OwnInv'
  BY <1>2 DEF Request
<1>3. ASSUME NEW c \in Callers, Progress(c)
      PROVE  OwnInv'
  <2>1. CASE LogRequested(c)
    BY <2>1 DEF LogRequested
  <2>2. CASE Acquire(c)
    BY <2>2 DEF Acquire
  <2>3. CASE AcquireTimesOut(c)
    BY <2>3 DEF AcquireTimesOut
  <2>4. CASE Load(c)
    BY <2>4 DEF Load
  <2>5. CASE GatePasses(c)
    BY <2>5 DEF GatePasses
  <2>6. CASE GateRefuses(c)
    BY <2>6 DEF GateRefuses
  <2>7. CASE RunScript(c)
    BY <2>7 DEF RunScript
  <2>8. CASE ScriptSucceeds(c)
    BY <2>8 DEF ScriptSucceeds
  <2>9. CASE ScriptFails(c)
    BY <2>9 DEF ScriptFails
  <2>10. CASE Commit(c)
    <3>1. \A d \in Callers \ {c} : pc[d] \notin Inside
      BY <2>10 DEF Commit, SaveFlip, LockInv, Inside
    <3> QED
      BY <2>10, <3>1, SavedMove DEF Commit, SaveFlip, Inside
  <2>11. CASE Hooks(c)
    <3>1. snap[c] \in Session
      BY <2>11 DEF Hooks, SnapInv, Inside
    <3>2. snap'[c].visit = snap[c].visit /\ \A d \in Callers \ {c} : snap'[d] = snap[d]
      BY <2>11, <3>1 DEF Hooks, Session
    <3> QED
      BY <2>11, <3>2 DEF Hooks
  <2>12. CASE Report(c)
    <3>1. \A d \in Callers \ {c} : pc[d] \notin Inside
      BY <2>12 DEF Report, LockInv, Inside
    <3> QED
      BY <2>12, <3>1 DEF Report, Inside
  <2>13. CASE Refuse(c)
    BY <2>13 DEF Refuse
  <2>14. CASE LogTimeout(c)
    BY <2>14 DEF LogTimeout
  <2> QED
    BY <1>3, <2>1, <2>2, <2>3, <2>4, <2>5, <2>6, <2>7, <2>8, <2>9, <2>10, <2>11, <2>12, <2>13, <2>14 DEF Progress
<1>4. ASSUME NEW c \in Callers, Fault(c)
      PROVE  OwnInv'
  <2>1. CASE LogRequestedFails(c)
    BY <2>1 DEF LogRequestedFails
  <2>2. CASE Raises(c)
    BY <2>2 DEF Raises
  <2>3. CASE CommitRaises(c)
    <3>1. \A d \in Callers \ {c} : pc[d] \notin Inside
      BY <2>3 DEF CommitRaises, SaveFlip, LockInv, Inside
    <3> QED
      BY <2>3, <3>1 DEF CommitRaises, SaveFlip, Inside
  <2>4. CASE InnerEmitTimesOut(c)
    BY <2>4 DEF InnerEmitTimesOut
  <2>5. CASE LogTimeoutFails(c)
    BY <2>5 DEF LogTimeoutFails
  <2>6. CASE Crash(c)
    BY <2>6 DEF Crash
  <2> QED
    BY <1>4, <2>1, <2>2, <2>3, <2>4, <2>5, <2>6 DEF Fault
<1>5. CASE OrphanExits
  BY <1>5 DEF OrphanExits, procVars
<1>6. ASSUME NEW t \in Targets, InvokeCheck(t)
      PROVE  OwnInv'
  <2>1. Completed' = Completed /\ \A i \in Completed : log'[i] = log[i]
    BY <1>6, RoutesAssumption, AppendedEvent DEF InvokeCheck
  <2> QED
    BY <1>6, <2>1 DEF InvokeCheck, procVars
<1>7. CASE AckPrompts
  BY <1>7 DEF AckPrompts, procVars
<1> QED
  BY <1>1, <1>2, <1>3, <1>4, <1>5, <1>6, <1>7 DEF Next

\* LogTellsMovesInOrder: saves and events alternate under the lock.
LEMMA LogStep ==
  ASSUME SafeInv, OwnInv, LogTellsMovesInOrder, [Next]_vars
  PROVE  LogTellsMovesInOrder'
<1>k. ASSUME UNCHANGED <<log, moves>> PROVE LogTellsMovesInOrder'
  BY <1>k DEF LogTellsMovesInOrder, Completed
<1>s. ASSUME NEW c \in Callers, SaveFlip(c), UNCHANGED log
      PROVE  LogTellsMovesInOrder'
  BY <1>s, SavedMove DEF LogTellsMovesInOrder, Completed
<1> USE DEF diskVars, histVars
<1>1. CASE UNCHANGED vars
  BY <1>1, <1>k DEF vars
<1>2. ASSUME NEW c \in Callers, NEW t \in Targets, NEW flag \in ResetFlags,
             Request(c, t, flag)
      PROVE  LogTellsMovesInOrder'
  BY <1>2, <1>k DEF Request
<1>3. ASSUME NEW c \in Callers, Progress(c)
      PROVE  LogTellsMovesInOrder'
  <2>1. CASE LogRequested(c)
    BY <2>1, <1>k DEF LogRequested
  <2>2. CASE Acquire(c)
    BY <2>2, <1>k DEF Acquire
  <2>3. CASE AcquireTimesOut(c)
    BY <2>3, <1>k DEF AcquireTimesOut
  <2>4. CASE Load(c)
    BY <2>4, <1>k DEF Load
  <2>5. CASE GatePasses(c)
    BY <2>5, <1>k DEF GatePasses
  <2>6. CASE GateRefuses(c)
    BY <2>6, <1>k DEF GateRefuses
  <2>7. CASE RunScript(c)
    BY <2>7, <1>k DEF RunScript
  <2>8. CASE ScriptSucceeds(c)
    BY <2>8, <1>k DEF ScriptSucceeds
  <2>9. CASE ScriptFails(c)
    BY <2>9, <1>k DEF ScriptFails
  <2>10. CASE Commit(c)
    BY <2>10, <1>s DEF Commit
  <2>11. CASE Hooks(c)
    BY <2>11, <1>k DEF Hooks
  <2>12. CASE Report(c)
    <3>1. /\ TypeOK /\ snap[c].visit.n \in Nat /\ target[c] \in Statuses
          /\ move[c] \in Nat /\ UNCHANGED moves
      BY <2>12 DEF Report, SafeInv, SnapInv, TargetInv, TypeOK, Session, Inside
    <3>2. /\ DOMAIN log = 1..Len(log) /\ Len(log) \in Nat
          /\ Completed' = Completed \cup {Len(log) + 1}
          /\ \A i \in Completed : log'[i] = log[i]
          /\ log'[Len(log) + 1] = [kind |-> "completed", to |-> target[c],
                                   n |-> snap[c].visit.n, move |-> move[c]]
      BY <2>12, <3>1, AppendedEvent DEF Report, TypeOK
    <3>3. /\ move[c] = Len(moves) /\ move[c] \in DOMAIN moves
          /\ moves[move[c]].to = target[c]
          /\ moves[move[c]].n = snap[c].visit.n
          /\ \A i \in Completed : log[i].move # move[c]
      BY <2>12 DEF Report, OwnInv
    <3>4. \A i \in Completed : i \in 1..Len(log) /\ log[i].move \in 1..Len(moves)
      BY <3>1 DEF LogTellsMovesInOrder, Completed, TypeOK
    <3>5. \A i \in Completed : i < Len(log) + 1 /\ log[i].move < move[c]
      BY <3>1, <3>2, <3>3, <3>4
    <3>6. ASSUME NEW i \in Completed'
          PROVE  /\ log'[i].move \in DOMAIN moves
                 /\ log'[i].to = moves[log'[i].move].to
                 /\ log'[i].n = moves[log'[i].move].n
      BY <3>2, <3>3 DEF LogTellsMovesInOrder
    <3>7. ASSUME NEW i \in Completed', NEW j \in Completed', i < j
          PROVE  log'[i].move < log'[j].move
      <4>1. i \in Completed
        BY <3>2, <3>4, <3>5, <3>7
      <4>2. CASE j \in Completed
        BY <3>2, <3>7, <4>1, <4>2 DEF LogTellsMovesInOrder
      <4>3. CASE j = Len(log) + 1
        BY <3>2, <3>5, <4>1, <4>3
      <4> QED
        BY <3>2, <4>2, <4>3
    <3> QED
      BY <3>1, <3>6, <3>7 DEF LogTellsMovesInOrder
  <2>13. CASE Refuse(c)
    BY <2>13, <1>k DEF Refuse
  <2>14. CASE LogTimeout(c)
    BY <2>14, <1>k DEF LogTimeout
  <2> QED
    BY <1>3, <2>1, <2>2, <2>3, <2>4, <2>5, <2>6, <2>7, <2>8, <2>9, <2>10, <2>11, <2>12, <2>13, <2>14 DEF Progress
<1>4. ASSUME NEW c \in Callers, Fault(c)
      PROVE  LogTellsMovesInOrder'
  <2>1. CASE LogRequestedFails(c)
    BY <2>1, <1>k DEF LogRequestedFails
  <2>2. CASE Raises(c)
    BY <2>2, <1>k DEF Raises
  <2>3. CASE CommitRaises(c)
    BY <2>3, <1>s DEF CommitRaises
  <2>4. CASE InnerEmitTimesOut(c)
    BY <2>4, <1>k DEF InnerEmitTimesOut
  <2>5. CASE LogTimeoutFails(c)
    BY <2>5, <1>k DEF LogTimeoutFails
  <2>6. CASE Crash(c)
    BY <2>6, <1>k DEF Crash
  <2> QED
    BY <1>4, <2>1, <2>2, <2>3, <2>4, <2>5, <2>6 DEF Fault
<1>5. CASE OrphanExits
  BY <1>5, <1>k DEF OrphanExits
<1>6. ASSUME NEW t \in Targets, InvokeCheck(t)
      PROVE  LogTellsMovesInOrder'
  <2>1. Completed' = Completed /\ \A i \in Completed : log'[i] = log[i]
    BY <1>6, RoutesAssumption, AppendedEvent DEF InvokeCheck, SafeInv, TypeOK
  <2> QED
    BY <1>6, <2>1 DEF InvokeCheck, LogTellsMovesInOrder
<1>7. CASE AckPrompts
  BY <1>7, <1>k DEF AckPrompts
<1> QED
  BY <1>1, <1>2, <1>3, <1>4, <1>5, <1>6, <1>7 DEF Next

\* The completed events describe saved moves, each at most once and in the order
\* of the saves, with the visit number that was written to the file.
THEOREM LogIsTrue == Spec => []LogTellsMovesInOrder
<1>1. Init => OwnInv /\ LogTellsMovesInOrder
  BY DEF Init, OwnInv, LogTellsMovesInOrder, Completed
<1>2. SafeInv /\ OwnInv /\ LogTellsMovesInOrder /\ [Next]_vars
        => OwnInv' /\ LogTellsMovesInOrder'
  BY OwnStep, LogStep
<1> QED
  BY <1>1, <1>2, Safe, PTL DEF Spec

-----------------------------------------------------------------------------
(***************************************************************************)
(* What the answers, the log and the scripts are worth when processes are  *)
(* killed and emits time out.  StepKinds says what a step can do to the    *)
(* moves, to the log and to the process between its save and its event;    *)
(* the counts follow from it.                                              *)
(***************************************************************************)

\* The process, if any, between the save of a status and its event.
Saving == {c \in Callers : pc[c] \in {"hooks", "report"}}

\* Crashes and timeouts so far.
Losses == spent["crashes"] + spent["faults"]

\* The log tells of the same moves and visits.
SameLog == Logged' = Logged /\ \A s \in Statuses : Visits(s)' = Visits(s)

\* Neither a save nor an event.
Calm ==
  /\ UNCHANGED moves /\ SameLog
  /\ \/ Losses' = Losses /\ Saving' = Saving
     \/ Losses' = Losses + 1 /\ Saving' \subseteq Saving

\* The save of a status, by a process that then owes its event or has lost it.
Saves(c) ==
  /\ SaveFlip(c) /\ SameLog /\ Saving = {}
  /\ \/ Losses' = Losses /\ Saving' = {c}
     \/ Losses' = Losses + 1 /\ Saving' = {}

\* The event of the move that was owed.
Reports(c) ==
  /\ c \in Saving
  /\ UNCHANGED moves /\ Losses' = Losses /\ Saving' = Saving \ {c}
  /\ Logged' = Logged \cup {move[c]}
  /\ \A s \in Statuses : Visits(s)' = IF s = target[c] THEN Visits(s) + 1 ELSE Visits(s)

\* The steps as seen by the counts.
StepKind == Calm \/ \E c \in Callers : Saves(c) \/ Reports(c)

-----------------------------------------------------------------------------
(* The log of a step.                                                      *)

\* What is computed from the log depends on nothing else.
LEMMA QuietLog ==
  ASSUME UNCHANGED log
  PROVE  SameLog
BY DEF SameLog, Logged, Completed, Visits

\* A prompt check that is invoked is no completed transition.
LEMMA CheckLogged ==
  ASSUME SafeInv, NEW t \in Targets, InvokeCheck(t)
  PROVE  SameLog
<1>1. /\ DOMAIN log = 1..Len(log) /\ Len(log) \in Nat
      /\ Completed' = Completed
      /\ \A i \in Completed : log'[i] = log[i]
  BY RoutesAssumption, AppendedEvent DEF InvokeCheck, SafeInv, TypeOK
<1>2. Logged' = Logged
  BY <1>1 DEF Logged
<1>3. ASSUME NEW s \in Statuses
      PROVE  Visits(s)' = Visits(s)
  <2>1. {i \in DOMAIN log : log[i].kind = "completed" /\ log[i].to = s}'
          = {i \in DOMAIN log : log[i].kind = "completed" /\ log[i].to = s}
    BY <1>1 DEF Completed
  <2> QED
    BY <2>1 DEF Visits
<1> QED
  BY <1>2, <1>3 DEF SameLog

\* A completed transition counts as a visit of its target.
LEMMA ReportLogged ==
  ASSUME SafeInv, NEW c \in Callers, Report(c)
  PROVE  /\ Logged' = Logged \cup {move[c]}
         /\ \A s \in Statuses :
              Visits(s)' = IF s = target[c] THEN Visits(s) + 1 ELSE Visits(s)
<1>1. /\ snap[c].visit.n \in Nat /\ target[c] \in Statuses /\ move[c] \in Nat
      /\ log \in Seq(Event)
  BY DEF Report, SafeInv, SnapInv, TargetInv, TypeOK, Session, Inside
<1>2. /\ DOMAIN log = 1..Len(log) /\ Len(log) \in Nat
      /\ Completed' = Completed \cup {Len(log) + 1}
      /\ \A i \in Completed : log'[i] = log[i]
      /\ log'[Len(log) + 1] = [kind |-> "completed", to |-> target[c],
                               n |-> snap[c].visit.n, move |-> move[c]]
  BY <1>1, AppendedEvent DEF Report
<1>3. Logged' = Logged \cup {move[c]}
  BY <1>2 DEF Logged
<1>4. ASSUME NEW s \in Statuses
      PROVE  Visits(s)' = IF s = target[c] THEN Visits(s) + 1 ELSE Visits(s)
  <2> DEFINE At == {i \in DOMAIN log : log[i].kind = "completed" /\ log[i].to = s}
  <2>1. At' = IF s = target[c] THEN At \cup {Len(log) + 1} ELSE At
    <3>1. At = {i \in Completed : log[i].to = s}
      BY DEF Completed
    <3>2. At' = {i \in Completed' : log'[i].to = s}
      BY DEF Completed
    <3> QED
      BY <3>1, <3>2, <1>2
  <2>2. IsFiniteSet(At) /\ Len(log) + 1 \notin At
    <3>1. At \subseteq 1..Len(log)
      BY <1>2
    <3>2. IsFiniteSet(1..Len(log)) /\ Len(log) + 1 \notin 1..Len(log)
      BY <1>2, FS_Interval
    <3>3. IsFiniteSet(At)
      BY <3>1, <3>2, FS_Subset
    <3> QED
      BY <3>1, <3>2, <3>3
  <2>3. Cardinality(At \cup {Len(log) + 1}) = Cardinality(At) + 1
    BY <2>2, FS_AddElement
  <2> QED
    BY <2>1, <2>3 DEF Visits
<1> QED
  BY <1>3, <1>4

\* Only one process holds the lock.
LEMMA SavingAlone ==
  ASSUME SafeInv, NEW c \in Callers, pc[c] \in Inside
  PROVE  Saving \subseteq {c}
BY DEF SafeInv, LockInv, Saving, Inside

\* Crashes and faults are counted together.
LEMMA LossesCounted ==
  ASSUME TypeOK, NEW what \in {"crashes", "faults"}, NEW limit, Spend(what, limit)
  PROVE  Losses' = Losses + 1
BY DEF TypeOK, Spend, Losses, Bounded

\* A step is calm, or the save or the event of one process.
LEMMA StepKinds ==
  ASSUME SafeInv, [Next]_vars
  PROVE  StepKind
<1>0. TypeOK /\ spent["crashes"] \in Nat /\ spent["faults"] \in Nat
  BY DEF SafeInv, TypeOK, Bounded
<1> USE <1>0 DEF Saving, GoTo, Leave, Return, diskVars, histVars
<1>q. ASSUME UNCHANGED <<log, moves>>,
             \/ Losses' = Losses /\ Saving' = Saving
             \/ Losses' = Losses + 1 /\ Saving' \subseteq Saving
      PROVE  StepKind
  BY <1>q, QuietLog DEF Calm, StepKind
<1>s. ASSUME UNCHANGED spent PROVE Losses' = Losses
  BY <1>s DEF Losses
<1>r. ASSUME NEW limit, Spend("requests", limit) PROVE Losses' = Losses
  BY <1>r DEF Losses, Spend, TypeOK, Bounded
<1>1. CASE UNCHANGED vars
  BY <1>1, <1>q, <1>s DEF vars, procVars
<1>2. ASSUME NEW c \in Callers, NEW t \in Targets, NEW flag \in ResetFlags,
             Request(c, t, flag)
      PROVE  StepKind
  BY <1>2, <1>q, <1>r DEF Request, TypeOK
<1>3. ASSUME NEW c \in Callers, Progress(c)
      PROVE  StepKind
  <2> USE DEF TypeOK
  <2>1. CASE LogRequested(c)
    BY <2>1, <1>q, <1>s DEF LogRequested
  <2>2. CASE Acquire(c)
    BY <2>2, <1>q, <1>s DEF Acquire
  <2>3. CASE AcquireTimesOut(c)
    BY <2>3, <1>q, <1>s DEF AcquireTimesOut
  <2>4. CASE Load(c)
    BY <2>4, <1>q, <1>s DEF Load
  <2>5. CASE GatePasses(c)
    BY <2>5, <1>q, <1>s DEF GatePasses
  <2>6. CASE GateRefuses(c)
    BY <2>6, <1>q, <1>s DEF GateRefuses
  <2>7. CASE RunScript(c)
    BY <2>7, <1>q, <1>s DEF RunScript
  <2>8. CASE ScriptSucceeds(c)
    BY <2>8, <1>q, <1>s DEF ScriptSucceeds
  <2>9. CASE ScriptFails(c)
    BY <2>9, <1>q, <1>s DEF ScriptFails
  <2>10. CASE Commit(c)
    <3>1. Saving = {}
      BY <2>10, SavingAlone DEF Commit, SaveFlip, Inside
    <3>2. Saving' = {c} /\ Losses' = Losses /\ SameLog
      BY <2>10, <3>1, <1>s, QuietLog DEF Commit, SaveFlip
    <3> QED
      BY <2>10, <3>1, <3>2 DEF Commit, Saves, StepKind
  <2>11. CASE Hooks(c)
    BY <2>11, <1>q, <1>s DEF Hooks
  <2>12. CASE Report(c)
    <3>1. c \in Saving /\ Saving' = Saving \ {c} /\ Losses' = Losses /\ UNCHANGED moves
      BY <2>12, <1>s DEF Report
    <3> QED
      BY <2>12, <3>1, ReportLogged DEF Reports, StepKind
  <2>13. CASE Refuse(c)
    BY <2>13, <1>q, <1>s DEF Refuse
  <2>14. CASE LogTimeout(c)
    BY <2>14, <1>q, <1>s DEF LogTimeout
  <2> QED
    BY <1>3, <2>1, <2>2, <2>3, <2>4, <2>5, <2>6, <2>7, <2>8, <2>9, <2>10, <2>11, <2>12, <2>13, <2>14 DEF Progress
<1>4. ASSUME NEW c \in Callers, Fault(c)
      PROVE  StepKind
  <2> USE DEF TypeOK
  <2>1. CASE LogRequestedFails(c)
    BY <2>1, <1>q, LossesCounted DEF LogRequestedFails
  <2>2. CASE Raises(c)
    BY <2>2, <1>q, <1>s DEF Raises
  <2>3. CASE CommitRaises(c)
    <3>1. Saving = {}
      BY <2>3, SavingAlone DEF CommitRaises, SaveFlip, Inside
    <3>2. Saving' = {} /\ Losses' = Losses + 1 /\ SameLog
      BY <2>3, <3>1, LossesCounted, QuietLog DEF CommitRaises, SaveFlip
    <3> QED
      BY <2>3, <3>1, <3>2 DEF CommitRaises, Saves, StepKind
  <2>4. CASE InnerEmitTimesOut(c)
    BY <2>4, <1>q, LossesCounted DEF InnerEmitTimesOut
  <2>5. CASE LogTimeoutFails(c)
    BY <2>5, <1>q, LossesCounted DEF LogTimeoutFails
  <2>6. CASE Crash(c)
    BY <2>6, <1>q, LossesCounted DEF Crash
  <2> QED
    BY <1>4, <2>1, <2>2, <2>3, <2>4, <2>5, <2>6 DEF Fault
<1>5. CASE OrphanExits
  BY <1>5, <1>q, <1>s DEF OrphanExits, procVars
<1>6. ASSUME NEW t \in Targets, InvokeCheck(t)
      PROVE  StepKind
  <2>1. Losses' = Losses
    BY <1>6 DEF InvokeCheck, Losses, Spend, TypeOK, Bounded
  <2> QED
    BY <1>6, <2>1, CheckLogged DEF InvokeCheck, procVars, Calm, StepKind
<1>7. CASE AckPrompts
  BY <1>7, <1>q, <1>s DEF AckPrompts, procVars
<1> QED
  BY <1>1, <1>2, <1>3, <1>4, <1>5, <1>6, <1>7 DEF Next
-----------------------------------------------------------------------------
(* Lost events.                                                            *)

\* What the other proofs need of a reachable state.
CoreInv == SafeInv /\ OwnInv /\ MovesFormOneChain /\ LogTellsMovesInOrder

\* CoreInv is inductive.
LEMMA CoreStep == CoreInv /\ [Next]_vars => CoreInv'
BY SafeStep, OwnStep, ChainStep, LogStep DEF CoreInv

\* CoreInv holds.
LEMMA Core == Spec => []CoreInv
<1>1. Init => CoreInv
  BY SafeInit DEF Init, CoreInv, OwnInv, MovesFormOneChain, LogTellsMovesInOrder, Completed
<1> QED
  BY <1>1, CoreStep, PTL DEF Spec

\* Only saved moves are logged, and there are finitely many.
LEMMA LostIsFinite ==
  ASSUME CoreInv
  PROVE  /\ Len(moves) \in Nat /\ DOMAIN moves = 1..Len(moves)
         /\ Logged \subseteq DOMAIN moves
         /\ IsFiniteSet(Lost) /\ Cardinality(Lost) \in Nat
         /\ \A i \in DOMAIN moves : moves[i].to \in Statuses /\ moves[i].n \in Nat
<1>1. moves \in Seq(Saved)
  BY DEF CoreInv, SafeInv, TypeOK
<1>2. Len(moves) \in Nat /\ DOMAIN moves = 1..Len(moves)
  BY <1>1
<1>3. Logged \subseteq DOMAIN moves
  BY DEF CoreInv, LogTellsMovesInOrder, Logged
<1>4. IsFiniteSet(1..Len(moves)) /\ Lost \subseteq 1..Len(moves)
  BY <1>2, FS_Interval DEF Lost
<1>5. IsFiniteSet(Lost) /\ Cardinality(Lost) \in Nat
  BY <1>4, FS_Subset, FS_CardinalityType
<1>6. \A i \in DOMAIN moves : moves[i] \in Saved
  BY <1>1
<1> QED
  BY <1>2, <1>3, <1>5, <1>6 DEF Saved

\* At most one process is between its save and its event.
LEMMA SavingFew ==
  ASSUME SafeInv
  PROVE  /\ IsFiniteSet(Saving) /\ Cardinality(Saving) \in Nat
         /\ \A c \in Saving : Saving = {c} /\ Cardinality(Saving) = 1
         /\ Saving = {} => Cardinality(Saving) = 0
<1>1. ASSUME NEW c \in Saving
      PROVE  Saving = {c}
  BY SavingAlone DEF Saving, Inside
<1>2. CASE Saving = {}
  BY <1>2, FS_EmptySet
<1>3. ASSUME NEW c \in Saving
      PROVE  IsFiniteSet(Saving) /\ Cardinality(Saving) = 1
  BY <1>1, <1>3, FS_Singleton
<1> QED
  BY <1>1, <1>2, <1>3

\* What a save and an event do to the moves that are lost.
LEMMA LostStep ==
  ASSUME CoreInv, [Next]_vars
  PROVE  \/ Calm /\ Lost' = Lost
         \/ \E c \in Callers :
              \/ /\ Saves(c) /\ Lost' = Lost \cup {Len(moves) + 1}
                 /\ Len(moves) + 1 \notin Lost
              \/ Reports(c) /\ Lost' = Lost \ {Len(moves)} /\ Len(moves) \in Lost
                 /\ move[c] = Len(moves)
<1>1. CASE Calm
  BY <1>1 DEF Calm, SameLog, Lost
<1>2. ASSUME NEW c \in Callers, Saves(c)
      PROVE  Lost' = Lost \cup {Len(moves) + 1} /\ Len(moves) + 1 \notin Lost
  <2>1. /\ Len(moves) \in Nat /\ DOMAIN moves = 1..Len(moves)
        /\ DOMAIN moves' = 1..(Len(moves) + 1)
    BY <1>2, SavedMove DEF Saves, CoreInv
  <2> QED
    BY <1>2, <2>1, LostIsFinite DEF Saves, SameLog, Lost
<1>3. ASSUME NEW c \in Callers, Reports(c)
      PROVE  /\ Lost' = Lost \ {Len(moves)} /\ Len(moves) \in Lost
             /\ move[c] = Len(moves)
  <2>1. /\ move[c] = Len(moves) /\ move[c] \in DOMAIN moves
        /\ \A i \in Completed : log[i].move # move[c]
    BY <1>3 DEF Reports, Saving, CoreInv, OwnInv
  <2>2. Len(moves) \in Lost
    BY <2>1 DEF Lost, Logged
  <2> QED
    BY <1>3, <2>1, <2>2 DEF Reports, Lost
<1> QED
  BY <1>1, <1>2, <1>3, StepKinds DEF CoreInv, StepKind

\* A loss is a crash, a fault or a process that is not done yet.
LEMMA CauseStep ==
  ASSUME CoreInv, EveryLostEventHasACause, [Next]_vars
  PROVE  EveryLostEventHasACause'
<1>2. /\ IsFiniteSet(Lost) /\ Cardinality(Lost) \in Nat
      /\ IsFiniteSet(Saving) /\ Cardinality(Saving) \in Nat
      /\ Losses \in Nat
  BY LostIsFinite, SavingFew, SMTT(30) DEF CoreInv, SafeInv, TypeOK, Bounded, Losses
<1>1. Cardinality(Lost) <= Cardinality(Saving) + Losses
  <2>1. Cardinality(Lost) <= Cardinality(Saving) + spent["crashes"] + spent["faults"]
    BY DEF EveryLostEventHasACause, Saving
  <2>2. spent["crashes"] \in Nat /\ spent["faults"] \in Nat
    BY DEF CoreInv, SafeInv, TypeOK, Bounded
  <2> QED
    BY <1>2, <2>1, <2>2 DEF Losses
<1>7. spent'["crashes"] \in Nat /\ spent'["faults"] \in Nat
  BY TypeStep DEF CoreInv, TypeOK, Bounded
<1> DEFINE Bound == Cardinality(Saving') \in Nat
                    /\ Cardinality(Lost') <= Cardinality(Saving') + Losses'
<1>4. ASSUME Calm, Lost' = Lost
      PROVE  Bound
  <2>1. CASE Losses' = Losses /\ Saving' = Saving
    BY <1>1, <1>2, <1>4, <2>1
  <2>2. CASE Losses' = Losses + 1 /\ Saving' \subseteq Saving
    <3>1. Cardinality(Saving) <= 1
      BY SavingFew DEF CoreInv
    <3>2. Cardinality(Saving') \in Nat
      BY <1>2, <2>2, FS_Subset, FS_CardinalityType
    <3> QED
      BY <1>1, <1>2, <1>4, <2>2, <3>1, <3>2
  <2> QED
    BY <1>4, <2>1, <2>2 DEF Calm
<1>5. ASSUME NEW c \in Callers, Saves(c), Lost' = Lost \cup {Len(moves) + 1},
             Len(moves) + 1 \notin Lost
      PROVE  Bound
  <2>1. Cardinality(Lost') = Cardinality(Lost) + 1
    BY <1>2, <1>5, FS_AddElement
  <2>2. Cardinality(Saving) = 0
    BY <1>5, SavingFew DEF Saves, CoreInv
  <2>3. \/ Losses' = Losses + 1 /\ Cardinality(Saving') = 0
        \/ Losses' = Losses /\ Cardinality(Saving') = 1
    BY <1>5, FS_Singleton, FS_EmptySet DEF Saves
  <2> QED
    BY <1>1, <1>2, <2>1, <2>2, <2>3
<1>6. ASSUME NEW c \in Callers, Reports(c), Lost' = Lost \ {Len(moves)},
             Len(moves) \in Lost
      PROVE  Bound
  <2>1. Cardinality(Lost') = Cardinality(Lost) - 1
    BY <1>2, <1>6, FS_RemoveElement
  <2>2. Cardinality(Saving) = 1 /\ Losses' = Losses /\ Saving = {c}
    BY <1>6, SavingFew DEF Reports, CoreInv
  <2>3. Cardinality(Saving') = 0
    BY <1>6, <2>2, FS_EmptySet DEF Reports
  <2> QED
    BY <1>1, <1>2, <2>1, <2>2, <2>3
<1>8. Bound
  BY <1>4, <1>5, <1>6, LostStep
<1>9. Cardinality(Lost') <= Cardinality(Saving') + spent'["crashes"] + spent'["faults"]
  <2>1. \A k, a, b \in Nat : k + (a + b) = k + a + b
    OBVIOUS
  <2>2. Cardinality(Saving') + (spent'["crashes"] + spent'["faults"])
          = Cardinality(Saving') + spent'["crashes"] + spent'["faults"]
    BY <1>7, <1>8, <2>1
  <2> QED
    BY <1>8, <2>2 DEF Losses
<1> QED
  BY <1>9 DEF EveryLostEventHasACause, Saving

\* Between the save of a status and its event nothing but a crash or a lock
\* timeout loses the event (transitions.py:651-710).
THEOREM LossesHaveCauses == Spec => []EveryLostEventHasACause
<1>1. Init => EveryLostEventHasACause
  <2> SUFFICES ASSUME Init PROVE EveryLostEventHasACause
    OBVIOUS
  <2>1. Lost = {} /\ {c \in Callers : pc[c] \in {"hooks", "report"}} = {}
    BY DEF Init, Lost, Logged, Completed
  <2>2. spent["crashes"] = 0 /\ spent["faults"] = 0
    BY DEF Init, Bounded
  <2>3. Cardinality({}) = 0
    BY FS_EmptySet
  <2> QED
    BY <2>1, <2>2, <2>3 DEF EveryLostEventHasACause
<1>2. CoreInv /\ EveryLostEventHasACause /\ [Next]_vars => EveryLostEventHasACause'
  BY CauseStep
<1> QED
  BY <1>1, <1>2, Core, PTL DEF Spec
-----------------------------------------------------------------------------
(* Visit numbers and drift.                                                *)

\* A logged visit is counted in every later number, and the visit that is being
\* saved has the next number.
VisitInv ==
  /\ \A i \in Logged : moves[i].n <= Visits(moves[i].to)
  /\ Saving # {} => moves[Len(moves)].n = Visits(moves[Len(moves)].to) + 1

\* The visits are counted from the log, which is complete up to the lost moves.
LEMMA VisitStep ==
  ASSUME CoreInv, VisitInv, VisitNumberReusedOnlyAfterLoss, [Next]_vars
  PROVE  VisitInv' /\ VisitNumberReusedOnlyAfterLoss'
<1>1. /\ Len(moves) \in Nat /\ DOMAIN moves = 1..Len(moves)
      /\ Logged \subseteq DOMAIN moves
      /\ \A i \in DOMAIN moves : moves[i].to \in Statuses /\ moves[i].n \in Nat
  BY LostIsFinite
<1>2. \A s \in Statuses : Visits(s) \in Nat
  BY VisitsType DEF CoreInv, SafeInv, TypeOK
<1>3. ASSUME Calm, Lost' = Lost
      PROVE  VisitInv' /\ VisitNumberReusedOnlyAfterLoss'
  <2>1. moves' = moves /\ Logged' = Logged /\ Saving' \subseteq Saving
        /\ \A s \in Statuses : Visits(s)' = Visits(s)
    BY <1>3 DEF Calm, SameLog
  <2>2. \A i \in DOMAIN moves : Visits(moves[i].to)' = Visits(moves[i].to)
    BY <1>1, <2>1
  <2>3. Saving # {} => Len(moves) \in DOMAIN moves
    BY DEF CoreInv, OwnInv, Saving
  <2>4. VisitInv'
    BY <1>1, <2>1, <2>2, <2>3 DEF VisitInv
  <2> QED
    BY <1>3, <2>1, <2>4 DEF VisitNumberReusedOnlyAfterLoss
<1>4. ASSUME NEW c \in Callers, Saves(c)
      PROVE  VisitInv' /\ VisitNumberReusedOnlyAfterLoss'
  <2> DEFINE k == Len(moves) + 1
  <2>1. /\ Len(moves') = k /\ DOMAIN moves' = 1..k
        /\ \A i \in DOMAIN moves : moves'[i] = moves[i]
        /\ moves'[k].to = target[c] /\ moves'[k].n = Visits(target[c]) + 1
    BY <1>4, SavedMove DEF Saves, CoreInv, Flipped
  <2>2. /\ Logged' = Logged /\ target[c] \in Statuses
        /\ \A s \in Statuses : Visits(s)' = Visits(s)
    BY <1>4 DEF Saves, SameLog, SaveFlip, CoreInv, SafeInv, TargetInv
  <2>3. VisitInv'
    <3>1. ASSUME NEW i \in Logged
          PROVE  (moves[i].n <= Visits(moves[i].to))'
      BY <1>1, <2>1, <2>2 DEF VisitInv
    <3>2. (moves[Len(moves)].n = Visits(moves[Len(moves)].to) + 1)'
      BY <2>1, <2>2
    <3> QED
      BY <2>2, <3>1, <3>2 DEF VisitInv
  <2>4. ASSUME NEW i \in DOMAIN moves', NEW j \in DOMAIN moves',
               i < j, moves'[i].to = moves'[j].to, moves'[i].n >= moves'[j].n
        PROVE  i \in Lost'
    <3>1. CASE j = k
      <4>1. i \in DOMAIN moves /\ moves'[i] = moves[i]
        BY <1>1, <2>1, <2>4, <3>1
      <4>2. i \notin Logged
        <5>1. i \in Logged => moves[i].n <= Visits(target[c])
          BY <2>1, <2>4, <3>1, <4>1 DEF VisitInv
        <5> QED
          BY <1>1, <1>2, <2>1, <2>2, <2>4, <3>1, <4>1, <5>1
      <4> QED
        BY <2>2, <2>4, <4>2 DEF Lost
    <3>2. CASE j \in DOMAIN moves
      <4>1. i \in DOMAIN moves
        BY <1>1, <2>4, <3>2, <2>1
      <4> QED
        BY <2>1, <2>2, <2>4, <3>2, <4>1 DEF VisitNumberReusedOnlyAfterLoss, Lost
    <3> QED
      BY <1>1, <2>1, <3>1, <3>2
  <2> QED
    BY <2>3, <2>4 DEF VisitNumberReusedOnlyAfterLoss
<1>5. ASSUME NEW c \in Callers, Reports(c), Lost' = Lost \ {Len(moves)},
             move[c] = Len(moves)
      PROVE  VisitInv' /\ VisitNumberReusedOnlyAfterLoss'
  <2>1. /\ moves' = moves /\ Logged' = Logged \cup {Len(moves)}
        /\ \A s \in Statuses :
             Visits(s)' = IF s = target[c] THEN Visits(s) + 1 ELSE Visits(s)
        /\ Saving' = {}
    BY <1>5, SavingFew DEF Reports, CoreInv
  <2>2. /\ Len(moves) \in DOMAIN moves /\ moves[Len(moves)].to = target[c]
        /\ moves[Len(moves)].n = Visits(target[c]) + 1
        /\ target[c] \in Statuses
    BY <1>1, <1>5 DEF Reports, Saving, CoreInv, OwnInv, VisitInv
  <2>3. \A s \in Statuses : Visits(s)' >= Visits(s) /\ Visits(s)' \in Nat
    BY <1>2, <2>1
  <2>4. ASSUME NEW i \in Logged \cup {Len(moves)}
        PROVE  (moves[i].n <= Visits(moves[i].to))'
    <3>1. CASE i = Len(moves)
      BY <1>1, <1>2, <2>1, <2>2, <3>1
    <3>2. CASE i \in Logged
      <4>1. moves[i].n <= Visits(moves[i].to) /\ i \in DOMAIN moves
        BY <1>1, <3>2 DEF VisitInv
      <4> QED
        BY <1>1, <1>2, <2>1, <2>3, <4>1
    <3> QED
      BY <3>1, <3>2
  <2>5. VisitInv'
    BY <2>1, <2>4 DEF VisitInv
  <2>6. \A i, j \in DOMAIN moves : i < j => i # Len(moves)
    BY <1>1
  <2> QED
    BY <1>5, <2>1, <2>5, <2>6 DEF VisitNumberReusedOnlyAfterLoss
<1> QED
  BY <1>3, <1>4, <1>5, LostStep

\* Two visits of a status have the same number only if the event of the earlier
\* one was lost (transitions.py:322-337).
THEOREM VisitsAreNumbered == Spec => []VisitNumberReusedOnlyAfterLoss
<1>1. Init => VisitInv /\ VisitNumberReusedOnlyAfterLoss
  BY DEF Init, VisitInv, VisitNumberReusedOnlyAfterLoss, Logged, Completed, Saving
<1>2. CoreInv /\ VisitInv /\ VisitNumberReusedOnlyAfterLoss /\ [Next]_vars
        => VisitInv' /\ VisitNumberReusedOnlyAfterLoss'
  BY VisitStep
<1> QED
  BY <1>1, <1>2, Core, PTL DEF Spec

\* A pair of different things has two elements.
LEMMA TwoElements ==
  ASSUME NEW a, NEW b, a # b
  PROVE  Cardinality({a, b}) = 2
<1>1. IsFiniteSet({a}) /\ Cardinality({a}) = 1
  BY FS_Singleton
<1>2. Cardinality({a} \cup {b}) = Cardinality({a}) + 1
  BY <1>1, FS_AddElement
<1>3. {a} \cup {b} = {a, b}
  OBVIOUS
<1> QED
  BY <1>1, <1>2, <1>3

\* The last event is at most one move behind the file, or two moves are lost.
LEMMA DriftNeedsTwo ==
  ASSUME CoreInv
  PROVE  DriftBlamesOnlyDoubleLoss
<1> SUFFICES ASSUME UnexpectedTransition
             PROVE  Cardinality(Lost) >= 2
  BY DEF DriftBlamesOnlyDoubleLoss
<1>1. PICK i \in Completed :
        /\ \A j \in Completed : j <= i
        /\ session.status # log[i].to
        /\ <<log[i].to, session.status>> \notin Routes
  BY DEF UnexpectedTransition
<1> DEFINE m == log[i].move
           k == Len(moves)
<1>2. /\ k \in Nat /\ DOMAIN moves = 1..k /\ m \in 1..k
      /\ log[i].to = moves[m].to
      /\ IsFiniteSet(Lost) /\ Cardinality(Lost) \in Nat
  BY LostIsFinite DEF CoreInv, LogTellsMovesInOrder
<1>3. session.status = moves[k].to
  BY <1>2 DEF CoreInv, MovesFormOneChain
<1>4. m # k
  BY <1>1, <1>2, <1>3
<1>5. m + 1 # k
  <2>1. m + 1 = k => <<moves[m].to, moves[k].to>> \in Routes
    <3> SUFFICES ASSUME m + 1 = k
                 PROVE  <<moves[m].to, moves[k].to>> \in Routes
      OBVIOUS
    <3>1. k \in DOMAIN moves /\ k > 1 /\ k - 1 = m
      BY <1>2
    <3>2. <<moves[k].from, moves[k].to>> \in Routes /\ moves[k].from = moves[k-1].to
      BY <3>1 DEF CoreInv, MovesFormOneChain
    <3> QED
      BY <3>1, <3>2
  <2> QED
    BY <1>1, <1>2, <1>3, <2>1
<1>6. ASSUME NEW j \in 1..k, j > m
      PROVE  j \in Lost
  <2>1. j \notin Logged
    <3>1. ASSUME NEW x \in Completed
          PROVE  log[x].move \in Nat /\ log[x].move <= m
      <4>1. log[x].move \in 1..k /\ x \in Nat /\ i \in Nat
        BY <1>2 DEF CoreInv, LogTellsMovesInOrder, Completed, SafeInv, TypeOK
      <4>2. x = i \/ x < i
        BY <1>1, <4>1
      <4>3. x < i => log[x].move < m
        BY DEF CoreInv, LogTellsMovesInOrder
      <4> QED
        BY <1>2, <4>1, <4>2, <4>3
    <3> QED
      BY <1>2, <1>6, <3>1 DEF Logged
  <2> QED
    BY <1>2, <2>1 DEF Lost
<1>7. m + 1 \in Lost /\ m + 2 \in Lost
  BY <1>2, <1>4, <1>5, <1>6
<1>8. Cardinality({m + 1, m + 2}) = 2
  <2>1. m + 1 # m + 2
    BY <1>2
  <2> QED
    BY <2>1, TwoElements
<1>9. {m + 1, m + 2} \subseteq Lost
  BY <1>7
<1> QED
  <2>1. Cardinality({m + 1, m + 2}) <= Cardinality(Lost)
    BY <1>2, <1>9, FS_Subset
  <2> QED
    BY <1>2, <1>8, <2>1

\* The drift report names a session that only went through the executor only if
\* two events in a row are missing from its log (drift.py:193-232).
THEOREM DriftIsFair == Spec => []DriftBlamesOnlyDoubleLoss
BY Core, DriftNeedsTwo, PTL
-----------------------------------------------------------------------------
(* Answers.                                                                *)

\* The statuses of a call before its save, and after it is clear there is none.
Early == {"asked", "waiting", "locked", "gate", "effects", "script", "refuse"}

\* Each move belongs to one caller, who has no answer while the call goes on;
\* a caller that takes an emit's timeout for its own has logged nothing.
AnswerInv ==
  \A c \in Callers :
    /\ pc[c] # "idle" => reply[c] = "none"
    /\ pc[c] \in Early => move[c] = 0
    /\ pc[c] = "timedout" => move[c] \notin Logged
    /\ move[c] <= Len(moves)
    /\ \A d \in Callers \ {c} : move[c] = move[d] => move[c] = 0
    /\ reply[c] = "ok" => move[c] \in Logged
    /\ reply[c] = "refused" => move[c] = 0
    /\ reply[c] \in {"raised", "lock_timeout"} => move[c] \notin Logged

\* Answers are given with the log as it is, and no one else logs the move later.
LEMMA AnswerStep ==
  ASSUME CoreInv, AnswerInv, [Next]_vars
  PROVE  AnswerInv'
<1>0. /\ TypeOK /\ Len(moves) \in Nat /\ Logged \subseteq 1..Len(moves)
  BY LostIsFinite DEF CoreInv, SafeInv
<1> USE <1>0 DEF TypeOK, AnswerInv, Early, GoTo, Leave, Return, diskVars, histVars
<1>q. ASSUME UNCHANGED log PROVE Logged' = Logged
  BY <1>q, QuietLog DEF SameLog
<1>1. CASE UNCHANGED vars
  BY <1>1, <1>q DEF vars, procVars
<1>2. ASSUME NEW c \in Callers, NEW t \in Targets, NEW flag \in ResetFlags,
             Request(c, t, flag)
      PROVE  AnswerInv'
  BY <1>2, <1>q DEF Request
<1>3. ASSUME NEW c \in Callers, Progress(c)
      PROVE  AnswerInv'
  <2>1. CASE LogRequested(c)
    BY <2>1, <1>q DEF LogRequested
  <2>2. CASE Acquire(c)
    BY <2>2, <1>q DEF Acquire
  <2>3. CASE AcquireTimesOut(c)
    BY <2>3, <1>q DEF AcquireTimesOut
  <2>4. CASE Load(c)
    BY <2>4, <1>q DEF Load
  <2>5. CASE GatePasses(c)
    BY <2>5, <1>q DEF GatePasses
  <2>6. CASE GateRefuses(c)
    BY <2>6, <1>q DEF GateRefuses
  <2>7. CASE RunScript(c)
    BY <2>7, <1>q DEF RunScript
  <2>8. CASE ScriptSucceeds(c)
    BY <2>8, <1>q DEF ScriptSucceeds
  <2>9. CASE ScriptFails(c)
    BY <2>9, <1>q DEF ScriptFails
  <2>10. CASE Commit(c)
    <3>1. Len(moves') = Len(moves) + 1
      BY <2>10, SavedMove DEF CoreInv, Commit
    <3> QED
      BY <2>10, <1>q, <3>1 DEF Commit, SaveFlip
  <2>11. CASE Hooks(c)
    BY <2>11, <1>q DEF Hooks
  <2>12. CASE Report(c)
    <3>1. Logged' = Logged \cup {move[c]} /\ move[c] \in 1..Len(moves)
      BY <2>12, ReportLogged, LostIsFinite DEF Report, CoreInv, OwnInv
    <3>2. UNCHANGED <<move, moves>>
      BY <2>12 DEF Report
    <3>3. \A d \in Callers \ {c} : move[d] # move[c]
      BY <3>1
    <3> QED
      BY <2>12, <3>1, <3>2, <3>3 DEF Report
  <2>13. CASE Refuse(c)
    BY <2>13, <1>q DEF Refuse
  <2>14. CASE LogTimeout(c)
    BY <2>14, <1>q DEF LogTimeout
  <2> QED
    BY <1>3, <2>1, <2>2, <2>3, <2>4, <2>5, <2>6, <2>7, <2>8, <2>9, <2>10, <2>11, <2>12, <2>13, <2>14
       DEF Progress
<1>4. ASSUME NEW c \in Callers, Fault(c)
      PROVE  AnswerInv'
  <2>1. CASE LogRequestedFails(c)
    BY <2>1, <1>q DEF LogRequestedFails
  <2>2. CASE Raises(c)
    BY <2>2, <1>q DEF Raises
  <2>3. CASE CommitRaises(c)
    <3>1. Len(moves') = Len(moves) + 1
      BY <2>3, SavedMove DEF CoreInv, CommitRaises
    <3> QED
      BY <2>3, <1>q, <3>1 DEF CommitRaises, SaveFlip
  <2>4. CASE InnerEmitTimesOut(c)
    <3>1. pc[c] = "report" => move[c] = Len(moves) /\ move[c] \notin Logged
      BY DEF CoreInv, OwnInv, Logged
    <3> QED
      BY <2>4, <1>q, <3>1 DEF InnerEmitTimesOut
  <2>5. CASE LogTimeoutFails(c)
    BY <2>5, <1>q DEF LogTimeoutFails
  <2>6. CASE Crash(c)
    BY <2>6, <1>q DEF Crash
  <2> QED
    BY <1>4, <2>1, <2>2, <2>3, <2>4, <2>5, <2>6
       DEF Fault
<1>5. CASE OrphanExits
  BY <1>5, <1>q DEF OrphanExits, procVars
<1>6. ASSUME NEW t \in Targets, InvokeCheck(t)
      PROVE  AnswerInv'
  <2>1. Logged' = Logged
    BY <1>6, CheckLogged DEF CoreInv, SameLog
  <2> QED
    BY <1>6, <2>1 DEF InvokeCheck, procVars
<1>7. CASE AckPrompts
  BY <1>7, <1>q DEF AckPrompts, procVars
<1> QED
  BY <1>1, <1>2, <1>3, <1>4, <1>5, <1>6, <1>7 DEF Next

\* A caller that is told ok has moved the file and is in the log; one that is
\* refused has not moved it; one that gets an exception or a lock_timeout is not
\* in the log (transitions.py:401-458).
THEOREM AnswersAreTrue == Spec => []AnswersAgreeWithTheFile
<1>1. Init => AnswerInv
  BY DEF Init, AnswerInv, Early
<1>2. AnswerInv => AnswersAgreeWithTheFile
  BY DEF AnswerInv, AnswersAgreeWithTheFile
<1>3. CoreInv /\ AnswerInv /\ [Next]_vars => AnswerInv'
  BY AnswerStep
<1> QED
  BY <1>1, <1>2, <1>3, Core, PTL DEF Spec
-----------------------------------------------------------------------------
(* Engagements.                                                            *)

\* A fault is an excuse for good; a save is followed by its hook; the hook
\* closes what it finds open; nothing else touches the file.
LEMMA ClosedStep ==
  ASSUME CoreInv, ClosedWhenTerminal, [Next]_vars
  PROVE  ClosedWhenTerminal'
<1>0. /\ TypeOK /\ LockInv /\ SnapInv /\ OwnInv
      /\ Losses \in Nat /\ Losses' \in {Losses, Losses + 1}
  <2>1. TypeOK /\ LockInv /\ SnapInv /\ OwnInv /\ Losses \in Nat
    BY DEF CoreInv, SafeInv, TypeOK, Losses, Bounded
  <2>2. StepKind
    BY StepKinds DEF CoreInv
  <2> QED
    BY <2>1, <2>2 DEF StepKind, Calm, Saves, Reports
<1>q. ASSUME UNCHANGED session,
             \A d \in Callers : holder = d /\ pc[d] = "hooks"
                                => holder' = d /\ pc'[d] = "hooks"
      PROVE  ClosedWhenTerminal'
  BY <1>0, <1>q DEF ClosedWhenTerminal, Losses
<1>f. ASSUME Losses' = Losses + 1 PROVE ClosedWhenTerminal'
  BY <1>0, <1>f DEF ClosedWhenTerminal, Losses
<1> USE <1>0 DEF TypeOK, GoTo, Leave, Return, diskVars, histVars
<1>1. CASE UNCHANGED vars
  BY <1>1, <1>q DEF vars, procVars
<1>2. ASSUME NEW c \in Callers, NEW t \in Targets, NEW flag \in ResetFlags,
             Request(c, t, flag)
      PROVE  ClosedWhenTerminal'
  BY <1>2, <1>q DEF Request
<1>3. ASSUME NEW c \in Callers, Progress(c)
      PROVE  ClosedWhenTerminal'
  <2>1. CASE LogRequested(c)
    BY <2>1, <1>q DEF LogRequested
  <2>2. CASE Acquire(c)
    BY <2>2, <1>q, CallersAssumption DEF Acquire, LockInv, Inside
  <2>3. CASE AcquireTimesOut(c)
    BY <2>3, <1>q DEF AcquireTimesOut
  <2>4. CASE Load(c)
    BY <2>4, <1>q DEF Load
  <2>5. CASE GatePasses(c)
    BY <2>5, <1>q DEF GatePasses
  <2>6. CASE GateRefuses(c)
    BY <2>6, <1>q DEF GateRefuses
  <2>7. CASE RunScript(c)
    BY <2>7, <1>q DEF RunScript
  <2>8. CASE ScriptSucceeds(c)
    BY <2>8, <1>q DEF ScriptSucceeds
  <2>9. CASE ScriptFails(c)
    BY <2>9, <1>q DEF ScriptFails
  <2>10. CASE Commit(c)
    <3>1. pc'[c] = "hooks" /\ holder' = holder
      BY <2>10 DEF Commit
    <3>2. holder = c
      BY <2>10 DEF Commit, SaveFlip, LockInv, Inside
    <3> QED
      BY <3>1, <3>2 DEF ClosedWhenTerminal
  <2>11. CASE Hooks(c)
    <3>1. target[c] = snap[c].status /\ snap[c] = session
      <4>1. pc[c] = "hooks"
        BY <2>11 DEF Hooks
      <4>2. snap[c] = session
        BY <4>1 DEF SnapInv, Inside
      <4>3. session.status = moves[Len(moves)].to /\ moves[Len(moves)].to = target[c]
        BY <4>1 DEF OwnInv, CoreInv, MovesFormOneChain
      <4> QED
        BY <4>2, <4>3
    <3>2. CASE target[c] \in ClosingStatuses /\ snap[c].engagement = "open"
      <4>1. session' = [snap[c] EXCEPT !.engagement = "closed"] /\ snap[c] \in Session
        BY <2>11, <3>1, <3>2 DEF Hooks
      <4> QED
        BY <4>1 DEF ClosedWhenTerminal, Session
    <3>3. CASE ~(target[c] \in ClosingStatuses /\ snap[c].engagement = "open")
      <4>1. session' = session
        BY <2>11, <3>3 DEF Hooks
      <4> QED
        BY <4>1, <3>1, <3>3 DEF ClosedWhenTerminal
    <3> QED
      BY <3>2, <3>3
  <2>12. CASE Report(c)
    BY <2>12, <1>q, CallersAssumption DEF Report, LockInv, Inside
  <2>13. CASE Refuse(c)
    BY <2>13, <1>q, CallersAssumption DEF Refuse, LockInv, Inside
  <2>14. CASE LogTimeout(c)
    BY <2>14, <1>q DEF LogTimeout
  <2> QED
    BY <1>3, <2>1, <2>2, <2>3, <2>4, <2>5, <2>6, <2>7, <2>8, <2>9, <2>10, <2>11, <2>12, <2>13, <2>14
       DEF Progress
<1>4. ASSUME NEW c \in Callers, Fault(c)
      PROVE  ClosedWhenTerminal'
  <2>1. CASE LogRequestedFails(c)
    BY <2>1, <1>f, LossesCounted DEF LogRequestedFails
  <2>2. CASE Raises(c)
    BY <2>2, <1>q, CallersAssumption DEF Raises, LockInv, Inside
  <2>3. CASE CommitRaises(c)
    BY <2>3, <1>f, LossesCounted DEF CommitRaises
  <2>4. CASE InnerEmitTimesOut(c)
    BY <2>4, <1>f, LossesCounted DEF InnerEmitTimesOut
  <2>5. CASE LogTimeoutFails(c)
    BY <2>5, <1>f, LossesCounted DEF LogTimeoutFails
  <2>6. CASE Crash(c)
    BY <2>6, <1>f, LossesCounted DEF Crash
  <2> QED
    BY <1>4, <2>1, <2>2, <2>3, <2>4, <2>5, <2>6
       DEF Fault
<1>5. CASE OrphanExits
  BY <1>5, <1>q DEF OrphanExits, procVars
<1>6. ASSUME NEW t \in Targets, InvokeCheck(t)
      PROVE  ClosedWhenTerminal'
  BY <1>6, <1>q DEF InvokeCheck, procVars
<1>7. CASE AckPrompts
  BY <1>7, <1>q DEF AckPrompts, procVars
<1> QED
  BY <1>1, <1>2, <1>3, <1>4, <1>5, <1>6, <1>7 DEF Next

\* An engagement left open in a terminal status is the work of a fault between
\* the save and close_active_engagement (post_write_hooks.py).
THEOREM EngagementsAreClosed == Spec => []ClosedWhenTerminal
<1>1. Init => ClosedWhenTerminal
  BY DEF Init, ClosedWhenTerminal
<1>2. CoreInv /\ ClosedWhenTerminal /\ [Next]_vars => ClosedWhenTerminal'
  BY ClosedStep
<1> QED
  BY <1>1, <1>2, Core, PTL DEF Spec
-----------------------------------------------------------------------------
(* Side-effect scripts.                                                    *)

\* A script runs under the process that started it or was orphaned by a crash.
ScriptInv ==
  /\ IsFiniteSet(scripts)
  /\ Cardinality(Orphans) <= spent["crashes"]
  /\ \A s \in scripts :
       \/ pc[s.by] = "dead"
       \/ pc[s.by] = "script" /\ s = Script(s.by, done[s.by] + 1)

\* One script more makes the set of scripts at most one larger.
LEMMA OneMore ==
  ASSUME NEW S, IsFiniteSet(S), NEW x, NEW T, T \subseteq S \cup {x}
  PROVE  IsFiniteSet(T) /\ Cardinality(T) <= Cardinality(S) + 1
<1>1. IsFiniteSet(S \cup {x}) /\ Cardinality(S) \in Nat
  BY FS_AddElement, FS_CardinalityType
<1>2. Cardinality(S \cup {x}) <= Cardinality(S) + 1
  BY <1>1, FS_AddElement
<1>3. IsFiniteSet(T) /\ Cardinality(T) <= Cardinality(S \cup {x})
  BY <1>1, FS_Subset
<1> QED
  BY <1>1, <1>2, <1>3, FS_CardinalityType

\* Only a crash orphans a script, and only the one its process runs.
LEMMA ScriptStep ==
  ASSUME SafeInv, ScriptInv, [Next]_vars
  PROVE  ScriptInv'
<1>0. TypeOK /\ spent["crashes"] \in Nat
  BY DEF SafeInv, TypeOK, Bounded
<1>t. \A s \in scripts : s.by \in Callers
  BY <1>0 DEF TypeOK
<1>r. ASSUME NEW c \in Callers, pc[c] \in {"effects", "script"}
      PROVE  Route(c) \in Routes
  BY <1>r DEF SafeInv, RouteInv
<1>q. ASSUME UNCHANGED scripts, spent'["crashes"] = spent["crashes"],
             \A d \in Callers :
               /\ pc'[d] = "dead" <=> pc[d] = "dead"
               /\ pc[d] = "script" => /\ pc'[d] = "script" /\ target'[d] = target[d]
                                      /\ snap'[d] = snap[d] /\ done'[d] = done[d]
      PROVE  ScriptInv'
  <2>1. Orphans' = Orphans
    BY <1>q, <1>t DEF Orphans
  <2> QED
    BY <1>q, <1>t, <2>1 DEF ScriptInv, Script, Route
<1>e. ASSUME NEW c \in Callers, pc[c] = "script", pc' = [pc EXCEPT ![c] = "effects"]
                                              \/ pc' = [pc EXCEPT ![c] = "refuse"],
             scripts' = scripts \ {Script(c, done[c] + 1)},
             UNCHANGED <<target, snap, spent>>,
             \A d \in Callers \ {c} : done'[d] = done[d]
      PROVE  ScriptInv'
  <2>1. IsFiniteSet(scripts')
    BY <1>e, FS_RemoveElement DEF ScriptInv
  <2>2. Orphans' \subseteq Orphans /\ IsFiniteSet(Orphans)
    <3>1. IsFiniteSet(Orphans)
      BY FS_Subset DEF ScriptInv, Orphans
    <3> QED
      BY <1>0, <1>e, <1>t, <3>1 DEF Orphans, TypeOK
  <2>3. Cardinality(Orphans') <= spent["crashes"]
    <3>1. Cardinality(Orphans') <= Cardinality(Orphans)
      BY <2>2, FS_Subset
    <3>2. IsFiniteSet(Orphans')
      BY <2>2, FS_Subset
    <3> QED
      BY <1>0, <2>2, <3>1, <3>2, FS_CardinalityType DEF ScriptInv
  <2>4. ASSUME NEW s \in scripts'
        PROVE  \/ pc'[s.by] = "dead"
               \/ pc'[s.by] = "script" /\ s = Script(s.by, done[s.by] + 1)'
    <3>1. s \in scripts /\ s # Script(c, done[c] + 1) /\ s.by \in Callers \ {c}
      BY <1>e, <1>t DEF ScriptInv
    <3> QED
      BY <1>0, <1>e, <3>1 DEF ScriptInv, Script, Route, TypeOK
  <2> QED
    BY <1>e, <2>1, <2>3, <2>4 DEF ScriptInv
<1> USE <1>0 DEF TypeOK, GoTo, Leave, Return, diskVars, histVars, Spend, Bounded
<1>1. CASE UNCHANGED vars
  BY <1>1, <1>q DEF vars, procVars
<1>2. ASSUME NEW c \in Callers, NEW t \in Targets, NEW flag \in ResetFlags,
             Request(c, t, flag)
      PROVE  ScriptInv'
  BY <1>2, <1>q DEF Request
<1>3. ASSUME NEW c \in Callers, Progress(c)
      PROVE  ScriptInv'
  <2>1. CASE LogRequested(c)
    BY <2>1, <1>q DEF LogRequested
  <2>2. CASE Acquire(c)
    BY <2>2, <1>q DEF Acquire
  <2>3. CASE AcquireTimesOut(c)
    BY <2>3, <1>q DEF AcquireTimesOut
  <2>4. CASE Load(c)
    BY <2>4, <1>q DEF Load
  <2>5. CASE GatePasses(c)
    BY <2>5, <1>q DEF GatePasses
  <2>6. CASE GateRefuses(c)
    BY <2>6, <1>q DEF GateRefuses
  <2>7. CASE RunScript(c)
    <3>1. /\ pc[c] = "effects" /\ pc' = [pc EXCEPT ![c] = "script"]
          /\ scripts' = scripts \cup {Script(c, done[c] + 1)}
          /\ UNCHANGED <<target, snap, done, spent>>
      BY <2>7 DEF RunScript
    <3>2. \A s \in scripts : s.by # c
      BY <3>1 DEF ScriptInv
    <3>3. Script(c, done[c] + 1).by = c /\ Script(c, done[c] + 1)' = Script(c, done[c] + 1)
      BY <3>1 DEF Script, Route
    <3>4. Orphans' = Orphans
      BY <3>1, <3>2, <3>3, <1>t DEF Orphans
    <3>5. IsFiniteSet(scripts')
      BY <3>1, FS_AddElement DEF ScriptInv
    <3>6. ASSUME NEW s \in scripts'
          PROVE  \/ pc'[s.by] = "dead"
                 \/ pc'[s.by] = "script" /\ s = Script(s.by, done[s.by] + 1)'
      <4>1. CASE s \in scripts
        BY <4>1, <3>1, <3>2, <1>t DEF ScriptInv, Script, Route
      <4>2. CASE s = Script(c, done[c] + 1)
        BY <4>2, <3>1, <3>3
      <4> QED
        BY <3>1, <4>1, <4>2
    <3> QED
      BY <3>1, <3>4, <3>5, <3>6 DEF ScriptInv
  <2>8. CASE ScriptSucceeds(c)
    BY <2>8, <1>e DEF ScriptSucceeds
  <2>9. CASE ScriptFails(c)
    BY <2>9, <1>e DEF ScriptFails
  <2>10. CASE Commit(c)
    BY <2>10, <1>q DEF Commit, SaveFlip
  <2>11. CASE Hooks(c)
    BY <2>11, <1>q DEF Hooks
  <2>12. CASE Report(c)
    BY <2>12, <1>q DEF Report
  <2>13. CASE Refuse(c)
    BY <2>13, <1>q DEF Refuse
  <2>14. CASE LogTimeout(c)
    BY <2>14, <1>q DEF LogTimeout
  <2> QED
    BY <1>3, <2>1, <2>2, <2>3, <2>4, <2>5, <2>6, <2>7, <2>8, <2>9, <2>10, <2>11, <2>12, <2>13, <2>14
       DEF Progress
<1>4. ASSUME NEW c \in Callers, Fault(c)
      PROVE  ScriptInv'
  <2>1. CASE LogRequestedFails(c)
    BY <2>1, <1>q DEF LogRequestedFails
  <2>2. CASE Raises(c)
    BY <2>2, <1>q DEF Raises
  <2>3. CASE CommitRaises(c)
    BY <2>3, <1>q DEF CommitRaises, SaveFlip
  <2>4. CASE InnerEmitTimesOut(c)
    BY <2>4, <1>q DEF InnerEmitTimesOut
  <2>5. CASE LogTimeoutFails(c)
    BY <2>5, <1>q DEF LogTimeoutFails
  <2>6. CASE Crash(c)
    <3>1. /\ pc' = [pc EXCEPT ![c] = "dead"] /\ UNCHANGED scripts
          /\ spent'["crashes"] = spent["crashes"] + 1
          /\ \A d \in Callers \ {c} : /\ target'[d] = target[d] /\ snap'[d] = snap[d]
                                      /\ done'[d] = done[d]
      BY <2>6 DEF Crash
    <3>2. Orphans' \subseteq Orphans \cup {Script(c, done[c] + 1)} /\ IsFiniteSet(Orphans)
      <4>1. IsFiniteSet(Orphans)
        BY FS_Subset DEF ScriptInv, Orphans
      <4>2. ASSUME NEW s \in scripts, pc'[s.by] = "dead"
            PROVE  s \in Orphans \cup {Script(c, done[c] + 1)}
        <5>1. CASE s.by = c
          BY <5>1 DEF ScriptInv, Orphans
        <5>2. CASE s.by # c
          BY <5>2, <3>1, <4>2, <1>t DEF Orphans
        <5> QED
          BY <5>1, <5>2
      <4> QED
        BY <3>1, <4>1, <4>2 DEF Orphans
    <3>3. Cardinality(Orphans') <= spent'["crashes"]
      <4>1. Cardinality(Orphans') <= Cardinality(Orphans) + 1 /\ IsFiniteSet(Orphans')
        BY <3>2, OneMore
      <4> QED
        BY <3>1, <3>2, <4>1, FS_CardinalityType DEF ScriptInv
    <3>4. \A s \in scripts' :
            \/ pc'[s.by] = "dead"
            \/ pc'[s.by] = "script" /\ s = Script(s.by, done[s.by] + 1)'
      BY <3>1, <1>t DEF ScriptInv, Script, Route
    <3> QED
      BY <3>1, <3>3, <3>4 DEF ScriptInv
  <2> QED
    BY <1>4, <2>1, <2>2, <2>3, <2>4, <2>5, <2>6
       DEF Fault
<1>5. CASE OrphanExits
  <2>1. PICK s \in Orphans : scripts' = scripts \ {s}
    BY <1>5 DEF OrphanExits
  <2>2. UNCHANGED <<pc, target, snap, done, spent>>
    BY <1>5 DEF OrphanExits, procVars
  <2>3. Orphans' \subseteq Orphans /\ IsFiniteSet(Orphans) /\ IsFiniteSet(scripts')
    BY <2>1, <2>2, FS_Subset DEF ScriptInv, Orphans
  <2>4. Cardinality(Orphans') <= spent["crashes"]
    <3>1. Cardinality(Orphans') <= Cardinality(Orphans) /\ IsFiniteSet(Orphans')
      BY <2>3, FS_Subset
    <3> QED
      BY <2>3, <3>1, FS_CardinalityType DEF ScriptInv
  <2> QED
    BY <2>1, <2>2, <2>3, <2>4 DEF ScriptInv, Script, Route
<1>6. ASSUME NEW t \in Targets, InvokeCheck(t)
      PROVE  ScriptInv'
  BY <1>6, <1>q DEF InvokeCheck, procVars
<1>7. CASE AckPrompts
  BY <1>7, <1>q DEF AckPrompts, procVars
<1> QED
  BY <1>1, <1>2, <1>3, <1>4, <1>5, <1>6, <1>7 DEF Next

\* Two scripts run at once only if all but one of their executors were killed:
\* the lock is held while a script runs (transitions.py:415-447).
THEOREM ScriptsOverlapAfterCrash == Spec => []ScriptOverlapNeedsCrash
<1>1. Init => ScriptInv
  BY FS_EmptySet DEF Init, ScriptInv, Orphans, Bounded
<1>2. SafeInv /\ ScriptInv /\ [Next]_vars => ScriptInv'
  BY ScriptStep
<1>3. SafeInv /\ ScriptInv => ScriptOverlapNeedsCrash
  <2> SUFFICES ASSUME SafeInv, ScriptInv PROVE ScriptOverlapNeedsCrash
    OBVIOUS
  <2>1. spent["crashes"] \in Nat /\ \A s \in scripts : s.by \in Callers
    BY DEF SafeInv, TypeOK, Bounded
  <2>2. IsFiniteSet(Orphans)
    BY FS_Subset DEF ScriptInv, Orphans
  <2>3. scripts \subseteq Orphans \cup {Script(holder, done[holder] + 1)}
    BY <2>1 DEF SafeInv, LockInv, Inside, ScriptInv, Orphans
  <2>4. Cardinality(scripts) <= Cardinality(Orphans) + 1 /\ IsFiniteSet(scripts)
    BY <2>2, <2>3, OneMore
  <2> QED
    BY <2>1, <2>2, <2>4, FS_CardinalityType DEF ScriptInv, ScriptOverlapNeedsCrash
<1> QED
  BY <1>1, <1>2, <1>3, Safe, PTL DEF Spec
=============================================================================
