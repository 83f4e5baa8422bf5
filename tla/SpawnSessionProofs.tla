-------------------------- MODULE SpawnSessionProofs --------------------------
(***************************************************************************)
(* What is proved of SpawnSession, for any number of callers, worktrees,   *)
(* verbs and crashes: a session gets one first agent; no agent is          *)
(* forgotten, no queued session is blocked and no abandoned one still      *)
(* runs, but for the reasons the properties name.                          *)
(*                                                                         *)
(* No lock keeps two spawns apart: what does is the branch of the first    *)
(* worktree, which nothing deletes (OneBegins).  Until that agent is saved *)
(* nobody has a conversation to resume (NoneKnown), so nobody's record     *)
(* names another agent; later ones come of a resume, which has seen the    *)
(* one it replaces (ReplacesKnown).                                        *)
(***************************************************************************)
EXTENDS SpawnSession, TLAPS

\* What a spawn without --resume does.
Fresh(p) == verb[p].name = "spawn" /\ ~verb[p].resume
\* It has made the first worktree.
Begun(p) == Fresh(p) /\ (verb[p].i > 1 \/ verb[p].step = "draft")
\* Its agent runs and is not recorded.
Unsaved(p) == Fresh(p) /\ verb[p].step = "save"

Statuses == {"none", "queued"} \cup {r[2] : r \in Routes}
Sessions == [status : Statuses, trees : SUBSET Trees, pid : 0..started, csid : 0..started]
Steps == {"idle", "look", "make", "draft", "start", "save", "move", "signal", "fail",
          "kill", "remove"}
Verbs == [name : {"none", "spawn", "pause", "abandon", "cleanup"}, step : Steps,
          resume : BOOLEAN, i : Nat \ {0}, attach : BOOLEAN, pid : 0..started, snap : Sessions]
Histories ==
  [fresh : Nat, doubled : SUBSET Pids, orphans : SUBSET (0..started), stale : BOOLEAN,
   half : BOOLEAN, back : BOOLEAN, soft : BOOLEAN, raced : BOOLEAN]

\* The budgets are of no consequence here.
TypeOK ==
  /\ file \in Sessions
  /\ dir \subseteq Trees /\ branch \subseteq Trees
  /\ started \in 0..MaxAgents /\ alive \subseteq 1..started
  /\ verb \in [Callers -> Verbs]
  /\ why \in Histories

\* Where a spawn is among its worktrees.
Position(p) ==
  verb[p].name = "spawn" =>
    /\ verb[p].step \in {"look", "make", "draft", "start", "save", "move"}
    /\ verb[p].step \in {"make", "draft"} => verb[p].i <= Len(Repos)
    /\ verb[p].step \in {"start", "save", "move"} => verb[p].i > Len(Repos)
    /\ Fresh(p) /\ verb[p].step = "make" => ~verb[p].attach
    /\ verb[p].snap.status \in
         (IF verb[p].resume THEN {"executing", "in_review", "paused", "failed"} ELSE {"queued"})

\* The branch of the first worktree stands for the first spawn that has made it.
OneBegins ==
  /\ why.fresh = 1 \/ (\E p \in Callers : Begun(p)) => Repos[1] \in branch
  /\ \A p, q \in Callers : Begun(p) /\ Begun(q) => p = q
  /\ \A p \in Callers :
       Begun(p) => why.fresh = (IF verb[p].step \in {"save", "move"} THEN 1 ELSE 0)
  /\ FreshAgentOnce

\* Until it is saved nobody knows of an agent or a conversation.
NoneKnown ==
  why.fresh = 0 \/ (\E p \in Callers : Unsaved(p)) =>
    /\ file.pid = 0 /\ file.csid = 0
    /\ \A p \in Callers :
         /\ verb[p].snap.pid = 0 /\ verb[p].snap.csid = 0
         /\ verb[p].name = "spawn" /\ verb[p].resume
              => verb[p].step \notin {"start", "save", "move"}

\* The agent a resume replaces in the record is dead, or was running when it began.
ReplacesKnown(p) ==
  verb[p].name = "spawn" /\ verb[p].resume /\ verb[p].snap.pid \in alive
    => verb[p].snap.pid \in why.doubled

\* A session that is queued has been so from the start.
QueuedFromStart ==
  file.status = "queued" /\ ~why.back /\ ~why.stale
    => \A p \in Callers : verb[p].name = "spawn" => ~verb[p].resume

\* The agent that abandon has killed stays dead.
KilledStaysDead(p) ==
  /\ verb[p].name = "abandon" /\ verb[p].step \in {"remove", "move"}
  /\ verb[p].snap.status = "executing"
  => verb[p].snap.pid \notin alive

\* What each caller's own state has to satisfy.
OwnOK(p) == Position(p) /\ ReplacesKnown(p) /\ KilledStaysDead(p)

Inv ==
  /\ TypeOK
  /\ \A p \in Callers : OwnOK(p)
  /\ OneBegins
  /\ NoneKnown
  /\ QueuedFromStart
  /\ AgentsAreRecorded
  /\ QueuedIsSpawnable
  /\ AbandonedStopsItsAgent

-----------------------------------------------------------------------------
(* Callers.                                                                *)

\* Nobody but p does anything.
Acts(p) == \A q \in Callers \ {p} : verb'[q] = verb[q]

\* A caller between two verbs.
LEMMA IdleIs ==
  /\ Idle.name = "none" /\ Idle.step = "idle" /\ ~Idle.resume /\ Idle.i = 1
  /\ Idle.pid = 0 /\ Idle.snap.pid = 0 /\ Idle.snap.csid = 0
BY DEF Idle, NoSession

LEMMA IdleType == ASSUME TypeOK PROVE Idle \in Verbs
<1>1. 0 \in 0..started /\ 1 \in Nat \ {0}
  BY DEF TypeOK
<1>2. NoSession \in Sessions
  BY <1>1 DEF NoSession, Sessions, Statuses
<1> QED BY <1>1, <1>2 DEF Idle, Verbs, Steps

\* What a caller becomes is all that changes.
LEMMA Becoming ==
  ASSUME TypeOK, NEW p \in Callers, NEW r, Becomes(p, r)
  PROVE  verb'[p] = r /\ Acts(p) /\ (r \in Verbs => verb' \in [Callers -> Verbs])
BY DEF TypeOK, Becomes, Acts

LEMMA Ending ==
  ASSUME TypeOK, NEW p \in Callers, Ends(p)
  PROVE  verb'[p] = Idle /\ Acts(p) /\ verb' \in [Callers -> Verbs]
BY IdleType, Becoming DEF Ends

LEMMA Going ==
  ASSUME TypeOK, NEW p \in Callers, NEW s \in Steps, Goes(p, s)
  PROVE  /\ Acts(p) /\ verb' \in [Callers -> Verbs]
         /\ verb'[p].step = s /\ verb'[p].name = verb[p].name
         /\ verb'[p].resume = verb[p].resume /\ verb'[p].i = verb[p].i
         /\ verb'[p].pid = verb[p].pid /\ verb'[p].snap = verb[p].snap
<1>1. verb[p] \in Verbs
  BY DEF TypeOK
<1>2. [verb[p] EXCEPT !.step = s] \in Verbs
  BY <1>1 DEF Verbs
<1> QED BY <1>1, <1>2, Becoming DEF Goes, Verbs

LEMMA Loading ==
  ASSUME TypeOK, NEW p \in Callers, NEW n \in {"spawn", "pause", "abandon", "cleanup"},
         NEW s \in Steps, NEW b \in BOOLEAN, verb[p] = Idle,
         Becomes(p, [Idle EXCEPT !.name = n, !.step = s, !.resume = b, !.snap = file])
  PROVE  /\ Acts(p) /\ verb' \in [Callers -> Verbs]
         /\ verb'[p].name = n /\ verb'[p].step = s /\ verb'[p].resume = b /\ verb'[p].i = 1
         /\ verb'[p].snap = file /\ verb[p].name = "none"
<1> DEFINE r == [Idle EXCEPT !.name = n, !.step = s, !.resume = b, !.snap = file]
<1>1. r \in Verbs
  BY IdleType DEF TypeOK, Verbs
<1>2. r.name = n /\ r.step = s /\ r.resume = b /\ r.i = 1 /\ r.snap = file
  BY DEF Idle
<1> QED BY <1>1, <1>2, Becoming, IdleIs

LEMMA Sorts ==
  ASSUME TypeOK, NEW p \in Callers
  PROVE  /\ verb[p] \in Verbs /\ verb[p].snap \in Sessions
         /\ verb[p].i \in Nat \ {0} /\ verb[p].resume \in BOOLEAN
         /\ verb[p].pid \in 0..started /\ verb[p].snap.pid \in 0..started
         /\ verb[p].snap.trees \subseteq Trees
BY DEF TypeOK, Verbs, Sessions

LEMMA SomeRepos == Len(Repos) \in Nat /\ Len(Repos) >= 1 /\ \A i \in 1..Len(Repos) : Repos[i] \in Trees
<1>1. Repos \in Seq(Trees) /\ Repos # <<>>
  BY SpawnAssumption
<1> QED BY <1>1

-----------------------------------------------------------------------------
(* The executor.                                                           *)

\* What only a fault or another caller's interference adds to.
Remembers ==
  /\ why'.fresh = why.fresh
  /\ why.doubled \subseteq why'.doubled /\ why.orphans \subseteq why'.orphans
  /\ (why.stale => why'.stale) /\ (why.half => why'.half) /\ (why.back => why'.back)
  /\ (why.soft => why'.soft) /\ (why.raced => why'.raced)

\* A move changes the status, and may take worktrees and the agent away.
LEMMA ExecutorIs ==
  ASSUME TypeOK, NEW p \in Callers, NEW to, Executor(p, to)
  PROVE  /\ file' \in Sessions /\ file'.status = to
         /\ file'.pid = file.pid /\ file'.csid = file.csid
         /\ alive' \subseteq alive /\ dir' \subseteq dir
         /\ why' \in Histories /\ Remembers
         /\ to = "queued" => why'.back
         /\ to = "abandoned" /\ file.pid \in alive' =>
              \/ why'.soft \/ why'.raced
              \/ /\ AtStep(p, "abandon", "move") /\ verb[p].snap.status = "executing"
                 /\ verb[p].snap.pid = file.pid
<1>1. file \in Sessions /\ why \in Histories
  BY DEF TypeOK
<1>2. to \in Statuses
  <2>1. <<file.status, to>> \in Routes /\ <<file.status, to>>[2] = to
    BY DEF Executor
  <2> QED BY <2>1 DEF Statuses
<1>3. /\ file' \in Sessions /\ file'.status = to
      /\ file'.pid = file.pid /\ file'.csid = file.csid
  BY <1>1, <1>2 DEF Executor, Sessions
<1>4. CASE to = "abandoned"
  <2>1. alive' \subseteq alive /\ dir' \subseteq dir
    BY <1>4 DEF Executor, TearsDown
  <2>2. PICK s \in BOOLEAN, r \in BOOLEAN :
          /\ why' = [why EXCEPT !.soft = s, !.raced = r]
          /\ why.soft => s
          /\ why.raced => r
          /\ file.pid \in alive' =>
              \/ s \/ r
              \/ /\ AtStep(p, "abandon", "move") /\ verb[p].snap.status = "executing"
                 /\ verb[p].snap.pid = file.pid
    <3> DEFINE s == \/ why.soft \/ (file.pid \in alive' /\ ~AtStep(p, "abandon", "move"))
                    \/ (file.pid \in alive' /\ verb[p].snap.status # "executing")
               r == why.raced \/ (AtStep(p, "abandon", "move") /\ verb[p].snap.pid # file.pid)
    <3>1. why' = [why EXCEPT !.soft = s, !.raced = r]
      BY <1>4 DEF Executor, TearsDown
    <3>2. s \in BOOLEAN /\ r \in BOOLEAN
      OBVIOUS
    <3> QED BY <3>1, <3>2
  <2>3. why' \in Histories /\ Remembers /\ why'.soft = s /\ why'.raced = r
    BY <1>1, <2>2 DEF Histories, Remembers
  <2> QED BY <1>3, <1>4, <2>1, <2>2, <2>3
<1>5. CASE to # "abandoned"
  <2>1. alive' = alive /\ dir' = dir /\ why' = [why EXCEPT !.back = @ \/ to = "queued"]
    BY <1>5 DEF Executor
  <2>2. why' \in Histories /\ Remembers /\ (to = "queued" => why'.back)
    BY <1>1, <2>1 DEF Histories, Remembers
  <2> QED BY <1>3, <1>5, <2>1, <2>2
<1> QED BY <1>4, <1>5

\* The last step of a verb.
LEMMA MoveIs ==
  ASSUME TypeOK, NEW p \in Callers, NEW to, MoveTo(p, to)
  PROVE  /\ verb'[p] = Idle /\ Acts(p) /\ verb' \in [Callers -> Verbs]
         /\ UNCHANGED <<branch, started>> /\ why' \in Histories /\ Remembers
         /\ alive' \subseteq alive /\ dir' \subseteq dir
         /\ \/ Executor(p, to)
            \/ UNCHANGED <<file, alive>> /\ (Fresh(p) => why'.half)
<1>1. verb'[p] = Idle /\ Acts(p) /\ verb' \in [Callers -> Verbs] /\ UNCHANGED <<branch, started>>
  BY Ending DEF MoveTo
<1>2. CASE Executor(p, to)
  BY <1>1, <1>2, ExecutorIs
<1>3. CASE /\ why' = [why EXCEPT !.half = @ \/ (verb[p].name = "spawn" /\ ~verb[p].resume)]
           /\ UNCHANGED <<file, dir, alive>>
  <2>1. why \in Histories
    BY DEF TypeOK
  <2>2. why' \in Histories /\ Remembers /\ (Fresh(p) => why'.half)
    BY <1>3, <2>1 DEF Histories, Remembers, Fresh
  <2> QED BY <1>1, <1>3, <2>2
<1> QED BY <1>2, <1>3 DEF MoveTo

\* A spawn that stops, or is killed.
LEMMA StopsIs ==
  ASSUME TypeOK, NEW p \in Callers, Stops(p)
  PROVE  /\ verb'[p] = Idle /\ Acts(p) /\ verb' \in [Callers -> Verbs]
         /\ why' \in Histories /\ Remembers
         /\ Fresh(p) => why'.half
         /\ AtStep(p, "spawn", "save") => verb[p].pid \in why'.orphans
<1>1. verb'[p] = Idle /\ Acts(p) /\ verb' \in [Callers -> Verbs]
  BY Ending DEF Stops
<1>2. why \in Histories /\ verb[p].pid \in 0..started
  BY Sorts DEF TypeOK
<1>3. why' \in Histories /\ Remembers
  BY <1>2 DEF Stops, Histories, Remembers
<1>4. Fresh(p) => why'.half
  BY <1>2 DEF Stops, Histories, Fresh
<1>5. AtStep(p, "spawn", "save") => verb[p].pid \in why'.orphans
  BY <1>2 DEF Stops, Histories
<1> QED BY <1>1, <1>3, <1>4, <1>5

-----------------------------------------------------------------------------
(* Types.                                                                  *)

LEMMA TypeKept ==
  ASSUME TypeOK, UNCHANGED started, file' \in Sessions, verb' \in [Callers -> Verbs],
         why' \in Histories, dir' \subseteq Trees, branch' \subseteq Trees, alive' \subseteq alive
  PROVE  TypeOK'
BY DEF TypeOK, Sessions, Verbs, Histories

\* An agent more.
LEMMA TypeGrows ==
  ASSUME TypeOK, started < MaxAgents, started' = started + 1
  PROVE  /\ Sessions \subseteq Sessions' /\ Verbs \subseteq Verbs'
         /\ Histories \subseteq Histories' /\ started' \in 0..MaxAgents /\ started' \in 1..started'
         /\ started \in Nat
<1>1. started \in Nat /\ MaxAgents \in Nat /\ 0..started \subseteq 0..started'
  BY SpawnAssumption DEF TypeOK
<1>2. Sessions \subseteq Sessions'
  BY <1>1 DEF Sessions
<1>3. Verbs \subseteq Verbs'
  BY <1>1, <1>2 DEF Verbs
<1>4. Histories \subseteq Histories'
  BY <1>1 DEF Histories
<1> QED BY <1>1, <1>2, <1>3, <1>4

LEMMA StartIs ==
  ASSUME TypeOK, NEW p \in Callers, StartAgent(p)
  PROVE  /\ TypeOK' /\ Acts(p)
         /\ verb'[p].name = "spawn" /\ verb'[p].step = "save" /\ verb'[p].pid = started'
         /\ verb'[p].resume = verb[p].resume /\ verb'[p].i = verb[p].i
         /\ verb'[p].snap = verb[p].snap
         /\ started' = started + 1 /\ alive' = alive \cup {started'}
         /\ why'.fresh = why.fresh + (IF verb[p].resume THEN 0 ELSE 1)
         /\ why' = [why EXCEPT !.fresh = why'.fresh]
<1> DEFINE r == [verb[p] EXCEPT !.step = "save", !.pid = started + 1]
<1>1. /\ started < MaxAgents /\ started' = started + 1 /\ started \in Nat
      /\ Sessions \subseteq Sessions' /\ Verbs \subseteq Verbs' /\ Histories \subseteq Histories'
      /\ started' \in 0..MaxAgents
  BY TypeGrows DEF StartAgent
<1>2. verb[p] \in Verbs
  BY DEF TypeOK
<1>3. /\ r \in Verbs' /\ r.step = "save" /\ r.pid = started' /\ r.name = verb[p].name
      /\ r.resume = verb[p].resume /\ r.i = verb[p].i /\ r.snap = verb[p].snap
  <2>1. verb[p] \in Verbs' /\ started + 1 \in 0..started' /\ "save" \in Steps
    BY <1>1, <1>2 DEF Steps
  <2> QED BY <1>1, <2>1 DEF Verbs
<1>4. verb'[p] = r /\ Acts(p) /\ verb' = [verb EXCEPT ![p] = r]
  BY Becoming DEF StartAgent, Becomes
<1>5. verb' \in [Callers -> Verbs']
  BY <1>1, <1>3, <1>4 DEF TypeOK
<1>6. why \in Histories
  BY DEF TypeOK
<1>7. why'.fresh = why.fresh + (IF verb[p].resume THEN 0 ELSE 1) /\ why'.fresh \in Nat
  BY <1>6, Sorts DEF StartAgent, Histories
<1>8. why' = [why EXCEPT !.fresh = why'.fresh]
  BY <1>6 DEF StartAgent, Histories
<1>9. why' \in Histories'
  <2>1. why' \in Histories
    BY <1>6, <1>7, <1>8 DEF Histories
  <2> QED BY <1>1, <2>1
<1>10. alive' = alive \cup {started'} /\ alive' \subseteq 1..started'
  BY <1>1 DEF StartAgent, TypeOK
<1>11. TypeOK'
  BY <1>1, <1>5, <1>9, <1>10 DEF StartAgent, TypeOK
<1> QED BY <1>1, <1>3, <1>4, <1>7, <1>8, <1>10, <1>11 DEF StartAgent, AtStep

LEMMA LoadsIs ==
  ASSUME TypeOK, NEW p \in Callers, NEW n \in {"spawn", "pause", "abandon", "cleanup"},
         NEW s \in Steps, Loads(p, n, s)
  PROVE  /\ Acts(p) /\ verb' \in [Callers -> Verbs]
         /\ verb'[p].name = n /\ verb'[p].step = s /\ ~verb'[p].resume /\ verb'[p].i = 1
         /\ verb'[p].snap = file /\ verb[p].name = "none"
<1> DEFINE r == [Idle EXCEPT !.name = n, !.step = s, !.snap = file]
<1>1. r \in Verbs
  BY IdleType DEF TypeOK, Verbs
<1>2. r.name = n /\ r.step = s /\ ~r.resume /\ r.i = 1 /\ r.snap = file
  BY DEF Idle
<1> QED BY <1>1, <1>2, Becoming, IdleIs DEF Loads

-----------------------------------------------------------------------------
(* Steps that start nothing and save nothing.                              *)

\* p has nothing to save, or what it had is known to be an orphan.
Unburdened(p) ==
  AtStep(p, "spawn", "save") =>
    \/ AtStep(p, "spawn", "save")' /\ verb'[p].pid = verb[p].pid
    \/ verb[p].pid \in why'.orphans

\* p knows of no agent and no conversation.
Ignorant(p) ==
  /\ verb[p].snap.pid = 0 /\ verb[p].snap.csid = 0
  /\ verb[p].name = "spawn" /\ verb[p].resume => verb[p].step \notin {"start", "save", "move"}

\* Where p is in making the first agent.
Stays(p) ==
  /\ Begun(p)' => /\ Begun(p)
                  /\ verb[p].step \in {"save", "move"} <=> verb'[p].step \in {"save", "move"}
  /\ Unsaved(p)' => Unsaved(p)

\* A spawn that is over has not just ended well, and none has become a resume.
NotDone(p) ==
  /\ Fresh(p) => Fresh(p)' \/ why'.half
  /\ verb'[p].name = "spawn" /\ verb'[p].resume =>
       file.status # "queued" \/ (verb[p].name = "spawn" /\ verb[p].resume)

LEMMA OneStays ==
  ASSUME TypeOK, OneBegins, NEW p \in Callers, Acts(p), Stays(p),
         branch \subseteq branch', why'.fresh = why.fresh
  PROVE  OneBegins'
<1>1. \A q \in Callers : Begun(q)' =>
        /\ Begun(q)
        /\ verb[q].step \in {"save", "move"} <=> verb'[q].step \in {"save", "move"}
  BY DEF Acts, Stays, Begun, Fresh
<1>2. \A q \in Callers : Begun(q)' =>
        why'.fresh = (IF verb'[q].step \in {"save", "move"} THEN 1 ELSE 0)
  BY <1>1 DEF OneBegins
<1>3. \A q, r \in Callers : Begun(q)' /\ Begun(r)' => q = r
  BY <1>1 DEF OneBegins
<1>4. why'.fresh = 1 \/ (\E q \in Callers : Begun(q)') => Repos[1] \in branch'
  BY <1>1 DEF OneBegins
<1>5. why'.fresh <= 1
  BY DEF OneBegins, FreshAgentOnce
<1> QED BY <1>2, <1>3, <1>4, <1>5 DEF OneBegins, FreshAgentOnce

LEMMA NoneStays ==
  ASSUME NoneKnown, NEW p \in Callers, Acts(p), Unsaved(p)' => Unsaved(p),
         why'.fresh = why.fresh,
         file'.pid \in {0, file.pid}, file'.csid \in {0, file.csid},
         NoneKnown /\ file.pid = 0 /\ file.csid = 0 /\ Ignorant(p) => Ignorant(p)'
  PROVE  NoneKnown'
<1> SUFFICES ASSUME why'.fresh = 0 \/ (\E q \in Callers : Unsaved(q)')
             PROVE  /\ file'.pid = 0 /\ file'.csid = 0
                    /\ \A q \in Callers : Ignorant(q)'
  BY DEF NoneKnown, Ignorant
<1>1. \A q \in Callers : Unsaved(q)' => Unsaved(q)
  BY DEF Acts, Unsaved, Fresh
<1>2. why.fresh = 0 \/ (\E q \in Callers : Unsaved(q))
  BY <1>1
<1>3. file.pid = 0 /\ file.csid = 0 /\ \A q \in Callers : Ignorant(q)
  BY <1>2 DEF NoneKnown, Ignorant
<1>4. \A q \in Callers \ {p} : Ignorant(q)'
  BY <1>3 DEF Ignorant, Acts
<1> QED BY <1>3, <1>4

LEMMA OwnStays ==
  ASSUME TypeOK, NEW p \in Callers, Acts(p), alive' \subseteq alive,
         why.doubled \subseteq why'.doubled, \A q \in Callers : OwnOK(q), OwnOK(p)'
  PROVE  \A q \in Callers : OwnOK(q)'
<1>1. ASSUME NEW q \in Callers, q # p PROVE OwnOK(q)'
  <2>1. verb'[q] = verb[q]
    BY <1>1 DEF Acts
  <2> QED BY <2>1 DEF OwnOK, Position, Fresh, ReplacesKnown, KilledStaysDead
<1> QED BY <1>1

LEMMA RecordsStay ==
  ASSUME TypeOK, AgentsAreRecorded, NEW p \in Callers, Acts(p), alive' \subseteq alive,
         file'.pid = file.pid, Unburdened(p), Remembers
  PROVE  AgentsAreRecorded'
<1> SUFFICES ASSUME NEW a \in alive', ~why'.stale
             PROVE  \/ a = file'.pid
                    \/ \E q \in Callers : AtStep(q, "spawn", "save")' /\ verb'[q].pid = a
                    \/ a \in why'.orphans \cup why'.doubled
  BY DEF AgentsAreRecorded
<1>1. CASE a = file.pid \/ a \in why.orphans \cup why.doubled
  BY <1>1 DEF Remembers
<1>2. ASSUME NEW q \in Callers, AtStep(q, "spawn", "save"), verb[q].pid = a
      PROVE  \/ AtStep(q, "spawn", "save")' /\ verb'[q].pid = a
             \/ a \in why'.orphans
  BY <1>2 DEF Acts, Unburdened, AtStep
<1> QED BY <1>1, <1>2 DEF AgentsAreRecorded, Remembers

LEMMA QueuedStay ==
  ASSUME TypeOK, QueuedFromStart, QueuedIsSpawnable, NEW p \in Callers, Acts(p), Remembers,
         UNCHANGED <<file, branch>>, dir' \subseteq dir, NotDone(p)
  PROVE  QueuedFromStart' /\ QueuedIsSpawnable'
<1>1. QueuedFromStart'
  BY DEF QueuedFromStart, NotDone, Acts, Remembers
<1>2. QueuedIsSpawnable'
  <2> SUFFICES ASSUME file.status = "queued", ~why'.half, ~why'.back, ~why'.stale,
                      \A q \in Callers : verb'[q].name # "spawn"
               PROVE  dir' = {} /\ branch' = {}
    BY DEF QueuedIsSpawnable
  <2>1. ~why.half /\ ~why.back /\ ~why.stale
    BY DEF Remembers
  <2>2. \A q \in Callers : verb[q].name # "spawn"
    BY <2>1 DEF QueuedFromStart, NotDone, Acts, Fresh
  <2> QED BY <2>1, <2>2 DEF QueuedIsSpawnable
<1> QED BY <1>1, <1>2

LEMMA AbandonedStays ==
  ASSUME AbandonedStopsItsAgent, UNCHANGED file, alive' \subseteq alive, Remembers
  PROVE  AbandonedStopsItsAgent'
BY DEF AbandonedStopsItsAgent, Remembers

\* A step that neither saves nor makes anything.
LEMMA QuietStep ==
  ASSUME Inv, NEW p \in Callers, Acts(p), UNCHANGED <<file, branch, started>>,
         verb' \in [Callers -> Verbs], why' \in Histories, Remembers,
         alive' \subseteq alive, dir' \subseteq dir,
         OwnOK(p)', Stays(p), Unburdened(p), NotDone(p), Ignorant(p) /\ file.pid = 0 /\ file.csid = 0 => Ignorant(p)'
  PROVE  Inv'
<1>1. TypeOK'
  BY TypeKept DEF Inv, TypeOK
<1>2. \A q \in Callers : OwnOK(q)'
  BY OwnStays DEF Inv, Remembers
<1>3. OneBegins'
  BY OneStays DEF Inv, Remembers
<1>4. NoneKnown'
  BY NoneStays DEF Inv, Remembers, Stays
<1>5. AgentsAreRecorded'
  BY RecordsStay DEF Inv
<1>6. QueuedFromStart' /\ QueuedIsSpawnable'
  BY QueuedStay DEF Inv
<1>7. AbandonedStopsItsAgent'
  BY AbandonedStays DEF Inv
<1> QED BY <1>1, <1>2, <1>3, <1>4, <1>5, <1>6, <1>7 DEF Inv

\* p is no spawn before and after, or begins one.
LEMMA Elsewhere ==
  ASSUME TypeOK, NEW p \in Callers, verb[p].name # "spawn", verb'[p].name # "spawn"
  PROVE  /\ Stays(p) /\ Unburdened(p) /\ NotDone(p)
         /\ Position(p)' /\ ReplacesKnown(p)'
         /\ verb'[p].snap.pid = 0 /\ verb'[p].snap.csid = 0 => Ignorant(p)'
BY DEF Stays, Unburdened, NotDone, Position, ReplacesKnown, Ignorant, Begun, Unsaved, Fresh,
       AtStep

\* p is a caller at the end of a verb.
LEMMA Rests ==
  ASSUME TypeOK, NEW p \in Callers, verb'[p] = Idle
  PROVE  OwnOK(p)' /\ Ignorant(p)' /\ Stays(p) /\ verb'[p].name = "none"
BY IdleIs DEF OwnOK, Position, ReplacesKnown, KilledStaysDead, Ignorant, Stays, Unsaved,
                 Begun, Fresh

LEMMA LoadStep ==
  ASSUME Inv, NEW p \in Callers,
         SpawnFresh(p) \/ Pause(p) \/ Abandon(p) \/ Cleanup(p)
  PROVE  Inv'
<1>1. PICK n \in {"spawn", "pause", "abandon", "cleanup"}, s \in {"look", "signal", "kill"} :
        /\ Loads(p, n, s)
        /\ n = "spawn" => s = "look" /\ file.status = "queued"
        /\ UNCHANGED <<file, dir, branch, alive, started, why>>
  BY DEF SpawnFresh, Pause, Abandon, Cleanup
<1>2. /\ Acts(p) /\ verb' \in [Callers -> Verbs]
      /\ verb'[p].name = n /\ verb'[p].step = s /\ ~verb'[p].resume /\ verb'[p].i = 1
      /\ verb'[p].snap = file /\ verb[p].name = "none"
  BY <1>1, LoadsIs DEF Inv, Steps
<1>3. OwnOK(p)'
  BY <1>1, <1>2 DEF OwnOK, Position, ReplacesKnown, KilledStaysDead, Fresh
<1>4. Stays(p) /\ Unburdened(p) /\ NotDone(p)
  BY <1>1, <1>2 DEF Stays, Unsaved, Unburdened, NotDone, Begun, Fresh, AtStep
<1>5. Ignorant(p) /\ file.pid = 0 /\ file.csid = 0 => Ignorant(p)'
  BY <1>1, <1>2 DEF Ignorant
<1>6. why' \in Histories /\ Remembers
  BY <1>1 DEF Inv, TypeOK, Remembers
<1> QED BY <1>1, <1>2, <1>3, <1>4, <1>5, <1>6, QuietStep

LEMMA ResumeStep ==
  ASSUME Inv, NEW p \in Callers, SpawnResume(p)
  PROVE  Inv'
<1>1. /\ Acts(p) /\ verb' \in [Callers -> Verbs]
      /\ verb'[p].name = "spawn" /\ verb'[p].step = "look" /\ verb'[p].resume /\ verb'[p].i = 1
      /\ verb'[p].snap = file /\ verb[p].name = "none"
  BY Loading DEF SpawnResume, Inv, Steps
<1>2. /\ UNCHANGED <<file, dir, branch, alive, started>>
      /\ file.status \in {"executing", "in_review", "paused", "failed"}
  BY DEF SpawnResume
<1>3. why' \in Histories /\ Remembers /\ alive \subseteq why'.doubled
  <2>1. why \in Histories /\ alive \subseteq Pids
    BY SpawnAssumption DEF Inv, TypeOK, Pids
  <2> QED BY <2>1 DEF SpawnResume, Histories, Remembers
<1>4. OwnOK(p)'
  BY <1>1, <1>2, <1>3 DEF OwnOK, Position, ReplacesKnown, KilledStaysDead, Fresh
<1>5. Stays(p) /\ Unburdened(p) /\ NotDone(p)
  BY <1>1, <1>2 DEF Stays, Unsaved, Unburdened, NotDone, Begun, Fresh, AtStep
<1>6. Ignorant(p) /\ file.pid = 0 /\ file.csid = 0 => Ignorant(p)'
  BY <1>1, <1>2 DEF Ignorant
<1> QED BY <1>1, <1>2, <1>3, <1>4, <1>5, <1>6, QuietStep

\* A spawn that stops where it is.
LEMMA StopStep ==
  ASSUME Inv, NEW p \in Callers, Stops(p), UNCHANGED <<file, branch, dir, alive, started>>
  PROVE  Inv'
<1>1. /\ verb'[p] = Idle /\ Acts(p) /\ verb' \in [Callers -> Verbs]
      /\ why' \in Histories /\ Remembers
      /\ Fresh(p) => why'.half
      /\ AtStep(p, "spawn", "save") => verb[p].pid \in why'.orphans
  BY StopsIs DEF Inv
<1>2. OwnOK(p)' /\ Ignorant(p)' /\ Stays(p) /\ verb'[p].name = "none"
  BY <1>1, Rests DEF Inv
<1>3. Unburdened(p) /\ NotDone(p)
  BY <1>1, <1>2 DEF Unburdened, NotDone
<1> QED BY <1>1, <1>2, <1>3, QuietStep

\* The checks for a worktree change only where p is.
LEMMA LookStep ==
  ASSUME Inv, NEW p \in Callers, Look(p)
  PROVE  Inv'
<1> DEFINE v == verb[p]
           w == Repos[v.i]
<1>1. /\ AtStep(p, "spawn", "look") /\ UNCHANGED <<file, dir, branch, alive, started>>
      /\ OwnOK(p) /\ TypeOK /\ v \in Verbs
  BY Sorts DEF Look, Inv
<1>2. \/ Stops(p)
      \/ v.i > Len(Repos) /\ ~(v.resume /\ v.snap.csid = 0) /\ Goes(p, "start") /\ UNCHANGED why
      \/ v.i <= Len(Repos) /\ v.resume /\ Becomes(p, [v EXCEPT !.i = @ + 1]) /\ UNCHANGED why
      \/ /\ v.i <= Len(Repos) /\ (w \in branch => v.resume) /\ UNCHANGED why
         /\ Becomes(p, [v EXCEPT !.step = "make", !.attach = w \in branch])
  BY SomeRepos, Sorts DEF Look, Inv
<1>3. CASE Stops(p)
  BY <1>1, <1>3, StopStep
<1>4. ASSUME NEW r \in Verbs, Becomes(p, r), UNCHANGED why,
             r.name = "spawn", r.resume = v.resume, r.snap = v.snap,
             \/ r.step = "start" /\ r.i = v.i /\ v.i > Len(Repos) /\ ~(v.resume /\ v.snap.csid = 0)
             \/ r.step = "look" /\ v.resume
             \/ r.step = "make" /\ r.i = v.i /\ v.i <= Len(Repos) /\ (~v.resume => ~r.attach)
      PROVE  Inv'
  <2>1. verb'[p] = r /\ Acts(p) /\ verb' \in [Callers -> Verbs]
    BY <1>1, <1>4, Becoming
  <2>2. OwnOK(p)'
    BY <1>1, <1>4, <2>1 DEF OwnOK, Position, ReplacesKnown, KilledStaysDead, Fresh, AtStep
  <2>3. Stays(p)
    BY <1>1, <1>4, <2>1 DEF Stays, Begun, Fresh, Unsaved, AtStep
  <2>4. Unburdened(p) /\ NotDone(p)
    BY <1>1, <1>4, <2>1 DEF Unburdened, NotDone, Fresh, AtStep
  <2>5. Ignorant(p) => Ignorant(p)'
    BY <1>4, <2>1 DEF Ignorant
  <2>6. why' \in Histories /\ Remembers
    BY <1>1, <1>4 DEF TypeOK, Remembers
  <2> QED BY <1>1, <2>1, <2>2, <2>3, <2>4, <2>5, <2>6, QuietStep
<1>5. CASE /\ v.i > Len(Repos) /\ ~(v.resume /\ v.snap.csid = 0)
           /\ Goes(p, "start") /\ UNCHANGED why
  <2> DEFINE r == [v EXCEPT !.step = "start"]
  <2>1. /\ r \in Verbs /\ r.step = "start" /\ r.i = v.i /\ r.name = "spawn"
        /\ r.resume = v.resume /\ r.snap = v.snap
    BY <1>1 DEF Verbs, Steps, AtStep
  <2> QED BY <1>4, <1>5, <2>1 DEF Goes
<1>6. CASE v.i <= Len(Repos) /\ v.resume /\ Becomes(p, [v EXCEPT !.i = @ + 1]) /\ UNCHANGED why
  <2> DEFINE r == [v EXCEPT !.i = @ + 1]
  <2>1. /\ r \in Verbs /\ r.step = "look" /\ r.name = "spawn"
        /\ r.resume = v.resume /\ r.snap = v.snap
    BY <1>1 DEF Verbs, AtStep
  <2> QED BY <1>4, <1>6, <2>1
<1>7. CASE /\ v.i <= Len(Repos) /\ (w \in branch => v.resume) /\ UNCHANGED why
           /\ Becomes(p, [v EXCEPT !.step = "make", !.attach = w \in branch])
  <2> DEFINE b == w \in branch
             r == [v EXCEPT !.step = "make", !.attach = b]
  <2>1. b \in BOOLEAN
    OBVIOUS
  <2>2. r.attach = b
    BY <1>1 DEF Verbs
  <2> HIDE DEF b
  <2>3. /\ r \in Verbs /\ r.step = "make" /\ r.i = v.i /\ r.name = "spawn"
        /\ r.resume = v.resume /\ r.snap = v.snap
    BY <1>1, <2>1 DEF Verbs, Steps, AtStep
  <2>4. (~v.resume => ~r.attach) /\ Becomes(p, r)
    BY <1>7, <2>2 DEF b
  <2> QED BY <1>4, <1>7, <2>3, <2>4
<1> QED BY <1>2, <1>3, <1>5, <1>6, <1>7

LEMMA DraftStep ==
  ASSUME Inv, NEW p \in Callers, Draft(p)
  PROVE  Inv'
<1> DEFINE v == verb[p]
           r == [v EXCEPT !.step = "look", !.i = @ + 1]
<1>1. /\ AtStep(p, "spawn", "draft") /\ UNCHANGED <<file, dir, branch, alive, started>>
      /\ OwnOK(p) /\ TypeOK /\ v \in Verbs
  BY Sorts DEF Draft, Inv
<1>2. CASE Stops(p)
  BY <1>1, <1>2, StopStep
<1>3. CASE Becomes(p, r) /\ UNCHANGED why
  <2>1. r \in Verbs /\ v.name = "spawn"
    <3>1. v.i + 1 \in Nat \ {0} /\ "look" \in Steps
      BY <1>1, Sorts DEF Steps
    <3> QED BY <1>1, <3>1 DEF Verbs, AtStep
  <2>2. /\ r.step = "look" /\ r.i = v.i + 1 /\ r.name = "spawn"
        /\ r.resume = v.resume /\ r.snap = v.snap
    BY <1>1, <2>1 DEF Verbs
  <2>3. verb'[p] = r /\ Acts(p) /\ verb' \in [Callers -> Verbs]
    BY <1>1, <1>3, <2>1, Becoming
  <2> HIDE DEF r
  <2>4. OwnOK(p)'
    BY <1>1, <1>3, <2>1, <2>2, <2>3 DEF OwnOK, Position, ReplacesKnown, KilledStaysDead, Fresh, AtStep
  <2>5. Stays(p)
    BY <1>1, <2>1, <2>2, <2>3 DEF Stays, Begun, Fresh, Unsaved, AtStep
  <2>6. Unburdened(p) /\ NotDone(p)
    BY <1>1, <2>1, <2>2, <2>3 DEF Unburdened, NotDone, Fresh, AtStep
  <2>7. Ignorant(p) => Ignorant(p)'
    BY <2>1, <2>2, <2>3 DEF Ignorant
  <2>8. why' \in Histories /\ Remembers
    BY <1>1, <1>3 DEF TypeOK, Remembers
  <2> QED BY <1>1, <2>3, <2>4, <2>5, <2>6, <2>7, <2>8, QuietStep
<1> QED BY <1>2, <1>3 DEF Draft

\* The killed agent of pause, abandon and cleanup.
LEMMA OtherStep ==
  ASSUME Inv, NEW p \in Callers,
         Signal(p) \/ Kill(p) \/ RemoveTrees(p)
  PROVE  Inv'
<1>1. /\ UNCHANGED <<file, branch, started, why>> /\ alive' \subseteq alive /\ dir' \subseteq dir
      /\ verb[p].name \in {"pause", "abandon", "cleanup"} /\ TypeOK /\ OwnOK(p)
  BY DEF Signal, Kill, Kills, RemoveTrees, AtStep, Inv
<1>2. why' \in Histories /\ Remembers
  BY <1>1 DEF TypeOK, Remembers
<1>3. CASE Ends(p)
  <2>1. verb'[p] = Idle /\ Acts(p) /\ verb' \in [Callers -> Verbs]
    BY <1>1, <1>3, Ending
  <2>2. OwnOK(p)' /\ Ignorant(p)' /\ Stays(p) /\ verb'[p].name = "none"
    BY <1>1, <2>1, Rests
  <2>3. Unburdened(p) /\ NotDone(p)
    BY <1>1, <2>2, Elsewhere
  <2> QED BY <1>1, <1>2, <2>1, <2>2, <2>3, QuietStep
<1>4. ASSUME NEW s \in Steps, Goes(p, s), KilledStaysDead(p)'
      PROVE  Inv'
  <2>1. /\ Acts(p) /\ verb' \in [Callers -> Verbs]
        /\ verb'[p].name = verb[p].name /\ verb'[p].snap = verb[p].snap
    BY <1>1, <1>4, Going
  <2>2. OwnOK(p)' /\ Stays(p) /\ Unburdened(p) /\ NotDone(p)
    BY <1>1, <1>4, <2>1, Elsewhere DEF OwnOK
  <2>3. Ignorant(p) => Ignorant(p)'
    BY <1>1, <2>1 DEF Ignorant
  <2> QED BY <1>1, <1>2, <2>1, <2>2, <2>3, QuietStep
<1>5. CASE Signal(p)
  <2>1. \/ Ends(p)
        \/ \E s \in {"fail", "move"} : Goes(p, s)
    BY <1>5 DEF Signal
  <2>2. ASSUME NEW s \in {"fail", "move"}, Goes(p, s) PROVE Inv'
    <3>1. s \in Steps
      BY DEF Steps
    <3>2. KilledStaysDead(p)'
      BY <1>1, <1>5, <2>2, <3>1, Going DEF KilledStaysDead, Signal, AtStep
    <3> QED BY <1>4, <2>2, <3>1, <3>2
  <2> QED BY <1>3, <2>1, <2>2
<1>6. CASE Kill(p)
  <2>1. Goes(p, "remove") /\ "remove" \in Steps
    BY <1>6 DEF Kill, Steps
  <2>2. KilledStaysDead(p)'
    BY <1>1, <1>6, <2>1, Going DEF KilledStaysDead, Kill, Kills
  <2> QED BY <1>4, <2>1, <2>2
<1>7. CASE RemoveTrees(p)
  <2>1. \/ Ends(p)
        \/ verb[p].name = "abandon" /\ Goes(p, "move")
        \/ verb[p].name # "abandon" /\ Goes(p, "save")
    BY <1>7 DEF RemoveTrees
  <2>2. ASSUME NEW s \in {"move", "save"}, Goes(p, s) PROVE Inv'
    <3>1. s \in Steps
      BY DEF Steps
    <3>2. KilledStaysDead(p)'
      <4>1. /\ verb'[p].name = verb[p].name /\ verb'[p].snap = verb[p].snap
            /\ verb[p].step = "remove" /\ alive' = alive
        BY <1>1, <1>7, <2>2, <3>1, Going DEF RemoveTrees
      <4> QED BY <1>1, <4>1 DEF KilledStaysDead, OwnOK
    <3> QED BY <1>4, <2>2, <3>1, <3>2
  <2> QED BY <1>3, <2>1, <2>2
<1> QED BY <1>5, <1>6, <1>7

\* The first worktree of a first spawn is one nobody has made before.
LEMMA MakeStep ==
  ASSUME Inv, NEW p \in Callers, Make(p)
  PROVE  Inv'
<1> DEFINE v == verb[p]
           w == Repos[v.i]
<1>1. /\ AtStep(p, "spawn", "make") /\ UNCHANGED <<file, alive, started>>
      /\ OwnOK(p) /\ Position(p) /\ TypeOK /\ v \in Verbs
  BY Sorts DEF Make, Inv, OwnOK
<1>2. CASE Stops(p) /\ UNCHANGED <<dir, branch>>
  BY <1>1, <1>2, StopStep
<1>3. CASE /\ GitAdds(w, v.attach) /\ dir' = dir \cup {w} /\ branch' = branch \cup {w}
           /\ Goes(p, "draft") /\ UNCHANGED why
  <2>1. w \in Trees /\ v.i \in Nat \ {0} /\ "draft" \in Steps
    BY <1>1, SomeRepos, Sorts DEF Position, AtStep, Steps
  <2>2. /\ Acts(p) /\ verb' \in [Callers -> Verbs]
        /\ verb'[p].step = "draft" /\ verb'[p].name = "spawn"
        /\ verb'[p].resume = v.resume /\ verb'[p].i = v.i
        /\ verb'[p].pid = v.pid /\ verb'[p].snap = v.snap
    BY <1>1, <1>3, <2>1, Going DEF AtStep
  <2>3. TypeOK'
    BY <1>1, <1>3, <2>1, <2>2, TypeKept DEF TypeOK
  <2>4. Remembers
    BY <1>3 DEF Remembers
  <2>5. OwnOK(p)'
    BY <1>1, <1>3, <2>2 DEF OwnOK, Position, ReplacesKnown, KilledStaysDead, Fresh, AtStep
  <2>6. \A q \in Callers : OwnOK(q)'
    BY <1>1, <2>2, <2>4, <2>5, OwnStays DEF Inv, Remembers
  <2>7. OneBegins'
    <3>1. CASE v.resume \/ v.i # 1
      <4>1. Stays(p)
        BY <1>1, <2>1, <2>2, <3>1 DEF Stays, Begun, Fresh, Unsaved, AtStep
      <4> QED BY <1>1, <1>3, <2>2, <2>4, <4>1, OneStays DEF Inv, Remembers
    <3>2. CASE ~v.resume /\ v.i = 1
      <4>1. Repos[1] \notin branch
        BY <1>1, <1>3, <3>2 DEF Position, Fresh, GitAdds, AtStep
      <4>2. why.fresh = 0 /\ \A q \in Callers : ~Begun(q)
        BY <1>1, <4>1 DEF Inv, OneBegins, FreshAgentOnce, TypeOK, Histories
      <4>3. \A q \in Callers : Begun(q)' => q = p
        BY <2>2, <4>2 DEF Acts, Begun, Fresh
      <4>4. why'.fresh = 0 /\ verb'[p].step = "draft" /\ Repos[1] \in branch'
        BY <1>3, <2>2, <3>2, <4>2
      <4> QED BY <4>3, <4>4 DEF OneBegins, FreshAgentOnce
    <3> QED BY <3>1, <3>2
  <2>8. NoneKnown'
    <3>1. ~Unsaved(p)' /\ (Ignorant(p) => Ignorant(p)')
      BY <2>2 DEF Unsaved, Ignorant
    <3> QED BY <1>1, <1>3, <2>2, <3>1, NoneStays DEF Inv
  <2>9. AgentsAreRecorded'
    BY <1>1, <2>2, <2>4, RecordsStay DEF Inv, Unburdened, AtStep
  <2>10. QueuedFromStart'
    BY <1>1, <1>3, <2>2 DEF Inv, QueuedFromStart, Acts, AtStep
  <2>11. QueuedIsSpawnable'
    BY <2>2 DEF QueuedIsSpawnable
  <2>12. AbandonedStopsItsAgent'
    BY <1>1, <2>4, AbandonedStays DEF Inv
  <2> QED BY <2>3, <2>6, <2>7, <2>8, <2>9, <2>10, <2>11, <2>12 DEF Inv
<1> QED BY <1>2, <1>3 DEF Make

\* An agent that has just been started is nobody's but the spawn's.
LEMMA StartStep ==
  ASSUME Inv, NEW p \in Callers, StartAgent(p)
  PROVE  Inv'
<1>1. /\ AtStep(p, "spawn", "start") /\ UNCHANGED <<file, dir, branch>>
      /\ OwnOK(p) /\ Position(p) /\ TypeOK
  BY DEF StartAgent, Inv, OwnOK
<1>2. /\ TypeOK' /\ Acts(p)
      /\ verb'[p].name = "spawn" /\ verb'[p].step = "save" /\ verb'[p].pid = started'
      /\ verb'[p].resume = verb[p].resume /\ verb'[p].i = verb[p].i
      /\ verb'[p].snap = verb[p].snap
      /\ started' = started + 1 /\ alive' = alive \cup {started'}
      /\ why'.fresh = why.fresh + (IF verb[p].resume THEN 0 ELSE 1)
      /\ why' = [why EXCEPT !.fresh = why'.fresh]
  BY <1>1, StartIs
<1>3. /\ why'.doubled = why.doubled /\ why'.orphans = why.orphans /\ why'.stale = why.stale
      /\ why'.half = why.half /\ why'.back = why.back /\ why'.soft = why.soft
      /\ why'.raced = why.raced /\ why.fresh \in Nat
  <2>1. why \in Histories
    BY <1>1 DEF TypeOK
  <2> QED BY <1>2, <2>1 DEF Histories
<1>4. started \in Nat /\ started' \notin 0..started /\ file.pid \in 0..started
      /\ \A q \in Callers : verb[q].snap.pid \in 0..started
  BY <1>1, <1>2, Sorts DEF TypeOK, Sessions
<1>5. ASSUME NEW q \in Callers PROVE OwnOK(q)'
  <2>1. OwnOK(q) /\ verb'[q].snap = verb[q].snap /\ verb'[q].name = verb[q].name
        /\ verb'[q].resume = verb[q].resume /\ verb'[q].i = verb[q].i
        /\ (verb'[q] = verb[q] \/ q = p)
    BY <1>1, <1>2 DEF Inv, Acts, AtStep
  <2>2. verb'[q].snap.pid \in alive' => verb[q].snap.pid \in alive
    BY <1>2, <1>4, <2>1
  <2>3. Position(q)'
    BY <1>1, <1>2, <2>1 DEF OwnOK, Position, Fresh, AtStep
  <2>4. ReplacesKnown(q)' /\ KilledStaysDead(q)'
    BY <1>1, <1>2, <1>3, <2>1, <2>2 DEF OwnOK, ReplacesKnown, KilledStaysDead, AtStep
  <2> QED BY <2>3, <2>4 DEF OwnOK
<1>6. OneBegins'
  <2>1. CASE verb[p].resume
    <3>1. Stays(p)
      BY <1>2, <2>1 DEF Stays, Begun, Fresh, Unsaved
    <3> QED BY <1>1, <1>2, <1>3, <2>1, <3>1, OneStays DEF Inv
  <2>2. CASE ~verb[p].resume
    <3>1. Begun(p) /\ why.fresh = 0
      BY <1>1, <2>2, SomeRepos, Sorts DEF Position, Begun, Fresh, AtStep, Inv, OneBegins
    <3>2. why'.fresh = 1 /\ Repos[1] \in branch'
      BY <1>1, <1>2, <2>2, <3>1 DEF Inv, OneBegins
    <3>3. \A q \in Callers : Begun(q)' => q = p
      BY <1>2, <3>1 DEF Acts, Begun, Fresh, Inv, OneBegins
    <3> QED BY <1>2, <3>2, <3>3 DEF OneBegins, FreshAgentOnce
  <2> QED BY <2>1, <2>2
<1>7. NoneKnown'
  <2> SUFFICES ASSUME why'.fresh = 0 \/ (\E q \in Callers : Unsaved(q)')
               PROVE  /\ file'.pid = 0 /\ file'.csid = 0
                      /\ \A q \in Callers : Ignorant(q)'
    BY DEF NoneKnown, Ignorant
  <2>1. why.fresh = 0 \/ (\E q \in Callers : Unsaved(q))
    <3>1. CASE verb[p].resume
      <4>1. why'.fresh = why.fresh
        BY <1>2, <1>3, <3>1
      <4>2. \A q \in Callers : Unsaved(q)' => Unsaved(q)
        BY <1>2, <3>1 DEF Unsaved, Fresh, Acts
      <4> QED BY <4>1, <4>2
    <3>2. CASE ~verb[p].resume
      BY <1>1, <3>2, SomeRepos, Sorts DEF Position, Begun, Fresh, AtStep, Inv, OneBegins
    <3> QED BY <3>1, <3>2
  <2>2. file.pid = 0 /\ file.csid = 0 /\ \A q \in Callers : Ignorant(q)
    BY <2>1 DEF Inv, NoneKnown, Ignorant
  <2>3. ~verb[p].resume
    BY <1>1, <2>2 DEF Ignorant, AtStep
  <2> QED BY <1>1, <1>2, <2>2, <2>3 DEF Ignorant, Acts
<1>8. AgentsAreRecorded'
  <2> SUFFICES ASSUME NEW a \in alive', ~why'.stale
               PROVE  \/ a = file'.pid
                      \/ \E q \in Callers : AtStep(q, "spawn", "save")' /\ verb'[q].pid = a
                      \/ a \in why'.orphans \cup why'.doubled
    BY DEF AgentsAreRecorded
  <2>1. CASE a = started'
    BY <1>2, <2>1 DEF AtStep
  <2>2. CASE a \in alive
    <3>1. ASSUME NEW q \in Callers, AtStep(q, "spawn", "save"), verb[q].pid = a
          PROVE  AtStep(q, "spawn", "save")' /\ verb'[q].pid = a
      BY <1>1, <1>2, <3>1 DEF Acts, AtStep
    <3> QED BY <1>1, <1>3, <2>2, <3>1 DEF Inv, AgentsAreRecorded
  <2> QED BY <1>2, <2>1, <2>2
<1>9. QueuedFromStart'
  BY <1>1, <1>2, <1>3 DEF Inv, QueuedFromStart, Acts, AtStep
<1>10. QueuedIsSpawnable'
  BY <1>2 DEF QueuedIsSpawnable
<1>11. AbandonedStopsItsAgent'
  BY <1>1, <1>2, <1>3, <1>4 DEF Inv, AbandonedStopsItsAgent
<1> QED BY <1>2, <1>5, <1>6, <1>7, <1>8, <1>9, <1>10, <1>11 DEF Inv

-----------------------------------------------------------------------------
(* Steps that write session.yaml.                                          *)

\* A writer that is not stale writes over what it has read.
LEMMA StaleIs ==
  ASSUME TypeOK, NEW p \in Callers, why' = [why EXCEPT !.stale = @ \/ Stale(p)]
  PROVE  /\ why' \in Histories /\ Remembers
         /\ ~why'.stale => verb[p].snap = file
<1>1. why \in Histories
  BY DEF TypeOK
<1>2. PICK s \in BOOLEAN : /\ why' = [why EXCEPT !.stale = s]
                           /\ why.stale => s
                           /\ ~s => verb[p].snap = file
  <2> DEFINE s == why.stale \/ Stale(p)
  <2>1. s \in BOOLEAN /\ why' = [why EXCEPT !.stale = s]
    OBVIOUS
  <2> QED BY <2>1 DEF Stale
<1> QED BY <1>1, <1>2 DEF Histories, Remembers

\* A first spawn about to be saved is the one whose agent it is.
LEMMA SavesOwn ==
  ASSUME Inv, NEW p \in Callers, Unsaved(p)
  PROVE  /\ why.fresh = 1 /\ \A q \in Callers : Unsaved(q) => q = p
         /\ file.pid = 0
<1>1. ASSUME NEW q \in Callers, Unsaved(q) PROVE Begun(q)
  BY <1>1, SomeRepos, Sorts DEF Inv, OwnOK, Position, Begun, Unsaved, Fresh
<1>2. Begun(p) /\ verb[p].step = "save"
  BY <1>1 DEF Unsaved
<1> QED BY <1>1, <1>2 DEF Inv, OneBegins, NoneKnown

LEMMA SaveSpawnStep ==
  ASSUME Inv, NEW p \in Callers, SaveSpawn(p)
  PROVE  Inv'
<1> DEFINE v == verb[p]
<1>1. /\ AtStep(p, "spawn", "save") /\ UNCHANGED <<dir, branch, alive, started>>
      /\ OwnOK(p) /\ Position(p) /\ TypeOK /\ v \in Verbs /\ v.snap \in Sessions
  BY Sorts DEF SaveSpawn, Inv, OwnOK
<1>2. /\ Acts(p) /\ verb' \in [Callers -> Verbs]
      /\ verb'[p].step = "move" /\ verb'[p].name = "spawn"
      /\ verb'[p].resume = v.resume /\ verb'[p].i = v.i
      /\ verb'[p].pid = v.pid /\ verb'[p].snap = v.snap
  <2>1. Goes(p, "move") /\ "move" \in Steps
    BY DEF SaveSpawn, Steps
  <2> QED BY <1>1, <2>1, Going DEF AtStep
<1>3. file' \in Sessions /\ file'.status = v.snap.status /\ file'.pid = v.pid
  <2>1. v.pid \in 0..started /\ v.snap.csid \in 0..started
    BY <1>1, Sorts DEF Sessions
  <2> QED BY <1>1, <2>1 DEF SaveSpawn, Sessions
<1>4. /\ why' \in Histories /\ Remembers
      /\ ~why'.stale => v.snap = file
  BY <1>1, StaleIs DEF SaveSpawn
<1>5. TypeOK'
  BY <1>1, <1>2, <1>3, <1>4, TypeKept DEF TypeOK
<1>6. OwnOK(p)'
  BY <1>1, <1>2, <1>4 DEF OwnOK, Position, ReplacesKnown, KilledStaysDead, Fresh, AtStep, Remembers
<1>7. \A q \in Callers : OwnOK(q)'
  BY <1>1, <1>2, <1>4, <1>6, OwnStays DEF Inv, Remembers
<1>8. OneBegins'
  <2>1. Stays(p)
    BY <1>1, <1>2 DEF Stays, Begun, Fresh, Unsaved, AtStep
  <2> QED BY <1>1, <1>2, <1>4, <2>1, OneStays DEF Inv, Remembers
<1>9. NoneKnown'
  <2>1. \A q \in Callers : Unsaved(q)' => q # p /\ Unsaved(q)
    BY <1>2 DEF Unsaved, Fresh, Acts
  <2>2. CASE v.resume
    <3>1. why.fresh # 0 /\ \A q \in Callers : ~Unsaved(q)
      BY <1>1, <2>2 DEF Inv, NoneKnown, AtStep
    <3> QED BY <1>4, <2>1, <3>1 DEF NoneKnown, Remembers
  <2>3. CASE ~v.resume
    <3>1. Unsaved(p)
      BY <1>1, <2>3 DEF Unsaved, Fresh, AtStep
    <3> QED BY <1>4, <2>1, <3>1, SavesOwn DEF NoneKnown, Remembers
  <2> QED BY <2>2, <2>3
<1>10. AgentsAreRecorded'
  <2> SUFFICES ASSUME NEW a \in alive', ~why'.stale
               PROVE  \/ a = file'.pid
                      \/ \E q \in Callers : AtStep(q, "spawn", "save")' /\ verb'[q].pid = a
                      \/ a \in why'.orphans \cup why'.doubled
    BY DEF AgentsAreRecorded
  <2>1. a \in alive /\ a # 0 /\ ~why.stale /\ v.snap = file
    BY <1>1, <1>4 DEF TypeOK, Remembers
  <2>2. CASE a = file.pid
    <3>1. v.resume
      BY <1>1, <2>1, <2>2, SavesOwn DEF Unsaved, Fresh, AtStep
    <3>2. a \in why.doubled
      BY <1>1, <2>1, <2>2, <3>1 DEF OwnOK, ReplacesKnown, AtStep
    <3> QED BY <1>4, <3>2 DEF Remembers
  <2>3. ASSUME NEW q \in Callers, AtStep(q, "spawn", "save"), verb[q].pid = a
        PROVE  a = file'.pid \/ (AtStep(q, "spawn", "save")' /\ verb'[q].pid = a)
    BY <1>2, <1>3, <2>3 DEF Acts, AtStep
  <2>4. CASE a \in why.orphans \cup why.doubled
    BY <1>4, <2>4 DEF Remembers
  <2> QED BY <2>1, <2>2, <2>3, <2>4 DEF Inv, AgentsAreRecorded
<1>11. QueuedFromStart'
  <2> SUFFICES ASSUME file'.status = "queued", ~why'.back, ~why'.stale,
                      NEW q \in Callers, verb'[q].name = "spawn"
               PROVE  ~verb'[q].resume
    BY DEF QueuedFromStart
  <2>1. file.status = "queued" /\ ~why.back /\ ~why.stale
    BY <1>3, <1>4 DEF Remembers
  <2>2. verb[q].name = "spawn" /\ verb'[q].resume = verb[q].resume
    BY <1>1, <1>2 DEF Acts, AtStep
  <2> QED BY <2>1, <2>2 DEF Inv, QueuedFromStart
<1>12. QueuedIsSpawnable'
  BY <1>2 DEF QueuedIsSpawnable
<1>13. AbandonedStopsItsAgent'
  BY <1>1, <1>3 DEF Position, AtStep, AbandonedStopsItsAgent
<1> QED BY <1>5, <1>7, <1>8, <1>9, <1>10, <1>11, <1>12, <1>13 DEF Inv

LEMMA SaveCleanupStep ==
  ASSUME Inv, NEW p \in Callers, SaveCleanup(p)
  PROVE  Inv'
<1> DEFINE v == verb[p]
<1>1. /\ v.name = "cleanup" /\ UNCHANGED <<dir, branch, alive, started>>
      /\ TypeOK /\ v.snap \in Sessions
  BY Sorts DEF SaveCleanup, AtStep, Inv
<1>2. /\ verb'[p] = Idle /\ Acts(p) /\ verb' \in [Callers -> Verbs]
      /\ OwnOK(p)' /\ Ignorant(p)' /\ Stays(p) /\ verb'[p].name = "none"
  BY <1>1, Ending, Rests DEF SaveCleanup
<1>3. /\ file' \in Sessions /\ file'.status = v.snap.status
      /\ file'.pid = v.snap.pid /\ file'.csid = v.snap.csid
  BY <1>1 DEF SaveCleanup, Sessions
<1>4. /\ why' \in Histories /\ Remembers
      /\ ~why'.stale => v.snap = file
  BY <1>1, StaleIs DEF SaveCleanup
<1>5. TypeOK'
  BY <1>1, <1>2, <1>3, <1>4, TypeKept DEF TypeOK
<1>6. \A q \in Callers : OwnOK(q)'
  BY <1>1, <1>2, <1>4, OwnStays DEF Inv, Remembers
<1>7. OneBegins'
  BY <1>1, <1>2, <1>4, OneStays DEF Inv, Remembers
<1>8. NoneKnown'
  <2> SUFFICES ASSUME why'.fresh = 0 \/ (\E q \in Callers : Unsaved(q)')
               PROVE  /\ file'.pid = 0 /\ file'.csid = 0
                      /\ \A q \in Callers : Ignorant(q)'
    BY DEF NoneKnown, Ignorant
  <2>1. \A q \in Callers : Unsaved(q)' => Unsaved(q)
    BY <1>2 DEF Stays, Acts, Unsaved, Fresh
  <2>2. \A q \in Callers : Ignorant(q)
    BY <1>4, <2>1 DEF Inv, NoneKnown, Ignorant, Remembers
  <2>3. \A q \in Callers \ {p} : Ignorant(q)'
    BY <1>2, <2>2 DEF Ignorant, Acts
  <2> QED BY <1>2, <1>3, <2>2, <2>3 DEF Ignorant
<1>9. AgentsAreRecorded'
  <2>1. CASE why'.stale
    BY <2>1 DEF AgentsAreRecorded
  <2>2. CASE ~why'.stale
    <3>1. file'.pid = file.pid /\ Unburdened(p)
      BY <1>1, <1>3, <1>4, <2>2 DEF Unburdened, AtStep
    <3> QED BY <1>1, <1>2, <1>4, <3>1, RecordsStay DEF Inv
  <2> QED BY <2>1, <2>2
<1>10. QueuedFromStart'
  <2> SUFFICES ASSUME file'.status = "queued", ~why'.back, ~why'.stale,
                      NEW q \in Callers, verb'[q].name = "spawn"
               PROVE  ~verb'[q].resume
    BY DEF QueuedFromStart
  <2>1. file.status = "queued" /\ ~why.back /\ ~why.stale
    BY <1>3, <1>4 DEF Remembers
  <2>2. verb'[q] = verb[q]
    BY <1>2 DEF Acts
  <2> QED BY <2>1, <2>2 DEF Inv, QueuedFromStart
<1>11. QueuedIsSpawnable'
  <2> SUFFICES ASSUME file'.status = "queued", ~why'.half, ~why'.back, ~why'.stale,
                      \A q \in Callers : verb'[q].name # "spawn"
               PROVE  dir' = {} /\ branch' = {}
    BY DEF QueuedIsSpawnable
  <2>1. file.status = "queued" /\ ~why.half /\ ~why.back /\ ~why.stale
    BY <1>3, <1>4 DEF Remembers
  <2>2. \A q \in Callers : verb[q].name # "spawn"
    BY <1>1, <1>2 DEF Acts
  <2> QED BY <1>1, <2>1, <2>2 DEF Inv, QueuedIsSpawnable
<1>12. AbandonedStopsItsAgent'
  <2> SUFFICES ASSUME file'.status = "abandoned", file'.pid \in alive', ~why'.stale
               PROVE  why'.soft \/ why'.raced
    BY DEF AbandonedStopsItsAgent
  <2>1. file.status = "abandoned" /\ file.pid \in alive /\ ~why.stale
    BY <1>1, <1>3, <1>4 DEF Remembers
  <2> QED BY <1>4, <2>1 DEF Inv, AbandonedStopsItsAgent, Remembers
<1> QED BY <1>5, <1>6, <1>7, <1>8, <1>9, <1>10, <1>11, <1>12 DEF Inv

-----------------------------------------------------------------------------
(* Moves, and the rest.                                                    *)

\* The recorded agent of a session that abandon has moved is the one it killed.
LEMMA ExecutorStep ==
  ASSUME Inv, NEW p \in Callers, NEW to, Executor(p, to), UNCHANGED <<branch, started>>,
         Acts(p), verb' \in [Callers -> Verbs], OwnOK(p)', Stays(p), Unburdened(p),
         Ignorant(p) => Ignorant(p)',
         verb'[p].name = "spawn" => verb[p].name = "spawn" /\ verb'[p].resume = verb[p].resume
  PROVE  Inv'
<1>1. /\ TypeOK /\ file' \in Sessions /\ file'.status = to
      /\ file'.pid = file.pid /\ file'.csid = file.csid
      /\ alive' \subseteq alive /\ dir' \subseteq dir
      /\ why' \in Histories /\ Remembers
      /\ to = "queued" => why'.back
      /\ to = "abandoned" /\ file.pid \in alive' =>
           \/ why'.soft \/ why'.raced
           \/ /\ AtStep(p, "abandon", "move") /\ verb[p].snap.status = "executing"
              /\ verb[p].snap.pid = file.pid
  BY ExecutorIs DEF Inv
<1>2. TypeOK'
  BY <1>1, TypeKept DEF TypeOK
<1>3. \A q \in Callers : OwnOK(q)'
  BY <1>1, OwnStays DEF Inv, Remembers
<1>4. OneBegins'
  BY <1>1, OneStays DEF Inv, Remembers
<1>5. NoneKnown'
  BY <1>1, NoneStays DEF Inv, Remembers, Stays
<1>6. AgentsAreRecorded'
  BY <1>1, RecordsStay DEF Inv
<1>7. QueuedFromStart' /\ QueuedIsSpawnable'
  BY <1>1 DEF QueuedFromStart, QueuedIsSpawnable
<1>8. AbandonedStopsItsAgent'
  <2>1. AtStep(p, "abandon", "move") /\ verb[p].snap.status = "executing"
          => verb[p].snap.pid \notin alive
    BY DEF Inv, OwnOK, KilledStaysDead, AtStep
  <2> QED BY <1>1, <2>1 DEF AbandonedStopsItsAgent
<1> QED BY <1>2, <1>3, <1>4, <1>5, <1>6, <1>7, <1>8 DEF Inv

LEMMA MoveStep ==
  ASSUME Inv, NEW p \in Callers, MoveSpawn(p) \/ MovePause(p) \/ MoveAbandon(p)
  PROVE  Inv'
<1>1. PICK to \in {"executing", "paused", "failed", "abandoned"} : MoveTo(p, to)
  BY DEF MoveSpawn, MovePause, MoveAbandon
<1>2. verb[p].step # "save" /\ TypeOK
  BY DEF MoveSpawn, MovePause, MoveAbandon, AtStep, Inv
<1>3. /\ verb'[p] = Idle /\ Acts(p) /\ verb' \in [Callers -> Verbs]
      /\ UNCHANGED <<branch, started>> /\ why' \in Histories /\ Remembers
      /\ alive' \subseteq alive /\ dir' \subseteq dir
      /\ \/ Executor(p, to)
         \/ UNCHANGED <<file, alive>> /\ (Fresh(p) => why'.half)
  BY <1>1, <1>2, MoveIs
<1>4. /\ OwnOK(p)' /\ Ignorant(p)' /\ Stays(p) /\ verb'[p].name = "none"
      /\ Unburdened(p)
  BY <1>2, <1>3, Rests DEF Unburdened, AtStep
<1>5. CASE Executor(p, to)
  BY <1>3, <1>4, <1>5, ExecutorStep
<1>6. CASE UNCHANGED <<file, alive>> /\ (Fresh(p) => why'.half)
  <2>1. NotDone(p)
    BY <1>4, <1>6 DEF NotDone
  <2> QED BY <1>3, <1>4, <1>6, <2>1, QuietStep
<1> QED BY <1>3, <1>5, <1>6

LEMMA TransitionStep ==
  ASSUME Inv, NEW p \in Callers, Transition(p)
  PROVE  Inv'
<1>1. PICK t \in Targets : Executor(p, t)
  BY DEF Transition
<1>2. verb[p].name = "none" /\ verb' = verb /\ UNCHANGED <<branch, started>> /\ TypeOK
  BY IdleIs DEF Transition, Inv
<1>3. Acts(p) /\ verb' \in [Callers -> Verbs]
  BY <1>2 DEF Acts, TypeOK
<1>4. OwnOK(p)'
  BY <1>2 DEF OwnOK, Position, ReplacesKnown, KilledStaysDead
<1>5. Stays(p) /\ Unburdened(p) /\ (Ignorant(p) => Ignorant(p)')
  BY <1>2 DEF Stays, Begun, Fresh, Unsaved, Unburdened, AtStep, Ignorant
<1> QED BY <1>1, <1>2, <1>3, <1>4, <1>5, ExecutorStep

\* An agent ends by itself, or nothing happens.
LEMMA RestStep ==
  ASSUME Inv, UNCHANGED <<file, dir, branch, started, verb, why>>, alive' \subseteq alive
  PROVE  Inv'
<1>1. TypeOK'
  <2>1. TypeOK
    BY DEF Inv
  <2> QED BY <2>1, TypeKept DEF TypeOK
<1>2. \A q \in Callers : OwnOK(q)'
  BY DEF Inv, OwnOK, Position, Fresh, ReplacesKnown, KilledStaysDead
<1>3. OneBegins'
  BY DEF Inv, OneBegins, Begun, Fresh, FreshAgentOnce
<1>4. NoneKnown'
  BY DEF Inv, NoneKnown, Unsaved, Fresh
<1>5. QueuedFromStart' /\ QueuedIsSpawnable'
  BY DEF Inv, QueuedFromStart, QueuedIsSpawnable
<1>6. AgentsAreRecorded' /\ AbandonedStopsItsAgent'
  BY DEF Inv, AgentsAreRecorded, AtStep, AbandonedStopsItsAgent
<1> QED BY <1>1, <1>2, <1>3, <1>4, <1>5, <1>6 DEF Inv

LEMMA InitOK == Init => Inv
<1> SUFFICES ASSUME Init PROVE Inv
  OBVIOUS
<1>1. /\ \A p \in Callers : verb[p] = Idle
      /\ file.status = "queued" /\ file.pid = 0 /\ file.csid = 0
      /\ alive = {} /\ dir = {} /\ branch = {} /\ started = 0 /\ why.fresh = 0
  BY DEF Init, NoSession
<1>2. TypeOK
  <2>1. NoSession \in Sessions /\ file \in Sessions
    BY <1>1 DEF Init, NoSession, Sessions, Statuses
  <2>2. Idle \in Verbs
    BY <1>1, <2>1 DEF Idle, Verbs, Steps
  <2>3. why \in Histories
    BY DEF Init, Histories
  <2>4. started \in 0..MaxAgents
    BY <1>1, SpawnAssumption
  <2> QED BY <1>1, <2>1, <2>2, <2>3, <2>4 DEF Init, TypeOK
<1>3. \A p \in Callers : verb[p].name = "none" /\ verb[p].snap.pid = 0 /\ verb[p].snap.csid = 0
  BY <1>1, IdleIs
<1>4. \A p \in Callers : OwnOK(p)
  BY <1>3 DEF OwnOK, Position, ReplacesKnown, KilledStaysDead
<1>5. OneBegins /\ NoneKnown
  BY <1>1, <1>3 DEF OneBegins, FreshAgentOnce, NoneKnown, Begun, Unsaved, Fresh
<1>6. QueuedFromStart /\ AgentsAreRecorded /\ QueuedIsSpawnable /\ AbandonedStopsItsAgent
  BY <1>1, <1>3 DEF QueuedFromStart, AgentsAreRecorded, QueuedIsSpawnable,
                    AbandonedStopsItsAgent
<1> QED BY <1>2, <1>4, <1>5, <1>6 DEF Inv

LEMMA InvStep == Inv /\ [Next]_vars => Inv'
<1> SUFFICES ASSUME Inv, [Next]_vars PROVE Inv'
  OBVIOUS
<1>1. ASSUME NEW p \in Callers,
             \/ Transition(p)
             \/ SpawnFresh(p) \/ SpawnResume(p) \/ Look(p) \/ Make(p) \/ Draft(p)
             \/ StartAgent(p) \/ SaveSpawn(p) \/ MoveSpawn(p)
             \/ Pause(p) \/ Signal(p) \/ MovePause(p)
             \/ Abandon(p) \/ Cleanup(p) \/ Kill(p) \/ RemoveTrees(p) \/ MoveAbandon(p)
             \/ SaveCleanup(p)
      PROVE  Inv'
  BY <1>1, LoadStep, ResumeStep, LookStep, MakeStep, DraftStep, StartStep, SaveSpawnStep,
     OtherStep, SaveCleanupStep, MoveStep, TransitionStep
<1>2. ASSUME NEW p \in Callers, Crash(p) PROVE Inv'
  BY <1>2, StopStep DEF Crash
<1>3. CASE AgentEnds \/ UNCHANGED vars
  <2>1. UNCHANGED <<file, dir, branch, started, verb, why>> /\ alive' \subseteq alive
    BY <1>3 DEF AgentEnds, vars
  <2> QED BY <2>1, RestStep
<1> QED BY <1>1, <1>2, <1>3 DEF Next

-----------------------------------------------------------------------------
(* The theorems.                                                           *)

\* The inductive invariant: the properties of SpawnSession, with what each
\* caller knows of the first agent, of the one it replaces and of the one it
\* has killed.
THEOREM Invariant == Spec => []Inv
<1> QED BY InitOK, InvStep, PTL DEF Spec

\* FreshAgentOnce: however spawns, pauses, clean-ups and crashes interleave, and
\* however many callers there are, `session spawn` without --resume starts one
\* agent in the life of a session.
THEOREM OneFirstAgent == Spec => []FreshAgentOnce
<1>1. Inv => FreshAgentOnce
  BY DEF Inv, OneBegins
<1> QED BY <1>1, Invariant, PTL

\* AgentsAreRecorded: an agent that runs and is not the one session.yaml names is
\* about to be saved, was left behind by a spawn that died, was running when
\* somebody resumed the session, or fell to a save of an old copy.
THEOREM NoAgentIsForgotten == Spec => []AgentsAreRecorded
<1>1. Inv => AgentsAreRecorded
  BY DEF Inv
<1> QED BY <1>1, Invariant, PTL

\* QueuedIsSpawnable: no worktree and no branch stands in the way of spawning a
\* queued session, but for those of a spawn that is under way or has stopped.
THEOREM QueuedIsClear == Spec => []QueuedIsSpawnable
<1>1. Inv => QueuedIsSpawnable
  BY DEF Inv
<1> QED BY <1>1, Invariant, PTL

\* AbandonedStopsItsAgent: `session abandon` of an executing session leaves no
\* agent behind.
THEOREM AbandonedIsStopped == Spec => []AbandonedStopsItsAgent
<1>1. Inv => AbandonedStopsItsAgent
  BY DEF Inv
<1> QED BY <1>1, Invariant, PTL
=============================================================================
