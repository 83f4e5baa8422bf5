------------------------- MODULE ProjectStoreProofs -------------------------
(***************************************************************************)
(* What is proved of ProjectStore, for any number of processes and calls:  *)
(* its three invariants.  Each needs who holds project_lock (LockHeld) and *)
(* what the copy in the hands of its holder still has in common with the   *)
(* file (CounterInv, PhaseInv, IssueInv): that is what the lock is for,    *)
(* and what link, the executor and a late fix do not respect.              *)
(***************************************************************************)
EXTENDS ProjectStore, TLAPS

Statuses == { r[1] : r \in IssueRoutes } \cup { r[2] : r \in IssueRoutes }
Targets == {""} \cup Phases \cup { r[2] : r \in PhaseRoutes } \cup Statuses
ProjectFiles ==
  { f \in [has : {"nothing", "counter", "all"}, phase : Targets, next : Nat,
           linked : BOOLEAN] :
      /\ f.has = "nothing" <=> f.next = 0
      /\ f.has = "nothing" => f = Empty }
Values == Nat \cup BOOLEAN \cup Statuses \cup {""}
IssueFiles == [Fields \cup {"status", "untidy"} -> Values]
Processes ==
  [pc : {"idle", "write", "fill", "buried", "phase", "validate", "phasemove", "lock", "fix",
         "patch", "ask", "move"},
   call : {"", "key", "link", "fix"}, mine : ProjectFiles, out : ProjectFiles,
   issue : IssueFiles, highest : Nat, n : Nat, to : Targets]

TypeOK ==
  /\ project \in ProjectFiles
  /\ issue \in IssueFiles
  /\ \A f \in Fields : issue[f] \in Nat
  /\ highest \in Nat
  /\ lock \in Procs \cup {Nobody} /\ ilock \in Procs \cup {Nobody}
  /\ proc \in [Procs -> Processes]
  /\ \A p \in Procs :
       /\ \A f \in Fields : proc[p].issue[f] \in Nat
       /\ proc[p].pc \in {"phase", "validate", "phasemove"} => proc[p].mine.has = "all"
       /\ proc[p].pc = "move" => proc[p].to \in Statuses
  /\ budget \in [{"calls", "crashes", "files"} -> Nat]
  /\ why \in [counter : Nat, keys : SUBSET Nat, twice : BOOLEAN, stale : BOOLEAN,
              late : BOOLEAN, buried : BOOLEAN, accepted : SUBSET Targets,
              forced : SUBSET Targets, trial : BOOLEAN, dropped : BOOLEAN,
              set : [Fields -> Nat], moved : Statuses,
              unset : BOOLEAN, unmoved : BOOLEAN, fixed : BOOLEAN]

\* Writing project.yaml with the new counter in hand.
Writing(p) == proc[p].pc \in {"write", "fill"} /\ proc[p].call \in {"key", "fix"}

\* The steps between taking project_lock and giving it back.
Inside(p) ==
  \/ Writing(p)
  \/ At(p, "buried") /\ proc[p].call # "link"
  \/ proc[p].pc \in {"phase", "validate", "patch", "ask", "fix"}

Held(p) ==
  /\ Inside(p) => lock = p
  /\ proc[p].pc \in {"write", "fill", "buried"} => proc[p].call \in {"key", "link", "fix"}
  /\ proc[p].pc \in {"lock", "fix"} => proc[p].call = "fix"

LockHeld == \A p \in Procs : Held(p)

\* Somebody has put an old counter back, or a new one on top of a newer one.
Regressed == why.stale \/ why.late \/ why.buried

\* The counter in a copy is the one that was handed out last.
Counts(p) ==
  /\ Writing(p) /\ proc[p].call = "key" =>
       /\ proc[p].mine.next = why.counter
       /\ proc[p].out.next = proc[p].mine.next + proc[p].n
  /\ Writing(p) /\ proc[p].call = "fix" => proc[p].out.next >= why.counter
  /\ proc[p].pc \in {"phase", "validate"} => proc[p].mine.next = why.counter

CounterInv ==
  ~Regressed =>
    /\ ~why.twice
    /\ \A k \in why.keys : k < why.counter
    /\ project.has # "nothing" => project.next = why.counter
    /\ \A p \in Procs : Counts(p)

\* A phase on trial has been left behind.
Escaped == why.dropped \/ why.trial

Known(phase) == phase \in why.accepted \/ phase \in why.forced

\* The phase in a copy is none that is on trial.
Vouches(p) ==
  /\ Writing(p) /\ proc[p].out.has = "all" => Known(proc[p].out.phase)
  /\ proc[p].pc \in {"phase", "validate"} => Known(proc[p].mine.phase)

OnTrial(p) == At(p, "validate") /\ project.phase = proc[p].to

PhaseInv ==
  ~Escaped =>
    /\ Whole => Known(project.phase) \/ \E p \in Procs : OnTrial(p)
    /\ \A p \in Procs : Vouches(p)

\* The copy of a patch has what patches have set.
Patches(p) == At(p, "patch") => \A f \in Fields : proc[p].issue[f] = why.set[f]

IssueInv ==
  /\ SavesKeepEachOther
  /\ ~why.unset /\ ~why.fixed => \A p \in Procs : Patches(p)

IInv == TypeOK /\ LockHeld /\ CounterInv /\ PhaseInv /\ IssueInv
-----------------------------------------------------------------------------
(* What the steps do to the processes.                                     *)

\* Those that do not take the step: a file may have been replaced under them.
Bystander(q) ==
  /\ proc'[q].pc = proc[q].pc \/ (At(q, "fill") /\ proc'[q].pc = "buried")
  /\ proc'[q].call = proc[q].call /\ proc'[q].n = proc[q].n /\ proc'[q].to = proc[q].to
  /\ proc'[q].mine = proc[q].mine /\ proc'[q].out = proc[q].out
  /\ proc'[q].issue = proc[q].issue

OthersStand(p) == \A q \in Procs : q # p => Bystander(q)

\* The history of the counter, of the phase and of the issue.
SameCounting == /\ why'.counter = why.counter /\ why'.keys = why.keys
                /\ why'.twice = why.twice /\ why'.stale = why.stale
                /\ why'.late = why.late /\ why'.buried = why.buried
SamePhasing == /\ why'.accepted = why.accepted /\ why'.forced = why.forced
               /\ why'.trial = why.trial /\ why'.dropped = why.dropped
SameIssuing == /\ why'.set = why.set /\ why'.moved = why.moved /\ why'.unset = why.unset
               /\ why'.unmoved = why.unmoved /\ why'.fixed = why.fixed

\* A step of p alone.
LEMMA BecomesIs ==
  ASSUME TypeOK, NEW p \in Procs, NEW r, Becomes(p, r)
  PROVE  proc'[p] = r /\ OthersStand(p)
<1>1. proc'[p] = r /\ \A q \in Procs : q # p => proc'[q] = proc[q]
  BY DEF Becomes, TypeOK
<1> QED
  BY <1>1 DEF OthersStand, Bystander

\* A rename: p acts, and those that were filling the old file go on doing so.
LEMMA ReplacesIs ==
  ASSUME TypeOK, NEW p \in Procs, NEW file, NEW r, Replaces(p, file, r)
  PROVE  project' = file /\ proc'[p] = r /\ OthersStand(p)
<1>1. project' = file /\ proc'[p] = r
  BY DEF Replaces
<1>2. ASSUME NEW q \in Procs, q # p PROVE Bystander(q)
  <2>1. proc[q] \in Processes
    BY DEF TypeOK
  <2>2. proc'[q] = IF At(q, "fill") THEN [proc[q] EXCEPT !.pc = "buried"] ELSE proc[q]
    BY <1>2 DEF Replaces
  <2> QED
    BY <2>1, <2>2 DEF Processes, Bystander, At
<1> QED
  BY <1>1, <1>2 DEF OthersStand

\* A process between calls.
LEMMA IdleIs == Idle.pc = "idle" /\ Idle.issue = NoIssue
BY DEF Idle

\* The end of a call gives project_lock back.
LEMMA EndsIs ==
  ASSUME TypeOK, NEW p \in Procs, Ends(p)
  PROVE  /\ proc'[p].pc = "idle" /\ OthersStand(p)
         /\ lock' = IF lock = p THEN Nobody ELSE lock
<1>1. proc'[p] = Idle /\ OthersStand(p)
  BY BecomesIs DEF Ends
<1> QED
  BY <1>1, IdleIs DEF Ends, Frees

\* What each action does, in the fields that the invariants read.
LEMMA NextKeyIs ==
  ASSUME TypeOK, NEW p \in Procs, NextKey(p)
  PROVE  /\ \E n \in 1..MaxCount :
              /\ proc'[p].pc = "write" /\ proc'[p].call = "key"
              /\ proc'[p].mine = project /\ proc'[p].n = n
              /\ proc'[p].out.next = project.next + n
              /\ proc'[p].out.phase = project.phase
         /\ At(p, "idle") /\ Whole /\ lock = Nobody /\ lock' = p /\ OthersStand(p)
         /\ UNCHANGED <<project, issue, ilock, why>>
<1>1. PICK n \in 1..MaxCount :
        Locks(p, [Idle EXCEPT !.pc = "write", !.call = "key", !.mine = project, !.n = n,
                              !.out = [project EXCEPT !.next = @ + n]])
  BY DEF NextKey
<1>2. /\ proc'[p] = [Idle EXCEPT !.pc = "write", !.call = "key", !.mine = project, !.n = n,
                              !.out = [project EXCEPT !.next = @ + n]]
      /\ OthersStand(p) /\ At(p, "idle") /\ lock = Nobody /\ lock' = p
  BY <1>1, BecomesIs DEF Locks
<1>3. project \in ProjectFiles
  BY DEF TypeOK
<1> QED
  BY <1>2, <1>3 DEF NextKey, Idle, ProjectFiles

LEMMA LinkIs ==
  ASSUME TypeOK, NEW p \in Procs, Link(p)
  PROVE  /\ At(p, "idle") /\ proc'[p].pc = "write" /\ proc'[p].call = "link" /\ OthersStand(p)
         /\ UNCHANGED <<project, issue, lock, ilock, why>>
<1>1. /\ proc'[p] = [Idle EXCEPT !.pc = "write", !.call = "link", !.mine = project,
                             !.out = [project EXCEPT !.linked = ~@]]
      /\ OthersStand(p)
  BY BecomesIs DEF Link
<1> QED
  BY <1>1 DEF Link, Idle

LEMMA TruncatesIs ==
  ASSUME TypeOK, NEW p \in Procs, Truncates(p)
  PROVE  /\ At(p, "write") /\ proc'[p].pc = "fill" /\ OthersStand(p)
         /\ proc'[p].call = proc[p].call /\ proc'[p].n = proc[p].n
         /\ proc'[p].mine = proc[p].mine /\ proc'[p].out = proc[p].out
         /\ project'.has = "nothing"
         /\ UNCHANGED <<issue, lock, ilock, why>>
<1>1. proc'[p] = [proc[p] EXCEPT !.pc = "fill"] /\ OthersStand(p)
  BY BecomesIs DEF Truncates
<1>2. proc[p] \in Processes
  BY DEF TypeOK
<1> QED
  BY <1>1, <1>2 DEF Truncates, Processes, Empty

LEMMA FillsIs ==
  ASSUME TypeOK, NEW p \in Procs, Fills(p)
  PROVE  /\ proc[p].pc \in {"fill", "buried"} /\ OthersStand(p)
         /\ project' = IF At(p, "fill") THEN proc[p].out ELSE project
         /\ \/ /\ proc[p].call = "fix" /\ proc'[p].call = "fix" /\ proc'[p].pc = "fix"
               /\ UNCHANGED lock
            \/ /\ proc[p].call # "fix" /\ proc'[p].pc = "idle"
               /\ lock' = IF lock = p THEN Nobody ELSE lock
         /\ UNCHANGED <<issue, ilock>>
<1>1. proc[p] \in Processes
  BY DEF TypeOK
<1>2. CASE proc[p].call = "fix"
  <2>1. Becomes(p, [proc[p] EXCEPT !.pc = "fix"]) /\ UNCHANGED lock
    BY <1>2 DEF Fills
  <2>2. proc'[p] = [proc[p] EXCEPT !.pc = "fix"] /\ OthersStand(p)
    BY <2>1, BecomesIs
  <2> QED
    BY <1>1, <1>2, <2>1, <2>2 DEF Fills, Processes, At
<1>3. CASE proc[p].call # "fix"
  <2>1. Ends(p)
    BY <1>3 DEF Fills
  <2> QED
    BY <1>3, <2>1, EndsIs DEF Fills, At
<1> QED
  BY <1>2, <1>3

\* What a write has left of the history.
LEMMA FillsWhy ==
  ASSUME TypeOK, NEW p \in Procs, Fills(p)
  PROVE  LET out == proc[p].out
             link == proc[p].call = "link"
             lost == At(p, "buried")
         IN /\ why'.counter = IF link \/ lost THEN why.counter ELSE out.next
            /\ why'.stale = (why.stale \/ (link /\ ~lost /\ out.next # why.counter))
            /\ why'.trial = (why.trial \/ (link /\ ~lost /\ out.phase \notin why.accepted))
            /\ why'.buried = (why.buried \/ (~link /\ lost))
            /\ why'.keys = why.keys \cup HandsOut(p)
            /\ why'.twice = (why.twice \/ HandsOut(p) \cap why.keys # {})
            /\ why'.late = why.late /\ why'.accepted = why.accepted
            /\ why'.forced = why.forced /\ why'.dropped = why.dropped
            /\ SameIssuing
BY DEF TypeOK, Fills, SameIssuing

LEMMA MovePhaseIs ==
  ASSUME TypeOK, NEW p \in Procs, MovePhase(p)
  PROVE  /\ At(p, "idle") /\ proc'[p].pc = "phasemove" /\ OthersStand(p)
         /\ UNCHANGED <<project, issue, lock, ilock, why>>
<1>1. PICK r \in PhaseRoutes :
        Becomes(p, [Idle EXCEPT !.pc = "phasemove", !.mine = project, !.to = r[2]])
  BY DEF MovePhase
<1>2. /\ proc'[p] = [Idle EXCEPT !.pc = "phasemove", !.mine = project, !.to = r[2]]
      /\ OthersStand(p)
  BY <1>1, BecomesIs
<1> QED
  BY <1>2 DEF MovePhase, Idle

LEMMA MovePhaseSavesIs ==
  ASSUME TypeOK, NEW p \in Procs, MovePhaseSaves(p)
  PROVE  /\ At(p, "phasemove") /\ proc'[p].pc = "idle" /\ OthersStand(p)
         /\ project'.has = proc[p].mine.has /\ project'.next = proc[p].mine.next
         /\ project'.phase = proc[p].to
         /\ why'.counter = why.counter /\ why'.keys = why.keys /\ why'.twice = why.twice
         /\ why'.late = why.late /\ why'.buried = why.buried
         /\ why'.stale = (why.stale \/ proc[p].mine.next # why.counter)
         /\ why'.accepted = why.accepted /\ why'.forced = why.forced \cup {proc[p].to}
         /\ why'.trial = why.trial /\ why'.dropped = why.dropped
         /\ SameIssuing
         /\ UNCHANGED <<issue, lock, ilock>>
<1>1. project' = [proc[p].mine EXCEPT !.phase = proc[p].to] /\ proc'[p] = Idle /\ OthersStand(p)
  BY ReplacesIs DEF MovePhaseSaves
<1>2. proc[p].mine \in ProjectFiles
  BY DEF TypeOK, Processes
<1>3. /\ project'.has = proc[p].mine.has /\ project'.next = proc[p].mine.next
      /\ project'.phase = proc[p].to /\ proc'[p].pc = "idle"
  BY <1>1, <1>2, IdleIs DEF ProjectFiles
<1> QED
  BY <1>1, <1>3 DEF MovePhaseSaves, TypeOK, SameIssuing

LEMMA AdvanceIs ==
  ASSUME TypeOK, NEW p \in Procs, Advance(p)
  PROVE  /\ proc'[p].pc = "phase" /\ proc'[p].mine = project /\ OthersStand(p)
         /\ At(p, "idle") /\ Whole /\ lock = Nobody /\ lock' = p
         /\ UNCHANGED <<project, issue, ilock, why>>
<1>1. PICK t \in Phases : Locks(p, [Idle EXCEPT !.pc = "phase", !.mine = project, !.to = t])
  BY DEF Advance
<1>2. /\ proc'[p] = [Idle EXCEPT !.pc = "phase", !.mine = project, !.to = t]
      /\ OthersStand(p) /\ At(p, "idle") /\ lock = Nobody /\ lock' = p
  BY <1>1, BecomesIs DEF Locks
<1> QED
  BY <1>2 DEF Advance, Idle

LEMMA AdvanceSavesIs ==
  ASSUME TypeOK, NEW p \in Procs, AdvanceSaves(p)
  PROVE  /\ At(p, "phase") /\ proc'[p].pc = "validate" /\ OthersStand(p)
         /\ proc'[p].mine = proc[p].mine /\ proc'[p].to = proc[p].to
         /\ project'.has = proc[p].mine.has /\ project'.next = proc[p].mine.next
         /\ project'.phase = proc[p].to
         /\ UNCHANGED <<issue, lock, ilock, why>>
<1>1. /\ project' = [proc[p].mine EXCEPT !.phase = proc[p].to]
      /\ proc'[p] = [proc[p] EXCEPT !.pc = "validate"] /\ OthersStand(p)
  BY ReplacesIs DEF AdvanceSaves
<1>2. proc[p] \in Processes
  BY DEF TypeOK
<1> QED
  BY <1>1, <1>2 DEF AdvanceSaves, Processes, ProjectFiles

LEMMA AdvanceAcceptedIs ==
  ASSUME TypeOK, NEW p \in Procs, AdvanceAccepted(p)
  PROVE  /\ At(p, "validate") /\ Whole /\ proc'[p].pc = "idle" /\ OthersStand(p)
         /\ lock' = IF lock = p THEN Nobody ELSE lock
         /\ SameCounting /\ SameIssuing
         /\ why'.accepted = why.accepted \cup {project.phase} /\ why'.forced = why.forced
         /\ why'.trial = why.trial /\ why'.dropped = why.dropped
         /\ UNCHANGED <<project, issue, ilock>>
<1>1. /\ proc'[p].pc = "idle" /\ OthersStand(p)
      /\ lock' = IF lock = p THEN Nobody ELSE lock
  BY EndsIs DEF AdvanceAccepted
<1> QED
  BY <1>1 DEF AdvanceAccepted, TypeOK, SameCounting, SameIssuing

LEMMA AdvanceRefusedIs ==
  ASSUME TypeOK, NEW p \in Procs, AdvanceRefused(p)
  PROVE  /\ At(p, "validate") /\ proc'[p].pc = "idle" /\ OthersStand(p)
         /\ lock' = IF lock = p THEN Nobody ELSE lock
         /\ project' = proc[p].mine
         /\ UNCHANGED <<issue, ilock, why>>
<1>1. project' = proc[p].mine /\ proc'[p] = Idle /\ OthersStand(p)
  BY ReplacesIs DEF AdvanceRefused, Reverts
<1> QED
  BY <1>1, IdleIs DEF AdvanceRefused, Frees

LEMMA FixLoadsIs ==
  ASSUME TypeOK, NEW p \in Procs, FixLoads(p)
  PROVE  /\ At(p, "idle") /\ proc'[p].pc = "lock" /\ proc'[p].call = "fix" /\ OthersStand(p)
         /\ UNCHANGED <<project, issue, lock, ilock, why>>
<1>1. /\ proc'[p] = [Idle EXCEPT !.pc = "lock", !.call = "fix", !.mine = project,
                             !.issue = issue, !.highest = highest]
      /\ OthersStand(p)
  BY BecomesIs DEF FixLoads
<1> QED
  BY <1>1 DEF FixLoads, Idle

\* Whether the counter drifted is judged by the copy, what is written by the file.
LEMMA FixLocksIs ==
  ASSUME TypeOK, NEW p \in Procs, FixLocks(p)
  PROVE  /\ At(p, "lock") /\ lock = Nobody /\ lock' = p /\ OthersStand(p)
         /\ proc'[p].call = proc[p].call
         /\ why'.late = (why.late \/ (Drifts(p) /\ project.next # proc[p].mine.next))
         /\ why'.counter = why.counter /\ why'.keys = why.keys /\ why'.twice = why.twice
         /\ why'.stale = why.stale /\ why'.buried = why.buried
         /\ SamePhasing /\ SameIssuing
         /\ \/ /\ ~Drifts(p)
               /\ proc'[p].pc = "fix"
            \/ /\ Drifts(p) /\ proc'[p].pc = "write"
               /\ proc'[p].out.next = proc[p].highest + 1
               /\ proc'[p].out.has = "all" => Whole /\ proc'[p].out.phase = project.phase
         /\ UNCHANGED <<project, issue, ilock>>
<1>1. proc[p] \in Processes /\ project \in ProjectFiles
  BY DEF TypeOK
<1>2. /\ why'.late = (why.late \/ (Drifts(p) /\ project.next # proc[p].mine.next))
      /\ why'.counter = why.counter /\ why'.keys = why.keys /\ why'.twice = why.twice
      /\ why'.stale = why.stale /\ why'.buried = why.buried
      /\ SamePhasing /\ SameIssuing
  BY DEF FixLocks, TypeOK, SamePhasing, SameIssuing
<1>3. CASE ~Drifts(p)
  <2>1. proc'[p] = [proc[p] EXCEPT !.pc = "fix"] /\ OthersStand(p)
    BY <1>3, BecomesIs DEF FixLocks
  <2> QED
    BY <1>1, <1>2, <1>3, <2>1 DEF FixLocks, Processes
<1>4. CASE Drifts(p)
  <2> DEFINE n == proc[p].highest + 1
             out == IF project = Empty THEN Counter(n) ELSE [project EXCEPT !.next = n]
  <2>1. proc'[p] = [proc[p] EXCEPT !.pc = "write", !.out = out] /\ OthersStand(p)
    BY <1>4, BecomesIs DEF FixLocks
  <2>2. out.next = n /\ (out.has = "all" => Whole /\ out.phase = project.phase)
    BY <1>1 DEF ProjectFiles, Counter, Empty, Whole
  <2>3. proc'[p].pc = "write" /\ proc'[p].out = out /\ proc'[p].call = proc[p].call
    BY <1>1, <2>1 DEF Processes
  <2> QED
    BY <1>2, <1>4, <2>1, <2>2, <2>3 DEF FixLocks
<1> QED
  BY <1>3, <1>4

LEMMA FixIssueIs ==
  ASSUME TypeOK, NEW p \in Procs, FixIssue(p)
  PROVE  /\ At(p, "fix") /\ proc'[p].pc = "idle" /\ OthersStand(p)
         /\ lock' = IF lock = p THEN Nobody ELSE lock
         /\ issue' = IF proc[p].issue.untidy THEN [proc[p].issue EXCEPT !.untidy = FALSE]
                     ELSE issue
         /\ SameCounting /\ SamePhasing
         /\ why'.fixed = (why.fixed \/ (proc[p].issue.untidy /\ issue # proc[p].issue))
         /\ why'.set = why.set /\ why'.moved = why.moved
         /\ why'.unset = why.unset /\ why'.unmoved = why.unmoved
         /\ UNCHANGED <<project, ilock>>
<1>1. /\ proc'[p].pc = "idle" /\ OthersStand(p)
      /\ lock' = IF lock = p THEN Nobody ELSE lock
  BY EndsIs DEF FixIssue
<1> QED
  BY <1>1 DEF FixIssue, TypeOK, SameCounting, SamePhasing

LEMMA PatchIs ==
  ASSUME TypeOK, NEW p \in Procs, Patch(p)
  PROVE  /\ proc'[p].pc = "patch" /\ proc'[p].issue = issue /\ OthersStand(p)
         /\ At(p, "idle") /\ lock = Nobody /\ lock' = p
         /\ UNCHANGED <<project, issue, ilock, why>>
<1>1. /\ proc'[p] = [Idle EXCEPT !.pc = "patch", !.issue = issue] /\ OthersStand(p)
      /\ At(p, "idle") /\ lock = Nobody /\ lock' = p
  BY BecomesIs DEF Patch, Locks
<1> QED
  BY <1>1 DEF Patch, Idle

LEMMA PatchSavesIs ==
  ASSUME TypeOK, NEW p \in Procs, PatchSaves(p)
  PROVE  /\ At(p, "patch") /\ proc'[p].pc = "idle" /\ OthersStand(p)
         /\ lock' = IF lock = p THEN Nobody ELSE lock
         /\ SameCounting /\ SamePhasing
         /\ UNCHANGED <<project, ilock>>
<1>1. /\ At(p, "patch") /\ proc'[p].pc = "idle" /\ OthersStand(p)
      /\ lock' = IF lock = p THEN Nobody ELSE lock
  BY EndsIs DEF PatchSaves
<1> QED
  BY <1>1 DEF PatchSaves, TypeOK, SameCounting, SamePhasing

LEMMA AskMoveIs ==
  ASSUME TypeOK, NEW p \in Procs, AskMove(p)
  PROVE  /\ proc'[p].pc = "ask" /\ OthersStand(p) /\ At(p, "idle") /\ lock = Nobody /\ lock' = p
         /\ UNCHANGED <<project, issue, ilock, why>>
<1>1. /\ proc'[p] = [Idle EXCEPT !.pc = "ask"] /\ OthersStand(p)
      /\ At(p, "idle") /\ lock = Nobody /\ lock' = p
  BY BecomesIs DEF AskMove, Locks
<1> QED
  BY <1>1 DEF AskMove, Idle

LEMMA MoveLoadsIs ==
  ASSUME TypeOK, NEW p \in Procs, MoveLoads(p)
  PROVE  /\ proc[p].pc \in {"idle", "ask"} /\ proc'[p].pc = "move" /\ OthersStand(p)
         /\ UNCHANGED <<project, issue, lock, why>>
<1>1. PICK r \in IssueRoutes :
        Becomes(p, [Idle EXCEPT !.pc = "move", !.issue = issue, !.to = r[2]])
  BY DEF MoveLoads
<1>2. /\ proc'[p] = [Idle EXCEPT !.pc = "move", !.issue = issue, !.to = r[2]]
      /\ OthersStand(p)
  BY <1>1, BecomesIs
<1> QED
  BY <1>2 DEF MoveLoads, Idle, At

LEMMA MoveSavesIs ==
  ASSUME TypeOK, NEW p \in Procs, MoveSaves(p)
  PROVE  /\ At(p, "move") /\ proc'[p].pc = "idle" /\ OthersStand(p)
         /\ lock' = IF lock = p THEN Nobody ELSE lock
         /\ SameCounting /\ SamePhasing
         /\ UNCHANGED project
<1>1. /\ At(p, "move") /\ proc'[p].pc = "idle" /\ OthersStand(p)
      /\ lock' = IF lock = p THEN Nobody ELSE lock
  BY EndsIs DEF MoveSaves
<1> QED
  BY <1>1 DEF MoveSaves, TypeOK, SameCounting, SamePhasing

LEMMA GivesUpIs ==
  ASSUME TypeOK, NEW p \in Procs, GivesUp(p)
  PROVE  /\ proc[p].pc \in {"lock", "ask", "phasemove"}
         /\ proc'[p].pc = "idle" /\ OthersStand(p)
         /\ lock' = IF lock = p THEN Nobody ELSE lock
         /\ UNCHANGED <<project, issue, ilock, why>>
BY EndsIs DEF GivesUp, At

LEMMA DiesIs ==
  ASSUME TypeOK, NEW p \in Procs, Dies(p)
  PROVE  /\ proc'[p].pc = "idle" /\ OthersStand(p)
         /\ lock' = IF lock = p THEN Nobody ELSE lock
         /\ SameCounting /\ SameIssuing
         /\ why'.accepted = why.accepted /\ why'.forced = why.forced
         /\ why'.trial = why.trial /\ why'.dropped = (why.dropped \/ At(p, "validate"))
         /\ UNCHANGED <<project, issue>>
<1>1. /\ proc'[p].pc = "idle" /\ OthersStand(p)
      /\ lock' = IF lock = p THEN Nobody ELSE lock
  BY EndsIs DEF Dies
<1> QED
  BY <1>1 DEF Dies, TypeOK, SameCounting, SameIssuing

-----------------------------------------------------------------------------
(* The lock.                                                               *)

\* A lock that was free, or the acting process's own, was no other process's.
LEMMA LockOthers ==
  ASSUME LockHeld, NEW p \in Procs, OthersStand(p), Held(p)',
         lock' = lock \/ lock \in {Nobody, p}
  PROVE  LockHeld'
<1> SUFFICES ASSUME NEW q \in Procs, q # p PROVE Held(q)'
  BY DEF LockHeld
<1>1. Held(q) /\ Bystander(q)
  BY DEF LockHeld, OthersStand
<1>2. Inside(q)' => Inside(q)
  BY <1>1 DEF Held, Bystander, Inside, Writing, At
<1>3. Inside(q)' => lock' = q
  BY <1>1, <1>2, StoreAssumption DEF Held
<1> QED
  BY <1>1, <1>3 DEF Held, At, Bystander

\* project_lock is held from the load to the save.
LEMMA LockStep ==
  ASSUME TypeOK, LockHeld, [Next]_vars
  PROVE  LockHeld'
<1> USE LockOthers, StoreAssumption DEF Held, Inside, Writing, At
<1>1. ASSUME NEW p \in Procs, NextKey(p) PROVE LockHeld'
  BY <1>1, NextKeyIs
<1>2. ASSUME NEW p \in Procs, Link(p) PROVE LockHeld'
  BY <1>2, LinkIs
<1>3. ASSUME NEW p \in Procs, Truncates(p) PROVE LockHeld'
  BY <1>3, TruncatesIs DEF LockHeld
<1>4. ASSUME NEW p \in Procs, Fills(p) PROVE LockHeld'
  BY <1>4, FillsIs DEF LockHeld
<1>5. ASSUME NEW p \in Procs, MovePhase(p) PROVE LockHeld'
  BY <1>5, MovePhaseIs
<1>6. ASSUME NEW p \in Procs, MovePhaseSaves(p) PROVE LockHeld'
  BY <1>6, MovePhaseSavesIs
<1>7. ASSUME NEW p \in Procs, Advance(p) PROVE LockHeld'
  BY <1>7, AdvanceIs
<1>8. ASSUME NEW p \in Procs, AdvanceSaves(p) PROVE LockHeld'
  BY <1>8, AdvanceSavesIs DEF LockHeld
<1>9. ASSUME NEW p \in Procs, AdvanceAccepted(p) PROVE LockHeld'
  BY <1>9, AdvanceAcceptedIs
<1>10. ASSUME NEW p \in Procs, AdvanceRefused(p) PROVE LockHeld'
  BY <1>10, AdvanceRefusedIs
<1>11. ASSUME NEW p \in Procs, FixLoads(p) PROVE LockHeld'
  BY <1>11, FixLoadsIs
<1>12. ASSUME NEW p \in Procs, FixLocks(p) PROVE LockHeld'
  BY <1>12, FixLocksIs DEF LockHeld
<1>13. ASSUME NEW p \in Procs, FixIssue(p) PROVE LockHeld'
  BY <1>13, FixIssueIs
<1>14. ASSUME NEW p \in Procs, Patch(p) PROVE LockHeld'
  BY <1>14, PatchIs
<1>15. ASSUME NEW p \in Procs, PatchSaves(p) PROVE LockHeld'
  BY <1>15, PatchSavesIs
<1>16. ASSUME NEW p \in Procs, AskMove(p) PROVE LockHeld'
  BY <1>16, AskMoveIs
<1>17. ASSUME NEW p \in Procs, MoveLoads(p) PROVE LockHeld'
  BY <1>17, MoveLoadsIs
<1>18. ASSUME NEW p \in Procs, MoveSaves(p) PROVE LockHeld'
  BY <1>18, MoveSavesIs
<1>19. ASSUME NEW p \in Procs, GivesUp(p) PROVE LockHeld'
  BY <1>19, GivesUpIs
<1>20. ASSUME NEW p \in Procs, Dies(p) PROVE LockHeld'
  BY <1>20, DiesIs
<1>21. CASE IssueFile
  BY <1>21 DEF IssueFile, LockHeld
<1>22. CASE UNCHANGED vars
  BY <1>22 DEF vars, LockHeld
<1> QED
  BY <1>1, <1>2, <1>3, <1>4, <1>5, <1>6, <1>7, <1>8, <1>9, <1>10, <1>11, <1>12,
     <1>13, <1>14, <1>15, <1>16, <1>17, <1>18, <1>19, <1>20, <1>21, <1>22 DEF Next

-----------------------------------------------------------------------------
(* The counter.                                                            *)

\* A copy's counter is current until a holder of the lock writes another, and
\* that is nobody else.
LEMMA CountOthers ==
  ASSUME LockHeld, CounterInv, ~Regressed, NEW p \in Procs, OthersStand(p),
         why'.counter = why.counter \/ lock = p
  PROVE  \A q \in Procs : q # p => Counts(q)'
<1> SUFFICES ASSUME NEW q \in Procs, q # p PROVE Counts(q)'
  OBVIOUS
<1>1. Held(q) /\ Bystander(q) /\ Counts(q)
  BY DEF LockHeld, OthersStand, CounterInv
<1>2. lock = p => ~Inside(q)
  BY <1>1 DEF Held
<1>3. /\ Writing(q)' => Writing(q) /\ Inside(q)
      /\ proc'[q].pc \in {"phase", "validate"} => proc[q].pc = proc'[q].pc /\ Inside(q)
  BY <1>1 DEF Bystander, Inside, Writing, At
<1> QED
  BY <1>1, <1>2, <1>3 DEF Counts, Bystander

\* Everything but a write of a counter.
LEMMA CountersStay ==
  ASSUME LockHeld, CounterInv, NEW p \in Procs, OthersStand(p),
         ~Regressed' => ~Regressed, ~Regressed' => Counts(p)',
         why'.counter = why.counter, why'.keys = why.keys, why'.twice = why.twice,
         ~Regressed' => (project'.has # "nothing" => project'.next = why.counter)
  PROVE  CounterInv'
<1> SUFFICES ASSUME ~Regressed' PROVE CounterInv'
  BY DEF CounterInv
<1>1. \A q \in Procs : Counts(q)'
  BY CountOthers
<1> QED
  BY <1>1 DEF CounterInv

\* Whoever holds the lock has the counter, and hands out what it adds.
LEMMA CounterStep ==
  ASSUME TypeOK, LockHeld, CounterInv, [Next]_vars
  PROVE  CounterInv'
<1> USE DEF Regressed, SameCounting
<1>1. ASSUME NEW p \in Procs, NextKey(p) PROVE CounterInv'
  BY <1>1, NextKeyIs, CountersStay DEF Counts, Writing, At, Whole, CounterInv
<1>2. ASSUME NEW p \in Procs, Link(p) PROVE CounterInv'
  BY <1>2, LinkIs, CountersStay DEF Counts, Writing, At, CounterInv
<1>3. ASSUME NEW p \in Procs, Truncates(p) PROVE CounterInv'
  BY <1>3, TruncatesIs, CountersStay DEF Counts, Writing, At, CounterInv
<1>4. ASSUME NEW p \in Procs, Fills(p) PROVE CounterInv'
  <2>1. proc[p].pc \in {"fill", "buried"} /\ Held(p) /\ OthersStand(p)
    BY <1>4, FillsIs DEF LockHeld
  <2>2. SUFFICES ASSUME ~Regressed' PROVE CounterInv'
    BY DEF CounterInv
  <2>3. ~Regressed /\ (proc[p].call # "link" => At(p, "fill"))
    BY <1>4, <2>1, <2>2, FillsWhy DEF At
  <2>4. Counts(p) /\ Counts(p)'
    BY <1>4, <2>3, FillsIs DEF CounterInv, Counts, Writing, At
  <2>5. CASE proc[p].call = "link"
    <3>1. why.twice \in BOOLEAN /\ HandsOut(p) = {}
      BY <2>5 DEF TypeOK, HandsOut
    <3>2. /\ why'.counter = why.counter /\ why'.keys = why.keys /\ why'.twice = why.twice
          /\ At(p, "fill") => proc[p].out.next = why.counter
      BY <1>4, <2>2, <2>5, <3>1, FillsWhy DEF At
    <3>3. (project' = proc[p].out /\ At(p, "fill")) \/ project' = project
      BY <1>4, FillsIs
    <3> QED
      BY <2>1, <2>2, <2>3, <2>4, <3>2, <3>3, CountersStay DEF CounterInv
  <2>6. CASE proc[p].call # "link"
    <3>1. At(p, "fill") /\ proc[p].call \in {"key", "fix"} /\ lock = p
      BY <2>1, <2>3, <2>6 DEF TypeOK, Processes, Held, Inside, Writing, At
    <3>2. project' = proc[p].out /\ why'.counter = proc[p].out.next
      BY <1>4, <2>6, <3>1, FillsIs, FillsWhy DEF At
    <3>3. \A q \in Procs : Counts(q)'
      BY <2>1, <2>3, <2>4, <3>1, CountOthers
    <3>4. why.counter \in Nat /\ proc[p].n \in Nat /\ proc[p].out.next \in Nat
          /\ proc[p].mine.next \in Nat /\ why.keys \subseteq Nat
      BY DEF TypeOK, Processes, ProjectFiles
    <3>5. /\ \A k \in HandsOut(p) : k < proc[p].out.next /\ k >= why.counter
          /\ why.counter <= proc[p].out.next
      BY <2>4, <3>1, <3>4 DEF HandsOut, Counts, Writing, At
    <3>6. \A k \in why.keys : k < why.counter /\ k \in Nat
      BY <2>3, <3>4 DEF CounterInv
    <3>7. HandsOut(p) \cap why.keys = {} /\ ~why.twice
      BY <2>3, <3>4, <3>5, <3>6 DEF CounterInv
    <3>8. \A k \in why'.keys : k < why'.counter
      <4>1. HandsOut(p) \subseteq Nat
        BY <3>4 DEF HandsOut
      <4> QED
        BY <1>4, <3>2, <3>4, <3>5, <3>6, <4>1, FillsWhy
    <3> QED
      BY <1>4, <3>2, <3>3, <3>7, <3>8, FillsWhy DEF CounterInv
  <2> QED
    BY <2>5, <2>6
<1>5. ASSUME NEW p \in Procs, MovePhase(p) PROVE CounterInv'
  BY <1>5, MovePhaseIs, CountersStay DEF Counts, Writing, At, CounterInv
<1>6. ASSUME NEW p \in Procs, MovePhaseSaves(p) PROVE CounterInv'
  BY <1>6, MovePhaseSavesIs, CountersStay DEF Counts, Writing, At, CounterInv
<1>7. ASSUME NEW p \in Procs, Advance(p) PROVE CounterInv'
  BY <1>7, AdvanceIs, CountersStay DEF Counts, Writing, At, Whole, CounterInv
<1>8. ASSUME NEW p \in Procs, AdvanceSaves(p) PROVE CounterInv'
  BY <1>8, AdvanceSavesIs, CountersStay DEF Counts, Writing, At, CounterInv
<1>9. ASSUME NEW p \in Procs, AdvanceAccepted(p) PROVE CounterInv'
  BY <1>9, AdvanceAcceptedIs, CountersStay DEF Counts, Writing, At, CounterInv
<1>10. ASSUME NEW p \in Procs, AdvanceRefused(p) PROVE CounterInv'
  BY <1>10, AdvanceRefusedIs, CountersStay DEF Counts, Writing, At, CounterInv
<1>11. ASSUME NEW p \in Procs, FixLoads(p) PROVE CounterInv'
  BY <1>11, FixLoadsIs, CountersStay DEF Counts, Writing, At, CounterInv
<1>12. ASSUME NEW p \in Procs, FixLocks(p) PROVE CounterInv'
  <2> SUFFICES ASSUME ~Regressed' PROVE CounterInv'
    BY DEF CounterInv
  <2>1. ~Regressed /\ (Drifts(p) => project.next = proc[p].mine.next)
    BY <1>12, FixLocksIs
  <2>2. Drifts(p) => proc[p].highest + 1 >= why.counter
    <3>1. proc[p].highest \in Nat /\ proc[p].mine \in ProjectFiles /\ project \in ProjectFiles
      BY DEF TypeOK, Processes
    <3> QED
      BY <2>1, <3>1 DEF CounterInv, Drifts, ProjectFiles
  <2>3. Counts(p)'
    BY <1>12, <2>2, FixLocksIs DEF Counts, Writing, At, LockHeld, Held
  <2> QED
    BY <1>12, <2>1, <2>3, FixLocksIs, CountersStay DEF CounterInv
<1>13. ASSUME NEW p \in Procs, FixIssue(p) PROVE CounterInv'
  BY <1>13, FixIssueIs, CountersStay DEF Counts, Writing, At, CounterInv
<1>14. ASSUME NEW p \in Procs, Patch(p) PROVE CounterInv'
  BY <1>14, PatchIs, CountersStay DEF Counts, Writing, At, CounterInv
<1>15. ASSUME NEW p \in Procs, PatchSaves(p) PROVE CounterInv'
  BY <1>15, PatchSavesIs, CountersStay DEF Counts, Writing, At, CounterInv
<1>16. ASSUME NEW p \in Procs, AskMove(p) PROVE CounterInv'
  BY <1>16, AskMoveIs, CountersStay DEF Counts, Writing, At, CounterInv
<1>17. ASSUME NEW p \in Procs, MoveLoads(p) PROVE CounterInv'
  BY <1>17, MoveLoadsIs, CountersStay DEF Counts, Writing, At, CounterInv
<1>18. ASSUME NEW p \in Procs, MoveSaves(p) PROVE CounterInv'
  BY <1>18, MoveSavesIs, CountersStay DEF Counts, Writing, At, CounterInv
<1>19. ASSUME NEW p \in Procs, GivesUp(p) PROVE CounterInv'
  BY <1>19, GivesUpIs, CountersStay DEF Counts, Writing, At, CounterInv
<1>20. ASSUME NEW p \in Procs, Dies(p) PROVE CounterInv'
  BY <1>20, DiesIs, CountersStay DEF Counts, Writing, At, CounterInv
<1>21. CASE IssueFile
  BY <1>21 DEF IssueFile, CounterInv, Counts, Writing, At
<1>22. CASE UNCHANGED vars
  BY <1>22 DEF vars, CounterInv, Counts, Writing, At
<1> QED
  BY <1>1, <1>2, <1>3, <1>4, <1>5, <1>6, <1>7, <1>8, <1>9, <1>10, <1>11, <1>12,
     <1>13, <1>14, <1>15, <1>16, <1>17, <1>18, <1>19, <1>20, <1>21, <1>22 DEF Next

-----------------------------------------------------------------------------
(* The phase.                                                              *)

\* What was known stays known, and nobody else makes a copy.
LEMMA VouchOthers ==
  ASSUME LockHeld, PhaseInv, ~Escaped, NEW p \in Procs, OthersStand(p),
         \A ph : Known(ph) => Known(ph)'
  PROVE  \A q \in Procs : q # p => Vouches(q)'
<1> SUFFICES ASSUME NEW q \in Procs, q # p PROVE Vouches(q)'
  OBVIOUS
<1>1. Held(q) /\ Bystander(q) /\ Vouches(q)
  BY DEF LockHeld, OthersStand, PhaseInv
<1>2. /\ Writing(q)' => Writing(q)
      /\ proc'[q].pc \in {"phase", "validate"} => proc[q].pc = proc'[q].pc
  BY <1>1 DEF Bystander, Writing, At
<1> QED
  BY <1>1, <1>2 DEF Vouches, Bystander

\* A phase on trial stays on trial while its process does nothing.
LEMMA TrialsStay ==
  ASSUME NEW p \in Procs, OthersStand(p), NEW q \in Procs, q # p, OnTrial(q),
         project'.phase = project.phase
  PROVE  OnTrial(q)'
BY DEF OthersStand, Bystander, OnTrial, At

\* Everything but a write of the file.
LEMMA PhasesStay ==
  ASSUME LockHeld, PhaseInv, NEW p \in Procs, OthersStand(p),
         ~Escaped' => ~Escaped,
         \A ph : Known(ph) => Known(ph)',
         ~Escaped' => Vouches(p)',
         ~Escaped' /\ Whole' => \/ Known(project.phase)'
                                \/ OnTrial(p)'
                                \/ Whole /\ UNCHANGED project /\ ~OnTrial(p)
  PROVE  PhaseInv'
<1> SUFFICES ASSUME ~Escaped' PROVE PhaseInv'
  BY DEF PhaseInv
<1>1. \A q \in Procs : Vouches(q)'
  BY VouchOthers
<1>2. Whole' => Known(project.phase)' \/ \E q \in Procs : OnTrial(q)'
  BY TrialsStay DEF PhaseInv
<1> QED
  BY <1>1, <1>2 DEF PhaseInv

\* When nobody has project_lock, no phase is on trial.
LEMMA NoTrial ==
  ASSUME LockHeld, PhaseInv, ~Escaped, Whole, lock = Nobody
  PROVE  Known(project.phase)
BY StoreAssumption DEF PhaseInv, LockHeld, Held, Inside, OnTrial, At

\* A copy that is saved under the lock has a phase that has been accepted.
LEMMA PhaseStep ==
  ASSUME TypeOK, LockHeld, PhaseInv, [Next]_vars
  PROVE  PhaseInv'
<1> USE DEF SamePhasing
<1>1. ASSUME NEW p \in Procs, NextKey(p) PROVE PhaseInv'
  BY <1>1, NextKeyIs, NoTrial, PhasesStay DEF Vouches, OnTrial, Writing, At, Escaped, Known
<1>2. ASSUME NEW p \in Procs, Link(p) PROVE PhaseInv'
  BY <1>2, LinkIs, PhasesStay DEF Vouches, OnTrial, Writing, At, PhaseInv, Escaped,
     Known, Whole
<1>3. ASSUME NEW p \in Procs, Truncates(p) PROVE PhaseInv'
  BY <1>3, TruncatesIs, PhasesStay DEF Vouches, OnTrial, Writing, At, PhaseInv, Escaped,
     Known, Whole
<1>4. ASSUME NEW p \in Procs, Fills(p) PROVE PhaseInv'
  <2> SUFFICES ASSUME ~Escaped' PROVE PhaseInv'
    BY DEF PhaseInv
  <2>1. /\ proc[p].pc \in {"fill", "buried"} /\ OthersStand(p) /\ Held(p)
        /\ proc'[p].pc \in {"fix", "idle"}
        /\ project' = IF At(p, "fill") THEN proc[p].out ELSE project
    BY <1>4, FillsIs DEF LockHeld
  <2>2. /\ ~Escaped /\ why'.accepted = why.accepted /\ why'.forced = why.forced
        /\ At(p, "fill") /\ proc[p].call = "link" => proc[p].out.phase \in why.accepted
    BY <1>4, FillsWhy DEF Escaped, At
  <2>3. Vouches(p)' /\ ~OnTrial(p)
    BY <2>1 DEF Vouches, Writing, OnTrial, At
  <2>4. At(p, "fill") /\ Whole' => Known(project.phase)'
    <3>1. CASE proc[p].call = "link"
      BY <2>1, <2>2, <3>1 DEF Known
    <3>2. CASE proc[p].call # "link"
      BY <2>1, <2>2, <3>2 DEF PhaseInv, Vouches, Writing, Held, Known, Whole, At
    <3> QED
      BY <3>1, <3>2
  <2> QED
    BY <2>1, <2>2, <2>3, <2>4, PhasesStay DEF Known, Whole
<1>5. ASSUME NEW p \in Procs, MovePhase(p) PROVE PhaseInv'
  BY <1>5, MovePhaseIs, PhasesStay DEF Vouches, OnTrial, Writing, At, PhaseInv, Escaped,
     Known, Whole
<1>6. ASSUME NEW p \in Procs, MovePhaseSaves(p) PROVE PhaseInv'
  BY <1>6, MovePhaseSavesIs, PhasesStay DEF Vouches, OnTrial, Writing, At, PhaseInv,
     Escaped, Known, Whole
<1>7. ASSUME NEW p \in Procs, Advance(p) PROVE PhaseInv'
  BY <1>7, AdvanceIs, NoTrial, PhasesStay DEF Vouches, OnTrial, Writing, At, Escaped, Known
<1>8. ASSUME NEW p \in Procs, AdvanceSaves(p) PROVE PhaseInv'
  BY <1>8, AdvanceSavesIs, PhasesStay DEF Vouches, OnTrial, Writing, At, PhaseInv,
     Escaped, Known, Whole
<1>9. ASSUME NEW p \in Procs, AdvanceAccepted(p) PROVE PhaseInv'
  BY <1>9, AdvanceAcceptedIs, PhasesStay DEF Vouches, OnTrial, Writing, At, PhaseInv,
     Escaped, Known, Whole
<1>10. ASSUME NEW p \in Procs, AdvanceRefused(p) PROVE PhaseInv'
  BY <1>10, AdvanceRefusedIs, PhasesStay DEF Vouches, OnTrial, Writing, At, PhaseInv,
     Escaped, Known, Whole
<1>11. ASSUME NEW p \in Procs, FixLoads(p) PROVE PhaseInv'
  BY <1>11, FixLoadsIs, PhasesStay DEF Vouches, OnTrial, Writing, At, PhaseInv, Escaped,
     Known, Whole
<1>12. ASSUME NEW p \in Procs, FixLocks(p) PROVE PhaseInv'
  <2> SUFFICES ASSUME ~Escaped' PROVE PhaseInv'
    BY DEF PhaseInv
  <2>1. ~Escaped /\ \A ph : Known(ph) => Known(ph)'
    BY <1>12, FixLocksIs DEF Escaped, Known
  <2>2. Vouches(p)' /\ ~OnTrial(p)
    BY <1>12, <2>1, FixLocksIs, NoTrial DEF Vouches, Writing, OnTrial, At, Known
  <2> QED
    BY <1>12, <2>1, <2>2, FixLocksIs, PhasesStay DEF Whole
<1>13. ASSUME NEW p \in Procs, FixIssue(p) PROVE PhaseInv'
  BY <1>13, FixIssueIs, PhasesStay DEF Vouches, OnTrial, Writing, At, PhaseInv, Escaped,
     Known, Whole
<1>14. ASSUME NEW p \in Procs, Patch(p) PROVE PhaseInv'
  BY <1>14, PatchIs, PhasesStay DEF Vouches, OnTrial, Writing, At, PhaseInv, Escaped,
     Known, Whole
<1>15. ASSUME NEW p \in Procs, PatchSaves(p) PROVE PhaseInv'
  BY <1>15, PatchSavesIs, PhasesStay DEF Vouches, OnTrial, Writing, At, PhaseInv,
     Escaped, Known, Whole
<1>16. ASSUME NEW p \in Procs, AskMove(p) PROVE PhaseInv'
  BY <1>16, AskMoveIs, PhasesStay DEF Vouches, OnTrial, Writing, At, PhaseInv, Escaped,
     Known, Whole
<1>17. ASSUME NEW p \in Procs, MoveLoads(p) PROVE PhaseInv'
  BY <1>17, MoveLoadsIs, PhasesStay DEF Vouches, OnTrial, Writing, At, PhaseInv, Escaped,
     Known, Whole
<1>18. ASSUME NEW p \in Procs, MoveSaves(p) PROVE PhaseInv'
  BY <1>18, MoveSavesIs, PhasesStay DEF Vouches, OnTrial, Writing, At, PhaseInv, Escaped,
     Known, Whole
<1>19. ASSUME NEW p \in Procs, GivesUp(p) PROVE PhaseInv'
  BY <1>19, GivesUpIs, PhasesStay DEF Vouches, OnTrial, Writing, At, PhaseInv, Escaped,
     Known, Whole
<1>20. ASSUME NEW p \in Procs, Dies(p) PROVE PhaseInv'
  BY <1>20, DiesIs, PhasesStay DEF Vouches, OnTrial, Writing, At, PhaseInv, Escaped,
     Known, Whole
<1>21. CASE IssueFile
  BY <1>21 DEF IssueFile, PhaseInv, Vouches, OnTrial, Writing, At, Escaped, Known, Whole
<1>22. CASE UNCHANGED vars
  BY <1>22 DEF vars, PhaseInv, Vouches, OnTrial, Writing, At, Escaped, Known, Whole
<1> QED
  BY <1>1, <1>2, <1>3, <1>4, <1>5, <1>6, <1>7, <1>8, <1>9, <1>10, <1>11, <1>12,
     <1>13, <1>14, <1>15, <1>16, <1>17, <1>18, <1>19, <1>20, <1>21, <1>22 DEF Next

-----------------------------------------------------------------------------
(* The issue.                                                              *)

\* What patches have set changes under the lock only.
LEMMA PatchOthers ==
  ASSUME LockHeld, IssueInv, ~why.unset, ~why.fixed, NEW p \in Procs, OthersStand(p),
         why'.set = why.set \/ lock = p
  PROVE  \A q \in Procs : q # p => Patches(q)'
BY DEF LockHeld, Held, Inside, IssueInv, Patches, OthersStand, Bystander, At

\* Everything but a write of the issue.
LEMMA IssueStays ==
  ASSUME LockHeld, IssueInv, NEW p \in Procs, OthersStand(p), SameIssuing, UNCHANGED issue,
         ~why.unset /\ ~why.fixed => Patches(p)'
  PROVE  IssueInv'
<1>1. SavesKeepEachOther'
  BY DEF IssueInv, SavesKeepEachOther, SameIssuing
<1>2. ~why.unset /\ ~why.fixed => \A q \in Procs : Patches(q)'
  BY PatchOthers DEF SameIssuing
<1> QED
  BY <1>1, <1>2 DEF IssueInv, SameIssuing

\* Fields are neither the status nor the mark of an untidy issue.
LEMMA FieldsApart ==
  ASSUME TypeOK
  PROVE  /\ "status" \notin Fields /\ "untidy" \notin Fields
         /\ DOMAIN issue = Fields \cup {"status", "untidy"}
         /\ \A p \in Procs : DOMAIN proc[p].issue = Fields \cup {"status", "untidy"}
BY StoreAssumption DEF TypeOK, Processes, IssueFiles

\* A copy of the issue that is saved under the lock has what patches have set.
LEMMA IssueStep ==
  ASSUME TypeOK, LockHeld, IssueInv, [Next]_vars
  PROVE  IssueInv'
<1>1. ASSUME NEW p \in Procs, NextKey(p) PROVE IssueInv'
  BY <1>1, NextKeyIs, IssueStays DEF SameIssuing, Patches, At
<1>2. ASSUME NEW p \in Procs, Link(p) PROVE IssueInv'
  BY <1>2, LinkIs, IssueStays DEF SameIssuing, Patches, At
<1>3. ASSUME NEW p \in Procs, Truncates(p) PROVE IssueInv'
  BY <1>3, TruncatesIs, IssueStays DEF SameIssuing, Patches, At
<1>4. ASSUME NEW p \in Procs, Fills(p) PROVE IssueInv'
  BY <1>4, FillsIs, FillsWhy, IssueStays DEF Patches, At
<1>5. ASSUME NEW p \in Procs, MovePhase(p) PROVE IssueInv'
  BY <1>5, MovePhaseIs, IssueStays DEF SameIssuing, Patches, At
<1>6. ASSUME NEW p \in Procs, MovePhaseSaves(p) PROVE IssueInv'
  BY <1>6, MovePhaseSavesIs, IssueStays DEF SameIssuing, Patches, At
<1>7. ASSUME NEW p \in Procs, Advance(p) PROVE IssueInv'
  BY <1>7, AdvanceIs, IssueStays DEF SameIssuing, Patches, At
<1>8. ASSUME NEW p \in Procs, AdvanceSaves(p) PROVE IssueInv'
  BY <1>8, AdvanceSavesIs, IssueStays DEF SameIssuing, Patches, At
<1>9. ASSUME NEW p \in Procs, AdvanceAccepted(p) PROVE IssueInv'
  BY <1>9, AdvanceAcceptedIs, IssueStays DEF SameIssuing, Patches, At
<1>10. ASSUME NEW p \in Procs, AdvanceRefused(p) PROVE IssueInv'
  BY <1>10, AdvanceRefusedIs, IssueStays DEF SameIssuing, Patches, At
<1>11. ASSUME NEW p \in Procs, FixLoads(p) PROVE IssueInv'
  BY <1>11, FixLoadsIs, IssueStays DEF SameIssuing, Patches, At
<1>12. ASSUME NEW p \in Procs, FixLocks(p) PROVE IssueInv'
  BY <1>12, FixLocksIs, IssueStays DEF SameIssuing, Patches, At
<1>13. ASSUME NEW p \in Procs, FixIssue(p) PROVE IssueInv'
  <2>1. \A q \in Procs : q # p => Patches(q)' \/ why.unset \/ why.fixed
    BY <1>13, FixIssueIs, PatchOthers
  <2>2. /\ At(p, "fix") /\ proc'[p].pc = "idle"
        /\ issue' = IF proc[p].issue.untidy THEN [proc[p].issue EXCEPT !.untidy = FALSE]
                    ELSE issue
        /\ why'.fixed = (why.fixed \/ (proc[p].issue.untidy /\ issue # proc[p].issue))
        /\ why'.set = why.set /\ why'.moved = why.moved
        /\ why'.unset = why.unset /\ why'.unmoved = why.unmoved
    BY <1>13, FixIssueIs
  <2>3. why'.fixed \/ (issue'.status = issue.status /\ \A f \in Fields : issue'[f] = issue[f])
    BY <2>2, FieldsApart
  <2>4. SavesKeepEachOther'
    BY <2>2, <2>3 DEF IssueInv, SavesKeepEachOther
  <2> QED
    BY <2>1, <2>2, <2>4 DEF IssueInv, Patches, At
<1>14. ASSUME NEW p \in Procs, Patch(p) PROVE IssueInv'
  BY <1>14, PatchIs, IssueStays DEF SameIssuing, IssueInv, SavesKeepEachOther, Patches
<1>15. ASSUME NEW p \in Procs, PatchSaves(p) PROVE IssueInv'
  <2> DEFINE mine == proc[p].issue
  <2>1. lock = p /\ At(p, "patch") /\ proc'[p].pc = "idle" /\ OthersStand(p)
    BY <1>15, PatchSavesIs DEF LockHeld, Held, Inside, At
  <2>2. /\ why'.set = [f \in Fields |-> IF issue'[f] # mine[f] THEN issue'[f] ELSE why.set[f]]
        /\ why'.unmoved = (why.unmoved \/ issue.status # mine.status)
        /\ why'.unset = why.unset /\ why'.fixed = why.fixed /\ why'.moved = why.moved
    BY <1>15 DEF PatchSaves, TypeOK
  <2>3. issue'.status = mine.status
    BY <1>15, FieldsApart DEF PatchSaves
  <2>4. ASSUME ~why.unset, ~why.fixed PROVE \A f \in Fields : issue'[f] = why'.set[f]
    BY <2>1, <2>2, <2>4 DEF IssueInv, Patches
  <2>5. SavesKeepEachOther'
    BY <2>2, <2>3, <2>4 DEF IssueInv, SavesKeepEachOther
  <2>6. ASSUME ~why.unset, ~why.fixed PROVE \A q \in Procs : Patches(q)'
    BY <2>1, <2>6, PatchOthers DEF Patches, At
  <2> QED
    BY <2>2, <2>5, <2>6 DEF IssueInv
<1>16. ASSUME NEW p \in Procs, AskMove(p) PROVE IssueInv'
  BY <1>16, AskMoveIs, IssueStays DEF SameIssuing, Patches, At
<1>17. ASSUME NEW p \in Procs, MoveLoads(p) PROVE IssueInv'
  BY <1>17, MoveLoadsIs, IssueStays DEF SameIssuing, Patches, At
<1>18. ASSUME NEW p \in Procs, MoveSaves(p) PROVE IssueInv'
  <2> DEFINE mine == proc[p].issue
  <2>1. At(p, "move") /\ proc'[p].pc = "idle" /\ OthersStand(p)
    BY <1>18, MoveSavesIs
  <2>2. /\ why'.moved = proc[p].to /\ why'.set = why.set
        /\ why'.unset = (why.unset \/ \E f \in Fields : issue[f] # mine[f])
        /\ why'.unmoved = why.unmoved /\ why'.fixed = why.fixed
    BY <1>18 DEF MoveSaves, TypeOK
  <2>3. issue'.status = proc[p].to /\ \A f \in Fields : issue'[f] = mine[f]
    BY <1>18, FieldsApart DEF MoveSaves
  <2>4. SavesKeepEachOther'
    BY <2>2, <2>3 DEF IssueInv, SavesKeepEachOther
  <2>5. ASSUME ~why'.unset, ~why'.fixed PROVE \A q \in Procs : Patches(q)'
    BY <2>1, <2>2, <2>5, PatchOthers DEF Patches, At
  <2> QED
    BY <2>4, <2>5 DEF IssueInv
<1>19. ASSUME NEW p \in Procs, GivesUp(p) PROVE IssueInv'
  BY <1>19, GivesUpIs, IssueStays DEF SameIssuing, Patches, At
<1>20. ASSUME NEW p \in Procs, Dies(p) PROVE IssueInv'
  BY <1>20, DiesIs, IssueStays DEF SameIssuing, Patches, At
<1>21. CASE IssueFile
  BY <1>21, FieldsApart DEF IssueFile, IssueInv, SavesKeepEachOther, Patches, At
<1>22. CASE UNCHANGED vars
  BY <1>22 DEF vars, IssueInv, SavesKeepEachOther, Patches, At
<1> QED
  BY <1>1, <1>2, <1>3, <1>4, <1>5, <1>6, <1>7, <1>8, <1>9, <1>10, <1>11, <1>12,
     <1>13, <1>14, <1>15, <1>16, <1>17, <1>18, <1>19, <1>20, <1>21, <1>22 DEF Next
-----------------------------------------------------------------------------
(* Types.                                                                  *)

\* What a process may be, and what its copy of the issue may hold.
Typed(r) ==
  /\ r \in Processes
  /\ \A f \in Fields : r.issue[f] \in Nat
  /\ r.pc \in {"phase", "validate", "phasemove"} => r.mine.has = "all"
  /\ r.pc = "move" => r.to \in Statuses
ProcsTyped == proc \in [Procs -> Processes] /\ \A p \in Procs : Typed(proc[p])
IsIssue(i) == i \in IssueFiles /\ \A f \in Fields : i[f] \in Nat

\* Processes stay processes when one of them becomes another.
LEMMA BecomesType ==
  ASSUME TypeOK, NEW p \in Procs, NEW r, Becomes(p, r), Typed(r)
  PROVE  ProcsTyped'
BY DEF TypeOK, Becomes, Typed, ProcsTyped

\* A truncated file.
LEMMA EmptyType == Empty \in ProjectFiles
BY DEF Empty, ProjectFiles, Targets

\* What TypeOK says of the file, the issue and a process.
LEMMA TypedNow ==
  ASSUME TypeOK, NEW p \in Procs
  PROVE  /\ Typed(proc[p]) /\ IsIssue(issue) /\ project \in ProjectFiles
         /\ proc[p].mine \in ProjectFiles /\ proc[p].out \in ProjectFiles
         /\ IsIssue(proc[p].issue) /\ proc[p].to \in Targets
         /\ proc[p].n \in Nat /\ proc[p].highest \in Nat /\ highest \in Nat
BY DEF TypeOK, Typed, IsIssue, Processes

\* A process between calls has no copy of the issue.
LEMMA IdleType == Typed(Idle) /\ IsIssue(Idle.issue) /\ Idle \in Processes
<1>1. IsIssue(NoIssue)
  BY StoreAssumption DEF IsIssue, IssueFiles, NoIssue, Values
<1>2. Idle \in Processes
  BY <1>1, EmptyType DEF Processes, Idle, IsIssue, Targets
<1> QED
  BY <1>1, <1>2, IdleIs DEF Typed, IsIssue

\* A process at the start of a call.
LEMMA CallType ==
  ASSUME TypeOK, NEW pc \in {"idle", "phase", "phasemove", "patch", "ask", "move"},
         NEW mine \in ProjectFiles, NEW to \in Targets, NEW i, IsIssue(i),
         pc \in {"phase", "phasemove"} => mine.has = "all", pc = "move" => to \in Statuses
  PROVE  Typed([Idle EXCEPT !.pc = pc, !.mine = mine, !.to = to, !.issue = i])
<1> DEFINE r == [Idle EXCEPT !.pc = pc, !.mine = mine, !.to = to, !.issue = i]
<1>1. r \in Processes
  BY EmptyType DEF Processes, Idle, IsIssue
<1>2. r.issue = i /\ r.pc = pc /\ r.mine = mine /\ r.to = to
  BY DEF Idle
<1> QED
  BY <1>1, <1>2 DEF Typed, IsIssue

\* The end of a call keeps the types.
LEMMA EndsType ==
  ASSUME TypeOK, NEW p \in Procs, Ends(p)
  PROVE  ProcsTyped' /\ lock' \in Procs \cup {Nobody}
<1>1. ProcsTyped'
  BY IdleType, BecomesType DEF Ends
<1> QED
  BY <1>1 DEF Ends, Frees, TypeOK

\* A rename keeps the types of the processes.
LEMMA ReplacesType ==
  ASSUME TypeOK, NEW p \in Procs, NEW file, NEW r, Replaces(p, file, r), Typed(r)
  PROVE  ProcsTyped'
<1>1. ASSUME NEW q \in Procs, q # p PROVE Typed([proc[q] EXCEPT !.pc = "buried"])
  BY TypedNow DEF Typed, Processes
<1>2. ASSUME NEW q \in Procs PROVE Typed(proc'[q])
  BY <1>1, TypedNow DEF Replaces
<1> QED
  BY <1>2 DEF Replaces, ProcsTyped, Typed

\* The file of project.yaml after another phase or counter has been put into it.
LEMMA PhaseType ==
  ASSUME NEW f \in ProjectFiles, f.has # "nothing", NEW ph \in Targets
  PROVE  [f EXCEPT !.phase = ph] \in ProjectFiles
BY DEF ProjectFiles

\* A link or unlink.
LEMMA LinkedType ==
  ASSUME NEW f \in ProjectFiles, f.has # "nothing"
  PROVE  [f EXCEPT !.linked = ~@] \in ProjectFiles
BY DEF ProjectFiles

\* Another counter in a file that has one.
LEMMA NextType ==
  ASSUME NEW f \in ProjectFiles, f.has # "nothing", NEW n \in Nat, n > 0
  PROVE  [f EXCEPT !.next = n] \in ProjectFiles
BY DEF ProjectFiles

\* A file that has nothing but a counter.
LEMMA CounterType ==
  ASSUME NEW n \in Nat, n > 0
  PROVE  Counter(n) \in ProjectFiles
<1>1. Counter(n) \in [has : {"nothing", "counter", "all"}, phase : Targets, next : Nat,
                      linked : BOOLEAN]
  BY EmptyType DEF Counter, ProjectFiles
<1>2. Counter(n).has = "counter" /\ Counter(n).next = n
  BY DEF Counter, Empty
<1> QED
  BY <1>1, <1>2 DEF ProjectFiles

Budgets == [{"calls", "crashes", "files"} -> Nat]
Histories == [counter : Nat, keys : SUBSET Nat, twice : BOOLEAN, stale : BOOLEAN,
              late : BOOLEAN, buried : BOOLEAN, accepted : SUBSET Targets,
              forced : SUBSET Targets, trial : BOOLEAN, dropped : BOOLEAN,
              set : [Fields -> Nat], moved : Statuses,
              unset : BOOLEAN, unmoved : BOOLEAN, fixed : BOOLEAN]

Parts ==
  /\ project \in ProjectFiles /\ IsIssue(issue) /\ highest \in Nat
  /\ lock \in Procs \cup {Nobody} /\ ilock \in Procs \cup {Nobody}
  /\ ProcsTyped /\ budget \in Budgets /\ why \in Histories

\* TypeOK, in the parts the steps are about.
LEMMA TypeParts == TypeOK <=> Parts
BY DEF Parts, TypeOK, IsIssue, ProcsTyped, Typed, Budgets, Histories

\* The same for the state a step leads to.
LEMMA TypeJoin == ASSUME Parts' PROVE TypeOK'
BY DEF Parts, TypeOK, IsIssue, ProcsTyped, Typed, Budgets, Histories

\* A budget that is spent stays a budget.
LEMMA SpendType ==
  ASSUME TypeOK, NEW what \in {"calls", "crashes", "files"}, Spend(what)
  PROVE  budget' \in Budgets
BY DEF TypeOK, Spend, Budgets

\* Every step keeps the types.
LEMMA TypeStep ==
  ASSUME TypeOK, [Next]_vars
  PROVE  TypeOK'
<1>1. ASSUME NEW p \in Procs, NextKey(p) PROVE TypeOK'
  <2>1. PICK n \in 1..MaxCount :
          Locks(p, [Idle EXCEPT !.pc = "write", !.call = "key", !.mine = project, !.n = n,
                                !.out = [project EXCEPT !.next = @ + n]])
    BY <1>1 DEF NextKey
  <2> DEFINE out == [project EXCEPT !.next = @ + n]
             r == [Idle EXCEPT !.pc = "write", !.call = "key", !.mine = project, !.n = n,
                               !.out = out]
  <2>2. n \in Nat /\ n > 0 /\ project \in ProjectFiles /\ project.has = "all"
        /\ IsIssue(issue) /\ project.next + n \in Nat /\ project.next + n > 0
    BY <1>1, TypedNow, StoreAssumption DEF NextKey, Whole, ProjectFiles
  <2>3. out \in ProjectFiles
    BY <2>2, NextType
  <2>4. r \in Processes /\ r.issue = NoIssue /\ r.pc = "write"
    BY <2>2, <2>3, IdleType DEF Idle, Processes, Targets
  <2>5. ProcsTyped'
    BY <2>1, <2>2, <2>4, IdleType, IdleIs, BecomesType DEF Locks, Typed, IsIssue
  <2>6. budget' \in Budgets /\ lock' = p
    BY <2>1, SpendType DEF Locks
  <2> QED
    BY <1>1, <2>5, <2>6, TypeParts, TypeJoin DEF Parts, NextKey
<1>2. ASSUME NEW p \in Procs, Link(p) PROVE TypeOK'
  <2> DEFINE out == [project EXCEPT !.linked = ~@]
             r == [Idle EXCEPT !.pc = "write", !.call = "link", !.mine = project, !.out = out]
  <2>1. project \in ProjectFiles /\ project.has = "all" /\ IsIssue(issue)
    BY <1>2, TypedNow DEF Link, Whole
  <2>2. out \in ProjectFiles
    BY <2>1, LinkedType
  <2>3. r \in Processes /\ r.issue = NoIssue /\ r.pc = "write"
    BY <2>1, <2>2, IdleType DEF Idle, Processes, Targets
  <2>4. ProcsTyped'
    BY <1>2, <2>1, <2>3, IdleType, IdleIs, BecomesType DEF Link, Typed, IsIssue
  <2>5. budget' \in Budgets
    BY <1>2, SpendType DEF Link
  <2> QED
    BY <1>2, <2>4, <2>5, TypeParts, TypeJoin DEF Parts, Link
<1>3. ASSUME NEW p \in Procs, Truncates(p) PROVE TypeOK'
  <2>1. Typed([proc[p] EXCEPT !.pc = "fill"])
    BY TypedNow DEF Typed, Processes
  <2>2. ProcsTyped'
    BY <1>3, <2>1, BecomesType DEF Truncates
  <2> QED
    BY <1>3, <2>2, EmptyType, TypeParts, TypeJoin DEF Parts, Truncates
<1>4. ASSUME NEW p \in Procs, Fills(p) PROVE TypeOK'
  <2>1. ProcsTyped' /\ lock' \in Procs \cup {Nobody}
    <3>1. Typed([proc[p] EXCEPT !.pc = "fix"])
      BY TypedNow DEF Typed, Processes
    <3>2. CASE proc[p].call = "fix"
      BY <1>4, <3>1, <3>2, BecomesType, TypeParts DEF Parts, Fills
    <3>3. CASE proc[p].call # "fix"
      BY <1>4, <3>3, EndsType DEF Fills
    <3> QED
      BY <3>2, <3>3
  <2>2. HandsOut(p) \subseteq Nat /\ proc[p].out.next \in Nat
    BY TypedNow DEF HandsOut, ProjectFiles
  <2>3. why' \in Histories
    <3>1. why \in Histories /\ DOMAIN why' = DOMAIN why
      BY <1>4, TypeParts DEF Parts, Fills, Histories
    <3>2. why' = [why EXCEPT !.counter = why'.counter, !.stale = why'.stale,
                            !.trial = why'.trial, !.buried = why'.buried,
                            !.keys = why'.keys, !.twice = why'.twice]
      BY <1>4, <3>1 DEF Fills, Histories
    <3>3. /\ why'.counter \in Nat /\ why'.keys \subseteq Nat
          /\ why'.stale \in BOOLEAN /\ why'.trial \in BOOLEAN
          /\ why'.buried \in BOOLEAN /\ why'.twice \in BOOLEAN
      BY <1>4, <2>2, <3>1, FillsWhy DEF Histories
    <3> QED
      BY <3>1, <3>2, <3>3 DEF Histories
  <2> QED
    BY <1>4, <2>1, <2>3, TypedNow, TypeParts, TypeJoin DEF Parts, Fills
<1>5. ASSUME NEW p \in Procs, MovePhase(p) PROVE TypeOK'
  <2>1. PICK r \in PhaseRoutes :
          Becomes(p, [Idle EXCEPT !.pc = "phasemove", !.mine = project, !.to = r[2]])
    BY <1>5 DEF MovePhase
  <2>2. project \in ProjectFiles /\ project.has = "all" /\ IsIssue(issue) /\ r[2] \in Targets
    BY <1>5, TypedNow DEF MovePhase, Whole, Targets
  <2> DEFINE s == [Idle EXCEPT !.pc = "phasemove", !.mine = project, !.to = r[2]]
  <2>3. s \in Processes /\ s.issue = NoIssue /\ s.pc = "phasemove" /\ s.mine = project
    BY <2>2, IdleType DEF Idle, Processes
  <2>4. ProcsTyped'
    BY <2>1, <2>2, <2>3, IdleType, IdleIs, BecomesType DEF Typed, IsIssue
  <2>5. budget' \in Budgets
    BY <1>5, SpendType DEF MovePhase
  <2> QED
    BY <1>5, <2>4, <2>5, TypeParts, TypeJoin DEF Parts, MovePhase
<1>6. ASSUME NEW p \in Procs, MovePhaseSaves(p) PROVE TypeOK'
  <2>1. proc[p].mine.has = "all" /\ proc[p].mine \in ProjectFiles /\ proc[p].to \in Targets
    BY <1>6, TypedNow DEF MovePhaseSaves, Typed, At
  <2>2. ProcsTyped' /\ project' \in ProjectFiles
    BY <1>6, <2>1, PhaseType, IdleType, ReplacesType, ReplacesIs DEF MovePhaseSaves
  <2>3. why' \in Histories
    BY <1>6, <2>1, TypeParts DEF Parts, MovePhaseSaves, Histories
  <2> QED
    BY <1>6, <2>2, <2>3, TypeParts, TypeJoin DEF Parts, MovePhaseSaves
<1>7. ASSUME NEW p \in Procs, Advance(p) PROVE TypeOK'
  <2>1. PICK t \in Phases : Locks(p, [Idle EXCEPT !.pc = "phase", !.mine = project, !.to = t])
    BY <1>7 DEF Advance
  <2>2. project \in ProjectFiles /\ project.has = "all" /\ IsIssue(issue) /\ t \in Targets
    BY <1>7, TypedNow DEF Advance, Whole, Targets
  <2> DEFINE s == [Idle EXCEPT !.pc = "phase", !.mine = project, !.to = t]
  <2>3. s \in Processes /\ s.issue = NoIssue /\ s.pc = "phase" /\ s.mine = project
    BY <2>2, IdleType DEF Idle, Processes
  <2>4. ProcsTyped' /\ budget' \in Budgets /\ lock' = p
    BY <2>1, <2>2, <2>3, IdleType, IdleIs, BecomesType, SpendType DEF Locks, Typed, IsIssue
  <2> QED
    BY <1>7, <2>4, TypeParts, TypeJoin DEF Parts, Advance
<1>8. ASSUME NEW p \in Procs, AdvanceSaves(p) PROVE TypeOK'
  <2>1. proc[p].mine.has = "all" /\ proc[p].mine \in ProjectFiles /\ proc[p].to \in Targets
    BY <1>8, TypedNow DEF AdvanceSaves, Typed, At
  <2>2. Typed([proc[p] EXCEPT !.pc = "validate"])
    BY <2>1, TypedNow DEF Typed, Processes
  <2>3. ProcsTyped' /\ project' \in ProjectFiles
    BY <1>8, <2>1, <2>2, PhaseType, ReplacesType, ReplacesIs DEF AdvanceSaves
  <2> QED
    BY <1>8, <2>3, TypeParts, TypeJoin DEF Parts, AdvanceSaves
<1>9. ASSUME NEW p \in Procs, AdvanceAccepted(p) PROVE TypeOK'
  <2>1. project.phase \in Targets
    BY TypedNow DEF ProjectFiles
  <2>2. why' \in Histories
    BY <1>9, <2>1, TypeParts DEF Parts, AdvanceAccepted, Histories
  <2> QED
    BY <1>9, <2>2, EndsType, TypeParts, TypeJoin DEF Parts, AdvanceAccepted
<1>10. ASSUME NEW p \in Procs, AdvanceRefused(p) PROVE TypeOK'
  <2>1. ProcsTyped' /\ project' \in ProjectFiles
    BY <1>10, TypedNow, IdleType, ReplacesType, ReplacesIs DEF AdvanceRefused, Reverts
  <2>2. lock' \in Procs \cup {Nobody}
    BY <1>10, TypeParts DEF Parts, AdvanceRefused, Frees
  <2> QED
    BY <1>10, <2>1, <2>2, TypeParts, TypeJoin DEF Parts, AdvanceRefused
<1>11. ASSUME NEW p \in Procs, FixLoads(p) PROVE TypeOK'
  <2> DEFINE s == [Idle EXCEPT !.pc = "lock", !.call = "fix", !.mine = project,
                               !.issue = issue, !.highest = highest]
  <2>1. project \in ProjectFiles /\ IsIssue(issue) /\ highest \in Nat
    BY TypedNow
  <2>2. s \in Processes /\ s.issue = issue /\ s.pc = "lock"
    BY <2>1, EmptyType DEF Idle, Processes, IsIssue, Targets
  <2>3. ProcsTyped' /\ budget' \in Budgets
    BY <1>11, <2>1, <2>2, BecomesType, SpendType DEF FixLoads, Typed, IsIssue
  <2> QED
    BY <1>11, <2>3, TypeParts, TypeJoin DEF Parts, FixLoads
<1>12. ASSUME NEW p \in Procs, FixLocks(p) PROVE TypeOK'
  <2> DEFINE n == proc[p].highest + 1
             out == IF project = Empty THEN Counter(n) ELSE [project EXCEPT !.next = n]
             r == IF ~Drifts(p) THEN [proc[p] EXCEPT !.pc = "fix"]
                  ELSE [proc[p] EXCEPT !.pc = "write", !.out = out]
  <2>1. n \in Nat /\ n > 0 /\ project \in ProjectFiles
    BY TypedNow
  <2>2. out \in ProjectFiles
    <3>1. project # Empty => project.has # "nothing"
      BY <2>1 DEF ProjectFiles
    <3> QED
      BY <2>1, <3>1, CounterType, NextType
  <2>3. Typed(r)
    BY <2>2, TypedNow DEF Typed, Processes
  <2>4. ProcsTyped'
    BY <1>12, <2>3, BecomesType DEF FixLocks
  <2>5. why' \in Histories
    BY <1>12, TypeParts DEF Parts, FixLocks, Histories
  <2> QED
    BY <1>12, <2>4, <2>5, TypeParts, TypeJoin DEF Parts, FixLocks
<1>13. ASSUME NEW p \in Procs, FixIssue(p) PROVE TypeOK'
  <2>1. IsIssue(issue)'
    BY <1>13, TypedNow, FieldsApart DEF FixIssue, IsIssue, IssueFiles, Values
  <2>2. why' \in Histories
    BY <1>13, TypeParts DEF Parts, FixIssue, Histories
  <2> QED
    BY <1>13, <2>1, <2>2, EndsType, TypeParts, TypeJoin DEF Parts, FixIssue
<1>14. ASSUME NEW p \in Procs, Patch(p) PROVE TypeOK'
  <2> DEFINE s == [Idle EXCEPT !.pc = "patch", !.issue = issue]
  <2>1. IsIssue(issue) /\ s \in Processes /\ s.issue = issue /\ s.pc = "patch"
    BY TypedNow, EmptyType DEF Idle, Processes, IsIssue, Targets
  <2>2. ProcsTyped' /\ budget' \in Budgets /\ lock' = p
    BY <1>14, <2>1, BecomesType, SpendType DEF Patch, Locks, Typed, IsIssue
  <2> QED
    BY <1>14, <2>2, TypeParts, TypeJoin DEF Parts, Patch
<1>15. ASSUME NEW p \in Procs, PatchSaves(p) PROVE TypeOK'
  <2>1. IsIssue(proc[p].issue)
    BY TypedNow
  <2>2. IsIssue(issue)'
    <3>1. Nat \subseteq Values
      BY DEF Values
    <3>2. ASSUME NEW f \in Fields, issue' = [proc[p].issue EXCEPT ![f] = @ + 1]
          PROVE  IsIssue(issue)'
      <4>1. proc[p].issue[f] + 1 \in Nat
        BY <2>1 DEF IsIssue
      <4> QED BY <2>1, <3>1, <3>2, <4>1 DEF IsIssue, IssueFiles
    <3> QED BY <1>15, <2>1, <3>2 DEF PatchSaves
  <2>3. [f \in Fields |-> IF issue'[f] # proc[p].issue[f] THEN issue'[f] ELSE why.set[f]]
          \in [Fields -> Nat]
    BY <2>2, TypeParts DEF Parts, Histories, IsIssue
  <2>4. why' \in Histories
    BY <1>15, <2>3, TypeParts DEF Parts, PatchSaves, Histories
  <2> QED
    BY <1>15, <2>2, <2>4, EndsType, TypeParts, TypeJoin DEF Parts, PatchSaves
<1>16. ASSUME NEW p \in Procs, AskMove(p) PROVE TypeOK'
  <2> DEFINE s == [Idle EXCEPT !.pc = "ask"]
  <2>1. IsIssue(issue) /\ s \in Processes /\ s.issue = NoIssue /\ s.pc = "ask"
    BY TypedNow, IdleType DEF Idle, Processes
  <2>2. ProcsTyped' /\ budget' \in Budgets /\ lock' = p
    BY <1>16, <2>1, IdleType, IdleIs, BecomesType, SpendType DEF AskMove, Locks, Typed, IsIssue
  <2> QED
    BY <1>16, <2>2, TypeParts, TypeJoin DEF Parts, AskMove
<1>17. ASSUME NEW p \in Procs, MoveLoads(p) PROVE TypeOK'
  <2>1. PICK r \in IssueRoutes :
          Becomes(p, [Idle EXCEPT !.pc = "move", !.issue = issue, !.to = r[2]])
    BY <1>17 DEF MoveLoads
  <2> DEFINE s == [Idle EXCEPT !.pc = "move", !.issue = issue, !.to = r[2]]
  <2>2. IsIssue(issue) /\ r[2] \in Targets /\ r[2] \in Statuses
    BY TypedNow DEF Targets, Statuses
  <2>3. s \in Processes /\ s.issue = issue /\ s.pc = "move" /\ s.to = r[2]
    BY <2>2, EmptyType DEF Idle, Processes, IsIssue
  <2>4. ProcsTyped'
    BY <2>1, <2>2, <2>3, IdleType, IdleIs, BecomesType DEF Typed, IsIssue
  <2>5. budget' \in Budgets
    BY <1>17, SpendType, TypeParts DEF Parts, MoveLoads
  <2> QED
    BY <1>17, <2>4, <2>5, TypeParts, TypeJoin DEF Parts, MoveLoads
<1>18. ASSUME NEW p \in Procs, MoveSaves(p) PROVE TypeOK'
  <2>1. IsIssue(proc[p].issue) /\ proc[p].to \in Statuses
    BY <1>18, TypedNow DEF MoveSaves, Typed, At
  <2>2. IsIssue(issue)'
    BY <1>18, <2>1, FieldsApart DEF MoveSaves, IsIssue, IssueFiles, Values
  <2>3. why' \in Histories
    BY <1>18, <2>1, TypeParts DEF Parts, MoveSaves, Histories
  <2> QED
    BY <1>18, <2>2, <2>3, EndsType, TypeParts, TypeJoin DEF Parts, MoveSaves
<1>19. ASSUME NEW p \in Procs, GivesUp(p) PROVE TypeOK'
  BY <1>19, EndsType, TypeParts, TypeJoin DEF Parts, GivesUp
<1>20. ASSUME NEW p \in Procs, Dies(p) PROVE TypeOK'
  <2>1. budget' \in Budgets /\ why' \in Histories
    BY <1>20, SpendType, TypeParts DEF Parts, Dies, Histories
  <2> QED
    BY <1>20, <2>1, EndsType, TypeParts, TypeJoin DEF Parts, Dies
<1>21. CASE IssueFile
  <2>1. budget' \in Budgets
    BY <1>21, SpendType DEF IssueFile
  <2>2. TRUE \in Values /\ IsIssue(issue) /\ "untidy" \notin Fields
    <3>1. BOOLEAN \subseteq Values
      BY DEF Values
    <3>2. TRUE \in BOOLEAN
      OBVIOUS
    <3>3. TRUE \in Values
      BY <3>1, <3>2, Zenon
    <3> QED
      BY <3>3, TypeParts, FieldsApart DEF Parts
  <2>3. [issue EXCEPT !.untidy = TRUE] \in IssueFiles
    BY <2>2 DEF IsIssue, IssueFiles
  <2>4. \A f \in Fields : [issue EXCEPT !.untidy = TRUE][f] \in Nat
    BY <2>2 DEF IsIssue, IssueFiles
  <2>5. IsIssue(issue)' /\ highest' \in Nat
    <3>1. CASE UNCHANGED issue /\ highest' = highest + 1
      BY <2>2, <3>1, TypeParts DEF Parts, IsIssue
    <3>2. CASE issue' = [issue EXCEPT !.untidy = TRUE] /\ UNCHANGED highest
      BY <2>3, <2>4, <3>2, TypeParts DEF Parts, IsIssue
    <3> QED
      BY <1>21, <3>1, <3>2, Zenon DEF IssueFile
  <2>6. ProcsTyped'
    BY <1>21, TypeParts DEF Parts, IssueFile, ProcsTyped, Typed
  <2> QED
    BY <1>21, <2>1, <2>5, <2>6, TypeParts, TypeJoin DEF Parts, IssueFile
<1>22. CASE UNCHANGED vars
  BY <1>22 DEF vars, TypeOK
<1> QED
  BY <1>1, <1>2, <1>3, <1>4, <1>5, <1>6, <1>7, <1>8, <1>9, <1>10, <1>11, <1>12,
     <1>13, <1>14, <1>15, <1>16, <1>17, <1>18, <1>19, <1>20, <1>21, <1>22 DEF Next
-----------------------------------------------------------------------------
(* The inductive invariant.                                                *)

\* The types hold at the start.
LEMMA InitType == Init => TypeOK
<1> SUFFICES ASSUME Init PROVE Parts
  BY TypeParts
<1>1. PICK ph \in Phases :
        project = [has |-> "all", phase |-> ph, next |-> 1, linked |-> FALSE]
  BY DEF Init
<1>2. project \in ProjectFiles /\ project.phase \in Targets /\ project.next = 1
  <2>1. ph \in Targets
    BY DEF Targets
  <2>2. project.has = "all" /\ project.phase = ph /\ project.next = 1
    BY <1>1
  <2>3. project \in [has : {"nothing", "counter", "all"}, phase : Targets, next : Nat,
                     linked : BOOLEAN]
    BY <1>1, <2>1
  <2> QED
    BY <2>1, <2>2, <2>3 DEF ProjectFiles
<1>3. PICK r \in IssueRoutes, untidy \in BOOLEAN :
        issue = [f \in Fields \cup {"status", "untidy"} |->
                   IF f = "status" THEN r[1] ELSE IF f = "untidy" THEN untidy ELSE 0]
  BY DEF Init
<1>4. r[1] \in Values /\ untidy \in Values /\ 0 \in Values /\ r[1] \in Statuses
  <2>1. BOOLEAN \subseteq Values /\ r[1] \in Statuses /\ Statuses \subseteq Values
        /\ 0 \in Values
    BY DEF Values, Statuses
  <2> QED
    BY <2>1, Zenon
<1>5. IsIssue(issue) /\ issue.status \in Statuses
  BY <1>3, <1>4, StoreAssumption DEF IsIssue, IssueFiles
<1>7. ProcsTyped
  BY IdleType DEF Init, ProcsTyped, Typed
<1>8. budget \in Budgets
  BY StoreAssumption DEF Init, Budgets
<1>9. why \in Histories
  BY <1>2, <1>5 DEF Init, Histories
<1> QED
  BY <1>2, <1>5, <1>7, <1>8, <1>9, StoreAssumption DEF Init, Parts

\* At the start nobody does anything, and nobody has put anything back.
LEMMA InitInv == Init => LockHeld /\ CounterInv /\ PhaseInv /\ IssueInv
<1> SUFFICES ASSUME Init PROVE LockHeld /\ CounterInv /\ PhaseInv /\ IssueInv
  OBVIOUS
<1>1. \A p \in Procs : proc[p].pc = "idle"
  BY DEF Init, Idle
<1>2. LockHeld
  BY <1>1 DEF LockHeld, Held, Inside, Writing, At
<1>3. project.next = why.counter /\ why.keys = {} /\ ~why.twice /\ project.phase \in why.accepted
  BY DEF Init
<1>4. CounterInv
  BY <1>1, <1>3 DEF CounterInv, Counts, Writing
<1>5. PhaseInv
  BY <1>1, <1>3 DEF PhaseInv, Vouches, Known, Writing
<1>6. issue.status = why.moved /\ \A f \in Fields : issue[f] = why.set[f]
  BY StoreAssumption DEF Init
<1>7. IssueInv
  BY <1>1, <1>6 DEF IssueInv, SavesKeepEachOther, Patches, At
<1> QED
  BY <1>2, <1>4, <1>5, <1>7

\* The invariant is inductive.
LEMMA Invariant == Spec => []IInv
<1>1. Init => IInv
  BY InitType, InitInv DEF IInv
<1>2. IInv /\ [Next]_vars => IInv'
  BY TypeStep, LockStep, CounterStep, PhaseStep, IssueStep DEF IInv
<1> QED
  BY <1>1, <1>2, PTL DEF Spec

-----------------------------------------------------------------------------
(* The theorems.                                                           *)

\* KeysHandedOutOnce (key_allocator.py): whoever has project_lock has the counter
\* that was written last, so that two calls of next-key give out a key twice only
\* if somebody outside that lock has put an old counter back.
THEOREM KeysOnce == Spec => []KeysHandedOutOnce
<1>1. IInv => KeysHandedOutOnce
  BY DEF IInv, CounterInv, Regressed, KeysHandedOutOnce
<1> QED
  BY <1>1, Invariant, PTL

\* PhaseWasAccepted (action_service.py): the copy that a refused advance puts
\* back, and every copy that is saved under project_lock, was made when no phase
\* was on trial.
THEOREM PhasesAccepted == Spec => []PhaseWasAccepted
<1>1. IInv => PhaseWasAccepted
  BY DEF IInv, PhaseInv, Escaped, Known, OnTrial, PhaseWasAccepted
<1> QED
  BY <1>1, Invariant, PTL

\* SavesKeepEachOther (issue_service.py, transitions.py): patches do not overtake
\* each other, and moves do not, for each have a lock of their own; what is lost
\* is lost between the two locks.
THEOREM SavesKept == Spec => []SavesKeepEachOther
<1>1. IInv => SavesKeepEachOther
  BY DEF IInv, IssueInv
<1> QED
  BY <1>1, Invariant, PTL

=============================================================================
