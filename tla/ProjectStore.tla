---------------------------- MODULE ProjectStore ----------------------------
(***************************************************************************)
(* Writers of project.yaml and of one issue.yaml: `tripwire next-key`,     *)
(* `validate --fix`, `workspace link` and `unlink`, the web UI's advance   *)
(* of the project phase and its patches, and the workflow executor, which  *)
(* moves the issue and, for `tripwire transition phase-advancement`, the   *)
(* phase.                                                                  *)
(*                                                                         *)
(* Three disciplines meet in the two files.  next-key, --fix and the UI    *)
(* hold project_lock, but --fix works on what validate had loaded before.  *)
(* link and unlink hold no lock on the project.  The executor holds the    *)
(* lock of the issue, which is another one, or one named after whatever    *)
(* the caller has called the project.  Each writes a whole file, all but   *)
(* the two that write the phase by truncating it first; those two replace  *)
(* the file, and what is still being written into the old one is lost.     *)
(*                                                                         *)
(* A file that is being rewritten is empty, never half there: it fits one  *)
(* buffer.  The rewriting of issue.yaml is one step.  The other half of a  *)
(* link, in the workspace, is left out; so is waiting for a free lock at   *)
(* the start of a call, which changes nothing when it times out.           *)
(***************************************************************************)
EXTENDS Naturals, FiniteSets

CONSTANTS
  Procs, Nobody,
  Phases,        \* of ProjectPhase
  PhaseRoutes,   \* of the phase-advancement workflow
  IssueRoutes,   \* of the issue-closure workflow
  Fields,        \* of an issue that a patch may set
  Numbers,       \* of issues on disk at the start: the highest key number
  MaxCount,      \* keys allocated by one call
  MaxCalls, MaxCrashes

ASSUME StoreAssumption ==
  /\ Nobody \notin Procs /\ {"status", "untidy"} \cap Fields = {}
  /\ Numbers \subseteq Nat /\ MaxCount \in Nat \ {0}
  /\ MaxCalls \in Nat /\ MaxCrashes \in Nat

VARIABLES
  project,  \* project.yaml: all of it, nothing, or only the counter
  issue,    \* issue.yaml: status, fields, and whether --fix would rewrite it
  highest,  \* the highest key number among the issue files
  lock,     \* who holds project_lock
  ilock,    \* who holds the executor's lock of the issue
  proc,     \* what each process is doing, and its copies of the files
  budget,
  why       \* history, for the properties only

vars == <<project, issue, highest, lock, ilock, proc, budget, why>>

Empty == [has |-> "nothing", phase |-> "", next |-> 0, linked |-> FALSE]
Counter(n) == [Empty EXCEPT !.has = "counter", !.next = n]

\* A process that is not at work on the issue has no copy of it.
NoIssue == [f \in Fields \cup {"status", "untidy"} |->
              IF f = "status" THEN "" ELSE IF f = "untidy" THEN FALSE ELSE 0]
Idle == [pc |-> "idle", call |-> "", mine |-> Empty, out |-> Empty, issue |-> NoIssue,
         highest |-> 0, n |-> 0, to |-> ""]

At(p, pc) == proc[p].pc = pc
Becomes(p, r) == proc' = [proc EXCEPT ![p] = r]
Spend(what) == budget[what] > 0 /\ budget' = [budget EXCEPT ![what] = @ - 1]
Frees(p) == lock' = IF lock = p THEN Nobody ELSE lock

Ends(p) == Becomes(p, Idle) /\ Frees(p)

\* atomic_write: p puts a new file in place, and becomes r; whoever has just
\* truncated the old one goes on writing into that.
Replaces(p, file, r) ==
  /\ project' = file
  /\ proc' = [q \in Procs |-> IF q = p THEN r
                              ELSE IF At(q, "fill") THEN [proc[q] EXCEPT !.pc = "buried"]
                              ELSE proc[q]]

\* A call that begins with project_lock and a load.
Locks(p, r) ==
  /\ At(p, "idle") /\ Spend("calls")
  /\ lock = Nobody /\ lock' = p
  /\ Becomes(p, r)

\* load_project wants everything; the allocator wants the key prefix.
Whole == project.has = "all"

-----------------------------------------------------------------------------
(* Plain writes of project.yaml: Path.write_text.                          *)

Truncates(p) ==
  /\ At(p, "write")
  /\ project' = Empty
  /\ Becomes(p, [proc[p] EXCEPT !.pc = "fill"])
  /\ UNCHANGED <<issue, highest, lock, ilock, budget, why>>

\* Keys are handed out when they are on disk.
HandsOut(p) ==
  IF proc[p].call # "key" THEN {} ELSE proc[p].mine.next .. (proc[p].mine.next + proc[p].n - 1)

Fills(p) ==
  /\ At(p, "fill") \/ At(p, "buried")
  /\ project' = IF At(p, "fill") THEN proc[p].out ELSE project
  /\ IF proc[p].call = "fix"
     THEN Becomes(p, [proc[p] EXCEPT !.pc = "fix"]) /\ UNCHANGED lock
     ELSE Ends(p)
  /\ why' = LET out == proc[p].out
                link == proc[p].call = "link"
                lost == At(p, "buried")
            IN [why EXCEPT !.counter = IF link \/ lost THEN @ ELSE out.next,
                           !.stale = @ \/ (link /\ ~lost /\ out.next # why.counter),
                           !.trial = @ \/ (link /\ ~lost /\ out.phase \notin why.accepted),
                           !.buried = @ \/ (~link /\ lost),
                           !.keys = @ \cup HandsOut(p),
                           !.twice = @ \/ HandsOut(p) \cap why.keys # {}]
  /\ UNCHANGED <<issue, highest, ilock, budget>>

-----------------------------------------------------------------------------
(* project.yaml                                                            *)

\* Mutant of NextKey: the lock is not taken.
NextKeyUnlocked(p) ==
  /\ At(p, "idle") /\ Spend("calls") /\ Whole
  /\ \E n \in 1..MaxCount :
       Becomes(p, [Idle EXCEPT !.pc = "write", !.call = "key", !.mine = project, !.n = n,
                               !.out = [project EXCEPT !.next = @ + n]])
  /\ UNCHANGED <<project, issue, highest, lock, ilock, why>>

\* allocate_keys
NextKey(p) ==
  /\ Whole
  /\ \E n \in 1..MaxCount :
       Locks(p, [Idle EXCEPT !.pc = "write", !.call = "key", !.mine = project, !.n = n,
                             !.out = [project EXCEPT !.next = @ + n]])
  /\ UNCHANGED <<project, issue, highest, ilock, why>>

\* workspace link and unlink: what they save is what they have loaded.
Link(p) ==
  /\ At(p, "idle") /\ Spend("calls") /\ Whole
  /\ Becomes(p, [Idle EXCEPT !.pc = "write", !.call = "link", !.mine = project,
                             !.out = [project EXCEPT !.linked = ~@]])
  /\ UNCHANGED <<project, issue, highest, lock, ilock, why>>

\* advance_phase: load, save with the new phase (in one step, by a rename),
\* validate, and on errors or an exception save what was loaded.
Advance(p) ==
  /\ Whole
  /\ \E t \in Phases \ {project.phase} :
       Locks(p, [Idle EXCEPT !.pc = "phase", !.mine = project, !.to = t])
  /\ UNCHANGED <<project, issue, highest, ilock, why>>

AdvanceSaves(p) ==
  /\ At(p, "phase")
  /\ Replaces(p, [proc[p].mine EXCEPT !.phase = proc[p].to], [proc[p] EXCEPT !.pc = "validate"])
  /\ UNCHANGED <<issue, highest, lock, ilock, budget, why>>

\* The validator has looked at the file that is there.
AdvanceAccepted(p) ==
  /\ At(p, "validate") /\ Whole
  /\ Ends(p)
  /\ why' = [why EXCEPT !.accepted = @ \cup {project.phase}]
  /\ UNCHANGED <<project, issue, highest, ilock, budget>>

\* Mutant of Reverts: what was loaded is not saved again.
RevertsNot(p) == UNCHANGED project /\ Becomes(p, Idle)

Reverts(p) == Replaces(p, proc[p].mine, Idle)

AdvanceRefused(p) ==
  /\ At(p, "validate")
  /\ Reverts(p) /\ Frees(p)
  /\ UNCHANGED <<issue, highest, ilock, budget, why>>

\* The executor on the phase: its in-lock load and its save.  project.yaml is the
\* one instance of the workflow, under any name, and every name has a lock of its
\* own, so the lock keeps nobody out.  The routes name no tripwires; the ones of
\* the statuses are not asked for when there is a route.
MovePhase(p) ==
  /\ At(p, "idle") /\ Spend("calls") /\ Whole
  /\ \E r \in PhaseRoutes :
       /\ r[1] = project.phase
       /\ Becomes(p, [Idle EXCEPT !.pc = "phasemove", !.mine = project, !.to = r[2]])
  /\ UNCHANGED <<project, issue, highest, lock, ilock, why>>

MovePhaseSaves(p) ==
  LET mine == proc[p].mine IN
  /\ At(p, "phasemove")
  /\ Replaces(p, [mine EXCEPT !.phase = proc[p].to], Idle)
  /\ why' = [why EXCEPT !.forced = @ \cup {proc[p].to},
                        !.stale = @ \/ mine.next # why.counter]
  /\ UNCHANGED <<issue, highest, lock, ilock, budget>>

\* validate loads everything, without a lock, before it fixes anything.
FixLoads(p) ==
  /\ At(p, "idle") /\ Spend("calls")
  /\ Becomes(p, [Idle EXCEPT !.pc = "lock", !.call = "fix", !.mine = project,
                             !.issue = issue, !.highest = highest])
  /\ UNCHANGED <<project, issue, highest, lock, ilock, why>>

\* _fix_sequence_drift: whether the counter drifts is judged by what was loaded,
\* and the new counter is put into the file that is there.
Drifts(p) == proc[p].mine.has = "all" /\ proc[p].mine.next <= proc[p].highest

FixLocks(p) ==
  LET n == proc[p].highest + 1 IN
  /\ At(p, "lock") /\ lock = Nobody
  /\ lock' = p
  /\ Becomes(p, IF ~Drifts(p) THEN [proc[p] EXCEPT !.pc = "fix"]
                ELSE [proc[p] EXCEPT !.pc = "write",
                        !.out = IF project = Empty THEN Counter(n)
                                ELSE [project EXCEPT !.next = n]])
  /\ why' = [why EXCEPT !.late = @ \/ (Drifts(p) /\ project.next # proc[p].mine.next)]
  /\ UNCHANGED <<project, issue, highest, ilock, budget>>

-----------------------------------------------------------------------------
(* issue.yaml                                                              *)

\* An issue with an unsorted list or a missing uuid is rewritten as loaded.
FixIssue(p) ==
  /\ At(p, "fix")
  /\ issue' = IF proc[p].issue.untidy THEN [proc[p].issue EXCEPT !.untidy = FALSE] ELSE issue
  /\ Ends(p)
  /\ why' = [why EXCEPT !.fixed = @ \/ (proc[p].issue.untidy /\ issue # proc[p].issue)]
  /\ UNCHANGED <<project, highest, ilock, budget>>

\* Mutant of Patch: the lock is not taken.
PatchUnlocked(p) ==
  /\ At(p, "idle") /\ Spend("calls")
  /\ Becomes(p, [Idle EXCEPT !.pc = "patch", !.issue = issue])
  /\ UNCHANGED <<project, issue, highest, lock, ilock, why>>

\* update_issue_fields, and update_issue_status with the status the issue has,
\* which saves it as it is.
Patch(p) ==
  /\ Locks(p, [Idle EXCEPT !.pc = "patch", !.issue = issue])
  /\ UNCHANGED <<project, issue, highest, ilock, why>>

PatchSaves(p) ==
  LET mine == proc[p].issue IN
  /\ At(p, "patch")
  /\ \/ issue' = mine
     \/ \E f \in Fields : issue' = [mine EXCEPT ![f] = @ + 1]
  /\ Ends(p)
  /\ why' = [why EXCEPT
       !.set = [f \in Fields |-> IF issue'[f] # mine[f] THEN issue'[f] ELSE @[f]],
       !.unmoved = @ \/ issue.status # mine.status]
  /\ UNCHANGED <<project, highest, ilock, budget>>

\* update_issue_status holds project_lock while it asks the executor.
AskMove(p) ==
  /\ Locks(p, [Idle EXCEPT !.pc = "ask"])
  /\ UNCHANGED <<project, issue, highest, ilock, why>>

\* The executor's in-lock load, for the UI or for a caller without project_lock.
MoveLoads(p) ==
  /\ \/ At(p, "ask") /\ UNCHANGED budget
     \/ At(p, "idle") /\ Spend("calls")
  /\ ilock = Nobody /\ ilock' = p
  /\ \E r \in IssueRoutes :
       /\ r[1] = issue.status
       /\ Becomes(p, [Idle EXCEPT !.pc = "move", !.issue = issue, !.to = r[2]])
  /\ UNCHANGED <<project, issue, highest, lock, why>>

MoveSaves(p) ==
  /\ At(p, "move")
  /\ issue' = [proc[p].issue EXCEPT !.status = proc[p].to]
  /\ ilock' = Nobody
  /\ Ends(p)
  /\ why' = [why EXCEPT !.moved = proc[p].to,
       !.unset = @ \/ \E f \in Fields : issue[f] # proc[p].issue[f]]
  /\ UNCHANGED <<project, highest, budget>>

-----------------------------------------------------------------------------

\* Ten seconds without the lock; a move may also be refused.
GivesUp(p) ==
  /\ \/ At(p, "lock") /\ lock # Nobody
     \/ At(p, "ask")
     \/ At(p, "phasemove")
  /\ Ends(p)
  /\ UNCHANGED <<project, issue, highest, ilock, budget, why>>

\* The process is killed; its locks are free, its half-done writes stay.
Dies(p) ==
  /\ ~At(p, "idle") /\ Spend("crashes")
  /\ Ends(p)
  /\ ilock' = IF ilock = p THEN Nobody ELSE ilock
  /\ why' = [why EXCEPT !.dropped = @ \/ At(p, "validate")]
  /\ UNCHANGED <<project, issue, highest>>

\* Somebody writes the issue file of a key, perhaps one that a merge brings from
\* a branch whose counter was elsewhere, or edits the issue untidily.
IssueFile ==
  /\ Spend("files")
  /\ \/ highest' = highest + 1 /\ UNCHANGED issue
     \/ ~issue.untidy /\ issue' = [issue EXCEPT !.untidy = TRUE] /\ UNCHANGED highest
  /\ UNCHANGED <<project, lock, ilock, proc, why>>

Init ==
  /\ \E ph \in Phases : project = [has |-> "all", phase |-> ph, next |-> 1, linked |-> FALSE]
  /\ \E r \in IssueRoutes, untidy \in BOOLEAN :
       issue = [f \in Fields \cup {"status", "untidy"} |->
                  IF f = "status" THEN r[1] ELSE IF f = "untidy" THEN untidy ELSE 0]
  /\ highest \in Numbers
  /\ lock = Nobody /\ ilock = Nobody
  /\ proc = [p \in Procs |-> Idle]
  /\ budget = [calls |-> MaxCalls, crashes |-> MaxCrashes, files |-> 1]
  /\ why = [counter |-> project.next, keys |-> {}, twice |-> FALSE,
            stale |-> FALSE, late |-> FALSE, buried |-> FALSE,
            accepted |-> {project.phase}, forced |-> {}, trial |-> FALSE, dropped |-> FALSE,
            set |-> [f \in Fields |-> 0], moved |-> issue.status,
            unset |-> FALSE, unmoved |-> FALSE, fixed |-> FALSE]

Next ==
  \/ \E p \in Procs :
       \/ NextKey(p) \/ Link(p) \/ Truncates(p) \/ Fills(p)
       \/ MovePhase(p) \/ MovePhaseSaves(p)
       \/ Advance(p) \/ AdvanceSaves(p) \/ AdvanceAccepted(p) \/ AdvanceRefused(p)
       \/ FixLoads(p) \/ FixLocks(p) \/ FixIssue(p)
       \/ Patch(p) \/ PatchSaves(p) \/ AskMove(p) \/ MoveLoads(p) \/ MoveSaves(p)
       \/ GivesUp(p) \/ Dies(p)
  \/ IssueFile

Spec == Init /\ [][Next]_vars

-----------------------------------------------------------------------------
(* Properties.                                                             *)

\* next-key hands out no key twice, unless a link or unlink or a move of the phase
\* by the executor has put back a counter that others had moved on since it was
\* loaded, or has replaced the file a counter was just being written into, or
\* --fix has "repaired" a counter that somebody had moved on since validate loaded
\* it.
KeysHandedOutOnce == why.twice => why.stale \/ why.late \/ why.buried

\* The phase in project.yaml has passed the validator, or is before it right now,
\* unless the process died there, or a link or unlink put back a copy it had
\* loaded while the phase was on trial, or the executor moved to it, which does
\* not ask for what the phase requires.
PhaseWasAccepted ==
  Whole =>
    \/ project.phase \in why.accepted
    \/ \E p \in Procs : At(p, "validate") /\ project.phase = proc[p].to
    \/ why.dropped \/ why.trial
    \/ project.phase \in why.forced

\* What the UI has set in an issue stays set and where the executor has moved it
\* it stays, however patches, moves and fixes overlap, unless a move saved a copy
\* a patch had overtaken, a patch one that a move had, or --fix one that either
\* had.
SavesKeepEachOther ==
  /\ why.unset \/ why.fixed \/ \A f \in Fields : issue[f] = why.set[f]
  /\ why.unmoved \/ why.fixed \/ issue.status = why.moved
=============================================================================
