----------------------------- MODULE GraphCache -----------------------------
(***************************************************************************)
(* The graph index instances/nodes/tripwire-graph-index.yaml, as           *)
(* core/graph/cache.py keeps it: a cache of the edges between issues,      *)
(* nodes, sessions and comments, kept up to date file by file by any       *)
(* number of processes (CLI, hooks, UI).                                   *)
(*                                                                         *)
(* The index is written under a lock and replaced in one step.  The files  *)
(* it is made from are not locked: a file is parsed, then its mtime is     *)
(* read, then it is hashed, while people, agents and git write to it.      *)
(* Whether an entry is still good is judged by the mtime, and by the hash  *)
(* only when the mtime is newer.                                           *)
(*                                                                         *)
(* The content of a file is whether it parses and what it references; the  *)
(* hash of a content is the content.  Kinds of files and of edges are left *)
(* out, and so are the tables derived from the edges with every save.      *)
(***************************************************************************)
EXTENDS Naturals, FiniteSets

CONSTANTS
  Procs,
  Files,
  Contents,              \* what may be in a file: [ok : BOOLEAN, refs : SUBSET Files]
  MaxTime,               \* mtimes
  MaxWrites, MaxCalls,
  _INCREMENTAL_BAILOUT   \* changes from which on everything is rebuilt; 5 in the source

ASSUME CacheAssumption ==
  /\ Contents \subseteq [ok : BOOLEAN, refs : SUBSET Files]
  /\ MaxTime \in Nat /\ MaxWrites \in Nat /\ MaxCalls \in Nat
  /\ _INCREMENTAL_BAILOUT \in Nat \ {0}

VARIABLES
  disk,     \* the files that exist: their content and mtime
  index,    \* the index file: is it there, its fingerprints, its edges
  lock,     \* the processes that hold the index lock: none or one
  proc,     \* where each process is
  budget,
  why       \* history, for the properties only

vars == <<disk, index, lock, proc, budget, why>>

NoFiles == [f \in {} |-> 0]
_empty_cache == [here |-> TRUE, files |-> NoFiles, edges |-> {}]
NoIndex == [_empty_cache EXCEPT !.here = FALSE]

Idle == [pc |-> "idle", call |-> "none", seen |-> NoIndex, todo |-> {}, gone |-> {},
         full |-> FALSE, job |-> {}, done |-> {}, acc |-> NoIndex, cur |-> {}, refs |-> {}, m |-> 0]

Exists(f) == f \in DOMAIN disk
Becomes(p, r) == proc' = [proc EXCEPT ![p] = r]
Spend(what) == budget[what] > 0 /\ budget' = [budget EXCEPT ![what] = @ - 1]
At(p, pc) == proc[p].pc = pc
Without(g, S) == [f \in DOMAIN g \ S |-> g[f]]
With(g, f, v) == [x \in DOMAIN g \cup {f} |-> IF x = f THEN v ELSE g[x]]

EdgesOf(f, refs) == {<<f, t>> : t \in refs}

\* What an index should say of a file.
Parses(f) == Exists(f) /\ disk[f].c.ok
Right(ix, f) ==
  /\ f \in DOMAIN ix.files <=> Parses(f)
  /\ {e \in ix.edges : e[1] = f} = IF Parses(f) THEN EdgesOf(f, disk[f].c.refs) ELSE {}

-----------------------------------------------------------------------------
(* History.  since[p]: files written since the ensure_fresh of p began;    *)
(* late[p]: files of a pass that was under way then, written after the     *)
(* pass had read them.  torn[p]: files written while p was fingerprinting  *)
(* them.  hidden: files whose entry may be wrong without looking wrong.    *)

\* p has read f and goes on to use what it has read.
InWindow(p, f) == f \in proc[p].cur

\* An entry made of one content and its mtime.
Faithful(ix, f) ==
  /\ Right(ix, f)
  /\ f \in DOMAIN ix.files => ix.files[f] = [sha |-> disk[f].c, m |-> disk[f].m]

\* p changes the index: what it has torn is hidden until it is done again.
Indexed(p, ix, torn) ==
  why' = [why EXCEPT !.torn[p] = {}, !.behind = IF lock = {p} THEN {} ELSE @,
                     !.hidden = {f \in @ \cup torn : ~Faithful(ix, f)}]

\* p sets the mtime of an entry that is not the one it has compared.
Crossed(p, f) ==
  f \notin DOMAIN index.files \/ index.files[f].sha # proc[p].seen.files[f].sha

Written(f, m) ==
  why' = [why EXCEPT
    !.behind = IF \E p \in lock : f \in proc[p].done THEN @ \cup {f} ELSE @,
    !.since = [p \in Procs |-> IF At(p, "idle") THEN {} ELSE @[p] \cup {f}],
    !.torn = [p \in Procs |->
      IF \/ InWindow(p, f)
         \/ f \in DOMAIN proc[p].acc.files /\ m <= proc[p].acc.files[f].m
      THEN @[p] \cup {f} ELSE @[p]],
    !.hidden = IF f \in DOMAIN index.files /\ m <= index.files[f].m
               THEN @ \cup {f} ELSE @]

-----------------------------------------------------------------------------
(* Calls.                                                                  *)

\* update_cache_for_file, called by itself.
UpdateFile(p) ==
  /\ At(p, "idle") /\ Spend("calls")
  /\ \E f \in Files : Becomes(p, [Idle EXCEPT !.pc = "lock", !.call = "update", !.job = {f}])
  /\ UNCHANGED <<disk, index, lock, why>>

\* ensure_fresh loads the index, without the lock.
EnsureFresh(p) ==
  /\ At(p, "idle") /\ Spend("calls")
  /\ Becomes(p, [Idle EXCEPT !.call = "ensure", !.seen = index, !.full = ~index.here,
                             !.pc = IF index.here THEN "scan" ELSE "lock"])
  /\ why' = [why EXCEPT !.since[p] = {}, !.late[p] = why.behind, !.wiped = @ \ {p}]
  /\ UNCHANGED <<disk, index, lock>>

\* Mutant of Newer: files that are new to the index are passed over.
NewerOnly(f, seen) == f \in DOMAIN seen.files /\ disk[f].m > seen.files[f].m

Newer(f, seen) == f \notin DOMAIN seen.files \/ disk[f].m > seen.files[f].m

Scan(p) ==
  LET seen == proc[p].seen
      changed == {f \in DOMAIN disk : Newer(f, seen)}
      gone == DOMAIN seen.files \ DOMAIN disk IN
  /\ At(p, "scan")
  /\ Becomes(p,
       IF Cardinality(changed) + Cardinality(gone) >= _INCREMENTAL_BAILOUT
       THEN [proc[p] EXCEPT !.pc = "lock", !.full = TRUE, !.seen = NoIndex]
       ELSE [proc[p] EXCEPT !.pc = "next", !.todo = changed, !.gone = gone])
  /\ UNCHANGED <<disk, index, lock, budget, why>>

\* An exception, a lock timeout or the end of the process: the lock is free,
\* the index as it was.
Fails(p) ==
  /\ Becomes(p, Idle)
  /\ lock' = lock \ {p}
  /\ why' = [why EXCEPT !.torn[p] = {}, !.behind = IF lock = {p} THEN {} ELSE @]

\* One changed file after the other, then the deleted ones.
NextFile(p) ==
  LET r == proc[p] IN
  /\ At(p, "next")
  /\ \/ \E f \in r.todo :
          IF f \notin DOMAIN r.seen.files
          THEN /\ Becomes(p, [r EXCEPT !.pc = "lock", !.todo = @ \ {f}, !.job = {f}])
               /\ UNCHANGED <<lock, why>>
          ELSE IF ~Exists(f) THEN Fails(p)
          ELSE /\ Becomes(p, IF disk[f].c # r.seen.files[f].sha
                             THEN [r EXCEPT !.pc = "lock", !.todo = @ \ {f}, !.job = {f}]
                             ELSE [r EXCEPT !.pc = "refresh", !.todo = @ \ {f}, !.cur = {f}])
               /\ UNCHANGED <<lock, why>>
     \/ /\ r.todo = {}
        /\ \E f \in r.gone :
             Becomes(p, [r EXCEPT !.pc = "lock", !.gone = @ \ {f}, !.job = {f}])
        /\ UNCHANGED <<lock, why>>
     \/ /\ r.todo = {} /\ r.gone = {}
        /\ Becomes(p, [r EXCEPT !.pc = "return", !.seen = NoIndex])
        /\ UNCHANGED <<lock, why>>
  /\ UNCHANGED <<disk, index, budget>>

\* The content is what it was: only the mtime of the entry is set.
Refresh(p) ==
  LET r == proc[p] IN
  /\ At(p, "refresh") /\ lock = {}
  /\ \E f \in r.cur :
       IF f \notin DOMAIN index.files
       THEN /\ Becomes(p, [r EXCEPT !.pc = "next", !.cur = {}])
            /\ Indexed(p, index, {f})
            /\ UNCHANGED <<index, lock>>
       ELSE IF ~Exists(f) THEN Fails(p) /\ UNCHANGED index
       ELSE /\ index' = [index EXCEPT !.files[f].m = disk[f].m]
            /\ Becomes(p, [r EXCEPT !.pc = "next", !.cur = {}])
            /\ Indexed(p, index', why.torn[p] \cup {g \in {f} : Crossed(p, g)})
            /\ UNCHANGED lock
  /\ UNCHANGED <<disk, budget>>

-----------------------------------------------------------------------------
(* A pass: full_rebuild, or update_cache_for_file for the one file of job. *)

\* Mutant of OfOthers: the edges a file had stay.
OfOthersAll(edges, S) == edges

OfOthers(edges, S) == {e \in edges : e[1] \notin S}

\* load_index, or an empty cache when there is none.
Loaded(p) == IF index.here THEN index ELSE _empty_cache

Lock(p) ==
  LET r == proc[p] IN
  /\ At(p, "lock") /\ lock = {}
  /\ lock' = {p}
  /\ IF r.full
     THEN Becomes(p, [r EXCEPT !.pc = "parse", !.job = DOMAIN disk, !.acc = _empty_cache])
     ELSE LET old == Loaded(p) IN
          Becomes(p, [r EXCEPT !.pc = "parse",
            !.acc = [here |-> \E f \in r.job : f \in DOMAIN old.files \/ Exists(f),
                     files |-> Without(old.files, r.job),
                     edges |-> OfOthers(old.edges, r.job)]])
  /\ UNCHANGED <<disk, index, budget, why>>

\* A file that is gone or does not parse has no entry.
Parse(p) ==
  LET r == proc[p] IN
  /\ At(p, "parse")
  /\ \E f \in r.job :
       LET read == [r EXCEPT !.job = @ \ {f}, !.done = @ \cup {f}] IN
       Becomes(p, IF ~Parses(f) THEN read
                  ELSE [read EXCEPT !.pc = "stat", !.cur = {f}, !.refs = disk[f].c.refs])
  /\ UNCHANGED <<disk, index, lock, budget, why>>

Stat(p) ==
  /\ At(p, "stat")
  /\ \E f \in proc[p].cur :
       IF Exists(f)
       THEN /\ Becomes(p, [proc[p] EXCEPT !.pc = "hash", !.m = disk[f].m])
            /\ UNCHANGED <<lock, why>>
       ELSE Fails(p)
  /\ UNCHANGED <<disk, index, budget>>

\* The fingerprint, and the edges of the content parsed.
Hash(p) ==
  LET r == proc[p] IN
  /\ At(p, "hash")
  /\ \E f \in r.cur :
       IF Exists(f)
       THEN /\ Becomes(p, [r EXCEPT !.pc = "parse", !.cur = {},
                 !.acc.files = With(@, f, [sha |-> disk[f].c, m |-> r.m]),
                 !.acc.edges = @ \cup EdgesOf(f, r.refs)])
            /\ UNCHANGED <<lock, why>>
       ELSE Fails(p)
  /\ UNCHANGED <<disk, index, budget>>

\* Where a call goes on after a pass.
After(r) ==
  IF r.call = "ensure"
  THEN [r EXCEPT !.pc = IF r.full THEN "return" ELSE "next", !.acc = NoIndex, !.full = FALSE,
                 !.done = {}, !.refs = {}, !.m = 0]
  ELSE Idle

\* Nothing is saved for a file that has no entry and does not exist.
Save(p) ==
  LET r == proc[p] IN
  /\ At(p, "parse") /\ r.job = {}
  /\ index' = IF r.acc.here THEN r.acc ELSE index
  /\ lock' = {}
  /\ Becomes(p, After(r))
  /\ Indexed(p, index', why.torn[p])
  /\ UNCHANGED <<disk, budget>>

Return(p) ==
  /\ At(p, "return")
  /\ Becomes(p, Idle)
  /\ UNCHANGED <<disk, index, lock, budget, why>>

\* Ten seconds without the lock.
LockTimeout(p) ==
  /\ proc[p].pc \in {"lock", "refresh"} /\ lock # {}
  /\ Fails(p)
  /\ UNCHANGED <<disk, index, budget>>

Dies(p) ==
  /\ ~At(p, "idle")
  /\ Fails(p)
  /\ UNCHANGED <<disk, index, budget>>

-----------------------------------------------------------------------------
(* The world.                                                              *)

\* A file is created, changed or touched.  Its mtime need not be newer: two
\* writes may share a tick, and a restored file brings its own.
Write(f) ==
  /\ Spend("writes")
  /\ \E c \in Contents, m \in 1..MaxTime :
       /\ disk' = With(disk, f, [c |-> c, m |-> m])
       /\ disk' # disk
       /\ Written(f, m)
  /\ UNCHANGED <<index, lock, proc>>

Remove(f) ==
  /\ Spend("writes") /\ Exists(f)
  /\ disk' = Without(disk, {f})
  /\ Written(f, MaxTime + 1)
  /\ UNCHANGED <<index, lock, proc>>

\* "Deleting it always rebuilds correctly."
DeleteIndex ==
  /\ Spend("writes") /\ index.here
  /\ index' = NoIndex
  /\ why' = [why EXCEPT !.wiped = {p \in Procs : ~At(p, "idle")}]
  /\ UNCHANGED <<disk, lock, proc>>

Init ==
  /\ \E c \in Contents :
       /\ disk = [f \in Files |-> [c |-> c, m |-> 1]]
       /\ index \in {NoIndex,
            [here |-> TRUE,
             files |-> [f \in {g \in Files : c.ok} |-> [sha |-> c, m |-> 1]],
             edges |-> UNION {EdgesOf(f, c.refs) : f \in {g \in Files : c.ok}}]}
  /\ lock = {}
  /\ proc = [p \in Procs |-> Idle]
  /\ budget = [writes |-> MaxWrites, calls |-> MaxCalls]
  /\ why = [since |-> [p \in Procs |-> {}], torn |-> [p \in Procs |-> {}],
            late |-> [p \in Procs |-> {}], behind |-> {}, hidden |-> {}, wiped |-> {}]

Next ==
  \/ \E p \in Procs :
       \/ UpdateFile(p) \/ EnsureFresh(p) \/ Scan(p) \/ NextFile(p) \/ Refresh(p)
       \/ Lock(p) \/ Parse(p) \/ Stat(p) \/ Hash(p) \/ Save(p)
       \/ Return(p) \/ LockTimeout(p) \/ Dies(p)
  \/ \E f \in Files : Write(f) \/ Remove(f)
  \/ DeleteIndex

Spec == Init /\ [][Next]_vars

-----------------------------------------------------------------------------
(* Properties.                                                             *)

\* When the index is wrong about a file, the next ensure_fresh can see it: by a
\* missing entry, a file that is gone or an mtime and a hash that differ.  Unless
\* the file was written while it was being fingerprinted, or got an mtime that is
\* not newer than the indexed one.
StaleIsVisible ==
  index.here => \A f \in Files :
    \/ Right(index, f)
    \/ f \notin DOMAIN index.files \/ ~Exists(f)
    \/ disk[f].m > index.files[f].m /\ disk[f].c # index.files[f].sha
    \/ f \in why.hidden

\* When ensure_fresh returns, the index is right about every file that was not
\* written meanwhile, whatever other processes do to the index at the same time.
\* Unless the entry is one of those that are wrong invisibly, somebody deleted the
\* index during the call, or a pass that had read an older content was under way
\* when the call began (it saves what it has read over what the call looked at).
EnsuredMeansFresh ==
  \A p \in Procs : At(p, "return") =>
    \A f \in Files \ why.since[p] :
      Right(index, f) \/ f \in why.hidden \cup why.late[p] \/ p \in why.wiped
=============================================================================
