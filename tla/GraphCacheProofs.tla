-------------------------- MODULE GraphCacheProofs --------------------------
(***************************************************************************)
(* What is proved of GraphCache, for any number of processes and files:    *)
(* its two invariants.                                                     *)
(*                                                                         *)
(* For StaleIsVisible the inductive invariant says of every entry that it  *)
(* is made of one content (EntryInv), the entries included that the holder *)
(* of the lock has in hand (AccOf), and that a file has not been written   *)
(* since it was parsed, unless it is torn (WindowOf).                      *)
(*                                                                         *)
(* For EnsuredMeansFresh it says of every file that nobody has written     *)
(* since ensure_fresh began: it is still to be looked at, or the index is  *)
(* right about it and will be when the holder of the lock has saved        *)
(* (ClaimOf).  The latter needs what the holder has read (ReadOK), what it *)
(* has taken over (CarryOK), what a full rebuild never saw (FullOK) and    *)
(* why a pass may save nothing (AbsentOK).                                 *)
(***************************************************************************)
EXTENDS GraphCache, TLAPS

Fingerprint == [sha : Contents, m : Nat]
Fingerprints == UNION {[D -> Fingerprint] : D \in SUBSET Files}
Index == [here : BOOLEAN, files : Fingerprints, edges : SUBSET (Files \X Files)]
Disks == UNION {[D -> [c : Contents, m : Nat]] : D \in SUBSET Files}
PCs == {"idle", "lock", "scan", "next", "refresh", "parse", "stat", "hash", "return"}
Processes ==
  [pc : PCs, call : {"none", "update", "ensure"}, seen : Index, todo : SUBSET Files,
   gone : SUBSET Files, full : BOOLEAN, job : SUBSET Files, done : SUBSET Files,
   acc : Index, cur : SUBSET Files, refs : SUBSET Files, m : Nat]
Histories ==
  [since : [Procs -> SUBSET Files], torn : [Procs -> SUBSET Files],
   late : [Procs -> SUBSET Files], behind : SUBSET Files, hidden : SUBSET Files,
   wiped : SUBSET Procs]

\* The budgets are of no consequence here.
TypeOK ==
  /\ disk \in Disks
  /\ index \in Index
  /\ lock \in SUBSET Procs
  /\ proc \in [Procs -> Processes]
  /\ why \in Histories

\* What goes with each place a process can be at.
Shape(r) ==
  /\ r.pc \notin {"idle", "lock", "parse", "stat", "hash"} => r.call = "ensure" /\ ~r.full
  /\ r.pc = "idle" => r.call = "none"
  /\ r.full => r.call = "ensure" /\ r.todo = {} /\ r.gone = {}
  /\ r.pc \in {"scan", "next", "return", "refresh"} => r.job = {} /\ r.done = {}
  /\ r.pc \in {"scan", "next", "return", "lock", "parse"} => r.cur = {}
  /\ r.pc \in {"scan", "return"} => r.todo = {} /\ r.gone = {}
  /\ r.pc = "lock" => r.done = {}
  /\ r.pc \in {"stat", "hash", "refresh"} => \E f \in Files : r.cur = {f}
  /\ r.pc \in {"stat", "hash"} => r.cur \subseteq r.done /\ r.cur \cap r.job = {}

Inside(p) == proc[p].pc \in {"parse", "stat", "hash"}

\* No edges but those of files with an entry.
Owned(ix) == \A e \in ix.edges : e[1] \in DOMAIN ix.files

\* An entry is made of one content, which is the file's or older than the file.
EntryOK(ix, f) ==
  /\ ix.files[f].sha.ok
  /\ {e \in ix.edges : e[1] = f} = EdgesOf(f, ix.files[f].sha.refs)
  /\ Exists(f) => disk[f].c = ix.files[f].sha \/ disk[f].m > ix.files[f].m

EntryInv ==
  /\ Owned(index)
  /\ ~index.here => DOMAIN index.files = {}
  /\ \A f \in DOMAIN index.files : f \in why.hidden \/ EntryOK(index, f)

\* The same of the index that the holder of the lock has in hand.
AccOf(p) ==
  /\ Owned(proc[p].acc)
  /\ \A f \in DOMAIN proc[p].acc.files :
       /\ f \notin proc[p].job \cup proc[p].cur
       /\ f \in why.hidden \cup why.torn[p] \/ EntryOK(proc[p].acc, f)

\* A file that has been read is as it was read, or is torn.
ReadOf(p, f) == Parses(f) /\ proc[p].refs = disk[f].c.refs
WindowOf(p) ==
  \A f \in proc[p].cur :
    \/ f \in why.torn[p]
    \/ proc[p].pc = "stat" /\ ReadOf(p, f)
    \/ proc[p].pc = "hash" /\ ReadOf(p, f) /\ proc[p].m = disk[f].m
    \/ /\ proc[p].pc = "refresh" /\ Exists(f)
       /\ disk[f].c = proc[p].seen.files[f].sha

\* What the holder of the lock has read and nobody has written since is right.
ReadOK(p) ==
  \A f \in proc[p].done \ why.behind :
    IF f \in proc[p].cur THEN ReadOf(p, f) ELSE Right(proc[p].acc, f)

\* Two indexes say the same of f.
Same(ix, jx, f) ==
  /\ f \in DOMAIN ix.files <=> f \in DOMAIN jx.files
  /\ f \in DOMAIN ix.files => ix.files[f] = jx.files[f]
  /\ {e \in ix.edges : e[1] = f} = {e \in jx.edges : e[1] = f}

Untouched(p) == Files \ (proc[p].job \cup proc[p].done)

\* What an update does not look at stays as it is.
CarryOK(p) ==
  ~proc[p].full /\ index.here => \A f \in Untouched(p) : Same(proc[p].acc, index, f)

\* What a full rebuild does not look at was not there when it began.
FullOK(p) ==
  proc[p].full =>
    /\ proc[p].acc.here
    /\ \A f \in Untouched(p) :
         /\ f \notin DOMAIN proc[p].acc.files
         /\ Exists(f) => /\ f \in why.since[p]
                         /\ f \in DOMAIN index.files =>
                              f \in why.hidden \/ disk[f].m > index.files[f].m

\* Nothing is saved when there was neither an entry nor a file.
AbsentOK(p) ==
  ~proc[p].acc.here =>
    \A f \in proc[p].job \cup proc[p].done :
      f \notin DOMAIN index.files /\ (Exists(f) => f \in why.since[p])

Ensures(p) == proc[p].call = "ensure"
Stepwise(p) == Ensures(p) /\ ~proc[p].full /\ p \notin why.wiped

\* f is still to be looked at by p.
Pending(p, f) ==
  \/ f \in proc[p].todo \cup proc[p].gone \cup proc[p].job \cup proc[p].done \cup proc[p].cur
  \/ /\ proc[p].pc = "scan"
     /\ \/ Exists(f) /\ Newer(f, proc[p].seen)
        \/ ~Exists(f) /\ f \in DOMAIN proc[p].seen.files

\* The index is right about f, and is not going to lose it.
Lost(q, f) == proc[q].full /\ f \in Untouched(q) /\ Parses(f)
Solid(f) ==
  \/ f \in why.hidden
  \/ Right(index, f) /\ \A q \in lock : ~Lost(q, f)

\* What a pass has not seen was written before the call began or since; and a call
\* that goes file by file has an index, in which what is not pending is right.
Stands(p) == Files \ (why.since[p] \cup why.late[p])
ClaimOf(p) ==
  /\ Ensures(p) => why.behind \subseteq why.since[p] \cup why.late[p]
  /\ Stepwise(p) => index.here /\ \A f \in Stands(p) : Pending(p, f) \/ Solid(f)

\* Inside a pass is whoever has the lock.
Holds(p) ==
  /\ p \in lock <=> Inside(p)
  /\ p \in lock => AccOf(p) /\ ReadOK(p) /\ CarryOK(p) /\ FullOK(p) /\ AbsentOK(p)

Own(p) == Shape(proc[p]) /\ WindowOf(p) /\ ClaimOf(p) /\ Holds(p)

IInv ==
  /\ TypeOK
  /\ \A p, q \in lock : p = q
  /\ EntryInv
  /\ \A p \in Procs : Own(p)

-----------------------------------------------------------------------------
(* Types.                                                                  *)

LEMMA PrintFacts ==
  ASSUME NEW g \in Fingerprints
  PROVE  /\ DOMAIN g \subseteq Files
         /\ \A f \in DOMAIN g : g[f] \in Fingerprint /\ g[f].sha \in Contents /\ g[f].m \in Nat
         /\ g = [f \in DOMAIN g |-> g[f]]
BY DEF Fingerprints, Fingerprint

LEMMA IsPrints ==
  ASSUME NEW D \in SUBSET Files, NEW g \in [D -> Fingerprint]
  PROVE  g \in Fingerprints
BY DEF Fingerprints

LEMMA DiskFacts ==
  ASSUME NEW g \in Disks
  PROVE  /\ DOMAIN g \subseteq Files
         /\ \A f \in DOMAIN g : /\ g[f] \in [c : Contents, m : Nat]
                                /\ g[f].c \in Contents /\ g[f].m \in Nat
BY DEF Disks

LEMMA ContentFacts ==
  ASSUME NEW c \in Contents
  PROVE  c.ok \in BOOLEAN /\ c.refs \in SUBSET Files
BY CacheAssumption

LEMMA NoIndexFacts ==
  /\ NoIndex \in Index /\ _empty_cache \in Index
  /\ ~NoIndex.here /\ DOMAIN NoIndex.files = {} /\ NoIndex.edges = {}
  /\ _empty_cache.here /\ DOMAIN _empty_cache.files = {} /\ _empty_cache.edges = {}
<1>1. NoFiles \in [{} -> Fingerprint] /\ DOMAIN NoFiles = {}
  BY DEF NoFiles
<1>2. NoFiles \in Fingerprints
  BY <1>1, IsPrints
<1>3. _empty_cache \in Index /\ _empty_cache.here
      /\ _empty_cache.files = NoFiles /\ _empty_cache.edges = {}
  BY <1>2 DEF _empty_cache, Index
<1>4. NoIndex \in Index /\ ~NoIndex.here
      /\ NoIndex.files = _empty_cache.files /\ NoIndex.edges = _empty_cache.edges
  BY <1>3 DEF NoIndex, Index
<1> QED
  BY <1>1, <1>3, <1>4

LEMMA IdleFacts ==
  /\ Idle \in Processes
  /\ Idle.pc = "idle" /\ Idle.call = "none" /\ Idle.todo = {} /\ Idle.gone = {}
  /\ Idle.full = FALSE /\ Idle.job = {} /\ Idle.done = {} /\ Idle.cur = {}
  /\ Idle.acc = NoIndex /\ Shape(Idle)
BY NoIndexFacts DEF Idle, Processes, PCs, Shape

LEMMA WithFacts ==
  ASSUME NEW g, NEW f, NEW v
  PROVE  /\ DOMAIN With(g, f, v) = DOMAIN g \cup {f}
         /\ With(g, f, v)[f] = v
         /\ \A x \in DOMAIN g : x # f => With(g, f, v)[x] = g[x]
BY DEF With

LEMMA WithoutFacts ==
  ASSUME NEW g, NEW S
  PROVE  /\ DOMAIN Without(g, S) = DOMAIN g \ S
         /\ \A x \in DOMAIN g \ S : Without(g, S)[x] = g[x]
BY DEF Without

LEMMA WithPrints ==
  ASSUME NEW g \in Fingerprints, NEW f \in Files, NEW v \in Fingerprint
  PROVE  With(g, f, v) \in Fingerprints
<1>1. DOMAIN g \cup {f} \in SUBSET Files /\ With(g, f, v) \in [DOMAIN g \cup {f} -> Fingerprint]
  BY PrintFacts DEF With
<1> QED
  BY <1>1, IsPrints

LEMMA WithoutPrints ==
  ASSUME NEW g \in Fingerprints, NEW S
  PROVE  Without(g, S) \in Fingerprints
<1>1. DOMAIN g \ S \in SUBSET Files /\ Without(g, S) \in [DOMAIN g \ S -> Fingerprint]
  BY PrintFacts DEF Without
<1> QED
  BY <1>1, IsPrints

\* The process that takes a step, and the others.
LEMMA StepOf ==
  ASSUME proc \in [Procs -> Processes], NEW p \in Procs, NEW r \in Processes, Becomes(p, r)
  PROVE  /\ proc' \in [Procs -> Processes]
         /\ proc'[p] = r
         /\ \A q \in Procs : q # p => proc'[q] = proc[q]
BY DEF Becomes

\* The history when p gives up.
LEMMA FailsFacts ==
  ASSUME TypeOK, NEW p \in Procs, Fails(p)
  PROVE  /\ why' \in Histories /\ lock' \in SUBSET Procs /\ proc' \in [Procs -> Processes]
         /\ proc'[p] = Idle /\ lock' = lock \ {p}
         /\ \A q \in Procs : q # p => proc'[q] = proc[q] /\ why'.torn[q] = why.torn[q]
         /\ why'.since = why.since /\ why'.late = why.late /\ why'.hidden = why.hidden
         /\ why'.wiped = why.wiped
         /\ why'.behind = IF lock = {p} THEN {} ELSE why.behind
<1>1. Becomes(p, Idle) /\ lock' = lock \ {p}
      /\ why' = [why EXCEPT !.torn[p] = {}, !.behind = IF lock = {p} THEN {} ELSE @]
  BY DEF Fails
<1>2. proc' \in [Procs -> Processes] /\ proc'[p] = Idle
      /\ \A q \in Procs : q # p => proc'[q] = proc[q]
  BY <1>1, StepOf, IdleFacts DEF TypeOK
<1>3. why \in Histories /\ lock \in SUBSET Procs
  BY DEF TypeOK
<1> QED
  BY <1>1, <1>2, <1>3 DEF Histories

-----------------------------------------------------------------------------
(* The steps of p that leave the files, the index and the other processes  *)
(* alone: all but Save and Refresh.                                        *)

Local(p) ==
  /\ disk' = disk /\ index' = index /\ why'.hidden = why.hidden
  /\ \A q \in Procs \ {p} :
       /\ proc'[q] = proc[q]
       /\ why'.torn[q] = why.torn[q] /\ why'.since[q] = why.since[q]
       /\ why'.late[q] = why.late[q] /\ (q \in why'.wiped <=> q \in why.wiped)
       /\ q \in lock' <=> q \in lock
  /\ p \in lock' \ lock => lock = {}
  /\ why'.behind = why.behind \/ (why'.behind = {} /\ lock' = {})
  /\ p \in lock' => \A f \in Files : Lost(p, f)' => p \in lock /\ Lost(p, f)

LEMMA SolidStays ==
  ASSUME TypeOK, TypeOK', NEW p \in Procs, Local(p), NEW f \in Files, Solid(f)
  PROVE  Solid(f)'
<1>1. CASE f \in why.hidden
  BY <1>1 DEF Local, Solid
<1>2. CASE Right(index, f) /\ \A q \in lock : ~Lost(q, f)
  <2>1. Right(index, f)'
    BY <1>2 DEF Local, Right, Parses, Exists
  <2>2. ASSUME NEW q \in lock', Lost(q, f)' PROVE FALSE
    <3>1. q \in Procs
      BY DEF TypeOK
    <3>2. CASE q = p
      BY <1>2, <2>2, <3>2 DEF Local
    <3>3. CASE q # p
      <4>1. q \in lock /\ proc'[q] = proc[q] /\ disk' = disk
        BY <3>1, <3>3 DEF Local
      <4> QED
        BY <1>2, <2>2, <4>1 DEF Lost, Untouched, Parses, Exists
    <3> QED
      BY <3>2, <3>3
  <2> QED
    BY <2>1, <2>2 DEF Solid
<1> QED
  BY <1>1, <1>2 DEF Solid

LEMMA LocalStep ==
  ASSUME IInv, NEW p \in Procs, Local(p), TypeOK', Own(p)'
  PROVE  IInv'
<1>1. EntryInv'
  <2>1. disk' = disk /\ index' = index /\ why'.hidden = why.hidden /\ EntryInv
    BY DEF Local, IInv
  <2> QED
    BY <2>1 DEF EntryInv, Owned, EntryOK, Exists
<1>2. ASSUME NEW q \in lock', NEW o \in lock' PROVE q = o
  BY DEF IInv, TypeOK, Local
<1>3. ASSUME NEW q \in Procs, q # p PROVE Own(q)'
  <2>1. /\ disk' = disk /\ index' = index /\ why'.hidden = why.hidden
        /\ proc'[q] = proc[q] /\ why'.torn[q] = why.torn[q] /\ why'.since[q] = why.since[q]
        /\ why'.late[q] = why.late[q] /\ (q \in why'.wiped <=> q \in why.wiped)
        /\ q \in lock' <=> q \in lock
    BY <1>3 DEF Local
  <2>2. Shape(proc[q]) /\ WindowOf(q) /\ ClaimOf(q) /\ Holds(q)
    BY DEF IInv, Own
  <2>3. Shape(proc[q])'
    BY <2>1, <2>2
  <2>4. WindowOf(q)'
    BY <2>1, <2>2 DEF WindowOf, ReadOf, Parses, Exists
  <2>5. q \in lock' => why'.behind = why.behind
    BY DEF Local
  <2>6. Holds(q)'
    <3>1. (q \in lock <=> Inside(q))'
      BY <2>1, <2>2 DEF Holds, Inside
    <3>2. ASSUME q \in lock' PROVE AccOf(q)'
      BY <2>1, <2>2, <3>2 DEF Holds, AccOf, Owned, EntryOK, Exists
    <3>3. ASSUME q \in lock' PROVE ReadOK(q)'
      BY <2>1, <2>2, <2>5, <3>3 DEF Holds, ReadOK, ReadOf, Right, Parses, Exists
    <3>4. ASSUME q \in lock' PROVE CarryOK(q)'
      BY <2>1, <2>2, <3>4 DEF Holds, CarryOK, Same, Untouched
    <3>5. ASSUME q \in lock' PROVE FullOK(q)'
      BY <2>1, <2>2, <3>5 DEF Holds, FullOK, Untouched, Exists
    <3>6. ASSUME q \in lock' PROVE AbsentOK(q)'
      BY <2>1, <2>2, <3>6 DEF Holds, AbsentOK, Exists
    <3> QED
      BY <3>1, <3>2, <3>3, <3>4, <3>5, <3>6 DEF Holds
  <2>7. ClaimOf(q)'
    <3>1. \A f \in Files : Solid(f) => Solid(f)'
      BY SolidStays DEF IInv
    <3>2. \A f \in Files : Pending(q, f) => Pending(q, f)'
      BY <2>1 DEF Pending, Exists, Newer
    <3>3. /\ Ensures(q)' <=> Ensures(q)
          /\ Stepwise(q)' <=> Stepwise(q)
          /\ Stands(q)' = Stands(q)
      BY <2>1 DEF Stepwise, Ensures, Stands
    <3>4. why'.behind \subseteq why.behind
      BY DEF Local
    <3> QED
      BY <2>1, <2>2, <3>1, <3>2, <3>3, <3>4 DEF ClaimOf, Stands
  <2> QED
    BY <2>3, <2>4, <2>6, <2>7 DEF Own
<1>4. \A q \in Procs : Own(q)'
  BY <1>3
<1> QED
  BY <1>1, <1>2, <1>4 DEF IInv

LEMMA FailsStep ==
  ASSUME IInv, NEW p \in Procs, Fails(p), UNCHANGED <<disk, index>>
  PROVE  IInv'
<1>1. /\ why' \in Histories /\ lock' \in SUBSET Procs /\ proc' \in [Procs -> Processes]
      /\ proc'[p] = Idle /\ lock' = lock \ {p}
      /\ \A q \in Procs : q # p => proc'[q] = proc[q] /\ why'.torn[q] = why.torn[q]
      /\ why'.since = why.since /\ why'.late = why.late /\ why'.hidden = why.hidden
      /\ why'.wiped = why.wiped
      /\ why'.behind = IF lock = {p} THEN {} ELSE why.behind
  BY FailsFacts DEF IInv
<1>2. TypeOK'
  BY <1>1 DEF IInv, TypeOK
<1>3. Local(p)
  BY <1>1 DEF Local
<1>4. Own(p)'
  <2>1. Shape(proc[p])' /\ ~Inside(p)' /\ ~Ensures(p)' /\ proc'[p].cur = {}
    BY <1>1, IdleFacts DEF Inside, Ensures
  <2> QED
    BY <1>1, <2>1 DEF Own, WindowOf, ClaimOf, Stepwise, Holds
<1> QED
  BY <1>2, <1>3, <1>4, LocalStep

\* What is known of p, and of its history.
LEMMA Known ==
  ASSUME IInv, NEW p \in Procs
  PROVE  /\ proc[p] \in Processes /\ index \in Index
         /\ proc \in [Procs -> Processes] /\ why \in Histories /\ lock \in SUBSET Procs
         /\ DOMAIN disk \subseteq Files /\ DOMAIN index.files \subseteq Files
         /\ Shape(proc[p]) /\ WindowOf(p) /\ ClaimOf(p) /\ Holds(p)
         /\ \A q \in lock : p \in lock => q = p
<1>1. index.files \in Fingerprints
  BY DEF IInv, TypeOK, Index
<1> QED
  BY <1>1, PrintFacts, DiskFacts DEF IInv, TypeOK, Own

\* A step of p that is outside the pass before and after, or inside, and nothing of
\* the history changes.
LEMMA PlainStep ==
  ASSUME IInv, NEW p \in Procs, NEW r \in Processes, Becomes(p, r),
         UNCHANGED <<disk, index, lock, why>>,
         r.full = proc[p].full, Files \ (r.job \cup r.done) = Untouched(p),
         Shape(r), WindowOf(p)', ClaimOf(p)', Holds(p)'
  PROVE  IInv'
<1>1. /\ proc' \in [Procs -> Processes] /\ proc'[p] = r
      /\ \A q \in Procs : q # p => proc'[q] = proc[q]
  BY Known, StepOf
<1>2. TypeOK'
  BY <1>1 DEF IInv, TypeOK
<1>3. \A f \in Files : Lost(p, f)' => Lost(p, f)
  <2>1. Untouched(p)' = Untouched(p)
    BY <1>1 DEF Untouched
  <2> QED
    BY <1>1, <2>1 DEF Lost, Parses, Exists
<1>4. Local(p)
  BY <1>1, <1>3 DEF Local
<1>5. Own(p)'
  BY <1>1 DEF Own
<1> QED
  BY <1>2, <1>4, <1>5, LocalStep

\* The same, of a step outside the pass, when what is pending stays pending.
LEMMA OutsideStep ==
  ASSUME IInv, NEW p \in Procs, NEW r \in Processes, Becomes(p, r),
         UNCHANGED <<disk, index, lock, why>>, p \notin lock,
         r.pc \notin {"parse", "stat", "hash"}, Shape(r), WindowOf(p)', ClaimOf(p)'
  PROVE  IInv'
<1>1. /\ proc' \in [Procs -> Processes] /\ proc'[p] = r
      /\ \A q \in Procs : q # p => proc'[q] = proc[q]
  BY Known, StepOf
<1>2. TypeOK'
  BY <1>1 DEF IInv, TypeOK
<1>3. Local(p)
  BY <1>1 DEF Local
<1>4. Own(p)'
  BY <1>1 DEF Own, Holds, Inside
<1> QED
  BY <1>2, <1>3, <1>4, LocalStep

LEMMA StepUpdateFile ==
  ASSUME IInv, NEW p \in Procs, UpdateFile(p)
  PROVE  IInv'
<1>1. /\ At(p, "idle") /\ UNCHANGED <<disk, index, lock, why>>
      /\ \E f \in Files : Becomes(p, [Idle EXCEPT !.pc = "lock", !.call = "update", !.job = {f}])
  BY DEF UpdateFile
<1>2. PICK f \in Files : Becomes(p, [Idle EXCEPT !.pc = "lock", !.call = "update", !.job = {f}])
  BY <1>1
<1> DEFINE r == [Idle EXCEPT !.pc = "lock", !.call = "update", !.job = {f}]
<1>3. /\ r \in Processes /\ r.pc = "lock" /\ r.call = "update" /\ r.job = {f}
      /\ r.full = FALSE /\ r.todo = {} /\ r.gone = {} /\ r.done = {} /\ r.cur = {}
  BY IdleFacts DEF Processes, PCs
<1>4. Becomes(p, r)
  BY <1>2
<1> HIDE DEF r
<1>5. proc'[p] = r
  BY <1>3, <1>4, Known, StepOf
<1>6. Shape(r) /\ WindowOf(p)' /\ ClaimOf(p)'
  BY <1>3, <1>5 DEF Shape, WindowOf, ClaimOf, Stepwise, Ensures
<1>7. p \notin lock
  BY <1>1, Known DEF Holds, Inside, At
<1> QED
  BY <1>1, <1>3, <1>4, <1>6, <1>7, OutsideStep

LEMMA StepReturn ==
  ASSUME IInv, NEW p \in Procs, Return(p)
  PROVE  IInv'
<1>1. At(p, "return") /\ Becomes(p, Idle) /\ UNCHANGED <<disk, index, lock, why>>
  BY DEF Return
<1>2. proc'[p] = Idle
  BY <1>1, IdleFacts, Known, StepOf
<1>3. Shape(Idle) /\ WindowOf(p)' /\ ClaimOf(p)'
  BY <1>2, IdleFacts DEF WindowOf, ClaimOf, Stepwise, Ensures
<1>4. p \notin lock
  BY <1>1, Known DEF Holds, Inside, At
<1> QED
  BY <1>1, <1>3, <1>4, IdleFacts, OutsideStep

LEMMA StepGivesUp ==
  ASSUME IInv, NEW p \in Procs, LockTimeout(p) \/ Dies(p)
  PROVE  IInv'
BY FailsStep DEF LockTimeout, Dies

\* An entry that is not newer than its file is right, unless hidden.
LEMMA UnchangedIsRight ==
  ASSUME IInv, NEW f \in Files, f \notin why.hidden,
         Exists(f) => f \in DOMAIN index.files /\ ~(disk[f].m > index.files[f].m),
         ~Exists(f) => f \notin DOMAIN index.files
  PROVE  Right(index, f)
<1>1. EntryInv
  BY DEF IInv
<1>2. CASE f \in DOMAIN index.files
  BY <1>1, <1>2 DEF EntryInv, EntryOK, Right, Parses
<1>3. CASE f \notin DOMAIN index.files
  BY <1>1, <1>3 DEF EntryInv, Owned, Right, Parses
<1> QED
  BY <1>2, <1>3

\* What is not newer than the index is not lost by a full rebuild under way.
LEMMA UnchangedIsKept ==
  ASSUME IInv, NEW f \in Files, f \notin why.hidden, NEW q \in lock,
         Exists(f) => f \in DOMAIN index.files /\ ~(disk[f].m > index.files[f].m)
  PROVE  ~Lost(q, f)
<1>1. q \in Procs
  BY DEF IInv, TypeOK
<1>2. FullOK(q)
  BY <1>1, Known DEF Holds
<1> QED
  BY <1>2 DEF FullOK, Lost, Parses

LEMMA StepEnsureFresh ==
  ASSUME IInv, NEW p \in Procs, EnsureFresh(p)
  PROVE  IInv'
<1> DEFINE r == [Idle EXCEPT !.call = "ensure", !.seen = index, !.full = ~index.here,
                             !.pc = IF index.here THEN "scan" ELSE "lock"]
<1>1. /\ At(p, "idle") /\ Becomes(p, r) /\ UNCHANGED <<disk, index, lock>>
      /\ why' = [why EXCEPT !.since[p] = {}, !.late[p] = why.behind, !.wiped = @ \ {p}]
  BY DEF EnsureFresh
<1>2. index \in Index /\ index.here \in BOOLEAN
  BY Known DEF Index
<1>3. r \in Processes
  BY <1>2, IdleFacts DEF Processes, PCs
<1>4. /\ r.call = "ensure" /\ r.seen = index /\ r.full = ~index.here
      /\ r.pc = (IF index.here THEN "scan" ELSE "lock")
      /\ r.todo = {} /\ r.gone = {} /\ r.job = {} /\ r.done = {} /\ r.cur = {}
  BY IdleFacts DEF Processes, PCs
<1> HIDE DEF r
<1>5. /\ proc' \in [Procs -> Processes] /\ proc'[p] = r
      /\ \A q \in Procs : q # p => proc'[q] = proc[q]
  BY <1>1, <1>3, Known, StepOf
<1>6. /\ why' \in Histories /\ why'.since[p] = {} /\ why'.late[p] = why.behind
      /\ p \notin why'.wiped /\ why'.hidden = why.hidden /\ why'.behind = why.behind
      /\ \A q \in Procs : /\ why'.torn[q] = why.torn[q]
                          /\ q # p => /\ why'.since[q] = why.since[q]
                                      /\ why'.late[q] = why.late[q]
                                      /\ q \in why'.wiped <=> q \in why.wiped
  BY <1>1, Known DEF Histories
<1>7. p \notin lock
  BY <1>1, Known DEF Holds, Inside, At
<1>8. TypeOK'
  BY <1>1, <1>5, <1>6 DEF IInv, TypeOK
<1>9. Local(p)
  BY <1>1, <1>5, <1>6, <1>7 DEF Local
<1>10. Own(p)'
  <2>1. Shape(r)
    BY <1>4 DEF Shape
  <2>2. WindowOf(p)'
    BY <1>4, <1>5 DEF WindowOf
  <2>3. Holds(p)'
    BY <1>1, <1>4, <1>5, <1>7 DEF Holds, Inside
  <2>4. ClaimOf(p)'
    <3>1. why'.behind \subseteq why'.since[p] \cup why'.late[p]
      BY <1>6
    <3>2. ASSUME Stepwise(p)', NEW f \in Files, ~Pending(p, f)' PROVE Solid(f)'
      <4>1. index.here /\ r.pc = "scan"
        BY <1>2, <1>4, <1>5, <3>2 DEF Stepwise
      <4>2. /\ Exists(f) => f \in DOMAIN index.files /\ ~(disk[f].m > index.files[f].m)
            /\ ~Exists(f) => f \notin DOMAIN index.files
        BY <1>1, <1>4, <1>5, <3>2, <4>1 DEF Pending, Newer, Exists
      <4>3. Solid(f)
        BY <4>2, UnchangedIsRight, UnchangedIsKept DEF Solid
      <4> QED
        BY <1>8, <1>9, <4>3, SolidStays DEF IInv
    <3>3. Stepwise(p)' => index'.here
      BY <1>1, <1>2, <1>4, <1>5 DEF Stepwise
    <3> QED
      BY <3>1, <3>2, <3>3 DEF ClaimOf, Stands
  <2> QED
    BY <1>5, <2>1, <2>2, <2>3, <2>4 DEF Own
<1> QED
  BY <1>8, <1>9, <1>10, LocalStep

\* Nothing of what a call claims is lost by a step of its own that keeps what is
\* pending, and is no rebuild before and after.
LEMMA ClaimStays ==
  ASSUME IInv, TypeOK', NEW p \in Procs, Local(p),
         why'.behind \subseteq why.behind,
         why'.since = why.since, why'.late = why.late, why'.wiped = why.wiped,
         Ensures(p)' => Ensures(p), Stepwise(p)' => Stepwise(p),
         Stepwise(p)' => \A f \in Stands(p) : Pending(p, f) => Pending(p, f)' \/ Solid(f)'
  PROVE  ClaimOf(p)'
<1>1. ClaimOf(p) /\ index' = index
  BY Known DEF Local
<1>2. \A f \in Files : Solid(f) => Solid(f)'
  BY SolidStays DEF IInv
<1>3. Stands(p)' = Stands(p) /\ Stands(p) \subseteq Files
  BY DEF Stands
<1> QED
  BY <1>1, <1>2, <1>3 DEF ClaimOf

\* A step outside the pass, of a call that goes file by file: what is pending stays so.
LEMMA FollowStep ==
  ASSUME IInv, NEW p \in Procs, NEW r \in Processes, Becomes(p, r),
         UNCHANGED <<disk, index, lock, why>>, p \notin lock,
         r.pc \notin {"parse", "stat", "hash"}, Shape(r), WindowOf(p)',
         r.call = proc[p].call, ~r.full, ~proc[p].full,
         \A f \in Files : Pending(p, f) => Pending(p, f)'
  PROVE  IInv'
<1>1. /\ proc' \in [Procs -> Processes] /\ proc'[p] = r
      /\ \A q \in Procs : q # p => proc'[q] = proc[q]
  BY Known, StepOf
<1>2. TypeOK'
  BY <1>1 DEF IInv, TypeOK
<1>3. Local(p)
  BY <1>1 DEF Local
<1>4. (Ensures(p)' => Ensures(p)) /\ (Stepwise(p)' => Stepwise(p))
  BY <1>1 DEF Ensures, Stepwise
<1>5. ClaimOf(p)'
  BY <1>2, <1>3, <1>4, ClaimStays DEF Stands
<1> QED
  BY <1>5, OutsideStep

LEMMA StepScan ==
  ASSUME IInv, NEW p \in Procs, Scan(p)
  PROVE  IInv'
<1> DEFINE seen == proc[p].seen
           changed == {f \in DOMAIN disk : Newer(f, seen)}
           gone == DOMAIN seen.files \ DOMAIN disk
           many == Cardinality(changed) + Cardinality(gone) >= _INCREMENTAL_BAILOUT
           all == [proc[p] EXCEPT !.pc = "lock", !.full = TRUE, !.seen = NoIndex]
           some == [proc[p] EXCEPT !.pc = "next", !.todo = changed, !.gone = gone]
<1>1. /\ At(p, "scan") /\ UNCHANGED <<disk, index, lock, why>>
      /\ Becomes(p, IF many THEN all ELSE some)
  BY DEF Scan
<1>2. /\ proc[p] \in Processes /\ DOMAIN disk \subseteq Files /\ DOMAIN seen.files \subseteq Files
  <2>1. proc[p] \in Processes /\ DOMAIN disk \subseteq Files
    BY Known
  <2>2. seen.files \in Fingerprints
    BY <2>1 DEF Processes, Index
  <2> QED
    BY <2>1, <2>2, PrintFacts
<1>3. /\ proc[p].call = "ensure" /\ ~proc[p].full /\ proc[p].job = {} /\ proc[p].done = {}
      /\ proc[p].cur = {} /\ proc[p].todo = {} /\ proc[p].gone = {} /\ p \notin lock
  BY <1>1, Known DEF Shape, At, Holds, Inside
<1>4. CASE many
  <2>1. /\ all \in Processes /\ all.pc = "lock" /\ all.full = TRUE /\ all.call = "ensure"
        /\ all.job = {} /\ all.done = {} /\ all.cur = {} /\ all.todo = {} /\ all.gone = {}
    BY <1>2, <1>3, NoIndexFacts DEF Processes, PCs
  <2>2. Becomes(p, all)
    BY <1>1, <1>4
  <2> HIDE DEF all
  <2>3. proc'[p] = all
    BY <2>1, <2>2, Known, StepOf
  <2>4. Shape(all) /\ WindowOf(p)'
    BY <2>1, <2>3 DEF Shape, WindowOf
  <2>5. ClaimOf(p)'
    <3>1. ClaimOf(p) /\ Ensures(p)
      BY <1>3, Known DEF Ensures
    <3> QED
      BY <1>1, <2>1, <2>3, <3>1 DEF ClaimOf, Stepwise
  <2> QED
    BY <1>1, <1>3, <2>1, <2>2, <2>4, <2>5, OutsideStep
<1>5. CASE ~many
  <2>1. changed \in SUBSET Files /\ gone \in SUBSET Files
    BY <1>2
  <2>2. /\ some \in Processes /\ some.pc = "next" /\ ~some.full /\ some.call = "ensure"
        /\ some.job = {} /\ some.done = {} /\ some.cur = {}
        /\ some.todo = changed /\ some.gone = gone
    BY <1>2, <1>3, <2>1 DEF Processes, PCs
  <2>3. Becomes(p, some)
    BY <1>1, <1>5
  <2> HIDE DEF some
  <2>4. proc'[p] = some
    BY <2>2, <2>3, Known, StepOf
  <2>5. Shape(some) /\ WindowOf(p)'
    BY <2>2, <2>4 DEF Shape, WindowOf
  <2>6. \A f \in Files : Pending(p, f) => Pending(p, f)'
    <3>1. proc[p].pc = "scan"
      BY <1>1 DEF At
    <3>2. ASSUME NEW f \in Files, Pending(p, f) PROVE f \in changed \cup gone
      BY <1>2, <1>3, <3>1, <3>2 DEF Pending, Exists
    <3> HIDE DEF changed, gone
    <3> QED
      BY <2>2, <2>4, <3>2 DEF Pending
  <2> QED
    BY <1>1, <1>3, <2>2, <2>3, <2>5, <2>6, FollowStep
<1> QED
  BY <1>4, <1>5

LEMMA StepNextFile ==
  ASSUME IInv, NEW p \in Procs, NextFile(p)
  PROVE  IInv'
<1> DEFINE r == proc[p]
           pass(f) == [r EXCEPT !.pc = "lock", !.todo = @ \ {f}, !.job = {f}]
           touch(f) == [r EXCEPT !.pc = "refresh", !.todo = @ \ {f}, !.cur = {f}]
           drop(f) == [r EXCEPT !.pc = "lock", !.gone = @ \ {f}, !.job = {f}]
           end == [r EXCEPT !.pc = "return", !.seen = NoIndex]
           Same0 == UNCHANGED <<disk, index, lock, why>>
<1>1. r.pc = "next" /\ UNCHANGED <<disk, index>>
  BY DEF NextFile, At
<1>2. /\ r \in Processes /\ r.call = "ensure" /\ ~r.full /\ r.job = {} /\ r.done = {}
      /\ r.cur = {} /\ r.todo \in SUBSET Files /\ r.gone \in SUBSET Files /\ p \notin lock
  BY <1>1, Known DEF Shape, Holds, Inside, Processes
<1>3. \/ Fails(p)
      \/ \E f \in r.todo : Becomes(p, pass(f)) /\ Same0
      \/ \E f \in r.todo : /\ Exists(f) /\ disk[f].c = r.seen.files[f].sha
                           /\ Becomes(p, touch(f)) /\ Same0
      \/ \E f \in r.gone : r.todo = {} /\ Becomes(p, drop(f)) /\ Same0
      \/ r.todo = {} /\ r.gone = {} /\ Becomes(p, end) /\ Same0
  BY DEF NextFile
<1>4. CASE Fails(p)
  BY <1>1, <1>4, FailsStep
<1>5. ASSUME NEW f \in r.todo, Becomes(p, pass(f)), Same0 PROVE IInv'
  <2> DEFINE d == pass(f)
  <2>1. /\ d \in Processes /\ d.pc = "lock" /\ d.call = r.call /\ d.full = r.full
        /\ d.todo = r.todo \ {f} /\ d.gone = r.gone /\ d.job = {f} /\ d.done = {} /\ d.cur = {}
    BY <1>2 DEF Processes, PCs
  <2>2. Becomes(p, d)
    BY <1>5
  <2> HIDE DEF d
  <2>3. proc'[p] = d
    BY <2>1, <2>2, Known, StepOf
  <2>4. Shape(d) /\ WindowOf(p)'
    BY <1>2, <2>1, <2>3 DEF Shape, WindowOf
  <2>5. \A g \in Files : Pending(p, g) => Pending(p, g)'
    BY <1>1, <1>2, <2>1, <2>3 DEF Pending
  <2> QED
    BY <1>2, <1>5, <2>1, <2>2, <2>4, <2>5, FollowStep
<1>6. ASSUME NEW f \in r.todo, Exists(f), disk[f].c = r.seen.files[f].sha,
             Becomes(p, touch(f)), Same0
      PROVE  IInv'
  <2> DEFINE d == touch(f)
  <2>1. /\ d \in Processes /\ d.pc = "refresh" /\ d.call = r.call /\ d.full = r.full
        /\ d.seen = r.seen /\ d.todo = r.todo \ {f} /\ d.gone = r.gone
        /\ d.job = {} /\ d.done = {} /\ d.cur = {f}
    BY <1>2 DEF Processes, PCs
  <2>2. Becomes(p, d)
    BY <1>6
  <2> HIDE DEF d
  <2>3. proc'[p] = d
    BY <2>1, <2>2, Known, StepOf
  <2>4. Shape(d)
    BY <1>2, <2>1 DEF Shape
  <2>5. WindowOf(p)'
    BY <1>6, <2>1, <2>3 DEF WindowOf, Exists
  <2>6. \A g \in Files : Pending(p, g) => Pending(p, g)'
    BY <1>1, <1>2, <2>1, <2>3 DEF Pending
  <2> QED
    BY <1>2, <1>6, <2>1, <2>2, <2>4, <2>5, <2>6, FollowStep
<1>7. ASSUME NEW f \in r.gone, r.todo = {}, Becomes(p, drop(f)), Same0 PROVE IInv'
  <2> DEFINE d == drop(f)
  <2>1. /\ d \in Processes /\ d.pc = "lock" /\ d.call = r.call /\ d.full = r.full
        /\ d.todo = {} /\ d.gone = r.gone \ {f} /\ d.job = {f} /\ d.done = {} /\ d.cur = {}
    BY <1>2, <1>7 DEF Processes, PCs
  <2>2. Becomes(p, d)
    BY <1>7
  <2> HIDE DEF d
  <2>3. proc'[p] = d
    BY <2>1, <2>2, Known, StepOf
  <2>4. Shape(d) /\ WindowOf(p)'
    BY <1>2, <2>1, <2>3 DEF Shape, WindowOf
  <2>5. \A g \in Files : Pending(p, g) => Pending(p, g)'
    BY <1>1, <1>2, <1>7, <2>1, <2>3 DEF Pending
  <2> QED
    BY <1>2, <1>7, <2>1, <2>2, <2>4, <2>5, FollowStep
<1>8. ASSUME r.todo = {}, r.gone = {}, Becomes(p, end), Same0 PROVE IInv'
  <2> DEFINE d == end
  <2>1. /\ d \in Processes /\ d.pc = "return" /\ d.call = r.call /\ d.full = r.full
        /\ d.todo = {} /\ d.gone = {} /\ d.job = {} /\ d.done = {} /\ d.cur = {}
    BY <1>2, <1>8, NoIndexFacts DEF Processes, PCs
  <2>2. Becomes(p, d)
    BY <1>8
  <2> HIDE DEF d
  <2>3. proc'[p] = d
    BY <2>1, <2>2, Known, StepOf
  <2>4. Shape(d) /\ WindowOf(p)'
    BY <1>2, <2>1, <2>3 DEF Shape, WindowOf
  <2>5. \A g \in Files : Pending(p, g) => Pending(p, g)'
    BY <1>1, <1>2, <1>8, <2>1, <2>3 DEF Pending
  <2> QED
    BY <1>2, <1>8, <2>1, <2>2, <2>4, <2>5, FollowStep
<1> QED
  BY <1>3, <1>4, <1>5, <1>6, <1>7, <1>8

-----------------------------------------------------------------------------
(* The steps of a pass.                                                    *)

LEMMA StepLock ==
  ASSUME IInv, NEW p \in Procs, Lock(p)
  PROVE  IInv'
<1> DEFINE r == proc[p]
           old == Loaded(p)
           all == [r EXCEPT !.pc = "parse", !.job = DOMAIN disk, !.acc = _empty_cache]
           taken == [here |-> \E f \in r.job : f \in DOMAIN old.files \/ Exists(f),
                     files |-> Without(old.files, r.job),
                     edges |-> OfOthers(old.edges, r.job)]
           part == [r EXCEPT !.pc = "parse", !.acc = taken]
<1>1. /\ r.pc = "lock" /\ lock = {} /\ lock' = {p} /\ UNCHANGED <<disk, index, why>>
      /\ Becomes(p, IF r.full THEN all ELSE part)
  BY DEF Lock, At
<1>2. /\ r \in Processes /\ index \in Index /\ DOMAIN disk \in SUBSET Files /\ r.full \in BOOLEAN
      /\ r.job \in SUBSET Files /\ r.done = {} /\ r.cur = {} /\ Shape(r)
  BY <1>1, Known DEF Shape, Processes
<1>3. /\ old \in Index /\ DOMAIN old.files = DOMAIN index.files /\ Owned(old)
      /\ \A f \in DOMAIN old.files : f \in why.hidden \/ EntryOK(old, f)
      /\ index.here => old = index
  <2>1. EntryInv
    BY DEF IInv
  <2>2. CASE index.here
    BY <1>2, <2>1, <2>2 DEF Loaded, EntryInv
  <2>3. CASE ~index.here
    <3>1. old = _empty_cache
      BY <2>3 DEF Loaded
    <3> HIDE DEF old
    <3> QED
      BY <2>1, <2>3, <3>1, NoIndexFacts DEF EntryInv, Owned
  <2> QED
    BY <2>2, <2>3
<1> HIDE DEF old
<1>4. /\ taken \in Index
      /\ DOMAIN taken.files = DOMAIN old.files \ r.job
      /\ \A f \in DOMAIN taken.files : taken.files[f] = old.files[f]
      /\ taken.edges = OfOthers(old.edges, r.job)
      /\ taken.here <=> \E f \in r.job : f \in DOMAIN old.files \/ Exists(f)
  <2>1. Without(old.files, r.job) \in Fingerprints /\ OfOthers(old.edges, r.job) \in SUBSET (Files \X Files)
    BY <1>3, WithoutPrints DEF Index, OfOthers
  <2>2. (\E f \in r.job : f \in DOMAIN old.files \/ Exists(f)) \in BOOLEAN
    OBVIOUS
  <2>3. taken \in Index
    BY <2>1, <2>2 DEF Index
  <2>4. /\ taken.files = Without(old.files, r.job)
        /\ taken.edges = OfOthers(old.edges, r.job)
        /\ taken.here <=> \E f \in r.job : f \in DOMAIN old.files \/ Exists(f)
    OBVIOUS
  <2> HIDE DEF taken
  <2>5. /\ DOMAIN taken.files = DOMAIN old.files \ r.job
        /\ \A f \in DOMAIN taken.files : taken.files[f] = old.files[f]
    BY <2>4 DEF Without
  <2> QED
    BY <2>3, <2>4, <2>5
<1> HIDE DEF taken
<1>5. ASSUME NEW d \in Processes, Becomes(p, d), d.pc = "parse", d.call = r.call,
             d.full = r.full, d.todo = r.todo, d.gone = r.gone, d.full \/ d.job = r.job,
             d.job \in SUBSET Files, d.done = {}, d.cur = {}, d.full => d.job = DOMAIN disk,
             AccOf(p)', CarryOK(p)', FullOK(p)', AbsentOK(p)'
      PROVE  IInv'
  <2>1. /\ proc' \in [Procs -> Processes] /\ proc'[p] = d
        /\ \A q \in Procs : q # p => proc'[q] = proc[q]
    BY <1>5, Known, StepOf
  <2>2. TypeOK'
    BY <1>1, <2>1 DEF IInv, TypeOK
  <2>3. \A f \in Files : ~Lost(p, f)'
    BY <1>1, <1>5, <2>1 DEF Lost, Untouched, Parses, Exists
  <2>4. Local(p)
    BY <1>1, <2>1, <2>3 DEF Local
  <2>5. Shape(d)
    BY <1>2, <1>5 DEF Shape
  <2>6. WindowOf(p)' /\ ReadOK(p)'
    BY <1>5, <2>1 DEF WindowOf, ReadOK
  <2>7. Holds(p)'
    BY <1>1, <1>5, <2>1, <2>6 DEF Holds, Inside
  <2>8. ClaimOf(p)'
    <3>1. (Ensures(p)' => Ensures(p)) /\ (Stepwise(p)' => Stepwise(p))
      BY <1>1, <1>5, <2>1 DEF Ensures, Stepwise
    <3>2. Stepwise(p)' => \A f \in Files : Pending(p, f) => Pending(p, f)'
      BY <1>1, <1>2, <1>5, <2>1 DEF Pending, Stepwise
    <3> QED
      BY <1>1, <2>2, <2>4, <3>1, <3>2, ClaimStays DEF Stands
  <2>9. Own(p)'
    BY <2>1, <2>5, <2>6, <2>7, <2>8 DEF Own
  <2> QED
    BY <2>2, <2>4, <2>9, LocalStep
<1>6. CASE r.full
  <2>1. /\ all \in Processes /\ all.pc = "parse" /\ all.call = r.call /\ all.full = r.full
        /\ all.todo = r.todo /\ all.gone = r.gone /\ all.job = DOMAIN disk
        /\ all.done = {} /\ all.cur = {} /\ all.acc = _empty_cache
    BY <1>2, NoIndexFacts DEF Processes, PCs
  <2>2. Becomes(p, all)
    BY <1>1, <1>6
  <2> HIDE DEF all
  <2>4. proc'[p] = all
    BY <2>1, <2>2, Known, StepOf
  <2>5. AccOf(p)' /\ CarryOK(p)' /\ AbsentOK(p)'
    BY <1>6, <2>1, <2>4, NoIndexFacts DEF AccOf, Owned, CarryOK, AbsentOK
  <2>6. FullOK(p)'
    BY <1>1, <2>1, <2>4, NoIndexFacts DEF FullOK, Untouched, Exists
  <2> QED
    BY <1>2, <1>5, <1>6, <2>1, <2>2, <2>5, <2>6
<1>7. CASE ~r.full
  <2>1. /\ part \in Processes /\ part.pc = "parse" /\ part.call = r.call /\ part.full = r.full
        /\ part.todo = r.todo /\ part.gone = r.gone /\ part.job = r.job
        /\ part.done = {} /\ part.cur = {} /\ part.acc = taken
    BY <1>2, <1>4 DEF Processes, PCs
  <2>2. Becomes(p, part)
    BY <1>1, <1>7
  <2> HIDE DEF part
  <2>3. proc'[p] = part
    BY <2>1, <2>2, Known, StepOf
  <2>4. AccOf(p)'
    <3>1. Owned(taken)
      BY <1>3, <1>4 DEF Owned, OfOthers
    <3>2. ASSUME NEW f \in DOMAIN taken.files, EntryOK(old, f) PROVE EntryOK(taken, f)
      BY <1>4, <3>2 DEF EntryOK, OfOthers
    <3>3. \A f \in DOMAIN taken.files : f \in why.hidden \/ EntryOK(taken, f)
      BY <1>3, <1>4, <3>2
    <3> QED
      BY <1>1, <1>4, <2>1, <2>3, <3>1, <3>3 DEF AccOf, Owned, EntryOK, Exists
  <2>5. CarryOK(p)'
    <3>1. ASSUME index.here, NEW f \in Files \ r.job PROVE Same(taken, index, f)
      BY <1>3, <1>4, <3>1 DEF Same, OfOthers
    <3> QED
      BY <1>1, <2>1, <2>3, <3>1 DEF CarryOK, Untouched, Same
  <2>6. FullOK(p)' /\ AbsentOK(p)'
    BY <1>1, <1>3, <1>4, <1>7, <2>1, <2>3 DEF FullOK, AbsentOK, Exists
  <2> QED
    BY <1>2, <1>5, <1>7, <2>1, <2>2, <2>4, <2>5, <2>6
<1> QED
  BY <1>2, <1>6, <1>7

\* A step within the pass: of what it does not look at, acc says what it said.
LEMMA PassStep ==
  ASSUME IInv, NEW p \in Procs, NEW r \in Processes, Becomes(p, r),
         UNCHANGED <<disk, index, lock, why>>,
         Inside(p), r.pc \in {"parse", "stat", "hash"}, Shape(r),
         r.call = proc[p].call, r.full = proc[p].full,
         r.todo = proc[p].todo, r.gone = proc[p].gone,
         r.job \cup r.done = proc[p].job \cup proc[p].done, r.acc.here = proc[p].acc.here,
         \A f \in Untouched(p) : Same(r.acc, proc[p].acc, f),
         WindowOf(p)', AccOf(p)', ReadOK(p)'
  PROVE  IInv'
<1>1. /\ proc' \in [Procs -> Processes] /\ proc'[p] = r
      /\ \A q \in Procs : q # p => proc'[q] = proc[q]
  BY Known, StepOf
<1>2. p \in lock /\ Shape(proc[p]) /\ CarryOK(p) /\ FullOK(p) /\ AbsentOK(p)
  BY Known DEF Holds
<1>3. TypeOK'
  BY <1>1 DEF IInv, TypeOK
<1>4. Untouched(p)' = Untouched(p)
  BY <1>1 DEF Untouched
<1>5. \A f \in Files : Lost(p, f)' => Lost(p, f)
  BY <1>1, <1>4 DEF Lost, Parses, Exists
<1>6. Local(p)
  BY <1>1, <1>2, <1>5 DEF Local
<1>7. CarryOK(p)'
  BY <1>1, <1>2, <1>4 DEF CarryOK, Same
<1>8. FullOK(p)'
  BY <1>1, <1>2, <1>4 DEF FullOK, Same, Exists
<1>9. AbsentOK(p)'
  BY <1>1, <1>2 DEF AbsentOK, Exists
<1>10. Holds(p)'
  BY <1>1, <1>2, <1>7, <1>8, <1>9 DEF Holds, Inside
<1>11. ClaimOf(p)'
  <2>1. (Ensures(p)' => Ensures(p)) /\ (Stepwise(p)' => Stepwise(p))
    BY <1>1 DEF Ensures, Stepwise
  <2>2. proc[p].pc # "scan" /\ proc[p].cur \subseteq proc[p].done
    BY <1>2 DEF Inside, Shape
  <2>3. \A f \in Files : Pending(p, f) => Pending(p, f)'
    BY <1>1, <2>2 DEF Pending
  <2> QED
    BY <1>3, <1>6, <2>1, <2>3, ClaimStays DEF Stands
<1> QED
  BY <1>1, <1>3, <1>6, <1>10, <1>11, LocalStep DEF Own

LEMMA StepParse ==
  ASSUME IInv, NEW p \in Procs, Parse(p)
  PROVE  IInv'
<1> DEFINE r == proc[p]
           read(f) == [r EXCEPT !.job = @ \ {f}, !.done = @ \cup {f}]
           take(f) == [read(f) EXCEPT !.pc = "stat", !.cur = {f}, !.refs = disk[f].c.refs]
<1>1. r.pc = "parse" /\ UNCHANGED <<disk, index, lock, budget, why>>
  BY DEF Parse, At
<1>2. PICK f \in r.job : Becomes(p, IF ~Parses(f) THEN read(f) ELSE take(f))
  BY DEF Parse
<1>3. /\ r \in Processes /\ r.job \in SUBSET Files /\ r.done \in SUBSET Files /\ r.cur = {}
      /\ f \in Files /\ Shape(r) /\ Inside(p)
  BY <1>1, Known DEF Shape, Processes, Inside
<1>4. AccOf(p) /\ ReadOK(p)
  BY <1>3, Known DEF Holds
<1>5. f \notin DOMAIN r.acc.files /\ {e \in r.acc.edges : e[1] = f} = {}
  BY <1>4 DEF AccOf, Owned
<1>6. ASSUME NEW g \in r.done \ why.behind PROVE Right(r.acc, g)
  BY <1>3, <1>4, <1>6 DEF ReadOK
<1>7. \A g \in Untouched(p) : Same(r.acc, r.acc, g)
  BY DEF Same
<1>8. CASE ~Parses(f)
  <2> DEFINE d == read(f)
  <2>1. /\ d \in Processes /\ d.pc = "parse" /\ d.call = r.call /\ d.full = r.full
        /\ d.todo = r.todo /\ d.gone = r.gone /\ d.job = r.job \ {f}
        /\ d.done = r.done \cup {f} /\ d.cur = {} /\ d.acc = r.acc
    BY <1>1, <1>3 DEF Processes, PCs
  <2>2. Becomes(p, d)
    BY <1>2, <1>8
  <2> HIDE DEF d
  <2>3. proc'[p] = d
    BY <2>1, <2>2, Known, StepOf
  <2>4. Shape(d) /\ WindowOf(p)'
    BY <1>3, <2>1, <2>3 DEF Shape, WindowOf
  <2>5. AccOf(p)'
    BY <1>1, <1>4, <2>1, <2>3 DEF AccOf, Owned, EntryOK, Exists
  <2>6. Right(r.acc, f)
    BY <1>5, <1>8 DEF Right
  <2>7. ReadOK(p)'
    BY <1>1, <1>6, <2>1, <2>3, <2>6 DEF ReadOK, Right, Parses, Exists
  <2> QED
    BY <1>1, <1>3, <1>7, <2>1, <2>2, <2>4, <2>5, <2>7, PassStep
<1>9. CASE Parses(f)
  <2> DEFINE d == take(f)
  <2>1. disk[f].c.refs \in SUBSET Files
    BY <1>9, DiskFacts, ContentFacts DEF Parses, Exists, IInv, TypeOK
  <2>2. /\ d \in Processes /\ d.pc = "stat" /\ d.call = r.call /\ d.full = r.full
        /\ d.todo = r.todo /\ d.gone = r.gone /\ d.job = r.job \ {f}
        /\ d.done = r.done \cup {f} /\ d.cur = {f} /\ d.acc = r.acc
        /\ d.refs = disk[f].c.refs
    BY <1>1, <1>3, <2>1 DEF Processes, PCs
  <2>3. Becomes(p, d)
    BY <1>2, <1>9
  <2> HIDE DEF d
  <2>4. proc'[p] = d
    BY <2>2, <2>3, Known, StepOf
  <2>5. Shape(d)
    BY <1>3, <2>2 DEF Shape
  <2>6. ReadOf(p, f)' /\ WindowOf(p)'
    BY <1>1, <1>9, <2>2, <2>4 DEF WindowOf, ReadOf, Parses, Exists
  <2>7. AccOf(p)'
    BY <1>1, <1>4, <1>5, <2>2, <2>4 DEF AccOf, Owned, EntryOK, Exists
  <2>8. ReadOK(p)'
    BY <1>1, <1>6, <2>2, <2>4, <2>6 DEF ReadOK, Right, Parses, Exists
  <2> QED
    BY <1>1, <1>3, <1>7, <2>2, <2>3, <2>5, <2>6, <2>7, <2>8, PassStep
<1> QED
  BY <1>8, <1>9

LEMMA StepStat ==
  ASSUME IInv, NEW p \in Procs, Stat(p)
  PROVE  IInv'
<1> DEFINE r == proc[p]
<1>1. r.pc = "stat" /\ UNCHANGED <<disk, index, budget>>
  BY DEF Stat, At
<1>2. PICK f \in r.cur : \/ /\ Exists(f) /\ UNCHANGED <<lock, why>>
                            /\ Becomes(p, [r EXCEPT !.pc = "hash", !.m = disk[f].m])
                         \/ Fails(p)
  BY DEF Stat
<1>3. CASE Fails(p)
  BY <1>1, <1>3, FailsStep
<1>4. CASE ~Fails(p)
  <2> DEFINE d == [r EXCEPT !.pc = "hash", !.m = disk[f].m]
  <2>1. r \in Processes /\ Shape(r) /\ Inside(p) /\ WindowOf(p)
    BY <1>1, Known DEF Inside
  <2>2. r.cur = {f} /\ Exists(f) /\ disk[f].m \in Nat
    BY <1>1, <1>2, <1>4, <2>1, DiskFacts DEF Shape, Exists, IInv, TypeOK
  <2>3. /\ d \in Processes /\ d.pc = "hash" /\ d.call = r.call /\ d.full = r.full
        /\ d.todo = r.todo /\ d.gone = r.gone /\ d.job = r.job
        /\ d.done = r.done /\ d.cur = r.cur /\ d.acc = r.acc
        /\ d.refs = r.refs /\ d.m = disk[f].m
    BY <2>1, <2>2 DEF Processes, PCs
  <2>4. Becomes(p, d) /\ UNCHANGED <<disk, index, lock, why>>
    BY <1>1, <1>2, <1>4
  <2> HIDE DEF d
  <2>5. proc'[p] = d
    BY <2>3, <2>4, Known, StepOf
  <2>6. Shape(d)
    BY <1>1, <2>1, <2>3 DEF Shape
  <2>7. WindowOf(p)'
    BY <1>1, <2>1, <2>2, <2>3, <2>4, <2>5 DEF WindowOf, ReadOf, Parses, Exists
  <2>8. AccOf(p) /\ ReadOK(p)
    BY <2>1, Known DEF Holds
  <2>9. AccOf(p)'
    BY <2>3, <2>4, <2>5, <2>8 DEF AccOf, Owned, EntryOK, Exists
  <2>10. ReadOK(p)'
    BY <2>3, <2>4, <2>5, <2>8 DEF ReadOK, ReadOf, Right, Parses, Exists
  <2>11. \A g \in Untouched(p) : Same(d.acc, r.acc, g)
    BY <2>3 DEF Same
  <2> QED
    BY <2>1, <2>3, <2>4, <2>6, <2>7, <2>9, <2>10, <2>11, PassStep
<1> QED
  BY <1>3, <1>4

LEMMA StepHash ==
  ASSUME IInv, NEW p \in Procs, Hash(p)
  PROVE  IInv'
<1> DEFINE r == proc[p]
           taken(f) == [r EXCEPT !.pc = "parse", !.cur = {},
                          !.acc.files = With(@, f, [sha |-> disk[f].c, m |-> r.m]),
                          !.acc.edges = @ \cup EdgesOf(f, r.refs)]
<1>1. r.pc = "hash" /\ UNCHANGED <<disk, index, budget>>
  BY DEF Hash, At
<1>2. PICK f \in r.cur : \/ /\ Exists(f) /\ UNCHANGED <<lock, why>>
                            /\ Becomes(p, taken(f))
                         \/ Fails(p)
  BY DEF Hash
<1>3. CASE Fails(p)
  BY <1>1, <1>3, FailsStep
<1>4. CASE ~Fails(p)
  <2> DEFINE print == [sha |-> disk[f].c, m |-> r.m]
             files == With(r.acc.files, f, print)
             edges == r.acc.edges \cup EdgesOf(f, r.refs)
             d == taken(f)
  <2>1. /\ r \in Processes /\ Shape(r) /\ Inside(p) /\ WindowOf(p)
        /\ AccOf(p) /\ ReadOK(p)
    BY <1>1, Known DEF Inside, Holds
  <2>2. /\ r.cur = {f} /\ f \in Files /\ Exists(f) /\ f \in r.done /\ f \notin r.job
        /\ r.acc \in Index /\ r.refs \in SUBSET Files
    BY <1>1, <1>2, <1>4, <2>1 DEF Shape, Processes
  <2>3. print \in Fingerprint /\ print.sha = disk[f].c /\ print.m = r.m
    BY <2>1, <2>2, DiskFacts DEF Fingerprint, Exists, IInv, TypeOK, Processes
  <2> HIDE DEF print
  <2>4. /\ files \in Fingerprints /\ edges \in SUBSET (Files \X Files)
        /\ DOMAIN files = DOMAIN r.acc.files \cup {f} /\ files[f] = print
        /\ \A g \in DOMAIN r.acc.files : g # f => files[g] = r.acc.files[g]
    <3>1. r.acc.files \in Fingerprints /\ r.acc.edges \in SUBSET (Files \X Files)
      BY <2>2 DEF Index
    <3>2. files \in Fingerprints
      BY <2>2, <2>3, <3>1, WithPrints
    <3>3. edges \in SUBSET (Files \X Files)
      BY <2>2, <3>1 DEF EdgesOf
    <3> QED
      BY <3>2, <3>3 DEF With
  <2>5. Becomes(p, d) /\ UNCHANGED <<disk, index, lock, why>>
    BY <1>1, <1>2, <1>4
  <2>6. d = [r EXCEPT !.pc = "parse", !.cur = {},
               !.acc = [r.acc EXCEPT !.files = files, !.edges = edges]]
    BY <2>1, <2>2 DEF Processes, Index, print
  <2> HIDE DEF files, edges, d
  <2> DEFINE acc == [r.acc EXCEPT !.files = files, !.edges = edges]
  <2>7. acc \in Index /\ acc.here = r.acc.here /\ acc.files = files /\ acc.edges = edges
    BY <2>2, <2>4 DEF Index
  <2>8. /\ d \in Processes /\ d.pc = "parse" /\ d.call = r.call /\ d.full = r.full
        /\ d.todo = r.todo /\ d.gone = r.gone /\ d.job = r.job
        /\ d.done = r.done /\ d.cur = {} /\ d.acc = acc
    <3> HIDE DEF acc
    <3>1. d = [r EXCEPT !.pc = "parse", !.cur = {}, !.acc = acc]
      BY <2>6 DEF acc
    <3> QED
      BY <2>1, <2>7, <3>1 DEF Processes, PCs
  <2> HIDE DEF acc
  <2>9. proc'[p] = d
    BY <2>5, <2>8, Known, StepOf
  <2>10. Shape(d) /\ WindowOf(p)'
    BY <1>1, <2>1, <2>8, <2>9 DEF Shape, WindowOf
  <2>11. f \notin DOMAIN r.acc.files /\ Owned(r.acc)
    BY <2>1, <2>2 DEF AccOf
  <2>12. ASSUME NEW g \in Files, g # f
         PROVE  {e \in edges : e[1] = g} = {e \in r.acc.edges : e[1] = g}
    BY <2>12 DEF edges, EdgesOf
  <2>13. {e \in edges : e[1] = f} = EdgesOf(f, r.refs)
    BY <2>11 DEF edges, EdgesOf, Owned
  <2>14. Owned(acc)
    BY <2>4, <2>7, <2>11 DEF Owned, edges, EdgesOf
  <2>15. AccOf(p)'
    <3>1. f \in why.torn[p] \/ EntryOK(acc, f)
      <4>1. CASE f \notin why.torn[p]
        <5>1. Parses(f) /\ r.refs = disk[f].c.refs /\ r.m = disk[f].m
          BY <1>1, <2>1, <2>2, <4>1 DEF WindowOf, ReadOf
        <5> QED
          BY <2>3, <2>4, <2>7, <2>13, <5>1 DEF EntryOK, Parses
      <4> QED
        BY <4>1
    <3>2. ASSUME NEW g \in DOMAIN r.acc.files, EntryOK(r.acc, g) PROVE EntryOK(acc, g)
      <4>1. g # f /\ g \in Files
        BY <2>2, <2>11, <3>2, PrintFacts DEF Index
      <4> QED
        BY <2>4, <2>7, <2>12, <3>2, <4>1 DEF EntryOK
    <3>3. \A g \in DOMAIN acc.files : g \in why.hidden \cup why.torn[p] \/ EntryOK(acc, g)
      BY <2>1, <2>4, <2>7, <3>1, <3>2 DEF AccOf
    <3>4. \A g \in DOMAIN acc.files : g \notin r.job
      BY <2>1, <2>2, <2>4, <2>7 DEF AccOf
    <3> QED
      BY <2>5, <2>8, <2>9, <2>14, <3>3, <3>4 DEF AccOf, Owned, EntryOK, Exists
  <2>16. ReadOK(p)'
    <3>1. ASSUME f \notin why.behind PROVE Right(acc, f)
      <4>1. ReadOf(p, f)
        BY <2>1, <2>2, <3>1 DEF ReadOK
      <4> QED
        BY <2>4, <2>7, <2>13, <4>1 DEF Right, ReadOf
    <3>2. ASSUME NEW g \in r.done \ why.behind, g # f PROVE Right(acc, g)
      <4>1. Right(r.acc, g) /\ g \in Files
        BY <2>1, <2>2, <3>2 DEF ReadOK, Processes
      <4> QED
        BY <2>4, <2>7, <2>12, <3>2, <4>1 DEF Right
    <3>3. \A g \in r.done \ why.behind : Right(acc, g)
      BY <3>1, <3>2
    <3> QED
      BY <2>5, <2>8, <2>9, <3>3 DEF ReadOK, Right, Parses, Exists
  <2>17. \A g \in Untouched(p) : Same(d.acc, r.acc, g)
    <3>1. \A g \in Untouched(p) : g \in Files /\ g # f
      BY <2>2 DEF Untouched
    <3> QED
      BY <2>4, <2>7, <2>8, <2>12, <3>1 DEF Same
  <2> QED
    BY <2>1, <2>5, <2>7, <2>8, <2>10, <2>15, <2>16, <2>17, PassStep
<1> QED
  BY <1>3, <1>4

-----------------------------------------------------------------------------
(* The steps that change the index.                                        *)

\* A faithful entry is of one content; and an entry of the content of its file is right.
LEMMA FaithfulFacts ==
  ASSUME NEW ix, NEW f, Faithful(ix, f)
  PROVE  Right(ix, f) /\ (f \in DOMAIN ix.files => EntryOK(ix, f))
BY DEF Faithful, Right, EntryOK, Parses

LEMMA HiddenFacts ==
  ASSUME IInv, NEW p \in Procs, NEW ix, NEW torn \in SUBSET Files, Indexed(p, ix, torn)
  PROVE  /\ why' \in Histories
         /\ why'.since = why.since /\ why'.late = why.late /\ why'.wiped = why.wiped
         /\ \A q \in Procs : q # p => why'.torn[q] = why.torn[q]
         /\ why'.behind = IF lock = {p} THEN {} ELSE why.behind
         /\ \A f \in Files : f \in why'.hidden <=>
              f \in why.hidden \cup torn /\ ~Faithful(ix, f)
<1>1. why \in Histories
  BY Known
<1> DEFINE hidden == {f \in why.hidden \cup torn : ~Faithful(ix, f)}
<1>2. why' = [why EXCEPT !.torn[p] = {}, !.behind = IF lock = {p} THEN {} ELSE @,
                         !.hidden = hidden]
  BY DEF Indexed
<1>3. hidden \in SUBSET Files
  BY <1>1 DEF Histories
<1> HIDE DEF hidden
<1>4. /\ why' \in Histories
      /\ why'.since = why.since /\ why'.late = why.late /\ why'.wiped = why.wiped
      /\ \A q \in Procs : q # p => why'.torn[q] = why.torn[q]
      /\ why'.behind = IF lock = {p} THEN {} ELSE why.behind
      /\ why'.hidden = hidden
  BY <1>1, <1>2, <1>3 DEF Histories
<1> QED
  BY <1>4 DEF hidden

\* What a change of the index has to keep for those who do not make it.
LEMMA IndexStep ==
  ASSUME IInv, TypeOK', NEW p \in Procs, Own(p)', EntryInv',
         disk' = disk, lock' = {}, index.here => index'.here, lock \subseteq {p},
         why'.since = why.since, why'.late = why.late, why'.wiped = why.wiped,
         \A q \in Procs : q # p => proc'[q] = proc[q] /\ why'.torn[q] = why.torn[q],
         why'.behind \subseteq why.behind,
         \A f \in Files \ why.behind :
           index.here /\ Solid(f) => f \in why'.hidden \/ Right(index, f)'
  PROVE  IInv'
<1>1. ASSUME NEW q \in Procs, q # p PROVE Own(q)'
  <2>1. /\ Shape(proc[q]) /\ WindowOf(q) /\ ClaimOf(q) /\ Holds(q)
        /\ q \notin lock
    BY <1>1, Known
  <2>2. proc'[q] = proc[q] /\ why'.torn[q] = why.torn[q]
    BY <1>1
  <2>3. WindowOf(q)'
    BY <2>1, <2>2 DEF WindowOf, ReadOf, Parses, Exists
  <2>4. Holds(q)'
    BY <2>1, <2>2 DEF Holds, Inside
  <2>5. ClaimOf(q)'
    <3>1. (Ensures(q)' => Ensures(q)) /\ (Stepwise(q)' => Stepwise(q)) /\ Stands(q)' = Stands(q)
      BY <2>2 DEF Ensures, Stepwise, Stands
    <3>2. \A f \in Files : Pending(q, f) => Pending(q, f)'
      BY <2>2 DEF Pending, Exists, Newer
    <3>3. ASSUME Stepwise(q), NEW f \in Stands(q), Solid(f) PROVE Solid(f)'
      <4>1. f \in Files \ why.behind /\ index.here
        BY <2>1, <3>3 DEF ClaimOf, Stands, Stepwise
      <4> QED
        BY <3>3, <4>1 DEF Solid
    <3>4. Stands(q) \subseteq Files
      BY DEF Stands
    <3> QED
      BY <2>1, <3>1, <3>2, <3>3, <3>4 DEF ClaimOf
  <2> QED
    BY <2>1, <2>2, <2>3, <2>4, <2>5 DEF Own
<1>2. \A q \in Procs : Own(q)'
  BY <1>1
<1> QED
  BY <1>2 DEF IInv

LEMMA StepSave ==
  ASSUME IInv, NEW p \in Procs, Save(p)
  PROVE  IInv'
<1> DEFINE r == proc[p]
           acc == r.acc
<1>1. /\ r.pc = "parse" /\ r.job = {} /\ disk' = disk /\ lock' = {} /\ Becomes(p, After(r))
      /\ index' = (IF acc.here THEN acc ELSE index)
      /\ Indexed(p, index', why.torn[p])
  BY DEF Save, At
<1>2. /\ r \in Processes /\ acc \in Index /\ r.cur = {} /\ r.done \in SUBSET Files
      /\ Shape(r) /\ ClaimOf(p)
      /\ p \in lock /\ lock = {p} /\ AccOf(p) /\ ReadOK(p) /\ CarryOK(p) /\ FullOK(p) /\ AbsentOK(p)
      /\ why.torn[p] \in SUBSET Files
  <2>1. /\ r \in Processes /\ Shape(r) /\ ClaimOf(p) /\ Holds(p) /\ Inside(p)
        /\ \A q \in lock : p \in lock => q = p
        /\ why \in Histories
    BY <1>1, Known DEF Inside
  <2> QED
    BY <1>1, <2>1 DEF Holds, Shape, Processes, Histories
<1>3. EntryInv
  BY DEF IInv
<1>4. /\ why' \in Histories
      /\ why'.since = why.since /\ why'.late = why.late /\ why'.wiped = why.wiped
      /\ \A q \in Procs : q # p => why'.torn[q] = why.torn[q]
      /\ why'.behind = {}
      /\ \A f \in Files : f \in why'.hidden <=>
           f \in why.hidden \cup why.torn[p] /\ ~Faithful(index', f)
  BY <1>1, <1>2, HiddenFacts
<1>5. /\ After(r) \in Processes /\ After(r).job = {} /\ After(r).done = {}
      /\ After(r).cur = {} /\ After(r).full = FALSE
      /\ After(r).pc \in {"idle", "next", "return"}
      /\ After(r).call = "ensure" => /\ r.call = "ensure" /\ After(r).todo = r.todo
                                     /\ After(r).gone = r.gone
      /\ After(r).call # "ensure" => After(r) = Idle
      /\ After(r).pc = "idle" => After(r) = Idle
      /\ After(r).pc = "return" => r.full
  <2>1. CASE r.call = "ensure"
    <3> DEFINE d == [r EXCEPT !.pc = IF r.full THEN "return" ELSE "next", !.acc = NoIndex,
                              !.full = FALSE, !.done = {}, !.refs = {}, !.m = 0]
    <3>1. After(r) = d
      BY <2>1 DEF After
    <3>2. /\ d \in Processes /\ d.job = {} /\ d.done = {} /\ d.cur = {} /\ d.full = FALSE
          /\ d.call = r.call /\ d.todo = r.todo /\ d.gone = r.gone
          /\ d.pc = IF r.full THEN "return" ELSE "next"
      BY <1>1, <1>2, NoIndexFacts DEF Processes, PCs
    <3> HIDE DEF d
    <3> QED
      BY <2>1, <3>1, <3>2
  <2>2. CASE r.call # "ensure"
    <3>1. After(r) = Idle
      BY <2>2 DEF After
    <3> QED
      BY <3>1, IdleFacts
  <2> QED
    BY <2>1, <2>2
<1>6. /\ proc' \in [Procs -> Processes] /\ proc'[p] = After(r)
      /\ \A q \in Procs : q # p => proc'[q] = proc[q]
  BY <1>1, <1>5, Known, StepOf
<1>7. TypeOK'
  BY <1>1, <1>2, <1>4, <1>6 DEF IInv, TypeOK
<1>8. ASSUME NEW f \in Files PROVE Right(index', f) => Right(index, f)'
  BY <1>1 DEF Right, Parses, Exists
<1>9. EntryInv'
  <2>1. Owned(index') /\ (~index'.here => DOMAIN index'.files = {})
    BY <1>1, <1>2, <1>3 DEF EntryInv, AccOf
  <2>2. ASSUME NEW f \in DOMAIN index'.files PROVE f \in why'.hidden \/ EntryOK(index', f)
    <3>1. f \in Files
      BY <1>7, <2>2, PrintFacts DEF TypeOK, Index
    <3>2. f \in why.hidden \cup why.torn[p] \/ EntryOK(index', f)
      BY <1>1, <1>2, <1>3, <2>2 DEF EntryInv, AccOf
    <3> QED
      BY <1>4, <2>2, <3>1, <3>2, FaithfulFacts
  <2> QED
    BY <1>1, <2>1, <2>2 DEF EntryInv, Owned, EntryOK, Exists
\* What the holder has read, and what it has not looked at.
<1>10. ASSUME NEW f \in r.done \ why.behind PROVE Right(acc, f)
  BY <1>2, <1>10 DEF ReadOK
<1>11. ASSUME NEW f \in Files \ why.behind, index.here, Solid(f)
       PROVE  f \in why'.hidden \/ Right(index', f)
  <2>1. CASE f \in why.hidden
    BY <1>4, <2>1, FaithfulFacts
  <2>2. CASE Right(index, f) /\ ~Lost(p, f) /\ ~acc.here
    BY <1>1, <2>2
  <2>3. CASE Right(index, f) /\ ~Lost(p, f) /\ acc.here
    <3>1. CASE f \in r.done
      BY <1>1, <1>10, <1>11, <2>3, <3>1
    <3>2. CASE f \notin r.done /\ ~r.full
      <4>1. Same(acc, index, f)
        BY <1>1, <1>2, <1>11, <3>2 DEF CarryOK, Untouched
      <4> QED
        BY <1>1, <2>3, <4>1 DEF Same, Right
    <3>3. CASE f \notin r.done /\ r.full
      <4>1. f \notin DOMAIN acc.files /\ ~Parses(f)
        BY <1>1, <1>2, <2>3, <3>3 DEF FullOK, Lost, Untouched
      <4> QED
        BY <1>1, <1>2, <2>3, <4>1 DEF AccOf, Owned, Right
    <3> QED
      BY <1>2, <3>1, <3>2, <3>3 DEF Processes
  <2> QED
    BY <1>2, <1>11, <2>1, <2>2, <2>3 DEF Solid
<1>12. ClaimOf(p)'
  <2>1. ASSUME Stepwise(p)', NEW f \in Stands(p), ~Pending(p, f)'
        PROVE  index'.here /\ (f \in why'.hidden \/ Right(index', f))
    <3>1. /\ r.call = "ensure" /\ p \notin why.wiped /\ f \in Files \ why.behind
          /\ f \notin why.since[p] /\ f \notin r.todo \cup r.gone
      BY <1>2, <1>4, <1>5, <1>6, <2>1, IdleFacts
         DEF Stepwise, Ensures, Stands, ClaimOf, Pending
    <3>2. CASE r.full
      <4>1. index' = acc /\ acc.here
        BY <1>1, <1>2, <3>2 DEF FullOK
      <4>2. CASE f \notin r.done
        <5>1. f \notin DOMAIN acc.files /\ ~Exists(f)
          BY <1>1, <1>2, <3>1, <3>2, <4>2 DEF FullOK, Untouched
        <5> QED
          BY <1>2, <4>1, <5>1 DEF AccOf, Owned, Right, Parses
      <4> QED
        BY <1>10, <3>1, <4>1, <4>2
    <3>3. CASE ~r.full
      <4>1. index.here /\ index'.here /\ (Pending(p, f) \/ Solid(f))
        BY <1>1, <1>2, <2>1, <3>1, <3>3 DEF ClaimOf, Stepwise, Ensures
      <4>2. CASE Pending(p, f)
        <5>1. f \in r.done
          BY <1>1, <1>2, <3>1, <4>2 DEF Pending
        <5>2. CASE acc.here
          BY <1>1, <1>10, <3>1, <4>1, <5>1, <5>2
        <5>3. CASE ~acc.here
          <6>1. f \notin DOMAIN index.files /\ ~Exists(f)
            BY <1>2, <3>1, <5>1, <5>3 DEF AbsentOK
          <6> QED
            BY <1>1, <1>3, <4>1, <5>3, <6>1 DEF EntryInv, Owned, Right, Parses
        <5> QED
          BY <5>2, <5>3
      <4> QED
        BY <1>11, <3>1, <4>1, <4>2
    <3> QED
      BY <1>2, <3>2, <3>3 DEF Processes
  <2>2. ASSUME Stepwise(p)' PROVE index'.here
    <3>1. r.call = "ensure" /\ p \notin why.wiped
      BY <1>4, <1>5, <1>6, <2>2, IdleFacts DEF Stepwise, Ensures
    <3>2. CASE r.full
      BY <1>1, <1>2, <3>2 DEF FullOK
    <3>3. CASE ~r.full
      BY <1>1, <1>2, <3>1, <3>3 DEF ClaimOf, Stepwise, Ensures
    <3> QED
      BY <3>2, <3>3
  <2>3. Stands(p)' = Stands(p)
    BY <1>4 DEF Stands
  <2>4. \A f \in Files : f \in why'.hidden \/ Right(index', f) => Solid(f)'
    BY <1>1, <1>8 DEF Solid
  <2> QED
    BY <1>4, <2>1, <2>2, <2>3, <2>4 DEF ClaimOf, Stands
<1>13. Own(p)'
  <2>1. Shape(After(r))
    BY <1>2, <1>5, IdleFacts DEF Shape
  <2>2. WindowOf(p)' /\ Holds(p)'
    BY <1>1, <1>5, <1>6 DEF WindowOf, Holds, Inside
  <2> QED
    BY <1>6, <1>12, <2>1, <2>2 DEF Own
<1> QED
  BY <1>1, <1>2, <1>4, <1>6, <1>7, <1>8, <1>9, <1>11, <1>13, IndexStep

\* p has done with f: the index goes from index to ix, which differ in the mtime of the
\* entry of f at most.
LEMMA RefreshedStep ==
  ASSUME IInv, NEW p \in Procs, NEW f \in Files, NEW torn \in SUBSET Files,
         proc[p].pc = "refresh", proc[p].cur = {f}, lock = {}, lock' = {}, disk' = disk,
         Becomes(p, [proc[p] EXCEPT !.pc = "next", !.cur = {}]),
         index' \in Index, index'.here = index.here, index'.edges = index.edges,
         DOMAIN index'.files = DOMAIN index.files,
         \A g \in DOMAIN index.files : g # f => index'.files[g] = index.files[g],
         Indexed(p, index', torn),
         f \in torn \/ (f \in DOMAIN index.files /\ EntryOK(index', f) /\ Right(index', f))
           \/ (f \in DOMAIN index.files /\ f \in why.hidden)
  PROVE  IInv'
<1> DEFINE d == [proc[p] EXCEPT !.pc = "next", !.cur = {}]
<1>1. /\ proc[p] \in Processes /\ Shape(proc[p]) /\ ClaimOf(p) /\ EntryInv
      /\ proc[p].call = "ensure" /\ ~proc[p].full /\ proc[p].job = {} /\ proc[p].done = {}
  BY Known DEF Shape, IInv
<1>2. /\ d \in Processes /\ d.pc = "next" /\ d.call = "ensure" /\ ~d.full
      /\ d.todo = proc[p].todo /\ d.gone = proc[p].gone
      /\ d.job = {} /\ d.done = {} /\ d.cur = {}
  BY <1>1 DEF Processes, PCs
<1>3. Becomes(p, d)
  OBVIOUS
<1> HIDE DEF d
<1>4. /\ proc' \in [Procs -> Processes] /\ proc'[p] = d
      /\ \A q \in Procs : q # p => proc'[q] = proc[q]
  BY <1>2, <1>3, Known, StepOf
<1>5. /\ why' \in Histories
      /\ why'.since = why.since /\ why'.late = why.late /\ why'.wiped = why.wiped
      /\ \A q \in Procs : q # p => why'.torn[q] = why.torn[q]
      /\ why'.behind = why.behind
      /\ \A g \in Files : g \in why'.hidden <=>
           g \in why.hidden \cup torn /\ ~Faithful(index', g)
  BY HiddenFacts
<1>6. TypeOK'
  BY <1>4, <1>5 DEF IInv, TypeOK
<1>7. ASSUME NEW g \in Files, Right(index, g) PROVE Right(index', g)
  BY <1>7 DEF Right
<1>8. ASSUME NEW g \in Files, Right(index', g) PROVE Right(index, g)'
  BY <1>8 DEF Right, Parses, Exists
<1>9. ASSUME NEW g \in Files, Solid(g) PROVE g \in why'.hidden \/ Right(index, g)'
  BY <1>5, <1>7, <1>8, <1>9, FaithfulFacts DEF Solid
<1>10. f \in why'.hidden \/ Right(index, f)'
  BY <1>5, <1>8, FaithfulFacts
<1>11. EntryInv'
  <2>1. Owned(index') /\ (~index'.here => DOMAIN index'.files = {})
    BY <1>1 DEF EntryInv, Owned
  <2>2. ASSUME NEW g \in DOMAIN index'.files PROVE g \in why'.hidden \/ EntryOK(index', g)
    <3>1. g \in Files
      BY <1>6, <2>2, PrintFacts DEF TypeOK, Index
    <3>2. g \in why.hidden \cup torn \/ EntryOK(index', g)
      <4>1. CASE g = f
        BY <4>1
      <4>2. CASE g # f
        <5>1. g \in why.hidden \/ EntryOK(index, g)
          BY <1>1, <2>2 DEF EntryInv
        <5> QED
          BY <2>2, <4>2, <5>1 DEF EntryOK
      <4> QED
        BY <4>1, <4>2
    <3> QED
      BY <1>5, <2>2, <3>1, <3>2, FaithfulFacts
  <2> QED
    BY <2>1, <2>2 DEF EntryInv, Owned, EntryOK, Exists
<1>12. ClaimOf(p)'
  <2>1. /\ (Ensures(p)' => Ensures(p)) /\ (Stepwise(p)' => Stepwise(p))
        /\ Stands(p)' = Stands(p) /\ Stands(p) \subseteq Files
    BY <1>1, <1>4, <1>5 DEF Ensures, Stepwise, Stands
  <2>2. ASSUME NEW g \in Files, Pending(p, g) PROVE Pending(p, g)' \/ g = f
    BY <1>1, <1>2, <1>4, <2>2 DEF Pending
  <2>3. ASSUME NEW g \in Files, g \in why'.hidden \/ Right(index, g)' PROVE Solid(g)'
    BY <2>3 DEF Solid
  <2>4. ASSUME NEW g \in Files, Pending(p, g) \/ Solid(g) PROVE Pending(p, g)' \/ Solid(g)'
    BY <1>9, <1>10, <2>2, <2>3, <2>4
  <2> QED
    BY <1>1, <1>5, <2>1, <2>4 DEF ClaimOf
<1>13. Own(p)'
  <2>1. Shape(d)
    BY <1>2 DEF Shape
  <2>2. WindowOf(p)' /\ Holds(p)'
    BY <1>2, <1>4 DEF WindowOf, Holds, Inside
  <2> QED
    BY <1>4, <1>12, <2>1, <2>2 DEF Own
<1> QED
  BY <1>4, <1>5, <1>6, <1>9, <1>11, <1>13, IndexStep

LEMMA StepRefresh ==
  ASSUME IInv, NEW p \in Procs, Refresh(p)
  PROVE  IInv'
<1> DEFINE r == proc[p]
           d == [r EXCEPT !.pc = "next", !.cur = {}]
           ix(f) == [index EXCEPT !.files[f].m = disk[f].m]
<1>1. r.pc = "refresh" /\ lock = {} /\ disk' = disk
  BY DEF Refresh, At
<1>2. PICK f \in r.cur :
        \/ /\ f \notin DOMAIN index.files /\ Becomes(p, d)
           /\ Indexed(p, index, {f}) /\ index' = index /\ lock' = lock
        \/ Fails(p) /\ index' = index
        \/ /\ f \in DOMAIN index.files /\ Exists(f) /\ index' = ix(f) /\ Becomes(p, d)
           /\ Indexed(p, index', why.torn[p] \cup {g \in {f} : Crossed(p, g)})
           /\ lock' = lock
  BY DEF Refresh
<1>3. /\ Shape(r) /\ WindowOf(p) /\ EntryInv /\ index \in Index /\ why \in Histories
      /\ why.torn[p] \in SUBSET Files
  BY Known DEF IInv, Histories
<1>4. r.cur = {f} /\ f \in Files
  BY <1>1, <1>2, <1>3 DEF Shape
<1>5. CASE Fails(p) /\ index' = index
  BY <1>1, <1>5, FailsStep
<1>6. CASE /\ f \notin DOMAIN index.files /\ Becomes(p, d)
           /\ Indexed(p, index, {f}) /\ index' = index /\ lock' = lock
  <2>1. Indexed(p, index', {f})
    BY <1>6
  <2> QED
    BY <1>1, <1>3, <1>4, <1>6, <2>1, RefreshedStep
<1>7. CASE /\ f \in DOMAIN index.files /\ Exists(f) /\ index' = ix(f) /\ Becomes(p, d)
           /\ Indexed(p, index', why.torn[p] \cup {g \in {f} : Crossed(p, g)})
           /\ lock' = lock
  <2> DEFINE torn == why.torn[p] \cup {g \in {f} : Crossed(p, g)}
             print == [index.files[f] EXCEPT !.m = disk[f].m]
             files == [index.files EXCEPT ![f] = print]
  <2>1. index.files \in Fingerprints /\ disk[f].m \in Nat /\ index.files[f] \in Fingerprint
    BY <1>3, <1>7, DiskFacts, PrintFacts DEF Index, Exists, IInv, TypeOK
  <2>2. print \in Fingerprint /\ print.sha = index.files[f].sha /\ print.m = disk[f].m
    BY <2>1 DEF Fingerprint
  <2> HIDE DEF print
  <2>3. /\ DOMAIN files = DOMAIN index.files /\ files[f] = print
        /\ \A g \in DOMAIN index.files : g # f => files[g] = index.files[g]
        /\ files \in Fingerprints
    <3>1. PICK D \in SUBSET Files : index.files \in [D -> Fingerprint]
      BY <2>1 DEF Fingerprints
    <3>2. files \in [D -> Fingerprint]
      BY <2>2, <3>1
    <3> QED
      BY <1>7, <3>1, <3>2, IsPrints
  <2>4. index' = [index EXCEPT !.files = files]
    BY <1>7 DEF print
  <2> HIDE DEF files
  <2>5. /\ index' \in Index /\ index'.here = index.here /\ index'.edges = index.edges
        /\ index'.files = files
    BY <1>3, <2>3, <2>4 DEF Index
  <2>6. f \in torn \/ f \in why.hidden \/ (EntryOK(index', f) /\ Right(index', f))
    <3>1. CASE f \notin torn /\ f \notin why.hidden
      <4>1. index.files[f].sha = r.seen.files[f].sha
        BY <3>1 DEF Crossed
      <4>2. disk[f].c = index.files[f].sha
        BY <1>1, <1>3, <1>4, <3>1, <4>1 DEF WindowOf
      <4>3. EntryOK(index, f)
        BY <1>3, <1>7, <3>1 DEF EntryInv
      <4>4. /\ f \in DOMAIN index'.files /\ index'.files[f].sha = disk[f].c
            /\ index'.edges = index.edges
        BY <1>7, <2>2, <2>3, <2>5, <4>2
      <4> QED
        BY <1>7, <4>2, <4>3, <4>4 DEF EntryOK, Right, Parses
    <3> QED
      BY <3>1
  <2>7. torn \in SUBSET Files
    BY <1>3, <1>4
  <2> HIDE DEF torn
  <2>8. Indexed(p, index', torn)
    BY <1>7 DEF torn
  <2> QED
    BY <1>1, <1>4, <1>7, <2>3, <2>5, <2>6, <2>7, <2>8, RefreshedStep
<1> QED
  BY <1>2, <1>5, <1>6, <1>7

-----------------------------------------------------------------------------
(* The steps of the world.                                                 *)

LEMMA WrittenFacts ==
  ASSUME IInv, NEW f \in Files, NEW m \in Nat, Written(f, m)
  PROVE  /\ why' \in Histories /\ why'.late = why.late /\ why'.wiped = why.wiped
         /\ \A p \in Procs : /\ why.torn[p] \subseteq why'.torn[p]
                             /\ why'.since[p] \subseteq why.since[p] \cup {f}
                             /\ ~At(p, "idle") => why'.since[p] = why.since[p] \cup {f}
                             /\ \/ InWindow(p, f)
                                \/ f \in DOMAIN proc[p].acc.files /\ m <= proc[p].acc.files[f].m
                                => f \in why'.torn[p]
         /\ why.hidden \subseteq why'.hidden
         /\ f \in DOMAIN index.files /\ m <= index.files[f].m => f \in why'.hidden
         /\ why.behind \subseteq why'.behind /\ why'.behind \subseteq why.behind \cup {f}
         /\ why'.behind # why.behind => \E p \in lock : f \in proc[p].done
         /\ \A p \in lock : f \in proc[p].done => f \in why'.behind
<1>1. why \in Histories
  BY Known DEF IInv, TypeOK
<1> DEFINE behind == IF \E p \in lock : f \in proc[p].done THEN why.behind \cup {f} ELSE why.behind
           since == [p \in Procs |-> IF At(p, "idle") THEN {} ELSE why.since[p] \cup {f}]
           torn == [p \in Procs |->
             IF \/ InWindow(p, f)
                \/ f \in DOMAIN proc[p].acc.files /\ m <= proc[p].acc.files[f].m
             THEN why.torn[p] \cup {f} ELSE why.torn[p]]
           hidden == IF f \in DOMAIN index.files /\ m <= index.files[f].m
                     THEN why.hidden \cup {f} ELSE why.hidden
<1>2. why' = [why EXCEPT !.behind = behind, !.since = since, !.torn = torn, !.hidden = hidden]
  BY DEF Written
<1>3. /\ behind \in SUBSET Files /\ since \in [Procs -> SUBSET Files]
      /\ torn \in [Procs -> SUBSET Files] /\ hidden \in SUBSET Files
  BY <1>1 DEF Histories
<1> HIDE DEF behind, since, torn, hidden
<1>4. /\ why' \in Histories /\ why'.late = why.late /\ why'.wiped = why.wiped
      /\ why'.behind = behind /\ why'.since = since /\ why'.torn = torn /\ why'.hidden = hidden
  BY <1>1, <1>2, <1>3 DEF Histories
<1>5. \A p \in Procs : /\ why.torn[p] \subseteq torn[p]
                       /\ \/ InWindow(p, f)
                          \/ f \in DOMAIN proc[p].acc.files /\ m <= proc[p].acc.files[f].m
                          => f \in torn[p]
  BY DEF torn
<1>6. \A p \in Procs : /\ since[p] \subseteq why.since[p] \cup {f}
                       /\ ~At(p, "idle") => since[p] = why.since[p] \cup {f}
  BY DEF since
<1>7. /\ why.hidden \subseteq hidden
      /\ f \in DOMAIN index.files /\ m <= index.files[f].m => f \in hidden
  BY DEF hidden
<1>8. /\ why.behind \subseteq behind /\ behind \subseteq why.behind \cup {f}
      /\ behind # why.behind => \E p \in lock : f \in proc[p].done
      /\ \A p \in lock : f \in proc[p].done => f \in behind
  BY DEF behind
<1> QED
  BY <1>4, <1>5, <1>6, <1>7, <1>8

\* f is written, or removed; m is the new mtime.
LEMMA WorldStep ==
  ASSUME IInv, NEW f \in Files, NEW m \in Nat, disk' \in Disks, Written(f, m),
         UNCHANGED <<index, lock, proc>>,
         \A g \in Files : g # f => /\ g \in DOMAIN disk' <=> g \in DOMAIN disk
                                   /\ g \in DOMAIN disk => disk'[g] = disk[g],
         f \in DOMAIN disk' => disk'[f].m = m
  PROVE  IInv'
<1>1. /\ why' \in Histories /\ why'.late = why.late /\ why'.wiped = why.wiped
      /\ \A p \in Procs : /\ why.torn[p] \subseteq why'.torn[p]
                          /\ why'.since[p] \subseteq why.since[p] \cup {f}
                          /\ ~At(p, "idle") => why'.since[p] = why.since[p] \cup {f}
                          /\ \/ InWindow(p, f)
                             \/ f \in DOMAIN proc[p].acc.files /\ m <= proc[p].acc.files[f].m
                             => f \in why'.torn[p]
      /\ why.hidden \subseteq why'.hidden
      /\ f \in DOMAIN index.files /\ m <= index.files[f].m => f \in why'.hidden
      /\ why.behind \subseteq why'.behind /\ why'.behind \subseteq why.behind \cup {f}
      /\ why'.behind # why.behind => \E p \in lock : f \in proc[p].done
      /\ \A p \in lock : f \in proc[p].done => f \in why'.behind
  BY WrittenFacts
<1>2. TypeOK'
  BY <1>1 DEF IInv, TypeOK
<1>3. ASSUME NEW ix \in Index, NEW g \in DOMAIN ix.files, EntryOK(ix, g)
      PROVE  \/ g = f /\ m <= ix.files[f].m
             \/ EntryOK(ix, g)'
  <2>1. g \in Files /\ ix.files[g].m \in Nat
    BY <1>3, PrintFacts DEF Index
  <2> QED
    BY <1>3, <2>1 DEF EntryOK, Exists
<1>4. EntryInv'
  <2>1. EntryInv /\ index \in Index
    BY DEF IInv, TypeOK
  <2>2. ASSUME NEW g \in DOMAIN index.files PROVE g \in why'.hidden \/ EntryOK(index, g)'
    BY <1>1, <1>3, <2>1, <2>2 DEF EntryInv
  <2> QED
    BY <2>1, <2>2 DEF EntryInv, Owned, EntryOK, Exists
<1>5. \A g \in Files : g # f => (Exists(g)' <=> Exists(g)) /\ (Exists(g) => disk'[g] = disk[g])
  BY DEF Exists
<1>6. \A g \in Files : g # f => (Parses(g)' <=> Parses(g))
  BY <1>5 DEF Parses
<1>7. ASSUME NEW ix, NEW g \in Files, g # f, Right(ix, g) PROVE Right(ix, g)'
  BY <1>5, <1>6, <1>7 DEF Right, Parses
<1>8. ASSUME NEW p \in Procs PROVE Own(p)'
  <2>1. /\ proc[p] \in Processes /\ Shape(proc[p]) /\ WindowOf(p) /\ ClaimOf(p) /\ Holds(p)
        /\ proc' = proc /\ index' = index /\ lock' = lock /\ proc[p].acc \in Index
        /\ proc[p].cur \in SUBSET Files /\ proc[p].done \in SUBSET Files
        /\ proc[p].job \in SUBSET Files
    BY Known DEF Processes
  <2>2. WindowOf(p)'
    <3>1. ASSUME NEW g \in proc[p].cur, g # f, ReadOf(p, g) PROVE ReadOf(p, g)' /\ disk'[g] = disk[g]
      BY <1>5, <1>6, <2>1, <3>1 DEF ReadOf, Parses
    <3> QED
      BY <1>1, <1>5, <2>1, <3>1 DEF WindowOf, InWindow
  <2>3. Holds(p)'
    <3>1. CASE p \notin lock
      BY <2>1, <3>1 DEF Holds, Inside
    <3>2. CASE p \in lock
      <4>1. /\ AccOf(p) /\ ReadOK(p) /\ CarryOK(p) /\ FullOK(p) /\ AbsentOK(p) /\ ~At(p, "idle")
        BY <2>1, <3>2 DEF Holds, Inside, At
      <4>2. AccOf(p)'
        <5>1. ASSUME NEW g \in DOMAIN proc[p].acc.files
              PROVE  g \in why'.hidden \cup why'.torn[p] \/ EntryOK(proc[p].acc, g)'
          <6>1. g \in why.hidden \cup why.torn[p] \/ EntryOK(proc[p].acc, g)
            BY <4>1, <5>1 DEF AccOf
          <6> QED
            BY <1>1, <1>3, <2>1, <5>1, <6>1
        <5> QED
          BY <2>1, <4>1, <5>1 DEF AccOf, Owned, EntryOK, Exists
      <4>3. ReadOK(p)'
        <5>1. ASSUME NEW g \in proc[p].done \ why'.behind
              PROVE  g # f /\ g \in proc[p].done \ why.behind /\ g \in Files
          BY <1>1, <2>1, <3>2, <5>1
        <5>2. ASSUME NEW g \in proc[p].done \ why'.behind, g \in proc[p].cur PROVE ReadOf(p, g)'
          BY <1>5, <1>6, <2>1, <4>1, <5>1, <5>2 DEF ReadOK, ReadOf, Parses
        <5>3. ASSUME NEW g \in proc[p].done \ why'.behind, g \notin proc[p].cur
              PROVE  Right(proc[p].acc, g)'
          <6>1. Right(proc[p].acc, g) /\ g \in Files /\ g # f
            BY <4>1, <5>1, <5>3 DEF ReadOK
          <6> QED
            BY <1>5, <1>6, <2>1, <6>1 DEF Right, Parses
        <5> QED
          BY <2>1, <5>2, <5>3 DEF ReadOK
      <4>4. CarryOK(p)'
        BY <2>1, <4>1 DEF CarryOK, Same, Untouched
      <4>5. FullOK(p)'
        <5>1. Untouched(p)' = Untouched(p) /\ Untouched(p) \subseteq Files
          BY <2>1 DEF Untouched
        <5>2. ASSUME proc[p].full, NEW g \in Untouched(p), Exists(g)'
              PROVE  /\ g \in why'.since[p]
                     /\ g \in DOMAIN index.files =>
                          g \in why'.hidden \/ disk'[g].m > index.files[g].m
          <6>1. CASE g = f
            <7>1. f \in DOMAIN index.files => index.files[f].m \in Nat
              BY PrintFacts DEF IInv, TypeOK, Index
            <7> QED
              BY <1>1, <4>1, <5>2, <6>1, <7>1 DEF Exists
          <6>2. CASE g # f
            <7>1. Exists(g) /\ disk'[g] = disk[g]
              BY <1>5, <5>1, <5>2, <6>2
            <7> QED
              BY <1>1, <4>1, <5>2, <7>1 DEF FullOK
          <6> QED
            BY <6>1, <6>2
        <5> QED
          BY <2>1, <4>1, <5>1, <5>2 DEF FullOK
      <4>6. AbsentOK(p)'
        <5>1. ASSUME ~proc[p].acc.here, NEW g \in proc[p].job \cup proc[p].done, Exists(g)'
              PROVE  g \in why'.since[p]
          <6>1. g \in Files /\ (g # f => Exists(g))
            BY <1>5, <2>1, <5>1
          <6> QED
            BY <1>1, <4>1, <5>1, <6>1 DEF AbsentOK
        <5> QED
          BY <2>1, <4>1, <5>1 DEF AbsentOK
      <4> QED
        BY <2>1, <4>2, <4>3, <4>4, <4>5, <4>6 DEF Holds, Inside
    <3> QED
      BY <3>1, <3>2
  <2>4. ClaimOf(p)'
    <3>1. Ensures(p) => why'.since[p] = why.since[p] \cup {f}
      BY <1>1, <2>1 DEF Ensures, Shape, At
    <3>2. /\ (Ensures(p)' <=> Ensures(p)) /\ (Stepwise(p)' <=> Stepwise(p))
      BY <1>1, <2>1 DEF Ensures, Stepwise
    <3>3. ASSUME Ensures(p), NEW g \in Stands(p)' PROVE g \in Stands(p) /\ g # f /\ g \in Files
      BY <1>1, <3>1, <3>3 DEF Stands
    <3>4. ASSUME NEW g \in Files, g # f, Pending(p, g) PROVE Pending(p, g)'
      <4>1. /\ Exists(g)' <=> Exists(g)
            /\ Exists(g) => (Newer(g, proc[p].seen)' <=> Newer(g, proc[p].seen))
        BY <1>5, <2>1, <3>4 DEF Newer
      <4> QED
        BY <2>1, <3>4, <4>1 DEF Pending
    <3>5. ASSUME NEW g \in Files, g # f, Solid(g) PROVE Solid(g)'
      <4>1. CASE g \in why.hidden
        BY <1>1, <4>1 DEF Solid
      <4>2. CASE Right(index, g) /\ \A q \in lock : ~Lost(q, g)
        <5>1. Right(index, g)'
          BY <1>5, <1>6, <2>1, <3>5, <4>2 DEF Right, Parses
        <5>2. \A q \in lock : ~Lost(q, g)'
          BY <1>6, <2>1, <3>5, <4>2 DEF Lost, Untouched
        <5> QED
          BY <2>1, <5>1, <5>2 DEF Solid
      <4> QED
        BY <3>5, <4>1, <4>2 DEF Solid
    <3> QED
      BY <1>1, <2>1, <3>1, <3>2, <3>3, <3>4, <3>5 DEF ClaimOf, Stepwise
  <2> QED
    BY <2>1, <2>2, <2>3, <2>4 DEF Own
<1> QED
  BY <1>2, <1>4, <1>8 DEF IInv

LEMMA StepWrite ==
  ASSUME IInv, NEW f \in Files, Write(f)
  PROVE  IInv'
<1>1. PICK c \in Contents, m \in 1..MaxTime :
        disk' = With(disk, f, [c |-> c, m |-> m]) /\ Written(f, m)
  BY DEF Write
<1> DEFINE now == [c |-> c, m |-> m]
<1>2. m \in Nat /\ now \in [c : Contents, m : Nat] /\ now.m = m
  BY CacheAssumption
<1> HIDE DEF now
<1>3. disk \in Disks /\ disk' = With(disk, f, now)
  BY <1>1 DEF IInv, TypeOK, now
<1>4. disk' \in Disks
  <2>1. PICK D \in SUBSET Files : disk \in [D -> [c : Contents, m : Nat]]
    BY <1>3 DEF Disks
  <2>2. disk' \in [D \cup {f} -> [c : Contents, m : Nat]]
    BY <1>2, <1>3, <2>1 DEF With
  <2>3. D \cup {f} \in SUBSET Files
    OBVIOUS
  <2> QED
    BY <2>2, <2>3 DEF Disks
<1>5. /\ \A g \in Files : g # f => /\ g \in DOMAIN disk' <=> g \in DOMAIN disk
                                   /\ g \in DOMAIN disk => disk'[g] = disk[g]
      /\ disk'[f].m = m
  BY <1>2, <1>3 DEF With
<1> QED
  BY <1>1, <1>2, <1>4, <1>5, WorldStep DEF Write

LEMMA StepRemove ==
  ASSUME IInv, NEW f \in Files, Remove(f)
  PROVE  IInv'
<1>1. /\ disk' = Without(disk, {f}) /\ Written(f, MaxTime + 1) /\ UNCHANGED <<index, lock, proc>>
      /\ MaxTime + 1 \in Nat /\ disk \in Disks
  BY CacheAssumption DEF Remove, IInv, TypeOK
<1>2. disk' \in Disks
  <2>1. PICK D \in SUBSET Files : disk \in [D -> [c : Contents, m : Nat]]
    BY <1>1 DEF Disks
  <2>2. disk' \in [D \ {f} -> [c : Contents, m : Nat]] /\ D \ {f} \in SUBSET Files
    BY <1>1, <2>1 DEF Without
  <2> QED
    BY <2>2 DEF Disks
<1>3. /\ \A g \in Files : g # f => /\ g \in DOMAIN disk' <=> g \in DOMAIN disk
                                   /\ g \in DOMAIN disk => disk'[g] = disk[g]
      /\ f \notin DOMAIN disk'
  BY <1>1 DEF Without
<1> QED
  BY <1>1, <1>2, <1>3, WorldStep

LEMMA StepDeleteIndex ==
  ASSUME IInv, DeleteIndex
  PROVE  IInv'
<1>1. /\ index' = NoIndex /\ UNCHANGED <<disk, lock, proc>>
      /\ why' = [why EXCEPT !.wiped = {p \in Procs : ~At(p, "idle")}]
      /\ why \in Histories
  BY DEF DeleteIndex, IInv, TypeOK
<1>2. /\ why' \in Histories /\ why'.since = why.since /\ why'.late = why.late
      /\ why'.torn = why.torn /\ why'.hidden = why.hidden /\ why'.behind = why.behind
      /\ why'.wiped = {p \in Procs : ~At(p, "idle")}
  BY <1>1 DEF Histories
<1>3. TypeOK'
  BY <1>1, <1>2, NoIndexFacts DEF IInv, TypeOK
<1>4. EntryInv'
  BY <1>1, NoIndexFacts DEF EntryInv, Owned
<1>5. ASSUME NEW p \in Procs PROVE Own(p)'
  <2>1. Shape(proc[p]) /\ WindowOf(p) /\ ClaimOf(p) /\ Holds(p)
    BY Known
  <2>2. WindowOf(p)'
    BY <1>1, <1>2, <2>1 DEF WindowOf, ReadOf, Parses, Exists
  <2>3. ClaimOf(p)'
    <3>1. Ensures(p) => p \in why'.wiped
      BY <1>2, <2>1 DEF Ensures, Shape, At
    <3> QED
      BY <1>1, <1>2, <2>1, <3>1 DEF ClaimOf, Stepwise, Ensures
  <2>4. Holds(p)'
    <3>1. p \in lock => AccOf(p)'
      BY <1>1, <1>2, <2>1 DEF Holds, AccOf, Owned, EntryOK, Exists
    <3>2. p \in lock => ReadOK(p)'
      BY <1>1, <1>2, <2>1 DEF Holds, ReadOK, ReadOf, Right, Parses, Exists
    <3>3. p \in lock => CarryOK(p)' /\ FullOK(p)' /\ AbsentOK(p)'
      BY <1>1, <1>2, <2>1, NoIndexFacts DEF Holds, CarryOK, FullOK, AbsentOK, Untouched, Exists
    <3> QED
      BY <1>1, <2>1, <3>1, <3>2, <3>3 DEF Holds, Inside
  <2> QED
    BY <1>1, <2>1, <2>2, <2>3, <2>4 DEF Own
<1> QED
  BY <1>1, <1>3, <1>4, <1>5 DEF IInv

-----------------------------------------------------------------------------
(* The theorems.                                                           *)

LEMMA InitInv == Init => IInv
<1> SUFFICES ASSUME Init PROVE IInv
  OBVIOUS
<1>1. PICK c \in Contents :
        /\ disk = [f \in Files |-> [c |-> c, m |-> 1]]
        /\ index \in {NoIndex,
             [here |-> TRUE,
              files |-> [f \in {g \in Files : c.ok} |-> [sha |-> c, m |-> 1]],
              edges |-> UNION {EdgesOf(f, c.refs) : f \in {g \in Files : c.ok}}]}
  BY DEF Init
<1> DEFINE indexed == {g \in Files : c.ok}
           full == [here |-> TRUE,
                    files |-> [f \in indexed |-> [sha |-> c, m |-> 1]],
                    edges |-> UNION {EdgesOf(f, c.refs) : f \in indexed}]
<1>2. /\ lock = {} /\ proc = [p \in Procs |-> Idle]
      /\ why = [since |-> [p \in Procs |-> {}], torn |-> [p \in Procs |-> {}],
                late |-> [p \in Procs |-> {}], behind |-> {}, hidden |-> {}, wiped |-> {}]
  BY DEF Init
<1>3. /\ disk \in Disks /\ \A f \in Files : Exists(f) /\ disk[f].c = c /\ disk[f].m = 1
  <2>1. disk \in [Files -> [c : Contents, m : Nat]]
    BY <1>1
  <2> QED
    BY <1>1, <2>1 DEF Disks, Exists
<1>4. /\ full \in Index /\ full.here
      /\ DOMAIN full.files = indexed
      /\ \A f \in indexed : full.files[f].sha = c
      /\ \A f \in Files : {e \in full.edges : e[1] = f} = IF f \in indexed THEN EdgesOf(f, c.refs) ELSE {}
      /\ Owned(full)
  <2>1. indexed \in SUBSET Files
    OBVIOUS
  <2>2. c.refs \in SUBSET Files
    BY ContentFacts
  <2>3. [f \in indexed |-> [sha |-> c, m |-> 1]] \in [indexed -> Fingerprint]
    BY DEF Fingerprint
  <2>4. [f \in indexed |-> [sha |-> c, m |-> 1]] \in Fingerprints
    BY <2>1, <2>3, IsPrints
  <2>5. full.edges \in SUBSET (Files \X Files)
    BY <2>1, <2>2 DEF EdgesOf
  <2>6. full \in Index
    BY <2>4, <2>5 DEF Index
  <2>7. ASSUME NEW f \in Files
        PROVE  {e \in full.edges : e[1] = f} = IF f \in indexed THEN EdgesOf(f, c.refs) ELSE {}
    BY DEF EdgesOf
  <2>8. Owned(full)
    BY DEF Owned, EdgesOf
  <2>9. full.here /\ DOMAIN full.files = indexed /\ \A f \in indexed : full.files[f].sha = c
    OBVIOUS
  <2> QED
    BY <2>6, <2>7, <2>8, <2>9
<1>5. index = NoIndex \/ index = full
  BY <1>1
<1> HIDE DEF full
<1>6. index \in Index
  BY <1>4, <1>5, NoIndexFacts
<1>7. EntryInv
  <2>1. CASE index = NoIndex
    BY <2>1, NoIndexFacts DEF EntryInv, Owned
  <2>2. CASE index = full
    BY <1>3, <1>4, <2>2 DEF EntryInv, EntryOK
  <2> QED
    BY <1>5, <2>1, <2>2
<1>8. TypeOK
  <2>1. why \in Histories
    BY <1>2 DEF Histories
  <2>2. proc \in [Procs -> Processes]
    BY <1>2, IdleFacts
  <2> QED
    BY <1>2, <1>3, <1>6, <2>1, <2>2 DEF TypeOK
<1>9. ASSUME NEW p \in Procs PROVE Own(p)
  <2>1. proc[p] = Idle
    BY <1>2
  <2> QED
    BY <1>2, <2>1, IdleFacts DEF Own, WindowOf, ClaimOf, Stepwise, Ensures, Holds, Inside
<1> QED
  BY <1>2, <1>7, <1>8, <1>9 DEF IInv

LEMMA NextInv == IInv /\ [Next]_vars => IInv'
<1> SUFFICES ASSUME IInv, [Next]_vars PROVE IInv'
  OBVIOUS
<1>1. CASE UNCHANGED vars
  <2>1. UNCHANGED <<disk, index, lock, proc, why>>
    BY <1>1 DEF vars
  <2>2. TypeOK' /\ EntryInv'
    BY <2>1 DEF IInv, TypeOK, EntryInv, Owned, EntryOK, Exists
  <2>3. ASSUME NEW p \in Procs PROVE Own(p)'
    <3>1. Local(p)
      BY <2>1 DEF Local, Lost, Untouched, Parses, Exists
    <3>2. Shape(proc[p]) /\ WindowOf(p) /\ ClaimOf(p) /\ Holds(p)
      BY Known
    <3>3. WindowOf(p)'
      BY <2>1, <3>2 DEF WindowOf, ReadOf, Parses, Exists
    <3>4. ClaimOf(p)'
      <4>1. \A f \in Files : Pending(p, f) => Pending(p, f)'
        BY <2>1 DEF Pending, Exists, Newer
      <4> QED
        BY <2>1, <2>2, <3>1, <4>1, ClaimStays DEF Stands, Ensures, Stepwise
    <3>5. Holds(p)'
      <4>1. p \in lock => AccOf(p)' /\ ReadOK(p)'
        BY <2>1, <3>2 DEF Holds, AccOf, Owned, EntryOK, ReadOK, ReadOf, Right, Parses, Exists
      <4>2. p \in lock => CarryOK(p)' /\ FullOK(p)' /\ AbsentOK(p)'
        BY <2>1, <3>2 DEF Holds, CarryOK, Same, FullOK, AbsentOK, Untouched, Exists
      <4> QED
        BY <2>1, <3>2, <4>1, <4>2 DEF Holds, Inside
    <3> QED
      BY <2>1, <3>2, <3>3, <3>4, <3>5 DEF Own
  <2> QED
    BY <2>1, <2>2, <2>3 DEF IInv
<1>2. ASSUME NEW p \in Procs, UpdateFile(p) PROVE IInv'
  BY <1>2, StepUpdateFile
<1>3. ASSUME NEW p \in Procs, EnsureFresh(p) PROVE IInv'
  BY <1>3, StepEnsureFresh
<1>4. ASSUME NEW p \in Procs, Scan(p) PROVE IInv'
  BY <1>4, StepScan
<1>5. ASSUME NEW p \in Procs, NextFile(p) PROVE IInv'
  BY <1>5, StepNextFile
<1>6. ASSUME NEW p \in Procs, Refresh(p) PROVE IInv'
  BY <1>6, StepRefresh
<1>7. ASSUME NEW p \in Procs, Lock(p) PROVE IInv'
  BY <1>7, StepLock
<1>8. ASSUME NEW p \in Procs, Parse(p) PROVE IInv'
  BY <1>8, StepParse
<1>9. ASSUME NEW p \in Procs, Stat(p) PROVE IInv'
  BY <1>9, StepStat
<1>10. ASSUME NEW p \in Procs, Hash(p) PROVE IInv'
  BY <1>10, StepHash
<1>11. ASSUME NEW p \in Procs, Save(p) PROVE IInv'
  BY <1>11, StepSave
<1>12. ASSUME NEW p \in Procs, Return(p) PROVE IInv'
  BY <1>12, StepReturn
<1>13. ASSUME NEW p \in Procs, LockTimeout(p) \/ Dies(p) PROVE IInv'
  BY <1>13, StepGivesUp
<1>14. ASSUME NEW f \in Files, Write(f) PROVE IInv'
  BY <1>14, StepWrite
<1>15. ASSUME NEW f \in Files, Remove(f) PROVE IInv'
  BY <1>15, StepRemove
<1>16. CASE DeleteIndex
  BY <1>16, StepDeleteIndex
<1> QED
  BY <1>1, <1>2, <1>3, <1>4, <1>5, <1>6, <1>7, <1>8, <1>9, <1>10, <1>11, <1>12, <1>13,
     <1>14, <1>15, <1>16 DEF Next

\* The inductive invariant, in every reachable state: types, entries made of one
\* content, one holder of the lock, and what each call may still rely on.
THEOREM Invariant == Spec => []IInv
BY InitInv, NextInv, PTL DEF Spec

LEMMA IInvStale == IInv => StaleIsVisible
<1> SUFFICES ASSUME IInv, NEW f \in Files
             PROVE  \/ Right(index, f)
                    \/ f \notin DOMAIN index.files \/ ~Exists(f)
                    \/ disk[f].m > index.files[f].m /\ disk[f].c # index.files[f].sha
                    \/ f \in why.hidden
  BY DEF StaleIsVisible
<1>1. EntryInv
  BY DEF IInv
<1>2. CASE f \in DOMAIN index.files /\ Exists(f) /\ f \notin why.hidden
  <2>1. EntryOK(index, f)
    BY <1>1, <1>2 DEF EntryInv
  <2>2. CASE disk[f].c = index.files[f].sha
    BY <1>2, <2>1, <2>2 DEF EntryOK, Right, Parses
  <2> QED
    BY <1>2, <2>1, <2>2 DEF EntryOK
<1> QED
  BY <1>2

\* A wrong entry of the index is one that the next ensure_fresh can tell from the file
\* (_find_changed_files, ensure_fresh), unless the file was written while it was being
\* fingerprinted or with an mtime that is not newer.
THEOREM StaleVisible == Spec => []StaleIsVisible
BY Invariant, IInvStale, PTL

LEMMA IInvFresh == IInv => EnsuredMeansFresh
<1> SUFFICES ASSUME IInv, NEW p \in Procs, At(p, "return"), NEW f \in Files \ why.since[p],
                    f \notin why.late[p], p \notin why.wiped
             PROVE  Right(index, f) \/ f \in why.hidden
  BY DEF EnsuredMeansFresh
<1>1. Shape(proc[p]) /\ ClaimOf(p)
  BY Known
<1>2. proc[p].call = "ensure" /\ ~proc[p].full /\ ~Pending(p, f)
  BY <1>1 DEF At, Shape, Pending
<1>3. Pending(p, f) \/ Solid(f)
  BY <1>1, <1>2 DEF ClaimOf, Stepwise, Ensures, Stands
<1> QED
  BY <1>2, <1>3 DEF Solid

\* What ensure_fresh promises when it returns: the index is right about every file that
\* nobody wrote meanwhile, whatever the other processes did to the index.
THEOREM Ensured == Spec => []EnsuredMeansFresh
BY Invariant, IInvFresh, PTL
=============================================================================
