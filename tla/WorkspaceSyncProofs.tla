------------------------- MODULE WorkspaceSyncProofs -------------------------
(***************************************************************************)
(* What is proved of WorkspaceSync, for any number of projects, nodes,     *)
(* edits and commands: that a push loses nothing upstream by way of the    *)
(* merge, and that no command drops an unpublished edit it has seen.       *)
(*                                                                         *)
(* The inductive invariant says of every copy that its values, and those   *)
(* of the commit it names unless it is behind, have been taken into        *)
(* account (CopyOK), of what a command has listed the same (SnapOK), and   *)
(* of what it is going to save that nothing but published values is left   *)
(* out (OutOK).  What is noted is what was committed because whoever       *)
(* writes and commits has the lock (LockOK, WriteOK, NoteOK).              *)
(***************************************************************************)
EXTENDS WorkspaceSync, TLAPS

Maps(X) == UNION {[D -> X] : D \in SUBSET Nodes}
Contents == [Fields -> Nat]
Trees == Maps(Contents)
Marks == {"workspace", "local"}
CopyRecords == [c : Contents, origin : Marks, scope : Marks, sha : Nat]
Known == SUBSET (Fields \X Nat)
Drafts == [c : Contents, theirs : Contents]
Writes == [c : Contents, seen : Known, was : Contents]
PCs == {"idle", "copy", "pull", "compare", "write", "note"}
Processes ==
  [pc : PCs, head : Nat, todo : SUBSET Nodes, snap : Maps(CopyRecords),
   out : Maps(Drafts) \cup Maps(Writes), diverged : BOOLEAN, collides : BOOLEAN]
Ways == {"no", "unread", "raced", "behind", "merged"}
Histories ==
  [seen : [Projects -> Maps(Known)], behind : [Projects -> SUBSET Nodes],
   lost : [Fields -> Ways], dropped : SUBSET {"merged", "meanwhile"}]

\* The budgets are of no consequence here.
TypeOK ==
  /\ tree \in Trees
  /\ commits \in Seq(Trees) /\ HEAD > 0
  /\ node \in [Projects -> Maps(CopyRecords)]
  /\ brief \in [Projects -> Trees]
  /\ lock \in Projects \cup {Nobody}
  /\ proc \in [Projects -> Processes]
  /\ edits \in Nat
  /\ why \in Histories

\* S has the values of c.
Knows(S, c) == \A f \in Fields : c[f] # 0 => <<f, c[f]>> \in S

\* The values of a copy have been taken into account, and those of its commit.
CopyOK(p, n, x) ==
  /\ x.sha <= HEAD
  /\ Knows(why.seen[p][n], x.c)
  /\ HasBase(n, x.sha) /\ n \notin why.behind[p]
       => Knows(why.seen[p][n], Read(commits[x.sha][n]))

NodesOK(p) ==
  /\ DOMAIN why.seen[p] = DOMAIN node[p]
  /\ \A n \in DOMAIN node[p] : CopyOK(p, n, node[p][n])

\* What a command has listed, and has still to use.
Listed(p) ==
  CASE At(p, "pull") -> proc[p].todo \cup DOMAIN proc[p].out
    [] At(p, "compare") -> proc[p].todo
    [] OTHER -> {}
SnapOK(p) ==
  \A n \in Listed(p) : n \in DOMAIN proc[p].snap /\ CopyOK(p, n, proc[p].snap[n])

\* c in place of what was listed leaves out what has been published, if anything.
Spares(p, n, c) ==
  \A f \in Fields : \/ proc[p].snap[n].c[f] \in {0, c[f]}
                    \/ Published(n, f, proc[p].snap[n].c[f])

DraftOK(p, n, r) ==
  /\ r \in Drafts
  /\ \A f \in Fields : r.c[f] \in {0, r.theirs[f]} \/ <<f, r.c[f]>> \in why.seen[p][n]

\* Whoever writes r.c over r.was knows what it replaces.
WritingOK(p, n, r) ==
  /\ r \in Writes
  /\ Knows(r.seen, r.c)
  /\ n \notin why.behind[p] =>
       \A f \in Fields \ Unread : r.was[f] \in {0, r.c[f]} \/ <<f, r.was[f]>> \in r.seen

OutOK(p) ==
  /\ At(p, "idle") \/ At(p, "copy") => DOMAIN proc[p].out = {}
  /\ \A n \in DOMAIN proc[p].out :
       /\ n \in DOMAIN proc[p].snap
       /\ Spares(p, n, proc[p].out[n].c)
       /\ At(p, "pull") => DraftOK(p, n, proc[p].out[n])
       /\ ~At(p, "pull") => WritingOK(p, n, proc[p].out[n])

\* What a command refers to is there.
RefersOK(p) ==
  /\ proc[p].head <= HEAD
  /\ DOMAIN proc[p].snap \subseteq DOMAIN node[p]
  /\ At(p, "write") \/ At(p, "note") => proc[p].todo \subseteq DOMAIN proc[p].out

LockOK(p) == At(p, "write") \/ At(p, "note") => lock = p
WriteOK(p) ==
  At(p, "write") => \A n \in DOMAIN proc[p].out \ proc[p].todo :
                      n \in DOMAIN tree /\ tree[n] = proc[p].out[n].c
NoteOK(p) ==
  At(p, "note") => \A n \in DOMAIN proc[p].out :
                     HasBase(n, proc[p].head) /\ commits[proc[p].head][n] = proc[p].out[n].c

ProjectOK(p) ==
  /\ NodesOK(p)
  /\ SnapOK(p)
  /\ OutOK(p)
  /\ RefersOK(p)
  /\ LockOK(p)
  /\ WriteOK(p)
  /\ NoteOK(p)

Inv ==
  /\ TypeOK
  /\ \A p \in Projects : ProjectOK(p)
  /\ NothingLostUpstream
  /\ NothingDroppedHere

-----------------------------------------------------------------------------
(* Functions on nodes, and contents.                                       *)

LEMMA MapHas ==
  \A X : \A g \in Maps(X) : DOMAIN g \subseteq Nodes /\ \A n \in DOMAIN g : g[n] \in X
BY DEF Maps

LEMMA MapIs ==
  \A X, D, g : /\ D \subseteq Nodes /\ g = [n \in D |-> g[n]]
               /\ \A n \in D : g[n] \in X
               => g \in Maps(X)
<1> SUFFICES ASSUME NEW X, NEW D \in SUBSET Nodes, NEW g,
                    g = [n \in D |-> g[n]], \A n \in D : g[n] \in X
             PROVE  g \in Maps(X)
  OBVIOUS
<1>1. g \in [D -> X]
  OBVIOUS
<1> QED BY <1>1 DEF Maps

LEMMA NothingIsMap ==
  /\ DOMAIN Nothing = {}
  /\ \A X : Nothing \in Maps(X)
<1>1. DOMAIN Nothing = {}
  BY DEF Nothing
<1>2. ASSUME NEW X PROVE Nothing \in Maps(X)
  <2>1. Nothing \in [{} -> X]
    BY DEF Nothing
  <2> QED BY <2>1 DEF Maps
<1> QED BY <1>1, <1>2

LEMMA WithHas ==
  \A g, n, x : /\ DOMAIN With(g, n, x) = DOMAIN g \cup {n}
               /\ With(g, n, x)[n] = x
               /\ \A m \in DOMAIN g : m # n => With(g, n, x)[m] = g[m]
BY DEF With

LEMMA WithIsMap ==
  \A X : \A g \in Maps(X), n \in Nodes, x \in X : With(g, n, x) \in Maps(X)
<1> SUFFICES ASSUME NEW X, NEW g \in Maps(X), NEW n \in Nodes, NEW x \in X
             PROVE  With(g, n, x) \in Maps(X)
  OBVIOUS
<1>1. DOMAIN g \cup {n} \subseteq Nodes /\ \A m \in DOMAIN g : g[m] \in X
  BY MapHas
<1>2. With(g, n, x) \in [DOMAIN g \cup {n} -> X]
  BY <1>1 DEF With
<1> QED BY <1>1, <1>2 DEF Maps

LEMMA WithoutHas ==
  \A g, S : /\ DOMAIN Without(g, S) = DOMAIN g \ S
            /\ \A m \in DOMAIN g \ S : Without(g, S)[m] = g[m]
BY DEF Without

LEMMA WithoutIsMap ==
  \A X : \A g \in Maps(X) : \A S : Without(g, S) \in Maps(X)
<1> SUFFICES ASSUME NEW X, NEW g \in Maps(X), NEW S PROVE Without(g, S) \in Maps(X)
  OBVIOUS
<1>1. DOMAIN g \ S \subseteq Nodes /\ \A m \in DOMAIN g : g[m] \in X
  BY MapHas
<1>2. Without(g, S) \in [DOMAIN g \ S -> X]
  BY <1>1 DEF Without
<1> QED BY <1>1, <1>2 DEF Maps

LEMMA ValuesHas ==
  \A c, f, v : <<f, v>> \in Values(c) <=> f \in Fields /\ v = c[f] /\ v # 0
BY DEF Values

LEMMA ValuesType == \A c \in Contents : Values(c) \in Known
BY DEF Values, Contents, Known

LEMMA ReadType ==
  \A c \in Contents : /\ Read(c) \in Contents
                      /\ \A f \in Fields : Read(c)[f] = IF f \in Unread THEN 0 ELSE c[f]
BY DEF Read, Contents

\* What a merge puts for a field, and what it leaves out.
LEMMA MergeKeeps ==
  ASSUME NEW b \in Contents, NEW o \in Contents, NEW t \in Contents
  PROVE  LET c == Merged(b, o, t)
             s == Status(b, o, t)
         IN /\ c \in Contents
            /\ \A f \in Fields : c[f] \in {o[f], t[f]}
            /\ \A f \in Fields : c[f] # o[f] /\ s # "no_upstream" => o[f] = b[f]
            /\ \A f \in Fields : s # "conflict" /\ c[f] # t[f] => t[f] = b[f]
            /\ s = "no_upstream" => c = o
<1> DEFINE s == Status(b, o, t)
           c == Merged(b, o, t)
<1>1. CASE _content_equal(o, b)
  <2>1. s \in {"no_changes", "fast_forward"} /\ c = t
    BY <1>1 DEF Status, Merged
  <2>2. \A f \in Fields : o[f] = b[f]
    BY <1>1 DEF _content_equal
  <2> QED BY <2>1, <2>2
<1>2. CASE ~_content_equal(o, b) /\ _content_equal(t, b)
  <2>1. s = "no_upstream" /\ c = o
    BY <1>2 DEF Status, Merged
  <2>2. \A f \in Fields : t[f] = b[f]
    BY <1>2 DEF _content_equal
  <2> QED BY <2>1, <2>2
<1>3. CASE ~_content_equal(o, b) /\ ~_content_equal(t, b)
  <2>1. s = IF Conflicting(b, o, t) # {} THEN "conflict" ELSE "auto_merged"
    BY <1>3 DEF Status
  <2>2. s \notin {"no_changes", "fast_forward", "no_upstream"}
    BY <2>1
  <2>3. c = [f \in Fields |-> IF Equal(f, o, b) THEN t[f] ELSE o[f]]
    BY <2>2 DEF Merged
  <2>4. \A f \in Fields : Equal(f, o, b) => o[f] = b[f]
    BY DEF Equal
  <2>5. ASSUME NEW f \in Fields, s # "conflict", c[f] # t[f] PROVE t[f] = b[f]
    <3>1. ~Equal(f, o, b) /\ o[f] # t[f]
      BY <2>3, <2>5
    <3>2. f \notin Conflicting(b, o, t)
      BY <2>1, <2>5
    <3>3. Equal(f, t, b)
      BY <3>1, <3>2 DEF Conflicting
    <3> QED BY <3>3 DEF Equal
  <2>6. c \in Contents
    BY <2>3 DEF Contents
  <2>7. \A f \in Fields : c[f] \in {o[f], t[f]} /\ (c[f] # o[f] => o[f] = b[f])
    BY <2>3, <2>4
  <2> QED BY <2>2, <2>5, <2>6, <2>7
<1> QED BY <1>1, <1>2, <1>3

-----------------------------------------------------------------------------
(* What the parts of the state are, and what an action does to them.       *)

LEMMA Sorts ==
  ASSUME TypeOK
  PROVE  /\ \A p \in Projects :
              /\ node[p] \in Maps(CopyRecords) /\ brief[p] \in Trees
              /\ why.seen[p] \in Maps(Known) /\ why.behind[p] \in SUBSET Nodes
              /\ proc[p] \in Processes
         /\ HEAD \in Nat /\ HEAD \in DOMAIN commits /\ DOMAIN commits = 1..HEAD
         /\ \A k \in DOMAIN commits :
              \A n \in DOMAIN commits[k] : n \in Nodes /\ commits[k][n] \in Contents
         /\ \A n \in DOMAIN tree : n \in Nodes /\ tree[n] \in Contents
         /\ \A n, sha : HasBase(n, sha) => Read(commits[sha][n]) \in Contents
<1>1. \A k \in DOMAIN commits : commits[k] \in Trees
  BY DEF TypeOK
<1>2. \A k \in DOMAIN commits :
        \A n \in DOMAIN commits[k] : n \in Nodes /\ commits[k][n] \in Contents
  BY <1>1, MapHas DEF Trees
<1>3. \A n \in DOMAIN tree : n \in Nodes /\ tree[n] \in Contents
  BY MapHas DEF Trees, TypeOK
<1>4. \A n, sha : HasBase(n, sha) => Read(commits[sha][n]) \in Contents
  BY <1>2, ReadType DEF HasBase
<1>5. \A p \in Projects :
              /\ node[p] \in Maps(CopyRecords) /\ brief[p] \in Trees
              /\ why.seen[p] \in Maps(Known) /\ why.behind[p] \in SUBSET Nodes
              /\ proc[p] \in Processes
  BY DEF TypeOK, Histories
<1>6. HEAD \in Nat /\ HEAD \in DOMAIN commits /\ DOMAIN commits = 1..HEAD
  BY DEF TypeOK, HEAD
<1> QED BY <1>2, <1>3, <1>4, <1>5, <1>6

LEMMA IdleType ==
  /\ Idle \in Processes
  /\ Idle.pc = "idle" /\ Idle.head = 0 /\ Idle.todo = {} /\ Idle.snap = Nothing
  /\ Idle.out = Nothing
<1>1. Nothing \in Maps(CopyRecords) /\ Nothing \in Maps(Drafts)
  BY NothingIsMap
<1> QED BY <1>1 DEF Idle, Processes, PCs

\* A command of p goes on as r, or has ended.
Moves(p) ==
  /\ proc' \in [Projects -> Processes]
  /\ lock' \in Projects \cup {Nobody}
  /\ \A q \in Projects \ {p} : proc'[q] = proc[q] /\ (lock = q => lock' = q)
GoesOn(p, r) ==
  /\ Moves(p)
  /\ \/ proc'[p] = r /\ lock' = lock
     \/ proc'[p] = Idle

LEMMA Ending ==
  ASSUME TypeOK, NEW p \in Projects, Ends(p)
  PROVE  GoesOn(p, Idle) /\ proc'[p] = Idle
BY IdleType DEF TypeOK, Ends, Becomes, Frees, GoesOn, Moves

LEMMA Becoming ==
  ASSUME TypeOK, NEW p \in Projects
  PROVE  \A r \in Processes : /\ Becomes(p, r) /\ UNCHANGED lock => GoesOn(p, r)
                              /\ Goes(p, r) => GoesOn(p, r)
<1> TAKE r \in Processes
<1>1. Becomes(p, r) /\ UNCHANGED lock => GoesOn(p, r)
  BY DEF TypeOK, Becomes, GoesOn, Moves
<1>2. Ends(p) => GoesOn(p, r)
  BY Ending DEF GoesOn
<1> QED BY <1>1, <1>2 DEF Goes

LEMMA Saving ==
  ASSUME TypeOK, NEW p \in Projects, NEW n \in Nodes
  PROVE  \A x \in CopyRecords : Saves(p, n, x) =>
           /\ node' \in [Projects -> Maps(CopyRecords)]
           /\ node'[p] = With(node[p], n, x)
           /\ \A q \in Projects \ {p} : node'[q] = node[q]
<1> TAKE x \in CopyRecords
<1>1. With(node[p], n, x) \in Maps(CopyRecords)
  BY WithIsMap, Sorts
<1> QED BY <1>1 DEF Saves, TypeOK

LEMMA Seeing ==
  ASSUME TypeOK, NEW p \in Projects, NEW n \in Nodes
  PROVE  \A S \in Known :
           /\ Sees(p, n, S) \in [Projects -> Maps(Known)]
           /\ Sees(p, n, S)[p] = With(why.seen[p], n, S)
           /\ \A q \in Projects \ {p} : Sees(p, n, S)[q] = why.seen[q]
<1> TAKE S \in Known
<1>1. With(why.seen[p], n, S) \in Maps(Known)
  BY WithIsMap, Sorts
<1>2. why.seen \in [Projects -> Maps(Known)]
  BY DEF TypeOK, Histories
<1> QED BY <1>1, <1>2 DEF Sees

LEMMA Stamping ==
  ASSUME TypeOK, NEW p \in Projects, NEW n \in Nodes
  PROVE  \A sha, c :
           /\ Stamps(p, n, sha, c) \in [Projects -> SUBSET Nodes]
           /\ why.behind[p] \subseteq Stamps(p, n, sha, c)[p]
           /\ n \notin Stamps(p, n, sha, c)[p] /\ HasBase(n, sha) => Read(commits[sha][n]) = c
           /\ \A q \in Projects \ {p} : Stamps(p, n, sha, c)[q] = why.behind[q]
<1> TAKE sha, c
<1>1. why.behind \in [Projects -> SUBSET Nodes]
  BY DEF TypeOK, Histories
<1> QED BY <1>1 DEF Stamps

LEMMA DroppedType ==
  \A p, n, c : Dropped(p, n, c) \subseteq {"merged", "meanwhile"}
BY DEF Dropped

-----------------------------------------------------------------------------
(* What stays as it is.                                                    *)

\* The history of the workspace is only added to.
Grows ==
  /\ HEAD \in Nat /\ HEAD <= HEAD'
  /\ DOMAIN commits = 1..HEAD /\ DOMAIN commits' = 1..HEAD'
  /\ HEAD' \in Nat
  /\ \A k \in DOMAIN commits : commits'[k] = commits[k]

LEMMA Growing ==
  ASSUME TypeOK, \/ UNCHANGED commits
                 \/ \E g \in Trees : commits' = Append(commits, g)
  PROVE  Grows /\ commits' \in Seq(Trees) /\ HEAD' > 0
<1>1. CASE UNCHANGED commits
  BY <1>1, Sorts DEF Grows, HEAD, TypeOK
<1>2. CASE \E g \in Trees : commits' = Append(commits, g)
  BY <1>2, Sorts DEF Grows, HEAD, TypeOK
<1> QED BY <1>1, <1>2

LEMMA BaseStays ==
  ASSUME Grows
  PROVE  /\ \A n : \A sha \in Nat : sha <= HEAD =>
              /\ HasBase(n, sha)' <=> HasBase(n, sha)
              /\ HasBase(n, sha) => commits'[sha] = commits[sha]
         /\ \A n, f, v : Published(n, f, v) => Published(n, f, v)'
<1>1. ASSUME NEW n, NEW sha \in Nat, sha <= HEAD
      PROVE  /\ HasBase(n, sha)' <=> HasBase(n, sha)
             /\ HasBase(n, sha) => commits'[sha] = commits[sha]
  <2>1. sha \in DOMAIN commits <=> sha \in DOMAIN commits'
    BY <1>1 DEF Grows
  <2> QED BY <2>1 DEF HasBase, Grows
<1>2. ASSUME NEW n, NEW f, NEW v, Published(n, f, v) PROVE Published(n, f, v)'
  <2>1. PICK k \in DOMAIN commits : n \in DOMAIN commits[k] /\ commits[k][n][f] = v
    BY <1>2 DEF Published
  <2>2. k \in DOMAIN commits' /\ commits'[k] = commits[k]
    BY DEF Grows
  <2> QED BY <2>1, <2>2 DEF Published
<1> QED BY <1>1, <1>2

\* What p knows of n, and where it is behind, is not forgotten.
Remembers(p, n) ==
  /\ why.seen[p][n] \subseteq why'.seen[p][n]
  /\ n \in why.behind[p] => n \in why'.behind[p]

LEMMA CopyStays ==
  ASSUME Grows, NEW p, NEW n, Remembers(p, n)
  PROVE  \A x : x.sha \in Nat /\ CopyOK(p, n, x) =>
           /\ x.sha <= HEAD'
           /\ Knows(why'.seen[p][n], x.c)
           /\ HasBase(n, x.sha)' /\ n \notin why'.behind[p]
                => Knows(why'.seen[p][n], Read(commits'[x.sha][n]))
<1> TAKE x
<1> SUFFICES ASSUME x.sha \in Nat, CopyOK(p, n, x)
             PROVE  /\ x.sha <= HEAD'
                    /\ Knows(why'.seen[p][n], x.c)
                    /\ HasBase(n, x.sha)' /\ n \notin why'.behind[p]
                         => Knows(why'.seen[p][n], Read(commits'[x.sha][n]))
  OBVIOUS
<1>1. x.sha <= HEAD /\ x.sha <= HEAD'
  BY DEF CopyOK, Grows
<1>2. \A S, T, c : S \subseteq T /\ Knows(S, c) => Knows(T, c)
  BY DEF Knows
<1>3. HasBase(n, x.sha)' => HasBase(n, x.sha) /\ commits'[x.sha] = commits[x.sha]
  BY <1>1, BaseStays
<1> QED BY <1>1, <1>2, <1>3 DEF CopyOK, Remembers

\* Nothing has happened to q but that its workspace has been added to.
Alone(q) ==
  /\ node'[q] = node[q] /\ proc'[q] = proc[q]
  /\ why'.seen[q] = why.seen[q] /\ why'.behind[q] = why.behind[q]
  /\ lock = q => lock' = q
  /\ At(q, "write") => tree' = tree

LEMMA SnapSorts ==
  ASSUME TypeOK, NEW p \in Projects
  PROVE  /\ \A n \in DOMAIN node[p] : n \in Nodes /\ node[p][n] \in CopyRecords
         /\ \A n \in DOMAIN proc[p].snap : n \in Nodes /\ proc[p].snap[n] \in CopyRecords
         /\ \A x \in CopyRecords : x.sha \in Nat /\ x.c \in Contents
         /\ \A n \in DOMAIN why.seen[p] : why.seen[p][n] \in Known
         /\ \A n \in DOMAIN proc[p].out : n \in Nodes
         /\ proc[p].todo \subseteq Nodes
         /\ proc[p].head \in Nat
<1>1. node[p] \in Maps(CopyRecords) /\ why.seen[p] \in Maps(Known) /\ proc[p] \in Processes
  BY Sorts
<1>2. proc[p].snap \in Maps(CopyRecords) /\ proc[p].out \in Maps(Drafts) \cup Maps(Writes)
  BY <1>1 DEF Processes
<1>3. \A x \in CopyRecords : x.sha \in Nat /\ x.c \in Contents
  BY DEF CopyRecords
<1>4. proc[p].todo \subseteq Nodes /\ proc[p].head \in Nat
  BY <1>1 DEF Processes
<1> QED BY <1>1, <1>2, <1>3, <1>4, MapHas

LEMMA OutStays ==
  ASSUME Grows, NEW q, proc'[q] = proc[q], \A n \in DOMAIN proc[q].out : Remembers(q, n), OutOK(q)
  PROVE  OutOK(q)'
<1>1. ASSUME NEW n \in DOMAIN proc[q].out
      PROVE  /\ Spares(q, n, proc[q].out[n].c) => Spares(q, n, proc[q].out[n].c)'
             /\ DraftOK(q, n, proc[q].out[n]) => DraftOK(q, n, proc[q].out[n])'
             /\ WritingOK(q, n, proc[q].out[n]) => WritingOK(q, n, proc[q].out[n])'
  <2>1. Spares(q, n, proc[q].out[n].c) => Spares(q, n, proc[q].out[n].c)'
    BY BaseStays DEF Spares
  <2>2. DraftOK(q, n, proc[q].out[n]) => DraftOK(q, n, proc[q].out[n])'
    BY DEF DraftOK, Remembers
  <2>3. WritingOK(q, n, proc[q].out[n]) => WritingOK(q, n, proc[q].out[n])'
    BY DEF WritingOK, Remembers
  <2> QED BY <2>1, <2>2, <2>3
<1> QED BY <1>1 DEF OutOK, At

LEMMA AloneStays ==
  ASSUME TypeOK, Grows, NEW q \in Projects, Alone(q), ProjectOK(q)
  PROVE  ProjectOK(q)'
<1>1. \A n : Remembers(q, n)
  BY DEF Remembers, Alone
<1>2. NodesOK(q)'
  <2>1. \A n \in DOMAIN node[q] : CopyOK(q, n, node[q][n])'
    BY <1>1, CopyStays, SnapSorts DEF ProjectOK, NodesOK, CopyOK, Alone
  <2> QED BY <2>1 DEF ProjectOK, NodesOK, Alone
<1>3. SnapOK(q)'
  <2>1. Listed(q)' = Listed(q)
    BY DEF Listed, At, Alone
  <2>2. ASSUME NEW n \in Listed(q)
        PROVE  n \in DOMAIN proc[q].snap /\ CopyOK(q, n, proc[q].snap[n])'
    <3>1. n \in DOMAIN proc[q].snap /\ CopyOK(q, n, proc[q].snap[n])
      BY DEF ProjectOK, SnapOK
    <3> QED BY <1>1, <3>1, CopyStays, SnapSorts DEF CopyOK, Alone
  <2> QED BY <2>1, <2>2 DEF SnapOK, Alone
<1>4. OutOK(q)'
  BY <1>1, OutStays DEF ProjectOK, Alone
<1>5. RefersOK(q)'
  BY SnapSorts DEF ProjectOK, RefersOK, At, Alone, Grows
<1>6. LockOK(q)' /\ WriteOK(q)'
  BY DEF ProjectOK, LockOK, WriteOK, At, Alone
<1>7. NoteOK(q)'
  <2>1. proc[q].head \in Nat /\ proc[q].head <= HEAD
    BY SnapSorts DEF ProjectOK, RefersOK
  <2>2. \A n : HasBase(n, proc[q].head) => HasBase(n, proc[q].head)'
    BY <2>1, BaseStays DEF HasBase, Alone
  <2>3. \A n : HasBase(n, proc[q].head) => commits'[proc[q].head] = commits[proc[q].head]
    BY <2>1, BaseStays
  <2> QED BY <2>2, <2>3 DEF ProjectOK, NoteOK, At, Alone
<1> QED BY <1>2, <1>3, <1>4, <1>5, <1>6, <1>7 DEF ProjectOK

\* A project that runs no command has only its copies to answer for.
LEMMA IdleOK ==
  ASSUME NEW p \in Projects, proc'[p] = Idle, NodesOK(p)', HEAD' \in Nat
  PROVE  ProjectOK(p)'
<1>1. /\ proc'[p].pc = "idle" /\ proc'[p].head = 0 /\ proc'[p].todo = {}
      /\ DOMAIN proc'[p].snap = {} /\ DOMAIN proc'[p].out = {}
  BY IdleType, NothingIsMap
<1>2. Listed(p)' = {}
  BY <1>1 DEF Listed, At
<1> QED BY <1>1, <1>2 DEF ProjectOK, SnapOK, OutOK, RefersOK, LockOK, WriteOK, NoteOK, At

\* The copies of p when none has changed.
LEMMA NodesStay ==
  ASSUME TypeOK, Grows, NEW p \in Projects, NodesOK(p), UNCHANGED node,
         why'.seen = why.seen, why'.behind = why.behind
  PROVE  NodesOK(p)'
<1>1. \A n : Remembers(p, n)
  BY DEF Remembers
<1>2. \A n \in DOMAIN node[p] : CopyOK(p, n, node[p][n])'
  BY <1>1, CopyStays, SnapSorts DEF NodesOK, CopyOK
<1> QED BY <1>2 DEF NodesOK

-----------------------------------------------------------------------------
(* The actions, one by one.  Each keeps the types and what is claimed of   *)
(* every project; but for the project that acts, AloneStays says so.       *)

Sound == TypeOK /\ \A q \in Projects : ProjectOK(q)

RestOK(p) ==
  SnapOK(p) /\ OutOK(p) /\ RefersOK(p) /\ LockOK(p) /\ WriteOK(p) /\ NoteOK(p)

LEMMA OneActs ==
  ASSUME Sound, NEW p \in Projects, TypeOK', Grows,
         \A q \in Projects \ {p} : Alone(q),
         NodesOK(p)', proc'[p] # Idle => RestOK(p)'
  PROVE  Sound'
<1>1. ProjectOK(p)'
  <2>1. CASE proc'[p] = Idle
    <3>1. HEAD' \in Nat
      BY DEF Grows
    <3> QED BY <2>1, <3>1, IdleOK
  <2>2. CASE proc'[p] # Idle
    BY <2>2 DEF ProjectOK, RestOK
  <2> QED BY <2>1, <2>2
<1>2. \A q \in Projects \ {p} : ProjectOK(q)'
  BY AloneStays DEF Sound
<1> QED BY <1>1, <1>2 DEF Sound

\* The actions that only change what a command is at.
LEMMA Quiet ==
  ASSUME Sound, NEW p \in Projects, Moves(p),
         UNCHANGED <<tree, commits, node, brief, edits, why>>,
         proc'[p] # Idle => RestOK(p)'
  PROVE  Sound'
<1>1. TypeOK'
  BY DEF Sound, TypeOK, Moves, HEAD
<1>2. Grows
  BY Growing DEF Sound
<1>3. \A q \in Projects \ {p} : Alone(q)
  BY DEF Alone, Moves
<1>4. NodesOK(p)'
  BY <1>2, NodesStay DEF Sound, ProjectOK
<1> QED BY <1>1, <1>2, <1>3, <1>4, OneActs

LEMMA QuietCopies ==
  ASSUME UNCHANGED <<commits, why>>, NEW p
  PROVE  \A n, x : CopyOK(p, n, x) => /\ x.sha <= HEAD'
                                      /\ Knows(why'.seen[p][n], x.c)
                                      /\ HasBase(n, x.sha)' /\ n \notin why'.behind[p]
                                           => Knows(why'.seen[p][n], Read(commits'[x.sha][n]))
BY DEF CopyOK, HasBase, HEAD

LEMMA SparesCarries ==
  ASSUME NEW p \in Projects, UNCHANGED commits, proc'[p].snap = proc[p].snap
  PROVE  \A n, c : Spares(p, n, c) => Spares(p, n, c)'
BY DEF Spares, Published

\* What is to be written is as good as before.
LEMMA OutCarries ==
  ASSUME NEW p \in Projects, OutOK(p),
         UNCHANGED commits, why'.behind = why.behind,
         proc[p].pc \in {"compare", "write", "note"},
         proc'[p].pc \in {"compare", "write", "note"},
         proc'[p].out = proc[p].out, proc'[p].snap = proc[p].snap
  PROVE  OutOK(p)'
<1>1. \A n, c : Spares(p, n, c) => Spares(p, n, c)'
  BY DEF Spares, Published
<1>2. \A n, r : WritingOK(p, n, r) => WritingOK(p, n, r)'
  BY DEF WritingOK
<1> QED BY <1>1, <1>2 DEF OutOK, At

LEMMA CopyStep ==
  ASSUME Sound, NEW p \in Projects, Copy(p)
  PROVE  Sound'
<1>1. PICK n \in Nodes : Becomes(p, [Idle EXCEPT !.pc = "copy", !.head = HEAD, !.todo = {n}])
  BY DEF Copy
<1> DEFINE r == [Idle EXCEPT !.pc = "copy", !.head = HEAD, !.todo = {n}]
<1>2. r \in Processes
  BY IdleType, Sorts DEF Sound, Processes, PCs
<1>3. /\ r.pc = "copy" /\ r.head = HEAD /\ r.snap = Nothing /\ r.out = Nothing
  BY IdleType DEF Processes
<1> HIDE DEF r
<1>4. Moves(p) /\ proc'[p] = r
  BY <1>1, <1>2, Becoming DEF Copy, Becomes, GoesOn, Sound, TypeOK, r
<1>5. HEAD' = HEAD /\ HEAD \in Nat
  BY Sorts DEF Copy, HEAD, Sound
<1>6. RestOK(p)'
  BY <1>3, <1>4, <1>5, NothingIsMap
     DEF RestOK, SnapOK, OutOK, RefersOK, LockOK, WriteOK, NoteOK, Listed, At
<1> QED BY <1>4, <1>6, Quiet DEF Copy

\* Listing the copies, as pull and push do.
LEMMA Lists ==
  ASSUME Sound, NEW p \in Projects, UNCHANGED <<tree, commits, node, brief, edits, why>>
  PROVE  \A r \in Processes :
           /\ r.pc \in {"pull", "compare"} /\ r.head <= HEAD
           /\ r.todo \subseteq DOMAIN node[p] /\ r.snap = node[p] /\ r.out = Nothing
           /\ GoesOn(p, r)
           => Sound'
<1> TAKE r \in Processes
<1> SUFFICES ASSUME r.pc \in {"pull", "compare"}, r.head <= HEAD,
                    r.todo \subseteq DOMAIN node[p], r.snap = node[p], r.out = Nothing,
                    GoesOn(p, r)
             PROVE  Sound'
  OBVIOUS
<1>1. ASSUME proc'[p] = r PROVE RestOK(p)'
  <2>1. SnapOK(p)'
    <3>1. Listed(p)' \subseteq DOMAIN node[p]
      BY <1>1, NothingIsMap DEF Listed, At
    <3>2. \A n \in DOMAIN node[p] : CopyOK(p, n, node[p][n])
      BY DEF Sound, ProjectOK, NodesOK
    <3> QED BY <1>1, <3>1, <3>2, QuietCopies DEF SnapOK, CopyOK
  <2>2. HEAD' = HEAD
    BY DEF HEAD
  <2> QED BY <1>1, <2>1, <2>2, NothingIsMap
          DEF RestOK, OutOK, RefersOK, LockOK, WriteOK, NoteOK, At
<1> QED BY <1>1, Quiet DEF GoesOn

LEMMA PullStep ==
  ASSUME Sound, NEW p \in Projects, Pull(p)
  PROVE  Sound'
<1> DEFINE r == [Idle EXCEPT !.pc = "pull", !.head = HEAD, !.snap = node[p],
                             !.todo = {n \in DOMAIN node[p] : Shared(node[p][n])}]
<1>1. DOMAIN node[p] \subseteq Nodes /\ node[p] \in Maps(CopyRecords) /\ HEAD \in Nat
  BY Sorts, MapHas DEF Sound
<1>2. r \in Processes
  BY <1>1, IdleType DEF Processes, PCs
<1>3. /\ r.pc = "pull" /\ r.head = HEAD /\ r.snap = node[p] /\ r.out = Nothing
      /\ r.todo \subseteq DOMAIN node[p]
  BY IdleType DEF Processes
<1>4. Goes(p, r) /\ UNCHANGED <<tree, commits, node, brief, edits, why>>
  BY DEF Pull
<1> HIDE DEF r
<1>5. GoesOn(p, r)
  BY <1>2, <1>4, Becoming DEF Sound
<1> QED BY <1>1, <1>2, <1>3, <1>4, <1>5, Lists

LEMMA PushStep ==
  ASSUME Sound, NEW p \in Projects, Push(p)
  PROVE  Sound'
<1> DEFINE r == [Idle EXCEPT !.pc = "compare", !.todo = DOMAIN node[p], !.snap = node[p]]
<1>1. DOMAIN node[p] \subseteq Nodes /\ node[p] \in Maps(CopyRecords) /\ HEAD \in Nat
  BY Sorts, MapHas DEF Sound
<1>2. r \in Processes
  BY <1>1, IdleType DEF Processes, PCs
<1>3. /\ r.pc = "compare" /\ r.head = 0 /\ r.snap = node[p] /\ r.out = Nothing
      /\ r.todo \subseteq DOMAIN node[p]
  BY IdleType DEF Processes
<1>4. Becomes(p, r) /\ UNCHANGED <<tree, commits, node, brief, lock, edits, why>>
  BY DEF Push
<1> HIDE DEF r
<1>5. GoesOn(p, r)
  BY <1>2, <1>4, Becoming DEF Sound
<1> QED BY <1>1, <1>2, <1>3, <1>4, <1>5, Lists

LEMMA PullSkipsStep ==
  ASSUME Sound, NEW p \in Projects, NEW n \in Nodes, PullSkips(p, n)
  PROVE  Sound'
<1> DEFINE r == [proc[p] EXCEPT !.todo = @ \ {n}]
<1>1. proc[p] \in Processes /\ proc[p].pc = "pull"
  BY Sorts DEF Sound, PullSkips, At
<1>2. /\ r \in Processes
      /\ r.pc = "pull" /\ r.head = proc[p].head /\ r.snap = proc[p].snap
      /\ r.out = proc[p].out /\ r.todo \subseteq proc[p].todo
  BY <1>1 DEF Processes
<1>3. Goes(p, r) /\ UNCHANGED <<tree, commits, node, brief, edits, why>>
  BY DEF PullSkips
<1> HIDE DEF r
<1>4. GoesOn(p, r)
  BY <1>2, <1>3, Becoming DEF Sound
<1>5. ASSUME proc'[p] = r PROVE RestOK(p)'
  <2>1. SnapOK(p)'
    <3>1. Listed(p)' \subseteq Listed(p)
      BY <1>1, <1>2, <1>5 DEF Listed, At
    <3>2. SnapOK(p)
      BY DEF Sound, ProjectOK
    <3> QED BY <1>2, <1>3, <1>5, <3>1, <3>2, QuietCopies DEF SnapOK, CopyOK
  <2>2. OutOK(p)'
    <3>1. OutOK(p) /\ HEAD' = HEAD
      BY <1>3 DEF Sound, ProjectOK, HEAD
    <3>2. /\ proc'[p].out = proc[p].out /\ proc'[p].snap = proc[p].snap
          /\ proc[p].pc = "pull" /\ proc'[p].pc = "pull" /\ why' = why
      BY <1>1, <1>2, <1>3, <1>5
    <3>3. \A m, x : /\ Spares(p, m, x) => Spares(p, m, x)'
                    /\ DraftOK(p, m, x) => DraftOK(p, m, x)'
      BY <1>3, <3>2, SparesCarries DEF DraftOK
    <3> QED BY <3>1, <3>2, <3>3 DEF OutOK, At
  <2>3. RefersOK(p)'
    BY <1>1, <1>2, <1>3, <1>5 DEF Sound, ProjectOK, RefersOK, At, HEAD
  <2> QED BY <1>2, <1>5, <2>1, <2>2, <2>3 DEF RestOK, LockOK, WriteOK, NoteOK, At
<1> QED BY <1>3, <1>4, <1>5, Quiet DEF GoesOn

LEMMA EndStep ==
  ASSUME Sound, NEW p \in Projects, PushRefused(p) \/ Dies(p)
  PROVE  Sound'
<1>1. Ends(p) /\ UNCHANGED <<tree, commits, node, brief, edits, why>>
  BY DEF PushRefused, Dies
<1>2. Moves(p) /\ proc'[p] = Idle
  BY <1>1, Ending DEF GoesOn, Sound
<1> QED BY <1>1, <1>2, Quiet

LEMMA PushLocksStep ==
  ASSUME Sound, NEW p \in Projects, PushLocks(p)
  PROVE  Sound'
<1> DEFINE r == [proc[p] EXCEPT !.pc = "write", !.todo = DOMAIN proc[p].out]
<1>1. proc[p] \in Processes /\ proc[p].pc = "compare" /\ DOMAIN proc[p].out \subseteq Nodes
  BY Sorts, SnapSorts DEF Sound, PushLocks, At
<1>2. /\ r \in Processes
      /\ r.pc = "write" /\ r.head = proc[p].head /\ r.snap = proc[p].snap
      /\ r.out = proc[p].out /\ r.todo = DOMAIN proc[p].out
  BY <1>1 DEF Processes, PCs
<1>3. /\ Becomes(p, r) /\ UNCHANGED <<tree, commits, node, brief, edits, why>>
      /\ lock = Nobody /\ lock' = p
  BY DEF PushLocks
<1> HIDE DEF r
<1>4. Moves(p) /\ proc'[p] = r
  BY <1>2, <1>3, SyncAssumption DEF Moves, Becomes, Sound, TypeOK
<1>5. RestOK(p)'
  <2>1. Listed(p)' = {}
    BY <1>2, <1>4 DEF Listed, At
  <2>2. OutOK(p)'
    <3>1. OutOK(p)
      BY DEF Sound, ProjectOK
    <3> QED BY <1>1, <1>2, <1>3, <1>4, <3>1, OutCarries
  <2>3. RefersOK(p)'
    BY <1>1, <1>2, <1>3, <1>4 DEF Sound, ProjectOK, RefersOK, At, HEAD
  <2> QED BY <1>2, <1>3, <1>4, <2>1, <2>2, <2>3 DEF RestOK, SnapOK, LockOK, WriteOK, NoteOK, At
<1> QED BY <1>3, <1>4, <1>5, Quiet

\* What a comparison takes up to be written, knowing what it replaces.
LEMMA Takes ==
  ASSUME Sound, NEW p \in Projects, NEW n \in Nodes, At(p, "compare"), n \in proc[p].todo,
         UNCHANGED <<tree, commits, node, brief, edits, why>>
  PROVE  \A x \in Writes :
           /\ Spares(p, n, x.c) /\ WritingOK(p, n, x)
           /\ Becomes(p, [proc[p] EXCEPT !.todo = @ \ {n}, !.out = With(@, n, x)])
           /\ UNCHANGED lock
           => Sound'
<1> TAKE x \in Writes
<1> DEFINE r == [proc[p] EXCEPT !.todo = @ \ {n}, !.out = With(@, n, x)]
<1> SUFFICES ASSUME Spares(p, n, x.c), WritingOK(p, n, x), Becomes(p, r), UNCHANGED lock
             PROVE  Sound'
  OBVIOUS
<1>1. proc[p] \in Processes /\ proc[p].pc = "compare"
  BY Sorts DEF Sound, At
<1>2. OutOK(p) /\ SnapOK(p)
  BY DEF Sound, ProjectOK
<1>3. \A m \in DOMAIN proc[p].out : m \in Nodes /\ proc[p].out[m] \in Writes
  BY <1>1, <1>2, SnapSorts DEF OutOK, At, WritingOK, Sound
<1>4. proc[p].out = [m \in DOMAIN proc[p].out |-> proc[p].out[m]]
  BY <1>1 DEF Processes, Maps
<1>5. proc[p].out \in Maps(Writes)
  BY <1>3, <1>4, MapIs
<1>6. With(proc[p].out, n, x) \in Maps(Writes)
  BY <1>5, WithIsMap
<1>7. /\ r \in Processes
      /\ r.pc = "compare" /\ r.head = proc[p].head /\ r.snap = proc[p].snap
      /\ r.out = With(proc[p].out, n, x) /\ r.todo = proc[p].todo \ {n}
  BY <1>1, <1>6 DEF Processes
<1> HIDE DEF r
<1>8. Moves(p) /\ proc'[p] = r
  BY <1>7 DEF Moves, Becomes, Sound, TypeOK
<1>9. RestOK(p)'
  <2>1. SnapOK(p)'
    <3>1. Listed(p)' \subseteq Listed(p)
      BY <1>1, <1>7, <1>8 DEF Listed, At
    <3> QED BY <1>2, <1>7, <1>8, <3>1, QuietCopies DEF SnapOK, CopyOK
  <2>2. OutOK(p)'
    <3>1. n \in DOMAIN proc[p].snap
      BY <1>1, <1>2 DEF SnapOK, Listed, At
    <3>2. ASSUME NEW m \in DOMAIN With(proc[p].out, n, x)
          PROVE  /\ m \in DOMAIN proc[p].snap
                 /\ Spares(p, m, With(proc[p].out, n, x)[m].c)
                 /\ WritingOK(p, m, With(proc[p].out, n, x)[m])
      <4>1. CASE m = n
        BY <3>1, <4>1, WithHas
      <4>2. CASE m # n
        <5>0. DOMAIN With(proc[p].out, n, x) = DOMAIN proc[p].out \cup {n}
          BY WithHas
        <5>1. m \in DOMAIN proc[p].out
          BY <4>2, <5>0
        <5>2. With(proc[p].out, n, x)[m] = proc[p].out[m]
          BY <4>2, <5>1, WithHas
        <5> QED BY <1>1, <1>2, <5>1, <5>2 DEF OutOK, At
      <4> QED BY <4>1, <4>2
    <3>3. proc'[p].out = With(proc[p].out, n, x) /\ proc'[p].snap = proc[p].snap
      BY <1>7, <1>8
    <3>4. \A m, y : /\ Spares(p, m, y) => Spares(p, m, y)'
                    /\ WritingOK(p, m, y) => WritingOK(p, m, y)'
      BY <3>3, SparesCarries DEF WritingOK
    <3> QED BY <1>7, <1>8, <3>2, <3>3, <3>4 DEF OutOK, At
  <2>3. RefersOK(p)'
    BY <1>1, <1>7, <1>8 DEF Sound, ProjectOK, RefersOK, At, HEAD
  <2> QED BY <1>7, <1>8, <2>1, <2>2, <2>3 DEF RestOK, LockOK, WriteOK, NoteOK, At
<1> QED BY <1>8, <1>9, Quiet

\* A comparison that takes nothing up.
LEMMA Leaves ==
  ASSUME Sound, NEW p \in Projects, NEW n \in Nodes, At(p, "compare"),
         UNCHANGED <<tree, commits, node, brief, edits, why>>
  PROVE  \A d \in BOOLEAN, k \in BOOLEAN :
           /\ Becomes(p, [proc[p] EXCEPT !.todo = @ \ {n}, !.diverged = d, !.collides = k])
           /\ UNCHANGED lock
           => Sound'
<1> TAKE d \in BOOLEAN, k \in BOOLEAN
<1> DEFINE r == [proc[p] EXCEPT !.todo = @ \ {n}, !.diverged = d, !.collides = k]
<1> SUFFICES ASSUME Becomes(p, r), UNCHANGED lock PROVE Sound'
  OBVIOUS
<1>1. proc[p] \in Processes /\ proc[p].pc = "compare"
  BY Sorts DEF Sound, At
<1>2. OutOK(p) /\ SnapOK(p)
  BY DEF Sound, ProjectOK
<1>3. /\ r \in Processes
      /\ r.pc = "compare" /\ r.head = proc[p].head /\ r.snap = proc[p].snap
      /\ r.out = proc[p].out /\ r.todo = proc[p].todo \ {n}
  BY <1>1 DEF Processes
<1> HIDE DEF r
<1>4. Moves(p) /\ proc'[p] = r
  BY <1>3 DEF Moves, Becomes, Sound, TypeOK
<1>5. RestOK(p)'
  <2>1. SnapOK(p)'
    <3>1. Listed(p)' \subseteq Listed(p)
      BY <1>1, <1>3, <1>4 DEF Listed, At
    <3> QED BY <1>2, <1>3, <1>4, <3>1, QuietCopies DEF SnapOK, CopyOK
  <2>2. OutOK(p)'
    BY <1>1, <1>2, <1>3, <1>4, OutCarries
  <2>3. RefersOK(p)'
    BY <1>1, <1>3, <1>4 DEF Sound, ProjectOK, RefersOK, At, HEAD
  <2> QED BY <1>3, <1>4, <2>1, <2>2, <2>3 DEF RestOK, LockOK, WriteOK, NoteOK, At
<1> QED BY <1>4, <1>5, Quiet

\* What is listed, and what it has been made from.
LEMMA ListedHas ==
  ASSUME Sound, NEW p \in Projects, NEW n \in Listed(p)
  PROVE  /\ n \in DOMAIN proc[p].snap /\ n \in DOMAIN node[p] /\ n \in Nodes
         /\ n \in DOMAIN why.seen[p] /\ why.seen[p][n] \in Known
         /\ proc[p].snap[n] \in CopyRecords /\ proc[p].snap[n].c \in Contents
         /\ proc[p].snap[n].sha \in Nat
         /\ CopyOK(p, n, proc[p].snap[n])
<1>1. SnapOK(p) /\ RefersOK(p) /\ NodesOK(p)
  BY DEF Sound, ProjectOK
<1>2. n \in DOMAIN proc[p].snap /\ n \in DOMAIN node[p] /\ n \in DOMAIN why.seen[p]
  BY <1>1 DEF SnapOK, RefersOK, NodesOK
<1> QED BY <1>1, <1>2, SnapSorts DEF Sound, SnapOK

\* A merge of what was listed with what the workspace has.
LEMMA MergeOK ==
  ASSUME Sound, NEW p \in Projects, NEW n \in Listed(p),
         n \in DOMAIN tree, HasBase(n, proc[p].snap[n].sha)
  PROVE  LET o == proc[p].snap[n].c
             t == Read(tree[n])
             b == Read(commits[proc[p].snap[n].sha][n])
             c == Merged(b, o, t)
             s == Status(b, o, t)
             S == why.seen[p][n] \cup (Values(c) \cap Values(t))
         IN /\ t \in Contents /\ c \in Contents /\ S \in Known
            /\ Knows(S, c)
            /\ Spares(p, n, c)
            /\ \A f \in Fields : c[f] \in {0, t[f]} \/ <<f, c[f]>> \in why.seen[p][n]
            /\ s # "conflict" /\ n \notin why.behind[p] =>
                 /\ Knows(S, t)
                 /\ \A f \in Fields : t[f] \in {0, c[f]} \/ <<f, t[f]>> \in why.seen[p][n]
            /\ s = "no_upstream" => c = o
<1> DEFINE o == proc[p].snap[n].c
           sha == proc[p].snap[n].sha
           t == Read(tree[n])
           b == Read(commits[sha][n])
           c == Merged(b, o, t)
           s == Status(b, o, t)
           K == why.seen[p][n]
           S == K \cup (Values(c) \cap Values(t))
<1>1. /\ o \in Contents /\ t \in Contents /\ b \in Contents
      /\ tree[n] \in Contents /\ commits[sha][n] \in Contents
  BY ListedHas, Sorts, ReadType DEF Sound, HasBase
<1>2. K \in Known /\ CopyOK(p, n, proc[p].snap[n])
  BY ListedHas
<1>3. Knows(K, o) /\ (n \notin why.behind[p] => Knows(K, b))
  BY <1>2 DEF CopyOK
<1>4. \A f \in Fields : o[f] = b[f] => o[f] = 0 \/ Published(n, f, o[f])
  <2> TAKE f \in Fields
  <2>1. b[f] = IF f \in Unread THEN 0 ELSE commits[sha][n][f]
    BY <1>1, ReadType
  <2>2. CASE f \notin Unread
    <3>1. b[f] = commits[sha][n][f] /\ sha \in DOMAIN commits /\ n \in DOMAIN commits[sha]
      BY <2>1, <2>2 DEF HasBase
    <3>2. Published(n, f, b[f])
      BY <3>1 DEF Published
    <3> QED BY <3>2
  <2> QED BY <2>1, <2>2
<1> HIDE DEF o, t, b
<1>5. /\ c \in Contents
      /\ \A f \in Fields : c[f] \in {o[f], t[f]}
      /\ \A f \in Fields : c[f] # o[f] /\ s # "no_upstream" => o[f] = b[f]
      /\ \A f \in Fields : s # "conflict" /\ c[f] # t[f] => t[f] = b[f]
      /\ s = "no_upstream" => c = o
  BY <1>1, MergeKeeps
<1> HIDE DEF c, s
<1>6. \A f \in Fields : c[f] # 0 /\ c[f] = t[f] => <<f, c[f]>> \in S
  BY ValuesHas
<1>7. Knows(S, c)
  BY <1>3, <1>5, <1>6 DEF Knows
<1>8. \A f \in Fields : o[f] \in {0, c[f]} \/ Published(n, f, o[f])
  BY <1>4, <1>5
<1>9. \A f \in Fields : c[f] \in {0, t[f]} \/ <<f, c[f]>> \in K
  BY <1>3, <1>5 DEF Knows
<1>10. ASSUME s # "conflict", n \notin why.behind[p], NEW f \in Fields
       PROVE  t[f] \in {0, c[f]} \/ <<f, t[f]>> \in K
  BY <1>3, <1>5, <1>10 DEF Knows
<1>11. s # "conflict" /\ n \notin why.behind[p] => Knows(S, t)
  BY <1>6, <1>10 DEF Knows
<1>12. S \in Known
  BY <1>2, <1>5, ValuesType DEF Known
<1>13. Spares(p, n, c)
  BY <1>8 DEF Spares, o
<1> QED BY <1>1, <1>5, <1>7, <1>9, <1>10, <1>11, <1>12, <1>13 DEF o, t, b, c, s

LEMMA PushComparesStep ==
  ASSUME Sound, NEW p \in Projects, NEW n \in Nodes, PushCompares(p, n)
  PROVE  Sound'
<1> DEFINE x == proc[p].snap[n]
           rest == [proc[p] EXCEPT !.todo = @ \ {n}]
           t == Read(tree[n])
           b == Read(commits[x.sha][n])
           s == Status(b, x.c, t)
           c == Merged(b, x.c, t)
           Takes1(y) == [proc[p] EXCEPT !.todo = @ \ {n}, !.out = With(@, n, y)]
           Leaves1(d, k) == [proc[p] EXCEPT !.todo = @ \ {n}, !.diverged = d, !.collides = k]
<1>1. /\ At(p, "compare") /\ n \in proc[p].todo /\ n \in Listed(p)
      /\ UNCHANGED <<tree, commits, node, brief, edits, why>> /\ UNCHANGED lock
  BY DEF PushCompares, Listed, At
<1>2. /\ proc[p] \in Processes /\ proc[p].diverged \in BOOLEAN /\ proc[p].collides \in BOOLEAN
  BY Sorts DEF Sound, Processes
<1>3. /\ rest = Leaves1(proc[p].diverged, proc[p].collides)
      /\ [rest EXCEPT !.diverged = TRUE] = Leaves1(TRUE, proc[p].collides)
      /\ [rest EXCEPT !.collides = TRUE] = Leaves1(proc[p].diverged, TRUE)
      /\ \A y : [rest EXCEPT !.out = With(@, n, y)] = Takes1(y)
  BY <1>2 DEF Processes
<1>4. /\ n \in DOMAIN proc[p].snap /\ why.seen[p][n] \in Known /\ x.c \in Contents
      /\ CopyOK(p, n, x)
  BY <1>1, ListedHas
<1>5. \A d \in BOOLEAN, k \in BOOLEAN : Becomes(p, Leaves1(d, k)) => Sound'
  BY <1>1, Leaves
<1>6. \A y \in Writes :
        Spares(p, n, y.c) /\ WritingOK(p, n, y) /\ Becomes(p, Takes1(y)) => Sound'
  BY <1>1, Takes
<1>7. ASSUME n \in DOMAIN tree, HasBase(n, x.sha), s \in {"no_upstream", "auto_merged"},
             NEW more \in SUBSET (Values(t) \cap Values(c)),
             s = "auto_merged" => more = Values(t) \cap Values(c)
      PROVE  LET y == Pushes(p, n, c, more)
             IN y \in Writes /\ Spares(p, n, y.c) /\ WritingOK(p, n, y)
  <2> DEFINE y == Pushes(p, n, c, more)
  <2>1. /\ t \in Contents /\ c \in Contents /\ Spares(p, n, c)
        /\ why.seen[p][n] \cup (Values(c) \cap Values(t)) \in Known
        /\ Knows(why.seen[p][n] \cup (Values(c) \cap Values(t)), c)
        /\ s = "no_upstream" => c = x.c
        /\ n \notin why.behind[p] =>
             \A f \in Fields : t[f] \in {0, c[f]} \/ <<f, t[f]>> \in why.seen[p][n]
    BY <1>1, <1>7, MergeOK
  <2>2. tree[n] \in Contents /\ \A f \in Fields \ Unread : t[f] = tree[n][f]
    BY <1>7, Sorts, ReadType DEF Sound
  <2>3. y.c = c /\ y.seen = why.seen[p][n] \cup more /\ y.was = tree[n]
    BY <1>7 DEF Pushes
  <2> HIDE DEF c, t, s
  <2>4. y \in Writes
    <3>1. why.seen[p][n] \cup more \in Known
      BY <2>1 DEF Known
    <3> QED BY <1>7, <2>1, <2>2, <3>1 DEF Pushes, Writes
  <2>5. Knows(y.seen, c)
    <3>1. CASE s = "no_upstream"
      <4>1. Knows(why.seen[p][n], c)
        BY <1>4, <2>1, <3>1 DEF CopyOK
      <4> QED BY <2>3, <4>1 DEF Knows
    <3>2. CASE s = "auto_merged"
      BY <1>7, <2>1, <2>3, <3>2 DEF Knows
    <3> QED BY <1>7, <3>1, <3>2
  <2> HIDE DEF y
  <2>6. WritingOK(p, n, y)
    BY <2>1, <2>2, <2>3, <2>4, <2>5 DEF WritingOK
  <2> QED BY <2>1, <2>3, <2>4, <2>6 DEF y
<1>8. ASSUME n \notin DOMAIN tree
      PROVE  LET y == Pushes(p, n, x.c, {})
             IN y \in Writes /\ Spares(p, n, y.c) /\ WritingOK(p, n, y)
  <2> DEFINE y == Pushes(p, n, x.c, {})
  <2>1. y.c = x.c /\ y.seen = why.seen[p][n] /\ y.was = Blank
    BY <1>8 DEF Pushes
  <2>2. Blank \in Contents /\ \A f \in Fields : Blank[f] = 0
    BY DEF Blank, Contents
  <2>3. y \in Writes
    BY <1>4, <1>8, <2>2 DEF Pushes, Writes, Known
  <2>4. Knows(y.seen, y.c)
    BY <1>4, <2>1 DEF CopyOK
  <2>5. Spares(p, n, y.c)
    BY <2>1 DEF Spares
  <2> HIDE DEF y
  <2>6. WritingOK(p, n, y)
    BY <2>1, <2>2, <2>3, <2>4 DEF WritingOK
  <2> QED BY <2>3, <2>5, <2>6 DEF y
<1>9. Becomes(p,
        IF Shared(x) /\ n \in DOMAIN tree
        THEN IF ~HasBase(n, x.sha) \/ s = "conflict" THEN [rest EXCEPT !.diverged = TRUE]
             ELSE IF s = "no_upstream" THEN [rest EXCEPT !.out = With(@, n, Pushes(p, n, x.c, {}))]
             ELSE IF s = "auto_merged"
                  THEN [rest EXCEPT !.out = With(@, n, Pushes(p, n, c, Values(t) \cap Values(c)))]
             ELSE rest
        ELSE IF x.origin = "local" /\ x.scope = "workspace"
        THEN IF n \in DOMAIN tree THEN [rest EXCEPT !.collides = TRUE]
             ELSE [rest EXCEPT !.out = With(@, n, Pushes(p, n, x.c, {}))]
        ELSE rest)
  BY DEF PushCompares
<1>10. ASSUME n \in DOMAIN tree, HasBase(n, x.sha), s = "no_upstream" PROVE c = x.c
  BY <1>1, <1>10, MergeOK
<1> HIDE DEF rest, t, b, s, c, Takes1, Leaves1, x
<1>11. CASE \/ Becomes(p, rest) \/ Becomes(p, [rest EXCEPT !.diverged = TRUE])
            \/ Becomes(p, [rest EXCEPT !.collides = TRUE])
  BY <1>2, <1>3, <1>5, <1>11
<1>12. CASE /\ Becomes(p, [rest EXCEPT !.out = With(@, n, Pushes(p, n, x.c, {}))])
            /\ n \notin DOMAIN tree
  BY <1>3, <1>6, <1>8, <1>12
<1>13. CASE /\ Becomes(p, [rest EXCEPT !.out = With(@, n, Pushes(p, n, x.c, {}))])
            /\ n \in DOMAIN tree /\ HasBase(n, x.sha) /\ s = "no_upstream"
  BY <1>3, <1>6, <1>7, <1>10, <1>13
<1>14. CASE /\ Becomes(p, [rest EXCEPT !.out = With(@, n, Pushes(p, n, c, Values(t) \cap Values(c)))])
            /\ n \in DOMAIN tree /\ HasBase(n, x.sha) /\ s = "auto_merged"
  BY <1>3, <1>6, <1>7, <1>14
<1> QED BY <1>9, <1>11, <1>12, <1>13, <1>14

-----------------------------------------------------------------------------
(* The actions that save a copy.                                           *)

\* What is known of n in p is now S; nothing else has been forgotten.
Learns(p, n, S) ==
  /\ why' \in Histories
  /\ DOMAIN why'.seen[p] = DOMAIN why.seen[p] \cup {n} /\ why'.seen[p][n] = S
  /\ \A m \in DOMAIN why.seen[p] : m # n => why'.seen[p][m] = why.seen[p][m]
  /\ why.behind[p] \subseteq why'.behind[p]
  /\ \A q \in Projects \ {p} : why'.seen[q] = why.seen[q] /\ why'.behind[q] = why.behind[q]

LEMMA Learning ==
  ASSUME TypeOK, NEW p \in Projects, NEW n \in Nodes, why' \in Histories
  PROVE  \A S \in Known :
           /\ why'.seen = Sees(p, n, S)
           /\ \/ why'.behind = why.behind
              \/ \E sha, c : why'.behind = Stamps(p, n, sha, c)
           => Learns(p, n, S)
<1> SUFFICES ASSUME NEW S \in Known, why'.seen = Sees(p, n, S),
                    \/ why'.behind = why.behind
                    \/ \E sha, c : why'.behind = Stamps(p, n, sha, c)
             PROVE  Learns(p, n, S)
  OBVIOUS
<1>1. /\ why'.seen[p] = With(why.seen[p], n, S)
      /\ \A q \in Projects \ {p} : why'.seen[q] = why.seen[q]
  BY Seeing
<1>2. /\ why.behind[p] \subseteq why'.behind[p]
      /\ \A q \in Projects \ {p} : why'.behind[q] = why.behind[q]
  BY Stamping
<1>3. DOMAIN With(why.seen[p], n, S) = DOMAIN why.seen[p] \cup {n}
  BY WithHas
<1>4. With(why.seen[p], n, S)[n] = S
  BY WithHas
<1>5. \A m \in DOMAIN why.seen[p] : m # n => With(why.seen[p], n, S)[m] = why.seen[p][m]
  BY WithHas
<1> QED BY <1>1, <1>2, <1>3, <1>4, <1>5 DEF Learns

LEMMA NodesSaved ==
  ASSUME Sound, NEW p \in Projects, NEW n \in Nodes, UNCHANGED commits
  PROVE  \A x \in CopyRecords, S \in Known :
           /\ Saves(p, n, x) /\ Learns(p, n, S)
           /\ x.sha <= HEAD /\ Knows(S, x.c)
           /\ HasBase(n, x.sha) /\ n \notin why'.behind[p]
                => Knows(S, Read(commits[x.sha][n]))
           => NodesOK(p)'
<1> SUFFICES ASSUME NEW x \in CopyRecords, NEW S \in Known, Saves(p, n, x), Learns(p, n, S),
                    x.sha <= HEAD, Knows(S, x.c),
                    HasBase(n, x.sha) /\ n \notin why'.behind[p]
                      => Knows(S, Read(commits[x.sha][n]))
             PROVE  NodesOK(p)'
  OBVIOUS
<1>1. Grows
  BY Growing DEF Sound
<1>2. node'[p] = With(node[p], n, x)
  BY Saving DEF Sound
<1>3. DOMAIN With(node[p], n, x) = DOMAIN node[p] \cup {n}
  BY WithHas
<1>4. With(node[p], n, x)[n] = x
  BY WithHas
<1>5. \A m \in DOMAIN node[p] : m # n => With(node[p], n, x)[m] = node[p][m]
  BY WithHas
<1>6. DOMAIN why.seen[p] = DOMAIN node[p] /\ \A m \in DOMAIN node[p] : CopyOK(p, m, node[p][m])
  BY DEF Sound, ProjectOK, NodesOK
<1>7. DOMAIN why'.seen[p] = DOMAIN node'[p]
  BY <1>2, <1>3, <1>6 DEF Learns
<1>8. ASSUME NEW m \in DOMAIN node'[p] PROVE CopyOK(p, m, node[p][m])'
  <2>1. CASE m = n
    <3>1. node'[p][m] = x /\ why'.seen[p][m] = S
      BY <1>2, <1>4, <2>1 DEF Learns
    <3>2. HEAD' = HEAD
      BY DEF HEAD
    <3> QED BY <2>1, <3>1, <3>2 DEF CopyOK, HasBase
  <2>2. CASE m # n
    <3>1. m \in DOMAIN node[p] /\ node'[p][m] = node[p][m]
      BY <1>2, <1>3, <1>5, <2>2
    <3>2. Remembers(p, m)
      BY <1>6, <2>2, <3>1 DEF Remembers, Learns
    <3>3. node[p][m].sha \in Nat /\ CopyOK(p, m, node[p][m])
      BY <1>6, <3>1, SnapSorts DEF Sound
    <3>4. /\ node[p][m].sha <= HEAD'
          /\ Knows(why'.seen[p][m], node[p][m].c)
          /\ HasBase(m, node[p][m].sha) /\ m \notin why'.behind[p]
               => Knows(why'.seen[p][m], Read(commits'[node[p][m].sha][m]))
      BY <1>1, <3>2, <3>3, CopyStays DEF HasBase
    <3> QED BY <3>1, <3>4 DEF CopyOK, HasBase
  <2> QED BY <2>1, <2>2
<1> QED BY <1>7, <1>8 DEF NodesOK

LEMMA SaveStep ==
  ASSUME Sound, NEW p \in Projects, NEW n \in Nodes, UNCHANGED <<tree, commits>>,
         brief' \in [Projects -> Trees], edits' \in Nat, Moves(p)
  PROVE  \A x \in CopyRecords, S \in Known :
           /\ Saves(p, n, x) /\ Learns(p, n, S)
           /\ x.sha <= HEAD /\ Knows(S, x.c)
           /\ HasBase(n, x.sha) /\ n \notin why'.behind[p]
                => Knows(S, Read(commits[x.sha][n]))
           /\ proc'[p] # Idle => RestOK(p)'
           => Sound'
<1> SUFFICES ASSUME NEW x \in CopyRecords, NEW S \in Known, Saves(p, n, x), Learns(p, n, S),
                    x.sha <= HEAD, Knows(S, x.c),
                    HasBase(n, x.sha) /\ n \notin why'.behind[p]
                      => Knows(S, Read(commits[x.sha][n])),
                    proc'[p] # Idle => RestOK(p)'
             PROVE  Sound'
  OBVIOUS
<1>1. /\ node' \in [Projects -> Maps(CopyRecords)]
      /\ \A q \in Projects \ {p} : node'[q] = node[q]
  BY Saving DEF Sound
<1>2. NodesOK(p)'
  BY NodesSaved
<1>3. Grows
  BY Growing DEF Sound
<1>4. TypeOK'
  BY <1>1 DEF Sound, TypeOK, Learns, Moves, HEAD
<1>5. \A q \in Projects \ {p} : Alone(q)
  BY <1>1 DEF Alone, Moves, Learns
<1> QED BY <1>2, <1>3, <1>4, <1>5, OneActs

\* A command is where it was, and knows no less.
LEMMA RestStays ==
  ASSUME Sound, NEW p \in Projects, UNCHANGED <<tree, commits, proc, lock>>,
         \A m \in DOMAIN node[p] : Remembers(p, m) /\ m \in DOMAIN node'[p]
  PROVE  RestOK(p)'
<1>1. RestOK(p) /\ Grows
  BY Growing DEF Sound, ProjectOK, RestOK
<1>2. DOMAIN proc[p].snap \subseteq DOMAIN node[p]
  BY <1>1 DEF RestOK, RefersOK
<1>3. SnapOK(p)'
  <2>1. Listed(p)' = Listed(p)
    BY DEF Listed, At
  <2>2. ASSUME NEW m \in Listed(p)
        PROVE  m \in DOMAIN proc[p].snap /\ CopyOK(p, m, proc[p].snap[m])'
    <3>1. m \in DOMAIN proc[p].snap /\ CopyOK(p, m, proc[p].snap[m])
      BY <1>1 DEF RestOK, SnapOK
    <3>2. Remembers(p, m)
      BY <1>2, <3>1
    <3> QED BY <1>1, <3>1, <3>2, CopyStays, SnapSorts DEF CopyOK, Sound
  <2> QED BY <2>1, <2>2 DEF SnapOK
<1>4. OutOK(p)'
  <2>1. \A m \in DOMAIN proc[p].out : Remembers(p, m)
    BY <1>1, <1>2 DEF RestOK, OutOK
  <2> QED BY <1>1, <2>1, OutStays DEF RestOK
<1>5. RefersOK(p)'
  BY <1>1 DEF RestOK, RefersOK, At, HEAD
<1> QED BY <1>1, <1>3, <1>4, <1>5 DEF RestOK, LockOK, WriteOK, NoteOK, At, HasBase

LEMMA Standing ==
  ASSUME TypeOK, NEW p, UNCHANGED <<proc, lock>>
  PROVE  Moves(p)
BY DEF TypeOK, Moves

LEMMA EditStep ==
  ASSUME Sound, NEW p \in Projects, NEW n \in Nodes, NEW f \in Fields, Edit(p, n, f)
  PROVE  Sound'
<1> DEFINE v == edits + 1
           old == n \in DOMAIN node[p]
           x == IF old THEN [node[p][n] EXCEPT !.c[f] = v]
                ELSE [c |-> [Blank EXCEPT ![f] = v], origin |-> "local",
                      scope |-> "local", sha |-> 0]
           S == {<<f, v>>} \cup IF old THEN why.seen[p][n] ELSE {}
<1>1. /\ Saves(p, n, x) /\ edits' = v /\ UNCHANGED <<tree, commits, brief, lock, proc>>
      /\ why' = [why EXCEPT !.seen = Sees(p, n, S)]
  BY DEF Edit
<1>2. v \in Nat /\ TypeOK
  BY DEF Sound, TypeOK
<1>3. DOMAIN why.seen[p] = DOMAIN node[p] /\ \A m \in DOMAIN node[p] : CopyOK(p, m, node[p][m])
  BY DEF Sound, ProjectOK, NodesOK
<1>4. old => /\ node[p][n] \in CopyRecords /\ why.seen[p][n] \in Known
             /\ CopyOK(p, n, node[p][n])
  BY <1>2, <1>3, SnapSorts
<1>5. S \in Known
  BY <1>2, <1>4 DEF Known
<1>6. /\ x \in CopyRecords
      /\ x.sha = IF old THEN node[p][n].sha ELSE 0
      /\ \A g \in Fields : x.c[g] = IF g = f THEN v ELSE IF old THEN node[p][n].c[g] ELSE 0
  <2>1. CASE old
    BY <1>2, <1>4, <2>1 DEF CopyRecords, Contents
  <2>2. CASE ~old
    BY <1>2, <2>2 DEF CopyRecords, Contents, Marks, Blank
  <2> QED BY <2>1, <2>2
<1> HIDE DEF x
<1>7. x.sha <= HEAD /\ Knows(S, x.c)
  <2>1. HEAD \in Nat
    BY <1>2, Sorts
  <2> QED BY <1>4, <1>6, <2>1 DEF CopyOK, Knows
<1>8. HasBase(n, x.sha) /\ n \notin why.behind[p] => Knows(S, Read(commits[x.sha][n]))
  <2>1. CASE old
    BY <1>4, <1>6, <2>1 DEF CopyOK, Knows
  <2>2. CASE ~old
    BY <1>2, <1>6, <2>2, Sorts DEF HasBase
  <2> QED BY <2>1, <2>2
<1>9. /\ why' \in Histories /\ why'.seen = Sees(p, n, S) /\ why'.behind = why.behind
  BY <1>1, <1>2, <1>5, Seeing DEF TypeOK, Histories
<1>10. Learns(p, n, S)
  BY <1>2, <1>5, <1>9, Learning
<1>11. Moves(p) /\ brief' \in [Projects -> Trees]
  BY <1>1, <1>2, Standing DEF TypeOK
<1>12. RestOK(p)'
  <2>1. node'[p] = With(node[p], n, x)
    BY <1>1, <1>2, <1>6, Saving
  <2>2. DOMAIN With(node[p], n, x) = DOMAIN node[p] \cup {n}
    BY WithHas
  <2>3. \A m \in DOMAIN node[p] : Remembers(p, m)
    BY <1>3, <1>10 DEF Remembers, Learns
  <2> QED BY <1>1, <2>1, <2>2, <2>3, RestStays
<1> HIDE DEF S, old, v
<1>13. edits' \in Nat
  BY <1>1, <1>2
<1> QED BY <1>1, <1>5, <1>6, <1>7, <1>8, <1>9, <1>10, <1>11, <1>12, <1>13, SaveStep

\* A copy is saved with another scope, and what is known of it is the same.
LEMMA Scoped ==
  ASSUME Sound, NEW p \in Projects, NEW n \in DOMAIN node[p], NEW mark \in Marks
  PROVE  LET x == [node[p][n] EXCEPT !.scope = mark]
             S == why.seen[p][n]
         IN /\ n \in Nodes /\ x \in CopyRecords /\ S \in Known
            /\ x.c = node[p][n].c /\ x.sha = node[p][n].sha
            /\ CopyOK(p, n, x)
            /\ x.sha <= HEAD /\ Knows(S, x.c)
            /\ HasBase(n, x.sha) /\ n \notin why.behind[p] => Knows(S, Read(commits[x.sha][n]))
            /\ UNCHANGED why => Learns(p, n, S)
<1>1. DOMAIN why.seen[p] = DOMAIN node[p] /\ CopyOK(p, n, node[p][n])
  BY DEF Sound, ProjectOK, NodesOK
<1>2. n \in Nodes /\ node[p][n] \in CopyRecords /\ why.seen[p][n] \in Known
  BY <1>1, SnapSorts DEF Sound
<1> DEFINE x == [node[p][n] EXCEPT !.scope = mark]
<1>3. x \in CopyRecords /\ x.c = node[p][n].c /\ x.sha = node[p][n].sha
  BY <1>2 DEF CopyRecords
<1>4. UNCHANGED why => Learns(p, n, why.seen[p][n])
  BY <1>1 DEF Learns, Sound, TypeOK
<1> HIDE DEF x
<1>5. CopyOK(p, n, x)
  BY <1>1, <1>3 DEF CopyOK
<1> QED BY <1>1, <1>2, <1>3, <1>4, <1>5 DEF x, CopyOK

LEMMA ForkStep ==
  ASSUME Sound, NEW p \in Projects, NEW n \in Nodes, Fork(p, n)
  PROVE  Sound'
<1> DEFINE x == [node[p][n] EXCEPT !.scope = "local"]
           S == why.seen[p][n]
<1>1. /\ n \in DOMAIN node[p] /\ Saves(p, n, x)
      /\ UNCHANGED <<tree, commits, brief, lock, proc, edits, why>>
  BY DEF Fork
<1>2. /\ x \in CopyRecords /\ S \in Known /\ x.sha <= HEAD /\ Knows(S, x.c)
      /\ HasBase(n, x.sha) /\ n \notin why.behind[p] => Knows(S, Read(commits[x.sha][n]))
      /\ Learns(p, n, S)
  BY <1>1, Scoped DEF Marks
<1>3. Moves(p) /\ brief' \in [Projects -> Trees] /\ edits' \in Nat
  BY <1>1, Standing DEF Sound, TypeOK
<1>4. RestOK(p)'
  <2> HIDE DEF x
  <2>1. node'[p] = With(node[p], n, x)
    BY <1>1, <1>2, Saving DEF Sound
  <2>2. DOMAIN With(node[p], n, x) = DOMAIN node[p] \cup {n}
    BY WithHas
  <2>3. \A m \in DOMAIN node[p] : Remembers(p, m)
    BY <1>1 DEF Remembers
  <2> QED BY <1>1, <2>1, <2>2, <2>3, RestStays
<1> HIDE DEF x, S
<1> QED BY <1>1, <1>2, <1>3, <1>4, SaveStep

LEMMA MergeResolveStep ==
  ASSUME Sound, NEW p \in Projects, NEW n \in Nodes, MergeResolve(p, n)
  PROVE  Sound'
<1> DEFINE t == brief[p][n]
           S == why.seen[p][n] \cup Values(t)
           c(F) == [g \in Fields |-> IF g \in F THEN t[g] ELSE node[p][n].c[g]]
<1>1. PICK F \in SUBSET Fields : Saves(p, n, InStep(c(F), HEAD))
  BY DEF MergeResolve
<1>2. /\ n \in DOMAIN brief[p] /\ n \in DOMAIN node[p]
      /\ brief' = [brief EXCEPT ![p] = Without(@, {n})]
      /\ why' = [why EXCEPT !.seen = Sees(p, n, S), !.behind = Stamps(p, n, HEAD, t)]
      /\ UNCHANGED <<tree, commits, lock, proc, edits>>
  BY DEF MergeResolve
<1> DEFINE x == InStep(c(F), HEAD)
<1>3. DOMAIN why.seen[p] = DOMAIN node[p] /\ CopyOK(p, n, node[p][n])
  BY <1>2 DEF Sound, ProjectOK, NodesOK
<1>4. /\ node[p][n] \in CopyRecords /\ node[p][n].c \in Contents /\ why.seen[p][n] \in Known
      /\ HEAD \in Nat
  BY <1>2, <1>3, SnapSorts, Sorts DEF Sound
<1>5. t \in Contents
  BY <1>2, Sorts, MapHas DEF Sound, Trees
<1>6. S \in Known
  BY <1>4, <1>5, ValuesType DEF Known
<1>7. /\ x \in CopyRecords /\ x.sha = HEAD /\ x.c = c(F) /\ c(F) \in Contents
  BY <1>4, <1>5 DEF InStep, CopyRecords, Marks, Contents
<1>8. Knows(S, c(F)) /\ Knows(S, t)
  BY <1>3, ValuesHas DEF Knows, CopyOK
<1>9. /\ why' \in Histories /\ why'.seen = Sees(p, n, S) /\ why'.behind = Stamps(p, n, HEAD, t)
  BY <1>2, <1>6, Seeing, Stamping DEF Sound, TypeOK, Histories
<1> HIDE DEF S, t, c
<1>10. Learns(p, n, S)
  BY <1>6, <1>9, Learning DEF Sound
<1>11. HasBase(n, HEAD) /\ n \notin why'.behind[p] => Knows(S, Read(commits[HEAD][n]))
  BY <1>8, <1>9, Stamping DEF Sound
<1>12. Moves(p) /\ edits' \in Nat
  BY <1>2, Standing DEF Sound, TypeOK
<1>13. brief' \in [Projects -> Trees]
  <2>1. Without(brief[p], {n}) \in Trees
    BY Sorts, WithoutIsMap DEF Sound, Trees
  <2> QED BY <1>2, <2>1 DEF Sound, TypeOK
<1>14. RestOK(p)'
  <2> HIDE DEF x
  <2>1. node'[p] = With(node[p], n, x)
    BY <1>1, <1>7, Saving DEF Sound, x
  <2>2. DOMAIN With(node[p], n, x) = DOMAIN node[p] \cup {n}
    BY WithHas
  <2>3. \A m \in DOMAIN node[p] : Remembers(p, m)
    BY <1>3, <1>10 DEF Remembers, Learns, S
  <2> QED BY <1>2, <2>1, <2>2, <2>3, RestStays
<1>15. Saves(p, n, x) /\ x.sha <= HEAD /\ Knows(S, x.c)
  BY <1>1, <1>4, <1>7, <1>8
<1> HIDE DEF x
<1> QED BY <1>2, <1>6, <1>7, <1>10, <1>11, <1>12, <1>13, <1>14, <1>15, SaveStep

LEMMA PromoteStep ==
  ASSUME Sound, NEW p \in Projects, NEW n \in Nodes, Promote(p, n)
  PROVE  Sound'
<1> DEFINE x == [node[p][n] EXCEPT !.scope = "workspace"]
           S == why.seen[p][n]
           r == [Idle EXCEPT !.pc = "compare", !.todo = {n}, !.snap = node'[p]]
<1>1. /\ n \in DOMAIN node[p] /\ Saves(p, n, x) /\ Becomes(p, r)
      /\ UNCHANGED <<tree, commits, brief, lock, edits, why>>
  BY DEF Promote
<1>2. /\ x \in CopyRecords /\ S \in Known /\ x.sha <= HEAD /\ Knows(S, x.c)
      /\ HasBase(n, x.sha) /\ n \notin why.behind[p] => Knows(S, Read(commits[x.sha][n]))
      /\ Learns(p, n, S) /\ CopyOK(p, n, x)
  BY <1>1, Scoped DEF Marks
<1> HIDE DEF x
<1>3. /\ node' \in [Projects -> Maps(CopyRecords)]
      /\ node'[p] = With(node[p], n, x)
  BY <1>1, <1>2, Saving DEF Sound
<1>4. DOMAIN node'[p] = DOMAIN node[p] \cup {n}
  <2>1. DOMAIN With(node[p], n, x) = DOMAIN node[p] \cup {n}
    BY WithHas
  <2> QED BY <1>3, <2>1
<1>5. node'[p][n] = x
  BY <1>3, WithHas
<1>6. /\ r \in Processes /\ r.pc = "compare" /\ r.head = 0 /\ r.todo = {n}
      /\ r.snap = node'[p] /\ DOMAIN r.out = {}
  BY <1>3, IdleType, NothingIsMap DEF Processes, PCs
<1> HIDE DEF r
<1>7. Moves(p) /\ proc'[p] = r
  BY <1>1, <1>6 DEF Moves, Becomes, Sound, TypeOK
<1>8. brief' \in [Projects -> Trees] /\ edits' \in Nat /\ HEAD' = HEAD /\ HEAD \in Nat
  BY <1>1, Sorts DEF Sound, TypeOK, HEAD
<1>9. RestOK(p)'
  <2>1. Listed(p)' = {n}
    BY <1>6, <1>7 DEF Listed, At
  <2>2. n \in DOMAIN proc'[p].snap /\ proc'[p].snap[n] = x
    BY <1>1, <1>4, <1>5, <1>6, <1>7
  <2>3. SnapOK(p)'
    BY <1>1, <1>2, <1>8, <2>1, <2>2 DEF SnapOK, CopyOK, HasBase
  <2> QED BY <1>6, <1>7, <1>8, <2>3 DEF RestOK, OutOK, RefersOK, LockOK, WriteOK, NoteOK, At
<1> HIDE DEF S
<1> QED BY <1>1, <1>2, <1>7, <1>8, <1>9, SaveStep

LEMMA CopySavesStep ==
  ASSUME Sound, NEW p \in Projects, NEW n \in Nodes, CopySaves(p, n)
  PROVE  Sound'
<1> DEFINE t == Read(tree[n])
           sha == proc[p].head
           x == InStep(t, sha)
           S == Values(t)
<1>1. /\ Ends(p) /\ UNCHANGED <<tree, commits, brief, edits>>
      /\ IF n \in DOMAIN tree \ DOMAIN node[p]
         THEN /\ Saves(p, n, x)
              /\ why' = [why EXCEPT !.seen = Sees(p, n, S), !.behind = Stamps(p, n, sha, t)]
         ELSE UNCHANGED <<node, why>>
  BY DEF CopySaves
<1>2. Moves(p) /\ proc'[p] = Idle
  BY <1>1, Ending DEF Sound, GoesOn
<1>3. CASE n \in DOMAIN tree \ DOMAIN node[p]
  <2>1. t \in Contents /\ S \in Known
    BY <1>3, Sorts, ReadType, ValuesType DEF Sound
  <2>2. sha \in Nat /\ sha <= HEAD
    BY SnapSorts DEF Sound, ProjectOK, RefersOK
  <2>3. x \in CopyRecords /\ x.sha = sha /\ x.c = t
    BY <2>1, <2>2 DEF InStep, CopyRecords, Marks
  <2>5. Knows(S, t)
    BY ValuesHas DEF Knows
  <2>10. why' = [why EXCEPT !.seen = Sees(p, n, S), !.behind = Stamps(p, n, sha, t)]
    BY <1>1, <1>3
  <2> HIDE DEF S, t, sha
  <2>4. /\ why' \in Histories /\ why'.seen = Sees(p, n, S) /\ why'.behind = Stamps(p, n, sha, t)
    BY <2>1, <2>10, Seeing, Stamping DEF Sound, TypeOK, Histories
  <2>6. Learns(p, n, S)
    BY <2>1, <2>4, Learning DEF Sound
  <2>7. HasBase(n, sha) /\ n \notin why'.behind[p] => Knows(S, Read(commits[sha][n]))
    BY <2>4, <2>5, Stamping DEF Sound
  <2>8. brief' \in [Projects -> Trees] /\ edits' \in Nat
    BY <1>1 DEF Sound, TypeOK
  <2>9. Saves(p, n, x)
    BY <1>1, <1>3
  <2> HIDE DEF x
  <2> QED BY <1>1, <1>2, <2>1, <2>2, <2>3, <2>5, <2>6, <2>7, <2>8, <2>9, SaveStep
<1>4. CASE n \notin DOMAIN tree \ DOMAIN node[p]
  BY <1>1, <1>2, <1>4, Quiet
<1> QED BY <1>3, <1>4

\* A pull that goes on, knowing no less.
LEMMA PullGoes ==
  ASSUME Sound, NEW p \in Projects, At(p, "pull"), UNCHANGED <<tree, commits>>,
         \A m \in DOMAIN node[p] : Remembers(p, m) /\ m \in DOMAIN node'[p]
  PROVE  \A r :
           /\ r.pc = "pull" /\ r.head = proc[p].head /\ r.snap = proc[p].snap
           /\ r.todo \cup DOMAIN r.out \subseteq Listed(p)
           /\ \A m \in DOMAIN r.out : Spares(p, m, r.out[m].c) /\ DraftOK(p, m, r.out[m])
           /\ proc'[p] = r
           => RestOK(p)'
<1> SUFFICES ASSUME NEW r, r.pc = "pull", r.head = proc[p].head, r.snap = proc[p].snap,
                    r.todo \cup DOMAIN r.out \subseteq Listed(p),
                    \A m \in DOMAIN r.out : Spares(p, m, r.out[m].c) /\ DraftOK(p, m, r.out[m]),
                    proc'[p] = r
             PROVE  RestOK(p)'
  OBVIOUS
<1>1. Grows /\ HEAD' = HEAD
  BY Growing DEF Sound, HEAD
<1>2. SnapOK(p)'
  <2>1. Listed(p)' = r.todo \cup DOMAIN r.out
    BY DEF Listed, At
  <2>2. ASSUME NEW m \in Listed(p)
        PROVE  m \in DOMAIN r.snap /\ CopyOK(p, m, r.snap[m])'
    <3>1. /\ m \in DOMAIN r.snap /\ m \in DOMAIN node[p]
          /\ r.snap[m].sha \in Nat /\ CopyOK(p, m, r.snap[m])
      BY ListedHas
    <3> QED BY <1>1, <3>1, CopyStays DEF CopyOK
  <2> QED BY <2>1, <2>2 DEF SnapOK
<1>3. OutOK(p)'
  <2>1. ASSUME NEW m \in DOMAIN r.out
        PROVE  /\ m \in DOMAIN r.snap
               /\ Spares(p, m, r.out[m].c)'
               /\ DraftOK(p, m, r.out[m])'
    <3>1. m \in DOMAIN r.snap /\ Remembers(p, m)
      BY ListedHas
    <3>2. Spares(p, m, r.out[m].c)'
      BY DEF Spares, Published
    <3> QED BY <3>1, <3>2 DEF DraftOK, Remembers
  <2> QED BY <2>1 DEF OutOK, At
<1>4. RefersOK(p)'
  BY <1>1 DEF Sound, ProjectOK, RefersOK, At
<1> QED BY <1>2, <1>3, <1>4 DEF RestOK, LockOK, WriteOK, NoteOK, At

LEMMA PullNodeStep ==
  ASSUME Sound, NEW p \in Projects, NEW n \in Nodes, PullNode(p, n)
  PROVE  Sound'
<1> DEFINE o == proc[p].snap[n].c
           t == Read(tree[n])
           b == Read(commits[proc[p].snap[n].sha][n])
           s == Status(b, o, t)
           c == Merged(b, o, t)
           d == [c |-> c, theirs |-> t]
           out == IF s = "conflict" THEN With(proc[p].out, n, d) ELSE proc[p].out
           r == [proc[p] EXCEPT !.todo = @ \ {n},
                                !.out = IF s = "conflict" THEN With(@, n, d) ELSE @]
           head == proc[p].head
           x == InStep(c, head)
           S == why.seen[p][n] \cup (Values(c) \cap Values(t))
<1>1. /\ At(p, "pull") /\ n \in proc[p].todo
      /\ n \in DOMAIN tree /\ HasBase(n, proc[p].snap[n].sha)
      /\ Goes(p, r) /\ UNCHANGED <<tree, commits, brief, edits>>
      /\ IF s \in {"fast_forward", "auto_merged"}
         THEN /\ Saves(p, n, x)
              /\ why' = [why EXCEPT !.seen = Sees(p, n, S), !.behind = Stamps(p, n, head, t),
                                    !.dropped = @ \cup Dropped(p, n, c)]
         ELSE UNCHANGED <<node, why>>
  BY DEF PullNode
<1>2. n \in Listed(p) /\ proc[p] \in Processes
  BY <1>1, Sorts DEF Listed, At, Sound
<1>3. /\ t \in Contents /\ c \in Contents /\ S \in Known /\ Knows(S, c) /\ Spares(p, n, c)
      /\ \A f \in Fields : c[f] \in {0, t[f]} \/ <<f, c[f]>> \in why.seen[p][n]
      /\ s # "conflict" /\ n \notin why.behind[p] => Knows(S, t)
  BY <1>1, <1>2, MergeOK
<1>4. /\ head \in Nat /\ head <= HEAD /\ OutOK(p) /\ NodesOK(p)
      /\ DOMAIN proc[p].snap \subseteq DOMAIN node[p]
  BY SnapSorts DEF Sound, ProjectOK, RefersOK
<1> HIDE DEF t, c, s, head
<1>5. d \in Drafts /\ Spares(p, n, d.c) /\ DraftOK(p, n, d)
  BY <1>3 DEF Drafts, DraftOK
<1>6. \A m \in DOMAIN proc[p].out :
        m \in Nodes /\ Spares(p, m, proc[p].out[m].c) /\ DraftOK(p, m, proc[p].out[m])
  BY <1>1, <1>4, SnapSorts DEF OutOK, At, Sound
<1>7. proc[p].out \in Maps(Drafts)
  <2>1. proc[p].out = [m \in DOMAIN proc[p].out |-> proc[p].out[m]]
    BY <1>2 DEF Processes, Maps
  <2>2. DOMAIN proc[p].out \subseteq Nodes /\ \A m \in DOMAIN proc[p].out : proc[p].out[m] \in Drafts
    BY <1>6 DEF DraftOK
  <2> QED BY <2>1, <2>2, MapIs
<1>8. /\ out \in Maps(Drafts) /\ DOMAIN out \subseteq DOMAIN proc[p].out \cup {n}
      /\ \A m \in DOMAIN out : Spares(p, m, out[m].c) /\ DraftOK(p, m, out[m])
  <2>1. CASE s = "conflict"
    <3> HIDE DEF d
    <3>1. out = With(proc[p].out, n, d) /\ out \in Maps(Drafts)
      BY <1>5, <1>7, <2>1, WithIsMap
    <3>2. DOMAIN With(proc[p].out, n, d) = DOMAIN proc[p].out \cup {n}
      BY WithHas
    <3>3. With(proc[p].out, n, d)[n] = d
      BY WithHas
    <3>4. \A m \in DOMAIN proc[p].out : m # n => With(proc[p].out, n, d)[m] = proc[p].out[m]
      BY WithHas
    <3>5. \A m \in DOMAIN out : m = n \/ m \in DOMAIN proc[p].out
      BY <3>1, <3>2
    <3> HIDE DEF out
    <3>6. ASSUME NEW m \in DOMAIN out
          PROVE  Spares(p, m, out[m].c) /\ DraftOK(p, m, out[m])
      <4>1. CASE m = n
        BY <1>5, <3>1, <3>3, <4>1
      <4>2. CASE m # n
        BY <1>6, <3>1, <3>4, <3>5, <4>2
      <4> QED BY <4>1, <4>2
    <3> QED BY <3>1, <3>2, <3>6
  <2>2. CASE s # "conflict"
    BY <1>6, <1>7, <2>2
  <2> QED BY <2>1, <2>2
<1> HIDE DEF d
<1>9. /\ r \in Processes
      /\ r.pc = "pull" /\ r.head = proc[p].head /\ r.snap = proc[p].snap
      /\ r.todo = proc[p].todo \ {n} /\ r.out = out
  <2>1. r = [proc[p] EXCEPT !.todo = @ \ {n}, !.out = out]
    BY <1>2 DEF Processes
  <2> HIDE DEF out, r
  <2> QED BY <1>1, <1>2, <1>8, <2>1 DEF Processes, At
<1> HIDE DEF out, r
<1>10. r.todo \cup DOMAIN r.out \subseteq Listed(p)
  BY <1>1, <1>2, <1>8, <1>9 DEF Listed, At
<1>11. GoesOn(p, r)
  BY <1>1, <1>9, Becoming DEF Sound
<1>12. CASE s \in {"fast_forward", "auto_merged"}
  <2>1. Saves(p, n, x) /\ why' = [why EXCEPT !.seen = Sees(p, n, S), !.behind = Stamps(p, n, head, t),
                                             !.dropped = @ \cup Dropped(p, n, c)]
    BY <1>1, <1>12
  <2>2. x \in CopyRecords /\ x.sha = head /\ x.c = c
    BY <1>3, <1>4 DEF InStep, CopyRecords, Marks
  <2> HIDE DEF x
  <2>3. S \in Known /\ why.seen[p][n] \subseteq S
    BY <1>3
  <2> HIDE DEF S
  <2>4. /\ why' \in Histories /\ why'.seen = Sees(p, n, S) /\ why'.behind = Stamps(p, n, head, t)
    <3>1. why \in Histories /\ why.dropped \cup Dropped(p, n, c) \in SUBSET {"merged", "meanwhile"}
      BY DroppedType DEF Sound, TypeOK, Histories
    <3>2. Sees(p, n, S) \in [Projects -> Maps(Known)]
      BY <2>3, Seeing DEF Sound
    <3>3. Stamps(p, n, head, t) \in [Projects -> SUBSET Nodes]
      BY Stamping DEF Sound
    <3> QED BY <2>1, <3>1, <3>2, <3>3 DEF Histories
  <2>5. Learns(p, n, S)
    BY <2>3, <2>4, Learning DEF Sound
  <2>6. HasBase(n, head) /\ n \notin why'.behind[p] => Knows(S, Read(commits[head][n]))
    <3>1. n \notin why'.behind[p] => n \notin why.behind[p]
      BY <2>5 DEF Learns
    <3>2. HasBase(n, head) /\ n \notin why'.behind[p] => Read(commits[head][n]) = t
      BY <2>4, Stamping DEF Sound
    <3> QED BY <1>3, <1>12, <3>1, <3>2 DEF S
  <2>7. \A m \in DOMAIN node[p] : Remembers(p, m)
    BY <1>4, <2>3, <2>5 DEF Remembers, Learns, NodesOK
  <2>8. DOMAIN node[p] \subseteq DOMAIN node'[p]
    <3>1. node'[p] = With(node[p], n, x)
      BY <2>1, <2>2, Saving DEF Sound
    <3>2. DOMAIN With(node[p], n, x) = DOMAIN node[p] \cup {n}
      BY WithHas
    <3> QED BY <3>1, <3>2
  <2>9. proc'[p] = r => RestOK(p)'
    BY <1>1, <1>8, <1>9, <1>10, <2>7, <2>8, PullGoes
  <2>10. brief' \in [Projects -> Trees] /\ edits' \in Nat /\ Moves(p)
    BY <1>1, <1>11 DEF Sound, TypeOK, GoesOn
  <2>11. Knows(S, x.c) /\ x.sha <= HEAD
    BY <1>3, <1>4, <2>2 DEF S
  <2> QED BY <1>1, <1>11, <2>1, <2>2, <2>3, <2>5, <2>6, <2>9, <2>10, <2>11, SaveStep DEF GoesOn
<1>13. CASE s \notin {"fast_forward", "auto_merged"}
  <2>1. UNCHANGED <<node, why>>
    BY <1>1, <1>13
  <2>2. \A m : Remembers(p, m)
    BY <2>1 DEF Remembers
  <2>3. proc'[p] = r => RestOK(p)'
    BY <1>1, <1>8, <1>9, <1>10, <2>1, <2>2, PullGoes
  <2> QED BY <1>1, <1>11, <2>1, <2>3, Quiet DEF GoesOn
<1> QED BY <1>12, <1>13

LEMMA PullDraftsStep ==
  ASSUME Sound, NEW p \in Projects, NEW n \in Nodes, PullDrafts(p, n)
  PROVE  Sound'
<1> DEFINE c == proc[p].out[n].c
           t == proc[p].out[n].theirs
           sha == proc[p].snap[n].sha
           r == [proc[p] EXCEPT !.out = Without(@, {n})]
           x == InStep(c, sha)
           S == why.seen[p][n] \cup (Values(c) \cap Values(t))
<1>1. /\ At(p, "pull") /\ n \in DOMAIN proc[p].out
      /\ brief' = [brief EXCEPT ![p] = With(@, n, t)]
      /\ Saves(p, n, x)
      /\ why' = [why EXCEPT !.seen = Sees(p, n, S), !.dropped = @ \cup Dropped(p, n, c)]
      /\ Goes(p, r) /\ UNCHANGED <<tree, commits, edits>>
  BY DEF PullDrafts
<1>2. n \in Listed(p) /\ proc[p] \in Processes
  BY <1>1, Sorts DEF Listed, At, Sound
<1>3. OutOK(p) /\ NodesOK(p)
  BY DEF Sound, ProjectOK
<1>4. DraftOK(p, n, proc[p].out[n]) /\ c \in Contents /\ t \in Contents
  BY <1>1, <1>3 DEF OutOK, DraftOK, Drafts
<1>5. /\ sha \in Nat /\ why.seen[p][n] \in Known /\ CopyOK(p, n, proc[p].snap[n])
      /\ sha <= HEAD
  BY <1>2, ListedHas DEF CopyOK
<1>6. S \in Known /\ why.seen[p][n] \subseteq S
  BY <1>4, <1>5, ValuesType DEF Known
<1>7. Knows(S, c)
  <2>1. \A f \in Fields : c[f] # 0 /\ c[f] = t[f] => <<f, c[f]>> \in S
    BY ValuesHas
  <2> QED BY <1>4, <2>1 DEF DraftOK, Knows
<1>8. x \in CopyRecords /\ x.sha = sha /\ x.c = c
  BY <1>4, <1>5 DEF InStep, CopyRecords, Marks
<1>9. /\ r \in Processes
      /\ r.pc = "pull" /\ r.head = proc[p].head /\ r.snap = proc[p].snap
      /\ r.todo = proc[p].todo /\ r.out = Without(proc[p].out, {n})
  <2>1. proc[p].out \in Maps(Drafts) \cup Maps(Writes)
    BY <1>2 DEF Processes
  <2>2. Without(proc[p].out, {n}) \in Maps(Drafts) \cup Maps(Writes)
    BY <2>1, WithoutIsMap
  <2> QED BY <1>1, <1>2, <2>2 DEF Processes, At
<1>10. /\ r.todo \cup DOMAIN r.out \subseteq Listed(p)
       /\ \A m \in DOMAIN r.out : Spares(p, m, r.out[m].c) /\ DraftOK(p, m, r.out[m])
  <2> HIDE DEF r
  <2>1. DOMAIN r.out = DOMAIN proc[p].out \ {n}
    BY <1>9, WithoutHas
  <2>2. \A m \in DOMAIN proc[p].out \ {n} : r.out[m] = proc[p].out[m]
    BY <1>9, WithoutHas
  <2> QED BY <1>1, <1>3, <1>9, <2>1, <2>2 DEF Listed, At, OutOK
<1> HIDE DEF r, x, sha, S, c, t
<1>11. GoesOn(p, r)
  BY <1>1, <1>9, Becoming DEF Sound
<1>12. why' \in Histories /\ why'.seen = Sees(p, n, S) /\ why'.behind = why.behind
  <2>1. why \in Histories /\ why.dropped \cup Dropped(p, n, c) \in SUBSET {"merged", "meanwhile"}
    BY DroppedType DEF Sound, TypeOK, Histories
  <2>2. Sees(p, n, S) \in [Projects -> Maps(Known)]
    BY <1>6, Seeing DEF Sound
  <2> QED BY <1>1, <2>1, <2>2 DEF Histories
<1>13. Learns(p, n, S)
  BY <1>6, <1>12, Learning DEF Sound
<1>14. HasBase(n, x.sha) /\ n \notin why'.behind[p] => Knows(S, Read(commits[x.sha][n]))
  BY <1>5, <1>6, <1>8, <1>12 DEF CopyOK, Knows, sha
<1>15. \A m \in DOMAIN node[p] : Remembers(p, m)
  BY <1>3, <1>6, <1>13 DEF Remembers, Learns, NodesOK
<1>16. DOMAIN node[p] \subseteq DOMAIN node'[p]
  <2>1. node'[p] = With(node[p], n, x)
    BY <1>1, <1>8, Saving DEF Sound
  <2>2. DOMAIN With(node[p], n, x) = DOMAIN node[p] \cup {n}
    BY WithHas
  <2> QED BY <2>1, <2>2
<1>17. proc'[p] = r => RestOK(p)'
  BY <1>1, <1>9, <1>10, <1>15, <1>16, PullGoes
<1>18. brief' \in [Projects -> Trees]
  <2>1. With(brief[p], n, t) \in Trees
    BY <1>4, Sorts, WithIsMap DEF Sound, Trees
  <2> QED BY <1>1, <2>1 DEF Sound, TypeOK
<1>19. edits' \in Nat /\ Moves(p)
  BY <1>1, <1>11 DEF Sound, TypeOK, GoesOn
<1>20. x.sha <= HEAD /\ Knows(S, x.c)
  BY <1>5, <1>7, <1>8
<1> QED BY <1>1, <1>6, <1>8, <1>11, <1>13, <1>14, <1>17, <1>18, <1>19, <1>20, SaveStep DEF GoesOn

LEMMA PushNotesStep ==
  ASSUME Sound, NEW p \in Projects, NEW n \in Nodes, PushNotes(p, n)
  PROVE  Sound'
<1> DEFINE y == proc[p].out[n]
           head == proc[p].head
           r == [proc[p] EXCEPT !.todo = @ \ {n}, !.out = Without(@, {n})]
           x == InStep(y.c, head)
<1>1. /\ At(p, "note") /\ n \in proc[p].todo
      /\ Saves(p, n, x)
      /\ why' = [why EXCEPT !.seen = Sees(p, n, y.seen), !.dropped = @ \cup Dropped(p, n, y.c)]
      /\ Goes(p, r) /\ UNCHANGED <<tree, commits, brief, edits>>
  BY DEF PushNotes
<1>2. /\ proc[p] \in Processes /\ proc[p].pc = "note"
      /\ OutOK(p) /\ NodesOK(p) /\ RefersOK(p) /\ NoteOK(p) /\ LockOK(p)
  BY <1>1, Sorts DEF Sound, ProjectOK, At
<1>3. n \in DOMAIN proc[p].out /\ WritingOK(p, n, y)
  BY <1>1, <1>2 DEF RefersOK, OutOK, At
<1>4. /\ y.c \in Contents /\ y.seen \in Known /\ Knows(y.seen, y.c)
      /\ head \in Nat /\ head <= HEAD
      /\ HasBase(n, head) /\ commits[head][n] = y.c
  BY <1>1, <1>2, <1>3, SnapSorts DEF WritingOK, Writes, RefersOK, NoteOK, Sound
<1>5. Knows(y.seen, Read(commits[head][n]))
  BY <1>4, ReadType DEF Knows
<1>6. x \in CopyRecords /\ x.sha = head /\ x.c = y.c
  BY <1>4 DEF InStep, CopyRecords, Marks
<1>7. /\ r \in Processes
      /\ r.pc = "note" /\ r.head = proc[p].head /\ r.snap = proc[p].snap
      /\ r.todo = proc[p].todo \ {n} /\ r.out = Without(proc[p].out, {n})
  <2>1. proc[p].out \in Maps(Drafts) \cup Maps(Writes)
    BY <1>2 DEF Processes
  <2>2. Without(proc[p].out, {n}) \in Maps(Drafts) \cup Maps(Writes)
    BY <2>1, WithoutIsMap
  <2> QED BY <1>2, <2>2 DEF Processes
<1> HIDE DEF r, x, y, head
<1>8. /\ DOMAIN r.out = DOMAIN proc[p].out \ {n}
      /\ \A m \in DOMAIN proc[p].out \ {n} : r.out[m] = proc[p].out[m]
  <2>1. DOMAIN r.out = DOMAIN proc[p].out \ {n}
    BY <1>7, WithoutHas
  <2>2. \A m \in DOMAIN proc[p].out \ {n} : r.out[m] = proc[p].out[m]
    BY <1>7, WithoutHas
  <2> QED BY <2>1, <2>2
<1>9. GoesOn(p, r)
  BY <1>1, <1>7, Becoming DEF Sound
<1>10. why' \in Histories /\ why'.seen = Sees(p, n, y.seen) /\ why'.behind = why.behind
  <2>1. why \in Histories /\ why.dropped \cup Dropped(p, n, y.c) \in SUBSET {"merged", "meanwhile"}
    BY DroppedType DEF Sound, TypeOK, Histories
  <2>2. Sees(p, n, y.seen) \in [Projects -> Maps(Known)]
    BY <1>4, Seeing DEF Sound
  <2> QED BY <1>1, <2>1, <2>2 DEF Histories
<1>11. Learns(p, n, y.seen)
  BY <1>4, <1>10, Learning DEF Sound
<1>12. DOMAIN node[p] \subseteq DOMAIN node'[p]
  <2>1. node'[p] = With(node[p], n, x)
    BY <1>1, <1>6, Saving DEF Sound
  <2>2. DOMAIN With(node[p], n, x) = DOMAIN node[p] \cup {n}
    BY WithHas
  <2> QED BY <2>1, <2>2
<1>13. ASSUME proc'[p] = r, lock' = lock PROVE RestOK(p)'
  <2>1. Listed(p)' = {}
    BY <1>7, <1>13 DEF Listed, At
  <2>2. OutOK(p)'
    <3>1. ASSUME NEW m \in DOMAIN r.out
          PROVE  /\ m \in DOMAIN r.snap
                 /\ Spares(p, m, proc[p].out[m].c)'
                 /\ WritingOK(p, m, proc[p].out[m])'
      <4>1. r.out[m] = proc[p].out[m] /\ m \in DOMAIN proc[p].out
        BY <1>8
      <4>2. /\ m \in DOMAIN proc[p].snap /\ Spares(p, m, proc[p].out[m].c)
            /\ WritingOK(p, m, proc[p].out[m])
        BY <1>2, <4>1 DEF OutOK, At
      <4> QED BY <1>1, <1>7, <1>10, <1>13, <4>1, <4>2 DEF Spares, Published, WritingOK
    <3> QED BY <1>7, <1>13, <3>1 DEF OutOK, At
  <2>3. RefersOK(p)'
    BY <1>1, <1>2, <1>7, <1>8, <1>12, <1>13 DEF RefersOK, At, HEAD
  <2>4. NoteOK(p)'
    BY <1>1, <1>2, <1>7, <1>8, <1>13 DEF NoteOK, At, HasBase
  <2> QED BY <1>2, <1>7, <1>13, <2>1, <2>2, <2>3, <2>4 DEF RestOK, SnapOK, LockOK, WriteOK, At
<1>14. brief' \in [Projects -> Trees] /\ edits' \in Nat /\ Moves(p)
  BY <1>1, <1>9 DEF Sound, TypeOK, GoesOn
<1>15. proc'[p] # Idle => RestOK(p)'
  BY <1>9, <1>13 DEF GoesOn
<1>16. /\ x.sha <= HEAD /\ Knows(y.seen, x.c)
       /\ HasBase(n, x.sha) /\ n \notin why'.behind[p] => Knows(y.seen, Read(commits[x.sha][n]))
  BY <1>4, <1>5, <1>6
<1> QED BY <1>1, <1>4, <1>6, <1>11, <1>14, <1>15, <1>16, SaveStep

-----------------------------------------------------------------------------
(* The actions on the workspace.                                           *)

LEMMA PushWritesStep ==
  ASSUME Sound, NEW p \in Projects, NEW n \in Nodes, PushWrites(p, n)
  PROVE  Sound'
<1> DEFINE c == proc[p].out[n].c
           r == [proc[p] EXCEPT !.todo = @ \ {n}]
           Lost == [f \in Fields |-> IF f \in LostBy(p, n) /\ why.lost[f] = "no"
                                     THEN How(p, n, f) ELSE why.lost[f]]
<1>1. /\ At(p, "write") /\ n \in proc[p].todo
      /\ tree' = With(tree, n, c) /\ Becomes(p, r)
      /\ why' = [why EXCEPT !.lost = Lost]
      /\ UNCHANGED <<commits, node, brief, lock, edits>>
  BY DEF PushWrites
<1>2. /\ proc[p] \in Processes /\ proc[p].pc = "write"
      /\ OutOK(p) /\ NodesOK(p) /\ RefersOK(p) /\ WriteOK(p) /\ lock = p
  BY <1>1, Sorts DEF Sound, ProjectOK, At, LockOK
<1>3. n \in DOMAIN proc[p].out /\ c \in Contents
  BY <1>1, <1>2 DEF RefersOK, OutOK, At, WritingOK, Writes
<1>4. /\ r \in Processes
      /\ r.pc = "write" /\ r.head = proc[p].head /\ r.snap = proc[p].snap
      /\ r.todo = proc[p].todo \ {n} /\ r.out = proc[p].out
  BY <1>2 DEF Processes
<1> HIDE DEF r
<1>5. Moves(p) /\ proc'[p] = r
  BY <1>1, <1>4 DEF Moves, Becomes, Sound, TypeOK
<1>6. /\ why' \in Histories /\ why'.seen = why.seen /\ why'.behind = why.behind
  <2>1. why \in Histories
    BY DEF Sound, TypeOK
  <2>2. Lost \in [Fields -> Ways]
    BY <2>1 DEF Histories, How, Ways
  <2> HIDE DEF Lost
  <2> QED BY <1>1, <2>1, <2>2 DEF Histories
<1> HIDE DEF c
<1>7. tree' \in Trees
  BY <1>1, <1>3, WithIsMap DEF Sound, TypeOK, Trees
<1>8. TypeOK'
  BY <1>1, <1>5, <1>6, <1>7 DEF Sound, TypeOK, Moves, HEAD
<1>9. Grows
  BY <1>1, Growing DEF Sound
<1>10. \A q \in Projects \ {p} : Alone(q)
  <2>1. \A q \in Projects \ {p} : ~At(q, "write")
    BY <1>2 DEF Sound, ProjectOK, LockOK
  <2> QED BY <1>1, <1>5, <1>6, <2>1 DEF Alone, Moves
<1>11. NodesOK(p)'
  BY <1>1, <1>2, <1>6, <1>9, NodesStay DEF Sound
<1>12. RestOK(p)'
  <2>1. Listed(p)' = {}
    BY <1>4, <1>5 DEF Listed, At
  <2>2. OutOK(p)'
    BY <1>1, <1>2, <1>4, <1>5, <1>6, OutCarries
  <2>3. RefersOK(p)'
    BY <1>1, <1>2, <1>4, <1>5 DEF RefersOK, At, HEAD
  <2>4. WriteOK(p)'
    <3>1. DOMAIN tree' = DOMAIN tree \cup {n}
      BY <1>1, WithHas
    <3>2. tree'[n] = c
      BY <1>1, WithHas
    <3>3. \A m \in DOMAIN tree : m # n => tree'[m] = tree[m]
      BY <1>1, WithHas
    <3> QED BY <1>2, <1>4, <1>5, <3>1, <3>2, <3>3 DEF WriteOK, At, c
  <2> QED BY <1>1, <1>2, <1>4, <1>5, <2>1, <2>2, <2>3, <2>4 DEF RestOK, SnapOK, LockOK, NoteOK, At
<1> QED BY <1>8, <1>9, <1>10, <1>11, <1>12, OneActs

LEMMA PushCommitsStep ==
  ASSUME Sound, NEW p \in Projects, PushCommits(p)
  PROVE  Sound'
<1> DEFINE r == [proc[p] EXCEPT !.pc = "note", !.todo = DOMAIN proc[p].out, !.head = HEAD + 1]
<1>1. /\ At(p, "write") /\ proc[p].todo = {} /\ UNCHANGED <<tree, node, brief, edits, why>>
  BY DEF PushCommits
<1>2. CASE tree = commits[HEAD]
  <2>1. Ends(p) /\ UNCHANGED commits
    BY <1>2 DEF PushCommits
  <2>2. Moves(p) /\ proc'[p] = Idle
    BY <2>1, Ending DEF GoesOn, Sound
  <2> QED BY <1>1, <2>1, <2>2, Quiet
<1>3. CASE tree # commits[HEAD]
  <2>1. commits' = Append(commits, tree) /\ Becomes(p, r) /\ UNCHANGED lock
    BY <1>3 DEF PushCommits
  <2>2. /\ proc[p] \in Processes /\ proc[p].pc = "write" /\ HEAD \in Nat
        /\ OutOK(p) /\ NodesOK(p) /\ RefersOK(p) /\ WriteOK(p) /\ LockOK(p)
        /\ DOMAIN proc[p].out \subseteq Nodes
    BY <1>1, Sorts, SnapSorts DEF Sound, ProjectOK, At
  <2>3. /\ r \in Processes
        /\ r.pc = "note" /\ r.head = HEAD + 1 /\ r.snap = proc[p].snap
        /\ r.todo = DOMAIN proc[p].out /\ r.out = proc[p].out
    <3>1. HEAD + 1 \in Nat
      BY <2>2
    <3> QED BY <2>2, <3>1 DEF Processes, PCs
  <2> HIDE DEF r
  <2>4. Moves(p) /\ proc'[p] = r
    BY <2>1, <2>3 DEF Moves, Becomes, Sound, TypeOK
  <2>5. tree \in Trees /\ commits \in Seq(Trees)
    BY DEF Sound, TypeOK
  <2>6. Grows /\ commits' \in Seq(Trees) /\ HEAD' > 0
    BY <2>1, <2>5, Growing DEF Sound
  <2>7. HEAD' = HEAD + 1 /\ commits'[HEAD + 1] = tree
    BY <2>1, <2>2, <2>5 DEF HEAD
  <2>8. TypeOK'
    BY <1>1, <2>4, <2>6 DEF Sound, TypeOK, Moves, HEAD
  <2>9. \A q \in Projects \ {p} : Alone(q)
    BY <1>1, <2>4 DEF Alone, Moves
  <2>10. NodesOK(p)'
    BY <1>1, <2>2, <2>6, NodesStay DEF Sound
  <2>11. RestOK(p)'
    <3>1. Listed(p)' = {}
      BY <2>3, <2>4 DEF Listed, At
    <3>2. OutOK(p)'
      <4>1. ASSUME NEW m \in DOMAIN proc[p].out
            PROVE  /\ m \in DOMAIN proc[p].snap
                   /\ Spares(p, m, proc[p].out[m].c)'
                   /\ WritingOK(p, m, proc[p].out[m])'
        <5>1. /\ m \in DOMAIN proc[p].snap /\ Spares(p, m, proc[p].out[m].c)
              /\ WritingOK(p, m, proc[p].out[m])
          BY <2>2 DEF OutOK, At
        <5>2. \A f, v : Published(m, f, v) => Published(m, f, v)'
          BY <2>6, BaseStays
        <5> QED BY <1>1, <2>3, <2>4, <5>1, <5>2 DEF Spares, WritingOK
      <4> QED BY <2>3, <2>4, <4>1 DEF OutOK, At
    <3>3. RefersOK(p)'
      BY <1>1, <2>2, <2>3, <2>4, <2>7 DEF RefersOK, At
    <3>4. NoteOK(p)'
      <4>1. \A m \in DOMAIN proc[p].out : m \in DOMAIN tree /\ tree[m] = proc[p].out[m].c
        BY <1>1, <2>2 DEF WriteOK
      <4>2. HEAD + 1 \in DOMAIN commits'
        BY <2>2, <2>6, <2>7 DEF Grows
      <4> QED BY <2>3, <2>4, <2>7, <4>1, <4>2 DEF NoteOK, HasBase
    <3> QED BY <1>1, <2>1, <2>2, <2>3, <2>4, <3>1, <3>2, <3>3, <3>4
            DEF RestOK, SnapOK, LockOK, WriteOK, At
  <2> QED BY <2>6, <2>8, <2>9, <2>10, <2>11, OneActs
<1> QED BY <1>2, <1>3

LEMMA DeleteUpstreamStep ==
  ASSUME Sound, NEW n \in Nodes, DeleteUpstream(n)
  PROVE  Sound'
<1>1. /\ lock = Nobody
      /\ tree' = Without(tree, {n})
      /\ commits' = Append(commits, Without(commits[HEAD], {n}))
      /\ UNCHANGED <<node, brief, lock, proc, edits, why>>
  BY DEF DeleteUpstream
<1>2. tree \in Trees /\ commits[HEAD] \in Trees
  BY Sorts DEF Sound, TypeOK
<1>3. tree' \in Trees /\ Without(commits[HEAD], {n}) \in Trees
  BY <1>1, <1>2, WithoutIsMap DEF Trees
<1>4. Grows /\ commits' \in Seq(Trees) /\ HEAD' > 0
  BY <1>1, <1>3, Growing DEF Sound
<1>5. TypeOK'
  BY <1>1, <1>3, <1>4 DEF Sound, TypeOK, HEAD
<1>6. \A q \in Projects : ~At(q, "write")
  BY <1>1, SyncAssumption DEF Sound, ProjectOK, LockOK
<1>7. \A q \in Projects : Alone(q)
  BY <1>1, <1>6 DEF Alone
<1> QED BY <1>4, <1>5, <1>7, AloneStays DEF Sound

-----------------------------------------------------------------------------
(* Where it begins.                                                        *)

\* Copies of nodes that each have what the workspace had when they were made, or
\* what a project has made of it since.
Begun(p, sha, g) ==
  /\ node[p] = [n \in Nodes |-> InStep(Read(g[n]), sha)]
  /\ why.seen[p] = [n \in Nodes |-> Values(node[p][n].c) \cup Values(Read(Fresh[n]))]
  /\ why.behind[p] = {}
  /\ sha \in DOMAIN commits
  /\ \A n \in Nodes : commits[sha][n] \in {Fresh[n], g[n]}

LEMMA BegunOK ==
  ASSUME NEW p \in Projects, TypeOK, NEW sha, NEW g \in [Nodes -> Contents], Begun(p, sha, g)
  PROVE  NodesOK(p)
<1>1. DOMAIN why.seen[p] = Nodes /\ DOMAIN node[p] = Nodes
  BY DEF Begun
<1>2. ASSUME NEW n \in Nodes PROVE CopyOK(p, n, node[p][n])
  <2>1. node[p][n] = InStep(Read(g[n]), sha) /\ sha \in 1..HEAD
    BY Sorts DEF Begun
  <2>2. node[p][n].c = Read(g[n]) /\ node[p][n].sha = sha /\ sha <= HEAD
    BY <2>1, Sorts DEF InStep
  <2>3. why.seen[p][n] = Values(Read(g[n])) \cup Values(Read(Fresh[n]))
    BY <2>2 DEF Begun
  <2>4. Knows(why.seen[p][n], Read(g[n])) /\ Knows(why.seen[p][n], Read(Fresh[n]))
    BY <2>3, ValuesHas DEF Knows
  <2>5. Read(commits[sha][n]) \in {Read(Fresh[n]), Read(g[n])}
    BY DEF Begun
  <2> QED BY <2>2, <2>4, <2>5 DEF CopyOK
<1> QED BY <1>1, <1>2 DEF NodesOK

LEMMA InitOK ==
  ASSUME Init
  PROVE  Sound /\ NothingLostUpstream /\ NothingDroppedHere
<1>1. Fresh \in [Nodes -> Contents]
  BY DEF Fresh, Contents
<1>2. \A f \in Fields : Edited(f, 2) \in [Nodes -> Contents] /\ Edited(f, 3) \in [Nodes -> Contents]
  BY <1>1 DEF Edited, Contents
<1>3. [Nodes -> Contents] \subseteq Trees
  BY DEF Trees, Maps
<1>4. \A g \in [Nodes -> Contents] : \A n \in Nodes : Read(g[n]) \in Contents
  BY ReadType
<1>5. \A g \in [Nodes -> Contents], sha \in Nat :
        /\ Copies(g, sha) \in [Nodes -> CopyRecords]
        /\ Copies(g, sha) = [n \in Nodes |-> InStep(Read(g[n]), sha)]
  BY <1>4 DEF Copies, InStep, CopyRecords, Marks
<1>6. [Nodes -> CopyRecords] \subseteq Maps(CopyRecords)
  BY DEF Maps
<1>7. /\ tree = commits[HEAD] /\ lock = Nobody
      /\ proc = [p \in Projects |-> Idle]
      /\ why = [seen |-> [p \in Projects |-> [n \in DOMAIN node[p] |->
                            Values(node[p][n].c) \cup Values(Read(Fresh[n]))]],
                behind |-> [p \in Projects |-> {}],
                lost |-> [f \in Fields |-> "no"], dropped |-> {}]
  BY DEF Init
<1>8. /\ commits \in Seq(Trees) /\ HEAD > 0 /\ edits \in Nat
      /\ node \in [Projects -> Maps(CopyRecords)] /\ brief \in [Projects -> Trees]
      /\ \A p \in Projects :
           \/ DOMAIN node[p] = {}
           \/ \E sha \in DOMAIN commits, g \in [Nodes -> Contents] :
                /\ node[p] = Copies(g, sha)
                /\ \A n \in Nodes : commits[sha][n] \in {Fresh[n], g[n]}
  <2>1. CASE /\ commits = <<Fresh>> /\ edits = 1
             /\ \E S \in {Nothing, Copies(Fresh, 1)} : node = [p \in Projects |-> S]
             /\ brief = [p \in Projects |-> Nothing]
    <3>1. commits \in Seq(Trees) /\ HEAD = 1 /\ DOMAIN commits = {1} /\ commits[1] = Fresh
      BY <1>1, <1>3, <2>1 DEF HEAD
    <3>2. Nothing \in Trees /\ Nothing \in Maps(CopyRecords) /\ DOMAIN Nothing = {}
      BY NothingIsMap DEF Trees
    <3>3. Copies(Fresh, 1) \in Maps(CopyRecords)
      BY <1>1, <1>5, <1>6
    <3>4. \A p \in Projects : node[p] \in {Nothing, Copies(Fresh, 1)}
      BY <2>1
    <3>5. node \in [Projects -> Maps(CopyRecords)] /\ brief \in [Projects -> Trees]
      BY <2>1, <3>2, <3>3
    <3> QED BY <1>1, <2>1, <3>1, <3>2, <3>4, <3>5
  <2>2. CASE \E p \in Projects, f \in Fields \ Unread :
               /\ commits = <<Fresh, Edited(f, 2)>> /\ edits = 3
               /\ node = [q \in Projects |-> IF q = p THEN Copies(Edited(f, 3), 1) ELSE Copies(Edited(f, 2), 2)]
               /\ brief = [q \in Projects |-> IF q = p THEN [n \in Nodes |-> Read(Edited(f, 2)[n])] ELSE Nothing]
    <3>1. PICK p \in Projects, f \in Fields \ Unread :
               /\ commits = <<Fresh, Edited(f, 2)>> /\ edits = 3
               /\ node = [q \in Projects |-> IF q = p THEN Copies(Edited(f, 3), 1) ELSE Copies(Edited(f, 2), 2)]
               /\ brief = [q \in Projects |-> IF q = p THEN [n \in Nodes |-> Read(Edited(f, 2)[n])] ELSE Nothing]
      BY <2>2
    <3> DEFINE two == Edited(f, 2)
               three == Edited(f, 3)
    <3>2. two \in [Nodes -> Contents] /\ three \in [Nodes -> Contents]
      BY <1>2
    <3>3. /\ [n \in Nodes |-> Read(two[n])] \in Trees /\ Nothing \in Trees
      BY <1>3, <1>4, <3>2, NothingIsMap DEF Trees
    <3>4. commits = <<Fresh, two>>
      BY <3>1
    <3>5. /\ node = [q \in Projects |-> IF q = p THEN Copies(three, 1) ELSE Copies(two, 2)]
          /\ brief = [q \in Projects |-> IF q = p THEN [n \in Nodes |-> Read(two[n])] ELSE Nothing]
      BY <3>1
    <3> HIDE DEF two, three
    <3>6. commits \in Seq(Trees) /\ HEAD = 2 /\ DOMAIN commits = {1, 2} /\ commits[1] = Fresh /\ commits[2] = two
      BY <1>1, <1>3, <3>2, <3>4 DEF HEAD
    <3>7. Copies(three, 1) \in Maps(CopyRecords) /\ Copies(two, 2) \in Maps(CopyRecords)
      BY <1>5, <1>6, <3>2
    <3>8. node \in [Projects -> Maps(CopyRecords)] /\ brief \in [Projects -> Trees]
      BY <3>3, <3>5, <3>7
    <3> QED BY <3>1, <3>2, <3>5, <3>6, <3>8
  <2> QED BY <2>1, <2>2 DEF Init
<1>9. tree \in Trees
  BY <1>7, <1>8 DEF HEAD
<1>10. why \in Histories
  <2>1. ASSUME NEW p \in Projects
        PROVE  [n \in DOMAIN node[p] |-> Values(node[p][n].c) \cup Values(Read(Fresh[n]))] \in Maps(Known)
    <3>1. node[p] \in Maps(CopyRecords)
      BY <1>8
    <3>2. DOMAIN node[p] \subseteq Nodes /\ \A n \in DOMAIN node[p] : node[p][n].c \in Contents
      <4>1. DOMAIN node[p] \subseteq Nodes /\ \A n \in DOMAIN node[p] : node[p][n] \in CopyRecords
        BY <3>1, MapHas
      <4> QED BY <4>1 DEF CopyRecords
    <3>3. \A n \in DOMAIN node[p] : Values(node[p][n].c) \cup Values(Read(Fresh[n])) \in Known
      BY <1>1, <1>4, <3>2, ValuesType DEF Known
    <3>4. [n \in DOMAIN node[p] |-> Values(node[p][n].c) \cup Values(Read(Fresh[n]))]
            \in [DOMAIN node[p] -> Known]
      BY <3>3
    <3> QED BY <3>2, <3>4 DEF Maps
  <2>2. [p \in Projects |-> [n \in DOMAIN node[p] |->
           Values(node[p][n].c) \cup Values(Read(Fresh[n]))]] \in [Projects -> Maps(Known)]
    BY <2>1
  <2> QED BY <1>7, <2>2 DEF Histories, Ways
<1>11. TypeOK
  BY <1>7, <1>8, <1>9, <1>10, IdleType DEF TypeOK
<1>12. ASSUME NEW p \in Projects PROVE NodesOK(p)
  <2>1. /\ why.seen[p] = [n \in DOMAIN node[p] |-> Values(node[p][n].c) \cup Values(Read(Fresh[n]))]
        /\ why.behind[p] = {}
    BY <1>7
  <2>2. CASE DOMAIN node[p] = {}
    BY <2>1, <2>2 DEF NodesOK
  <2>3. CASE \E sha \in DOMAIN commits, g \in [Nodes -> Contents] :
                /\ node[p] = Copies(g, sha)
                /\ \A n \in Nodes : commits[sha][n] \in {Fresh[n], g[n]}
    <3>1. PICK sha \in DOMAIN commits, g \in [Nodes -> Contents] :
                /\ node[p] = Copies(g, sha)
                /\ \A n \in Nodes : commits[sha][n] \in {Fresh[n], g[n]}
      BY <2>3
    <3>2. node[p] = [n \in Nodes |-> InStep(Read(g[n]), sha)]
      BY <3>1 DEF Copies
    <3>3. Begun(p, sha, g)
      BY <2>1, <3>1, <3>2 DEF Begun
    <3> QED BY <1>11, <3>3, BegunOK
  <2> QED BY <1>8, <2>2, <2>3
<1>13. ASSUME NEW p \in Projects PROVE ProjectOK(p)
  <2>1. /\ proc[p].pc = "idle" /\ proc[p].head = 0 /\ proc[p].todo = {}
        /\ DOMAIN proc[p].snap = {} /\ DOMAIN proc[p].out = {} /\ HEAD \in Nat
    BY <1>7, <1>11, IdleType, NothingIsMap, Sorts
  <2>2. Listed(p) = {}
    BY <2>1 DEF Listed, At
  <2> QED BY <1>12, <2>1, <2>2 DEF ProjectOK, SnapOK, OutOK, RefersOK, LockOK, WriteOK, NoteOK, At
<1> QED BY <1>7, <1>11, <1>13 DEF Sound, NothingLostUpstream, NothingDroppedHere

-----------------------------------------------------------------------------
(* The properties.                                                         *)

\* Only a push that writes can lose a value upstream, and the one who writes has
\* seen what it replaces unless it is behind, or the workspace has moved, or it
\* replaces what is never read.
LEMMA LostStep ==
  ASSUME Sound, NothingLostUpstream, [Next]_vars
  PROVE  NothingLostUpstream'
<1>1. why \in Histories
  BY DEF Sound, TypeOK
<1>2. ASSUME NEW p \in Projects, NEW n \in Nodes, PushWrites(p, n)
      PROVE  NothingLostUpstream'
  <2>1. /\ At(p, "write") /\ n \in DOMAIN proc[p].out
        /\ WritingOK(p, n, proc[p].out[n])
    BY <1>2 DEF PushWrites, Sound, ProjectOK, RefersOK, OutOK, At
  <2>2. why' = [why EXCEPT !.lost = [f \in Fields |-> IF f \in LostBy(p, n) /\ why.lost[f] = "no"
                                                     THEN How(p, n, f) ELSE why.lost[f]]]
    BY <1>2 DEF PushWrites
  <2>3. \A f \in Fields : why'.lost[f] = IF f \in LostBy(p, n) /\ why.lost[f] = "no"
                                         THEN How(p, n, f) ELSE why.lost[f]
    BY <1>1, <2>2 DEF Histories
  <2>4. ASSUME NEW f \in Fields, f \in LostBy(p, n) PROVE How(p, n, f) # "merged"
    <3>1. SUFFICES ASSUME f \notin Unread, tree[n] = proc[p].out[n].was, n \notin why.behind[p]
                   PROVE  FALSE
      BY DEF How
    <3>2. /\ tree[n][f] \notin {0, proc[p].out[n].c[f]}
          /\ <<f, tree[n][f]>> \notin proc[p].out[n].seen
      BY <2>4 DEF LostBy
    <3> QED BY <2>1, <3>1, <3>2 DEF WritingOK
  <2> QED BY <2>3, <2>4 DEF NothingLostUpstream
<1>3. ASSUME why'.lost = why.lost PROVE NothingLostUpstream'
  BY <1>3 DEF NothingLostUpstream
<1>4. CASE UNCHANGED vars
  BY <1>3, <1>4 DEF vars
<1>5. ASSUME NEW p \in Projects,
             \/ Copy(p) \/ Pull(p) \/ Push(p) \/ PushRefused(p) \/ PushLocks(p)
             \/ PushCommits(p) \/ Dies(p)
      PROVE  why'.lost = why.lost
  BY <1>5 DEF Copy, Pull, Push, PushRefused, PushLocks, PushCommits, Dies
<1>6. ASSUME NEW p \in Projects, NEW n \in Nodes,
             \/ CopySaves(p, n) \/ Fork(p, n) \/ MergeResolve(p, n) \/ Promote(p, n)
             \/ PullSkips(p, n) \/ PullNode(p, n) \/ PullDrafts(p, n)
             \/ PushCompares(p, n) \/ PushNotes(p, n) \/ \E f \in Fields : Edit(p, n, f)
      PROVE  why'.lost = why.lost
  <2>1. CASE CopySaves(p, n) \/ Fork(p, n) \/ MergeResolve(p, n) \/ Promote(p, n) \/ PullSkips(p, n)
    BY <1>1, <2>1 DEF Histories, CopySaves, Fork, MergeResolve, Promote, PullSkips
  <2>2. CASE PullNode(p, n)
    BY <1>1, <2>2 DEF Histories, PullNode
  <2>3. CASE PullDrafts(p, n) \/ PushNotes(p, n) \/ \E f \in Fields : Edit(p, n, f)
    BY <1>1, <2>3 DEF Histories, PullDrafts, PushNotes, Edit
  <2>4. CASE PushCompares(p, n)
    BY <2>4 DEF PushCompares
  <2> QED BY <1>6, <2>1, <2>2, <2>3, <2>4
<1>7. ASSUME NEW n \in Nodes, DeleteUpstream(n) PROVE why'.lost = why.lost
  BY <1>7 DEF DeleteUpstream
<1>8. CASE Next
  BY <1>2, <1>3, <1>5, <1>6, <1>7, <1>8 DEF Next
<1> QED BY <1>4, <1>8

LEMMA SparesDrops ==
  \A p, n, c : Spares(p, n, c) => "merged" \notin Dropped(p, n, c)
<1> SUFFICES ASSUME NEW p, NEW n, NEW c, Spares(p, n, c)
             PROVE  "merged" \notin Dropped(p, n, c)
  OBVIOUS
<1> DEFINE x == node[p][n].c
<1>1. \A f \in Fields : x[f] \notin {0, c[f]} /\ ~Published(n, f, x[f])
                          => x[f] # proc[p].snap[n].c[f]
  BY DEF Spares
<1> QED BY <1>1 DEF Dropped

\* Every save over what was listed spares what has not been published.
LEMMA DroppedStep ==
  ASSUME Sound, NothingDroppedHere, [Next]_vars
  PROVE  NothingDroppedHere'
<1>1. why \in Histories
  BY DEF Sound, TypeOK
<1>2. \A p, n, c : Spares(p, n, c) /\ why'.dropped = why.dropped \cup Dropped(p, n, c)
                     => NothingDroppedHere'
  BY SparesDrops DEF NothingDroppedHere
<1>3. ASSUME why'.dropped = why.dropped PROVE NothingDroppedHere'
  BY <1>3 DEF NothingDroppedHere
<1>4. CASE UNCHANGED vars
  BY <1>3, <1>4 DEF vars
<1>5. ASSUME NEW p \in Projects,
             \/ Copy(p) \/ Pull(p) \/ Push(p) \/ PushRefused(p) \/ PushLocks(p)
             \/ PushCommits(p) \/ Dies(p)
      PROVE  why'.dropped = why.dropped
  BY <1>5 DEF Copy, Pull, Push, PushRefused, PushLocks, PushCommits, Dies
<1>6. ASSUME NEW p \in Projects, NEW n \in Nodes,
             \/ CopySaves(p, n) \/ Fork(p, n) \/ MergeResolve(p, n) \/ Promote(p, n)
             \/ PullSkips(p, n) \/ PushCompares(p, n) \/ PushWrites(p, n)
             \/ \E f \in Fields : Edit(p, n, f)
      PROVE  why'.dropped = why.dropped
  <2>1. CASE CopySaves(p, n) \/ Fork(p, n) \/ MergeResolve(p, n) \/ Promote(p, n) \/ PullSkips(p, n)
    BY <1>1, <2>1 DEF Histories, CopySaves, Fork, MergeResolve, Promote, PullSkips
  <2>2. CASE PushCompares(p, n)
    BY <2>2 DEF PushCompares
  <2>3. CASE PushWrites(p, n) \/ \E f \in Fields : Edit(p, n, f)
    BY <1>1, <2>3 DEF Histories, PushWrites, Edit
  <2> QED BY <1>6, <2>1, <2>2, <2>3
<1>7. ASSUME NEW p \in Projects, NEW n \in Nodes, PullNode(p, n) PROVE NothingDroppedHere'
  <2> DEFINE t == Read(tree[n])
             b == Read(commits[proc[p].snap[n].sha][n])
             s == Status(b, proc[p].snap[n].c, t)
             c == Merged(b, proc[p].snap[n].c, t)
  <2>1. n \in Listed(p) /\ n \in DOMAIN tree /\ HasBase(n, proc[p].snap[n].sha)
    BY <1>7 DEF PullNode, Listed, At
  <2>2. Spares(p, n, c)
    BY <2>1, MergeOK
  <2>3. \/ why'.dropped = why.dropped \cup Dropped(p, n, c)
        \/ why' = why
    BY <1>1, <1>7 DEF Histories, PullNode
  <2> HIDE DEF c
  <2> QED BY <1>2, <1>3, <2>2, <2>3
<1>8. ASSUME NEW p \in Projects, NEW n \in Nodes, PullDrafts(p, n) \/ PushNotes(p, n)
      PROVE  NothingDroppedHere'
  <2>1. n \in DOMAIN proc[p].out
    BY <1>8 DEF PullDrafts, PushNotes, Sound, ProjectOK, RefersOK, At
  <2>2. Spares(p, n, proc[p].out[n].c)
    BY <2>1 DEF Sound, ProjectOK, OutOK
  <2>3. why'.dropped = why.dropped \cup Dropped(p, n, proc[p].out[n].c)
    BY <1>1, <1>8 DEF Histories, PullDrafts, PushNotes
  <2> QED BY <1>2, <2>2, <2>3
<1>9. ASSUME NEW n \in Nodes, DeleteUpstream(n) PROVE why'.dropped = why.dropped
  BY <1>9 DEF DeleteUpstream
<1>10. CASE Next
  BY <1>3, <1>5, <1>6, <1>7, <1>8, <1>9, <1>10 DEF Next
<1> QED BY <1>4, <1>10

LEMMA StandsStill == ASSUME Sound, UNCHANGED vars PROVE Sound'
<1>1. TypeOK'
  BY DEF Sound, TypeOK, vars, HEAD
<1>2. Grows
  BY Growing DEF Sound, vars
<1>3. \A q \in Projects : Alone(q)
  BY DEF Alone, vars
<1> QED BY <1>1, <1>2, <1>3, AloneStays DEF Sound

LEMMA SoundStep == ASSUME Sound, [Next]_vars PROVE Sound'
<1>1. ASSUME NEW p \in Projects,
             \/ Copy(p) \/ Pull(p) \/ Push(p) \/ PushRefused(p) \/ PushLocks(p)
             \/ PushCommits(p) \/ Dies(p)
      PROVE  Sound'
  BY <1>1, CopyStep, PullStep, PushStep, EndStep, PushLocksStep, PushCommitsStep
<1>2. ASSUME NEW p \in Projects, NEW n \in Nodes,
             \/ CopySaves(p, n) \/ Fork(p, n) \/ MergeResolve(p, n) \/ Promote(p, n)
             \/ PullSkips(p, n) \/ PullNode(p, n) \/ PullDrafts(p, n)
             \/ PushCompares(p, n) \/ PushWrites(p, n) \/ PushNotes(p, n)
             \/ \E f \in Fields : Edit(p, n, f)
      PROVE  Sound'
  BY <1>2, CopySavesStep, ForkStep, MergeResolveStep, PromoteStep, PullSkipsStep, PullNodeStep,
     PullDraftsStep, PushComparesStep, PushWritesStep, PushNotesStep, EditStep
<1>3. ASSUME NEW n \in Nodes, DeleteUpstream(n) PROVE Sound'
  BY <1>3, DeleteUpstreamStep
<1>4. CASE Next
  BY <1>1, <1>2, <1>3, <1>4 DEF Next
<1>5. CASE UNCHANGED vars
  BY <1>5, StandsStill
<1> QED BY <1>4, <1>5

\* The types of the state and what is claimed of every project hold at all times,
\* and so do the two properties.
THEOREM Invariant == Spec => []Inv
<1>1. Init => Inv
  BY InitOK DEF Inv, Sound
<1>2. Inv /\ [Next]_vars => Inv'
  <2> SUFFICES ASSUME Inv, [Next]_vars PROVE Inv'
    OBVIOUS
  <2>1. Sound
    BY DEF Inv, Sound
  <2>2. Sound'
    BY <2>1, SoundStep
  <2>3. NothingLostUpstream'
    BY <2>1, LostStep DEF Inv
  <2>4. NothingDroppedHere'
    BY <2>1, DroppedStep DEF Inv
  <2> QED BY <2>2, <2>3, <2>4 DEF Inv, Sound
<1> QED BY <1>1, <1>2, PTL DEF Spec

\* A push never replaces a value of the workspace that nobody on its side has taken
\* into account, by way of the merge of workspace_sync.py; what else may replace one
\* is the body, the race of push.py:87 and 136, and a sha noted for other contents.
THEOREM LosesNothing == Spec => []NothingLostUpstream
<1>1. Inv => NothingLostUpstream
  BY DEF Inv
<1> QED BY <1>1, Invariant, PTL

\* No command drops an edit that was in the copy when it listed the nodes and that
\* has never been published.
THEOREM DropsNothing == Spec => []NothingDroppedHere
<1>1. Inv => NothingDroppedHere
  BY DEF Inv
<1> QED BY <1>1, Invariant, PTL

\* A copy whose workspace has not moved conflicts with it in nothing but the body and
\* what YAML reshapes (merge_nodes, workspace_sync.py:112-128), in whatever state.
THEOREM InStepIsClean == Spec => []InStepMergesClean
<1>1. ASSUME NEW p \in Projects, NEW n \in DOMAIN node[p]
      PROVE  LET t == Read(tree[n]) IN Conflicting(t, node[p][n].c, t) \subseteq Unread \cup Reshaped
  BY DEF Conflicting, Equal
<1>2. InStepMergesClean
  BY <1>1 DEF InStepMergesClean
<1> QED BY <1>2, PTL
=============================================================================
