---------------------------- MODULE WorkspaceSync ----------------------------
(***************************************************************************)
(* `tripwire workspace copy | pull | push | promote | fork |               *)
(* merge-resolve`: projects that share concept nodes through the git       *)
(* repository of a workspace.                                              *)
(*                                                                         *)
(* A project's copy of a node names the commit it was last in step with;   *)
(* copy, that commit and the workspace's working tree are merged field by  *)
(* field.  push compares without a lock and then writes, commits and notes *)
(* the new commit under the lock of the workspace.  pull takes none.  What *)
(* pull cannot merge goes into a brief, and merge-resolve declares a copy  *)
(* to be in step.  People edit the copies all the time.                    *)
(*                                                                         *)
(* Every edit makes a value of its own; 0 is all that the merge treats as  *)
(* missing.  A project runs one command at a time.  The registry in        *)
(* workspace.yaml, which only `workspace status` reads, is left out.       *)
(***************************************************************************)
EXTENDS Naturals, Sequences

CONSTANTS
  Projects, Nobody, Nodes,
  Fields,      \* of a node, its bookkeeping left aside
  Unread,      \* the body: written to the workspace, not read back from it
  Reshaped,    \* fields whose YAML is not equal to what the model makes of it:
               \* a source with a line range, a list there and a tuple here
  MaxEdits, MaxCommands, MaxFaults

ASSUME SyncAssumption ==
  /\ Nobody \notin Projects
  /\ Unread \subseteq Fields /\ Reshaped \subseteq Fields \ Unread
  /\ {MaxEdits, MaxCommands, MaxFaults} \subseteq Nat

VARIABLES
  tree,     \* nodes/ of the workspace's working tree
  commits,  \* nodes/ of each commit; a sha is a position in it
  node,     \* nodes/ of each project: content, origin, scope, sha
  brief,    \* the merge briefs of each project: what upstream had
  lock,     \* project_lock of the workspace
  proc,     \* the command each project is running
  edits,    \* values made so far
  budget,
  why       \* history, for the properties only

vars == <<tree, commits, node, brief, lock, proc, edits, budget, why>>

Nothing == [n \in {} |-> 0]
Blank == [f \in Fields |-> 0]
HEAD == Len(commits)
With(g, n, x) == [m \in DOMAIN g \cup {n} |-> IF m = n THEN x ELSE g[m]]
Without(g, S) == [m \in DOMAIN g \ S |-> g[m]]

Idle == [pc |-> "idle", head |-> 0, todo |-> {}, snap |-> Nothing, out |-> Nothing,
         diverged |-> FALSE, collides |-> FALSE]
At(p, pc) == proc[p].pc = pc
Becomes(p, r) == proc' = [proc EXCEPT ![p] = r]
Frees(p) == lock' = IF lock = p THEN Nobody ELSE lock
Ends(p) == Becomes(p, Idle) /\ Frees(p)
Spend(what) == budget[what] > 0 /\ budget' = [budget EXCEPT ![what] = @ - 1]

\* A command that has nothing left to do has ended.
Goes(p, r) == IF r.todo = {} /\ r.out = Nothing THEN Ends(p)
              ELSE Becomes(p, r) /\ UNCHANGED lock
Begins(p) == At(p, "idle") /\ Spend("commands")

Saves(p, n, x) == node' = [node EXCEPT ![p] = With(@, n, x)]
Shared(x) == x.origin = "workspace" /\ x.scope = "workspace"
InStep(c, sha) == [c |-> c, origin |-> "workspace", scope |-> "workspace", sha |-> sha]

-----------------------------------------------------------------------------
(* The three-way merge (core/workspace_sync.py).                           *)

\* _load_workspace_node and _git_show_node see the frontmatter only.
Read(c) == [f \in Fields |-> IF f \in Unread THEN 0 ELSE c[f]]

\* A loaded value against one of a commit: the latter is raw YAML.
_content_equal(x, b) == \A f \in Fields : x[f] = b[f] /\ (f \in Reshaped => x[f] = 0)
Equal(f, x, b) == x[f] = b[f] /\ (f \in Reshaped => x[f] = 0) /\ f \notin Unread

ConflictingNever(b, o, t) == {}
ConflictingOurs(b, o, t) == {f \in Fields : o[f] # t[f] /\ ~Equal(f, o, b)}
Conflicting(b, o, t) ==
  {f \in Fields : o[f] # t[f] /\ ~Equal(f, o, b) /\ ~Equal(f, t, b)}

Status(b, o, t) ==
  CASE _content_equal(o, b) /\ _content_equal(t, b) -> "no_changes"
    [] _content_equal(o, b) /\ ~_content_equal(t, b) -> "fast_forward"
    [] ~_content_equal(o, b) /\ _content_equal(t, b) -> "no_upstream"
    [] OTHER -> IF Conflicting(b, o, t) # {} THEN "conflict" ELSE "auto_merged"

MergedTheirs(b, o, t) ==
  IF Status(b, o, t) = "no_upstream" THEN o
  ELSE [f \in Fields |-> IF Equal(f, t, b) THEN o[f] ELSE t[f]]
\* The draft of a conflict is made the same way, with ours where they conflict.
Merged(b, o, t) ==
  CASE Status(b, o, t) \in {"no_changes", "fast_forward"} -> t
    [] Status(b, o, t) = "no_upstream" -> o
    [] OTHER -> [f \in Fields |-> IF Equal(f, o, b) THEN t[f] ELSE o[f]]

HasBase(n, sha) == sha \in DOMAIN commits /\ n \in DOMAIN commits[sha]

-----------------------------------------------------------------------------
(* History.  seen[p][n]: the values somebody took into account in making   *)
(* the copy of p; behind[p]: nodes whose sha once named a commit that has  *)
(* other values than were looked at; lost: how values have got lost        *)
(* upstream; dropped: how edits have got lost in a project.                *)

Values(c) == {<<f, c[f]>> : f \in {g \in Fields : c[g] # 0}}
Sees(p, n, S) == [why.seen EXCEPT ![p] = With(@, n, S)]
\* The copy gets a sha after c has been looked at.
Stamps(p, n, sha, c) ==
  IF HasBase(n, sha) /\ Read(commits[sha][n]) # c
  THEN [why.behind EXCEPT ![p] = @ \cup {n}] ELSE why.behind

\* A save of c over the copy drops a value that upstream never had: one that
\* was there when the command listed the nodes, or one made meanwhile.
Published(n, f, v) == \E k \in DOMAIN commits : n \in DOMAIN commits[k] /\ commits[k][n][f] = v
Dropped(p, n, c) ==
  LET x == node[p][n].c IN
  {IF x[f] = proc[p].snap[n].c[f] THEN "merged" ELSE "meanwhile" :
     f \in {g \in Fields : x[g] \notin {0, c[g]} /\ ~Published(n, g, x[g])}}

-----------------------------------------------------------------------------
(* People.                                                                 *)

\* Somebody edits a field of a copy, or writes a new local node.
Edit(p, n, f) ==
  /\ Spend("edits") /\ edits' = edits + 1
  /\ LET v == edits + 1 IN
     /\ Saves(p, n, IF n \in DOMAIN node[p] THEN [node[p][n] EXCEPT !.c[f] = v]
                    ELSE [c |-> [Blank EXCEPT ![f] = v], origin |-> "local",
                          scope |-> "local", sha |-> 0])
     /\ why' = [why EXCEPT !.seen = Sees(p, n,
                  {<<f, v>>} \cup IF n \in DOMAIN node[p] THEN why.seen[p][n] ELSE {})]
  /\ UNCHANGED <<tree, commits, brief, lock, proc>>

\* A node is removed from the workspace, and that is committed.
DeleteUpstream(n) ==
  /\ lock = Nobody /\ n \in DOMAIN tree /\ Spend("faults")
  /\ tree' = Without(tree, {n})
  /\ commits' = Append(commits, Without(commits[HEAD], {n}))
  /\ UNCHANGED <<node, brief, lock, proc, edits, why>>

-----------------------------------------------------------------------------
(* copy, fork, merge-resolve, promote.                                     *)

Copy(p) ==
  /\ Begins(p)
  /\ \E n \in Nodes \ DOMAIN node[p] :
       Becomes(p, [Idle EXCEPT !.pc = "copy", !.head = HEAD, !.todo = {n}])
  /\ UNCHANGED <<tree, commits, node, brief, lock, edits, why>>

CopySaves(p, n) ==
  /\ At(p, "copy") /\ n \in proc[p].todo
  /\ IF n \in DOMAIN tree \ DOMAIN node[p]
     THEN /\ Saves(p, n, InStep(Read(tree[n]), proc[p].head))
          /\ why' = [why EXCEPT !.seen = Sees(p, n, Values(Read(tree[n]))),
                                !.behind = Stamps(p, n, proc[p].head, Read(tree[n]))]
     ELSE UNCHANGED <<node, why>>
  /\ Ends(p)
  /\ UNCHANGED <<tree, commits, brief, edits, budget>>

Fork(p, n) ==
  /\ Begins(p) /\ n \in DOMAIN node[p] /\ Shared(node[p][n])
  /\ Saves(p, n, [node[p][n] EXCEPT !.scope = "local"])
  /\ UNCHANGED <<tree, commits, brief, lock, proc, edits, why>>

\* Whoever resolves a brief has looked at what it says upstream had, and has
\* put ours or theirs where the two differ.  The sha is today's, not the brief's.
MergeResolve(p, n) ==
  /\ Begins(p) /\ n \in DOMAIN brief[p] /\ n \in DOMAIN node[p]
  /\ \E f \in SUBSET {g \in Fields : node[p][n].c[g] # brief[p][n][g]} :
       Saves(p, n, InStep([g \in Fields |-> IF g \in f THEN brief[p][n][g]
                                            ELSE node[p][n].c[g]], HEAD))
  /\ brief' = [brief EXCEPT ![p] = Without(@, {n})]
  /\ why' = [why EXCEPT !.seen = Sees(p, n, why.seen[p][n] \cup Values(brief[p][n])),
                        !.behind = Stamps(p, n, HEAD, brief[p][n])]
  /\ UNCHANGED <<tree, commits, lock, proc, edits>>

\* promote marks a local node and goes on as a push of that node.
Promote(p, n) ==
  /\ Begins(p) /\ n \in DOMAIN node[p] \ DOMAIN tree /\ node[p][n].origin = "local"
  /\ Saves(p, n, [node[p][n] EXCEPT !.scope = "workspace"])
  /\ Becomes(p, [Idle EXCEPT !.pc = "compare", !.todo = {n}, !.snap = node'[p]])
  /\ UNCHANGED <<tree, commits, brief, lock, edits, why>>

-----------------------------------------------------------------------------
(* pull                                                                    *)

Pull(p) ==
  /\ Begins(p)
  /\ Goes(p, [Idle EXCEPT !.pc = "pull", !.head = HEAD, !.snap = node[p],
                          !.todo = {n \in DOMAIN node[p] : Shared(node[p][n])}])
  /\ UNCHANGED <<tree, commits, node, brief, edits, why>>

\* Deleted upstream, or no longer in the history: skipped.
PullSkips(p, n) ==
  /\ At(p, "pull") /\ n \in proc[p].todo
  /\ n \notin DOMAIN tree \/ ~HasBase(n, proc[p].snap[n].sha)
  /\ Goes(p, [proc[p] EXCEPT !.todo = @ \ {n}])
  /\ UNCHANGED <<tree, commits, node, brief, edits, budget, why>>

\* A conflict waits until all other nodes are done.
PullNode(p, n) ==
  /\ At(p, "pull") /\ n \in proc[p].todo
  /\ n \in DOMAIN tree /\ HasBase(n, proc[p].snap[n].sha)
  /\ LET o == proc[p].snap[n].c
         t == Read(tree[n])
         b == Read(commits[proc[p].snap[n].sha][n])
         s == Status(b, o, t)
         c == Merged(b, o, t)
     IN /\ Goes(p, [proc[p] EXCEPT !.todo = @ \ {n},
                      !.out = IF s = "conflict" THEN With(@, n, [c |-> c, theirs |-> t]) ELSE @])
        /\ IF s \in {"fast_forward", "auto_merged"}
           THEN /\ Saves(p, n, InStep(c, proc[p].head))
                /\ why' = [why EXCEPT !.seen = Sees(p, n, why.seen[p][n] \cup (Values(c) \cap Values(t))),
                                      !.behind = Stamps(p, n, proc[p].head, t),
                                      !.dropped = @ \cup Dropped(p, n, c)]
           ELSE UNCHANGED <<node, why>>
  /\ UNCHANGED <<tree, commits, brief, edits, budget>>

\* The brief and the draft; the sha stays until merge-resolve.
PullDrafts(p, n) ==
  /\ At(p, "pull") /\ proc[p].todo = {} /\ n \in DOMAIN proc[p].out
  /\ LET c == proc[p].out[n].c
         t == proc[p].out[n].theirs
     IN /\ brief' = [brief EXCEPT ![p] = With(@, n, t)]
        /\ Saves(p, n, InStep(c, proc[p].snap[n].sha))
        /\ why' = [why EXCEPT !.seen = Sees(p, n, why.seen[p][n] \cup (Values(c) \cap Values(t))),
                              !.dropped = @ \cup Dropped(p, n, c)]
  /\ Goes(p, [proc[p] EXCEPT !.out = Without(@, {n})])
  /\ UNCHANGED <<tree, commits, edits, budget>>

-----------------------------------------------------------------------------
(* push                                                                    *)

Push(p) ==
  /\ Begins(p)
  /\ Becomes(p, [Idle EXCEPT !.pc = "compare", !.todo = DOMAIN node[p], !.snap = node[p]])
  /\ UNCHANGED <<tree, commits, node, brief, lock, edits, why>>

\* What is to be written, who knew what of it, and what it was compared with.
Pushes(p, n, c, more) ==
  [c |-> c, seen |-> why.seen[p][n] \cup more,
   was |-> IF n \in DOMAIN tree THEN tree[n] ELSE Blank]

PushCompares(p, n) ==
  /\ At(p, "compare") /\ n \in proc[p].todo
  /\ LET x == proc[p].snap[n]
         rest == [proc[p] EXCEPT !.todo = @ \ {n}]
         t == Read(tree[n])
         b == Read(commits[x.sha][n])
         s == Status(b, x.c, t)
     IN Becomes(p,
          IF Shared(x) /\ n \in DOMAIN tree
          THEN IF ~HasBase(n, x.sha) \/ s = "conflict" THEN [rest EXCEPT !.diverged = TRUE]
               ELSE IF s = "no_upstream" THEN [rest EXCEPT !.out = With(@, n, Pushes(p, n, x.c, {}))]
               ELSE IF s = "auto_merged"
                    THEN [rest EXCEPT !.out = With(@, n, Pushes(p, n, Merged(b, x.c, t), Values(t) \cap Values(Merged(b, x.c, t))))]
               ELSE rest
          ELSE IF x.origin = "local" /\ x.scope = "workspace"
          THEN IF n \in DOMAIN tree THEN [rest EXCEPT !.collides = TRUE]
               ELSE [rest EXCEPT !.out = With(@, n, Pushes(p, n, x.c, {}))]
          ELSE rest)
  /\ UNCHANGED <<tree, commits, node, brief, lock, edits, budget, why>>

\* One divergence or collision, and nothing at all is pushed.
PushRefused(p) ==
  /\ At(p, "compare") /\ proc[p].todo = {}
  /\ proc[p].diverged \/ proc[p].collides \/ proc[p].out = Nothing
  /\ Ends(p)
  /\ UNCHANGED <<tree, commits, node, brief, edits, budget, why>>

PushLocks(p) ==
  /\ At(p, "compare") /\ proc[p].todo = {} /\ proc[p].out # Nothing
  /\ ~proc[p].diverged /\ ~proc[p].collides
  /\ lock = Nobody /\ lock' = p
  /\ Becomes(p, [proc[p] EXCEPT !.pc = "write", !.todo = DOMAIN proc[p].out])
  /\ UNCHANGED <<tree, commits, node, brief, edits, budget, why>>

\* A value of the workspace that the push replaces although nobody has seen it.
LostBy(p, n) ==
  LET x == proc[p].out[n] IN
  IF n \notin DOMAIN tree THEN {}
  ELSE {f \in Fields : tree[n][f] \notin {0, x.c[f]} /\ <<f, tree[n][f]>> \notin x.seen}

How(p, n, f) == IF f \in Unread THEN "unread"
                ELSE IF tree[n] # proc[p].out[n].was THEN "raced"
                ELSE IF n \in why.behind[p] THEN "behind" ELSE "merged"

PushWrites(p, n) ==
  /\ At(p, "write") /\ n \in proc[p].todo
  /\ tree' = With(tree, n, proc[p].out[n].c)
  /\ Becomes(p, [proc[p] EXCEPT !.todo = @ \ {n}])
  /\ why' = [why EXCEPT !.lost = [f \in Fields |-> IF f \in LostBy(p, n) /\ @[f] = "no" THEN How(p, n, f) ELSE @[f]]]
  /\ UNCHANGED <<commits, node, brief, lock, edits, budget>>

\* git add nodes/ and git commit, which fails when there is nothing to commit.
PushCommits(p) ==
  /\ At(p, "write") /\ proc[p].todo = {}
  /\ IF tree = commits[HEAD]
     THEN Ends(p) /\ UNCHANGED commits
     ELSE /\ commits' = Append(commits, tree)
          /\ Becomes(p, [proc[p] EXCEPT !.pc = "note", !.todo = DOMAIN proc[p].out, !.head = HEAD + 1])
          /\ UNCHANGED lock
  /\ UNCHANGED <<tree, node, brief, edits, budget, why>>

PushNotes(p, n) ==
  /\ At(p, "note") /\ n \in proc[p].todo
  /\ LET x == proc[p].out[n] IN
     /\ Saves(p, n, InStep(x.c, proc[p].head))
     /\ why' = [why EXCEPT !.seen = Sees(p, n, x.seen), !.dropped = @ \cup Dropped(p, n, x.c)]
  /\ Goes(p, [proc[p] EXCEPT !.todo = @ \ {n}, !.out = Without(@, {n})])
  /\ UNCHANGED <<tree, commits, brief, edits, budget>>

\* Ten seconds without the lock, or the process is killed.
Dies(p) ==
  /\ ~At(p, "idle") /\ Spend("faults")
  /\ Ends(p)
  /\ UNCHANGED <<tree, commits, node, brief, edits, why>>

-----------------------------------------------------------------------------

\* Nobody has a copy, all have one, or one has edited a field that somebody
\* else has edited and pushed, has pulled and has now a brief.
Fresh == [n \in Nodes |-> [f \in Fields |-> 1]]
Edited(f, v) == [n \in Nodes |-> [Fresh[n] EXCEPT ![f] = v]]
Copies(t, sha) == [n \in Nodes |-> InStep(Read(t[n]), sha)]

Init ==
  /\ \/ /\ commits = <<Fresh>> /\ edits = 1
        /\ \E S \in {Nothing, Copies(Fresh, 1)} : node = [p \in Projects |-> S]
        /\ brief = [p \in Projects |-> Nothing]
     \/ \E p \in Projects, f \in Fields \ Unread :
          /\ commits = <<Fresh, Edited(f, 2)>> /\ edits = 3
          /\ node = [q \in Projects |-> IF q = p THEN Copies(Edited(f, 3), 1) ELSE Copies(Edited(f, 2), 2)]
          /\ brief = [q \in Projects |-> IF q = p THEN [n \in Nodes |-> Read(Edited(f, 2)[n])] ELSE Nothing]
  /\ tree = commits[HEAD]
  /\ lock = Nobody
  /\ proc = [p \in Projects |-> Idle]
  /\ budget = [edits |-> MaxEdits, commands |-> MaxCommands, faults |-> MaxFaults]
  /\ why = [seen |-> [p \in Projects |-> [n \in DOMAIN node[p] |->
                        Values(node[p][n].c) \cup Values(Read(Fresh[n]))]],
            behind |-> [p \in Projects |-> {}],
            lost |-> [f \in Fields |-> "no"], dropped |-> {}]

Next ==
  \/ \E p \in Projects :
       \/ Copy(p) \/ Pull(p)
       \/ Push(p) \/ PushRefused(p) \/ PushLocks(p) \/ PushCommits(p)
       \/ Dies(p)
       \/ \E n \in Nodes :
            \/ CopySaves(p, n) \/ Fork(p, n) \/ MergeResolve(p, n) \/ Promote(p, n)
            \/ PullSkips(p, n) \/ PullNode(p, n) \/ PullDrafts(p, n)
            \/ PushCompares(p, n) \/ PushWrites(p, n) \/ PushNotes(p, n)
            \/ \E f \in Fields : Edit(p, n, f)
  \/ \E n \in Nodes : DeleteUpstream(n)

Spec == Init /\ [][Next]_vars

-----------------------------------------------------------------------------
(* Properties.                                                             *)

\* A push never replaces a value of the workspace that nobody on its side has
\* taken into account, by way of the merge: it does so only where the body of
\* the node is concerned, which is never read back; where the workspace moved
\* between the comparison and the lock (push.py:87, 136); or where the sha of
\* the copy names other values than were looked at: merge-resolve notes the
\* commit of today, not that of the brief (merge_resolve.py:57), and copy and
\* pull note one they have read before the node (copy.py:41, pull.py:58).
NothingLostUpstream == \A f \in Fields : why.lost[f] # "merged"

\* No command drops an edit that was in the copy when it listed the nodes and
\* that has never been published: fast-forwards, merges, drafts and the notes
\* of a push all keep it.  An edit made while the command runs is dropped.
NothingDroppedHere == "merged" \notin why.dropped

\* Where the workspace has not moved since a copy was last in step, no edit of
\* the copy can conflict, whatever has happened to the copy before; but for a
\* body, and for a field whose YAML differs from what was loaded.
InStepMergesClean ==
  \A p \in Projects : \A n \in DOMAIN node[p] :
    LET x == node[p][n] IN
    (Shared(x) /\ HasBase(n, x.sha) /\ n \in DOMAIN tree /\ tree[n] = commits[x.sha][n])
      => LET t == Read(tree[n]) IN Conflicting(t, x.c, t) \subseteq Unread \cup Reshaped
=============================================================================
