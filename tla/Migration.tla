----------------------------- MODULE Migration -----------------------------
(***************************************************************************)
(* cli/project/migrate.py: `tripwire project migrate templates | graph |   *)
(* graph-edges | status-values | storage`.  A project is the set of its    *)
(* files; every migration moves or rewrites some of them, one unit after   *)
(* the other, and may end early: on a conflict, on a refusal of git, or    *)
(* with the process.  What is left then is again a project, on which the   *)
(* command is started once more.  Computation only.                        *)
(***************************************************************************)
EXTENDS Integers, Sequences

CONSTANTS
  Tops,        \* kinds of entities: sessions, issues, nodes
  EntityNames, \* of entities
  Entries,     \* files or directories within an entity
  FileTexts

Flat == "flat"     \* under <top>/ at the root of the project
New == "new"       \* under instances/<top>/
Legacy == "docs"   \* under docs/<top>/; there is one for issues only
Roots == {Flat, New, Legacy}

\* docs: whether the entry is in docs/ of its entity.
Paths == [root : Roots, top : Tops, name : EntityNames, docs : BOOLEAN, entry : Entries]
Placed == [at : Paths, text : FileTexts]
\* The place of a path under instances/, and a file that is there.
Home(p) == [p EXCEPT !.root = New]
Settled(f) == [f EXCEPT !.at = Home(f.at)]

WellPlaced(project) ==
  \A f \in project : f.at.root = Legacy => f.at.top = "issues" /\ f.at.docs
OnePerPath(project) == \A f, g \in project : f.at = g.at => f = g

-----------------------------------------------------------------------------
(* storage *)

Entity(p) == <<p.top, p.name>>
Entry(p) == <<p.top, p.name, p.entry>>
Held(project, root) == {Entity(f.at) : f \in {x \in project : x.at.root = root}}
DocsHeld(project, root) ==
  {Entry(f.at) : f \in {x \in project : x.at.root = root /\ x.at.docs}}

\* An entity whose place under instances/ is taken stays where it is.  Moving the
\* whole directory, when instances/ has none, is moving each entity.
Movable(project) == Held(project, Flat) \ Held(project, New)
EntityMoves(f, units) == f.at.root = Flat /\ Entity(f.at) \in units
MoveEntities(project, units) ==
  {IF EntityMoves(f, units) THEN Settled(f) ELSE f : f \in project}

\* Each entry under docs/issues/<KEY>/ becomes one in docs/ of the issue, if there
\* is none of that name.
Loose(project) == DocsHeld(project, Legacy) \ DocsHeld(project, New)
DocMoves(f, units) == f.at.root = Legacy /\ Entry(f.at) \in units
_migrate_issue_docs(project, units) ==
  {IF DocMoves(f, units) THEN Settled(f) ELSE f : f \in project}

Storage(project) ==
  LET moved == MoveEntities(project, Movable(project))
  IN _migrate_issue_docs(moved, Loose(moved))

\* What a run leaves that ends early: entities first, then entries.
Interrupted(project) ==
  {MoveEntities(project, units) : units \in SUBSET Movable(project)} \cup
  (LET moved == MoveEntities(project, Movable(project))
   IN {_migrate_issue_docs(moved, units) : units \in SUBSET Loose(moved)})

\* Names of markers are sequences of segments that the program joins with
\* hyphens; ids may have several.
Workflow == "coding-session"
Namespaced(name) == name # <<>> /\ Head(name) = Workflow
Namespace(name) == <<Workflow>> \o name
\* Locks and markers that have a workflow, or whose new name is taken, stay.
Renamed(names) ==
  {n \in names : Namespaced(n) \/ Namespace(n) \in names} \cup
  {Namespace(n) : n \in {x \in names : ~Namespaced(x)}}
_migrate_lock_acks(markers) == [k \in DOMAIN markers |-> Renamed(markers[k])]
Unnamed(markers) == \E k \in DOMAIN markers : \E n \in markers[k] : ~Namespaced(n)

\* transition_lock_path
NewLock(workflow, sid) == <<workflow>> \o sid
ack_marker_path(workflow, sid, prompt) == <<workflow>> \o sid \o prompt
\* The names of old.
OldLock(sid) == sid
OldAck(prompt, sid) == prompt \o sid

\* What the command says before it moves anything.
StorageAnswer(project, markers, yes) ==
  IF /\ \A f \in project : f.at.root = New
     /\ ~Unnamed(markers)
  THEN "nothing"
  ELSE IF ~yes /\ Held(project, New) # {} THEN "refused" ELSE "moves"

-----------------------------------------------------------------------------
(* templates, graph: directories or files of a list, in its order *)

\* present: what exists at the root; renames: pairs of an old and a new name;
\* refused: what git will not move, like a directory it has nothing of.  (The
\* graph migration moves untracked files without git.)  The first conflict or
\* refusal ends the command, after the moves before it.
Blocks(present, refused, r) == r[1] \in present /\ (r[2] \in present \/ r[1] \in refused)
RenameFails(present, refused, renames) ==
  \E i \in DOMAIN renames : Blocks(present, refused, renames[i])
Moved(present, refused, renames) ==
  {i \in DOMAIN renames : /\ renames[i][1] \in present
                          /\ \A j \in 1..i : ~Blocks(present, refused, renames[j])}
Rename(present, refused, renames) ==
  LET done == Moved(present, refused, renames)
  IN (present \ {renames[i][1] : i \in done}) \cup {renames[i][2] : i \in done}

TemplateRenames ==
  << <<"agents", "templates/agents">>, <<"enums", "templates/enums">>,
     <<"issue_templates", "templates/issues">>, <<"session_templates", "templates/sessions">>,
     <<"comment_templates", "templates/comments">>,
     <<"orchestration", "templates/orchestration">> >>
GraphRenames ==
  << <<"graph/index.yaml", "instances/nodes/tripwire-graph-index.yaml">>,
     <<"graph/.index.lock", "instances/nodes/.tripwire-graph-index.lock">> >>

\* graph/ goes when the command gets to its end, has moved something and nothing
\* else is in there.
GraphDirStays(present, refused, others) ==
  \/ RenameFails(present, refused, GraphRenames)
  \/ Moved(present, refused, GraphRenames) = {}
  \/ others # {}

-----------------------------------------------------------------------------
(* graph-edges, status-values: values that are rewritten where they are *)

Rewrite(renames, v) == IF v \in DOMAIN renames THEN renames[v] ELSE v
RewriteAll(renames, values) == [k \in DOMAIN values |-> Rewrite(renames, values[k])]
Rewritten(renames, values) == {k \in DOMAIN values : values[k] \in DOMAIN renames}

EdgeRenames == [references |-> "refs", related |-> "refs", blocked_by |-> "depends_on"]
IssueRenames == [backlog |-> "planned", todo |-> "queued", in_progress |-> "executing",
                 done |-> "completed", canceled |-> "abandoned"]
SessionRenames == [active |-> "executing", waiting_for_ci |-> "executing",
                   waiting_for_review |-> "in_review", waiting_for_deploy |-> "executing",
                   re_engaged |-> "executing"]

\* status: the status in each issue.yaml and session.yaml of the project, by its
\* path.  Only those under instances/ are looked at, whatever the layout is.
StatusRenames(p) == IF p.top = "issues" THEN IssueRenames ELSE SessionRenames
StatusFile(p) == p.root = New /\ ~p.docs /\ p.top \in {"issues", "sessions"}
StatusValues(status) ==
  [p \in DOMAIN status |->
     IF StatusFile(p) THEN Rewrite(StatusRenames(p), status[p]) ELSE status[p]]
-----------------------------------------------------------------------------

\* Every file of the project is in q with what it says, where it was or at its
\* place under instances/, and no two are at one place.
Keeps(project, q) ==
  /\ OnePerPath(q)
  /\ \A f \in project : \E g \in q : g.text = f.text /\ g.at \in {f.at, Home(f.at)}
=============================================================================
