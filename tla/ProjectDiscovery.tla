--------------------------- MODULE ProjectDiscovery ---------------------------
(***************************************************************************)
(* Which projects the web UI shows, and which directory an id in a URL     *)
(* stands for (ui/services/project_service.py, ui/dependencies.py,         *)
(* cli/project/ui.py), as operators on what the process of the server      *)
(* keeps: the cached summaries, the index of ids, whether it is pinned,    *)
(* and what the routes have resolved.                                      *)
(*                                                                         *)
(* W is what is on the disk: for each directory its project.yaml, where it *)
(* resolves to and its place in the order of paths; and where to look.     *)
(* Left out of a summary are its counts, phase and workspace.              *)
(***************************************************************************)
EXTENDS Integers, Sequences, SequencesExt

_CACHE_TTL_SECONDS == 60
Remembered == 64  \* entries of the routes' lru_cache

\* The digest of a path: two paths have two of them.
_project_id(d) == <<"id", d>>

-----------------------------------------------------------------------------
(* Summaries.                                                              *)

\* A project.yaml that does not load is shown under its directory's name.
_invalid_summary(W, d) == [dir |-> d, name |-> W.leaf[d], key_prefix |-> "", valid |-> FALSE]

_try_load_summary(W, d) ==
  IF W.yaml[d] = "invalid" THEN _invalid_summary(W, d)
  ELSE [dir |-> d, name |-> W.name[d], key_prefix |-> W.key_prefix[d], valid |-> TRUE]

IsProject(W, d) == W.yaml[d] # "none"
Summaries(W, dirs) ==
  LET there == SelectSeq(dirs, LAMBDA d : IsProject(W, d))
  IN [i \in DOMAIN there |-> _try_load_summary(W, there[i])]

\* Is the directory named as those of worktrees are?
_is_worktree_copy(W, d) == d \in W.worktree_copies

_prefer_project_summary(W, existing, candidate) ==
  IF _is_worktree_copy(W, existing.dir) # _is_worktree_copy(W, candidate.dir)
  THEN IF _is_worktree_copy(W, candidate.dir) THEN existing ELSE candidate
  ELSE IF W.order[candidate.dir] < W.order[existing.dir] THEN candidate ELSE existing

SameIdentity(a, b) == a.name = b.name /\ a.key_prefix = b.key_prefix

\* The one kept has the place of the first.
_deduplicate_summaries_by_identity(W, summaries) ==
  LET keep(kept, s) ==
        IF \E i \in DOMAIN kept : SameIdentity(kept[i], s)
        THEN [i \in DOMAIN kept |-> IF SameIdentity(kept[i], s)
                                    THEN _prefer_project_summary(W, kept[i], s) ELSE kept[i]]
        ELSE Append(kept, s)
  IN FoldLeft(keep, <<>>, summaries)

-----------------------------------------------------------------------------
(* Where to look.                                                          *)

\* A directory's children are there in their order; one that may not be read
\* has none.
_find_projects_in_root(W, root, max_depth) ==
  LET own == IF IsProject(W, root) THEN <<root>> ELSE <<>>
      child(d) == d \in W.dirs /\ ~(d \in W.pruned) /\ IsProject(W, d)
  IN IF ~(root \in W.dirs) THEN <<>>
     ELSE own \o IF max_depth < 2 THEN <<>> ELSE SelectSeq(W.children[root], child)

AddTo(dirs, d) == IF d \in ToSet(dirs) THEN dirs ELSE Append(dirs, d)

\* The working directory, the configured roots, or else the usual places, and
\* what was in the index before.
Candidates(W, index) ==
  LET roots == IF W.project_roots = <<>> THEN W.fallback_roots ELSE W.project_roots
      below == [i \in DOMAIN roots |-> _find_projects_in_root(W, roots[i], 2)]
      all == _find_projects_in_root(W, W.cwd, 1) \o FlattenSeq(below) \o index
  IN FoldLeft(AddTo, <<>>, [i \in DOMAIN all |-> W.resolved[all[i]]])

-----------------------------------------------------------------------------
(* The process.  Its index maps the ids of these directories to them.      *)

Uncached == [at |-> 0, found |-> <<>>, is |-> FALSE]
Cached(now, found) == [at |-> now, found |-> found, is |-> TRUE]
Fresh == [cache |-> Uncached, index |-> <<>>, pinned |-> FALSE, routes |-> <<>>]

Dirs(summaries) == [i \in DOMAIN summaries |-> summaries[i].dir]

discover_projects(W, ui, now) ==
  LET dirs == IF ui.pinned THEN ui.index ELSE Candidates(W, ui.index)
      found == _deduplicate_summaries_by_identity(W, Summaries(W, dirs))
  IN IF ui.cache.is /\ now - ui.cache.at < _CACHE_TTL_SECONDS THEN ui
     ELSE [ui EXCEPT !.cache = Cached(now, found),
                     !.index = IF ui.pinned THEN @ ELSE Dirs(found)]
list_projects(W, ui, now) == discover_projects(W, ui, now).cache.found

NoDir == "none"
get_project_dir(ui, id) ==
  IF \E d \in ToSet(ui.index) : _project_id(d) = id
  THEN CHOOSE d \in ToSet(ui.index) : _project_id(d) = id ELSE NoDir

seed_project_index(W, ui, dirs, pin) ==
  IF dirs = <<>> THEN ui
  ELSE [ui EXCEPT !.index = FoldLeft(AddTo, @, [i \in DOMAIN dirs |-> W.resolved[dirs[i]]]),
                  !.cache = Uncached, !.pinned = @ \/ pin]

reload_project_index(ui) == [ui EXCEPT !.cache = Uncached, !.index = <<>>, !.pinned = FALSE]

\* Both look again when they do not find it, and forget what was seeded; unless pinned.
find_project_by_identity(W, ui, now, name, key_prefix) ==
  LET wanted(u) == SelectSeq(u.cache.found, LAMBDA s : s.name = name /\ s.key_prefix = key_prefix)
      first == discover_projects(W, ui, now)
      again == discover_projects(W, reload_project_index(first), now)
      after == IF wanted(first) # <<>> \/ ui.pinned THEN first ELSE again
  IN [ui |-> after, dir |-> IF wanted(after) = <<>> THEN NoDir ELSE Head(wanted(after)).dir]

get_project(W, ui, now, id) ==
  LET again == discover_projects(W, reload_project_index(ui), now)
      after == IF get_project_dir(ui, id) # NoDir \/ ui.pinned THEN ui ELSE again
  IN [ui |-> after, dir |-> get_project_dir(after, id)]

\* The routes below a project remember what an id was resolved to, also to nothing.
_resolve_project_dir(ui, id) ==
  LET mine == SelectSeq(ui.routes, LAMBDA r : r.id = id)
      others == SelectSeq(ui.routes, LAMBDA r : r.id # id)
      dir == IF mine = <<>> THEN get_project_dir(ui, id) ELSE Head(mine).dir
      kept == IF Len(others) < Remembered THEN others ELSE Tail(others)
  IN [ui |-> [ui EXCEPT !.routes = Append(kept, [id |-> id, dir |-> dir])], dir |-> dir]

\* The start of `tripwire ui`, with --project-dir or without.
ui_cmd(W, project_dir, now) ==
  LET wide == discover_projects(W, Fresh, now)
      dirs == Dirs(wide.cache.found)
      here == IF W.cwd_project = NoDir THEN dirs ELSE AddTo(dirs, W.resolved[W.cwd_project])
  IN IF project_dir # NoDir THEN seed_project_index(W, Fresh, <<project_dir>>, TRUE)
     ELSE seed_project_index(W, wide, here, FALSE)
=============================================================================
