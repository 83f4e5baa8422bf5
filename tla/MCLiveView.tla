----------------------------- MODULE MCLiveView -----------------------------
(***************************************************************************)
(* Small instances of LiveView, and cases of ProjectDiscovery: a root with *)
(* a project and two worktrees of it, and a project beside that root.      *)
(***************************************************************************)
EXTENDS LiveView

PD == INSTANCE ProjectDiscovery
TLC == INSTANCE TLC

CONSTANTS tab, file

MCPages == {tab}
MCKeys == {file}

-----------------------------------------------------------------------------

Below == <<"app", "app-wt-1", "app-wt-2">>
Directories == {"root", "elsewhere", "sub"} \cup PD!ToSet(Below)
Disk ==
  [dirs |-> Directories, pruned |-> {}, worktree_copies |-> {"app-wt-1", "app-wt-2"},
   yaml |-> [d \in Directories |-> IF d \in {"root", "sub"} THEN "none" ELSE "ok"],
   name |-> [d \in Directories |-> IF d = "elsewhere" THEN "other" ELSE "app"],
   key_prefix |-> [d \in Directories |-> "K"],
   leaf |-> [d \in Directories |-> d], resolved |-> [d \in Directories |-> d],
   order |-> [d \in Directories |-> CHOOSE i \in 1..6 :
                <<"app", "app-wt-1", "app-wt-2", "elsewhere", "root", "sub">>[i] = d],
   children |-> [d \in Directories |-> IF d = "root" THEN Below ELSE <<>>],
   project_roots |-> <<"root">>, fallback_roots |-> <<>>, cwd |-> "root", cwd_project |-> PD!NoDir]

Id(d) == PD!_project_id(d)
Shown(W, ui, now) == PD!ToSet(PD!Dirs(PD!list_projects(W, ui, now)))

\* One summary for each identity, and which one does not hang on the order in
\* which the directories were come across; a copy is shown when it is all there is.
ASSUME OneForEachIdentity ==
  LET D == {"app", "app-wt-1", "app-wt-2", "elsewhere"}
      kept(dirs) == PD!_deduplicate_summaries_by_identity(Disk, PD!Summaries(Disk, dirs))
  IN \A S \in SUBSET D :
       LET orders == PD!SetToSeqs(S)
           sets == {PD!ToSet(kept(dirs)) : dirs \in orders}
       IN /\ Cardinality(sets) = 1
          /\ \A dirs \in orders : \A i, j \in DOMAIN kept(dirs) :
               i # j => ~PD!SameIdentity(kept(dirs)[i], kept(dirs)[j])
          /\ "app" \in S => \A dirs \in orders : "app" \in PD!ToSet(PD!Dirs(kept(dirs)))
          /\ \A s \in UNION sets : s.dir \in S

\* With --project-dir nothing else is ever shown, however often it is looked for.
ASSUME PinnedStays ==
  LET ui == PD!ui_cmd(Disk, "elsewhere", 0)
      asked == PD!find_project_by_identity(Disk, ui, 90, "app", "K")
      got == PD!get_project(Disk, asked.ui, 200, Id("app"))
  IN /\ asked.dir = PD!NoDir /\ got.dir = PD!NoDir
     /\ Shown(Disk, got.ui, 300) = {"elsewhere"}

\* From within a project beside the roots that project is shown too, until
\* somebody asks for an id that there is not.
ASSUME SeededUntilAskedInVain ==
  LET W == [Disk EXCEPT !.cwd = "sub", !.cwd_project = "elsewhere"]
      ui == PD!ui_cmd(W, PD!NoDir, 0)
      later == PD!discover_projects(W, ui, 90)
      vain == PD!get_project(W, later, 90, Id("gone"))
  IN /\ Shown(W, ui, 0) = {"app", "elsewhere"} /\ Shown(W, later, 200) = {"app", "elsewhere"}
     /\ vain.dir = PD!NoDir /\ Shown(W, vain.ui, 200) = {"app"}

\* What came meanwhile is shown when the cache has run out, and not before; who
\* asks for it by its id or its name has it at once.
ASSUME CachedForAMinute ==
  LET ui == PD!discover_projects([Disk EXCEPT !.yaml["app"] = "none", !.children["root"] = <<"app">>],
                                 PD!Fresh, 0)
  IN /\ Shown(Disk, ui, 59) = {} /\ Shown(Disk, ui, 60) = {"app"}
     /\ PD!get_project(Disk, ui, 1, Id("app")).dir = "app"
     /\ PD!find_project_by_identity(Disk, ui, 1, "app", "K").dir = "app"

\* A route that has found nothing under an id finds nothing under it later, also
\* when the project is there and listed; and one that has found a directory goes
\* on with it when it is listed no more.
ASSUME RoutesRemember ==
  LET empty == PD!_resolve_project_dir(PD!Fresh, Id("app")).ui
      listed == PD!get_project(Disk, empty, 0, Id("app"))
      found == PD!_resolve_project_dir(PD!discover_projects(Disk, PD!Fresh, 0), Id("app")).ui
      gone == PD!discover_projects([Disk EXCEPT !.children["root"] = <<>>, !.yaml["app"] = "none"], found, 60)
  IN /\ listed.dir = "app" /\ PD!_resolve_project_dir(listed.ui, Id("app")).dir = PD!NoDir
     /\ PD!get_project_dir(gone, Id("app")) = PD!NoDir
     /\ PD!_resolve_project_dir(gone, Id("app")).dir = "app"

\* Sixty-four other ids later it looks again.
ASSUME RoutesForget ==
  LET ask(ui, n) == PD!_resolve_project_dir(ui, Id(TLC!ToString(n))).ui
      start == PD!_resolve_project_dir(PD!Fresh, Id("app")).ui
      after(n) == PD!FoldLeft(ask, PD!get_project(Disk, start, 0, Id("app")).ui, [i \in 1..n |-> i])
  IN /\ PD!_resolve_project_dir(after(63), Id("app")).dir = PD!NoDir
     /\ PD!_resolve_project_dir(after(64), Id("app")).dir = "app"

\* A project that does not load is shown under the name of its directory.
ASSUME InvalidIsShown ==
  LET W == [Disk EXCEPT !.yaml["app"] = "invalid"]
  IN /\ PD!list_projects(W, PD!Fresh, 0)[1] = PD!_invalid_summary(W, "app")
     /\ Shown(W, PD!Fresh, 0) = {"app", "app-wt-1"}
=============================================================================
