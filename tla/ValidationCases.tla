--------------------------- MODULE ValidationCases ---------------------------
(***************************************************************************)
(* A small project and what validation says of it: of the project as it is, *)
(* of it with one thing wrong, of it after --fix, and run after run.        *)
(***************************************************************************)
EXTENDS Integers, FiniteSets, Sequences, TLC

V == INSTANCE Validation

-----------------------------------------------------------------------------
(* The project: two issues, two concepts, a session and a workflow that      *)
(* places every check.                                                       *)

Line(says) == [fence |-> FALSE, head |-> FALSE, refs |-> <<>>, says |-> says]
Headed(name) == [Line({V!Heading(name)}) EXCEPT !.head = TRUE]
Fence == [Line({}) EXCEPT !.fence = TRUE]
Refers(id, version) == [Line({}) EXCEPT !.refs = <<<<id, version>>>>]

Body == <<Headed("Context"), Refers("auth", V!Latest), Refers("token", V!Latest), Line({"stop and ask"}),
          Headed("Implements"), Headed("Repo scope"), Headed("Requirements"), Headed("Execution constraints"),
          Headed("Acceptance criteria"), Line({"- [ ]"}), Headed("Test plan"), Headed("Dependencies"),
          Headed("Definition of Done")>>

Entity(file, id) ==
  [file |-> file, id |-> id, uuid |-> "u " \o id, body |-> <<>>, flaws |-> {}, skipped |-> FALSE,
   times |-> [created_at |-> TRUE, updated_at |-> TRUE], contract |-> 0]

Issue(file, id, n) ==
  [Entity(file, id) EXCEPT !.body = Body]
    @@ [key |-> <<"K", n>>, enums |-> [issue_status |-> "queued"], parent |-> "", blocked_by |-> {},
        repo |-> "org/app", labels |-> {}, size |-> 10]
Node(file, id, other) ==
  Entity(file, id)
    @@ [enums |-> [node_type |-> "model", node_status |-> "active"], related |-> {other}, name |-> "the " \o id,
        short |-> FALSE,
        source |-> [repo |-> "org/app", path |-> "a.py", branch |-> "main", content_hash |-> "text",
                    backwards |-> FALSE]]
Session(file, id) ==
  Entity(file, id)
    @@ [enums |-> [session_status |-> "executing"], issues |-> {"K-1"}, agent |-> "coder", repos |-> {"org/app"},
        worktrees |-> {"/wt/" \o id}, handoff |-> [file |-> "", state |-> "missing", branch |-> "absent",
                                                   conforms |-> FALSE]]
Comment(file) ==
  Entity(file, "c1")
    @@ [enums |-> [comment_type |-> "note"], issue_key |-> "K-1",
        has |-> [f \in {"author", "type", "created_at"} |-> TRUE]]

Files == <<"issues/K-1", "issues/K-2", "nodes/auth", "nodes/token", "sessions/s1", "sessions/s2", "comments/c1",
           "issues/copy">>

Clean ==
  [project |-> "ok", loads |-> TRUE, here |-> "/p",
   config |-> [key_prefix |-> "K", name |-> "app", next_issue_number |-> 3, kind |-> "product", lint_config |-> <<>>,
               repos |-> [r \in {"org/app"} |-> [local |-> "/p", leaf |-> "app"]]],
   enums |-> [issue_status |-> {"queued", "completed"}, node_type |-> {"model", "skill"},
              node_status |-> {"active"}, session_status |-> {"executing", "queued"}, comment_type |-> {"note"},
              artifact_phase |-> {"executing"}, agent_type |-> {"pm", "coder"}],
   enums_load |-> TRUE,
   issues |-> {Issue("issues/K-1", "K-1", 1), Issue("issues/K-2", "K-2", 2)},
   nodes |-> {Node("nodes/auth", "auth", "token"), Node("nodes/token", "token", "auth")},
   sessions |-> {Session("sessions/s1", "s1")}, comments |-> {},
   order |-> [f \in V!ToSet(Files) |-> CHOOSE i \in DOMAIN Files : Files[i] = f],
   agents |-> {[id |-> "", stem |-> "coder", parses |-> TRUE]}, standards |-> TRUE,
   clones |-> [r \in {"org/app"} |-> [f \in {"a.py"} |-> "text"]], github |-> <<>>,
   pointer |-> "none", members |-> {}, manifest |-> "ok", artifacts |-> {},
   workflow |-> "declared", placed |-> V!known_validator_ids,
   elsewhere |-> [id \in V!known_validator_ids |-> {}], cache |-> "ok", locked |-> FALSE]

In(D, kind, id, Edit(_)) ==
  [D EXCEPT ![kind] = {IF e.id = id THEN Edit(e) ELSE e : e \in @}]

Shown == V!validate_cmd(FALSE, {})
After(D, run) == V!validate_project(D, run, {})
Codes(D) == {f.code : f \in After(D, Shown).report.errors}

-----------------------------------------------------------------------------
(* What is found.                                                            *)

\* Nothing in the project as it is.
ASSUME CleanPasses ==
  After(Clean, Shown).report = [errors |-> {}, warnings |-> {}, fixed |-> {}, exit_code |-> 0]

\* One thing wrong, and the codes it is found by.
OneFlaw ==
  {<<In(Clean, "issues", "K-1", LAMBDA e : [e EXCEPT !.uuid = ""]), {<<"uuid", "missing">>}>>,
   <<In(Clean, "issues", "K-1", LAMBDA e : [e EXCEPT !.uuid = "", !.flaws = {"not_v4", "schema_invalid"}]),
     {<<"uuid", "not_v4">>, <<"ref", "session_issue">>, <<"coverage", "unreferenced_node">>}>>,
   <<In(Clean, "issues", "K-2", LAMBDA e : [e EXCEPT !.key = <<"X", 2>>]), {<<"id", "wrong_prefix">>}>>,
   <<[Clean EXCEPT !.config.next_issue_number = 2], {<<"sequence", "drift">>}>>,
   <<[Clean EXCEPT !.issues = @ \cup {[Issue("issues/copy", "K-2", 2) EXCEPT !.uuid = "another"]}],
     {<<"collision", "id">>}>>,
   <<In(Clean, "nodes", "auth", LAMBDA e : [e EXCEPT !.related = {}]), {<<"bidi", "related">>}>>,
   <<In(Clean, "nodes", "auth", LAMBDA e : [e EXCEPT !.related = @ \cup {"gone"}]), {<<"ref", "related">>}>>,
   <<In(Clean, "issues", "K-2", LAMBDA e : [e EXCEPT !.body[2] = Refers("gone", V!Latest)]),
     {<<"ref", "dangling">>, <<"coverage", "unreferenced_node">>}>>,
   <<In(Clean, "issues", "K-2", LAMBDA e : [e EXCEPT !.body[10] = Line({})]), {<<"body", "no_acceptance_checkbox">>}>>,
   <<In(Clean, "nodes", "auth", LAMBDA e : [e EXCEPT !.body = <<Refers("token", 1)>>, !.contract = 3]), {}>>,
   <<In(Clean, "nodes", "token", LAMBDA e : [e EXCEPT !.body = <<Refers("auth", 1)>>, !.contract = 3]), {}>>,
   <<In(In(Clean, "nodes", "token", LAMBDA e : [e EXCEPT !.body = <<Refers("auth", 1)>>]),
        "nodes", "auth", LAMBDA e : [e EXCEPT !.contract = 3]), {<<"references", "stale_pin">>}>>,
   <<In(Clean, "issues", "K-2", LAMBDA e : [e EXCEPT !.blocked_by = {"K-9"}]), {<<"ref", "blocked_by">>}>>,
   <<In(Clean, "issues", "K-2", LAMBDA e : [e EXCEPT !.repo = "org/other"]), {<<"ref", "repo">>}>>,
   <<In(Clean, "sessions", "s1", LAMBDA e : [e EXCEPT !.agent = "tester"]), {<<"ref", "session_agent">>}>>,
   <<In(Clean, "sessions", "s1", LAMBDA e : [e EXCEPT !.enums.session_status = "queued"]),
     {<<"handoff_schema", "required_at_queued">>}>>,
   <<[Clean EXCEPT !.clones["org/app"] = [f \in {"a.py"} |-> "changed"]],
     {<<"freshness", "stale">>, <<"stale_concept", "referenced">>}>>,
   <<[Clean EXCEPT !.clones = <<>>], {<<"freshness", "source_missing">>}>>,
   <<[Clean EXCEPT !.config.name = "web", !.here = "/elsewhere"], {<<"project", "repos_required">>}>>,
   <<[Clean EXCEPT !.pointer = "workspace"], {<<"workspace", "back_reference_missing">>}>>,
   <<[Clean EXCEPT !.sessions = @ \cup {[Session("sessions/s2", "s2") EXCEPT !.worktrees = {"/wt/s1"}]}],
     {<<"worktree_paths_unique", "collision">>}>>,
   <<[Clean EXCEPT !.cache = "fails"], {<<"cache", "rebuild_failed">>}>>,
   <<[Clean EXCEPT !.project = "invalid"], {<<"schema", "project_invalid">>}>>}

ASSUME FlawsAreFound == \A x \in OneFlaw : Codes(x[1]) = x[2]

\* With a workflow only what it places is looked for; what it does not place is
\* only listed elsewhere.
ASSUME UnplacedIsUnseen ==
  LET dangling == In(Clean, "issues", "K-2", LAMBDA e : [e EXCEPT !.blocked_by = {"K-9"}])
      unplaced == [dangling EXCEPT !.placed = @ \ {"reference_integrity"}]
  IN /\ Codes(unplaced) = {} /\ V!workflow_catalog_drift(unplaced) = {"reference_integrity"}
     /\ Codes([unplaced EXCEPT !.workflow = "none"]) = {<<"ref", "blocked_by">>}
     /\ Codes([unplaced EXCEPT !.workflow = "no yaml"]) = {}

\* What is wrong with project.yaml is found, and not by who selects anything:
\* the findings are in a file that no entity has.
ASSUME SelectingHidesTheProject ==
  LET invalid == [Clean EXCEPT !.project = "invalid"]
      subject == [f \in V!ToSet(Files) \cup {V!ProjectYaml} |-> IF f = V!ProjectYaml THEN "project" ELSE "K-1"]
      report == After(invalid, Shown).report
  IN /\ report.exit_code = 2
     /\ V!_filter_report_by_selector(report, subject, {"K-1", "auth"}).exit_code = 0

\* Two files that load_context's callers see as an exception and not a finding.
ASSUME NotEverythingIsAFinding ==
  LET backwards == In(Clean, "nodes", "auth", LAMBDA e : [e EXCEPT !.source.backwards = TRUE])
  IN /\ ~V!Crashes(Clean, Shown)
     /\ V!Crashes([Clean EXCEPT !.enums_load = FALSE], Shown)
     /\ V!Crashes(backwards, Shown) /\ ~V!Crashes([backwards EXCEPT !.clones = <<>>], Shown)
     /\ ~V!Crashes([backwards EXCEPT !.placed = {}], Shown)

\* A fence of one kind is closed by one of the other, and what comes after it is read.
ASSUME AnyFenceCloses ==
  LET open == <<Fence, Refers("auth", V!Latest)>>
  IN /\ V!extract_references(open) = {}
     /\ V!extract_references(open \o <<Fence, Refers("token", V!Latest)>>) = {"token"}
     /\ V!extract_references(open \o <<Fence>> \o open) = {}

-----------------------------------------------------------------------------
(* --fix.                                                                    *)

Fixing == V!validate_cmd(TRUE, {})
Unfixed ==
  LET E(e) == [e EXCEPT !.uuid = "", !.times.updated_at = FALSE]
      D(kind, id, S) == IF id \in S THEN In(Clean, kind, id, E) ELSE Clean
      related == {{}, {"auth", "token"}, {"token"}}
  IN {[Clean EXCEPT !.issues = D("issues", "K-1", S).issues, !.sessions = D("sessions", "s1", S).sessions,
                    !.nodes = {[e EXCEPT !.related = @ \cap r] : e \in D("nodes", "auth", S).nodes},
                    !.config.next_issue_number = n]
      : S \in SUBSET {"K-1", "s1", "auth"}, r \in related, n \in {1, 2, 3, 5}}

\* What --fix is for is gone when the checks are run, and a second --fix has
\* nothing to do.
ASSUME FixesHold ==
  \A D \in Unfixed :
    LET done == After(D, Fixing)
    IN /\ done.report.errors = {}
       /\ V!FixResults(done.disk) = {} /\ V!apply_fixes(done.disk) = done.disk
       /\ (done.report.fixed = {}) = (done.disk = D)

\* But a comment does not survive it: it is given what its schema forbids.
ASSUME FixSpoilsComments ==
  LET D == [Clean EXCEPT !.comments = {[Comment("comments/c1") EXCEPT !.times.updated_at = FALSE]}]
  IN /\ Codes(D) = {}
     /\ {f.code : f \in After(D, Fixing).report.errors} = {<<"comment", "schema_invalid">>}
     /\ After(After(D, Fixing).disk, Fixing).report.exit_code = 2

\* Where the lock is not to be had the error is among what was fixed, and the
\* exit code speaks of the checks alone.
ASSUME NoLockNoFailure ==
  LET report == After([Clean EXCEPT !.locked = TRUE], Fixing).report
  IN V!HasError(report.fixed) /\ report.exit_code = 0

-----------------------------------------------------------------------------
(* Heuristics.                                                               *)

\* Six issues over one concept are below the band, one of the issues has more
\* children than it should, and the concept's file has changed.
Many == 1..10
Name(n) == "K-" \o ToString(n)
Soft ==
  [Clean EXCEPT
     !.issues = {[Issue("issues/" \o Name(n), Name(n), n) EXCEPT !.parent = IF n = 1 THEN "" ELSE "K-1"]
                   : n \in Many},
     !.nodes = {[Node("nodes/auth", "auth", "auth") EXCEPT !.related = {}],
                [Node("nodes/token", "token", "auth") EXCEPT !.related = {}]},
     !.order = [f \in {"issues/" \o Name(n) : n \in Many} \cup V!ToSet(Files) |-> 1],
     !.config.next_issue_number = 11,
     !.config.lint_config = <<"node_ratio", "min_ratio">> :> [type |-> "float", is |-> 50],
     !.clones["org/app"] = [f \in {"a.py"} |-> "changed"]]

Quiet == V!validate_cmd(FALSE, {"quiet"})
Twice(D, first, second) == V!validate_project(D, second, After(D, first).marks)
SoftCodes(result) == {f.code[1] : f \in {e \in result.report.errors : V!IsHeuristic(e)}}

\* Shown once, quiet then.  The evidence of a stale concept is who refers to it:
\* that its source has changed once more is none, that one issue fewer does is.
ASSUME QuietTheSecondTime ==
  LET again == [Soft EXCEPT !.clones["org/app"] = [f \in {"a.py"} |-> "changed again"]]
      closed == In(Soft, "issues", "K-9", LAMBDA e : [e EXCEPT !.enums.issue_status = "completed"])
  IN /\ SoftCodes(After(Soft, Shown)) = {"stale_concept", "mega_issue", "node_ratio"}
     /\ SoftCodes(After(Soft, Quiet)) = {"stale_concept", "mega_issue", "node_ratio"}
     /\ SoftCodes(Twice(Soft, Quiet, Quiet)) = {}
     /\ SoftCodes(V!validate_project(again, Quiet, After(Soft, Shown).marks)) = {}
     /\ SoftCodes(V!validate_project(closed, Quiet, After(Soft, Shown).marks)) = {"stale_concept", "node_ratio"}
     /\ SoftCodes(Twice(Soft, V!validate_cmd(FALSE, {"none"}), Quiet)) = SoftCodes(After(Soft, Shown))
     /\ SoftCodes(Twice(Soft, Shown, V!validate_cmd(FALSE, {"as_tripwires"}))) = SoftCodes(After(Soft, Shown))

\* A gate marks what it finds, of which it names one at most: what nobody has
\* been shown is quiet from then on.
ASSUME GatesMarkToo ==
  SoftCodes(Twice(Soft, V!Gate({"mega_issue", "node_ratio"}), Quiet)) = {"stale_concept"}

\* Three of the eight never are: what they are registered under is the name of
\* their check, and not what it reports.
ASSUME ThreeAreNeverQuiet ==
  \A D \in {Clean, Soft} \cup {x[1] : x \in OneFlaw} :
    \A f \in After(D, Shown).report.errors :
      f.code[1] \in {"coverage", "quality", "sequence"} => ~V!IsHeuristic(f)

\* gc keeps what a live entity is marked by, and drops what a file without a
\* uuid of its own is; reset wants to know which.
ASSUME Collected ==
  LET marks == After(Soft, Shown).marks
      nameless == In(Soft, "issues", "K-1", LAMBDA e : [e EXCEPT !.uuid = ""])
      uuids(D) == V!Uuids(V!load_context(D))
  IN /\ V!heuristic_gc(marks, uuids(Soft)) = marks
     /\ V!heuristic_gc(After(nameless, Shown).marks, uuids(nameless))
          = {m \in marks : m.entity # <<"uuid", "u K-1">>}
     /\ V!heuristic_reset(marks, {}, {}, FALSE) = marks /\ V!heuristic_reset(marks, {}, {}, TRUE) = {}
     /\ V!heuristic_reset(marks, {<<"v", "mega_issue">>}, {}, FALSE) = {m \in marks : m.heuristic[2] # "mega_issue"}

\* As many as the threshold are not too many; the other type of number is a
\* number too, and what is none is not read.
ASSUME Thresholds ==
  LET with(own) == [Soft EXCEPT !.config.lint_config = <<"mega_issue", "max_children">> :> own]
      children(D) == {f \in V!mega_issue(V!load_context(D)) : f.code[2] = "too_many_children"}
  IN /\ children(with([type |-> "int", is |-> 900])) = {} /\ children(with([type |-> "float", is |-> 890])) # {}
     /\ children(with([type |-> "str", is |-> 900])) # {}

\* One flag at most, and always strict.
ASSUME FlagsExclude ==
  \A flags \in SUBSET {"quiet", "none", "as_tripwires"} :
    IF Cardinality(flags) <= 1
    THEN ~V!UsageError(flags) /\ V!validate_cmd(FALSE, flags).mode \in V!Modes
    ELSE V!UsageError(flags)

\* A gate writes a row for each check that it knows, in the catalogue's order,
\* and for none that it does not; and all of them may read `pass` where the
\* report that the gate goes by has errors.
ASSUME RowsOfAGate ==
  LET gated == After(Soft, V!Gate({"node_ratio", "mega_issue", "unknown"}))
  IN /\ gated.rows = <<<<"workflow_well_formed", "pass">>, <<"mega_issue", "pass">>, <<"node_ratio", "pass">>>>
     /\ gated.report.exit_code = 2
=============================================================================
