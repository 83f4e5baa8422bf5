----------------------------- MODULE Validation -----------------------------
(***************************************************************************)
(* One run of validate_project: loading, --fix, the checks that workflow.yaml *)
(* places or a gate asks for, the graph cache, the heuristics' markers, and  *)
(* the report with its exit code.                                           *)
(*                                                                          *)
(* D is the project as it is on disk: a P of ProjectChecks with the files   *)
(* that do not load among its entities.  A file's flaws are the ways in     *)
(* which it does not; `skipped` files are the derived graph index, and      *)
(* directories whose names begin with a dot.  `elsewhere` has what the      *)
(* checks find that other modules are about.                                *)
(***************************************************************************)
EXTENDS ProjectChecks, HeuristicMarkers, SequencesExt

-----------------------------------------------------------------------------
(* Loading.  Each stage is reached only by what passes the one before it.    *)

Stages == <<"no_yaml", "io_error", "parse_error", "not_v4", "schema_invalid">>

FirstFlaw(e) ==
  LET hit == {i \in DOMAIN Stages : Stages[i] \in e.flaws}
  IN Stages[CHOOSE i \in hit : \A j \in hit : i <= j]

Seen(files) == {e \in files : ~e.skipped}
Loadable(files) == {e \in Seen(files) : e.flaws = {}}

\* Only a directory can be without its file.
LoadErrors(files, kind) ==
  {LET flaw == FirstFlaw(e)
   IN CASE flaw = "not_v4" -> Error("uuid", "not_v4", e.file, "uuid", {kind})
        [] flaw = "no_yaml" -> Error(kind, "no_" \o kind \o "_yaml", e.file, "", {})
        [] OTHER -> Error(kind, flaw, e.file, "", {})
   : e \in {x \in Seen(files) : x.flaws # {}}}

_try_load_project(D) ==
  CASE D.project = "missing" -> {Error("schema", "project_missing", ProjectYaml, "", {})}
    [] D.project = "invalid" -> {Error("schema", "project_invalid", ProjectYaml, "", {})}
    [] D.project = "ok" -> {}

all_load_errors(D) ==
  _try_load_project(D) \cup LoadErrors(D.issues, "issue") \cup LoadErrors(D.nodes, "node")
    \cup LoadErrors(D.sessions, "session") \cup LoadErrors(D.comments, "comment")

load_context(D) ==
  [D EXCEPT !.loads = D.project = "ok", !.issues = Loadable(@), !.nodes = Loadable(@),
            !.sessions = Loadable(@), !.comments = Loadable(@)]

-----------------------------------------------------------------------------
(* --fix, under project_lock, of what was loaded before.  Ids are taken to   *)
(* be unique.  Lists are sets here: that they come out sorted is not seen.   *)

Generated(e) == IF e.uuid = "" THEN "uuid of " \o e.file ELSE e.uuid

\* A comment has no updated_at, and its schema nothing it does not know: what is
\* filled in makes the file one that does not load.
_fix_timestamps(e, kind) ==
  IF kind = "comment" THEN [e EXCEPT !.flaws = {"schema_invalid"}]
  ELSE [e EXCEPT !.times = [f \in DOMAIN @ |-> TRUE]]

BackReferences(P, n) == {o.id : o \in {x \in P.nodes : n.id \in OneSided(P, x)}}

Fixed(P, e, kind) ==
  LET filled == _fix_timestamps([e EXCEPT !.uuid = Generated(e)], kind)
  IN IF kind = "node" THEN [filled EXCEPT !.related = @ \cup BackReferences(P, e)] ELSE filled

_fix_sequence_drift(P) ==
  IF P.loads /\ P.config.next_issue_number < MaxNumber(P) + 1
  THEN [P.config EXCEPT !.next_issue_number = MaxNumber(P) + 1]
  ELSE P.config

apply_fixes(D) ==
  LET P == load_context(D)
      fixed(files, kind) == {IF e \in Loadable(files) THEN Fixed(P, e, kind) ELSE e : e \in files}
  IN IF D.locked THEN D
     ELSE [D EXCEPT !.config = _fix_sequence_drift(P), !.issues = fixed(@, "issue"),
                    !.nodes = fixed(@, "node"), !.sessions = fixed(@, "session"),
                    !.comments = fixed(@, "comment")]

\* What the report lists as fixed; also that nothing was, for want of the lock.
FixResults(D) ==
  LET P == load_context(D)
      said(cat, name, file, field) == F(cat, name, "fixed", file, field, {}, <<>>)
  IN IF D.locked THEN {Error("fix", "lock_timeout", "", "", {})}
     ELSE {said("uuid", "missing", e.file, "uuid") : e \in {x \in Entities(P) : x.uuid = ""}}
            \cup {said("timestamp", "missing", x[1].file, x[2]) :
                    x \in {y \in Entities(P) \X {"created_at", "updated_at"} : ~y[1].times[y[2]]}}
            \cup UNION {{said("bidi", "related", LastOf(P, r).file, "related") : r \in OneSided(P, n)} : n \in P.nodes}
            \cup {said("sequence", "drift", ProjectYaml, "next_issue_number") : x \in check_sequence_drift(P)}

-----------------------------------------------------------------------------
(* The catalogue, in the order in which checks run and findings are listed.  *)

ALL_CHECKS ==
  <<"uuid_present", "id_format", "enum_values", "reference_integrity", "bidirectional_related",
    "no_stale_pins", "issue_body_structure", "status_transitions", "freshness", "manifest_schema",
    "manifest_phase_ownership_consistent", "artifact_presence", "id_collisions", "sequence_drift",
    "timestamps", "comment_provenance", "project_standards", "coverage_heuristics",
    "phase_requirements", "handoff_artifact", "quality_consistency", "session_issue_coherence",
    "issue_session_status_compatibility", "done_implies_session_completed", "issue_artifact_presence",
    "pm_response_covers_self_review", "pm_response_followups_resolve", "workflow_well_formed",
    "workspace_link", "project_repos_present", "pr_review_evidence", "pr_review_threshold_findings",
    "pr_review_external_reviewer", "pr_review_code_review_skill",
    "member_issues_at_or_past_in_review", "pr_merged_for_session", "pr_review_approved",
    "session_has_developer_md", "session_has_verified_md", "instance_shape_conforms",
    "done_implies_issue_artifacts_on_main", "self_review_implies_pm_response",
    "worktree_paths_unique", "no_orphan_proj_branches", "stale_concept", "concept_name_prose",
    "semantic_coverage", "mega_issue", "node_ratio">>

known_validator_ids == ToSet(ALL_CHECKS)
validator_checks_for_ids(ids) == SelectSeq(ALL_CHECKS, LAMBDA id : id \in ids)

\* Without a workflow everything runs; with one, only what it places.
declared_validator_ids(D) ==
  CASE D.workflow = "no yaml" -> {"workflow_well_formed"}
    [] D.workflow = "none" -> known_validator_ids
    [] D.workflow = "declared" -> {"workflow_well_formed"} \cup D.placed

\* What a gate asks for that nobody implements is only logged here.
_checks_for_validate(D, run) ==
  validator_checks_for_ids(IF run.gate THEN run.ids \cup {"workflow_well_formed"}
                           ELSE declared_validator_ids(D))

\* What the catalogue has and no status or route of the workflow places.
workflow_catalog_drift(D) == IF D.workflow = "declared" THEN known_validator_ids \ D.placed ELSE {}

Check(P, id) ==
  CASE id = "uuid_present" -> check_uuid_present(P)
    [] id = "id_format" -> check_id_format(P)
    [] id = "enum_values" -> check_enum_values(P)
    [] id = "reference_integrity" -> check_reference_integrity(P)
    [] id = "bidirectional_related" -> check_bidirectional_related(P)
    [] id = "no_stale_pins" -> check_no_stale_pins(P)
    [] id = "issue_body_structure" -> check_issue_body_structure(P)
    [] id = "freshness" -> check_freshness(P)
    [] id = "manifest_schema" -> check_manifest_schema(P)
    [] id = "manifest_phase_ownership_consistent" -> check_manifest_phase_ownership_consistent(P)
    [] id = "id_collisions" -> check_id_collisions(P)
    [] id = "sequence_drift" -> check_sequence_drift(P)
    [] id = "timestamps" -> check_timestamps(P)
    [] id = "comment_provenance" -> check_comment_provenance(P)
    [] id = "project_standards" -> check_project_standards(P)
    [] id = "coverage_heuristics" -> check_coverage_heuristics(P)
    [] id = "handoff_artifact" -> check_handoff_artifact(P)
    [] id = "quality_consistency" -> check_quality_consistency(P)
    [] id = "workspace_link" -> check_workspace_link(P)
    [] id = "project_repos_present" -> check_project_repos_present(P)
    [] id = "worktree_paths_unique" -> worktree_paths_unique(P)
    [] id = "stale_concept" -> stale_concept(P)
    [] id = "concept_name_prose" -> concept_name_prose(P)
    [] id = "semantic_coverage" -> semantic_coverage(P)
    [] id = "mega_issue" -> mega_issue(P)
    [] id = "node_ratio" -> node_ratio(P)
    [] OTHER -> P.elsewhere[id]

-----------------------------------------------------------------------------
(* The run.  `run` says whether a gate of a workflow makes it or a person,   *)
(* for which checks, and with which flags.                                   *)

HasError(fs) == \E f \in fs : f.severity = "error"

\* One row for each check, if the run is a gate's: a check that only warns
\* passes there, though the gate it belongs to refuses the move.
Rows(P, run) ==
  IF ~run.gate THEN <<>>
  ELSE [i \in DOMAIN _checks_for_validate(P, run) |->
          LET id == _checks_for_validate(P, run)[i]
          IN <<id, IF HasError(Check(P, id)) THEN "fail" ELSE "pass">>]

\* What escapes instead of being found: an enum file of the project's own that
\* is none, and lines that end before they begin.
Crashes(D, run) ==
  \/ ~D.enums_load
  \/ /\ load_context(D).loads
     /\ {"freshness", "stale_concept"} \cap ToSet(_checks_for_validate(D, run)) # {}
     /\ Unsliceable(load_context(D))

Findings(D, run) ==
  LET P == load_context(D)
      checks == _checks_for_validate(D, run)
      cache == IF P.loads /\ D.cache = "fails"
               THEN {Warning("cache", "rebuild_failed", "nodes/tripwire-graph-index.yaml", "", {})}
               ELSE {}
  IN SetToSeq(all_load_errors(D)) \o FlattenSeq([i \in DOMAIN checks |-> SetToSeq(Check(P, checks[i]))])
       \o SetToSeq(cache)

Uuids(P) ==
  LET of(bucket) == [file \in {e.file : e \in {x \in bucket : x.uuid # ""}} |->
                       (CHOOSE e \in bucket : e.file = file).uuid]
  IN [issue |-> of(P.issues), node |-> of(P.nodes), session |-> of(P.sessions)]

ExitCode(errors, warnings) == IF errors # {} THEN 2 ELSE IF warnings # {} THEN 1 ELSE 0

Report(fs, strict, fixed) ==
  LET of(severities) == {fs[i] : i \in {k \in DOMAIN fs : fs[k].severity \in severities}}
      errors == of(IF strict THEN {"error", "warning"} ELSE {"error"})
      warnings == of(IF strict THEN {} ELSE {"warning"})
  IN [errors |-> errors, warnings |-> warnings, fixed |-> fixed, exit_code |-> ExitCode(errors, warnings)]

AfterFix(D, run) == IF run.fix THEN apply_fixes(D) ELSE D

validate_project(D, run, marks) ==
  LET now == AfterFix(D, run)
      fs == Findings(now, run)
      uuids == Uuids(load_context(now))
  IN [disk |-> now,
      report |-> Report(_apply_heuristic_mode(fs, uuids, marks, {}, run.mode), run.strict,
                        IF run.fix THEN FixResults(D) ELSE {}),
      marks |-> Marked(fs, uuids, marks, {}, run.mode),
      rows |-> Rows(load_context(now), run)]

\* --select, after the run: a finding without a file is everybody's; one in
\* project.yaml is in a file like any other, and nobody selects "project".
_filter_report_by_selector(report, subject, selected) ==
  LET matches(f) == f.file = "" \/ subject[f.file] \in selected
      errors == {f \in report.errors : matches(f)}
      warnings == {f \in report.warnings : matches(f)}
  IN [errors |-> errors, warnings |-> warnings, fixed |-> {f \in report.fixed : matches(f)},
      exit_code |-> ExitCode(errors, warnings)]

\* The command line is always strict, and its three flags exclude each other.
validate_cmd(fix, flags) ==
  [gate |-> FALSE, ids |-> {}, strict |-> TRUE, fix |-> fix,
   mode |-> IF flags = {} THEN "surface" ELSE CHOOSE m \in flags : TRUE]
UsageError(flags) == Cardinality(flags) > 1

\* The executor's gate is strict too, and writes markers like any run.
Gate(ids) == [gate |-> TRUE, ids |-> ids, strict |-> TRUE, fix |-> FALSE, mode |-> "surface"]
=============================================================================
