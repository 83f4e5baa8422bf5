---------------------------- MODULE ProjectChecks ----------------------------
(***************************************************************************)
(* The checks of `tripwire validate` that look at a project's files alone:  *)
(* identity, references, bodies, freshness, thresholds.  (The gates of a    *)
(* session's moves are in SessionGates, the workflow's own in               *)
(* WorkflowDefinition and InstanceFile.)                                    *)
(*                                                                          *)
(* P is what load_context hands to every check: the configuration and, for  *)
(* each kind of entity, the set of those that could be loaded, and besides  *)
(* what the checks read for themselves.  A check is the set of its          *)
(* findings; one that is made twice is one.  Of a message there is what it  *)
(* names and what it counts.  The empty string stands for what is absent.   *)
(*                                                                          *)
(* A body is a sequence of lines; a line says whether it opens or closes a  *)
(* fence, whether it begins with a second-level heading, the references in  *)
(* it, and which of the phrases that some check looks for it contains.      *)
(***************************************************************************)
EXTENDS Integers, FiniteSets, FiniteSetsExt, Sequences

F(cat, name, severity, file, field, names, counts) ==
  [code |-> <<cat, name>>, severity |-> severity, file |-> file, field |-> field,
   message |-> [names |-> names, counts |-> counts]]
Error(cat, name, file, field, names) == F(cat, name, "error", file, field, names, <<>>)
Warning(cat, name, file, field, names) == F(cat, name, "warning", file, field, names, <<>>)

Ids(entities) == {e.id : e \in entities}
Versioned(P) == P.issues \cup P.nodes
Timed(P) == P.issues \cup P.nodes \cup P.sessions
Entities(P) == Timed(P) \cup P.comments
ProjectYaml == "project.yaml"

-----------------------------------------------------------------------------
(* References.  Any line that begins with a fence opens or closes one, also  *)
(* when it is of the other kind; what is between them is not read.           *)

Prose(body) ==
  {i \in DOMAIN body : /\ ~body[i].fence
                       /\ Cardinality({j \in 1..i : body[j].fence}) % 2 = 0}

\* <<id, version>> at each place; a bare reference has the version Latest.
Latest == -1
Places(body) == UNION {{i} \X DOMAIN body[i].refs : i \in Prose(body)}
extract_references_with_pins(body) == {body[p[1]].refs[p[2]] : p \in Places(body)}
extract_references(body) == {r[1] : r \in extract_references_with_pins(body)}
Mentions(body, id) == Cardinality({p \in Places(body) : body[p[1]].refs[p[2]][1] = id})

\* A body's phrases, fenced or not, and those outside of fences and references.
Says(body) == UNION {body[i].says : i \in DOMAIN body}
_strip_prose_text(body) == UNION {body[i].says : i \in Prose(body)}

\* From a heading, wherever its line has it, up to the next one.
Section(body, heading) ==
  LET first == CHOOSE i \in DOMAIN body : /\ heading \in body[i].says
                                          /\ \A j \in 1..(i - 1) : heading \notin body[j].says
      ends == {j \in DOMAIN body : j > first /\ body[j].head}
      last == IF ends = {} THEN Len(body) ELSE (CHOOSE j \in ends : \A k \in ends : j <= k) - 1
  IN SubSeq(body, first, last)

-----------------------------------------------------------------------------
(* Identity.                                                                 *)

check_uuid_present(P) ==
  {Error("uuid", "missing", e.file, "uuid", {}) : e \in {x \in Entities(P) : x.uuid = ""}}

\* key is <<prefix, number>>, or <<>> where the id does not read like one.
check_id_format(P) ==
  IF ~P.loads THEN {}
  ELSE {Error("id", "format", e.file, "id", {e.id}) : e \in {i \in P.issues : i.key = <<>>}}
         \cup {Error("id", "wrong_prefix", e.file, "id", {e.id}) :
                 e \in {i \in P.issues : i.key # <<>> /\ i.key[1] # P.config.key_prefix}}

\* The model of an entity without a uuid makes one up, a new one each time.
check_id_collisions(P) ==
  UNION {LET claim(e) == {o \in bucket : o.id = e.id}
             first(e) == CHOOSE o \in claim(e) : \A x \in claim(e) : P.order[o.file] <= P.order[x.file]
             differ(e) == \E a, b \in claim(e) : a # b /\ (a.uuid = "" \/ a.uuid # b.uuid)
         IN {Error("collision", "id", first(e).file, "id", {o.file : o \in claim(e)}) :
               e \in {x \in bucket : differ(x)}}
         : bucket \in {P.issues, P.nodes, P.sessions}}

Numbers(P) == {i.key[2] : i \in {x \in P.issues : x.key # <<>>}}
MaxNumber(P) == CHOOSE n \in Numbers(P) \cup {0} : \A m \in Numbers(P) : m <= n

check_sequence_drift(P) ==
  IF P.loads /\ P.config.next_issue_number < MaxNumber(P) + 1
  THEN {F("sequence", "drift", "warning", ProjectYaml, "next_issue_number", {},
          <<P.config.next_issue_number, MaxNumber(P)>>)}
  ELSE {}

\* What is no time does not load, so that the second kind is never found.
check_timestamps(P) ==
  {Warning("timestamp", "missing", x[1].file, x[2], {}) :
     x \in {y \in Timed(P) \X {"created_at", "updated_at"} : ~y[1].times[y[2]]}}

-----------------------------------------------------------------------------
(* References between entities.                                              *)

_check_enum_field(P, e, enum) ==
  e.enums[enum] # "" /\ (enum \in DOMAIN P.enums => e.enums[enum] \notin P.enums[enum])

FieldOf(enum) ==
  CASE enum = "session_status" -> "status"
    [] enum = "agent_state" -> "current_state"
    [] enum = "comment_type" -> "type"
    [] OTHER -> enum

check_enum_values(P) ==
  UNION {{Error("enum", enum, e.file, FieldOf(enum), {e.enums[enum]}) :
            enum \in {x \in DOMAIN e.enums : _check_enum_field(P, e, x)}} : e \in Entities(P)}

Slugs(P) == IF P.loads THEN DOMAIN P.config.repos ELSE {}
Undeclared(P, repo) == repo # "" /\ Slugs(P) # {} /\ repo \notin Slugs(P)

\* A file that says nothing of an id gives its own name; one that is no YAML none.
_discover_agent_ids(P) ==
  {IF a.id # "" THEN a.id ELSE a.stem : a \in {x \in P.agents : x.parses}}

check_reference_integrity(P) ==
  LET issues == Ids(P.issues)
      nodes == Ids(P.nodes)
      broken(entities, Refs(_), known, name, field) ==
        UNION {{Error("ref", name, e.file, field, {r}) : r \in Refs(e) \ known} : e \in entities}
      body(e) == extract_references(e.body)
      repo(e, field, slugs) ==
        {Error("ref", "repo", e.file, field, {r}) : r \in {x \in slugs : Undeclared(P, x)}}
      agents == _discover_agent_ids(P)
  IN broken(Versioned(P), body, nodes \cup issues, "dangling", "body")
       \cup broken(P.issues, LAMBDA e : e.blocked_by, issues, "blocked_by", "blocked_by")
       \cup broken(P.issues, LAMBDA e : {e.parent} \ {""}, issues, "parent", "parent")
       \cup broken(P.nodes, LAMBDA e : e.related, nodes, "related", "related")
       \cup broken(P.sessions, LAMBDA e : e.issues, issues, "session_issue", "issues")
       \cup broken(P.comments, LAMBDA e : {e.issue_key}, issues, "comment_issue", "issue_key")
       \cup (IF agents = {} THEN {}
             ELSE broken(P.sessions, LAMBDA e : {e.agent}, agents, "session_agent", "agent"))
       \cup UNION {repo(e, "repo", {e.repo}) : e \in P.issues}
       \cup UNION {repo(e, "source.repo", {e.source.repo}) : e \in P.nodes}
       \cup UNION {repo(e, "repos", e.repos) : e \in P.sessions}

\* Of two nodes with one id, by_id has the later.
LastOf(P, id) ==
  CHOOSE n \in {x \in P.nodes : x.id = id} :
    \A o \in P.nodes : o.id = id => P.order[o.file] <= P.order[n.file]

OneSided(P, n) == {r \in n.related \cap Ids(P.nodes) : n.id \notin LastOf(P, r).related}

check_bidirectional_related(P) ==
  UNION {{Warning("bidi", "related", n.file, "related", {n.id, r}) : r \in OneSided(P, n)}
         : n \in P.nodes}

\* contract is 0 where no contract change is recorded.  A later entity of an id
\* stands for the earlier, a node for an issue.
ContractChanged(P, id) ==
  LET of == {e \in P.nodes : e.id = id}
      all == IF of # {} THEN of ELSE {e \in P.issues : e.id = id}
      last == CHOOSE e \in all : \A o \in all : P.order[o.file] <= P.order[e.file]
  IN IF all = {} THEN 0 ELSE last.contract

check_no_stale_pins(P) ==
  UNION {{F("references", "stale_pin", "error", e.file, "body", {r[1]}, <<r[2], ContractChanged(P, r[1])>>) :
            r \in {x \in extract_references_with_pins(e.body) :
                     x[2] # Latest /\ x[2] < ContractChanged(P, x[1])}} : e \in Entities(P)}

check_comment_provenance(P) ==
  UNION {{Error("comment", "no_" \o f, c.file, f, {}) :
            f \in {x \in {"author", "type", "created_at"} : ~c.has[x]}} : c \in P.comments}

-----------------------------------------------------------------------------
(* Bodies.                                                                   *)

Heading(name) == "## " \o name
REQUIRED_ISSUE_BODY_HEADINGS ==
  {"Context", "Implements", "Repo scope", "Requirements", "Execution constraints",
   "Acceptance criteria", "Test plan", "Dependencies", "Definition of Done"}
REQUIRED_EPIC_BODY_HEADINGS == {"Context", "Child issues", "Acceptance criteria"}
Acceptance == Heading("Acceptance criteria")

_is_epic(issue) == "type/epic" \in issue.labels

check_issue_body_structure(P) ==
  UNION {LET says == Says(e.body)
             required == IF _is_epic(e) THEN REQUIRED_EPIC_BODY_HEADINGS ELSE REQUIRED_ISSUE_BODY_HEADINGS
             flaw(holds, name, names) ==
               IF holds THEN {Warning("body", name, e.file, "body", names)} ELSE {}
         IN UNION {flaw(Heading(h) \notin says, "missing_heading", {h}) : h \in required}
              \cup flaw(/\ Acceptance \in says
                        /\ {"- [ ]", "- [x]"} \cap Says(Section(e.body, Acceptance)) = {},
                        "no_acceptance_checkbox", {})
              \cup flaw(~_is_epic(e) /\ "stop and ask" \notin says, "no_stop_and_ask", {})
              \cup flaw(extract_references(e.body) = {}, "no_references", {})
         : e \in P.issues}

check_project_standards(P) ==
  IF ~P.standards /\ \E e \in Timed(P) : "standards.md" \in Says(e.body)
  THEN {Warning("standards", "missing", "", "", {})}
  ELSE {}

DEFINITIONAL_NODE_TYPES ==
  {"principle", "practice", "glossary", "metric", "persona", "invariant", "anti_pattern", "skill"}
Implemented(n) == n.enums["node_type"] \notin DEFINITIONAL_NODE_TYPES

\* Mentions are counted, not issues: one that says a name twice is enough.
check_coverage_heuristics(P) ==
  LET mentions(n) == MapThenSumSet(LAMBDA i : Mentions(i.body, n.id), P.issues)
  IN {Warning("coverage", "no_nodes_referenced", i.file, "", {}) :
        i \in {x \in P.issues : x.body # <<>> /\ extract_references(x.body) \cap Ids(P.nodes) = {}}}
       \cup {F("coverage", "unreferenced_node", "warning", n.file, "", {n.id}, <<mentions(n)>>) :
               n \in {x \in P.nodes : Implemented(x) /\ mentions(x) <= 1}}

\* The first third of the issues that are no epics against the last, by number.
\* A drop is more than a share of a hundred of what there was.
QUALITY_MIN_ISSUES_FOR_CHECK == 9
Dropped(before, after, share) == before > 0 /\ (before - after) * 100 > share * before

check_quality_consistency(P) ==
  LET concrete == {i \in P.issues : ~_is_epic(i) /\ i.key # <<>>}
      third == Cardinality(concrete) \div 3
      earlier(i) == {o \in concrete : \/ o.key[2] < i.key[2]
                                      \/ o.key[2] = i.key[2] /\ P.order[o.file] < P.order[i.file]}
      first == {i \in concrete : Cardinality(earlier(i)) < third}
      last == {i \in concrete : Cardinality(earlier(i)) >= Cardinality(concrete) - third}
      chars(part) == MapThenSumSet(LAMBDA i : i.size, part)
      refs(part) == MapThenSumSet(LAMBDA i : Cardinality(extract_references(i.body)), part)
      drop(before, after, share, name) ==
        IF Dropped(before, after, share)
        THEN {F("quality", name, "warning", "", "", {}, <<before, after, third>>)} ELSE {}
  IN IF Cardinality(concrete) < QUALITY_MIN_ISSUES_FOR_CHECK THEN {}
     ELSE drop(chars(first), chars(last), 20, "body_degradation")
            \cup drop(refs(first), refs(last), 40, "ref_degradation")

-----------------------------------------------------------------------------
(* Freshness.  A hash is modelled by what is hashed.                         *)

HasSource(n) == n.source.path # ""

\* The local clone is read whatever is checked out there; GitHub only where the
\* clone, or the file in it, is missing.
fetch_content(P, s) ==
  IF s.repo \in DOMAIN P.clones /\ s.path \in DOMAIN P.clones[s.repo] THEN P.clones[s.repo][s.path]
  ELSE IF <<s.repo, s.path, s.branch>> \in DOMAIN P.github THEN P.github[<<s.repo, s.path, s.branch>>]
  ELSE ""

Checked(P) == {n \in P.nodes : n.enums["node_status"] = "active" /\ HasSource(n)}

check_node_freshness(P, n) ==
  CASE fetch_content(P, n.source) = "" -> "source_missing"
    [] n.source.content_hash = "" -> "stale"
    [] n.source.content_hash = fetch_content(P, n.source) -> "fresh"
    [] OTHER -> "stale"

\* A range of lines that ends before it begins is no range to slice: nothing on
\* the way catches the error.
Unsliceable(P) == \E n \in Checked(P) : n.source.backwards /\ fetch_content(P, n.source) # ""

check_freshness(P) ==
  IF ~P.loads THEN {}
  ELSE {Error("freshness", "source_missing", LastOf(P, n.id).file, "source", {}) :
          n \in {x \in Checked(P) : check_node_freshness(P, x) = "source_missing"}}
         \cup {Warning("freshness", "stale", LastOf(P, n.id).file, "source.content_hash",
                       {n.source.content_hash, fetch_content(P, n.source)}) :
                 n \in {x \in Checked(P) : check_node_freshness(P, x) = "stale"}}

-----------------------------------------------------------------------------
(* What a project says of itself and of its neighbours.                      *)

\* A repository is the project's own by its place, or by the last part of its name.
check_project_repos_present(P) ==
  IF P.loads /\ ~\E r \in DOMAIN P.config.repos :
                   P.config.repos[r].local = P.here \/ P.config.repos[r].leaf = P.config.name
  THEN {Error("project", "repos_required", ProjectYaml, "repos", {P.config.name})}
  ELSE {}

\* pointer: where project.yaml says the workspace is, and what is there.
check_workspace_link(P) ==
  LET flaw(name) == {Error("workspace", name, ProjectYaml, "workspace.path", {})}
  IN CASE ~P.loads \/ P.pointer = "none" -> {}
       [] P.pointer \in {"unresolvable", "no workspace.yaml"} -> flaw("pointer_dangling")
       [] P.pointer = "unloadable" -> flaw("load_error")
       [] P.pointer = "workspace" /\ P.here \notin P.members -> flaw("back_reference_missing")
       [] OTHER -> {}

ManifestYaml == "templates/artifacts/manifest.yaml"
_load_manifest(P) == IF P.manifest = "ok" THEN P.artifacts ELSE {}

check_manifest_schema(P) ==
  LET flaw(name, field, names) == Error("manifest_schema", name, ManifestYaml, field, names)
      outside(enum, value) == value # "" /\ value \notin P.enums[enum]
  IN IF P.manifest \in {"parse_error", "invalid"} THEN {flaw(P.manifest, "", {})}
     ELSE UNION {{flaw(x[1] \o "_valid", x[1], {a.name, a[x[1]]}) :
                    x \in {y \in {<<"produced_at", "artifact_phase">>, <<"produced_by", "agent_type">>,
                                  <<"owned_by", "agent_type">>} : outside(y[2], a[y[1]])}}
                 : a \in _load_manifest(P)}

check_manifest_phase_ownership_consistent(P) ==
  {Warning("manifest_schema", "phase_ownership_consistent", ManifestYaml, "owned_by",
           {a.name, a.produced_at, a.produced_by}) :
     a \in {x \in _load_manifest(P) : /\ x.owned_by = "pm" /\ x.produced_by # "pm"
                                      /\ x.produced_at \in {"executing", "in_review"}}}

\* The branch is judged before the rest of the file: a word for it that is no
\* text falls to the schema.
check_handoff_artifact(P) ==
  LET flaw(s, name, field) == {Error("handoff_schema", name, s.handoff.file, field, {s.id})}
  IN UNION {CASE s.handoff.state = "missing" -> flaw(s, "required_at_queued", "")
              [] s.handoff.state = "unreadable" -> flaw(s, "malformed", "")
              [] s.handoff.branch \in {"misshapen", "unlisted type"} -> flaw(s, "branch_format", "branch")
              [] s.handoff.branch \in {"absent", "no text"} \/ ~s.handoff.conforms -> flaw(s, "malformed", "")
              [] OTHER -> {}
            : s \in {x \in P.sessions : x.enums["session_status"] = "queued"}}

-----------------------------------------------------------------------------
(* Lints and their thresholds, in hundredths, each with the type it has.     *)

Shipped(lint, threshold) ==
  CASE <<lint, threshold>> = <<"concept_name_prose", "min_issues">> -> [type |-> "int", is |-> 200]
    [] <<lint, threshold>> = <<"semantic_coverage", "min_ac_node_refs">> -> [type |-> "int", is |-> 0]
    [] <<lint, threshold>> = <<"mega_issue", "max_children">> -> [type |-> "int", is |-> 800]
    [] <<lint, threshold>> = <<"mega_issue", "max_sessions">> -> [type |-> "int", is |-> 600]
    [] <<lint, threshold>> = <<"node_ratio", "min_ratio">> -> [type |-> "float", is |-> 10]
    [] <<lint, threshold>> = <<"node_ratio", "max_ratio">> -> [type |-> "float", is |-> 500]

KIND_OVERRIDES(kind, lint, threshold) ==
  CASE kind \notin {"library", "framework"} \/ lint # "node_ratio" -> {}
    [] threshold = "min_ratio" -> {[type |-> "float", is |-> 50]}
    [] threshold = "max_ratio" -> {[type |-> "float", is |-> 1000]}

\* All the thresholds are numbers: a number is taken, of either type; what a
\* project says otherwise is as if it had not said it.
get_threshold(P, lint, threshold) ==
  LET own == IF P.loads /\ <<lint, threshold>> \in DOMAIN P.config.lint_config
             THEN {P.config.lint_config[<<lint, threshold>>]} ELSE {}
      numbers == {v \in own : v.type \in {"int", "float"}}
      kinds == KIND_OVERRIDES(IF P.loads THEN P.config.kind ELSE "product", lint, threshold)
  IN (CASE numbers # {} -> CHOOSE v \in numbers : TRUE
        [] numbers = {} /\ kinds # {} -> CHOOSE v \in kinds : TRUE
        [] OTHER -> Shipped(lint, threshold)).is

_INACTIVE_ISSUE == {"completed", "abandoned"}
_TERMINAL_SESSION == {"completed", "abandoned", "failed"}
ActiveIssues(P) == {i \in P.issues : i.enums["issue_status"] \notin _INACTIVE_ISSUE}
ActiveSessions(P) == {s \in P.sessions : s.enums["session_status"] \notin _TERMINAL_SESSION}

\* Only what work still refers to, and not what it merely names.
stale_concept(P) ==
  LET stale == IF P.loads THEN {n.id : n \in {x \in Checked(P) : check_node_freshness(P, x) = "stale"}} ELSE {}
      users(id) == {e.id : e \in {x \in ActiveIssues(P) \cup ActiveSessions(P) :
                                    id \in extract_references(x.body)}}
  IN {Warning("stale_concept", "referenced", LastOf(P, id).file, "source.content_hash", users(id)) :
        id \in {x \in stale : users(x) # {}}}

concept_name_prose(P) ==
  LET hits(n) == {i.id : i \in {x \in P.issues : /\ n.id \notin extract_references(x.body)
                                                 /\ n.name \in _strip_prose_text(x.body)}}
  IN {Warning("concept_name_prose", "found", LastOf(P, n.id).file, "name", {n.id} \cup hits(n)) :
        n \in {x \in P.nodes : /\ Implemented(x) /\ ~x.short
                               /\ P.issues # {}
                               /\ Cardinality(hits(x)) * 100 >= get_threshold(P, "concept_name_prose", "min_issues")}}

semantic_coverage(P) ==
  LET floor == get_threshold(P, "semantic_coverage", "min_ac_node_refs")
      criteria(i) == Section(i.body, Acceptance)
      count(i) == Cardinality(Places(criteria(i)))
  IN IF floor <= 0 THEN {}
     ELSE {F("semantic_coverage", "below_threshold", "warning", i.file, "body", {}, <<count(i)>>) :
             i \in {x \in ActiveIssues(P) : Acceptance \in Says(x.body) /\ count(x) * 100 < floor}}

\* What is one too many is more than the threshold, not as many.  Neither a
\* parent nor a session's issue need exist.
mega_issue(P) ==
  LET parents == {i.parent : i \in P.issues} \ {""}
      tasks == UNION {s.issues : s \in P.sessions}
      children(id) == Cardinality({i \in P.issues : i.parent = id})
      sessions(id) == Cardinality({s \in P.sessions : id \in s.issues})
      file(id) == IF \E i \in P.issues : i.id = id THEN (CHOOSE i \in P.issues : i.id = id).file ELSE ""
      over(ids, Count(_), threshold, name, field) ==
        {F("mega_issue", name, "warning", file(id), field, {id}, <<Count(id)>>) :
           id \in {x \in ids : Count(x) * 100 > get_threshold(P, "mega_issue", threshold)}}
  IN IF P.issues = {} THEN {}
     ELSE over(parents, children, "max_children", "too_many_children", "parent")
            \cup over(tasks, sessions, "max_sessions", "too_many_sessions", "issues")

_MIN_ACTIVE_ISSUES == 5

node_ratio(P) ==
  LET active == Cardinality(ActiveIssues(P))
      nodes == Cardinality(P.nodes)
      found(name) == {F("node_ratio", name, "warning", ProjectYaml, "metadata.kind", {}, <<nodes, active>>)}
  IN CASE active < _MIN_ACTIVE_ISSUES -> {}
       [] nodes * 100 < get_threshold(P, "node_ratio", "min_ratio") * active -> found("below_band")
       [] nodes * 100 > get_threshold(P, "node_ratio", "max_ratio") * active -> found("above_band")
       [] OTHER -> {}

\* The paths are compared as they are written, whatever they lead to.
worktree_paths_unique(P) ==
  LET owners(path) == {s \in P.sessions : path \in s.worktrees}
      first(path) == CHOOSE s \in owners(path) : \A o \in owners(path) : P.order[s.file] <= P.order[o.file]
  IN {Error("worktree_paths_unique", "collision", first(path).file, "", {path} \cup Ids(owners(path))) :
        path \in {x \in UNION {s.worktrees : s \in P.sessions} : Cardinality(Ids(owners(x))) > 1}}
=============================================================================
