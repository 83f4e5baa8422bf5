------------------------- MODULE WorkflowDefinition -------------------------
(***************************************************************************)
(* core/workflow/loader.py and schema.py: what the loader makes of the     *)
(* parsed YAML of workflow.yaml and what validate_workflow_spec finds      *)
(* wrong with it, and core/status.py, which reads the routes of one        *)
(* workflow as a graph.  All of it is computation: a definition goes in,   *)
(* findings or an answer come out.                                         *)
(*                                                                         *)
(* A raw definition is what the YAML says.  A missing name is Blank.  The  *)
(* loader drops list entries that are no mappings, so a raw list has none. *)
(* Names of controls, commands, skills and scripts are looked up in        *)
(* catalogues; for the dot paths of preserve_fields and clear_fields only  *)
(* the head counts, so the head stands for the path.  The skills of a      *)
(* status are those of its work steps, one after the other.                *)
(***************************************************************************)
EXTENDS Naturals, Sequences, FiniteSets

CONSTANTS
  Sources,  \* boundary ports a route may come from, "source:..."
  Sinks,    \* boundary ports a route may lead to, "sink:..."
  Known     \* catalogue -> the ids that are implemented

Blank == ""
RouteKinds == {"forward", "return", "loop", "side", "revert", "terminal"}
RollbackModes == {"atomic", "none"}
RouteActors == {"pm-agent", "coding-agent", "code"}
OffPathNames == {"paused", "failed"}
Controls == {"tripwires", "heuristics", "jit_prompts", "prompt_checks"}
Catalogues == Controls \cup {"commands", "skills", "side_effects", "fields"}

\* A finding; at is the status or route it is about, Blank for the workflow.
Finding(code, at) == [code |-> code, at |-> at]
FoundIf(wrong, code) == IF wrong THEN {Finding(code, Blank)} ELSE {}

\* Findings that do not refuse a definition.
WarningCodes == {"instance_missing", "duplicate_skill_in_status", "lossy_revert",
                 "cross_link_unknown_workflow", "cross_link_unknown_status"}
Errors(findings) == {f \in findings : f.code \notin WarningCodes}

\* What a workflow says, before the loader.
RawStatuses ==
  [id : STRING, terminal : BOOLEAN, refs : [Catalogues -> SUBSET STRING], skills : Seq(STRING),
   links : SUBSET [workflow : STRING, status : STRING]]
RawRoutes ==
  [id : STRING, from : STRING, to : STRING, kind : STRING, rollback : STRING,
   actor : STRING, preserves : BOOLEAN, refs : [Catalogues -> SUBSET STRING]]
RawWorkflows ==
  [unknown : SUBSET STRING, shape : {"list", "none", "other"},
   instance : [declared : BOOLEAN], statuses : Seq(RawStatuses), routes : Seq(RawRoutes)]

-----------------------------------------------------------------------------
(* The loader *)

Ids(statuses) == {statuses[i].id : i \in DOMAIN statuses}

\* status_index: of two statuses with one id the later counts.
IndexOf(statuses, id) ==
  CHOOSE i \in DOMAIN statuses :
     /\ statuses[i].id = id
     /\ \A j \in DOMAIN statuses : statuses[j].id = id => j <= i

classify_route_kind(from, to, statuses) ==
  CASE to \in Sinks -> "terminal"
    [] to \notin Sinks /\ from = to /\ from # Blank -> "loop"
    [] to \notin Sinks /\ from # to /\ {from, to} \subseteq Ids(statuses) ->
         IF IndexOf(statuses, to) > IndexOf(statuses, from) THEN "forward" ELSE "return"
    [] OTHER -> "side"

parse_status(raw) == [raw EXCEPT !.id = IF @ = Blank THEN "<unknown>" ELSE @]

\* An id is the one declared or, for want of one, made of the two ends; a made-up
\* id is taken to differ from every declared one.
RouteId(raw, idx) ==
  IF raw.id # Blank THEN <<raw.id>>
  ELSE IF raw.to = Blank THEN <<raw.from, Blank, idx>>
  ELSE << IF raw.from = Blank THEN "unknown" ELSE raw.from, raw.to >>

parse_route(raw, idx, statuses) ==
  [raw EXCEPT
     !.id = RouteId(raw, idx),
     !.kind = IF @ \in RouteKinds THEN @
              ELSE classify_route_kind(raw.from, raw.to, statuses),
     !.rollback = IF @ \in RollbackModes THEN @ ELSE "atomic"]

\* statuses: is a list, is missing or empty ("none"), or is something else.
LoadFindings(raw) ==
  { Finding("unknown_key", k) : k \in raw.unknown } \cup
  FoundIf(raw.shape = "none", "no_statuses_declared")

\* Without a list of statuses the routes are not even looked at.
parse_workflow(raw) ==
  LET statuses == [i \in DOMAIN raw.statuses |-> parse_status(raw.statuses[i])]
  IN IF raw.shape = "list"
     THEN [instance |-> raw.instance, statuses |-> statuses,
           routes |-> [i \in DOMAIN raw.routes |-> parse_route(raw.routes[i], i, statuses)]]
     ELSE [instance |-> raw.instance, statuses |-> <<>>, routes |-> <<>>]

-----------------------------------------------------------------------------
(* The checks on a parsed workflow *)

RoutesOf(wf) == {wf.routes[i] : i \in DOMAIN wf.routes}
StatusesOf(wf) == {wf.statuses[i] : i \in DOMAIN wf.statuses}
Declared(wf) == Ids(wf.statuses)
Exits(wf, s) == {r \in RoutesOf(wf) : r.from = s}

\* Positions whose name an earlier position has already.
Repeats(seq) ==
  {j \in DOMAIN seq : \E i \in DOMAIN seq : i < j /\ seq[i].id = seq[j].id}

Injective(seq) == \A i, j \in DOMAIN seq : seq[i] = seq[j] => i = j

check_workflow(wf) ==
  FoundIf(~wf.instance.declared, "instance_missing") \cup
  { Finding("duplicate_skill_in_status", s.id) :
      s \in {t \in StatusesOf(wf) : ~Injective(t.skills)} } \cup
  { Finding("duplicate_status_id", wf.statuses[j].id) : j \in Repeats(wf.statuses) } \cup
  FoundIf(wf.statuses # <<>> /\ \A s \in StatusesOf(wf) : ~s.terminal, "no_terminal_status")

check_route_kinds(wf) ==
  { Finding("unknown_route_kind", r.id) : r \in {q \in RoutesOf(wf) : q.kind \notin RouteKinds} } \cup
  { Finding("unknown_rollback_mode", r.id) :
      r \in {q \in RoutesOf(wf) : q.rollback \notin RollbackModes} }

\* The first status is the entry; any other needs one route from elsewhere.
HasInbound(wf, s) ==
  s = wf.statuses[1].id \/ \E r \in RoutesOf(wf) : r.to = s /\ r.from # s

check_reachability(wf) ==
  { Finding("unreachable_status", s) : s \in {t \in Declared(wf) : ~HasInbound(wf, t)} }

check_trap_statuses(wf) ==
  { Finding("terminal_with_outbound_route", s.id) :
      s \in {t \in StatusesOf(wf) : t.terminal /\ \E r \in Exits(wf, t.id) : r.kind # "revert"} } \cup
  { Finding("trap_status", s.id) :
      s \in {t \in StatusesOf(wf) : ~t.terminal /\ Exits(wf, t.id) = {}} }

OnPath(wf) == Declared(wf) \ (OffPathNames \cup {"abandoned"})

check_recovery_paths(wf) ==
  { Finding("no_recovery_path", s.id) :
      s \in {t \in StatusesOf(wf) : /\ t.id \in OffPathNames /\ ~t.terminal
                                    /\ \A r \in Exits(wf, t.id) : r.to \notin OnPath(wf)} }

check_lossy_reverts(wf) ==
  { Finding("lossy_revert", r.id) :
      r \in {q \in RoutesOf(wf) : q.kind = "revert" /\ ~q.preserves} }

\* An empty catalogue of controls switches its check off, another one does not.
Unknown(cat, refs) ==
  IF cat \in Controls /\ Known[cat] = {} THEN {} ELSE refs \ Known[cat]

check_refs(wf) ==
  { Finding("unknown_ref", s.id) :
      s \in {t \in StatusesOf(wf) : \E c \in Controls : Unknown(c, t.refs[c]) # {}} }

check_route_refs(wf) ==
  { Finding("duplicate_route_id", wf.routes[j].id) : j \in Repeats(wf.routes) } \cup
  { Finding("unknown_actor", r.id) : r \in {q \in RoutesOf(wf) : q.actor \notin RouteActors} } \cup
  { Finding("missing_route_endpoint", r.id) :
      r \in {q \in RoutesOf(wf) : Blank \in {q.from, q.to}} } \cup
  { Finding("unknown_route_status", r.id) :
      r \in {q \in RoutesOf(wf) :
               \E e \in {q.from, q.to} \ {Blank} : e \notin Declared(wf) \cup Sources \cup Sinks} } \cup
  { Finding("unknown_ref", r.id) :
      r \in {q \in RoutesOf(wf) : \E c \in Catalogues : Unknown(c, q.refs[c]) # {}} }

\* Links into other workflows; statusesBy gives the statuses of each workflow.
check_cross_links(wf, statusesBy) ==
  UNION { { Finding(IF l.workflow \in DOMAIN statusesBy THEN "cross_link_unknown_status"
                    ELSE "cross_link_unknown_workflow", s.id) :
              l \in {k \in s.links : k.workflow \in DOMAIN statusesBy =>
                                       k.status \notin statusesBy[k.workflow]} } :
          s \in StatusesOf(wf) }

check_schema_version(spec) ==
  FoundIf(DOMAIN spec.workflows # {} /\ spec.version # 1, "missing_schema_version")

WorkflowFindings(wf) ==
  UNION { check_workflow(wf), check_refs(wf), check_route_refs(wf), check_route_kinds(wf),
          check_reachability(wf), check_trap_statuses(wf), check_recovery_paths(wf),
          check_lossy_reverts(wf) }

\* spec: the version, unknown keys at the top, and the raw workflows by id.
validate_workflow_spec(spec) ==
  LET wfs == spec.workflows
      statusesBy == [w \in DOMAIN wfs |-> Declared(parse_workflow(wfs[w]))]
  IN UNION { {Finding("unknown_key", k) : k \in spec.unknown},
             check_schema_version(spec),
             UNION {LoadFindings(wfs[w]) : w \in DOMAIN wfs},
             UNION {WorkflowFindings(parse_workflow(wfs[w])) : w \in DOMAIN wfs},
             UNION {check_cross_links(parse_workflow(wfs[w]), statusesBy) : w \in DOMAIN wfs} }

\* One raw workflow that `tripwire validate` lets pass.
Accepted(raw) == Errors(LoadFindings(raw) \cup WorkflowFindings(parse_workflow(raw))) = {}

\* And one that does not get in the way of a move with tripwires: the executor's
\* gate validates strictly, and always with these checks, so that there a warning
\* refuses the move like an error does.
GateAccepts(raw) == LoadFindings(raw) \cup WorkflowFindings(parse_workflow(raw)) = {}

-----------------------------------------------------------------------------
(* What reads the routes *)

NoRoute == [id |-> <<>>]

\* _route_between: the first route between two statuses; later ones are never taken.
route_between(wf, from, to) ==
  LET between == {i \in DOMAIN wf.routes : wf.routes[i].from = from /\ wf.routes[i].to = to}
  IN IF between = {} THEN NoRoute
     ELSE wf.routes[CHOOSE i \in between : \A j \in between : i <= j]

\* The moves the executor lets an instance make: the target must be declared.
Moves(wf) == {m \in Declared(wf) \X Declared(wf) : route_between(wf, m[1], m[2]) # NoRoute}

\* build_issue_transitions: routes between ports and statuses do not count.
build_issue_transitions(wf, enum) ==
  LET inner == {r \in RoutesOf(wf) : {r.from, r.to} \cap (Sources \cup Sinks) = {}}
  IN [s \in Declared(wf) \cup enum \cup {r.from : r \in inner} |->
        {r.to : r \in {q \in inner : q.from = s}}]

Successors(transitions, s) == IF s \in DOMAIN transitions THEN transitions[s] ELSE {}

is_transition_allowed(transitions, from, to) ==
  from = to \/ to \in Successors(transitions, from)

\* reachable_statuses: breadth first from planned, or from the first status the
\* project declares.  Rounds as many as there are names visit everything.
reachable_statuses(transitions, declared) ==
  LET start == IF "planned" \in DOMAIN transitions \/ declared = <<>> THEN "planned"
               ELSE declared[1]
      rounds == Cardinality(DOMAIN transitions) + 1
      visited[n \in 0..rounds] ==
        IF n = 0 THEN {start}
        ELSE visited[n - 1] \cup UNION {Successors(transitions, s) : s \in visited[n - 1]}
  IN IF DOMAIN transitions = {} THEN {declared[i] : i \in DOMAIN declared}
     ELSE visited[rounds]
=============================================================================
