-------------------------- MODULE SequentialProofs --------------------------
(***************************************************************************)
(* What is proved of the parts in which nothing runs at once: the checks   *)
(* of a workflow definition, the file of an instance, the layers of a      *)
(* spawn configuration, the markers of the heuristics, the migrations and  *)
(* the gates of a session, whose moves come one after the other; for       *)
(* definitions, files, findings and projects of every size.                *)
(***************************************************************************)
EXTENDS WorkflowDefinition, InstanceFile, SpawnConfig, HeuristicMarkers, Migration,
        SessionGates, WellFoundedInduction, SequenceTheorems, TLAPS

-----------------------------------------------------------------------------
(* WorkflowDefinition: what the checks guarantee to whoever uses a         *)
(* definition they let pass.                                               *)

\* A finding that is no warning keeps a definition from being accepted.
LEMMA NothingFound ==
  ASSUME NEW raw, Accepted(raw), NEW f, f.code \notin WarningCodes
  PROVE  f \notin WorkflowFindings(parse_workflow(raw))
BY DEF Accepted, Errors

\* What a loaded route looks like.
LEMMA LoadedRoute ==
  ASSUME NEW raw \in RawRoutes, NEW idx, NEW statuses
  PROVE  LET r == parse_route(raw, idx, statuses)
         IN /\ r.from = raw.from /\ r.to = raw.to /\ r.actor = raw.actor
            /\ r.refs = raw.refs /\ r.preserves = raw.preserves
            /\ r.id = RouteId(raw, idx)
            /\ r.kind \in RouteKinds
            /\ r.rollback \in RollbackModes
<1>1. classify_route_kind(raw.from, raw.to, statuses) \in RouteKinds
  BY DEF classify_route_kind, RouteKinds
<1> QED BY <1>1 DEF parse_route, RawRoutes, RouteKinds, RollbackModes

\* A route has a name once it is loaded.
LEMMA LoadedIds ==
  ASSUME NEW raw \in RawWorkflows, NEW i \in DOMAIN parse_workflow(raw).routes
  PROVE  parse_workflow(raw).routes[i].id # <<>>
<1> DEFINE statuses == [j \in DOMAIN raw.statuses |-> parse_status(raw.statuses[j])]
<1>1. CASE raw.shape = "list"
  <2>1. /\ i \in DOMAIN raw.routes
        /\ parse_workflow(raw).routes[i] = parse_route(raw.routes[i], i, statuses)
    BY <1>1 DEF parse_workflow
  <2>2. raw.routes[i] \in RawRoutes
    BY <2>1 DEF RawWorkflows
  <2>3. parse_workflow(raw).routes[i].id = RouteId(raw.routes[i], i)
    BY <2>1, <2>2, LoadedRoute
  <2>4. RouteId(raw.routes[i], i) # <<>>
    BY DEF RouteId
  <2> QED BY <2>3, <2>4
<1>2. CASE raw.shape # "list"
  BY <1>2 DEF parse_workflow
<1> QED BY <1>1, <1>2

\* A set of numbers that is not empty has a least one.
LEMMA LeastNatural ==
  ASSUME NEW S, S # {}, S \subseteq Nat
  PROVE  (CHOOSE i \in S : \A j \in S : i <= j) \in S
<1>1. PICK n \in S : \A m \in S : ~ (<<m, n>> \in OpToRel(<, Nat))
  BY WFMin, NatLessThanWellFounded, Zenon
<1>2. \A m \in S : ~ (m < n)
  BY <1>1, Zenon DEF OpToRel
<1>3. \A m \in S : n <= m
  BY <1>2
<1> QED BY <1>3

\* The loader replaces a kind or a rollback mode it does not know, so neither
\* check_route_kinds nor anybody behind it ever sees one: the findings
\* unknown_route_kind and unknown_rollback_mode cannot be made of a file.
THEOREM KindsAreRepaired ==
  ASSUME NEW raw \in RawWorkflows
  PROVE  check_route_kinds(parse_workflow(raw)) = {}
<1> DEFINE wf == parse_workflow(raw)
<1>1. ASSUME NEW r \in RoutesOf(wf)
      PROVE  r.kind \in RouteKinds /\ r.rollback \in RollbackModes
  <2>1. CASE raw.shape = "list"
    <3> DEFINE statuses == [i \in DOMAIN raw.statuses |-> parse_status(raw.statuses[i])]
    <3>1. wf.routes = [i \in DOMAIN raw.routes |-> parse_route(raw.routes[i], i, statuses)]
      BY <2>1 DEF parse_workflow
    <3>2. PICK i \in DOMAIN raw.routes : r = parse_route(raw.routes[i], i, statuses)
      BY <3>1 DEF RoutesOf
    <3>3. raw.routes[i] \in RawRoutes
      BY DEF RawWorkflows
    <3> QED BY <3>2, <3>3, LoadedRoute
  <2>2. CASE raw.shape # "list"
    <3>1. wf.routes = <<>>
      BY <2>2 DEF parse_workflow
    <3> QED BY <1>1, <3>1 DEF RoutesOf
  <2> QED BY <2>1, <2>2
<1> QED BY <1>1 DEF check_route_kinds

-----------------------------------------------------------------------------

\* In an accepted definition no two statuses and no two routes have the same
\* name, so statuses_by_id and routes_by_id lose nothing.
THEOREM NamesAreUnique ==
  ASSUME NEW raw \in RawWorkflows, Accepted(raw)
  PROVE  LET wf == parse_workflow(raw)
         IN /\ \A i, j \in DOMAIN wf.statuses :
                  wf.statuses[i].id = wf.statuses[j].id => i = j
            /\ \A i, j \in DOMAIN wf.routes :
                  wf.routes[i].id = wf.routes[j].id => i = j
<1> DEFINE wf == parse_workflow(raw)
<1>1. DOMAIN wf.statuses \subseteq Nat /\ DOMAIN wf.routes \subseteq Nat
  BY DEF parse_workflow, RawWorkflows
<1>2. Repeats(wf.statuses) = {}
  <2>1. SUFFICES ASSUME NEW j \in Repeats(wf.statuses) PROVE FALSE
    OBVIOUS
  <2>2. Finding("duplicate_status_id", wf.statuses[j].id) \in WorkflowFindings(wf)
    BY <2>1 DEF WorkflowFindings, check_workflow
  <2> QED BY <2>2, NothingFound DEF Finding, WarningCodes
<1>3. Repeats(wf.routes) = {}
  <2>1. SUFFICES ASSUME NEW j \in Repeats(wf.routes) PROVE FALSE
    OBVIOUS
  <2>2. Finding("duplicate_route_id", wf.routes[j].id) \in WorkflowFindings(wf)
    BY <2>1 DEF WorkflowFindings, check_route_refs
  <2> QED BY <2>2, NothingFound DEF Finding, WarningCodes
<1>4. ASSUME NEW seq, DOMAIN seq \subseteq Nat, Repeats(seq) = {},
             NEW i \in DOMAIN seq, NEW j \in DOMAIN seq, seq[i].id = seq[j].id
      PROVE  i = j
  BY <1>4 DEF Repeats
<1> QED BY <1>1, <1>2, <1>3, <1>4

\* _route_between answers with a route between the two, if there is one.
LEMMA FirstRoute ==
  ASSUME NEW raw \in RawWorkflows, NEW from, NEW to
  PROVE  LET wf == parse_workflow(raw)
             q == route_between(wf, from, to)
         IN /\ (\E r \in RoutesOf(wf) : r.from = from /\ r.to = to) => q # NoRoute
            /\ q # NoRoute => q \in RoutesOf(wf) /\ q.from = from /\ q.to = to
<1> DEFINE wf == parse_workflow(raw)
           between == {i \in DOMAIN wf.routes : wf.routes[i].from = from /\ wf.routes[i].to = to}
           first == CHOOSE i \in between : \A j \in between : i <= j
<1>1. CASE between = {}
  <2>1. route_between(wf, from, to) = NoRoute
    BY <1>1 DEF route_between
  <2> QED BY <1>1, <2>1 DEF RoutesOf
<1>2. CASE between # {}
  <2>1. between \subseteq Nat
    BY DEF parse_workflow, RawWorkflows
  <2>2. first \in between
    BY <1>2, <2>1, LeastNatural
  <2>3. route_between(wf, from, to) = wf.routes[first]
    BY <1>2 DEF route_between
  <2>4. wf.routes[first].id # <<>>
    BY <2>2, LoadedIds
  <2> DEFINE q == route_between(wf, from, to)
  <2> HIDE DEF first
  <2>5. q = wf.routes[first] /\ first \in DOMAIN wf.routes /\ q.from = from /\ q.to = to
    BY <2>2, <2>3
  <2> HIDE DEF q, between
  <2>6. q \in RoutesOf(wf)
    BY <2>5 DEF RoutesOf
  <2>7. q.id # <<>>
    BY <2>4, <2>5
  <2>8. q # NoRoute
    BY <2>7 DEF NoRoute
  <2> QED BY <2>5, <2>6, <2>8 DEF q
<1> QED BY <1>1, <1>2

\* A route of an accepted definition begins and ends at a status or a port, and
\* one between two statuses is a move of the executor.
THEOREM RoutesBecomeMoves ==
  ASSUME NEW raw \in RawWorkflows, Accepted(raw)
  PROVE  LET wf == parse_workflow(raw)
         IN \A r \in RoutesOf(wf) :
              /\ {r.from, r.to} \subseteq Declared(wf) \cup Sources \cup Sinks
              /\ {r.from, r.to} \subseteq Declared(wf) => <<r.from, r.to>> \in Moves(wf)
<1> DEFINE wf == parse_workflow(raw)
<1> SUFFICES ASSUME NEW r \in RoutesOf(wf)
             PROVE  /\ {r.from, r.to} \subseteq Declared(wf) \cup Sources \cup Sinks
                    /\ {r.from, r.to} \subseteq Declared(wf) => <<r.from, r.to>> \in Moves(wf)
  OBVIOUS
<1>1. Blank \notin {r.from, r.to}
  <2>1. SUFFICES ASSUME Blank \in {r.from, r.to} PROVE FALSE
    OBVIOUS
  <2>2. Finding("missing_route_endpoint", r.id) \in WorkflowFindings(wf)
    BY <2>1 DEF WorkflowFindings, check_route_refs
  <2> QED BY <2>2, NothingFound DEF Finding, WarningCodes
<1>2. {r.from, r.to} \subseteq Declared(wf) \cup Sources \cup Sinks
  <2>1. SUFFICES ASSUME NEW e \in {r.from, r.to} \ {Blank},
                        e \notin Declared(wf) \cup Sources \cup Sinks
                 PROVE  FALSE
    BY <1>1
  <2>2. Finding("unknown_route_status", r.id) \in WorkflowFindings(wf)
    BY <2>1 DEF WorkflowFindings, check_route_refs
  <2> QED BY <2>2, NothingFound DEF Finding, WarningCodes
<1>3. ASSUME {r.from, r.to} \subseteq Declared(wf)
      PROVE  route_between(wf, r.from, r.to) # NoRoute
  BY FirstRoute
<1> QED BY <1>2, <1>3 DEF Moves

-----------------------------------------------------------------------------

\* Nobody is stuck in an accepted definition: the executor can move a session out
\* of every status that is not terminal, unless what leads out of it leads to a
\* port; it can move one that was paused or has failed back to work; and out of a
\* terminal status it can only revert.
THEOREM NobodyIsStuck ==
  ASSUME NEW raw \in RawWorkflows, Accepted(raw)
  PROVE  LET wf == parse_workflow(raw)
         IN \A s \in StatusesOf(wf) :
              /\ ~s.terminal => \/ \E t : <<s.id, t>> \in Moves(wf)
                                \/ \E r \in Exits(wf, s.id) : r.to \in Sources \cup Sinks
              /\ s.terminal => \A t : <<s.id, t>> \in Moves(wf) =>
                                        route_between(wf, s.id, t).kind = "revert"
              /\ (~s.terminal /\ s.id \in OffPathNames) => \E t \in OnPath(wf) : <<s.id, t>> \in Moves(wf)
<1> DEFINE wf == parse_workflow(raw)
<1> SUFFICES
      ASSUME NEW s \in StatusesOf(wf)
      PROVE  /\ ~s.terminal => \/ \E t : <<s.id, t>> \in Moves(wf)
                               \/ \E r \in Exits(wf, s.id) : r.to \in Sources \cup Sinks
             /\ s.terminal => \A t : <<s.id, t>> \in Moves(wf) =>
                                       route_between(wf, s.id, t).kind = "revert"
             /\ (~s.terminal /\ s.id \in OffPathNames) => \E t \in OnPath(wf) : <<s.id, t>> \in Moves(wf)
  OBVIOUS
<1>1. s.id \in Declared(wf)
  BY DEF StatusesOf, Declared, Ids
<1>2. ASSUME ~s.terminal PROVE Exits(wf, s.id) # {}
  <2>1. SUFFICES ASSUME Exits(wf, s.id) = {} PROVE FALSE
    OBVIOUS
  <2>2. Finding("trap_status", s.id) \in WorkflowFindings(wf)
    BY <1>2, <2>1 DEF WorkflowFindings, check_trap_statuses
  <2> QED BY <2>2, NothingFound DEF Finding, WarningCodes
<1>3. ASSUME s.terminal, NEW r \in Exits(wf, s.id), r.kind # "revert" PROVE FALSE
  <2>1. Finding("terminal_with_outbound_route", s.id) \in WorkflowFindings(wf)
    BY <1>3 DEF WorkflowFindings, check_trap_statuses
  <2> QED BY <2>1, NothingFound DEF Finding, WarningCodes
<1>4. ASSUME ~s.terminal, s.id \in OffPathNames, \A r \in Exits(wf, s.id) : r.to \notin OnPath(wf)
      PROVE  FALSE
  <2>1. Finding("no_recovery_path", s.id) \in WorkflowFindings(wf)
    BY <1>4 DEF WorkflowFindings, check_recovery_paths
  <2> QED BY <2>1, NothingFound DEF Finding, WarningCodes
<1>5. ASSUME NEW r \in Exits(wf, s.id), r.to \in Declared(wf)
      PROVE  <<s.id, r.to>> \in Moves(wf)
  <2>1. r \in RoutesOf(wf) /\ r.from = s.id
    BY <1>5 DEF Exits
  <2>2. {r.from, r.to} \subseteq Declared(wf)
    BY <1>1, <1>5, <2>1
  <2>3. <<r.from, r.to>> \in Moves(wf)
    BY <2>1, <2>2, RoutesBecomeMoves
  <2> QED BY <2>1, <2>3
<1>6. ASSUME ~s.terminal
      PROVE  \/ \E t : <<s.id, t>> \in Moves(wf)
             \/ \E r \in Exits(wf, s.id) : r.to \in Sources \cup Sinks
  <2>1. PICK r \in Exits(wf, s.id) : TRUE
    BY <1>2, <1>6
  <2>2. r \in RoutesOf(wf)
    BY <2>1 DEF Exits
  <2>3. r.to \in Declared(wf) \cup Sources \cup Sinks
    BY <2>2, RoutesBecomeMoves
  <2>4. CASE r.to \in Declared(wf)
    BY <1>5, <2>4
  <2> QED BY <2>3, <2>4
<1>7. ASSUME s.terminal, NEW t, <<s.id, t>> \in Moves(wf)
      PROVE  route_between(wf, s.id, t).kind = "revert"
  <2> DEFINE q == route_between(wf, s.id, t)
  <2>1. q # NoRoute
    BY <1>7 DEF Moves
  <2>2. q \in RoutesOf(wf) /\ q.from = s.id
    BY <2>1, FirstRoute
  <2> HIDE DEF q
  <2>3. q \in Exits(wf, s.id)
    BY <2>2 DEF Exits
  <2>4. q.kind = "revert"
    BY <1>3, <1>7, <2>3
  <2> QED BY <2>4 DEF q
<1>8. ASSUME ~s.terminal, s.id \in OffPathNames
      PROVE  \E t \in OnPath(wf) : <<s.id, t>> \in Moves(wf)
  <2>1. PICK r \in Exits(wf, s.id) : r.to \in OnPath(wf)
    BY <1>4, <1>8
  <2>2. r.to \in Declared(wf)
    BY <2>1 DEF OnPath
  <2> QED BY <1>5, <2>1, <2>2
<1> QED BY <1>6, <1>7, <1>8

-----------------------------------------------------------------------------
(* InstanceFile: what a move leaves of a file, and who guards it.          *)

\* A move changes the status of an instance and stamps it, and changes nothing
\* else: the file keeps its form, with or without front matter, every other key
\* and its body, except for the newline at its end.  This is what the key for the
\* body is there for, and it needs that the file has no key of that name itself
\* and that the status is not one of the stamps.
THEOREM MoveKeepsTheRest ==
  ASSUME NEW f \in Files, WellFormed(f), BodyKey \notin DOMAIN f.data,
         NEW field \in Keys \ (Stamps \cup {BodyKey}),
         NEW value, NEW visit, NEW now
  PROVE  LET g == AfterMove(f, field, value, visit, now)
         IN /\ g.front = f.front
            /\ g.data[field] = value
            /\ DOMAIN g.data = DOMAIN f.data \cup {field} \cup Stamps
            /\ \A k \in DOMAIN f.data \ ({field} \cup Stamps) : g.data[k] = f.data[k]
            /\ g.body.text = f.body.text
<1> DEFINE loaded == parse_instance_text(f)
           moved == set_key(loaded, field, value)
           visited == set_key(moved, VisitKey, visit)
           stamped == set_key(visited, TimeKey, now)
           g == AfterMove(f, field, value, visit, now)
<1> VisitKey # TimeKey /\ VisitKey # BodyKey /\ TimeKey # BodyKey
  BY DEF VisitKey, TimeKey, BodyKey
<1>1. g = serialise_instance_data(stamped)
  BY DEF AfterMove
<1> HIDE DEF loaded, moved, visited, stamped, g
<1>2. /\ DOMAIN moved = DOMAIN loaded \cup {field}
      /\ moved[field] = value
      /\ \A k \in DOMAIN loaded \ {field} : moved[k] = loaded[k]
  BY DEF moved, set_key
<1>3. /\ DOMAIN visited = DOMAIN moved \cup {VisitKey}
      /\ \A k \in DOMAIN moved \ {VisitKey} : visited[k] = moved[k]
  BY DEF visited, set_key
<1>4. /\ DOMAIN stamped = DOMAIN visited \cup {TimeKey}
      /\ \A k \in DOMAIN visited \ {TimeKey} : stamped[k] = visited[k]
  BY DEF stamped, set_key
<1>5. /\ DOMAIN stamped = DOMAIN loaded \cup {field} \cup Stamps
      /\ stamped[field] = value
      /\ \A k \in DOMAIN loaded \ ({field} \cup Stamps) : stamped[k] = loaded[k]
  BY <1>2, <1>3, <1>4 DEF Stamps
<1>6. CASE f.front
  <2>1. loaded = [k \in DOMAIN f.data \cup {BodyKey} |->
                    IF k = BodyKey THEN f.body ELSE f.data[k]]
    BY <1>6 DEF parse_instance_text, loaded
  <2>2. /\ DOMAIN loaded = DOMAIN f.data \cup {BodyKey}
        /\ loaded[BodyKey] = f.body
        /\ \A k \in DOMAIN f.data : loaded[k] = f.data[k]
    BY <2>1
  <2>3. stamped[BodyKey] = f.body
    BY <1>5, <2>2 DEF Stamps
  <2>4. f.body \in Bodies /\ f.front = TRUE
    BY <1>6 DEF Files
  <2>5. AsBody(f.body).text = f.body.text
    BY <2>4 DEF AsBody, Bodies
  <2>6. g = [front |-> TRUE, data |-> [k \in DOMAIN stamped \ {BodyKey} |-> stamped[k]],
             body |-> AsBody(stamped[BodyKey])]
    BY <1>1, <1>5, <2>2 DEF serialise_instance_data
  <2>7. DOMAIN stamped \ {BodyKey} = DOMAIN f.data \cup {field} \cup Stamps
    BY <1>5, <2>2 DEF Stamps
  <2>8. /\ g.front = f.front
        /\ g.body.text = f.body.text
        /\ g.data = [k \in DOMAIN f.data \cup {field} \cup Stamps |-> stamped[k]]
    BY <2>3, <2>4, <2>5, <2>6, <2>7
  <2>9. \A k \in DOMAIN f.data \ ({field} \cup Stamps) : g.data[k] = f.data[k]
    BY <1>5, <2>2, <2>8
  <2>10. g.data[field] = value /\ DOMAIN g.data = DOMAIN f.data \cup {field} \cup Stamps
    BY <1>5, <2>8
  <2> QED BY <2>8, <2>9, <2>10 DEF g
<1>7. CASE ~f.front
  <2>1. loaded = f.data
    BY <1>7 DEF parse_instance_text, loaded
  <2>2. f.front = FALSE /\ f.body = NoBody
    BY <1>7 DEF Files, WellFormed
  <2>3. g = [front |-> FALSE, data |-> stamped, body |-> NoBody]
    BY <1>1, <1>5, <2>1 DEF serialise_instance_data, Stamps
  <2>4. g.front = f.front /\ g.data = stamped /\ g.body = f.body
    BY <2>2, <2>3
  <2>5. \A k \in DOMAIN f.data \ ({field} \cup Stamps) : g.data[k] = f.data[k]
    BY <1>5, <2>1, <2>4
  <2>6. g.data[field] = value /\ DOMAIN g.data = DOMAIN f.data \cup {field} \cup Stamps
    BY <1>5, <2>1, <2>4
  <2> QED BY <2>4, <2>5, <2>6 DEF g
<1> QED BY <1>6, <1>7 DEF g

\* The lock of the executor is named after the instance, so it guards the file
\* exactly when the path is, too.  It does not for phase-advancement, whose one
\* instance is project.yaml: any two names for the project are two locks.
THEOREM LockGuardsFile ==
  ASSUME NEW wf, NEW shape, shape.placeholder \in BOOLEAN,
         NEW a \in Names, NEW b \in Names, a # b
  PROVE  OneLockPerFile(wf, shape) <=> shape.placeholder
BY DEF OneLockPerFile, render_storage_path, transition_lock_path

\* Nor does validate look at such an instance: it lists none, and finds nothing.
THEOREM SingletonGoesUnchecked ==
  ASSUME NEW shape, ~shape.placeholder, NEW saved
  PROVE  check_instance_shape_conforms(shape, saved) = {}
BY DEF check_instance_shape_conforms, list_instances

-----------------------------------------------------------------------------
(* SpawnConfig: who has the last word on a leaf.                           *)

\* The layer with the last word on a leaf is the last that has it.
LastWord(in, i, x) ==
  /\ i \in 1..5 /\ x \in DOMAIN Layers(in)[i]
  /\ \A j \in 1..5 : j > i => x \notin DOMAIN Layers(in)[j]

\* A configuration that is accepted has every leaf, each as the last layer that
\* sets it says: the session before the project, its inline settings before its
\* file, the agent's template before what is shipped.  Exceptions are the runtime
\* and provider of the project's file of the agent, and what codex is not told.
THEOREM LastWordCounts ==
  ASSUME NEW in, load_resolved_spawn_config(in) # Failed,
         NEW x \in Leaves, x \notin {Runtime, Provider, Disallowed, Fallback}
  PROVE  \E i \in 1..5 : /\ LastWord(in, i, x)
                         /\ load_resolved_spawn_config(in)[x] = Layers(in)[i][x]
<1> DEFINE L == Layers(in)
           m2 == _deep_merge(L[1], L[2])
           m3 == _deep_merge(m2, L[3])
           m4 == _deep_merge(m3, L[4])
           m5 == _deep_merge(m4, L[5])
<1>1. Stacked(in) = m5
  BY DEF Stacked
<1> HIDE DEF L
<1>2. /\ DOMAIN m2 = DOMAIN L[1] \cup DOMAIN L[2]
      /\ x \in DOMAIN L[2] => m2[x] = L[2][x]
      /\ x \in DOMAIN L[1] \ DOMAIN L[2] => m2[x] = L[1][x]
  BY DEF m2, _deep_merge
<1> HIDE DEF m2
<1>3. /\ DOMAIN m3 = DOMAIN m2 \cup DOMAIN L[3]
      /\ x \in DOMAIN L[3] => m3[x] = L[3][x]
      /\ x \in DOMAIN m2 \ DOMAIN L[3] => m3[x] = m2[x]
  BY DEF m3, _deep_merge
<1> HIDE DEF m3
<1>12. /\ DOMAIN m4 = DOMAIN m3 \cup DOMAIN L[4]
       /\ x \in DOMAIN L[4] => m4[x] = L[4][x]
       /\ x \in DOMAIN m3 \ DOMAIN L[4] => m4[x] = m3[x]
  BY DEF m4, _deep_merge
<1> HIDE DEF m4
<1>13. /\ DOMAIN m5 = DOMAIN m4 \cup DOMAIN L[5]
       /\ x \in DOMAIN L[5] => m5[x] = L[5][x]
       /\ x \in DOMAIN m4 \ DOMAIN L[5] => m5[x] = m4[x]
  BY DEF m5, _deep_merge
<1> HIDE DEF m5
<1>4. x \in DOMAIN m5
  BY <1>1 DEF load_resolved_spawn_config, model_validate
<1>5. load_resolved_spawn_config(in)[x] = m5[x]
  <2>1. model_validate(m5)
    BY <1>1 DEF load_resolved_spawn_config
  <2>2. load_resolved_spawn_config(in)
          = _apply_provider_validation(_apply_agent_yaml_overrides(in, m5))
    BY <1>1, <2>1 DEF load_resolved_spawn_config
  <2>3. _apply_agent_yaml_overrides(in, m5) # Failed
    BY <1>1, <2>1 DEF load_resolved_spawn_config
  <2>4. _apply_agent_yaml_overrides(in, m5)[x] = m5[x]
    BY <2>3, <1>4 DEF _apply_agent_yaml_overrides
  <2>5. x \in DOMAIN _apply_agent_yaml_overrides(in, m5)
    BY <2>3, <1>4 DEF _apply_agent_yaml_overrides
  <2>6. _apply_provider_validation(_apply_agent_yaml_overrides(in, m5))[x]
          = _apply_agent_yaml_overrides(in, m5)[x]
    BY <2>5 DEF _apply_provider_validation
  <2> QED BY <2>2, <2>4, <2>6
<1>6. \A i \in 1..5 : LastWord(in, i, x) <=>
         /\ x \in DOMAIN L[i]
         /\ \A j \in 1..5 : j > i => x \notin DOMAIN L[j]
  BY DEF LastWord, L
<1>7. CASE x \in DOMAIN L[5]
  BY <1>13, <1>5, <1>6, <1>7 DEF L
<1>8. CASE x \in DOMAIN L[4] /\ x \notin DOMAIN L[5]
  BY <1>2, <1>3, <1>12, <1>13, <1>5, <1>6, <1>8 DEF L
<1>9. CASE x \in DOMAIN L[3] /\ x \notin DOMAIN L[4] /\ x \notin DOMAIN L[5]
  BY <1>2, <1>3, <1>12, <1>13, <1>5, <1>6, <1>9 DEF L
<1>10. CASE x \in DOMAIN L[2] /\ \A j \in 3..5 : x \notin DOMAIN L[j]
  BY <1>2, <1>3, <1>12, <1>13, <1>5, <1>6, <1>10 DEF L
<1>11. CASE x \in DOMAIN L[1] /\ \A j \in 2..5 : x \notin DOMAIN L[j]
  BY <1>2, <1>3, <1>12, <1>13, <1>5, <1>6, <1>11 DEF L
<1> QED BY <1>2, <1>3, <1>12, <1>13, <1>4, <1>7, <1>8, <1>9, <1>10, <1>11

-----------------------------------------------------------------------------
(* HeuristicMarkers: what a run that shows and a quiet run after it come   *)
(* to.                                                                     *)

\* The places of heuristic findings that a report keeps.
Soft(fs, places) == {i \in places : IsHeuristic(fs[i])}

\* A quiet run that finds no more than a run before it that could write its
\* markers reports no heuristic at all.
THEOREM QuietAfterShown ==
  ASSUME NEW fs, NEW again, NEW uuids, NEW marks, NEW failing, NEW mode \in {"surface", "quiet"},
         {MarkerKey(again[i], uuids) : i \in Soft(again, DOMAIN again)}
           \subseteq {MarkerKey(fs[i], uuids) : i \in Soft(fs, DOMAIN fs)}
  PROVE  Soft(again, Kept(again, uuids, Marked(fs, uuids, marks, {}, mode), failing, "quiet")) = {}
<1> DEFINE after == Marked(fs, uuids, marks, {}, mode)
<1> SUFFICES ASSUME NEW i \in Soft(again, Kept(again, uuids, after, failing, "quiet"))
             PROVE  FALSE
  OBVIOUS
<1>1. i \in DOMAIN again /\ IsHeuristic(again[i]) /\ ~Quieted(again, i, uuids, after, failing)
  BY DEF Soft, Kept
<1>2. PICK k \in Soft(fs, DOMAIN fs) : MarkerKey(fs[k], uuids) = MarkerKey(again[i], uuids)
  BY <1>1 DEF Soft
<1>3. MarkerKey(again[i], uuids) \in after
  BY <1>2 DEF Marked, Soft
<1> QED
  BY <1>1, <1>3 DEF Quieted

\* Whatever a quiet run leaves out was marked before, or is said earlier in the
\* same report; what is no heuristic is never left out.
THEOREM LeftOutWasMarked ==
  ASSUME NEW n \in Nat, NEW fs, DOMAIN fs = 1..n, NEW uuids, NEW marks, NEW failing,
         NEW i \in DOMAIN fs \ Kept(fs, uuids, marks, failing, "quiet")
  PROVE  /\ IsHeuristic(fs[i])
         /\ \/ MarkerKey(fs[i], uuids) \in marks
            \/ \E j \in 1..(i - 1) : IsHeuristic(fs[j]) /\ MarkerKey(fs[j], uuids) = MarkerKey(fs[i], uuids)
  BY DEF Kept, Quieted

-----------------------------------------------------------------------------
(* Migration: what is left of a project, wherever a migration ends.        *)

\* A project with the files of S under instances/.
Promote(storage, S) == {IF f \in S THEN Settled(f) ELSE f : f \in storage}

LEMMA MovedFiles ==
  /\ \A f \in Placed : /\ Settled(f) \in Placed
                       /\ Settled(f).at = Home(f.at)
                       /\ Settled(f).text = f.text
  /\ \A f, g \in Placed : f.text = g.text /\ f.at = g.at => f = g
  /\ \A f \in Placed : f.at \in Paths
  /\ \A p \in Paths : /\ Home(p) \in Paths
                      /\ Home(p).root = New
                      /\ Entity(Home(p)) = Entity(p)
                      /\ Entry(Home(p)) = Entry(p)
                      /\ Home(p).docs = p.docs
  /\ \A p, q \in Paths : /\ p.root = q.root /\ Entry(p) = Entry(q) /\ p.docs = q.docs
                         => p = q
<1>1. \A f \in Placed : f = [at |-> f.at, text |-> f.text] /\ f.at \in Paths
  BY DEF Placed
<1>2. \A p \in Paths : p = [root |-> p.root, top |-> p.top, name |-> p.name,
                           docs |-> p.docs, entry |-> p.entry]
  BY DEF Paths
<1>3. \A p \in Paths : /\ Home(p) \in Paths
                       /\ Home(p).root = New
                       /\ Entity(Home(p)) = Entity(p)
                       /\ Entry(Home(p)) = Entry(p)
                       /\ Home(p).docs = p.docs
  BY DEF Paths, Roots, New, Entity, Entry, Home
<1>4. \A f \in Placed : /\ Settled(f) \in Placed
                        /\ Settled(f).at = Home(f.at)
                        /\ Settled(f).text = f.text
  BY <1>1, <1>3 DEF Placed, Settled
<1>5. \A p, q \in Paths : p.root = q.root /\ Entry(p) = Entry(q) /\ p.docs = q.docs => p = q
  BY <1>2 DEF Entry
<1>6. \A f, g \in Placed : f.text = g.text /\ f.at = g.at => f = g
  BY <1>1
<1> QED BY <1>1, <1>3, <1>4, <1>5, <1>6

\* Moving files to places nobody has loses none.
LEMMA PromoteKeeps ==
  ASSUME NEW storage \in SUBSET Placed, NEW S \in SUBSET storage, OnePerPath(storage),
         \A f \in S : \A g \in storage :
            /\ f.at.root # New
            /\ g.at.root = New => g.at # Home(f.at)
            /\ g \in S => g.at.root = f.at.root
  PROVE  Keeps(storage, Promote(storage, S)) /\ Promote(storage, S) \in SUBSET Placed
<1> DEFINE To(f) == IF f \in S THEN Settled(f) ELSE f
           q == Promote(storage, S)
<1>1. q = {To(f) : f \in storage}
  BY DEF Promote
<1>2. \A f \in storage : To(f) \in Placed
  BY MovedFiles
<1>3. \A f \in storage : To(f).text = f.text /\ To(f).at \in {f.at, Home(f.at)}
  BY MovedFiles
<1>4. ASSUME NEW f \in storage, NEW g \in storage, To(f).at = To(g).at
      PROVE  To(f) = To(g)
  <2>1. CASE f \in S /\ g \in S
    <3>1. f.at.root = g.at.root /\ f.at \in Paths /\ g.at \in Paths
      BY <2>1 DEF Placed
    <3>2. Entry(f.at) = Entry(g.at) /\ f.at.docs = g.at.docs
      BY <1>4, <2>1, MovedFiles
    <3> QED BY <3>1, <3>2, MovedFiles DEF OnePerPath
  <2>2. CASE f \in S /\ g \notin S
    BY <1>4, <2>2, MovedFiles
  <2>3. CASE f \notin S /\ g \in S
    BY <1>4, <2>3, MovedFiles
  <2>4. CASE f \notin S /\ g \notin S
    BY <1>4, <2>4 DEF OnePerPath
  <2> QED BY <2>1, <2>2, <2>3, <2>4
<1> HIDE DEF To
<1> QED BY <1>1, <1>2, <1>3, <1>4 DEF Keeps, OnePerPath

LEMMA HeldHas ==
  ASSUME NEW storage, NEW root
  PROVE  /\ \A u : u \in Held(storage, root)
                   <=> \E f \in storage : f.at.root = root /\ Entity(f.at) = u
         /\ \A u : u \in DocsHeld(storage, root)
                   <=> \E f \in storage : f.at.root = root /\ f.at.docs /\ Entry(f.at) = u
BY DEF Held, DocsHeld

\* How the two phases promote files, and what they leave in the places.
LEMMA EntityPhase ==
  ASSUME NEW storage \in SUBSET Placed, NEW units \in SUBSET Movable(storage)
  PROVE  LET q == MoveEntities(storage, units)
             S == {f \in storage : EntityMoves(f, units)}
         IN /\ q = Promote(storage, S)
            /\ q \in SUBSET Placed
            /\ Movable(q) = Movable(storage) \ units
            /\ MoveEntities(q, Movable(q)) = MoveEntities(storage, Movable(storage))
<1> DEFINE q == MoveEntities(storage, units)
           S == {f \in storage : EntityMoves(f, units)}
           Step(f) == IF EntityMoves(f, units) THEN Settled(f) ELSE f
<1>1. q = {Step(f) : f \in storage}
  BY DEF MoveEntities
<1>2. \A f \in storage : f \in S <=> EntityMoves(f, units)
  OBVIOUS
<1>3. q = Promote(storage, S)
  BY <1>1, <1>2 DEF Promote
<1>4. \A f \in Placed : /\ Step(f) \in Placed
                        /\ Entity(Step(f).at) = Entity(f.at)
                        /\ Step(f).at.root = IF EntityMoves(f, units) THEN New ELSE f.at.root
  BY MovedFiles
<1>5. Flat # New
  BY DEF Flat, New
<1>6. q \in SUBSET Placed
  BY <1>1, <1>4
<1>7. \A u : u \in Held(q, Flat) <=> u \in Held(storage, Flat) /\ u \notin units
  <2> HIDE DEF q, Step
  <2> TAKE u
  <2>1. u \in Held(q, Flat) <=> \E f \in storage : Step(f).at.root = Flat /\ Entity(Step(f).at) = u
    BY <1>1, HeldHas
  <2>2. \A f \in storage : /\ Entity(Step(f).at) = Entity(f.at)
                           /\ Step(f).at.root = Flat <=> f.at.root = Flat /\ Entity(f.at) \notin units
    BY <1>4, <1>5 DEF EntityMoves
  <2>3. u \in Held(storage, Flat) <=> \E f \in storage : f.at.root = Flat /\ Entity(f.at) = u
    BY HeldHas
  <2> HIDE DEF S
  <2>4. ASSUME u \in Held(q, Flat) PROVE u \in Held(storage, Flat) /\ u \notin units
    <3>1. PICK f \in storage : Step(f).at.root = Flat /\ Entity(Step(f).at) = u
      BY <2>1, <2>4
    <3>2. Entity(Step(f).at) = Entity(f.at)
      BY <2>2
    <3>3. Step(f).at.root = Flat <=> f.at.root = Flat /\ Entity(f.at) \notin units
      BY <2>2
    <3>4. Entity(f.at) = u /\ f.at.root = Flat /\ Entity(f.at) \notin units
      BY <3>1, <3>2, <3>3
    <3> QED BY <2>3, <3>4
  <2>5. u \in Held(storage, Flat) /\ u \notin units => u \in Held(q, Flat)
    BY <2>1, <2>2, <2>3
  <2> QED BY <2>4, <2>5
<1>8. \A u : u \in Held(q, New) <=> u \in Held(storage, New) \/ u \in units
  <2> HIDE DEF q, Step
  <2> TAKE u
  <2>1. u \in Held(q, New) <=> \E f \in storage : Step(f).at.root = New /\ Entity(Step(f).at) = u
    BY <1>1, HeldHas
  <2>2. \A f \in storage : /\ Entity(Step(f).at) = Entity(f.at)
                           /\ Step(f).at.root = New
                                <=> f.at.root = New \/ (f.at.root = Flat /\ Entity(f.at) \in units)
    BY <1>4, <1>5 DEF EntityMoves
  <2>3. \A v \in units : \E f \in storage : f.at.root = Flat /\ Entity(f.at) = v
    BY HeldHas DEF Movable
  <2>4. u \in Held(storage, New) <=> \E f \in storage : f.at.root = New /\ Entity(f.at) = u
    BY HeldHas
  <2> HIDE DEF S
  <2>5. ASSUME u \in Held(q, New) PROVE u \in Held(storage, New) \/ u \in units
    <3>1. PICK f \in storage : Step(f).at.root = New /\ Entity(Step(f).at) = u
      BY <2>1, <2>5
    <3>2. Entity(Step(f).at) = Entity(f.at)
      BY <2>2
    <3>3. Step(f).at.root = New
            <=> f.at.root = New \/ (f.at.root = Flat /\ Entity(f.at) \in units)
      BY <2>2
    <3>4. Entity(f.at) = u /\ (f.at.root = New \/ Entity(f.at) \in units)
      BY <3>1, <3>2, <3>3
    <3> QED BY <2>4, <3>4
  <2>6. u \in Held(storage, New) \/ u \in units => u \in Held(q, New)
    BY <2>1, <2>2, <2>3, <2>4
  <2> QED BY <2>5, <2>6
<1>9. Movable(q) = Movable(storage) \ units
  <2> HIDE DEF q
  <2> QED BY <1>7, <1>8 DEF Movable
<1>10. MoveEntities(q, Movable(q)) = MoveEntities(storage, Movable(storage))
  <2> DEFINE Rest(f) == IF EntityMoves(f, Movable(q)) THEN Settled(f) ELSE f
             All(f) == IF EntityMoves(f, Movable(storage)) THEN Settled(f) ELSE f
  <2>1. \A f \in storage : Rest(Step(f)) = All(f)
    <3> TAKE f \in storage
    <3>1. CASE EntityMoves(f, units)
      <4>1. Step(f).at.root = New
        BY <1>4, <3>1
      <4>2. Rest(Step(f)) = Step(f)
        BY <4>1, <1>5 DEF EntityMoves
      <4>3. Step(f) = Settled(f) /\ EntityMoves(f, Movable(storage))
        BY <3>1 DEF EntityMoves
      <4> HIDE DEF Rest, Step
      <4> QED BY <4>2, <4>3
    <3>2. CASE ~EntityMoves(f, units)
      <4>1. EntityMoves(f, Movable(q)) <=> EntityMoves(f, Movable(storage))
        BY <1>9, <3>2 DEF EntityMoves
      <4> QED BY <4>1, <3>2
    <3> QED BY <3>1, <3>2
  <2>2. MoveEntities(q, Movable(q)) = {Rest(f) : f \in q}
    BY DEF MoveEntities
  <2>3. MoveEntities(storage, Movable(storage)) = {All(f) : f \in storage}
    BY DEF MoveEntities
  <2> HIDE DEF Rest, All, Step, q
  <2> QED BY <1>1, <2>1, <2>2, <2>3
<1> QED BY <1>3, <1>6, <1>9, <1>10

\* Once every entity has moved, none is left to move.
LEMMA AllMoved ==
  ASSUME NEW storage \in SUBSET Placed
  PROVE  LET moved == MoveEntities(storage, Movable(storage))
         IN  moved \in SUBSET Placed /\ Movable(moved) = {}
<1>1. Movable(storage) \in SUBSET Movable(storage)
  OBVIOUS
<1> DEFINE units == Movable(storage)
           moved == MoveEntities(storage, units)
<1>2. moved \in SUBSET Placed
  BY <1>1, EntityPhase
<1>3. Movable(moved) = units \ units
  BY <1>1, EntityPhase
<1> QED BY <1>2, <1>3

LEMMA DocPhase ==
  ASSUME NEW moved \in SUBSET Placed, Movable(moved) = {}, NEW units \in SUBSET Loose(moved)
  PROVE  LET q == _migrate_issue_docs(moved, units)
             S == {f \in moved : DocMoves(f, units)}
         IN /\ q = Promote(moved, S)
            /\ q \in SUBSET Placed
            /\ Movable(q) = {}
            /\ _migrate_issue_docs(q, Loose(q)) = _migrate_issue_docs(moved, Loose(moved))
<1> DEFINE q == _migrate_issue_docs(moved, units)
           S == {f \in moved : DocMoves(f, units)}
           Step(f) == IF DocMoves(f, units) THEN Settled(f) ELSE f
<1>1. q = {Step(f) : f \in moved}
  BY DEF _migrate_issue_docs
<1>2. \A f \in moved : f \in S <=> DocMoves(f, units)
  OBVIOUS
<1>3. q = Promote(moved, S)
  BY <1>1, <1>2 DEF Promote
<1>4. \A f \in Placed : /\ Step(f) \in Placed
                        /\ Entity(Step(f).at) = Entity(f.at)
                        /\ Entry(Step(f).at) = Entry(f.at)
                        /\ Step(f).at.docs = f.at.docs
                        /\ Step(f).at.root = IF DocMoves(f, units) THEN New ELSE f.at.root
  BY MovedFiles
<1>5. Flat # New /\ Legacy # New /\ Flat # Legacy
  BY DEF Flat, New, Legacy
<1>6. q \in SUBSET Placed
  BY <1>1, <1>4
<1> HIDE DEF q, S, Step
<1>7. Movable(q) = {}
  <2>1. \A u \in Held(q, Flat) : u \in Held(moved, Flat)
    <3> TAKE u \in Held(q, Flat)
    <3>1. PICK f \in moved : Step(f).at.root = Flat /\ Entity(Step(f).at) = u
      BY <1>1, HeldHas
    <3>2. f.at.root = Flat /\ Entity(f.at) = u
      BY <1>4, <1>5, <3>1
    <3> QED BY <3>2, HeldHas
  <2>2. \A u \in Held(moved, New) : u \in Held(q, New)
    <3> TAKE u \in Held(moved, New)
    <3>1. PICK f \in moved : f.at.root = New /\ Entity(f.at) = u
      BY HeldHas
    <3>2. Step(f).at.root = New /\ Entity(Step(f).at) = u /\ Step(f) \in q
      BY <1>1, <1>4, <3>1
    <3> QED BY <3>2, HeldHas
  <2> QED BY <2>1, <2>2 DEF Movable
<1>8. \A u : u \in DocsHeld(q, Legacy) <=> u \in DocsHeld(moved, Legacy) /\ u \notin units
  <2> TAKE u
  <2>1. \A f \in moved : /\ Entry(Step(f).at) = Entry(f.at) /\ Step(f).at.docs = f.at.docs
                         /\ Step(f).at.root = Legacy
                               <=> f.at.root = Legacy /\ Entry(f.at) \notin units
    BY <1>4, <1>5 DEF DocMoves
  <2>2. ASSUME u \in DocsHeld(q, Legacy) PROVE u \in DocsHeld(moved, Legacy) /\ u \notin units
    <3>1. PICK f \in moved : Step(f).at.root = Legacy /\ Step(f).at.docs /\ Entry(Step(f).at) = u
      BY <1>1, <2>2, HeldHas
    <3>2. f.at.root = Legacy /\ f.at.docs /\ Entry(f.at) = u /\ u \notin units
      BY <2>1, <3>1
    <3> QED BY <3>2, HeldHas
  <2>3. ASSUME u \in DocsHeld(moved, Legacy), u \notin units PROVE u \in DocsHeld(q, Legacy)
    <3>1. PICK f \in moved : f.at.root = Legacy /\ f.at.docs /\ Entry(f.at) = u
      BY <2>3, HeldHas
    <3>2. /\ Step(f).at.root = Legacy /\ Step(f).at.docs /\ Entry(Step(f).at) = u
          /\ Step(f) \in q
      BY <1>1, <2>1, <2>3, <3>1
    <3> QED BY <3>2, HeldHas
  <2> QED BY <2>2, <2>3
<1>9. \A u \in DocsHeld(moved, Legacy) :
         u \in DocsHeld(q, New) <=> u \in DocsHeld(moved, New) \/ u \in units
  <2> TAKE u \in DocsHeld(moved, Legacy)
  <2>1. \A f \in moved : /\ Entry(Step(f).at) = Entry(f.at) /\ Step(f).at.docs = f.at.docs
                         /\ Step(f).at.root = New
                               <=> f.at.root = New \/ (f.at.root = Legacy /\ Entry(f.at) \in units)
    BY <1>4, <1>5 DEF DocMoves
  <2>2. ASSUME u \in DocsHeld(q, New) PROVE u \in DocsHeld(moved, New) \/ u \in units
    <3>1. PICK f \in moved : Step(f).at.root = New /\ Step(f).at.docs /\ Entry(Step(f).at) = u
      BY <1>1, <2>2, HeldHas
    <3>2. f.at.docs /\ Entry(f.at) = u /\ (f.at.root = New \/ u \in units)
      BY <2>1, <3>1
    <3> QED BY <3>2, HeldHas
  <2>3. ASSUME u \in DocsHeld(moved, New) \/ u \in units PROVE u \in DocsHeld(q, New)
    <3>1. PICK f \in moved : /\ f.at.docs /\ Entry(f.at) = u
                             /\ f.at.root = New \/ (f.at.root = Legacy /\ u \in units)
      BY <2>3, HeldHas
    <3>2. /\ Step(f).at.root = New /\ Step(f).at.docs /\ Entry(Step(f).at) = u
          /\ Step(f) \in q
      BY <1>1, <2>1, <3>1
    <3> QED BY <3>2, HeldHas
  <2> QED BY <2>2, <2>3
<1>10. Loose(q) = Loose(moved) \ units
  BY <1>8, <1>9 DEF Loose
<1>11. _migrate_issue_docs(q, Loose(q)) = _migrate_issue_docs(moved, Loose(moved))
  <2> DEFINE Rest(f) == IF DocMoves(f, Loose(q)) THEN Settled(f) ELSE f
             All(f) == IF DocMoves(f, Loose(moved)) THEN Settled(f) ELSE f
  <2>1. \A f \in moved : Rest(Step(f)) = All(f)
    <3> TAKE f \in moved
    <3>1. CASE DocMoves(f, units)
      <4>1. Step(f).at.root = New
        BY <1>4, <3>1
      <4>2. Rest(Step(f)) = Step(f)
        BY <4>1, <1>5 DEF DocMoves
      <4>3. Step(f) = Settled(f) /\ DocMoves(f, Loose(moved))
        BY <3>1 DEF DocMoves, Step
      <4> HIDE DEF Rest
      <4> QED BY <4>2, <4>3
    <3>2. CASE ~DocMoves(f, units)
      <4>1. DocMoves(f, Loose(q)) <=> DocMoves(f, Loose(moved))
        BY <1>10, <3>2 DEF DocMoves
      <4> QED BY <4>1, <3>2 DEF Step
    <3> QED BY <3>1, <3>2
  <2>2. _migrate_issue_docs(q, Loose(q)) = {Rest(f) : f \in q}
    BY DEF _migrate_issue_docs
  <2>3. _migrate_issue_docs(moved, Loose(moved)) = {All(f) : f \in moved}
    BY DEF _migrate_issue_docs
  <2> HIDE DEF Rest, All
  <2> QED BY <1>1, <2>1, <2>2, <2>3
<1> QED BY <1>3, <1>6, <1>7, <1>11 DEF q, S

\* A run that ended early and is started once more leaves what one run without a
\* break leaves; in particular a second run changes nothing.  (The second needs
\* --yes, see StorageAnswer.)
THEOREM ResumedIsWhole ==
  ASSUME NEW storage \in SUBSET Placed, NEW q \in Interrupted(storage)
  PROVE  Storage(q) = Storage(storage)
<1> DEFINE moved == MoveEntities(storage, Movable(storage))
<1>1. CASE \E units \in SUBSET Movable(storage) : q = MoveEntities(storage, units)
  <2>1. MoveEntities(q, Movable(q)) = moved
    <3>1. PICK units \in SUBSET Movable(storage) : q = MoveEntities(storage, units)
      BY <1>1
    <3>2. MoveEntities(MoveEntities(storage, units), Movable(MoveEntities(storage, units))) = moved
      BY EntityPhase
    <3> QED BY <3>1, <3>2
  <2> QED BY <2>1 DEF Storage
<1>2. CASE \E units \in SUBSET Loose(moved) : q = _migrate_issue_docs(moved, units)
  <2>1. moved \in SUBSET Placed /\ Movable(moved) = {}
    BY AllMoved
  <2>2. PICK units \in SUBSET Loose(moved) : q = _migrate_issue_docs(moved, units)
    BY <1>2
  <2> HIDE DEF moved
  <2>3. /\ Movable(q) = {}
        /\ _migrate_issue_docs(q, Loose(q)) = _migrate_issue_docs(moved, Loose(moved))
    BY <2>1, <2>2, DocPhase
  <2>4. MoveEntities(q, {}) = q
    BY DEF MoveEntities, EntityMoves
  <2> QED BY <2>3, <2>4 DEF Storage, moved
<1> QED BY <1>1, <1>2 DEF Interrupted

\* Wherever it ends, no file is lost, overwritten or changed: each is where it was
\* or at its place under instances/.
THEOREM NothingIsLost ==
  ASSUME NEW storage \in SUBSET Placed, OnePerPath(storage), WellPlaced(storage),
         NEW q \in Interrupted(storage)
  PROVE  Keeps(storage, q)
<1> DEFINE Half(units) == MoveEntities(storage, units)
           moved == Half(Movable(storage))
<1>1. Flat # New /\ Legacy # New /\ Flat # Legacy
  BY DEF Flat, New, Legacy
<1>2. ASSUME NEW units \in SUBSET Movable(storage)
      PROVE  Half(units) \in SUBSET Placed /\ Keeps(storage, Half(units))
  <2> DEFINE S == {f \in storage : EntityMoves(f, units)}
  <2>1. Half(units) = Promote(storage, S)
    BY EntityPhase
  <2>2. ASSUME NEW f \in S, NEW g \in storage
        PROVE  /\ f.at.root # New
               /\ g.at.root = New => g.at # Home(f.at)
               /\ g \in S => g.at.root = f.at.root
    <3>1. f.at.root = Flat /\ Entity(f.at) \in Movable(storage)
      BY DEF EntityMoves
    <3>2. Entity(f.at) \notin Held(storage, New)
      BY <3>1 DEF Movable
    <3>3. g.at.root = New => Entity(g.at) # Entity(f.at)
      BY <3>2, HeldHas
    <3>4. Entity(Home(f.at)) = Entity(f.at)
      BY MovedFiles
    <3> QED BY <1>1, <3>1, <3>3, <3>4 DEF EntityMoves
  <2> HIDE DEF S, Half
  <2>3. S \in SUBSET storage
    BY DEF S
  <2> QED BY <2>1, <2>2, <2>3, PromoteKeeps
<1>3. ASSUME NEW units \in SUBSET Loose(moved)
      PROVE  Keeps(storage, _migrate_issue_docs(moved, units))
  <2> DEFINE S == {f \in moved : DocMoves(f, units)}
             last == _migrate_issue_docs(moved, units)
  <2>1. moved \in SUBSET Placed /\ Keeps(storage, moved) /\ Movable(moved) = {}
    BY <1>2, AllMoved
  <2> HIDE DEF Half, moved
  <2>2. last = Promote(moved, S)
    BY <2>1, DocPhase
  <2>3. ASSUME NEW f \in S, NEW g \in moved
        PROVE  /\ f.at.root # New
               /\ g.at.root = New => g.at # Home(f.at)
               /\ g \in S => g.at.root = f.at.root
    <3>1. f.at.root = Legacy /\ Entry(f.at) \in Loose(moved)
      BY DEF DocMoves
    <3>2. f.at.docs
      <4>1. \A h \in moved : h.at.root = Legacy => h.at.docs
        <5>1. \A h \in storage : h.at.root = Legacy => h.at.docs
          BY DEF WellPlaced
        <5>2. \A h \in storage : EntityMoves(h, Movable(storage)) => Settled(h).at.root = New
          BY MovedFiles
        <5> QED BY <1>1, <5>1, <5>2 DEF moved, Half, MoveEntities
      <4> QED BY <3>1, <4>1
    <3>3. Entry(f.at) \notin DocsHeld(moved, New)
      BY <3>1 DEF Loose
    <3>4. g.at.root = New /\ g.at.docs => Entry(g.at) # Entry(f.at)
      BY <3>3, HeldHas
    <3>5. Entry(Home(f.at)) = Entry(f.at) /\ Home(f.at).docs = f.at.docs
      BY <2>1, MovedFiles
    <3> QED BY <1>1, <3>1, <3>2, <3>4, <3>5 DEF DocMoves
  <2>4. OnePerPath(moved)
    BY <2>1 DEF Keeps
  <2>5. Keeps(moved, last)
    <3> HIDE DEF S, last
    <3>1. S \in SUBSET moved
      BY DEF S
    <3> QED BY <2>1, <2>2, <2>3, <2>4, <3>1, PromoteKeeps
  <2>6. \A f \in Placed : Home(Home(f.at)) = Home(f.at)
    BY MovedFiles
  <2>7. \A f \in storage : \E g \in last : g.text = f.text /\ g.at \in {f.at, Home(f.at)}
    <3> HIDE DEF last
    <3> TAKE f \in storage
    <3>1. PICK h \in moved : h.text = f.text /\ h.at \in {f.at, Home(f.at)}
      BY <2>1 DEF Keeps
    <3>2. PICK g \in last : g.text = h.text /\ g.at \in {h.at, Home(h.at)}
      BY <2>5 DEF Keeps
    <3> QED BY <2>6, <3>1, <3>2
  <2> QED BY <2>5, <2>7 DEF Keeps
<1> QED BY <1>2, <1>3 DEF Interrupted

\* A second run, confirmed or not, leaves what the first one left.
COROLLARY StorageSettles ==
  ASSUME NEW storage \in SUBSET Placed
  PROVE  Storage(Storage(storage)) = Storage(storage)
<1>1. Storage(storage) \in Interrupted(storage)
  BY DEF Storage, Interrupted
<1> QED BY <1>1, ResumedIsWhole

LEMMA Joined ==
  ASSUME NEW S, NEW a \in S, NEW b \in S, NEW c \in S
  PROVE  <<a>> \o <<b>> = <<a, b>> /\ <<a>> \o <<b>> \o <<c>> = <<a, b, c>>
<1>1. /\ <<a>> \in Seq(S) /\ <<b>> \in Seq(S) /\ <<c>> \in Seq(S)
      /\ <<a, b>> \in Seq(S) /\ <<a, b, c>> \in Seq(S)
  OBVIOUS
<1>2. <<a>> \o <<b>> = <<a, b>>
  <2>1. Len(<<a>> \o <<b>>) = 2 /\ \A i \in 1..2 : (<<a>> \o <<b>>)[i] = <<a, b>>[i]
    BY <1>1
  <2> QED BY <1>1, <2>1, SeqEqual, ConcatProperties
<1>3. <<a, b>> \o <<c>> = <<a, b, c>>
  <2>1. /\ Len(<<a, b>> \o <<c>>) = 3
        /\ \A i \in 1..3 : (<<a, b>> \o <<c>>)[i] = <<a, b, c>>[i]
    BY <1>1
  <2> QED BY <1>1, <2>1, SeqEqual, ConcatProperties
<1> QED BY <1>2, <1>3

\* A marker with one segment for the prompt and one for the session gets a name
\* that nobody looks for: the two are still in their old order.
THEOREM MigratedAckIsLost ==
  ASSUME NEW prompt, NEW sid, prompt # sid, prompt # Workflow
  PROVE  ack_marker_path(Workflow, <<sid>>, <<prompt>>)
           \notin Renamed({OldAck(<<prompt>>, <<sid>>)})
<1> DEFINE old == OldAck(<<prompt>>, <<sid>>)
           S == {Workflow, prompt, sid}
<1>0. Workflow \in S /\ prompt \in S /\ sid \in S
  OBVIOUS
<1> HIDE DEF S
<1>1. old = <<prompt, sid>>
  BY <1>0, Joined DEF OldAck
<1>2. ack_marker_path(Workflow, <<sid>>, <<prompt>>) = <<Workflow, sid, prompt>>
  BY <1>0, Joined DEF ack_marker_path
<1>3. Namespace(old) = <<Workflow, prompt, sid>>
  <2>1. /\ <<Workflow>> \in Seq(S) /\ <<prompt>> \in Seq(S) /\ <<sid>> \in Seq(S)
        /\ <<prompt>> \o <<sid>> = <<prompt, sid>>
    BY <1>0, Joined
  <2>2. <<Workflow>> \o (<<prompt>> \o <<sid>>) = <<Workflow>> \o <<prompt>> \o <<sid>>
    BY <2>1, ConcatAssociative
  <2> QED BY <1>0, <1>1, <2>1, <2>2, Joined DEF Namespace
<1>4. Renamed({old}) \subseteq {old, Namespace(old)}
  BY DEF Renamed
<1>5. <<Workflow, sid, prompt>> # <<prompt, sid>>
  OBVIOUS
<1>6. <<Workflow, sid, prompt>> # <<Workflow, prompt, sid>>
  OBVIOUS
<1>7. ack_marker_path(Workflow, <<sid>>, <<prompt>>) \notin {old, Namespace(old)}
  BY <1>1, <1>2, <1>3, <1>5, <1>6
<1> HIDE DEF old
<1>8. Renamed({OldAck(<<prompt>>, <<sid>>)}) \subseteq {old, Namespace(old)}
  BY <1>4 DEF old
<1> QED BY <1>7, <1>8

-----------------------------------------------------------------------------
(* SessionGates: the gate's scope filter makes a session's move depend on  *)
(* the session itself, whatever is wrong with the other sessions; and what *)
(* the gate has asked of a session still holds when it is completed, and   *)
(* from then on.                                                           *)

\* The validators whose findings about s are the same if s is alone.
Local == {"session_issue_coherence", "issue_session_status_compatibility",
          "artifact_presence", "phase_requirements", "issue_artifact_presence",
          "member_issues_at_or_past_in_review", "pr_review", "pm_response",
          "done_implies_issue_artifacts_on_main", "self_review_implies_pm_response",
          "pr_merged_for_session", "pr_review_approved", "session_has_docs"}

\* Of the sessions, the scope of s has s alone.
LEMMA ScopeHasOneSession ==
  ASSUME NEW s \in Sessions
  PROVE  /\ Sessions \cap InScope(s) = {s}
         /\ Members[s] \subseteq Issues
         /\ Project \notin Sessions /\ Project \notin Issues
BY GatesAssumption DEF InScope

\* The local validators.
LEMMA LocalAgree ==
  ASSUME NEW s \in Sessions, NEW c \in Local
  PROVE  Complaints(c, Sessions) \cap InScope(s) = Complaints(c, {s}) \cap InScope(s)
<1> USE ScopeHasOneSession
<1>1. CASE c = "session_issue_coherence"
  BY <1>1 DEF Complaints, session_issue_coherence
<1>2. CASE c = "issue_session_status_compatibility"
  BY <1>2 DEF Complaints, issue_session_status_compatibility
<1>3. CASE c = "artifact_presence"
  BY <1>3 DEF Complaints, artifact_presence
<1>4. CASE c = "phase_requirements"
  BY <1>4 DEF Complaints, phase_requirements
<1>5. CASE c = "issue_artifact_presence"
  BY <1>5 DEF Complaints
<1>6. CASE c = "member_issues_at_or_past_in_review"
  BY <1>6 DEF Complaints, member_issues_at_or_past_in_review
<1>7. CASE c = "pr_review"
  BY <1>7 DEF Complaints, pr_review
<1>8. CASE c = "pm_response"
  BY <1>8 DEF Complaints, pm_response
<1>9. CASE c = "done_implies_issue_artifacts_on_main"
  BY <1>9 DEF Complaints
<1>10. CASE c = "self_review_implies_pm_response"
  BY <1>10 DEF Complaints, self_review_implies_pm_response
<1>11. CASE c = "pr_merged_for_session"
  BY <1>11 DEF Complaints, pr_merged_for_session
<1>12. CASE c = "pr_review_approved"
  BY <1>12 DEF Complaints, pr_review_approved
<1>13. CASE c = "session_has_docs"
  <2>1. \A k \in Issues :
          k \in InScope(s) => (k \in MembersOf(Sessions) <=> k \in MembersOf({s}))
    BY GatesAssumption DEF InScope, MembersOf
  <2>2. MembersOf(Sessions) \subseteq Issues /\ MembersOf({s}) \subseteq Issues
    BY GatesAssumption DEF MembersOf
  <2> QED
    BY <1>13, <2>1, <2>2 DEF Complaints, session_has_docs
<1> QED
  BY <1>1, <1>2, <1>3, <1>4, <1>5, <1>6, <1>7, <1>8, <1>9, <1>10, <1>11, <1>12,
     <1>13 DEF Local

\* Another session's branch is only ever one reason more.
LEMMA OrphansAdd ==
  ASSUME NEW s \in Sessions
  PROVE  no_orphan_proj_branches({s}) \subseteq no_orphan_proj_branches(Sessions)
BY DEF no_orphan_proj_branches

\* Another owner of an issue is only ever one reason less.
LEMMA OwnersRemove ==
  ASSUME NEW s \in Sessions
  PROVE  done_implies_session_completed(Sessions) \cap InScope(s)
           \subseteq done_implies_session_completed({s})
<1> SUFFICES ASSUME NEW k \in Issues, k \in done_implies_session_completed(Sessions),
                    k \in InScope(s)
             PROVE  k \in done_implies_session_completed({s})
  BY DEF done_implies_session_completed
<1>1. k \in Members[s]
  BY GatesAssumption DEF InScope
<1> QED
  BY <1>1 DEF done_implies_session_completed, Owners

\* Every tripwire of a route is one of the validators above.
LEMMA TripwiresAreThese ==
  ASSUME NEW r
  PROVE  Tripwires(r) \subseteq
           Local \cup {"no_orphan_proj_branches", "done_implies_session_completed"}
BY DEF Tripwires, Local

\* OthersDoNotDecide (transitions.py:526-535) holds in every state there is.
LEMMA OthersNeverDecide == OthersDoNotDecide
<1> SUFFICES ASSUME NEW s \in Sessions, NEW t
             PROVE  /\ Refusing(s, t, Sessions) \ Refusing(s, t, {s})
                         \subseteq {"no_orphan_proj_branches"}
                    /\ Refusing(s, t, {s}) \ Refusing(s, t, Sessions)
                         \subseteq {"done_implies_session_completed"}
  BY DEF OthersDoNotDecide
<1>1. \A c \in Local : c \in Refusing(s, t, Sessions) <=> c \in Refusing(s, t, {s})
  BY LocalAgree DEF Refusing
<1>2. "no_orphan_proj_branches" \in Refusing(s, t, {s})
        => "no_orphan_proj_branches" \in Refusing(s, t, Sessions)
  BY OrphansAdd DEF Refusing, Complaints
<1>3. "done_implies_session_completed" \in Refusing(s, t, Sessions)
        => "done_implies_session_completed" \in Refusing(s, t, {s})
  BY OwnersRemove DEF Refusing, Complaints
<1>4. \A S : Refusing(s, t, S) \subseteq
               Local \cup {"no_orphan_proj_branches", "done_implies_session_completed"}
  BY TripwiresAreThese DEF Refusing
<1> QED
  BY <1>1, <1>2, <1>3, <1>4

\* In every project, and in every state of it, the gate's answer to one session
\* is independent of what is wrong with the others (transitions.py:526-535).
THEOREM ScopeSuffices == Spec => []OthersDoNotDecide
BY OthersNeverDecide, PTL

-----------------------------------------------------------------------------
(* Completed sessions have their records.                                  *)

\* The shapes of the variables that the records depend on.
GatesType ==
  /\ status \in [Sessions -> STRING]
  /\ issue \in [Issues -> IssueStatuses]
  /\ docs \in [Issues -> SUBSET Docs]
  /\ why \in [skipped : SUBSET Issues, bypass : SUBSET Sessions,
              lost : SUBSET Issues, byhand : SUBSET Issues]

\* Position in the lifecycle.
LEMMA Positions ==
  /\ Index("planned") = 1 /\ Index("queued") = 2 /\ Index("executing") = 3
  /\ Index("in_review") = 4 /\ Index("verified") = 5 /\ Index("completed") = 6
<1>1. DOMAIN Lifecycle = 1..6
  BY DEF Lifecycle
<1>2. \A n \in 1..6 : Lifecycle[n] \notin OffPath
  BY DEF Lifecycle, OffPath
<1>3. \A n, m \in 1..6 : Lifecycle[n] = Lifecycle[m] => n = m
  BY DEF Lifecycle
<1>4. ASSUME NEW n \in 1..6
      PROVE  Index(Lifecycle[n]) = n
  BY <1>1, <1>2, <1>3, <1>4 DEF Index
<1>5. /\ Lifecycle[1] = "planned" /\ Lifecycle[2] = "queued" /\ Lifecycle[3] = "executing"
      /\ Lifecycle[4] = "in_review" /\ Lifecycle[5] = "verified" /\ Lifecycle[6] = "completed"
  BY DEF Lifecycle
<1> QED
  BY <1>4, <1>5

\* The two kinds of issue status.
LEMMA OnThePath ==
  /\ Range(Lifecycle) = {"planned", "queued", "executing", "in_review", "verified", "completed"}
  /\ IssueStatuses = Range(Lifecycle) \cup OffPath
BY DEF Range, Lifecycle, IssueStatuses

\* From verified on an issue needs both of its records.
LEMMA BothNeeded ==
  ASSUME GatesType, NEW k \in Issues, Missing(k) = {},
         issue[k] \in {"verified", "completed"}
  PROVE  docs[k] = Docs
<1>1. \A d \in Docs : AtOrPast(issue[k], DocRequiredAt[d])
  BY Positions, OnThePath DEF AtOrPast, Docs, DocRequiredAt
<1> QED
  BY <1>1 DEF Missing, GatesType

\* What a sweep changes.
LEMMA SweepsChange ==
  ASSUME GatesType, NEW s \in Sessions, NEW n \in 0..6, NEW g \in Sweeps(s, n)
  PROVE  /\ g \in [Issues -> IssueStatuses]
         /\ \A k \in Issues : g[k] # issue[k] => k \in Members[s]
         /\ n < 6 => \A k \in Issues : g[k] = "completed" => issue[k] = "completed"
<1>1. PICK h \in [Members[s] -> IssueStatuses] :
        /\ \A k \in Members[s] : h[k] \in Walks(k, n)
        /\ g = [k \in Issues |-> IF k \in Members[s] THEN h[k] ELSE issue[k]]
  BY DEF Sweeps
<1>2. ASSUME n < 6, NEW k \in Members[s], h[k] = "completed"
      PROVE  issue[k] = "completed"
  <2>1. \A m \in 1..6 : Lifecycle[m] = "completed" => m = 6
    BY DEF Lifecycle
  <2>2. k \in Issues /\ issue[k] \in IssueStatuses
    BY GatesAssumption DEF GatesType
  <2>3. Index(issue[k]) \in 0..6
    BY <2>2, Positions, OnThePath DEF Index, OffPath
  <2>4. CASE issue[k] \in OffPath \/ Index(issue[k]) >= n
    BY <1>1, <1>2, <2>4 DEF Walks
  <2>5. CASE ~(issue[k] \in OffPath \/ Index(issue[k]) >= n)
    <3>1. Index(issue[k]) \in 1..6
      BY <2>2, <2>5, Positions, OnThePath
    <3>2. PICK m \in Index(issue[k])..n : h[k] = Lifecycle[m]
      BY <1>1, <2>5 DEF Walks
    <3> QED
      BY <1>2, <2>1, <3>1, <3>2
  <2> QED
    BY <2>4, <2>5
<1> QED
  BY <1>1, <1>2, GatesAssumption DEF GatesType

\* Only completing takes issues to completed (SWEEP_TARGETS).
LEMMA GoalsAre == \A t : Goal(t) \in 0..6 /\ (Goal(t) = 6 => t = "completed")
BY DEF Goal

\* The inductive invariant.
RecordsInv == GatesType /\ CompletedHasRecords

\* A sweep that starts from issues with their records completes none without,
\* but for the ones it notes as skipped.
LEMMA SweptHaveRecords ==
  ASSUME RecordsInv, NEW s \in Sessions, NEW n \in 0..6, issue' \in Sweeps(s, n),
         n = 6 => \A k \in Members[s] : Missing(k) = {},
         docs' = docs, why'.skipped = why.skipped \cup Skips(issue'),
         why'.byhand = why.byhand, why'.lost = why.lost,
         NEW k \in Issues, issue'[k] = "completed",
         issue[k] = "completed" =>
           docs[k] = Docs \/ k \in why.skipped \cup why.byhand \cup why.lost
  PROVE  docs'[k] = Docs \/ k \in why'.skipped \cup why'.byhand \cup why'.lost
<1>1. CASE issue[k] = "completed"
  BY <1>1
<1>2. CASE issue[k] # "completed"
  <2>1. n = 6 /\ k \in Members[s]
    BY <1>2, SweepsChange DEF RecordsInv
  <2>2. CASE issue[k] = "verified"
    BY <2>1, <2>2, BothNeeded DEF RecordsInv
  <2>3. CASE issue[k] # "verified"
    BY <1>2, <2>3 DEF Skips
  <2> QED
    BY <2>2, <2>3
<1> QED
  BY <1>1, <1>2

\* The gate of verified to completed has seen a review and the members' records.
LEMMA CompletingGate ==
  ASSUME NEW s \in Sessions, status[s] = "verified",
         Refusing(s, "completed", Sessions) = {}
  PROVE  s \in review /\ \A k \in Members[s] : Missing(k) = {}
<1>1. {"pr_review_approved", "session_has_docs"} \subseteq Tripwires(<<"verified", "completed">>)
  BY DEF Tripwires
<1>2. /\ Complaints("pr_review_approved", Sessions) \cap InScope(s) = {}
      /\ Complaints("session_has_docs", Sessions) \cap InScope(s) = {}
  BY <1>1 DEF Refusing
<1>3. s \in review
  <2>1. AtOrPast("verified", "verified")
    BY Positions, OnThePath DEF AtOrPast
  <2> QED
    BY <1>2, <2>1 DEF Complaints, pr_review_approved, InScope
<1>4. ASSUME NEW k \in Members[s]
      PROVE  Missing(k) = {}
  BY <1>2 DEF Complaints, session_has_docs, InScope, MembersOf
<1> QED
  BY <1>3, <1>4

\* A project at rest has been asked for its records (Init).
LEMMA RecordsAtFirst == Init => RecordsInv
<1> SUFFICES ASSUME Init PROVE RecordsInv
  OBVIOUS
<1>1. GatesType
  BY GatesAssumption DEF Init, GatesType
<1>2. ASSUME NEW s \in Sessions, status[s] = "completed"
      PROVE  /\ s \in review
             /\ \A k \in Members[s] : issue[k] = "completed" => docs[k] = Docs
  <2>1. AtOrPast("completed", "verified") /\ AtOrPast("completed", "in_review")
    BY Positions, OnThePath DEF AtOrPast
  <2>2. s \in review
    BY <1>2, <2>1 DEF Init
  <2>3. ASSUME NEW k \in Members[s], issue[k] = "completed"
        PROVE  docs[k] = Docs
    BY <2>1, <2>3, GatesAssumption DEF Init, Docs, DocRequiredAt
  <2> QED
    BY <2>2, <2>3
<1> QED
  BY <1>1, <1>2 DEF RecordsInv, CompletedHasRecords

\* A move of the executor.
LEMMA MovesKeepRecords ==
  ASSUME RecordsInv, NEW s \in Sessions, NEW t, Transition(s, t)
  PROVE  RecordsInv'
<1> DEFINE r == <<status[s], t>>
           n == IF r \in Sweeping THEN Goal(t) ELSE 0
<1>1. PICK g \in Sweeps(s, n) :
        /\ issue' = g
        /\ status' = IF Partial(g, n) THEN status ELSE [status EXCEPT ![s] = t]
        /\ why' = [why EXCEPT !.skipped = @ \cup Skips(g),
                              !.bypass = IF r = <<"paused", "completed">> THEN @ \cup {s} ELSE @]
  BY DEF Transition
<1>2. n \in 0..6 /\ (n = 6 => t = "completed") /\ docs' = docs /\ review' = review
      /\ Refusing(s, t, Sessions) = {} /\ r \in Routes
  BY GoalsAre DEF Transition
<1>3. t \in STRING /\ (t = "completed" => status[s] \in {"verified", "paused"})
  BY <1>2, GatesAssumption
<1>4. GatesType'
  <2>1. g \in [Issues -> IssueStatuses] /\ Skips(g) \subseteq Issues
    BY <1>2, SweepsChange DEF RecordsInv, Skips
  <2> QED
    BY <1>1, <1>2, <1>3, <2>1 DEF RecordsInv, GatesType
<1>5. /\ why'.skipped = why.skipped \cup Skips(issue')
      /\ why'.byhand = why.byhand /\ why'.lost = why.lost /\ why.bypass \subseteq why'.bypass
  BY <1>1 DEF RecordsInv, GatesType
<1>6. n = 6 => \A k \in Members[s] : Missing(k) = {}
  <2>1. ASSUME n = 6 PROVE status[s] = "verified" /\ t = "completed"
    <3>1. t = "completed" /\ r \in Sweeping
      BY <1>2, <2>1
    <3> QED
      BY <3>1 DEF Sweeping
  <2> QED
    BY <1>2, <2>1, CompletingGate
<1>7. ASSUME NEW u \in Sessions, status'[u] = "completed"
      PROVE  \/ u \in why'.bypass
             \/ /\ u \in review'
                /\ \A k \in Members[u] :
                     issue'[k] = "completed" =>
                       docs'[k] = Docs \/ k \in why'.skipped \cup why'.byhand \cup why'.lost
  <2>1. CASE status[u] = "completed"
    <3>1. CASE u \in why.bypass
      BY <1>5, <3>1
    <3>2. CASE u \notin why.bypass
      <4>1. /\ u \in review
            /\ \A k \in Members[u] : issue[k] = "completed" =>
                 docs[k] = Docs \/ k \in why.skipped \cup why.byhand \cup why.lost
        BY <2>1, <3>2 DEF RecordsInv, CompletedHasRecords
      <4>2. ASSUME NEW k \in Members[u], issue'[k] = "completed"
            PROVE  docs'[k] = Docs \/ k \in why'.skipped \cup why'.byhand \cup why'.lost
        BY <1>1, <1>2, <1>5, <1>6, <4>1, <4>2, SweptHaveRecords, GatesAssumption
      <4> QED
        BY <1>2, <4>1, <4>2
    <3> QED
      BY <3>1, <3>2
  <2>2. CASE status[u] # "completed"
    <3>1. u = s /\ t = "completed"
      BY <1>1, <1>7, <2>2 DEF RecordsInv, GatesType
    <3>2. CASE status[s] = "paused"
      BY <1>1, <3>1, <3>2 DEF RecordsInv, GatesType
    <3>3. CASE status[s] = "verified"
      <4>1. s \in review /\ \A k \in Members[s] : Missing(k) = {}
        BY <1>2, <3>1, <3>3, CompletingGate
      <4>2. ASSUME NEW k \in Members[s], issue'[k] = "completed"
            PROVE  docs'[k] = Docs \/ k \in why'.skipped \cup why'.byhand \cup why'.lost
        <5>1. issue[k] = "completed" => docs[k] = Docs
          BY <4>1, BothNeeded, GatesAssumption DEF RecordsInv
        <5> QED
          BY <1>1, <1>2, <1>5, <1>6, <4>2, <5>1, SweptHaveRecords, GatesAssumption
      <4> QED
        BY <1>2, <3>1, <4>1, <4>2
    <3> QED
      BY <1>3, <3>1, <3>2, <3>3
  <2> QED
    BY <2>1, <2>2
<1> QED
  BY <1>4, <1>7 DEF RecordsInv, CompletedHasRecords

\* The sweep of complete_session, which has looked at the records itself.
LEMMA CompleteKeepsRecords ==
  ASSUME RecordsInv, NEW s \in Sessions, CompleteSweeps(s)
  PROVE  RecordsInv'
<1>1. /\ issue' \in Sweeps(s, 6) /\ \A k \in Members[s] : Missing(k) = {}
      /\ docs' = docs /\ review' = review /\ status' = status
      /\ why' = [why EXCEPT !.skipped = @ \cup Skips(issue')]
  BY DEF CompleteSweeps, Goal
<1>2. GatesType'
  BY <1>1, SweepsChange DEF RecordsInv, GatesType, Skips
<1>3. /\ why'.skipped = why.skipped \cup Skips(issue') /\ why'.bypass = why.bypass
      /\ why'.byhand = why.byhand /\ why'.lost = why.lost
  BY <1>1 DEF RecordsInv, GatesType
<1>4. ASSUME NEW u \in Sessions, status'[u] = "completed", u \notin why'.bypass,
             NEW k \in Members[u], issue'[k] = "completed"
      PROVE  docs'[k] = Docs \/ k \in why'.skipped \cup why'.byhand \cup why'.lost
  <2>1. issue[k] = "completed" =>
          docs[k] = Docs \/ k \in why.skipped \cup why.byhand \cup why.lost
    BY <1>1, <1>3, <1>4 DEF RecordsInv, CompletedHasRecords
  <2> QED
    BY <1>1, <1>3, <1>4, <2>1, SweptHaveRecords, GatesAssumption
<1>5. ASSUME NEW u \in Sessions, status'[u] = "completed", u \notin why'.bypass
      PROVE  u \in review'
  BY <1>1, <1>3, <1>5 DEF RecordsInv, CompletedHasRecords
<1> QED
  BY <1>2, <1>4, <1>5 DEF RecordsInv, CompletedHasRecords

\* What people, agents and review do.
LEMMA OthersKeepRecords ==
  ASSUME RecordsInv,
         \/ \E s \in Sessions : \/ Review(s) \/ Prepare(s) \/ Merge(s)
                                \/ \E f \in Artifacts : \E q \in Quality(f) : Writes(s, f, q)
         \/ \E k \in Issues : \/ \E d \in Docs : WritesDoc(k, d) \/ LosesDoc(k, d)
                              \/ \E t \in IssueStatuses : IssueMove(k, t)
         \/ Publish \/ UNCHANGED vars
  PROVE  RecordsInv'
<1> USE GatesAssumption DEF RecordsInv, GatesType, CompletedHasRecords, Docs, DocRequiredAt
<1>1. ASSUME NEW s \in Sessions, Review(s) PROVE RecordsInv'
  BY <1>1 DEF Review
<1>2. ASSUME NEW s \in Sessions, Prepare(s) PROVE RecordsInv'
  BY <1>2 DEF Prepare
<1>3. ASSUME NEW s \in Sessions, Merge(s) PROVE RecordsInv'
  BY <1>3 DEF Merge
<1>4. ASSUME NEW s \in Sessions, NEW f, NEW q, Writes(s, f, q) PROVE RecordsInv'
  BY <1>4 DEF Writes
<1>5. ASSUME NEW k \in Issues, NEW d \in Docs, WritesDoc(k, d) PROVE RecordsInv'
  BY <1>5 DEF WritesDoc
<1>6. ASSUME NEW k \in Issues, NEW d \in Docs, LosesDoc(k, d) PROVE RecordsInv'
  <2>1. ASSUME NEW u \in Sessions, status[u] = "completed", k \in Members[u]
        PROVE  k \in why'.lost
    BY <1>6, <2>1 DEF LosesDoc, Owners
  <2>2. /\ why'.skipped = why.skipped /\ why'.byhand = why.byhand
        /\ why'.bypass = why.bypass /\ why.lost \subseteq why'.lost
        /\ why'.lost \subseteq Issues
        /\ issue' = issue /\ status' = status /\ review' = review
        /\ docs' = [docs EXCEPT ![k] = @ \ {d}]
    BY <1>6 DEF LosesDoc
  <2>3. GatesType'
    BY <1>6, <2>2 DEF LosesDoc
  <2> QED
    BY <2>1, <2>2, <2>3
<1>7. ASSUME NEW k \in Issues, NEW t \in IssueStatuses, IssueMove(k, t) PROVE RecordsInv'
  BY <1>7 DEF IssueMove
<1>8. CASE Publish
  BY <1>8 DEF Publish
<1>9. CASE UNCHANGED vars
  BY <1>9 DEF vars
<1> QED
  BY <1>1, <1>2, <1>3, <1>4, <1>5, <1>6, <1>7, <1>8, <1>9

\* Whichever way a session comes to be completed, it was reviewed and each of its
\* completed issues has developer.md and verified.md, but for the route from
\* paused and the three ways around the check that CompletedHasRecords names
\* (session_complete.py:115-117, checks/_helpers.py:233-293).
THEOREM RecordsKept == Spec => []CompletedHasRecords
<1>1. Init => RecordsInv
  BY RecordsAtFirst
<1>2. RecordsInv /\ [Next]_vars => RecordsInv'
  BY MovesKeepRecords, CompleteKeepsRecords, OthersKeepRecords DEF Next
<1>3. RecordsInv => CompletedHasRecords
  BY DEF RecordsInv
<1> QED
  BY <1>1, <1>2, <1>3, PTL DEF Spec
=============================================================================
