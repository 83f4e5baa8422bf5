-------------------------- MODULE HeuristicMarkers --------------------------
(***************************************************************************)
(* The heuristics: soft findings that are to be shown once.  A marker under *)
(* .tripwire/heuristic-acks is the witness that one has been shown; it is   *)
(* keyed by the heuristic, the entity and the evidence, so that a finding   *)
(* comes back when its evidence changes.                                    *)
(*                                                                          *)
(* A finding is a record of code, severity, file, field, message and line.  *)
(* Its code is a pair, what stands before and after the slash; an absent    *)
(* file or field is the empty string.  The twelve digits of a hash are      *)
(* modelled by what is hashed: two findings collide only if they agree on   *)
(* code, message, file and field.                                           *)
(***************************************************************************)
EXTENDS Naturals, Sequences

Heuristic(prefix, entity) ==
  [id |-> <<"v", prefix>>, entity |-> entity, check_code_prefix |-> prefix]

\* Three of the prefixes are the names of a check, and not of what it reports.
_REGISTRY ==
  {Heuristic(p, "node") : p \in {"stale_concept"}}
    \cup {Heuristic(p, "issue") : p \in {"concept_name_prose", "semantic_coverage", "mega_issue"}}
    \cup {Heuristic(p, "session") : p \in {"coverage_heuristics"}}
    \cup {Heuristic(p, "project") : p \in {"node_ratio", "quality_consistency", "sequence_drift"}}

known_heuristic_ids == {h.id : h \in _REGISTRY}

IsHeuristic(f) == \E h \in _REGISTRY : h.check_code_prefix = f.code[1]
heuristic_for_check_code(code) == CHOOSE h \in _REGISTRY : h.check_code_prefix = code[1]

-----------------------------------------------------------------------------
(* What a marker is keyed by.  uuids[kind] maps the files of the loaded      *)
(* entities of that kind that have a uuid of their own to it.                *)

ProjectSingleton == <<"project">>

_entity_uuid_for_finding(f, uuids, kind) ==
  IF kind = "project" \/ f.file = "" THEN ProjectSingleton
  ELSE IF f.file \in DOMAIN uuids[kind] THEN <<"uuid", uuids[kind][f.file]>>
  ELSE <<"path", f.file>>

\* Neither the line nor the severity counts.
condition_hash(f) == <<f.code, f.message, f.file, f.field>>

MarkerKey(f, uuids) ==
  LET h == heuristic_for_check_code(f.code)
  IN [heuristic |-> h.id, entity |-> _entity_uuid_for_finding(f, uuids, h.entity),
      condition |-> condition_hash(f)]

-----------------------------------------------------------------------------
(* One pass over the findings, in order.  A marker is written as soon as its *)
(* finding is let through, so that a quiet run also drops what it repeats;   *)
(* unless the write fails, which is only logged.                             *)

Modes == {"surface", "quiet", "none", "as_tripwires"}

Quieted(fs, i, uuids, marks, failing) ==
  LET key == MarkerKey(fs[i], uuids)
  IN \/ key \in marks
     \/ /\ key \notin failing
        /\ \E j \in 1..(i - 1) : IsHeuristic(fs[j]) /\ MarkerKey(fs[j], uuids) = key

\* The places of the findings that the report keeps.
Kept(fs, uuids, marks, failing, mode) ==
  {i \in DOMAIN fs :
     IsHeuristic(fs[i]) =>
       /\ mode # "none"
       /\ mode = "quiet" => ~Quieted(fs, i, uuids, marks, failing)}

Reported(f, mode) ==
  IF mode = "as_tripwires" /\ IsHeuristic(f) /\ f.severity = "warning"
  THEN [f EXCEPT !.severity = "error"]
  ELSE f

_apply_heuristic_mode(fs, uuids, marks, failing, mode) ==
  [i \in Kept(fs, uuids, marks, failing, mode) |-> Reported(fs[i], mode)]

Marked(fs, uuids, marks, failing, mode) ==
  IF mode \notin {"surface", "quiet"} THEN marks
  ELSE marks \cup ({MarkerKey(fs[i], uuids) : i \in {k \in DOMAIN fs : IsHeuristic(fs[k])}}
                     \ failing)

-----------------------------------------------------------------------------
(* tripwire project heuristic reset and gc.  {} stands for a filter that is  *)
(* not given.  Full uuids are compared: they have one length, so that the    *)
(* beginning of a file's name that is asked for is its whole uuid.           *)

reset_markers(marks, ids, entities) ==
  {m \in marks : ~ /\ ids = {} \/ m.heuristic \in ids
                   /\ entities = {} \/ m.entity \in entities}

\* reset refuses an id it does not know, and no id without --all.
heuristic_reset(marks, ids, entities, all) ==
  IF (ids = {} /\ ~all) \/ ids \ known_heuristic_ids # {} THEN marks
  ELSE reset_markers(marks, ids, entities)

\* Neither of a path's marker: what it is keyed by is nobody's uuid.
gc_markers(marks, live) ==
  {m \in marks : m.entity \in {<<"uuid", u>> : u \in live} \cup {ProjectSingleton}}

\* The uuids gc takes for alive are those of what can be loaded.
heuristic_gc(marks, uuids) ==
  gc_markers(marks, UNION {{uuids[kind][file] : file \in DOMAIN uuids[kind]} : kind \in DOMAIN uuids})
=============================================================================
