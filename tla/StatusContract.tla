---------------------------- MODULE StatusContract ----------------------------
(***************************************************************************)
(* core/status_contract.py: which statuses member issues may have while    *)
(* their session has one, and to which status a sweep takes them.  Tables  *)
(* only; the lifecycle is also the declared order of the two status enums. *)
(***************************************************************************)
EXTENDS Naturals, SequencesExt

\* _LIFECYCLE_ORDER; deferred and abandoned are off the path.
Lifecycle == <<"planned", "queued", "executing", "in_review", "verified",
               "completed">>
OffPath == {"deferred", "abandoned"}
IssueStatuses == Range(Lifecycle) \cup OffPath
Index(s) == IF s \in OffPath THEN 0
            ELSE CHOOSE n \in DOMAIN Lifecycle : Lifecycle[n] = s

\* ALLOWED_ISSUE_STATES_BY_SESSION_STATE
Allowed(s) ==
  OffPath \cup
  CASE s = "planned"   -> {"planned"}
    [] s = "queued"    -> {"planned", "queued"}
    [] s = "executing" -> {"queued", "executing", "in_review"}
    [] s = "in_review" -> {"in_review", "verified"}
    [] s = "verified"  -> {"verified"}
    [] s = "completed" -> {"completed"}
    [] OTHER           -> IssueStatuses

\* SWEEP_TARGETS as a position in Lifecycle; 0 for None.
Goal(s) == CASE s \in {"queued", "executing"} -> 2
             [] s = "in_review" -> 4
             [] s = "verified"  -> 5
             [] s = "completed" -> 6
             [] OTHER           -> 0

\* status_at_or_past: side states are never there.
AtOrPast(s, t) == s \in Range(Lifecycle) /\ Index(s) >= Index(t)
=============================================================================
