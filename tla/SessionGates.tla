----------------------------- MODULE SessionGates -----------------------------
(***************************************************************************)
(* What the gates of the coding-session routes look at, in a project with  *)
(* several sessions that may share issues.  A route names its validators;  *)
(* each of them walks every session or issue of the project, and the       *)
(* executor then keeps the findings about the session it is to move, about *)
(* that session's member issues, and about nobody in particular.           *)
(*                                                                         *)
(* A validator is the set of those it complains about.  Validators run in  *)
(* strict mode, where a warning is an error, on the status the session     *)
(* still has.  A move that is refused changes nothing and is no step here; *)
(* SessionLifecycle has what the verbs do around a move, and the locks.    *)
(* Validators of wording, identifiers and timestamps, prompts and acks are *)
(* left out: they may refuse any move.                                     *)
(***************************************************************************)
EXTENDS StatusContract

CONSTANTS
  Sessions, Issues,
  Members,      \* the issues of each session
  Keyed,        \* sessions whose id is not its own slug: TST-S1, session-auth
  Routes, IssueRoutes,
  Starts,       \* statuses the sessions are found in
  MaxMoves, MaxEdits, MaxCalls

Project == "project"

ASSUME GatesAssumption ==
  /\ Keyed \subseteq Sessions
  /\ Members \in [Sessions -> SUBSET Issues]
  /\ Project \notin Sessions \cup Issues /\ Sessions \cap Issues = {}
  /\ \A f \in Starts : \A s \in Keyed : f[s] \in {"planned", "queued"}
  /\ Starts \subseteq [Sessions -> STRING]
  /\ Routes \subseteq STRING \X STRING
  /\ \A r \in Routes : r[2] = "completed" => r[1] \in {"verified", "paused"}
  /\ IssueRoutes \subseteq IssueStatuses \X IssueStatuses
  /\ {MaxMoves, MaxEdits, MaxCalls} \subseteq Nat

VARIABLES
  status, issue,  \* of each session and each issue
  files,    \* what each session has written of each artifact
  docs,     \* developer.md and verified.md of each issue
  project,  \* its phase, and whether the papers of that phase are complete
  main,     \* what the local origin/main has, if there is one
  review,   \* sessions with a review.json
  merged,   \* sessions whose branches have merged pull requests
  branch,   \* proj/<slug> of each session; worktrees are recorded once it is used
  budget,
  why       \* history, for the properties only

vars == <<status, issue, files, docs, project, main, review, merged, branch,
          budget, why>>

\* The manifests.  plan stands for both artifacts produced at planning, work for
\* the four produced at executing.
RequiredAt == [plan |-> "queued", work |-> "executing", notes |-> "in_review",
               response |-> "completed"]
\* Mutant of DocRequiredAt: verified.md is asked for at the status it leads to.
DocRequiredAtLate == [developer |-> "in_review", verified |-> "completed"]
DocRequiredAt == [developer |-> "in_review", verified |-> "verified"]
Artifacts == DOMAIN RequiredAt
Docs == DOMAIN DocRequiredAt

\* poor: review notes with placeholders or open findings, a response that
\* leaves items out, a plan beside the directory artifacts/ and not in it.
Quality(f) == IF f = "work" THEN {"none", "good"} ELSE {"none", "poor", "good"}

Owners(k, S) == {s \in S : k \in Members[s]}
MembersOf(S) == UNION {Members[s] : s \in S}
Missing(k) == {d \in Docs : AtOrPast(issue[k], DocRequiredAt[d]) /\ d \notin docs[k]}

-----------------------------------------------------------------------------
(* The validators, of a project that has the sessions S.                   *)

\* _COHERENCE_MATRIX, as the range of issues that go with a status.
Coherent(s) ==
  CASE s = "planned"               -> 1..2
    [] s \in {"queued", "executing"} -> 2..4
    [] s = "in_review"             -> 4..6
    [] s = "verified"              -> 5..6
    [] s = "completed"             -> 6..6
    [] OTHER                       -> 0..6

session_issue_coherence(S) ==
  {s \in S : \E k \in Members[s] :
     issue[k] \notin OffPath /\ Index(issue[k]) \notin Coherent(status[s])}

issue_session_status_compatibility(S) ==
  {s \in S : \E k \in Members[s] : issue[k] \notin Allowed(status[s])}

done_implies_session_completed(S) ==
  {k \in Issues : /\ issue[k] = "completed"
                  /\ Owners(k, S) # {}
                  /\ \A s \in Owners(k, S) : status[s] \notin {"completed", "abandoned"}}

\* The branch is named after the slug and looked up as if it were the id.
Orphan(s) == branch[s] # "none" /\ s \in Keyed
EmptyQueued(s) == branch[s] = "empty" /\ s \notin Keyed /\ status[s] = "queued"
no_orphan_proj_branches(S) ==
  IF \E s \in S : Orphan(s) \/ EmptyQueued(s) THEN {Project} ELSE {}

\* As if the file were there whatever the artifact.
artifact_presence(S) ==
  {s \in S : \E f \in Artifacts : AtOrPast(status[s], RequiredAt[f]) /\ files[s][f] = "none"}

issue_artifact_presence == {k \in Issues : Missing(k) # {}}

member_issues_at_or_past_in_review(S) ==
  {s \in S : AtOrPast(status[s], "in_review")
               /\ \E k \in Members[s] : ~AtOrPast(issue[k], "in_review")}

phase_requirements(S) ==
  (IF project.ready THEN {} ELSE {Project})
    \cup {s \in S : project.scoped /\ files[s].plan # "good"}

\* v_pr_review_*: nothing is said of notes that are not there.
pr_review(S) ==
  {s \in S : AtOrPast(status[s], RequiredAt.notes) /\ files[s].notes = "poor"}

\* v_pm_response_*.
pm_response(S) ==
  {s \in S : AtOrPast(status[s], RequiredAt.response) /\ files[s].response = "poor"}

done_implies_issue_artifacts_on_main ==
  LET done == {k \in Issues : issue[k] = "completed"} IN
  IF ~main.known THEN IF done = {} THEN {} ELSE {Project}
  ELSE {k \in done : main.docs[k] # Docs}

self_review_implies_pm_response(S) ==
  IF ~main.known THEN IF S = {} THEN {} ELSE {Project}
  ELSE {s \in S : "work" \in main.files[s] /\ "response" \notin main.files[s]}

pr_merged_for_session(S) ==
  {s \in S : status[s] = "verified" /\ (branch[s] # "used" \/ s \notin merged)}

pr_review_approved(S) == {s \in S : AtOrPast(status[s], "verified") /\ s \notin review}

\* v_session_has_developer_md and v_session_has_verified_md.
session_has_docs(S) == {k \in MembersOf(S) : Missing(k) # {}}

Complaints(c, S) ==
  CASE c = "session_issue_coherence" -> session_issue_coherence(S)
    [] c = "issue_session_status_compatibility" -> issue_session_status_compatibility(S)
    [] c = "done_implies_session_completed" -> done_implies_session_completed(S)
    [] c = "no_orphan_proj_branches" -> no_orphan_proj_branches(S)
    [] c = "artifact_presence" -> artifact_presence(S)
    [] c = "issue_artifact_presence" -> issue_artifact_presence
    [] c = "member_issues_at_or_past_in_review" -> member_issues_at_or_past_in_review(S)
    [] c = "phase_requirements" -> phase_requirements(S)
    [] c = "pr_review" -> pr_review(S)
    [] c = "pm_response" -> pm_response(S)
    [] c = "done_implies_issue_artifacts_on_main" -> done_implies_issue_artifacts_on_main
    [] c = "self_review_implies_pm_response" -> self_review_implies_pm_response(S)
    [] c = "pr_merged_for_session" -> pr_merged_for_session(S)
    [] c = "pr_review_approved" -> pr_review_approved(S)
    [] c = "session_has_docs" -> session_has_docs(S)

-----------------------------------------------------------------------------
(* The gate.                                                               *)

\* tripwires of the controls of a route.
Tripwires(r) ==
  CASE r = <<"planned", "queued">> ->
         {"session_issue_coherence", "issue_session_status_compatibility"}
    [] r = <<"queued", "executing">> ->
         {"no_orphan_proj_branches", "done_implies_session_completed"}
    [] r = <<"executing", "in_review">> ->
         {"artifact_presence", "phase_requirements", "issue_artifact_presence",
          "member_issues_at_or_past_in_review"}
    [] r = <<"in_review", "verified">> -> {"pr_review"}
    [] r = <<"verified", "completed">> ->
         {"pm_response", "done_implies_issue_artifacts_on_main",
          "self_review_implies_pm_response", "pr_merged_for_session",
          "pr_review_approved", "session_has_docs"}
    [] OTHER -> {}

Sweeping == {<<"planned", "queued">>, <<"executing", "in_review">>,
             <<"in_review", "verified">>, <<"verified", "completed">>}

\* Mutant of InScope: every finding counts.
InScopeAll(s) == Sessions \cup Issues \cup {Project}

\* _in_scope_instance_ids, and what belongs to nobody.
InScope(s) == {s, Project} \cup Members[s]

\* The tripwires that keep s from t, if the project has the sessions S.
Refusing(s, t, S) ==
  {c \in Tripwires(<<status[s], t>>) : Complaints(c, S) \cap InScope(s) # {}}

-----------------------------------------------------------------------------

Spend(what) == budget[what] > 0 /\ budget' = [budget EXCEPT ![what] = @ - 1]

\* Where a sweep to the n-th status may leave an issue: each step is a move of
\* its own, which may be refused, and then the walk of this issue is over.
Walks(k, n) == IF issue[k] \in OffPath \/ Index(issue[k]) >= n THEN {issue[k]}
               ELSE {Lifecycle[m] : m \in Index(issue[k])..n}
Sweeps(s, n) ==
  {[k \in Issues |-> IF k \in Members[s] THEN h[k] ELSE issue[k]] :
     h \in {x \in [Members[s] -> IssueStatuses] : \A k \in Members[s] : x[k] \in Walks(k, n)}}
Partial(g, n) == \E k \in Issues : g[k] # issue[k] /\ Index(g[k]) < n

\* Issues that a sweep completes from a status that asked for fewer records.
Skips(g) == {k \in Issues : g[k] = "completed" /\ g[k] # issue[k] /\ issue[k] # "verified"}

\* execute_transition.  A sweep that fails half way aborts the move.
Transition(s, t) ==
  LET r == <<status[s], t>>
      n == IF r \in Sweeping THEN Goal(t) ELSE 0 IN
  /\ r \in Routes /\ Refusing(s, t, Sessions) = {}
  /\ Spend("moves")
  /\ \E g \in Sweeps(s, n) :
       /\ issue' = g
       /\ status' = IF Partial(g, n) THEN status ELSE [status EXCEPT ![s] = t]
       /\ why' = [why EXCEPT !.skipped = @ \cup Skips(g),
                             !.bypass = IF r = <<"paused", "completed">> THEN @ \cup {s} ELSE @]
  /\ UNCHANGED <<files, docs, project, main, review, merged, branch>>

\* complete_session up to its move: checks of its own, then the sweep.
CompleteSweeps(s) ==
  /\ status[s] \in {"in_review", "verified"}
  /\ branch[s] = "used" /\ s \in merged
  /\ \A k \in Members[s] : Missing(k) = {}
  /\ s \in review
  /\ Spend("calls")
  /\ issue' \in Sweeps(s, Goal("completed"))
  /\ why' = [why EXCEPT !.skipped = @ \cup Skips(issue')]
  /\ UNCHANGED <<status, files, docs, project, main, review, merged, branch>>

\* session review asks for no status; its verdict is never worse than notes.
Review(s) ==
  /\ Spend("calls")
  /\ review' = review \cup {s}
  /\ docs' = [k \in Issues |-> IF k \in Members[s] THEN docs[k] \cup {"verified"} ELSE docs[k]]
  /\ <<review', docs'>> # <<review, docs>>
  /\ UNCHANGED <<status, issue, files, project, main, merged, branch, why>>

\* session spawn up to its move: worktree and branch, then a first commit, an
\* empty one, for the draft pull request.  If that fails the branch remains.
\* (Without a remote there are no such branches, and nothing to say of them.)
Prepare(s) ==
  /\ status[s] = "queued" /\ branch[s] = "none"
  /\ Spend("calls")
  /\ \E b \in {"empty", "used"} : branch' = [branch EXCEPT ![s] = b]
  /\ UNCHANGED <<status, issue, files, docs, project, main, review, merged, why>>

-----------------------------------------------------------------------------
(* Agents and people.                                                      *)

Merge(s) ==
  /\ branch[s] = "used" /\ s \notin merged
  /\ Spend("calls")
  /\ merged' = merged \cup {s}
  /\ UNCHANGED <<status, issue, files, docs, project, main, review, branch, why>>

Writes(s, f, q) ==
  /\ Spend("edits") /\ files[s][f] # q
  /\ files' = [files EXCEPT ![s][f] = q]
  /\ UNCHANGED <<status, issue, docs, project, main, review, merged, branch, why>>

WritesDoc(k, d) ==
  /\ d \notin docs[k] /\ Spend("edits")
  /\ docs' = [docs EXCEPT ![k] = @ \cup {d}]
  /\ UNCHANGED <<status, issue, files, project, main, review, merged, branch, why>>

LosesDoc(k, d) ==
  /\ d \in docs[k] /\ Spend("edits")
  /\ docs' = [docs EXCEPT ![k] = @ \ {d}]
  /\ why' = [why EXCEPT !.lost = IF \E s \in Owners(k, Sessions) : status[s] = "completed"
                                 THEN @ \cup {k} ELSE @]
  /\ UNCHANGED <<status, issue, files, project, main, review, merged, branch>>

\* What there is gets merged to main and is fetched.
Tree == [known |-> TRUE, docs |-> docs,
         files |-> [s \in Sessions |-> {f \in Artifacts : files[s][f] # "none"}]]
Publish ==
  /\ main # Tree /\ Spend("edits") /\ main' = Tree
  /\ UNCHANGED <<status, issue, files, docs, project, review, merged, branch, why>>

\* The routes of the issues have no tripwires.
IssueMove(k, t) ==
  /\ <<issue[k], t>> \in IssueRoutes /\ Spend("edits")
  /\ issue' = [issue EXCEPT ![k] = t]
  /\ why' = [why EXCEPT !.byhand = IF t = "completed" THEN @ \cup {k} ELSE @]
  /\ UNCHANGED <<status, files, docs, project, main, review, merged, branch>>

-----------------------------------------------------------------------------

\* A project at rest, in which everybody has written what was asked for, and
\* the response that completing will ask for.
Init ==
  /\ status \in Starts
  /\ issue \in [Issues -> IssueStatuses]
  /\ \A s \in Sessions : \A k \in Members[s] : issue[k] \in Allowed(status[s])
  /\ files = [s \in Sessions |-> [f \in Artifacts |->
                IF AtOrPast(status[s], RequiredAt[f]) \/ <<f, status[s]>> = <<"response", "verified">>
                THEN "good" ELSE "none"]]
  /\ docs = [k \in Issues |-> {d \in Docs : AtOrPast(issue[k], DocRequiredAt[d])}]
  /\ project \in {[scoped |-> TRUE, ready |-> TRUE], [scoped |-> FALSE, ready |-> FALSE]}
  /\ main \in {Tree, [Tree EXCEPT !.known = FALSE]}
  /\ review = {s \in Sessions : AtOrPast(status[s], "verified")}
  /\ merged = {s \in Sessions : status[s] = "completed"}
  /\ branch = [s \in Sessions |-> IF status[s] \in {"planned", "queued"} THEN "none" ELSE "used"]
  /\ budget = [moves |-> MaxMoves, edits |-> MaxEdits, calls |-> MaxCalls]
  /\ why = [skipped |-> {}, bypass |-> {}, lost |-> {}, byhand |-> {}]

Next ==
  \/ \E s \in Sessions :
       \/ CompleteSweeps(s) \/ Review(s) \/ Prepare(s) \/ Merge(s)
       \/ \E t \in {r[2] : r \in Routes} : Transition(s, t)
       \/ \E f \in Artifacts : \E q \in Quality(f) : Writes(s, f, q)
  \/ \E k \in Issues :
       \/ \E d \in Docs : WritesDoc(k, d) \/ LosesDoc(k, d)
       \/ \E t \in IssueStatuses : IssueMove(k, t)
  \/ Publish

Spec == Init /\ [][Next]_vars

-----------------------------------------------------------------------------
(* Properties.                                                             *)

\* What a session may do depends on itself and on its member issues, although
\* every validator looks at the whole project (transitions.py:526-535): it is
\* refused what it would be allowed, were it alone, only for the branch of
\* another session, which no file is named for; and allowed what it would be
\* refused, only because another owner of a completed issue is done with it.
OthersDoNotDecide ==
  \A s \in Sessions : \A r \in {x \in Routes : x[1] = status[s] /\ Tripwires(x) # {}} :
    LET alone == Refusing(s, r[2], {s})
        here == Refusing(s, r[2], Sessions) IN
    /\ here \ alone \subseteq {"no_orphan_proj_branches"}
    /\ alone \ here \subseteq {"done_implies_session_completed"}

\* A completed session has been reviewed and its completed issues have both of
\* their records, whatever was done in between by the members' own moves, other
\* owners, reverts and refused completes.  But for the route from paused to
\* completed, which checks nothing; and for issues that a sweep has completed
\* from before verified, after the check; that were completed by hand; or whose
\* records were removed later.
CompletedHasRecords ==
  \A s \in Sessions :
    status[s] = "completed" =>
      \/ s \in why.bypass
      \/ /\ s \in review
         /\ \A k \in Members[s] :
              issue[k] = "completed" =>
                docs[k] = Docs \/ k \in why.skipped \cup why.byhand \cup why.lost
=============================================================================
