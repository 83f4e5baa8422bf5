---------------------------- MODULE MCSessionGates ----------------------------
(* Two sessions that share an issue, of which the second has another one   *)
(* for itself and the first has an allocated key for its id.               *)
EXTENDS SessionGates, ValidationCases

CS == INSTANCE CodingSession

MCRoutes == CS!SessionRoutes
Sharing == [s1 |-> {"k1"}, s2 |-> {"k1", "k2"}]
Begins(a, b) == [s1 |-> a, s2 |-> b]
Together == {Begins("queued", "queued"), Begins("planned", "executing"),
             Begins("queued", "verified"), Begins("queued", "completed")}

\* The issue-closure workflow.
IssueClosure ==
  { <<Lifecycle[n], Lifecycle[n + 1]>> : n \in 1..5 }
  \cup { <<"in_review", "executing">>, <<"verified", "in_review">>,
         <<"deferred", "planned">> }
  \cup { <<s, "deferred">> : s \in {"planned", "queued", "executing"} }
  \cup { <<s, "abandoned">> :
           s \in {"planned", "queued", "executing", "in_review", "verified", "deferred"} }
=============================================================================
