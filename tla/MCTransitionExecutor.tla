------------------------ MODULE MCTransitionExecutor ------------------------
(***************************************************************************)
(* The executor on the shipped coding-session workflow.  The instance file *)
(* may start in any status of MCStart with an empty log, as in a clone of  *)
(* a project that ignores events/ or one older than the log.               *)
(*                                                                         *)
(* The assumptions below are about the loader and the checks that stand    *)
(* between workflow.yaml and these constants; TLC evaluates them.          *)
(***************************************************************************)
EXTENDS TransitionExecutor, FiniteSetsExt

CS == INSTANCE CodingSession

MCStatuses == CS!SessionStatuses
MCRoutes == CS!SessionRoutes
MCEffects == CS!SideEffects
MCChecked == CS!PromptCheckedRoutes
MCPrompted == CS!JitPromptedRoutes
MCClosing == CS!EngagementClosingStatuses
MCStart == {"in_review", "completed"}
MCTargets == {"executing", "in_review", "verified", "completed", "paused"}
NoReset == {FALSE}

-----------------------------------------------------------------------------
(* Definitions of workflows *)

Cats == {"tripwires", "heuristics", "jit_prompts", "prompt_checks",
         "commands", "skills", "side_effects", "fields"}
WD == INSTANCE WorkflowDefinition
        WITH Sources <- {"source:issue"}, Sinks <- {}, Known <- [c \in Cats |-> {}]

RawStatus(id, terminal) ==
  [id |-> id, terminal |-> terminal, refs |-> [c \in Cats |-> {}], skills |-> <<>>,
   links |-> {}]
RawRoute(id, from, to, kind) ==
  [id |-> id, from |-> from, to |-> to, kind |-> kind, rollback |-> "", actor |-> "code",
   preserves |-> TRUE, refs |-> [c \in Cats |-> {}]]
Raw(shape, statuses, routes) ==
  [unknown |-> {}, shape |-> shape, instance |-> [declared |-> TRUE],
   statuses |-> statuses, routes |-> routes]

Shipped ==
  Raw("list", [i \in DOMAIN CS!StatusList |->
                 RawStatus(CS!StatusList[i], CS!StatusList[i] \in CS!TerminalStatuses)],
      <<RawRoute("", "source:issue", "planned", "forward")>> \o
      FoldSet(LAMBDA r, list : Append(list, RawRoute("", r[1], r[2], CS!RouteKind(r))),
              <<>>, CS!SessionRoutes))

\* The shipped definition, without the names it looks up in catalogues, passes its
\* own checks without a warning, and the moves it allows are the routes the
\* executor is given here.
ASSUME ShippedDefinition ==
  /\ WD!GateAccepts(Shipped)
  /\ WD!Declared(WD!parse_workflow(Shipped)) = MCStatuses
  /\ WD!Moves(WD!parse_workflow(Shipped)) = MCRoutes

\* Four statuses with the given routes; only d is terminal.
Four(routes) ==
  Raw("list", << RawStatus("a", FALSE), RawStatus("b", FALSE), RawStatus("c", FALSE),
                 RawStatus("d", TRUE) >>,
      [i \in DOMAIN routes |-> RawRoute("", routes[i][1], routes[i][2], "")])

\* What the checks let pass although it cannot be meant: statuses nobody can
\* enter because they only lead to each other, a status whose one exit leads
\* back to it, a second route between two statuses, which no move ever takes,
\* statuses that are no list, a kind that is misspelt.
ASSUME AcceptedAnyway ==
  /\ LET island == Four(<< <<"a", "d">>, <<"b", "c">>, <<"c", "b">> >>)
         wf == WD!parse_workflow(island)
         next == WD!build_issue_transitions(wf, {})
     IN WD!Accepted(island) /\ WD!reachable_statuses(next, <<"a">>) = {"a", "d"}
  /\ WD!Accepted(Four(<< <<"a", "b">>, <<"a", "c">>, <<"a", "d">>, <<"b", "b">>, <<"c", "d">> >>))
  /\ LET twice == Raw("list", <<RawStatus("a", FALSE), RawStatus("d", TRUE)>>,
                      << RawRoute("first", "a", "d", "side"),
                         RawRoute("second", "a", "d", "forward") >>)
     IN WD!Accepted(twice) /\ WD!route_between(WD!parse_workflow(twice), "a", "d").id = <<"first">>
  /\ WD!Accepted(Raw("other", <<>>, <<>>)) /\ ~WD!Accepted(Raw("none", <<>>, <<>>))
  /\ WD!Accepted(Raw("list", <<RawStatus("a", FALSE), RawStatus("d", TRUE)>>,
                     <<RawRoute("", "a", "d", "forwrad")>>))

\* Breadth-first search returns the least set that holds the start and is
\* closed under the transitions, for every graph on three statuses.
Three == {"planned", "b", "c"}
ASSUME SearchIsReachability ==
  \A next \in [Three -> SUBSET Three] :
     WD!reachable_statuses(next, <<>>) =
       {s \in Three : \A R \in SUBSET Three :
          ("planned" \in R /\ \A t \in R : next[t] \subseteq R) => s \in R}
=============================================================================
