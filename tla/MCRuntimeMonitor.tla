-------------------------- MODULE MCRuntimeMonitor --------------------------
(***************************************************************************)
(* The runtime monitor of one coding session, with the routes of the       *)
(* shipped workflow.  While the agent runs, it may hand the session in and *)
(* a person may abandon it.                                                *)
(***************************************************************************)
EXTENDS RuntimeMonitor

CS == INSTANCE CodingSession

MCRoutes == CS!SessionRoutes
MCClosing == CS!EngagementClosingStatuses
MCElsewhere == {<<"executing", "abandoned">>}

\* The hypothesis of the theorem about overruns holds of the shipped routes.
ASSUME ShippedOverrunRoutes == OverrunRoutes
=============================================================================
