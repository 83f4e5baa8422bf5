----------------------------- MODULE MCPRWatcher -----------------------------
(* Small instances of PRWatcher on the shipped coding-session workflow.    *)
EXTENDS PRWatcher, CodingSession
=============================================================================
