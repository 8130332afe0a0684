----------------------------- MODULE MCJobQueue ------------------------------
(* An instance of JobQueue for TLC.                                        *)
EXTENDS JobQueue, TLC

CONSTANTS ja, jb

(* Two jobs of one priority, so that only their birth orders them; the     *)
(* second gives up after one attempt.                                      *)
MCPriority    == ja :> 0 @@ jb :> 0
MCMaxAttempts == ja :> 2 @@ jb :> 1
=============================================================================
