-------------------------------- MODULE MCEdge --------------------------------
(* Instances of Edge for TLC, and what only model checking reaches.        *)
EXTENDS Edge

(* A script that exceeds its time budget is interrupted.                   *)
RunawaysInterrupted == \A c \in Calls : stage[c] = "running" ~> stage[c] # "running"

=============================================================================
