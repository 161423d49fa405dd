----------------------------- MODULE MCIngestion -----------------------------
(* Instances of Ingestion for TLC, and the properties that only model      *)
(* checking reaches.                                                       *)
EXTENDS Ingestion

(* After a restart the state of the previous run comes back by the time    *)
(* the consumer has caught up with the log.                                *)
CaughtUp == phase = "up" /\ pos = produced /\ held = NoOffset /\ InFlight = {}
RestartRebuildsState == CaughtUp => ever \subseteq applied

(* Short of a crash or a stop every message the consumer has still to get *)
(* is processed: its ops are applied, or it has failed.                    *)
EveryMessageProcessed ==
    \A o \in Messages :
        phase = "up" /\ pos <= o /\ o < produced ~>
            o \in ever \/ o \in failed \/ stop \/ phase = "down"

(* A requested stop ends the loop even while messages keep coming and all  *)
(* permits are taken.                                                      *)
StopEndsLoop == stop /\ phase = "up" ~> phase # "up"

=============================================================================
