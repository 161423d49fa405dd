------------------------------ MODULE LogReader ------------------------------
(***************************************************************************)
(* What ingestion promises when it processes one message at a time, none   *)
(* fails and the group has committed before: it applies the log in order   *)
(* and without gaps, and after a crash resumes at an offset it has saved,  *)
(* never beyond what it has applied.                                       *)
(***************************************************************************)
EXTENDS Integers

VARIABLES
    done,   \* this run has yet to apply the messages from this offset on
    saved,  \* the offset a restart goes back to
    seen    \* the messages that have ever been applied

Init == done = 0 /\ saved = 0 /\ seen = {}

Apply == done' = done + 1 /\ seen' = seen \cup {done} /\ UNCHANGED saved
Save == saved' \in saved..done /\ UNCHANGED <<done, seen>>
Restart == done' = saved /\ UNCHANGED <<saved, seen>>

Next == Apply \/ Save \/ Restart

Spec == Init /\ [][Next]_<<done, saved, seen>>

=============================================================================
