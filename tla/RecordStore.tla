----------------------------- MODULE RecordStore -----------------------------
(***************************************************************************)
(* What Store promises to a single writer: an atomic map from keys to      *)
(* payloads whose total size stays within the hard memory limit.           *)
(***************************************************************************)
EXTENDS Integers, Functions

CONSTANTS
    Keys,      \* keys of the entity type
    Values,    \* payloads
    Size,      \* Size[v]: accounted size of a record holding v
    MaxBytes,  \* hard memory limit, 0 for none
    Absent     \* the key has no record

VARIABLE recs  \* [Keys -> payload or Absent]

Weight(m) == SumFunction([k \in DOMAIN m |-> IF m[k] = Absent THEN 0 ELSE Size[m[k]]])

Init == recs = [k \in Keys |-> Absent]

Put(k, v) ==
    /\ recs' = [recs EXCEPT ![k] = v]
    /\ MaxBytes = 0 \/ Weight(recs') <= MaxBytes

Remove(k) == recs' = [recs EXCEPT ![k] = Absent]

Next == \E k \in Keys : Remove(k) \/ \E v \in Values : Put(k, v)

Spec == Init /\ [][Next]_recs

=============================================================================
