------------------------------- MODULE MCStore -------------------------------
(* Instances of Store for TLC: constants that are functions, and the       *)
(* properties that only model checking reaches.                            *)
EXTENDS Store, TLC

CONSTANTS v1, v2, v3, red, blue

(* v1 and v2 differ in the first field; the second index lists v3 but not  *)
(* v2, and v3 lacks the first field.                                       *)
MCFieldOf ==
    LET first == (v1 :> red) @@ (v2 :> blue) @@ (v3 :> NoField)
        second == (v1 :> blue) @@ (v2 :> NoField) @@ (v3 :> blue)
    IN [i \in Indexes |-> [v \in Values |-> IF i = 1 THEN first[v] ELSE second[v]]]

MCUnitSize == [v \in Values |-> 1]
MCSorted == [i \in Indexes |-> "sorted"]
MCHash == [i \in Indexes |-> "hash"]
MCMixed == [i \in Indexes |-> IF i = 1 THEN "hash" ELSE "sorted"]

Symmetry == Permutations(Keys) \cup Permutations(Workers)

-----------------------------------------------------------------------------

Payloads == [k \in Keys |-> IF entities[k] = NoRecord THEN NoRecord ELSE entities[k].val]

Abstract == INSTANCE RecordStore WITH recs <- Payloads, Absent <- NoRecord

LiveBytes == Abstract!Weight(Payloads)

(* An expired record does not stay: the sweeper evicts it, or an upsert    *)
(* renews it.                                                              *)
ExpiredEvicted ==
    LET overdue(k) == /\ entities[k] # NoRecord
                      /\ entities[k].expires # Never
                      /\ entities[k].expires <= clock
    IN \A k \in Keys : overdue(k) ~> ~overdue(k)

(* A tombstone older than tombstone_ttl_seconds is cleaned up, which bounds*)
(* the tombstone map.                                                      *)
TombstoneReaped ==
    LET old(k) == tombstones[k] # NoTombstone /\ clock > tombstones[k] + TombstoneTtl
    IN \A k \in Keys : old(k) ~> ~old(k)

(* Every operation a thread begins, it finishes.                           *)
OperationsFinish == \A t \in Threads : pc[t] # "idle" ~> pc[t] = "idle"

-----------------------------------------------------------------------------
(* Statements of the documents the code does not keep.                     *)

(* A key with no record and no operation under way is in no index.         *)
DeletionLeavesNoStaleIndexReference ==
    \A k \in Keys : Quiet(k) /\ entities[k] = NoRecord =>
        \A i \in Indexes, f \in Fields : k \notin index[i][f]

(* The indexes change together with the record: no reader sees a live      *)
(* record that an index does not list.                                     *)
IndexesUpdatedAtomically ==
    \A k \in Keys, i \in Indexes : Field(i, entities[k]) # NoField =>
        k \in index[i][Field(i, entities[k])]

(* Writes beyond the hard limit are rejected, so that the records fit.     *)
RecordsWithinHardLimit == LiveBytes <= MaxBytes

(* Accounting for an evicted record lowers the memory usage.               *)
EvictionLowersMemory == [][\A s \in Sweepers : Account(s) => mem' <= mem]_vars

(* The sweeper evicts expired records only.                                *)
SweepEvictsOnlyExpired ==
    [][\A s \in Sweepers, k \in Keys : Evict(s, k) => Expired(k, sweep[s].at)]_vars

=============================================================================
