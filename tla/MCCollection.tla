---------------------------- MODULE MCCollection -----------------------------
(* Instances of CollectionStore for TLC, and the properties that only      *)
(* model checking reaches.                                                 *)
EXTENDS CollectionStore

CONSTANTS v1, v2, v3

(* v1 is an old item, v2 one that is dated in the future, v3 has no        *)
(* order_by field and is dated by the clock.                               *)
MCOrderOf ==
    LET order == (v1 :> 0) @@ (v2 :> 2) @@ (v3 :> NoField)
    IN [v \in Values |-> order[v]]

MCSize == LET size == (v1 :> 1) @@ (v2 :> 2) @@ (v3 :> 1) IN [v \in Values |-> size[v]]

Symmetry == Permutations(Partitions) \cup Permutations(Ids) \cup Permutations(Workers)

-----------------------------------------------------------------------------

(* An item older than the collection's ttl is trimmed, whether or not the  *)
(* items are in the order of their dates.                                  *)
ExpiredTrimmed ==
    LET expired(p, it) == it \in ToSet(Items(p)) /\ clock > it.created + Ttl
    IN \A p \in Partitions, it \in [id : Ids, val : Values, created : Times] :
         expired(p, it) ~> it \notin ToSet(Items(p))

=============================================================================
