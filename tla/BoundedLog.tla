----------------------------- MODULE BoundedLog ------------------------------
(***************************************************************************)
(* What CollectionStore promises to a single caller for a collection with  *)
(* order_by: each partition is a set of items with distinct ids, of which  *)
(* only the newest are kept, and items leave it one by one or by age.      *)
(***************************************************************************)
EXTENDS Integers, FiniteSets

CONSTANTS
    Partitions,  \* partition keys
    Item,        \* items: records with an id and a created time
    Capacity     \* items a partition keeps

VARIABLE log     \* [Partitions -> set of items]

Init == log = [p \in Partitions |-> {}]

Newest(items, kept) ==
    /\ kept \subseteq items
    /\ Cardinality(kept) = IF Cardinality(items) <= Capacity THEN Cardinality(items)
                                                             ELSE Capacity
    /\ \A gone \in items \ kept, it \in kept : gone.created <= it.created

Put(p, it) ==
    \E kept \in SUBSET (log[p] \cup {it}) :
        /\ Newest({x \in log[p] : x.id # it.id} \cup {it}, kept)
        /\ log' = [log EXCEPT ![p] = kept]

Take(p, id) == log' = [log EXCEPT ![p] = {x \in log[p] : x.id # id}]

(* Some age is the limit: what goes is older than all that stays.          *)
Expire(p, gone) ==
    /\ \A x \in gone, it \in log[p] \ gone : x.created < it.created
    /\ log' = [log EXCEPT ![p] = @ \ gone]

Next ==
    \E p \in Partitions :
        \/ \E it \in Item : Put(p, it)
        \/ \E x \in log[p] : Take(p, x.id)
        \/ \E gone \in SUBSET log[p] : Expire(p, gone)

Spec == Init /\ [][Next]_log

=============================================================================
