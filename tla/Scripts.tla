------------------------------ MODULE Scripts ------------------------------
(***************************************************************************)
(* What scripts do with the record store: src/js/runtime.rs finds and runs *)
(* their handlers, src/js/ops.rs lets them write and look up records while *)
(* they run, and Store::apply_ops applies the operations they return.      *)
(*                                                                         *)
(* A worker is a task that has a script run, waits for it (module JsPool)  *)
(* and applies what it returns; a reader is a script that only looks up.   *)
(* Of the values of JavaScript only the operations are kept.  A query runs *)
(* inside the script that asks for it and returns no operations: what it   *)
(* writes is among the writes of that script.                              *)
(***************************************************************************)
EXTENDS Store, SequencesExt

CONSTANTS
    Kinds,    \* the invocations that happen, of AllKinds
    Batches,  \* what handlers return: sequences of Op and Malformed
    Malformed,\* an entry parse_store_ops refuses
    NoValue,  \* an upsert without a value
    Readers,  \* scripts that look up
    Ranges,   \* the sets of index keys between a start and an end
    Limits,   \* limits of a range lookup, 0 for none
    NoLookup  \* the reader is between two lookups

AllKinds == {"route", "ingest", "cron", "lifecycle"}

(* A script has no handler, declares it, or assigns it to globalThis.      *)
Styles == {"none", "declared", "global"}

(* Whether the schema has the entity type that an operation names, and     *)
(* whether the collections take its push or remove_item.                   *)
Op == [op : {"upsert"}, known : BOOLEAN, key : Keys, val : Values \cup {NoValue}]
      \cup [op : {"delete"}, known : BOOLEAN, key : Keys]
      \cup [op : {"push", "remove_item"}, fine : BOOLEAN]

(* Locals of a lookup: its limit, the keys it has still to read, those of  *)
(* the records it has; and history, see NoteLookups.                       *)
Lookup == [limit : Limits, todo : SUBSET Keys, got : SUBSET Keys,
           calm : BOOLEAN, steady : SUBSET Keys]

ASSUME ScriptAssumption ==
    /\ IsFiniteSet(Keys)
    /\ Kinds \subseteq AllKinds
    /\ Batches \subseteq Seq(Op \cup {Malformed})
    /\ NoValue \notin Values
    /\ NoRecord \notin Values
    /\ Ranges \subseteq SUBSET Fields
    /\ Limits \subseteq Nat
    /\ NoLookup \notin Lookup

VARIABLES
    script,  \* [Workers -> the invocation the worker is in]
    look     \* [Readers -> the lookup the reader is in, or NoLookup]

scriptVars == <<vars, script, look>>

Idle == [at |-> "idle", kind |-> "none", style |-> "none",
         ops |-> <<>>, next |-> 1, base |-> <<>>]

(* Where the task of a script is, the operations it applies and the next of*)
(* them, and, for BatchIsPrefix, the records the batch has found.          *)
Invocation ==
    [at : {"idle", "body", "handler", "applying", "stopped"},
     kind : AllKinds \cup {"none"}, style : Styles, ops : Seq(Op), next : Nat,
     base : [Keys -> Values \cup {NoRecord}] \cup {<<>>}]

ScriptInit ==
    /\ Init
    /\ script = [t \in Workers |-> Idle]
    /\ look = [r \in Readers |-> NoLookup]

Payloads == [k \in Keys |-> IF entities[k] = NoRecord THEN NoRecord ELSE entities[k].val]
AllQuiet == \A t \in Threads : pc[t] = "idle"

-----------------------------------------------------------------------------
(* execute_*_handler *)

At(t, step) == script[t].at = step /\ pc[t] = "idle"
Become(t, step) == script' = [script EXCEPT ![t].at = step]
Leave(t) == script' = [script EXCEPT ![t] = Idle]

(* load_script wraps the source in a function: a handler it declares is    *)
(* seen there, and nowhere else.  The others are looked up from outside.   *)
Found(kind, style) ==
    \/ style = "global"
    \/ style = "declared" /\ kind \in {"route", "ingest"}

Invoke(t, kind, style) ==
    /\ At(t, "idle")
    /\ script' = [script EXCEPT ![t] =
                    [Idle EXCEPT !.at = "body", !.kind = kind, !.style = style]]
    /\ UNCHANGED vars

CallHandler(t) ==
    /\ At(t, "body")
    /\ Found(script[t].kind, script[t].style)
    /\ script' = [script EXCEPT ![t].at = "handler", ![t].style = "none"]
    /\ UNCHANGED vars

(* No operations, or an error: the store does not see the difference.      *)
NoHandler(t) ==
    /\ At(t, "body")
    /\ ~Found(script[t].kind, script[t].style)
    /\ Leave(t)
    /\ UNCHANGED vars

(* The script throws, or its result is no list of operations: what it has  *)
(* written stays.                                                          *)
Throw(t) ==
    /\ At(t, "body") \/ At(t, "handler")
    /\ Leave(t)
    /\ UNCHANGED vars

(* A route's result is the response; what the handler has written stays.   *)
Respond(t) ==
    /\ At(t, "handler")
    /\ script[t].kind = "route"
    /\ Leave(t)
    /\ UNCHANGED vars

(* One entry that cannot be parsed spoils the batch.                       *)
Parsed(batch) == IF Malformed \in ToSet(batch) THEN <<>> ELSE batch

ReturnBatch(t, batch) ==
    /\ At(t, "handler")
    /\ script[t].kind \in {"ingest", "cron", "lifecycle"}
    /\ script' = [script EXCEPT ![t].at = "applying", ![t].kind = "none",
                                ![t].ops = Parsed(batch), ![t].base = Payloads]
    /\ UNCHANGED vars

(* op_store_upsert, op_store_delete: at once, in the middle of the script. *)
Direct(t) ==
    /\ At(t, "body") \/ At(t, "handler")
    /\ \/ \E k \in Keys, v \in Values : BeginUpsert(t, k, v)
       \/ \E k \in Keys : BeginDelete(t, k)
    /\ UNCHANGED script

-----------------------------------------------------------------------------
(* Store::apply_ops *)

Current(t) == script[t].ops[script[t].next]
Applying(t) == At(t, "applying") /\ script[t].next <= Len(script[t].ops)

TooLarge(v) == MaxEntityBytes > 0 /\ Size[v] > MaxEntityBytes

(* An entity type that is not in the schema is refused, also for a delete; *)
(* an upsert without a value is passed over whatever it names.             *)
Refused(o) ==
    \/ o.op = "upsert" /\ o.val # NoValue /\ (~o.known \/ TooLarge(o.val))
    \/ o.op = "delete" /\ ~o.known
    \/ o.op \in {"push", "remove_item"} /\ ~o.fine

HasNoEffect(o) ==
    \/ o.op = "upsert" /\ o.val = NoValue
    \/ o.op = "delete" /\ o.known /\ entities[o.key] = NoRecord
    \/ o.op \in {"push", "remove_item"} /\ o.fine

NextOp(t) == script' = [script EXCEPT ![t].next = @ + 1]

ApplyUpsert(t) ==
    /\ Applying(t)
    /\ Current(t).op = "upsert" /\ Current(t).val # NoValue
    /\ Current(t).known
    /\ BeginUpsert(t, Current(t).key, Current(t).val)
    /\ NextOp(t)

ApplyDelete(t) ==
    /\ Applying(t)
    /\ Current(t).op = "delete" /\ Current(t).known
    /\ BeginDelete(t, Current(t).key)
    /\ NextOp(t)

SkipOp(t) ==
    /\ Applying(t)
    /\ HasNoEffect(Current(t))
    /\ NextOp(t)
    /\ UNCHANGED vars

\* Mutant: the batch goes on behind an operation that was refused.
RefusedGoesOn(t) ==
    /\ Applying(t)
    /\ Refused(Current(t))
    /\ NextOp(t)
    /\ UNCHANGED vars

RefuseOp(t) ==
    /\ Applying(t)
    /\ Refused(Current(t))
    /\ Become(t, "stopped")
    /\ UNCHANGED vars

(* The upsert under way was refused: it ends the batch of apply_ops, and   *)
(* throws in a script, which may catch it.                                 *)
OverBudgetStops(t) ==
    script' = IF script[t].at = "applying"
              THEN [script EXCEPT ![t].at = "stopped", ![t].next = @ - 1]
              ELSE script

OpStep(t) ==
    \/ RejectOverBudget(t) /\ OverBudgetStops(t)
    \/ Continue(t) /\ ~RejectOverBudget(t) /\ UNCHANGED script

EndBatch(t) ==
    /\ \/ At(t, "applying") /\ script[t].next > Len(script[t].ops)
       \/ At(t, "stopped")
    /\ Leave(t)
    /\ UNCHANGED vars

-----------------------------------------------------------------------------
(* Store::range_lookup_entities: the keys are read under the lock of the   *)
(* tree and cut at the limit; then the records are read one by one.        *)

\* Mutant: the last of the index keys is left out of the range.
ListedExclusive(i, range) ==
    IF range = {} THEN {} ELSE UNION {index[i][f] : f \in range \ {CHOOSE f \in range : TRUE}}

ListedIn(i, range) == UNION {index[i][f] : f \in range}

\* Mutant: the limit is looked at before a key is added.
CutsLate(keys, limit) ==
    IF limit = 0 \/ Cardinality(keys) <= limit + 1 THEN {keys}
    ELSE {c \in SUBSET keys : Cardinality(c) = limit + 1}

(* Which keys a limit leaves is the order of the tree, not modelled.       *)
Cuts(keys, limit) ==
    IF limit = 0 \/ Cardinality(keys) <= limit THEN {keys}
    ELSE {c \in SUBSET keys : Cardinality(c) = limit}

Matches(i, range) == {k \in Keys : Field(i, entities[k]) \in range}

BeginLookup(r, i, range, limit) ==
    /\ look[r] = NoLookup
    /\ Kind[i] = "sorted"
    /\ \E keys \in Cuts(ListedIn(i, range), limit) :
          look' = [look EXCEPT ![r] =
                     [limit |-> limit, todo |-> keys, got |-> {},
                      calm |-> AllQuiet /\ raced = {},
                      steady |-> {k \in Matches(i, range) \ raced : Quiet(k)}]]
    /\ UNCHANGED <<vars, script>>

ReadRecord(r) ==
    /\ look[r] # NoLookup
    /\ \E k \in look[r].todo :
          look' = [look EXCEPT ![r].todo = @ \ {k},
                     ![r].got = IF entities[k] = NoRecord THEN @ ELSE @ \cup {k}]
    /\ UNCHANGED <<vars, script>>

EndLookup(r) ==
    /\ look[r] # NoLookup
    /\ look[r].todo = {}
    /\ look' = [look EXCEPT ![r] = NoLookup]
    /\ UNCHANGED <<vars, script>>

(* History of the lookups, from the state a step of a worker leads to: the *)
(* records untouched since the start, and whether there was any operation. *)
NoteLookups ==
    look' = [r \in Readers |->
               IF look[r] = NoLookup THEN NoLookup
               ELSE [look[r] EXCEPT !.steady = {k \in @ : Quiet(k)'},
                                    !.calm = @ /\ AllQuiet']]

-----------------------------------------------------------------------------

ScriptStep(t) ==
    \/ \E kind \in Kinds, style \in Styles : Invoke(t, kind, style)
    \/ CallHandler(t) \/ NoHandler(t) \/ Throw(t) \/ Respond(t)
    \/ \E batch \in Batches : ReturnBatch(t, batch)
    \/ SkipOp(t) \/ RefuseOp(t) \/ EndBatch(t)

StoreStep(t) == Direct(t) \/ ApplyUpsert(t) \/ ApplyDelete(t) \/ OpStep(t)

LookupStep(r) ==
    \/ \E i \in Indexes, range \in Ranges, limit \in Limits : BeginLookup(r, i, range, limit)
    \/ ReadRecord(r) \/ EndLookup(r)

ScriptNext ==
    \/ \E t \in Workers :
          \/ ScriptStep(t) /\ UNCHANGED look
          \/ StoreStep(t) /\ NoteRaces /\ NoteLookups
    \/ \E r \in Readers : LookupStep(r)

ScriptSpec == ScriptInit /\ [][ScriptNext]_scriptVars

-----------------------------------------------------------------------------
(* What an operation that succeeds does to the records, and what they are  *)
(* after the first n operations of a batch, if all of those succeed.       *)
Effect(o, recs) ==
    IF o.op = "upsert" /\ o.val # NoValue THEN [recs EXCEPT ![o.key] = o.val]
    ELSE IF o.op = "delete" THEN [recs EXCEPT ![o.key] = NoRecord]
    ELSE recs

Outcome(base, ops, n) ==
    LET after[m \in 0..Len(ops)] == IF m = 0 THEN base ELSE Effect(ops[m], after[m - 1])
    IN after[n]

(* Between two operations of a batch, and when it ends or is stopped, the  *)
(* records of a single writer are those before the batch changed by a      *)
(* prefix of it, which ends in front of the operation that was refused,    *)
(* whatever the script itself has written before.                          *)
BatchIsPrefix ==
    \A t \in Workers : At(t, "applying") \/ At(t, "stopped") =>
        Payloads = Outcome(script[t].base, script[t].ops, script[t].next - 1)

(* A lookup that has read the last of its records.                         *)
LookupDone(r) == look[r] # NoLookup /\ look[r].todo = {}

(* A range lookup without a limit returns every record that matched when it*)
(* began and that no operation has touched since, however many others      *)
(* change between the read of the index and the reads of the records.      *)
LookupFindsSteady ==
    \A r \in Readers : LookupDone(r) /\ look[r].limit = 0 => look[r].steady \subseteq look[r].got

(* With a limit, a range lookup that no operation overlaps with, on a store*)
(* where none have overlapped, returns as many of the matching records as  *)
(* there are, up to the limit: no index entry without a record uses it up. *)
LookupFillsLimit ==
    \A r \in Readers : LookupDone(r) /\ look[r].limit > 0 /\ look[r].calm =>
        LET count == Cardinality(look[r].steady) IN
        Cardinality(look[r].got) = IF count < look[r].limit THEN count ELSE look[r].limit

-----------------------------------------------------------------------------
Abstract == INSTANCE RecordStore WITH recs <- Payloads, Absent <- NoRecord

(* With one writer the six steps of an upsert and the four of a delete     *)
(* amount to one atomic write each, and the hard limit bounds the records  *)
(* themselves, not just the counter.                                       *)
ImplementsRecordStore == Abstract!Spec

(* With one writer, between operations memory_bytes is the total size of   *)
(* the live records: replacing and deleting give back what was charged.    *)
MemoryTracksRecords == AllQuiet => mem = Abstract!Weight(Payloads)

=============================================================================
