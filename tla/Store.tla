-------------------------------- MODULE Store --------------------------------
(***************************************************************************)
(* The record store of src/store/mod.rs: primary records, secondary        *)
(* indexes, tombstones and the memory counter.                             *)
(*                                                                         *)
(* Every operation takes several steps, because each map is locked on its  *)
(* own: one action below is one access to one shared structure.  The       *)
(* steps of different threads interleave freely.  Workers run the ops of   *)
(* Store::apply_ops, the sweeper runs Store::sweep_retention.              *)
(*                                                                         *)
(* A key stands for an (entity type, key) pair and a value for a JSON      *)
(* payload; all a value is used for is its size and the index key each     *)
(* index extracts from it.                                                 *)
(***************************************************************************)
EXTENDS Integers, FiniteSets

CONSTANTS
    Keys,            \* keys of the entity type
    Values,          \* payloads
    Fields,          \* index keys, the results of index_value_to_key
    NoField,         \* index_value_to_key returned None: the field is absent
    NumIndexes,      \* number of indexes of the entity type, in schema order
    Kind,            \* Kind[i]: "hash" (also membership) or "sorted"
    FieldOf,         \* FieldOf[i][v]: index key of payload v in index i
    Size,            \* Size[v]: estimate_entity_size of a record holding v
    MaxBytes,        \* hard memory limit, 0 for none
    MaxEntityBytes,  \* max_entity_bytes, 0 for none
    Ttl,             \* retention.ttl_seconds, or Never
    TombstoneTtl,    \* tombstone_ttl_seconds
    Never,           \* a record without expires_at_ms
    NoRecord,        \* the key is absent from the primary map
    NoTombstone,     \* the key has no tombstone
    NoCall,          \* locals of a thread between two operations
    Word,            \* the memory counter is a usize: arithmetic modulo Word
    MaxTime,         \* bound of the clock
    Workers,         \* threads that apply ops
    WorkerOps,       \* which of "upsert", "delete" the workers apply
    Sweepers         \* the retention task: one thread, or none

Indexes == 1..NumIndexes
Threads == Workers \cup Sweepers
Times == 0..MaxTime

Record == [val : Values, expires : Nat \cup {Never}]
MaybeRecord == Record \cup {NoRecord}

(* Locals of upsert and delete: the record being written, the one it       *)
(* replaces or removes, the projected counter and the loop position.       *)
Call == [op : {"upsert", "delete"}, key : Keys, rec : MaybeRecord,
         prev : MaybeRecord, proj : 0..Word-1, pos : 1..NumIndexes+1]

Phases == {"sleep", "scan", "evict", "tombscan", "reap"}
Sweep == [phase : Phases, at : Times, todo : SUBSET Keys, victims : SUBSET Keys]

Steps == {"idle", "budget", "unindex", "prune", "hung", "insert", "index",
          "mem", "bury"}

ASSUME StoreAssumption ==
    /\ NumIndexes \in Nat
    /\ Kind \in [Indexes -> {"hash", "sorted"}]
    /\ NoField \notin Fields
    /\ FieldOf \in [Indexes -> [Values -> Fields \cup {NoField}]]
    /\ Word \in Nat \ {0}
    /\ Size \in [Values -> 0..Word-1]
    /\ MaxBytes \in 0..Word-1
    /\ MaxEntityBytes \in Nat
    /\ MaxTime \in Nat
    /\ Never \notin Nat
    /\ Ttl \in Nat \cup {Never}
    /\ TombstoneTtl \in Nat
    /\ NoRecord \notin Record
    /\ NoTombstone \notin Nat
    /\ NoCall \notin Call
    /\ WorkerOps \subseteq {"upsert", "delete"}
    /\ Workers \cap Sweepers = {}

VARIABLES
    entities,    \* [Keys -> MaybeRecord], the primary map
    index,       \* index[i][f]: the keys index i lists under index key f
    tombstones,  \* [Keys -> deletion time or NoTombstone]
    mem,         \* memory_bytes
    clock,       \* now_millis()
    pc,          \* next step of each thread's operation
    call,        \* locals of each thread's operation
    sweep,       \* state of the retention task
    raced,       \* history: keys on which two operations have overlapped
    delraced     \* history: keys on which a delete has overlapped another one

data == <<entities, index, tombstones, mem>>
vars == <<entities, index, tombstones, mem, clock, pc, call, sweep, raced, delraced>>

Init ==
    /\ entities = [k \in Keys |-> NoRecord]
    /\ index = [i \in Indexes |-> [f \in Fields |-> {}]]
    /\ tombstones = [k \in Keys |-> NoTombstone]
    /\ mem = 0
    /\ clock = 0
    /\ pc = [t \in Threads |-> "idle"]
    /\ call = [t \in Threads |-> NoCall]
    /\ sweep = [s \in Sweepers |->
                  [phase |-> "sleep", at |-> 0, todo |-> {}, victims |-> {}]]
    /\ raced = {}
    /\ delraced = {}

-----------------------------------------------------------------------------
(* usize arithmetic *)

SatSub(a, b) == IF a >= b THEN a - b ELSE 0
SatAdd(a, b) == IF a + b < Word THEN a + b ELSE Word - 1
\* Mutant: plain subtraction.
PlainSub(a, b) == a - b

WrapSub(a, b) == IF a >= b THEN a - b ELSE Word + a - b   \* fetch_sub wraps

SizeOf(r) == IF r = NoRecord THEN 0 ELSE Size[r.val]
Field(i, r) == IF r = NoRecord THEN NoField ELSE FieldOf[i][r.val]

Goto(t, step) == pc' = [pc EXCEPT ![t] = step]
Return(t) ==
    /\ pc' = [pc EXCEPT ![t] = "idle"]
    /\ call' = [call EXCEPT ![t] = NoCall]

-----------------------------------------------------------------------------
(* Store::upsert *)

(* Unknown types and oversized payloads are refused before the store is    *)
(* touched.  The first access clones the current record.                   *)
BeginUpsert(t, k, v) ==
    /\ t \in Workers
    /\ "upsert" \in WorkerOps
    /\ pc[t] = "idle"
    /\ MaxEntityBytes = 0 \/ Size[v] <= MaxEntityBytes
    /\ call' = [call EXCEPT ![t] =
                  [op |-> "upsert", key |-> k, rec |-> [val |-> v, expires |-> Never],
                   prev |-> entities[k], proj |-> 0, pos |-> 1]]
    /\ Goto(t, "budget")
    /\ UNCHANGED <<data, clock, sweep>>

\* Mutant: the replaced record stays charged.
ProjectedOnTop(t) == SatAdd(mem, SizeOf(call[t].rec))

Projected(t) == SatAdd(SatSub(mem, SizeOf(call[t].prev)), SizeOf(call[t].rec))
\* Mutant: the limit is compared with the usage before the write.
OverBudgetBefore(t) == MaxBytes > 0 /\ mem > MaxBytes

OverBudget(t) == MaxBytes > 0 /\ Projected(t) > MaxBytes

RejectOverBudget(t) ==
    /\ pc[t] = "budget"
    /\ OverBudget(t)
    /\ Return(t)
    /\ UNCHANGED <<data, clock, sweep>>

\* Mutant: an upsert leaves the entries of the record it replaces.
KeepOldEntries(r) == NumIndexes + 1

FirstUnindex(r) == IF r = NoRecord THEN NumIndexes + 1 ELSE 1

AcceptBudget(t) ==
    /\ pc[t] = "budget"
    /\ ~OverBudget(t)
    /\ call' = [call EXCEPT ![t].proj = Projected(t),
                            ![t].pos = FirstUnindex(call[t].prev)]
    /\ Goto(t, "unindex")
    /\ UNCHANGED <<data, clock, sweep>>

Expiry == IF Ttl = Never THEN Never ELSE clock + Ttl

Stamp(t) ==
    /\ pc[t] = "unindex"
    /\ call[t].pos > NumIndexes
    /\ call[t].op = "upsert"
    /\ call' = [call EXCEPT ![t].rec = [val |-> call[t].rec.val, expires |-> Expiry]]
    /\ Goto(t, "insert")
    /\ UNCHANGED <<data, clock, sweep>>

Insert(t) ==
    /\ pc[t] = "insert"
    /\ entities' = [entities EXCEPT ![call[t].key] = call[t].rec]
    /\ call' = [call EXCEPT ![t].pos = 1]
    /\ Goto(t, "index")
    /\ UNCHANGED <<index, tombstones, mem, clock, sweep>>

RemoveTombstone(t) ==
    /\ pc[t] = "index"
    /\ call[t].pos > NumIndexes
    /\ tombstones' = [tombstones EXCEPT ![call[t].key] = NoTombstone]
    /\ Goto(t, "mem")
    /\ UNCHANGED <<entities, index, mem, clock, call, sweep>>

StoreMemory(t) ==
    /\ pc[t] = "mem"
    /\ mem' = call[t].proj
    /\ Return(t)
    /\ UNCHANGED <<entities, index, tombstones, clock, sweep>>

-----------------------------------------------------------------------------
(* remove_from_indexes and add_to_indexes, one index at a time *)

\* Mutant: the whole set goes, not the key alone.
DropSet(i, f, k) == [index EXCEPT ![i][f] = {}]

Unlisted(i, f, k) == [index EXCEPT ![i][f] = @ \ {k}]
Listed(i, f, k) == [index EXCEPT ![i][f] = @ \cup {k}]

Advance(t) == call' = [call EXCEPT ![t].pos = @ + 1]

(* A thread between removing its key from a set of a hash index and the    *)
(* end of that block holds the shard of the index and the shard of the set.*)
Holds(t, i) == pc[t] \in {"prune", "hung"} /\ call[t].pos = i

SkipUnindex(t) ==
    LET i == call[t].pos IN
    /\ pc[t] = "unindex"
    /\ i \in Indexes
    /\ Field(i, call[t].prev) = NoField
    /\ Advance(t)
    /\ UNCHANGED <<data, clock, pc, sweep>>

\* Mutant: the sorted branch locks like the hash branch.
UnindexSortedNested(t) ==
    LET i == call[t].pos
        f == Field(i, call[t].prev) IN
    /\ pc[t] = "unindex"
    /\ i \in Indexes
    /\ Kind[i] = "sorted"
    /\ f # NoField
    /\ index' = Unlisted(i, f, call[t].key)
    /\ Goto(t, "prune")
    /\ UNCHANGED <<entities, tombstones, mem, clock, call, sweep>>

UnindexSorted(t) ==
    LET i == call[t].pos
        f == Field(i, call[t].prev) IN
    /\ pc[t] = "unindex"
    /\ i \in Indexes
    /\ Kind[i] = "sorted"
    /\ f # NoField
    /\ index' = Unlisted(i, f, call[t].key)
    /\ Advance(t)
    /\ UNCHANGED <<entities, tombstones, mem, clock, pc, sweep>>

(* The set of a field is present when it lists a key or when some thread   *)
(* is stuck on removing it.                                                *)
SetPresent(i, f) ==
    \/ index[i][f] # {}
    \/ \E u \in Threads : Holds(u, i) /\ Field(i, call[u].prev) = f

UnindexHash(t) ==
    LET i == call[t].pos
        f == Field(i, call[t].prev) IN
    /\ pc[t] = "unindex"
    /\ i \in Indexes
    /\ Kind[i] = "hash"
    /\ f # NoField
    /\ index' = Unlisted(i, f, call[t].key)
    /\ IF SetPresent(i, f)
       THEN Goto(t, "prune") /\ UNCHANGED call
       ELSE Advance(t) /\ UNCHANGED pc
    /\ UNCHANGED <<entities, tombstones, mem, clock, sweep>>

(* `values.remove(&field_key)` needs the write lock of the shard whose     *)
(* read guard the thread still holds: the call never returns.              *)
HangOnEmptySet(t) ==
    LET i == call[t].pos IN
    /\ pc[t] = "prune"
    /\ index[i][Field(i, call[t].prev)] = {}
    /\ Goto(t, "hung")
    /\ UNCHANGED <<data, clock, call, sweep>>

LeaveNonEmptySet(t) ==
    LET i == call[t].pos IN
    /\ pc[t] = "prune"
    /\ index[i][Field(i, call[t].prev)] # {}
    /\ Advance(t)
    /\ Goto(t, "unindex")
    /\ UNCHANGED <<data, clock, sweep>>

SkipIndex(t) ==
    LET i == call[t].pos IN
    /\ pc[t] = "index"
    /\ i \in Indexes
    /\ Field(i, call[t].rec) = NoField
    /\ Advance(t)
    /\ UNCHANGED <<data, clock, pc, sweep>>

(* entry() takes the write lock of the index: not while anyone holds it.   *)
AddIndex(t) ==
    LET i == call[t].pos
        f == Field(i, call[t].rec) IN
    /\ pc[t] = "index"
    /\ i \in Indexes
    /\ f # NoField
    /\ \A u \in Threads : ~Holds(u, i)
    /\ index' = Listed(i, f, call[t].key)
    /\ Advance(t)
    /\ UNCHANGED <<entities, tombstones, mem, clock, pc, sweep>>

-----------------------------------------------------------------------------
(* Store::delete *)

(* The record leaves the primary map in one step; with no record there is  *)
(* nothing else to do.                                                     *)
Take(t, k) ==
    /\ entities[k] # NoRecord
    /\ entities' = [entities EXCEPT ![k] = NoRecord]
    /\ call' = [call EXCEPT ![t] =
                  [op |-> "delete", key |-> k, rec |-> NoRecord,
                   prev |-> entities[k], proj |-> 0, pos |-> 1]]
    /\ Goto(t, "unindex")
    /\ UNCHANGED <<index, tombstones, mem, clock>>

BeginDelete(t, k) ==
    /\ t \in Workers
    /\ "delete" \in WorkerOps
    /\ pc[t] = "idle"
    /\ Take(t, k)
    /\ UNCHANGED sweep

Account(t) ==
    /\ pc[t] = "unindex"
    /\ call[t].pos > NumIndexes
    /\ call[t].op = "delete"
    /\ mem' = WrapSub(mem, SizeOf(call[t].prev))
    /\ Goto(t, "bury")
    /\ UNCHANGED <<entities, index, tombstones, clock, call, sweep>>

Bury(t) ==
    /\ pc[t] = "bury"
    /\ tombstones' = [tombstones EXCEPT ![call[t].key] = clock]
    /\ Return(t)
    /\ UNCHANGED <<entities, index, mem, clock, sweep>>

-----------------------------------------------------------------------------
(* Store::sweep_retention, run by the task of retention.rs *)

BeginSweep(s) ==
    /\ sweep[s].phase = "sleep"
    /\ sweep' = [sweep EXCEPT ![s] =
                   [phase |-> "scan", at |-> clock, todo |-> Keys, victims |-> {}]]
    /\ UNCHANGED <<data, clock, pc, call>>

\* Mutant: a record is kept in the millisecond in which it expires.
ExpiredLate(k, now) ==
    entities[k] # NoRecord /\ entities[k].expires # Never /\ entities[k].expires < now

Expired(k, now) ==
    entities[k] # NoRecord /\ entities[k].expires # Never /\ entities[k].expires <= now

(* The iteration visits the records one by one, in no particular order.    *)
ScanRecord(s, k) ==
    /\ sweep[s].phase = "scan"
    /\ k \in sweep[s].todo
    /\ sweep' = [sweep EXCEPT ![s].todo = @ \ {k},
                   ![s].victims = IF Expired(k, sweep[s].at) THEN @ \cup {k} ELSE @]
    /\ UNCHANGED <<data, clock, pc, call>>

ScanEnd(s) ==
    /\ sweep[s].phase = "scan"
    /\ sweep[s].todo = {}
    /\ sweep' = [sweep EXCEPT ![s].phase = "evict"]
    /\ UNCHANGED <<data, clock, pc, call>>

(* delete() of a collected key, whatever record it holds by now.           *)
Evict(s, k) ==
    /\ sweep[s].phase = "evict"
    /\ pc[s] = "idle"
    /\ k \in sweep[s].victims
    /\ Take(s, k)
    /\ sweep' = [sweep EXCEPT ![s].victims = @ \ {k}]

EvictMissing(s, k) ==
    /\ sweep[s].phase = "evict"
    /\ pc[s] = "idle"
    /\ k \in sweep[s].victims
    /\ entities[k] = NoRecord
    /\ sweep' = [sweep EXCEPT ![s].victims = @ \ {k}]
    /\ UNCHANGED <<data, clock, pc, call>>

EvictEnd(s) ==
    /\ sweep[s].phase = "evict"
    /\ pc[s] = "idle"
    /\ sweep[s].victims = {}
    /\ sweep' = [sweep EXCEPT ![s].phase = "tombscan", ![s].todo = Keys]
    /\ UNCHANGED <<data, clock, pc, call>>

\* Mutant: the operands of the age are swapped.
OutdatedSwapped(k, now) ==
    /\ tombstones[k] # NoTombstone
    /\ TombstoneTtl = 0 \/ SatSub(tombstones[k], now) > TombstoneTtl

Outdated(k, now) ==
    /\ tombstones[k] # NoTombstone
    /\ TombstoneTtl = 0 \/ SatSub(now, tombstones[k]) > TombstoneTtl

ScanTombstone(s, k) ==
    /\ sweep[s].phase = "tombscan"
    /\ k \in sweep[s].todo
    /\ sweep' = [sweep EXCEPT ![s].todo = @ \ {k},
                   ![s].victims = IF Outdated(k, sweep[s].at) THEN @ \cup {k} ELSE @]
    /\ UNCHANGED <<data, clock, pc, call>>

TombscanEnd(s) ==
    /\ sweep[s].phase = "tombscan"
    /\ sweep[s].todo = {}
    /\ sweep' = [sweep EXCEPT ![s].phase = "reap"]
    /\ UNCHANGED <<data, clock, pc, call>>

Reap(s, k) ==
    /\ sweep[s].phase = "reap"
    /\ k \in sweep[s].victims
    /\ tombstones' = [tombstones EXCEPT ![k] = NoTombstone]
    /\ sweep' = [sweep EXCEPT ![s].victims = @ \ {k}]
    /\ UNCHANGED <<entities, index, mem, clock, pc, call>>

SweepEnd(s) ==
    /\ sweep[s].phase = "reap"
    /\ sweep[s].victims = {}
    /\ sweep' = [sweep EXCEPT ![s].phase = "sleep", ![s].at = 0]
    /\ UNCHANGED <<data, clock, pc, call>>

-----------------------------------------------------------------------------

Tick ==
    /\ clock < MaxTime
    /\ clock' = clock + 1
    /\ UNCHANGED <<data, pc, call, sweep>>

(* The steps of an operation a thread has begun.                           *)
Continue(t) ==
    \/ RejectOverBudget(t) \/ AcceptBudget(t) \/ Stamp(t) \/ Insert(t)
    \/ SkipUnindex(t) \/ UnindexSorted(t) \/ UnindexHash(t)
    \/ HangOnEmptySet(t) \/ LeaveNonEmptySet(t)
    \/ SkipIndex(t) \/ AddIndex(t) \/ RemoveTombstone(t) \/ StoreMemory(t)
    \/ Account(t) \/ Bury(t)

SweepStep(s) ==
    \/ BeginSweep(s)
    \/ \E k \in Keys : ScanRecord(s, k)
    \/ ScanEnd(s)
    \/ \E k \in Keys : Evict(s, k)
    \/ \E k \in Keys : EvictMissing(s, k)
    \/ EvictEnd(s)
    \/ \E k \in Keys : ScanTombstone(s, k)
    \/ TombscanEnd(s)
    \/ \E k \in Keys : Reap(s, k)
    \/ SweepEnd(s)

(* History of overlaps, from the state the step leads to.                  *)
Active(t, k) == pc[t] # "idle" /\ call[t].key = k
Overlap(k) == \E t, u \in Threads : t # u /\ Active(t, k) /\ Active(u, k)
DeleteOverlap(k) ==
    \E t, u \in Threads :
        t # u /\ Active(t, k) /\ Active(u, k) /\ call[t].op = "delete"

NoteRaces ==
    /\ raced' = raced \cup {k \in Keys : Overlap(k)'}
    /\ delraced' = delraced \cup {k \in Keys : DeleteOverlap(k)'}

Next ==
    /\ \/ \E t \in Workers, k \in Keys, v \in Values : BeginUpsert(t, k, v)
       \/ \E t \in Workers, k \in Keys : BeginDelete(t, k)
       \/ \E t \in Threads : Continue(t)
       \/ \E s \in Sweepers : SweepStep(s)
       \/ Tick
    /\ NoteRaces

Spec == Init /\ [][Next]_vars

(* A thread that has begun an operation is run until it finishes it, and   *)
(* the ticker of the retention task keeps firing.                          *)
FairSpec ==
    /\ Spec
    /\ \A t \in Threads : WF_vars(Continue(t) /\ NoteRaces)
    /\ \A s \in Sweepers : WF_vars(SweepStep(s) /\ NoteRaces)

-----------------------------------------------------------------------------
(* Every variable has its type; a thread inside an operation has locals.   *)
TypeOK ==
    /\ entities \in [Keys -> MaybeRecord]
    /\ index \in [Indexes -> [Fields -> SUBSET Keys]]
    /\ tombstones \in [Keys -> Nat \cup {NoTombstone}]
    /\ mem \in 0..Word-1
    /\ clock \in Times
    /\ pc \in [Threads -> Steps]
    /\ call \in [Threads -> Call \cup {NoCall}]
    /\ \A t \in Threads : pc[t] # "idle" => call[t] \in Call
    /\ sweep \in [Sweepers -> Sweep]
    /\ raced \in SUBSET Keys
    /\ delraced \in SUBSET Keys

Quiet(k) == \A t \in Threads : ~Active(t, k)

(* Index i lists key k under exactly the field of record r.                *)
Shows(i, k, r) == \A f \in Fields : k \in index[i][f] <=> Field(i, r) = f

(* upsert and delete keep every secondary index, and the tombstone map, in *)
(* step with the primary map: between operations a key is listed exactly   *)
(* where its record says, and a live record has no tombstone.  Holds for   *)
(* each key on which operations have never overlapped, whatever happens to *)
(* the other keys at the same time.                                        *)
IndexExact ==
    \A k \in Keys : k \notin raced /\ Quiet(k) =>
        /\ \A i \in Indexes : Shows(i, k, entities[k])
        /\ entities[k] = NoRecord \/ tombstones[k] = NoTombstone

(* A thread that never gets out of remove_from_indexes again: it removes   *)
(* the empty set, or is about to.                                          *)
Stuck(t) ==
    \/ pc[t] = "hung"
    \/ /\ pc[t] = "prune"
       /\ index[call[t].pos][Field(call[t].pos, call[t].prev)] = {}

(* Thread t is in an upsert that has still to list key k in index i.       *)
WillList(t, k, i) ==
    /\ Active(t, k)
    /\ call[t].op = "upsert"
    /\ ~Stuck(t)
    /\ \/ pc[t] \in {"unindex", "prune", "insert"}
       \/ /\ pc[t] = "index"
          /\ call[t].pos <= i
          /\ entities[k].val = call[t].rec.val

(* However upserts of one key interleave, a lookup never loses a live      *)
(* record: its entry is there, or an upsert that has still to add it is on *)
(* its way.  Two exclusions.  Overlapping deletes do lose the entry.  And  *)
(* an operation stuck in a hash index never returns: it has taken the      *)
(* entry of its own key, and the index it holds keeps others from adding   *)
(* theirs.  So while any thread is stuck, this speaks only of the keys no  *)
(* operation is working on.  With sorted indexes nothing is ever stuck.    *)
IndexComplete ==
    \A k \in Keys, i \in Indexes :
        /\ k \notin delraced
        /\ Field(i, entities[k]) # NoField
        /\ Quiet(k) \/ \A t \in Threads : ~Stuck(t)
        => \/ k \in index[i][Field(i, entities[k])]
           \/ \E t \in Threads : WillList(t, k, i)

=============================================================================
