--------------------------- MODULE CollectionStore ---------------------------
(***************************************************************************)
(* One collection of src/store/collection.rs: a map from partition keys to *)
(* deques of items, oldest first, and the memory counter of the store.     *)
(*                                                                         *)
(* A deque is changed under the guard of its map entry, so each change of  *)
(* one partition is one action.  What an operation does outside the guard  *)
(* is an action of its own: stamping an item before it is pushed, dropping *)
(* partitions that were seen empty, charging the memory counter.           *)
(***************************************************************************)
EXTENDS Integers, FiniteSets, SequencesExt

CONSTANTS
    Partitions,       \* partition keys
    Ids,              \* item ids, none of them blank
    Values,           \* payloads
    OrderBy,          \* TRUE if the collection has an order_by field
    OrderOf,          \* OrderOf[v]: the number in that field of v, or NoField
    NoField,          \* the field is absent or no number
    Size,             \* Size[v]: estimate_item_size of an item holding v
    MaxPerPartition,  \* max_per_partition, or Unbounded
    Unbounded,
    Ttl,              \* retention.ttl_seconds, or Never
    Never,
    NoPartition,      \* the partition key is absent from the map
    NoCall,           \* locals of a thread between two operations
    Limits,           \* limit_per_partition of the scans, 0 for no limit
    MaxTime,          \* bound of the clock
    MaxPushes,        \* bound of the number of pushes
    LastPush,         \* bound of the time at which a push may begin
    Workers,          \* threads that apply ops and run scripts
    WorkerOps,        \* which of "push", "remove", "trim" they call
    TrimAges,         \* max_age_seconds of the trims that scripts call
    Sweepers,         \* the retention task: one thread, or none
    Readers           \* threads that call multi_scan

Threads == Workers \cup Sweepers
Times == 0..MaxTime

Dates == Times \cup ({OrderOf[v] : v \in Values} \ {NoField})
Item == [id : Ids, val : Values, created : Dates]

ASSUME CollectionAssumption ==
    /\ IsFiniteSet(Partitions)
    /\ IsFiniteSet(Workers) /\ IsFiniteSet(Sweepers)
    /\ OrderBy \in BOOLEAN
    /\ OrderOf \in [Values -> Nat \cup {NoField}]
    /\ NoField \notin Nat
    /\ Size \in [Values -> Nat]
    /\ MaxPerPartition \in (Nat \ {0}) \cup {Unbounded}
    /\ Unbounded \notin Nat
    /\ Ttl \in Nat \cup {Never}
    /\ Never \notin Nat
    /\ NoPartition \notin Seq(Item)
    /\ Limits \subseteq Nat
    /\ MaxTime \in Nat
    /\ MaxPushes \in Nat
    /\ LastPush \in Times
    /\ TrimAges \subseteq Nat
    /\ WorkerOps \subseteq {"push", "remove", "trim"}
    /\ Workers \cap Sweepers = {}

PushCall == [part : Partitions, item : Item]
(* Locals of remove and trim: the partitions still to visit and those seen *)
(* empty, the bytes removed so far.                                        *)
CutCall == [now : Times, age : Nat, todo : SUBSET Partitions,
            empties : SUBSET Partitions, freed : Nat]

VARIABLES
    parts,   \* [Partitions -> Seq(Item) or NoPartition]
    mem,     \* memory_bytes
    clock,   \* now_millis()
    pc,      \* next step of each thread's operation
    call,    \* locals of each thread's operation
    scan,    \* state of each reader
    steady,  \* history: what a reader's scan could see during all of it
    pushes   \* number of pushes so far, for the bound

vars == <<parts, mem, clock, pc, call, scan, steady, pushes>>

Idle == [phase |-> "idle", todo |-> <<>>, limit |-> 0, got |-> <<>>]

Init ==
    /\ parts = [p \in Partitions |-> NoPartition]
    /\ mem = 0
    /\ clock = 0
    /\ pc = [t \in Threads |-> "idle"]
    /\ call = [t \in Threads |-> NoCall]
    /\ scan = [r \in Readers |-> Idle]
    /\ steady = [r \in Readers |-> {}]
    /\ pushes = 0

-----------------------------------------------------------------------------
(* Deques *)

Items(p) == IF parts[p] = NoPartition THEN <<>> ELSE parts[p]

BytesOf(s) == SumFunction([i \in DOMAIN s |-> Size[s[i].val]])

Sorted(s) == \A i, j \in DOMAIN s : i < j => s[i].created <= s[j].created

\* Mutant: a push into an ordered collection appends, without sorting.
Unsorted(s) == {s}

(* The sort is unstable: items of equal created_at_ms may come out in any  *)
(* order.                                                                  *)
Orderings(s) == IF OrderBy THEN {o \in SetToSeqs(ToSet(s)) : Sorted(o)} ELSE {s}

LastOf(s, n) == IF Len(s) <= n THEN s ELSE SubSeq(s, Len(s) - n + 1, Len(s))

\* Mutant: the newest items are popped instead of the oldest.
CappedAtBack(s) ==
    IF MaxPerPartition = Unbounded \/ Len(s) <= MaxPerPartition
    THEN s ELSE SubSeq(s, 1, MaxPerPartition)

Capped(s) == IF MaxPerPartition = Unbounded THEN s ELSE LastOf(s, MaxPerPartition)

(* What a scan with this limit reads of a partition, newest first.         *)
Newest(s, limit) == Reverse(IF limit = 0 THEN s ELSE LastOf(s, limit))

CreatedAt(v) == IF OrderBy /\ OrderOf[v] # NoField THEN OrderOf[v] ELSE clock

SatSub(a, b) == IF a >= b THEN a - b ELSE 0

\* Mutant: all removed bytes are subtracted, the added ones forgotten.
GrossDelta(added, removed) ==
    IF added >= removed THEN mem + (added - removed) ELSE SatSub(mem, removed)

(* apply_memory_delta *)
MemAfter(added, removed) ==
    IF added >= removed THEN mem + (added - removed) ELSE SatSub(mem, removed - added)

Goto(t, step) == pc' = [pc EXCEPT ![t] = step]
Return(t) ==
    /\ pc' = [pc EXCEPT ![t] = "idle"]
    /\ call' = [call EXCEPT ![t] = NoCall]

-----------------------------------------------------------------------------
(* CollectionStore::push *)

(* created_at_ms is read before the partition entry is locked.             *)
BeginPush(t, p, i, v) ==
    /\ t \in Workers
    /\ "push" \in WorkerOps
    /\ pc[t] = "idle"
    /\ pushes < MaxPushes
    /\ clock <= LastPush
    /\ pushes' = pushes + 1
    /\ call' = [call EXCEPT ![t] =
                  [part |-> p, item |-> [id |-> i, val |-> v, created |-> CreatedAt(v)]]]
    /\ Goto(t, "push")
    /\ UNCHANGED <<parts, mem, clock, scan>>

\* Mutant: an item of the same id is not looked for.
PushedTwice(s, it) == {Capped(o) : o \in Orderings(Append(s, it))}

(* An item of the same id is replaced; the oldest items beyond             *)
(* max_per_partition go, which may be the one just pushed.                 *)
Pushed(s, it) ==
    {Capped(o) : o \in Orderings(Append(RemoveFirstMatch(s, LAMBDA x : x.id = it.id), it))}

Push(t) ==
    /\ pc[t] = "push"
    /\ LET p == call[t].part
           it == call[t].item
           added == Size[it.val]
       IN \E s \in Pushed(Items(p), it) :
            /\ parts' = [parts EXCEPT ![p] = s]
            /\ mem' = MemAfter(added, BytesOf(Items(p)) + added - BytesOf(s))
    /\ Return(t)
    /\ UNCHANGED <<clock, scan, pushes>>

-----------------------------------------------------------------------------
(* CollectionStore::remove *)

Without(s, i) == RemoveFirstMatch(s, LAMBDA x : x.id = i)

(* The item leaves its deque under the guard, which is then released.      *)
RemoveItem(t, p, i) ==
    /\ t \in Workers
    /\ "remove" \in WorkerOps
    /\ pc[t] = "idle"
    /\ parts[p] # NoPartition
    /\ LET kept == Without(parts[p], i)
       IN /\ parts' = [parts EXCEPT ![p] = kept]
          /\ call' = [call EXCEPT ![t] =
                        [now |-> clock, age |-> 0, todo |-> {},
                         empties |-> IF kept = <<>> THEN {p} ELSE {},
                         freed |-> BytesOf(parts[p]) - BytesOf(kept)]]
    /\ Goto(t, "drop")
    /\ UNCHANGED <<mem, clock, scan, pushes>>

(* A partition that was seen empty is taken out of the map, with whatever  *)
(* has been pushed into it since.                                          *)
Drop(t, p) ==
    /\ pc[t] = "drop"
    /\ p \in call[t].empties
    /\ parts' = [parts EXCEPT ![p] = NoPartition]
    /\ call' = [call EXCEPT ![t].empties = @ \ {p}]
    /\ UNCHANGED <<mem, clock, pc, scan, pushes>>

\* Mutant: the call returns before the empty partitions are dropped.
DischargeFirst(t) ==
    /\ pc[t] = "drop"
    /\ mem' = MemAfter(0, call[t].freed)
    /\ Return(t)
    /\ UNCHANGED <<parts, clock, scan, pushes>>

Discharge(t) ==
    /\ pc[t] = "drop"
    /\ call[t].empties = {}
    /\ mem' = MemAfter(0, call[t].freed)
    /\ Return(t)
    /\ UNCHANGED <<parts, clock, scan, pushes>>

-----------------------------------------------------------------------------
(* CollectionStore::trim_collection *)

BeginTrim(t, age) ==
    /\ pc[t] = "idle"
    /\ call' = [call EXCEPT ![t] = [now |-> clock, age |-> age, todo |-> Partitions,
                                    empties |-> {}, freed |-> 0]]
    /\ Goto(t, "trim")
    /\ UNCHANGED <<parts, mem, clock, scan, pushes>>

(* A script trims with an age of its own, the retention task through       *)
(* trim_expired with the schema's ttl, if it has one.                      *)
ScriptTrim(t, age) == t \in Workers /\ "trim" \in WorkerOps /\ BeginTrim(t, age)
SweeperTrim(t) == t \in Sweepers /\ Ttl # Never /\ BeginTrim(t, Ttl)

Old(it, now, age) == SatSub(now, it.created) > age

\* Mutant: at most one item is popped.
TrimmedOnce(s, now, age) ==
    IF s = <<>> \/ (age # 0 /\ ~Old(Head(s), now, age)) THEN s ELSE Tail(s)

(* Pops from the front while the front is too old; age 0 clears the deque. *)
Trimmed(s, now, age) ==
    LET keep == {i \in DOMAIN s : age # 0 /\ ~Old(s[i], now, age)}
    IN IF keep = {} THEN <<>> ELSE SubSeq(s, Min(keep), Len(s))

(* The iterator visits the partitions in any order.                        *)
TrimPartition(t, p) ==
    /\ pc[t] = "trim"
    /\ p \in call[t].todo
    /\ LET c == call[t]
           kept == Trimmed(parts[p], c.now, c.age)
           rest == [c EXCEPT !.todo = @ \ {p}]
       IN IF parts[p] = NoPartition
          THEN call' = [call EXCEPT ![t] = rest] /\ UNCHANGED parts
          ELSE /\ parts' = [parts EXCEPT ![p] = kept]
               /\ call' = [call EXCEPT ![t] =
                    [rest EXCEPT !.freed = @ + BytesOf(parts[p]) - BytesOf(kept),
                                 !.empties = @ \cup IF kept = <<>> THEN {p} ELSE {}]]
    /\ Goto(t, IF call[t].todo = {p} THEN "drop" ELSE "trim")
    /\ UNCHANGED <<mem, clock, scan, pushes>>

-----------------------------------------------------------------------------
(* CollectionStore::multi_scan *)

BeginScan(r, keys, limit) ==
    /\ scan[r].phase \in {"idle", "done"}
    /\ scan' = [scan EXCEPT ![r] =
                  [phase |-> "read", todo |-> keys, limit |-> limit, got |-> <<>>]]
    /\ UNCHANGED <<parts, mem, clock, pc, call, pushes>>

\* Mutant: a partition that does not exist ends the scan.
StopAtAbsent(r) ==
    /\ scan[r].phase = "read"
    /\ scan[r].todo # <<>>
    /\ LET p == Head(scan[r].todo)
       IN scan' = [scan EXCEPT ![r].todo = IF parts[p] = NoPartition THEN <<>> ELSE Tail(@),
                               ![r].got = @ \o Newest(Items(p), scan[r].limit)]
    /\ UNCHANGED <<parts, mem, clock, pc, call, pushes>>

ReadPartition(r) ==
    /\ scan[r].phase = "read"
    /\ scan[r].todo # <<>>
    /\ scan' = [scan EXCEPT ![r].todo = Tail(@),
                            ![r].got = @ \o Newest(Items(Head(scan[r].todo)), scan[r].limit)]
    /\ UNCHANGED <<parts, mem, clock, pc, call, pushes>>

(* The items of all partitions are merged, newest first.                   *)
FinishScan(r) ==
    /\ scan[r].phase = "read"
    /\ scan[r].todo = <<>>
    /\ \E o \in {o \in SetToSeqs(DOMAIN scan[r].got) :
                   Sorted(Reverse([n \in DOMAIN o |-> scan[r].got[o[n]]]))} :
         scan' = [scan EXCEPT ![r].phase = "done",
                              ![r].got = [n \in DOMAIN o |-> @[o[n]]]]
    /\ UNCHANGED <<parts, mem, clock, pc, call, pushes>>

-----------------------------------------------------------------------------

Tick ==
    /\ clock < MaxTime
    /\ clock' = clock + 1
    /\ UNCHANGED <<parts, mem, pc, call, scan, pushes>>

Continue(t) ==
    \/ Push(t)
    \/ \E p \in Partitions : TrimPartition(t, p) \/ Drop(t, p)
    \/ Discharge(t)

(* History of what the scans under way could have seen at any moment: the  *)
(* newest items, as many as the limit, of the partitions asked for.        *)
Visible(sc, keys) ==
    UNION {{p} \X ToSet(Newest(Items(p), sc.limit)) : p \in keys}

NoteSteady ==
    steady' = [r \in Readers |->
        CASE scan'[r].phase = "idle" -> {}
          [] scan[r].phase # "read" /\ scan'[r].phase = "read" ->
               Visible(scan[r], ToSet(scan[r].todo))'
          [] scan[r].phase = "read" /\ scan'[r].phase = "read" ->
               steady[r] \cap (Visible(scan[r], Partitions)')
          [] OTHER -> steady[r]]

Next ==
    /\ \/ \E t \in Workers, p \in Partitions, i \in Ids, v \in Values : BeginPush(t, p, i, v)
       \/ \E t \in Workers, p \in Partitions, i \in Ids : RemoveItem(t, p, i)
       \/ \E t \in Workers, age \in TrimAges : ScriptTrim(t, age)
       \/ \E t \in Sweepers : SweeperTrim(t)
       \/ \E t \in Threads : Continue(t)
       \/ \E r \in Readers, keys \in SetToSeqs(Partitions), limit \in Limits :
            BeginScan(r, keys, limit)
       \/ \E r \in Readers : ReadPartition(r) \/ FinishScan(r)
       \/ Tick
    /\ NoteSteady

Spec == Init /\ [][Next]_vars

(* Time passes, a thread finishes the operation it has begun, and the      *)
(* ticker of the retention task keeps firing.                              *)
FairSpec ==
    /\ Spec
    /\ WF_vars(Tick /\ NoteSteady)
    /\ \A t \in Threads : WF_vars(Continue(t) /\ NoteSteady)
    /\ \A s \in Sweepers : WF_vars(SweeperTrim(s) /\ NoteSteady)

-----------------------------------------------------------------------------
(* Every variable has its type.                                            *)
TypeOK ==
    /\ \A p \in Partitions : parts[p] = NoPartition \/ parts[p] \in Seq(Item)
    /\ DOMAIN parts = Partitions
    /\ mem \in Nat
    /\ clock \in Times
    /\ pc \in [Threads -> {"idle", "push", "trim", "drop"}]
    /\ \A t \in Threads :
         CASE pc[t] = "idle" -> call[t] = NoCall
           [] pc[t] = "push" -> call[t] \in PushCall
           [] OTHER -> call[t] \in CutCall
    /\ \A r \in Readers : scan[r].phase \in {"idle", "read", "done"}
    /\ pushes \in 0..MaxPushes

(* push and trim keep every deque as the readers and the trim rely on it,  *)
(* however the calls interleave: an id at most once, no more items than    *)
(* max_per_partition and, with order_by, oldest first.                     *)
WellFormed ==
    \A p \in Partitions :
        /\ \A a, b \in DOMAIN Items(p) : a # b => Items(p)[a].id # Items(p)[b].id
        /\ MaxPerPartition # Unbounded => Len(Items(p)) <= MaxPerPartition
        /\ OrderBy => Sorted(Items(p))

LiveBytes == SumFunction([p \in Partitions |-> BytesOf(Items(p))])
Cutting(t) == pc[t] \in {"trim", "drop"}
PendingBytes == SumFunction([t \in Threads |-> IF Cutting(t) THEN call[t].freed ELSE 0])

(* memory_bytes never falls below the bytes of the live items and of those *)
(* removed but not discharged yet, so apply_memory_delta never saturates.  *)
MemoryCovers == mem >= LiveBytes + PendingBytes

(* With one caller, between operations memory_bytes is the total size of   *)
(* the live items, so it falls back to zero when retention has trimmed     *)
(* them all.                                                               *)
MemoryTracksItems == (\A t \in Threads : pc[t] = "idle") => mem = LiveBytes

(* Calling remove or trim for one item costs no other item: a call that    *)
(* drops the partition it saw empty takes no item with it.                 *)
DropTakesNoItem ==
    [][\A t \in Threads, p \in Partitions : Drop(t, p) => Items(p) = <<>>]_vars

(* remove and trim leave no empty partition behind: while one exists, a    *)
(* call that saw it empty has still to drop it.                            *)
EmptyPartitionIsDropped ==
    \A p \in Partitions : parts[p] = <<>> =>
        \E t \in Threads : Cutting(t) /\ p \in call[t].empties

(* multi_scan locks one partition after the other, yet it misses no item   *)
(* that was among the newest of its partition during the whole scan.       *)
ScanSeesSteady ==
    \A r \in Readers : scan[r].phase = "done" =>
        \A x \in steady[r] : x[2] \in ToSet(scan[r].got)

(* With order_by, a push that overflows the partition gives up the oldest  *)
(* items, never one that is newer than an item it keeps.                   *)
PushKeepsNewest ==
    [][\A t \in Threads, p \in Partitions : OrderBy /\ Push(t) /\ p = call[t].part =>
         LET known == (ToSet(Items(p)) \cup {call[t].item})
                        \ {it \in ToSet(Items(p)) : it.id = call[t].item.id /\ it # call[t].item}
             kept == ToSet(Items(p)')
         IN \A gone \in known \ kept, it \in kept : gone.created <= it.created]_vars

(* With order_by, trimming a partition removes exactly the items that are  *)
(* too old, though it stops at the first one that is not.                  *)
TrimExact ==
    [][\A t \in Threads, p \in Partitions :
         OrderBy /\ TrimPartition(t, p) /\ call[t].age # 0 =>
            ToSet(Items(p)') =
                {it \in ToSet(Items(p)) : ~Old(it, call[t].now, call[t].age)}]_vars

Abstract == INSTANCE BoundedLog WITH
    log <- [p \in Partitions |-> ToSet(Items(p))],
    Capacity <- MaxPerPartition

(* Called by one thread at a time, push, remove and trim of a collection   *)
(* with order_by amount to atomic operations on sets of the newest items.  *)
ImplementsBoundedLog == Abstract!Spec

=============================================================================
