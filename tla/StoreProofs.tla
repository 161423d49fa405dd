----------------------------- MODULE StoreProofs -----------------------------
(***************************************************************************)
(* Proofs about Store for every value of its constants: type correctness,  *)
(* IndexExact and IndexComplete.                                           *)
(***************************************************************************)
EXTENDS Store, TLAPS

-----------------------------------------------------------------------------
(* Type correctness.  TypeOK needs one addition to be inductive: the       *)
(* locals of an operation fit its kind and its next step.                  *)

Fits(c, p) ==
    /\ c \in Call
    /\ c.op = "upsert" => c.rec \in Record /\ p # "bury"
    /\ c.op = "delete" => c.rec = NoRecord /\ p \in {"unindex", "prune", "hung", "bury"}
    /\ p \in {"prune", "hung"} => c.pos \in Indexes

DataOK ==
    /\ entities \in [Keys -> MaybeRecord]
    /\ index \in [Indexes -> [Fields -> SUBSET Keys]]
    /\ tombstones \in [Keys -> Nat \cup {NoTombstone}]
    /\ mem \in 0..Word-1
    /\ clock \in Times

LocalsOK ==
    /\ pc \in [Threads -> Steps]
    /\ call \in [Threads -> Call \cup {NoCall}]
    /\ \A t \in Threads : pc[t] # "idle" => Fits(call[t], pc[t])

SweepOK == sweep \in [Sweepers -> Sweep]

TypeInv == DataOK /\ LocalsOK /\ SweepOK /\ raced \in SUBSET Keys /\ delraced \in SUBSET Keys

LEMMA TypeInvImplies == TypeInv => TypeOK
BY DEF TypeInv, DataOK, LocalsOK, SweepOK, TypeOK, Fits

LEMMA SizeType ==
    ASSUME NEW r \in MaybeRecord
    PROVE  SizeOf(r) \in 0..Word-1
BY StoreAssumption DEF SizeOf, MaybeRecord, Record

LEMMA ArithmeticType ==
    ASSUME NEW a \in 0..Word-1, NEW b \in 0..Word-1
    PROVE  /\ SatSub(a, b) \in 0..Word-1
           /\ SatAdd(a, b) \in 0..Word-1
           /\ WrapSub(a, b) \in 0..Word-1
BY StoreAssumption DEF SatSub, SatAdd, WrapSub

LEMMA TypeInit == Init => TypeInv
<1> SUFFICES ASSUME Init PROVE TypeInv
    OBVIOUS
<1>1. DataOK
    BY StoreAssumption DEF Init, DataOK, MaybeRecord, Times
<1>2. LocalsOK
    BY DEF Init, LocalsOK, Steps
<1>3. SweepOK
    BY StoreAssumption DEF Init, SweepOK, Sweep, Phases, Times
<1> QED BY <1>1, <1>2, <1>3 DEF TypeInv, Init

(* A step that changes the locals of one thread only, to well-formed ones. *)
LEMMA LocalStep ==
    ASSUME LocalsOK, NEW t \in Threads, NEW c, NEW p \in Steps \ {"idle"},
           Fits(c, p),
           pc' = [pc EXCEPT ![t] = p],
           call' = [call EXCEPT ![t] = c]
    PROVE  LocalsOK'
<1>1. pc' \in [Threads -> Steps] /\ call' \in [Threads -> Call \cup {NoCall}]
    BY DEF LocalsOK, Fits
<1>2. ASSUME NEW u \in Threads, pc'[u] # "idle" PROVE Fits(call'[u], pc'[u])
    <2>1. CASE u = t
        BY <2>1 DEF LocalsOK
    <2>2. CASE u # t
        BY <1>2, <2>2 DEF LocalsOK
    <2> QED BY <2>1, <2>2
<1> QED BY <1>1, <1>2 DEF LocalsOK

LEMMA ReturnStep ==
    ASSUME LocalsOK, NEW t \in Threads, Return(t)
    PROVE  LocalsOK'
BY DEF LocalsOK, Return, Steps

(* Moving the loop position alone.                                         *)
LEMMA FitsPos ==
    ASSUME NEW c, NEW p, Fits(c, p), p \in {"unindex", "prune", "insert", "index"},
           NEW n \in 1..NumIndexes+1, NEW q \in {"unindex", "index"},
           c.op = "delete" => q = "unindex"
    PROVE  Fits([c EXCEPT !.pos = n], q)
BY DEF Fits, Call

LEMMA FitsAccepted ==
    ASSUME NEW c, Fits(c, "budget"), NEW m \in 0..Word-1, NEW n \in 1..NumIndexes+1
    PROVE  Fits([c EXCEPT !.proj = m, !.pos = n], "unindex")
BY DEF Fits, Call

LEMMA PosStep ==
    ASSUME LocalsOK, NEW t \in Threads, pc[t] \in {"unindex", "prune", "index"},
           call[t].pos \in Indexes, NEW q \in {"unindex", "index"},
           pc[t] = "index" <=> q = "index",
           pc' = [pc EXCEPT ![t] = q],
           Advance(t)
    PROVE  LocalsOK'
<1> DEFINE c == [call[t] EXCEPT !.pos = call[t].pos + 1]
<1>1. Fits(call[t], pc[t])
    BY DEF LocalsOK
<1>2. call[t].pos + 1 \in 1..NumIndexes+1
    BY StoreAssumption DEF Indexes
<1>3. call[t].op = "delete" => q = "unindex"
    BY <1>1 DEF Fits
<1>4. Fits(c, q)
    BY <1>1, <1>2, <1>3, FitsPos
<1>5. call' = [call EXCEPT ![t] = c]
    BY DEF Advance
<1> QED BY <1>4, <1>5, LocalStep DEF Steps

LEMMA SamePc ==
    ASSUME LocalsOK, NEW t \in Threads, UNCHANGED pc
    PROVE  pc' = [pc EXCEPT ![t] = pc[t]]
BY DEF LocalsOK

LEMMA UpsertLocals ==
    ASSUME TypeInv, NEW t \in Threads,
           \/ \E k \in Keys, v \in Values : BeginUpsert(t, k, v)
           \/ RejectOverBudget(t) \/ AcceptBudget(t) \/ Stamp(t) \/ Insert(t)
           \/ RemoveTombstone(t) \/ StoreMemory(t)
    PROVE  LocalsOK'
<1> USE StoreAssumption
<1>0. LocalsOK /\ (pc[t] # "idle" => Fits(call[t], pc[t]))
    BY DEF TypeInv, LocalsOK
<1>1. CASE \E k \in Keys, v \in Values : BeginUpsert(t, k, v)
    <2>1. PICK k \in Keys, v \in Values : BeginUpsert(t, k, v)
        BY <1>1
    <2> DEFINE c == [op |-> "upsert", key |-> k, rec |-> [val |-> v, expires |-> Never],
                     prev |-> entities[k], proj |-> 0, pos |-> 1]
    <2>2. Fits(c, "budget")
        BY DEF Fits, Call, TypeInv, DataOK, MaybeRecord, Record
    <2> QED BY <1>0, <2>1, <2>2, LocalStep DEF BeginUpsert, Goto, Steps
<1>2. CASE RejectOverBudget(t)
    BY <1>0, <1>2, ReturnStep DEF RejectOverBudget
<1>3. CASE AcceptBudget(t)
    <2> DEFINE n == FirstUnindex(call[t].prev)
               c == [call[t] EXCEPT !.proj = Projected(t), !.pos = n]
    <2>1. Projected(t) \in 0..Word-1
        BY <1>0, <1>3, SizeType, ArithmeticType
        DEF AcceptBudget, Projected, TypeInv, DataOK, Fits, Call
    <2>2. n \in 1..NumIndexes+1
        BY DEF FirstUnindex
    <2>3. Fits(call[t], "budget")
        BY <1>0, <1>3 DEF AcceptBudget
    <2>4. Fits(c, "unindex")
        BY <2>1, <2>2, <2>3, FitsAccepted
    <2>5. call' = [call EXCEPT ![t] = c]
        BY <1>0, <1>3 DEF AcceptBudget, LocalsOK
    <2> QED BY <1>0, <1>3, <2>4, <2>5, LocalStep DEF AcceptBudget, Goto, Steps
<1>4. CASE Stamp(t)
    <2> DEFINE r == [val |-> call[t].rec.val, expires |-> Expiry]
               c == [call[t] EXCEPT !.rec = r]
    <2>1. Fits(call[t], pc[t]) /\ call[t].op = "upsert"
        BY <1>0, <1>4 DEF Stamp
    <2>2. r \in Record
        BY <2>1 DEF Fits, Record, Expiry, TypeInv, DataOK, Times
    <2>3. Fits(c, "insert")
        BY <2>1, <2>2 DEF Fits, Call, MaybeRecord
    <2>4. call' = [call EXCEPT ![t] = c]
        BY <1>4 DEF Stamp
    <2> QED BY <1>0, <1>4, <2>3, <2>4, LocalStep DEF Stamp, Goto, Steps
<1>5. CASE Insert(t)
    <2> DEFINE c == [call[t] EXCEPT !.pos = 1]
    <2>1. Fits(call[t], pc[t]) /\ pc[t] = "insert"
        BY <1>0, <1>5 DEF Insert
    <2>2. Fits(c, "index")
        <3>1. 1 \in 1..NumIndexes+1 /\ call[t].op # "delete"
            BY <2>1 DEF Fits
        <3> QED BY <2>1, <3>1, FitsPos
    <2>3. call' = [call EXCEPT ![t] = c]
        BY <1>5 DEF Insert
    <2> QED BY <1>0, <1>5, <2>2, <2>3, LocalStep DEF Insert, Goto, Steps
<1>6. CASE RemoveTombstone(t)
    <2>1. Fits(call[t], "mem")
        BY <1>0, <1>6 DEF RemoveTombstone, Fits
    <2>2. call' = [call EXCEPT ![t] = call[t]]
        BY <1>0, <1>6 DEF RemoveTombstone, LocalsOK
    <2> QED BY <1>0, <1>6, <2>1, <2>2, LocalStep DEF RemoveTombstone, Goto, Steps
<1>7. CASE StoreMemory(t)
    BY <1>0, <1>7, ReturnStep DEF StoreMemory
<1> QED BY <1>1, <1>2, <1>3, <1>4, <1>5, <1>6, <1>7

LEMMA IndexLocals ==
    ASSUME TypeInv, NEW t \in Threads,
           \/ SkipUnindex(t) \/ UnindexSorted(t) \/ UnindexHash(t)
           \/ HangOnEmptySet(t) \/ LeaveNonEmptySet(t)
           \/ SkipIndex(t) \/ AddIndex(t)
    PROVE  LocalsOK'
<1> USE StoreAssumption
<1>0. LocalsOK /\ (pc[t] # "idle" => Fits(call[t], pc[t]))
    BY DEF TypeInv, LocalsOK
<1>1. CASE SkipUnindex(t)
    BY <1>0, <1>1, SamePc, PosStep DEF SkipUnindex
<1>2. CASE UnindexSorted(t)
    BY <1>0, <1>2, SamePc, PosStep DEF UnindexSorted
<1>3. CASE UnindexHash(t)
    <2>1. CASE UNCHANGED call
        <3>1. pc' = [pc EXCEPT ![t] = "prune"] \/ UNCHANGED pc
            BY <1>3 DEF UnindexHash, Goto
        <3>2. Fits(call[t], "prune")
            BY <1>0, <1>3 DEF UnindexHash, Fits
        <3>3. call' = [call EXCEPT ![t] = call[t]]
            BY <1>0, <2>1 DEF LocalsOK
        <3> QED BY <1>0, <2>1, <3>1, <3>2, <3>3, LocalStep DEF Steps, LocalsOK
    <2>2. CASE Advance(t) /\ UNCHANGED pc
        BY <1>0, <1>3, <2>2, SamePc, PosStep DEF UnindexHash
    <2> QED BY <1>3, <2>1, <2>2 DEF UnindexHash
<1>4. CASE HangOnEmptySet(t)
    <2>1. Fits(call[t], "hung")
        BY <1>0, <1>4 DEF HangOnEmptySet, Fits
    <2>2. call' = [call EXCEPT ![t] = call[t]]
        BY <1>0, <1>4 DEF HangOnEmptySet, LocalsOK
    <2> QED BY <1>0, <1>4, <2>1, <2>2, LocalStep DEF HangOnEmptySet, Goto, Steps
<1>5. CASE LeaveNonEmptySet(t)
    <2>1. call[t].pos \in Indexes
        BY <1>0, <1>5 DEF LeaveNonEmptySet, Fits
    <2> QED BY <1>0, <1>5, <2>1, PosStep DEF LeaveNonEmptySet, Goto
<1>6. CASE SkipIndex(t)
    BY <1>0, <1>6, SamePc, PosStep DEF SkipIndex
<1>7. CASE AddIndex(t)
    BY <1>0, <1>7, SamePc, PosStep DEF AddIndex
<1> QED BY <1>1, <1>2, <1>3, <1>4, <1>5, <1>6, <1>7

LEMMA TakeLocals ==
    ASSUME TypeInv, NEW t \in Threads, NEW k \in Keys, Take(t, k)
    PROVE  LocalsOK'
<1> DEFINE c == [op |-> "delete", key |-> k, rec |-> NoRecord,
                 prev |-> entities[k], proj |-> 0, pos |-> 1]
<1>1. Fits(c, "unindex")
    BY StoreAssumption DEF Fits, Call, TypeInv, DataOK, MaybeRecord
<1> QED BY <1>1, LocalStep DEF Take, Goto, Steps, TypeInv

LEMMA AccountLocals ==
    ASSUME TypeInv, NEW t \in Threads, Account(t)
    PROVE  LocalsOK'
<1>1. LocalsOK /\ Fits(call[t], pc[t]) /\ call[t].op = "delete"
    BY DEF TypeInv, LocalsOK, Account
<1>2. Fits(call[t], "bury")
    BY <1>1 DEF Account, Fits
<1>3. call' = [call EXCEPT ![t] = call[t]]
    BY <1>1 DEF Account, LocalsOK
<1> QED BY <1>1, <1>2, <1>3, LocalStep DEF Account, Goto, Steps

LEMMA ListedType ==
    ASSUME DataOK, NEW i, NEW f, NEW k \in Keys
    PROVE  Listed(i, f, k) \in [Indexes -> [Fields -> SUBSET Keys]]
<1> DEFINE row == [index[i] EXCEPT ![f] = @ \cup {k}]
<1>1. CASE i \in Indexes
    <2>0. index[i] \in [Fields -> SUBSET Keys]
        BY <1>1 DEF DataOK
    <2>1. row \in [Fields -> SUBSET Keys]
        BY <2>0
    <2> QED BY <1>1, <2>1 DEF DataOK, Listed
<1>2. CASE i \notin Indexes
    BY <1>2 DEF DataOK, Listed
<1> QED BY <1>1, <1>2

LEMMA ContinueData ==
    ASSUME TypeInv, NEW t \in Threads, Continue(t)
    PROVE  DataOK'
<1> USE DEF TypeInv, DataOK, data
<1>0. pc[t] # "idle" => Fits(call[t], pc[t])
    BY DEF LocalsOK
<1>1. CASE Insert(t)
    <2>1. call[t].key \in Keys /\ call[t].rec \in MaybeRecord
        BY <1>0, <1>1 DEF Insert, Fits, Call
    <2> QED BY <1>1, <2>1 DEF Insert
<1>2. CASE RemoveTombstone(t)
    BY <1>2 DEF RemoveTombstone
<1>3. CASE StoreMemory(t)
    <2>1. call[t].proj \in 0..Word-1
        BY <1>0, <1>3 DEF StoreMemory, Fits, Call
    <2> QED BY <1>3, <2>1 DEF StoreMemory
<1>4. CASE UnindexSorted(t)
    BY <1>4 DEF UnindexSorted, Unlisted
<1>5. CASE UnindexHash(t)
    BY <1>5 DEF UnindexHash, Unlisted
<1>6. CASE AddIndex(t)
    <2>1. call[t].key \in Keys
        BY <1>0, <1>6 DEF AddIndex, Fits, Call
    <2>2. UNCHANGED <<entities, tombstones, mem, clock>>
        BY <1>6 DEF AddIndex
    <2>3. index' = Listed(call[t].pos, Field(call[t].pos, call[t].rec), call[t].key)
        BY <1>6 DEF AddIndex
    <2> QED BY <2>1, <2>2, <2>3, ListedType
<1>7. CASE Account(t)
    <2>1. SizeOf(call[t].prev) \in 0..Word-1
        BY <1>0, <1>7, SizeType DEF Account, Fits, Call
    <2> QED BY <1>7, <2>1, ArithmeticType DEF Account
<1>8. CASE Bury(t)
    <2>1. clock \in Nat
        BY StoreAssumption DEF Times
    <2>2. /\ tombstones' = [tombstones EXCEPT ![call[t].key] = clock]
          /\ UNCHANGED <<entities, index, mem, clock>>
        BY <1>8 DEF Bury
    <2> QED BY <2>1, <2>2
<1>9. CASE UNCHANGED <<data, clock>>
    BY <1>9
<1> QED
    BY <1>1, <1>2, <1>3, <1>4, <1>5, <1>6, <1>7, <1>8, <1>9
    DEF Continue, RejectOverBudget, AcceptBudget, Stamp, SkipUnindex,
        HangOnEmptySet, LeaveNonEmptySet, SkipIndex

LEMMA ContinueSweep ==
    ASSUME NEW t \in Threads, Continue(t)
    PROVE  UNCHANGED sweep
BY DEF Continue, RejectOverBudget, AcceptBudget, Stamp, Insert, SkipUnindex,
       UnindexSorted, UnindexHash, HangOnEmptySet, LeaveNonEmptySet, SkipIndex,
       AddIndex, RemoveTombstone, StoreMemory, Account, Bury

LEMMA ContinueTypes ==
    ASSUME TypeInv, NEW t \in Threads, Continue(t)
    PROVE  DataOK' /\ LocalsOK' /\ SweepOK'
<1>1. LocalsOK'
    <2>1. CASE Bury(t)
        BY <2>1, ReturnStep DEF Bury, TypeInv
    <2> QED BY <2>1, UpsertLocals, IndexLocals, AccountLocals DEF Continue
<1> QED BY <1>1, ContinueData, ContinueSweep DEF TypeInv, SweepOK

LEMMA TakeData ==
    ASSUME TypeInv, NEW t \in Threads, NEW k \in Keys, Take(t, k)
    PROVE  DataOK'
BY DEF Take, TypeInv, DataOK, MaybeRecord

LEMMA BeginTypes ==
    ASSUME TypeInv, NEW t \in Workers, NEW k \in Keys,
           BeginDelete(t, k) \/ \E v \in Values : BeginUpsert(t, k, v)
    PROVE  DataOK' /\ LocalsOK' /\ SweepOK'
<1> USE DEF Threads
<1>1. CASE BeginDelete(t, k)
    BY <1>1, TakeData, TakeLocals DEF BeginDelete, TypeInv, SweepOK
<1>2. CASE \E v \in Values : BeginUpsert(t, k, v)
    <2>1. LocalsOK'
        BY <1>2, UpsertLocals
    <2>2. UNCHANGED <<data, clock, sweep>>
        BY <1>2 DEF BeginUpsert
    <2> QED BY <2>1, <2>2 DEF data, TypeInv, DataOK, SweepOK
<1> QED BY <1>1, <1>2

LEMMA SweepFields ==
    ASSUME SweepOK, NEW s \in Sweepers, NEW p \in Phases, NEW a \in Times,
           NEW todo \in SUBSET Keys, NEW victims \in SUBSET Keys,
           \/ sweep' = [sweep EXCEPT ![s].todo = todo, ![s].victims = victims]
           \/ sweep' = [sweep EXCEPT ![s].phase = p, ![s].todo = todo]
           \/ sweep' = [sweep EXCEPT ![s].phase = p, ![s].at = a]
           \/ sweep' = [sweep EXCEPT ![s].victims = victims]
    PROVE  SweepOK'
<1>1. ASSUME NEW w \in Sweep, sweep' = [sweep EXCEPT ![s] = w]
      PROVE  SweepOK'
    BY <1>1 DEF SweepOK
<1>2. sweep[s] \in Sweep
    BY DEF SweepOK
<1>3. CASE sweep' = [sweep EXCEPT ![s].todo = todo, ![s].victims = victims]
    <2> DEFINE w == [sweep[s] EXCEPT !.todo = todo, !.victims = victims]
    <2>1. w \in Sweep
        BY <1>2 DEF Sweep
    <2>2. sweep' = [sweep EXCEPT ![s] = w]
        BY <1>3 DEF SweepOK
    <2> QED BY <2>1, <2>2, <1>1
<1>4. CASE sweep' = [sweep EXCEPT ![s].phase = p, ![s].todo = todo]
    <2> DEFINE w == [sweep[s] EXCEPT !.phase = p, !.todo = todo]
    <2>1. w \in Sweep
        BY <1>2 DEF Sweep
    <2>2. sweep' = [sweep EXCEPT ![s] = w]
        BY <1>4 DEF SweepOK
    <2> QED BY <2>1, <2>2, <1>1
<1>5. CASE sweep' = [sweep EXCEPT ![s].phase = p, ![s].at = a]
    <2> DEFINE w == [sweep[s] EXCEPT !.phase = p, !.at = a]
    <2>1. w \in Sweep
        BY <1>2 DEF Sweep
    <2>2. sweep' = [sweep EXCEPT ![s] = w]
        BY <1>5 DEF SweepOK
    <2> QED BY <2>1, <2>2, <1>1
<1>6. CASE sweep' = [sweep EXCEPT ![s].victims = victims]
    <2> DEFINE w == [sweep[s] EXCEPT !.victims = victims]
    <2>1. w \in Sweep
        BY <1>2 DEF Sweep
    <2>2. sweep' = [sweep EXCEPT ![s] = w]
        BY <1>6
    <2> QED BY <2>1, <2>2, <1>1
<1> QED BY <1>3, <1>4, <1>5, <1>6

LEMMA SweepTypes ==
    ASSUME TypeInv, NEW s \in Sweepers, SweepStep(s)
    PROVE  DataOK' /\ LocalsOK' /\ SweepOK'
<1>1. CASE \E k \in Keys : Evict(s, k)
    <2>1. PICK k \in Keys : Evict(s, k)
        BY <1>1
    <2>2. SweepOK'
        <3>1. sweep' = [sweep EXCEPT ![s] =
                          [sweep[s] EXCEPT !.victims = sweep[s].victims \ {k}]]
            BY <2>1 DEF Evict
        <3> QED BY <3>1 DEF TypeInv, SweepOK, Sweep
    <2> QED BY <2>1, <2>2, TakeData, TakeLocals DEF Evict, Threads
<1>2. CASE \E k \in Keys : Reap(s, k)
    <2>1. DataOK'
        BY <1>2 DEF Reap, TypeInv, DataOK
    <2>2. SweepOK'
        BY <1>2 DEF Reap, TypeInv, SweepOK, Sweep
    <2> QED BY <1>2, <2>1, <2>2 DEF Reap, TypeInv, LocalsOK
<1>3. CASE UNCHANGED <<data, clock, pc, call>> /\ ~(\E k \in Keys : Reap(s, k) \/ Evict(s, k))
    <2>1. SweepOK'
        <3> USE DEF TypeInv, DataOK, SweepOK, Sweep, Phases
        <3>0. sweep[s] \in Sweep
            OBVIOUS
        <3>1. CASE BeginSweep(s)
            BY <3>1 DEF BeginSweep
        <3>2. CASE \E k \in Keys : ScanRecord(s, k)
            <4>1. PICK k \in Keys : ScanRecord(s, k)
                BY <3>2
            <4> DEFINE todo == sweep[s].todo \ {k}
                       victims == IF Expired(k, sweep[s].at)
                                  THEN sweep[s].victims \cup {k} ELSE sweep[s].victims
            <4>2. todo \in SUBSET Keys /\ victims \in SUBSET Keys
                BY <3>0
            <4>3. sweep' = [sweep EXCEPT ![s].todo = todo, ![s].victims = victims]
                BY <4>1 DEF ScanRecord
            <4> HIDE DEF todo, victims
            <4> QED BY <3>0, <4>2, <4>3, SweepFields
        <3>3. CASE ScanEnd(s)
            BY <3>3 DEF ScanEnd
        <3>4. CASE \E k \in Keys : EvictMissing(s, k)
            <4>1. PICK k \in Keys : EvictMissing(s, k)
                BY <3>4
            <4>2. sweep' = [sweep EXCEPT ![s].victims = sweep[s].victims \ {k}]
                BY <4>1 DEF EvictMissing
            <4>3. sweep[s].victims \ {k} \in SUBSET Keys
                BY <3>0
            <4> QED BY <3>0, <4>2, <4>3, SweepFields
        <3>5. CASE EvictEnd(s)
            BY <3>5 DEF EvictEnd
        <3>6. CASE \E k \in Keys : ScanTombstone(s, k)
            <4>1. PICK k \in Keys : ScanTombstone(s, k)
                BY <3>6
            <4> DEFINE todo == sweep[s].todo \ {k}
                       victims == IF Outdated(k, sweep[s].at)
                                  THEN sweep[s].victims \cup {k} ELSE sweep[s].victims
            <4>2. todo \in SUBSET Keys /\ victims \in SUBSET Keys
                BY <3>0
            <4>3. sweep' = [sweep EXCEPT ![s].todo = todo, ![s].victims = victims]
                BY <4>1 DEF ScanTombstone
            <4> HIDE DEF todo, victims
            <4> QED BY <3>0, <4>2, <4>3, SweepFields
        <3>7. CASE TombscanEnd(s)
            BY <3>7 DEF TombscanEnd
        <3>8. CASE SweepEnd(s)
            <4>1. 0 \in Times
                BY StoreAssumption DEF Times
            <4>2. sweep' = [sweep EXCEPT ![s].phase = "sleep", ![s].at = 0]
                BY <3>8 DEF SweepEnd
            <4> QED BY <3>0, <4>1, <4>2, SweepFields
        <3> QED BY <1>3, <3>1, <3>2, <3>3, <3>4, <3>5, <3>6, <3>7, <3>8 DEF SweepStep
    <2> QED BY <1>3, <2>1 DEF data, TypeInv, DataOK, LocalsOK
<1> QED
    BY <1>1, <1>2, <1>3
    DEF SweepStep, BeginSweep, ScanRecord, ScanEnd, EvictMissing, EvictEnd,
        ScanTombstone, TombscanEnd, SweepEnd

LEMMA RaceTypes ==
    ASSUME TypeInv, NoteRaces
    PROVE  raced' \in SUBSET Keys /\ delraced' \in SUBSET Keys
BY DEF TypeInv, NoteRaces

LEMMA TypeNext == TypeInv /\ [Next]_vars => TypeInv'
<1> SUFFICES ASSUME TypeInv, [Next]_vars PROVE TypeInv'
    OBVIOUS
<1>1. CASE Next
    <2>1. DataOK' /\ LocalsOK' /\ SweepOK'
        <3>1. CASE \E t \in Workers, k \in Keys, v \in Values : BeginUpsert(t, k, v)
            BY <3>1, BeginTypes
        <3>2. CASE \E t \in Workers, k \in Keys : BeginDelete(t, k)
            BY <3>2, BeginTypes
        <3>3. CASE \E t \in Threads : Continue(t)
            BY <3>3, ContinueTypes
        <3>4. CASE \E s \in Sweepers : SweepStep(s)
            BY <3>4, SweepTypes
        <3>5. CASE Tick
            BY <3>5, StoreAssumption
            DEF Tick, data, TypeInv, DataOK, LocalsOK, SweepOK, Times
        <3> QED BY <1>1, <3>1, <3>2, <3>3, <3>4, <3>5 DEF Next
    <2> QED BY <1>1, <2>1, RaceTypes DEF Next, TypeInv
<1>2. CASE UNCHANGED vars
    BY <1>2 DEF vars, TypeInv, DataOK, LocalsOK, SweepOK
<1> QED BY <1>1, <1>2

LEMMA TypeInvariant == Spec => []TypeInv
BY TypeInit, TypeNext, PTL DEF Spec

(* Every reachable state of the store is well typed; in particular the     *)
(* wrapping and saturating arithmetic keeps memory_bytes a machine word.   *)
THEOREM TypeCorrect == Spec => []TypeOK
BY TypeInvariant, TypeInvImplies, PTL

-----------------------------------------------------------------------------
(* IndexExact.  While one operation works on a key, each index lists the   *)
(* key as the old record, the new one or no record requires, depending on  *)
(* how far the operation has come.                                         *)

Reflects(t, i) ==
    IF \/ pc[t] = "budget"
       \/ pc[t] = "unindex" /\ i >= call[t].pos
       \/ pc[t] \in {"prune", "hung"} /\ i > call[t].pos
    THEN call[t].prev
    ELSE IF pc[t] = "mem" \/ (pc[t] = "index" /\ i < call[t].pos)
    THEN call[t].rec
    ELSE NoRecord

Settled(k) == entities[k] = NoRecord \/ tombstones[k] = NoTombstone

AtWork(t, k) ==
    /\ \A i \in Indexes : Shows(i, k, Reflects(t, i))
    /\ pc[t] = "budget" => entities[k] = call[t].prev
    /\ pc[t] \in {"budget", "mem"} => Settled(k)
    /\ pc[t] \in {"index", "mem"} => entities[k] = call[t].rec
    /\ call[t].op = "delete" => entities[k] = NoRecord

AtRest(k) == Settled(k) /\ \A i \in Indexes : Shows(i, k, entities[k])

KeyExact(k) ==
    /\ \A t, u \in Threads : t # u => ~(Active(t, k) /\ Active(u, k))
    /\ \A t \in Threads : Active(t, k) => AtWork(t, k)
    /\ Quiet(k) => AtRest(k)

ExactInv == \A k \in Keys : k \notin raced => KeyExact(k)

LEMMA ExactInvImplies == ExactInv => IndexExact
BY DEF ExactInv, KeyExact, AtRest, Settled, IndexExact

LEMMA NoField_NoRecord ==
    ASSUME NEW i \in Indexes
    PROVE  /\ Field(i, NoRecord) = NoField
           /\ \A f \in Fields : f # NoField
BY StoreAssumption DEF Field

LEMMA ExactInit == Init => ExactInv
<1> SUFFICES ASSUME Init, NEW k \in Keys PROVE KeyExact(k)
    BY DEF ExactInv
<1>1. \A t \in Threads : ~Active(t, k)
    BY DEF Init, Active
<1>2. AtRest(k)
    BY NoField_NoRecord DEF Init, AtRest, Settled, Shows
<1> QED BY <1>1, <1>2 DEF KeyExact

(* What an operation on another key leaves alone.                          *)
SameKey(k) ==
    /\ entities'[k] = entities[k]
    /\ tombstones'[k] = tombstones[k]
    /\ \A i \in Indexes, f \in Fields : (k \in index'[i][f]) <=> (k \in index[i][f])

LEMMA FrameShows ==
    ASSUME NEW k, SameKey(k), NEW i \in Indexes, NEW r, Shows(i, k, r)
    PROVE  \A f \in Fields : (k \in index'[i][f]) <=> (Field(i, r) = f)
BY DEF SameKey, Shows

LEMMA ExactFrame ==
    ASSUME NEW k \in Keys, KeyExact(k), SameKey(k),
           \A u \in Threads : \/ pc'[u] = pc[u] /\ call'[u] = call[u]
                              \/ ~Active(u, k) /\ ~Active(u, k)'
    PROVE  KeyExact(k)'
<1>1. \A u \in Threads : Active(u, k)' <=> Active(u, k)
    BY DEF Active
<1>2. ASSUME NEW u \in Threads, Active(u, k)' PROVE AtWork(u, k)'
    <2>1. pc'[u] = pc[u] /\ call'[u] = call[u] /\ AtWork(u, k)
        BY <1>1, <1>2 DEF KeyExact
    <2>2. \A i \in Indexes : Reflects(u, i)' = Reflects(u, i)
        BY <2>1 DEF Reflects
    <2>3. \A i \in Indexes : Shows(i, k, Reflects(u, i))'
        BY <2>1, <2>2 DEF SameKey, Shows, AtWork, Field
    <2> QED BY <2>1, <2>3 DEF AtWork, SameKey, Settled
<1>3. ASSUME Quiet(k)' PROVE AtRest(k)'
    <2>1. AtRest(k)
        BY <1>1, <1>3 DEF Quiet, KeyExact
    <2> QED BY <2>1 DEF AtRest, SameKey, Settled, Shows, Field
<1> QED BY <1>1, <1>2, <1>3 DEF KeyExact

(* A step of the one operation that works on a key.                        *)
LEMMA ExactOwn ==
    ASSUME NEW k \in Keys, NEW t \in Threads,
           \A u \in Threads : u # t => ~Active(u, k)',
           Active(t, k)' => AtWork(t, k)',
           ~Active(t, k)' => AtRest(k)'
    PROVE  KeyExact(k)'
BY DEF KeyExact, Quiet

(* What every step of an operation has in common: it is a step of an       *)
(* active thread, moves no other thread and touches no other key.          *)
LEMMA ContinueFrame ==
    ASSUME TypeInv, NEW t \in Threads, Continue(t)
    PROVE  /\ pc[t] # "idle"
           /\ Fits(call[t], pc[t])
           /\ \A u \in Threads : u # t => pc'[u] = pc[u] /\ call'[u] = call[u]
           /\ pc'[t] # "idle" => call'[t].key = call[t].key
<1>1. pc[t] # "idle"
    BY DEF Continue, RejectOverBudget, AcceptBudget, Stamp, Insert, SkipUnindex,
           UnindexSorted, UnindexHash, HangOnEmptySet, LeaveNonEmptySet, SkipIndex,
           AddIndex, RemoveTombstone, StoreMemory, Account, Bury
<1>2. LocalsOK /\ Fits(call[t], pc[t])
    BY <1>1 DEF TypeInv, LocalsOK
<1>3. \A u \in Threads : u # t => pc'[u] = pc[u]
    BY <1>2
    DEF LocalsOK, Goto, Return, Continue, RejectOverBudget, AcceptBudget, Stamp,
        Insert, SkipUnindex, UnindexSorted, UnindexHash, HangOnEmptySet,
        LeaveNonEmptySet, SkipIndex, AddIndex, RemoveTombstone, StoreMemory,
        Account, Bury
<1>4. \A u \in Threads : u # t => call'[u] = call[u]
    BY <1>2
    DEF LocalsOK, Advance, Return, Continue, RejectOverBudget, AcceptBudget, Stamp,
        Insert, SkipUnindex, UnindexSorted, UnindexHash, HangOnEmptySet,
        LeaveNonEmptySet, SkipIndex, AddIndex, RemoveTombstone, StoreMemory,
        Account, Bury
<1>5. ASSUME pc'[t] # "idle" PROVE call'[t].key = call[t].key
    <2>0. call \in [Threads -> Call \cup {NoCall}] /\ pc \in [Threads -> Steps]
          /\ call[t] \in Call
        BY <1>2 DEF LocalsOK, Fits
    <2>1. CASE UNCHANGED call
        BY <2>1
    <2>2. CASE Advance(t)
        BY <2>0, <2>2 DEF Advance, Call
    <2>3. CASE AcceptBudget(t) \/ Stamp(t) \/ Insert(t)
        BY <2>0, <2>3 DEF AcceptBudget, Stamp, Insert, Call
    <2>4. CASE Return(t)
        BY <2>0, <2>4, <1>5 DEF Return
    <2> QED
        BY <2>1, <2>2, <2>3, <2>4
        DEF Continue, RejectOverBudget, SkipUnindex, UnindexSorted, UnindexHash,
            HangOnEmptySet, LeaveNonEmptySet, SkipIndex, AddIndex, RemoveTombstone,
            StoreMemory, Account, Bury
<1> QED BY <1>1, <1>2, <1>3, <1>4, <1>5

LEMMA ListingFrame ==
    ASSUME DataOK, NEW i \in Indexes, NEW f \in Fields, NEW c,
           index' = Listed(i, f, c) \/ index' = Unlisted(i, f, c)
    PROVE  /\ \A k : k # c => \A j \in Indexes, g \in Fields :
                (k \in index'[j][g]) <=> (k \in index[j][g])
           /\ \A j \in Indexes, g \in Fields : <<j, g>> # <<i, f>> => index'[j][g] = index[j][g]
           /\ index' = Listed(i, f, c) => c \in index'[i][f]
           /\ index' = Unlisted(i, f, c) => c \notin index'[i][f]
BY DEF DataOK, Listed, Unlisted

LEMMA FieldType ==
    ASSUME NEW i \in Indexes, NEW r \in MaybeRecord, Field(i, r) # NoField
    PROVE  Field(i, r) \in Fields
BY StoreAssumption DEF Field, MaybeRecord, Record

LEMMA ContinueSameKey ==
    ASSUME TypeInv, NEW t \in Threads, Continue(t), NEW k \in Keys, k # call[t].key
    PROVE  SameKey(k)
<1>0. DataOK /\ call[t] \in Call
    BY ContinueFrame DEF TypeInv, Fits
<1>1. CASE UnindexSorted(t) \/ UnindexHash(t)
    <2> DEFINE i == call[t].pos  f == Field(i, call[t].prev)
    <2>1. i \in Indexes /\ f \in Fields
        BY <1>0, <1>1, FieldType DEF UnindexSorted, UnindexHash, Call
    <2>2. index' = Unlisted(i, f, call[t].key) /\ UNCHANGED <<entities, tombstones>>
        BY <1>1 DEF UnindexSorted, UnindexHash
    <2> HIDE DEF i, f
    <2> QED BY <1>0, <2>1, <2>2, ListingFrame DEF SameKey
<1>2. CASE AddIndex(t)
    <2> DEFINE i == call[t].pos  f == Field(i, call[t].rec)
    <2>1. i \in Indexes /\ f \in Fields
        BY <1>0, <1>2, FieldType DEF AddIndex, Call
    <2>2. index' = Listed(i, f, call[t].key) /\ UNCHANGED <<entities, tombstones>>
        BY <1>2 DEF AddIndex
    <2> HIDE DEF i, f
    <2> QED BY <1>0, <2>1, <2>2, ListingFrame DEF SameKey
<1>3. CASE Insert(t)
    BY <1>0, <1>3 DEF Insert, SameKey, DataOK
<1>4. CASE RemoveTombstone(t) \/ Bury(t)
    BY <1>0, <1>4 DEF RemoveTombstone, Bury, SameKey, DataOK
<1>5. CASE UNCHANGED <<entities, index, tombstones>>
    BY <1>5 DEF SameKey
<1> QED
    BY <1>1, <1>2, <1>3, <1>4, <1>5
    DEF Continue, RejectOverBudget, AcceptBudget, Stamp, SkipUnindex,
        HangOnEmptySet, LeaveNonEmptySet, SkipIndex, StoreMemory, Account, data

WorkOrRest(t, k) == IF pc[t] = "idle" THEN AtRest(k) ELSE AtWork(t, k)

(* Shows depends on the field of the record alone.                         *)
LEMMA ShowsField ==
    ASSUME NEW i, NEW k, NEW r, NEW q, Field(i, r) = Field(i, q), Shows(i, k, r)
    PROVE  Shows(i, k, q)
BY DEF Shows

LEMMA AdvanceCall ==
    ASSUME LocalsOK, NEW t \in Threads, call[t] \in Call, Advance(t)
    PROVE  /\ call'[t].pos = call[t].pos + 1
           /\ call'[t].prev = call[t].prev
           /\ call'[t].rec = call[t].rec
           /\ call'[t].op = call[t].op
           /\ call'[t].key = call[t].key
BY DEF LocalsOK, Advance, Call

LEMMA UpsertExact ==
    ASSUME TypeInv, NEW t \in Threads, pc[t] # "idle", Fits(call[t], pc[t]),
           NEW k \in Keys, k = call[t].key, AtWork(t, k),
           \/ RejectOverBudget(t) \/ AcceptBudget(t) \/ Stamp(t) \/ Insert(t)
           \/ RemoveTombstone(t) \/ StoreMemory(t)
    PROVE  WorkOrRest(t, k)'
<1>0. /\ DataOK /\ LocalsOK
      /\ call[t] \in Call
      /\ call[t].pos \in 1..NumIndexes+1
      /\ NumIndexes \in Nat
    BY StoreAssumption DEF TypeInv, Fits, Call
<1>a. \A i \in Indexes : Shows(i, k, Reflects(t, i))
    BY DEF AtWork
<1>b. ASSUME UNCHANGED index,
             \A i \in Indexes : Field(i, Reflects(t, i)') = Field(i, Reflects(t, i))
      PROVE  \A i \in Indexes : Shows(i, k, Reflects(t, i))'
    BY <1>a, <1>b DEF Shows, Field
<1>1. CASE RejectOverBudget(t)
    <2>1. pc'[t] = "idle" /\ UNCHANGED <<entities, index, tombstones>>
        BY <1>0, <1>1 DEF RejectOverBudget, Return, LocalsOK, data
    <2>2. pc[t] = "budget"
        BY <1>1 DEF RejectOverBudget
    <2>3. AtRest(k)
        BY <2>2 DEF AtWork, AtRest, Reflects
    <2> QED BY <2>1, <2>3 DEF WorkOrRest, AtRest, Settled, Shows, Field
<1>2. CASE AcceptBudget(t)
    <2> DEFINE n == FirstUnindex(call[t].prev)
    <2>1. pc[t] = "budget" /\ pc'[t] = "unindex" /\ UNCHANGED <<entities, index, tombstones>>
        BY <1>0, <1>2 DEF AcceptBudget, Goto, LocalsOK, data
    <2>2. /\ call'[t].pos = n /\ call'[t].prev = call[t].prev
          /\ call'[t].op = call[t].op
        BY <1>0, <1>2 DEF AcceptBudget, LocalsOK, Call
    <2>3. ASSUME NEW i \in Indexes PROVE Reflects(t, i)' = Reflects(t, i)
        <3>1. Reflects(t, i) = call[t].prev
            BY <2>1 DEF Reflects
        <3>2. call[t].prev # NoRecord => i >= n
            BY DEF FirstUnindex, Indexes
        <3>3. Reflects(t, i)' = call[t].prev
            BY <2>1, <2>2, <3>2 DEF Reflects
        <3> QED BY <3>1, <3>3
    <2>4. call[t].op # "delete"
        BY <2>1 DEF Fits
    <2> QED BY <1>b, <2>1, <2>2, <2>3, <2>4 DEF WorkOrRest, AtWork
<1>3. CASE Stamp(t)
    <2>1. /\ pc[t] = "unindex" /\ pc'[t] = "insert"
          /\ UNCHANGED <<entities, index, tombstones>>
          /\ call[t].op = "upsert" /\ call[t].pos > NumIndexes
        BY <1>0, <1>3 DEF Stamp, Goto, LocalsOK, data
    <2>2. call'[t].op = "upsert"
        BY <1>0, <1>3, <2>1 DEF Stamp, LocalsOK, Call
    <2>3. \A i \in Indexes : Reflects(t, i)' = Reflects(t, i)
        BY <1>0, <2>1 DEF Reflects, Indexes
    <2> QED BY <1>b, <2>1, <2>2, <2>3 DEF WorkOrRest, AtWork
<1>4. CASE Insert(t)
    <2>1. /\ pc[t] = "insert" /\ pc'[t] = "index"
          /\ UNCHANGED <<index, tombstones>>
          /\ entities'[k] = call[t].rec
        BY <1>0, <1>4 DEF Insert, Goto, LocalsOK, DataOK
    <2>2. call'[t].op = call[t].op /\ call'[t].rec = call[t].rec /\ call'[t].pos = 1
        BY <1>0, <1>4 DEF Insert, LocalsOK, Call
    <2>3. \A i \in Indexes : Reflects(t, i)' = Reflects(t, i)
        BY <2>1, <2>2 DEF Reflects, Indexes
    <2>4. call[t].op # "delete"
        BY <2>1 DEF Fits
    <2> QED BY <1>b, <2>1, <2>2, <2>3, <2>4 DEF WorkOrRest, AtWork
<1>5. CASE RemoveTombstone(t)
    <2>1. /\ pc[t] = "index" /\ pc'[t] = "mem"
          /\ UNCHANGED <<entities, index, call>>
          /\ call[t].pos > NumIndexes
          /\ tombstones'[k] = NoTombstone
        BY <1>0, <1>5 DEF RemoveTombstone, Goto, LocalsOK, DataOK
    <2>2. \A i \in Indexes : Reflects(t, i)' = Reflects(t, i)
        BY <1>0, <2>1 DEF Reflects, Indexes
    <2>3. call[t].op # "delete" /\ entities[k] = call[t].rec
        BY <2>1 DEF Fits, AtWork
    <2> QED BY <1>b, <2>1, <2>2, <2>3 DEF WorkOrRest, AtWork, Settled
<1>6. CASE StoreMemory(t)
    <2>1. /\ pc[t] = "mem" /\ pc'[t] = "idle"
          /\ UNCHANGED <<entities, index, tombstones>>
        BY <1>0, <1>6 DEF StoreMemory, Return, LocalsOK
    <2>2. AtRest(k)
        BY <2>1 DEF AtWork, AtRest, Reflects
    <2> QED BY <2>1, <2>2 DEF WorkOrRest, AtRest, Settled, Shows, Field
<1> QED BY <1>1, <1>2, <1>3, <1>4, <1>5, <1>6

LEMMA UnindexShows ==
    ASSUME DataOK, NEW i \in Indexes, NEW k \in Keys, NEW r \in MaybeRecord,
           Field(i, r) # NoField, Shows(i, k, r),
           index' = Unlisted(i, Field(i, r), k)
    PROVE  Shows(i, k, NoRecord)'
<1>1. Field(i, r) \in Fields
    BY FieldType
<1>2. k \notin index'[i][Field(i, r)]
    BY <1>1, ListingFrame
<1>3. ASSUME NEW g \in Fields, g # Field(i, r) PROVE k \notin index'[i][g]
    <2>1. index'[i][g] = index[i][g]
        BY <1>1, <1>3, ListingFrame
    <2> QED BY <2>1, <1>3 DEF Shows
<1> QED BY <1>2, <1>3, NoField_NoRecord DEF Shows, Field

LEMMA ListShows ==
    ASSUME DataOK, NEW i \in Indexes, NEW k \in Keys, NEW r \in MaybeRecord,
           Field(i, r) # NoField, Shows(i, k, NoRecord),
           index' = Listed(i, Field(i, r), k)
    PROVE  \A g \in Fields : (k \in index'[i][g]) <=> (Field(i, r) = g)
<1>1. Field(i, r) \in Fields
    BY FieldType
<1>2. k \in index'[i][Field(i, r)]
    BY <1>1, ListingFrame
<1>3. ASSUME NEW g \in Fields, g # Field(i, r) PROVE k \notin index'[i][g]
    <2>1. index'[i][g] = index[i][g]
        BY <1>1, <1>3, ListingFrame
    <2> QED BY <2>1, <1>3, NoField_NoRecord DEF Shows
<1> QED BY <1>2, <1>3

LEMMA UnindexExact ==
    ASSUME TypeInv, NEW t \in Threads, pc[t] # "idle", Fits(call[t], pc[t]),
           NEW k \in Keys, k = call[t].key, AtWork(t, k),
           NEW p \in Indexes, p = call[t].pos,
           NEW r \in MaybeRecord, r = call[t].prev,
           \/ SkipUnindex(t) \/ UnindexSorted(t) \/ UnindexHash(t)
           \/ HangOnEmptySet(t) \/ LeaveNonEmptySet(t)
    PROVE  WorkOrRest(t, k)'
<1>0. /\ DataOK /\ LocalsOK
      /\ call[t] \in Call
      /\ NumIndexes \in Nat
    BY StoreAssumption DEF TypeInv, Fits, Call
<1>a. \A i \in Indexes : Shows(i, k, Reflects(t, i))
    BY DEF AtWork
<1>b. /\ UNCHANGED <<entities, tombstones>>
      /\ pc[t] \in {"unindex", "prune"}
      /\ pc'[t] \in {"unindex", "prune", "hung"}
      /\ pc'[t] = "unindex" => call'[t].pos = p + 1
      /\ pc'[t] # "unindex" => call'[t].pos = p
      /\ call'[t].op = call[t].op /\ call'[t].prev = r
    <2>1. CASE UNCHANGED call /\ pc'[t] # "unindex"
        BY <1>0, <2>1
        DEF SkipUnindex, UnindexSorted, UnindexHash, HangOnEmptySet,
            LeaveNonEmptySet, Goto, LocalsOK, data, Fits
    <2>2. CASE Advance(t) /\ pc'[t] = "unindex"
        BY <1>0, <2>2, AdvanceCall
        DEF SkipUnindex, UnindexSorted, UnindexHash, HangOnEmptySet,
            LeaveNonEmptySet, Goto, LocalsOK, data, Fits
    <2>3. \/ UNCHANGED call /\ pc'[t] # "unindex"
          \/ Advance(t) /\ pc'[t] = "unindex"
        BY <1>0
        DEF SkipUnindex, UnindexSorted, UnindexHash, HangOnEmptySet,
            LeaveNonEmptySet, Goto, LocalsOK
    <2> QED BY <2>1, <2>2, <2>3
<1>c. \A i \in Indexes : Reflects(t, i)' = IF i > p THEN r ELSE NoRecord
    BY <1>0, <1>b DEF Reflects, Indexes
<1>d. \A i \in Indexes : i # p => Reflects(t, i) = IF i > p THEN r ELSE NoRecord
    BY <1>0, <1>b DEF Reflects, Indexes
<1>e. pc[t] = "unindex" => Reflects(t, p) = r
    BY <1>0, <1>b DEF Reflects, Indexes
<1>f. pc[t] = "prune" => Reflects(t, p) = NoRecord
    BY <1>0, <1>b DEF Reflects, Indexes
<1>g. \A q : \A i \in Indexes : Field(i, q)' = Field(i, q)
    BY DEF Field
<1>1. Shows(p, k, NoRecord)'
    <2>1. CASE SkipUnindex(t)
        <3>1. Shows(p, k, r) /\ Field(p, r) = NoField /\ UNCHANGED index
            BY <1>a, <1>b, <1>e, <2>1 DEF SkipUnindex, data
        <3> QED BY <1>b, <3>1, NoField_NoRecord DEF Shows, Field
    <2>2. CASE UnindexSorted(t) \/ UnindexHash(t)
        <3>1. /\ Shows(p, k, r) /\ Field(p, r) # NoField
              /\ index' = Unlisted(p, Field(p, r), k)
            BY <1>a, <1>b, <1>e, <2>2 DEF UnindexSorted, UnindexHash
        <3> QED BY <1>0, <1>b, <3>1, UnindexShows
    <2>3. CASE HangOnEmptySet(t) \/ LeaveNonEmptySet(t)
        <3>1. Shows(p, k, NoRecord) /\ UNCHANGED index
            BY <1>a, <1>b, <1>f, <2>3 DEF HangOnEmptySet, LeaveNonEmptySet, data
        <3> QED BY <3>1 DEF Shows, Field
    <2> QED BY <2>1, <2>2, <2>3
<1>2. ASSUME NEW i \in Indexes, i # p PROVE Shows(i, k, Reflects(t, i))'
    <2>1. Shows(i, k, Reflects(t, i)) /\ Reflects(t, i)' = Reflects(t, i)
        BY <1>a, <1>c, <1>d, <1>2
    <2>2. CASE UnindexSorted(t) \/ UnindexHash(t)
        <3>1. Field(p, r) \in Fields /\ index' = Unlisted(p, Field(p, r), k)
            BY <1>0, <1>b, <2>2, FieldType DEF UnindexSorted, UnindexHash
        <3>2. \A g \in Fields : index'[i][g] = index[i][g]
            BY <1>0, <1>b, <1>2, <3>1, ListingFrame
        <3> QED BY <2>1, <3>2, <1>g DEF Shows
    <2>3. CASE UNCHANGED index
        BY <2>1, <2>3, <1>g DEF Shows
    <2> QED BY <2>2, <2>3 DEF SkipUnindex, HangOnEmptySet, LeaveNonEmptySet, data
<1>3. \A i \in Indexes : Shows(i, k, Reflects(t, i))'
    <2>1. Reflects(t, p)' = NoRecord
        BY <1>0, <1>b, <1>c DEF Indexes
    <2> QED BY <1>1, <1>2, <2>1 DEF Shows, Field
<1> QED BY <1>b, <1>3 DEF WorkOrRest, AtWork

LEMMA ListExact ==
    ASSUME TypeInv, NEW t \in Threads, pc[t] # "idle", Fits(call[t], pc[t]),
           NEW k \in Keys, k = call[t].key, AtWork(t, k),
           NEW p \in Indexes, p = call[t].pos,
           NEW r \in MaybeRecord, r = call[t].rec,
           SkipIndex(t) \/ AddIndex(t)
    PROVE  WorkOrRest(t, k)'
<1>0. /\ DataOK /\ LocalsOK
      /\ call[t] \in Call
      /\ NumIndexes \in Nat
    BY StoreAssumption DEF TypeInv, Fits, Call
<1>a. \A i \in Indexes : Shows(i, k, Reflects(t, i))
    BY DEF AtWork
<1>b. /\ UNCHANGED <<entities, tombstones>>
      /\ pc[t] = "index" /\ pc'[t] = "index"
      /\ call'[t].pos = p + 1 /\ call'[t].rec = r /\ call'[t].op = call[t].op
    BY <1>0, AdvanceCall DEF SkipIndex, AddIndex, data
<1>c. \A i \in Indexes : Reflects(t, i) = IF i < p THEN r ELSE NoRecord
    BY <1>0, <1>b DEF Reflects, Indexes
<1>d. \A i \in Indexes : Reflects(t, i)' = IF i < p + 1 THEN r ELSE NoRecord
    BY <1>0, <1>b DEF Reflects, Indexes
<1>e. Shows(p, k, NoRecord)
    BY <1>a, <1>c DEF Indexes
<1>1. Shows(p, k, r)'
    <2>1. CASE SkipIndex(t)
        <3>1. Field(p, r) = NoField /\ UNCHANGED index
            BY <2>1 DEF SkipIndex, data
        <3> QED BY <3>1, <1>e, NoField_NoRecord DEF Shows, Field
    <2>2. CASE AddIndex(t)
        <3>1. Field(p, r) # NoField /\ index' = Listed(p, Field(p, r), k)
            BY <2>2 DEF AddIndex
        <3>2. \A g \in Fields : (k \in index'[p][g]) <=> (Field(p, r) = g)
            BY <1>0, <1>e, <3>1, ListShows
        <3>3. Field(p, r)' = Field(p, r)
            BY DEF Field
        <3> QED BY <3>2, <3>3 DEF Shows
    <2> QED BY <2>1, <2>2
<1>2. ASSUME NEW i \in Indexes, i # p PROVE Shows(i, k, Reflects(t, i))'
    <2>1. Shows(i, k, Reflects(t, i)) /\ Reflects(t, i)' = Reflects(t, i)
        BY <1>0, <1>a, <1>c, <1>d, <1>2 DEF Indexes
    <2>2. \A g \in Fields : index'[i][g] = index[i][g]
        <3>1. CASE AddIndex(t)
            <4>1. Field(p, r) \in Fields /\ index' = Listed(p, Field(p, r), k)
                BY <3>1, FieldType DEF AddIndex
            <4> QED BY <1>0, <1>2, <4>1, ListingFrame
        <3>2. CASE SkipIndex(t)
            BY <3>2 DEF SkipIndex, data
        <3> QED BY <3>1, <3>2
    <2> QED BY <2>1, <2>2 DEF Shows, Field
<1>3. \A i \in Indexes : Shows(i, k, Reflects(t, i))'
    <2>1. Reflects(t, p)' = r
        BY <1>0, <1>d DEF Indexes
    <2> QED BY <1>1, <1>2, <2>1 DEF Shows, Field
<1>4. call[t].op # "delete" /\ entities[k] = r
    BY <1>b DEF Fits, AtWork
<1> QED BY <1>b, <1>3, <1>4 DEF WorkOrRest, AtWork

LEMMA DeleteExact ==
    ASSUME TypeInv, NEW t \in Threads, pc[t] # "idle", Fits(call[t], pc[t]),
           NEW k \in Keys, k = call[t].key, AtWork(t, k),
           Account(t) \/ Bury(t)
    PROVE  WorkOrRest(t, k)'
<1>0. /\ LocalsOK
      /\ call[t].pos \in 1..NumIndexes+1
      /\ NumIndexes \in Nat
    BY StoreAssumption DEF TypeInv, Fits, Call
<1>1. /\ UNCHANGED <<entities, index>>
      /\ call[t].op = "delete" /\ entities[k] = NoRecord
    BY DEF Account, Bury, AtWork, Fits, Call
<1>2. \A i \in Indexes : Reflects(t, i) = NoRecord
    BY <1>0 DEF Account, Bury, Reflects, Indexes
<1>3. \A i \in Indexes : Shows(i, k, NoRecord)'
    BY <1>1, <1>2 DEF AtWork, Shows, Field
<1>4. CASE Account(t)
    <2>1. pc'[t] = "bury" /\ UNCHANGED call
        BY <1>0, <1>4 DEF Account, Goto, LocalsOK
    <2>2. \A i \in Indexes : Reflects(t, i)' = NoRecord
        BY <2>1 DEF Reflects
    <2>3. \A i \in Indexes : Shows(i, k, Reflects(t, i))'
        BY <1>3, <2>2 DEF Shows, Field
    <2> QED BY <1>1, <2>1, <2>3 DEF WorkOrRest, AtWork
<1>5. CASE Bury(t)
    <2>1. pc'[t] = "idle"
        BY <1>0, <1>5 DEF Bury, Return, LocalsOK
    <2> QED BY <1>1, <1>3, <2>1 DEF WorkOrRest, AtRest, Settled, Shows, Field
<1> QED BY <1>4, <1>5

LEMMA ContinueExact ==
    ASSUME TypeInv, NEW t \in Threads, Continue(t),
           NEW k \in Keys, KeyExact(k)
    PROVE  KeyExact(k)'
<1>0. /\ pc[t] # "idle"
      /\ Fits(call[t], pc[t])
      /\ \A u \in Threads : u # t => pc'[u] = pc[u] /\ call'[u] = call[u]
      /\ pc'[t] # "idle" => call'[t].key = call[t].key
    BY ContinueFrame
<1>1. CASE k = call[t].key
    <2>1. Active(t, k)
        BY <1>0, <1>1 DEF Active
    <2>2. AtWork(t, k)
        BY <2>1 DEF KeyExact
    <2>3. WorkOrRest(t, k)'
        <3>1. call[t].pos \in 1..NumIndexes+1 /\ call[t].prev \in MaybeRecord
              /\ call[t].rec \in MaybeRecord
            BY <1>0 DEF Fits, Call
        <3>2. CASE \/ RejectOverBudget(t) \/ AcceptBudget(t) \/ Stamp(t) \/ Insert(t)
                   \/ RemoveTombstone(t) \/ StoreMemory(t)
            BY <1>0, <1>1, <2>2, <3>2, UpsertExact
        <3>3. CASE \/ SkipUnindex(t) \/ UnindexSorted(t) \/ UnindexHash(t)
                   \/ HangOnEmptySet(t) \/ LeaveNonEmptySet(t)
            <4>1. call[t].pos \in Indexes
                BY <1>0, <3>3
                DEF SkipUnindex, UnindexSorted, UnindexHash, HangOnEmptySet,
                    LeaveNonEmptySet, Fits
            <4> QED BY <1>0, <1>1, <2>2, <3>1, <3>3, <4>1, UnindexExact
        <3>4. CASE SkipIndex(t) \/ AddIndex(t)
            <4>1. call[t].pos \in Indexes
                BY <3>4 DEF SkipIndex, AddIndex
            <4> QED BY <1>0, <1>1, <2>2, <3>1, <3>4, <4>1, ListExact
        <3>5. CASE Account(t) \/ Bury(t)
            BY <1>0, <1>1, <2>2, <3>5, DeleteExact
        <3> QED BY <3>2, <3>3, <3>4, <3>5 DEF Continue
    <2>4. \A u \in Threads : u # t => ~Active(u, k)'
        BY <1>0, <2>1 DEF KeyExact, Active
    <2>5. (pc[t] # "idle")' <=> Active(t, k)'
        BY <1>0, <1>1 DEF Active
    <2> QED BY <2>3, <2>4, <2>5, ExactOwn DEF WorkOrRest
<1>2. CASE k # call[t].key
    <2>1. SameKey(k)
        BY <1>2, ContinueSameKey
    <2>2. ~Active(t, k) /\ ~Active(t, k)'
        BY <1>0, <1>2 DEF Active
    <2> QED BY <1>0, <2>1, <2>2, ExactFrame
<1> QED BY <1>1, <1>2

(* An operation begins: on a key nothing else works on, or else the key is *)
(* raced from now on.                                                      *)
LEMMA TakeExact ==
    ASSUME TypeInv, NEW t \in Threads, pc[t] = "idle", NEW c \in Keys, Take(t, c),
           NEW k \in Keys, KeyExact(k), ~Overlap(k)'
    PROVE  KeyExact(k)'
<1>0. /\ LocalsOK /\ DataOK
      /\ pc'[t] = "unindex" /\ call'[t].key = c /\ call'[t].op = "delete"
      /\ call'[t].prev = entities[c] /\ call'[t].pos = 1
      /\ \A u \in Threads : u # t => pc'[u] = pc[u] /\ call'[u] = call[u]
      /\ UNCHANGED <<index, tombstones>>
      /\ entities' = [entities EXCEPT ![c] = NoRecord]
    BY DEF TypeInv, LocalsOK, Take, Goto
<1>1. CASE k = c
    <2>1. Active(t, k)'
        BY <1>0, <1>1 DEF Active
    <2>2. \A u \in Threads : u # t => ~Active(u, k)'
        BY <2>1 DEF Overlap
    <2>3. AtRest(k)
        BY <1>0, <2>2 DEF KeyExact, Quiet, Active
    <2>4. entities'[k] = NoRecord
        BY <1>0, <1>1 DEF DataOK
    <2>5. \A i \in Indexes : Reflects(t, i)' = entities[k]
        BY <1>0, <1>1, StoreAssumption DEF Reflects, Indexes
    <2>6. \A i \in Indexes : Shows(i, k, Reflects(t, i))'
        BY <1>0, <2>3, <2>5 DEF AtRest, Shows, Field
    <2>7. AtWork(t, k)'
        BY <1>0, <2>4, <2>6 DEF AtWork
    <2> QED BY <2>1, <2>2, <2>7, ExactOwn
<1>2. CASE k # c
    <2>1. SameKey(k)
        BY <1>0, <1>2 DEF SameKey, DataOK
    <2>2. ~Active(t, k) /\ ~Active(t, k)'
        BY <1>0, <1>2 DEF Active
    <2> QED BY <1>0, <2>1, <2>2, ExactFrame
<1> QED BY <1>1, <1>2

LEMMA BeginUpsertExact ==
    ASSUME TypeInv, NEW t \in Workers, NEW c \in Keys, NEW v \in Values,
           BeginUpsert(t, c, v),
           NEW k \in Keys, KeyExact(k), ~Overlap(k)'
    PROVE  KeyExact(k)'
<1>0. /\ LocalsOK /\ DataOK /\ t \in Threads
      /\ pc[t] = "idle"
      /\ pc'[t] = "budget" /\ call'[t].key = c /\ call'[t].op = "upsert"
      /\ call'[t].prev = entities[c]
      /\ \A u \in Threads : u # t => pc'[u] = pc[u] /\ call'[u] = call[u]
      /\ UNCHANGED <<entities, index, tombstones>>
    BY DEF TypeInv, LocalsOK, BeginUpsert, Goto, Threads, data
<1>1. CASE k = c
    <2>1. Active(t, k)'
        BY <1>0, <1>1 DEF Active
    <2>2. \A u \in Threads : u # t => ~Active(u, k)'
        BY <1>0, <2>1 DEF Overlap
    <2>3. AtRest(k)
        BY <1>0, <2>2 DEF KeyExact, Quiet, Active
    <2>5. \A i \in Indexes : Reflects(t, i)' = entities[k]
        BY <1>0, <1>1 DEF Reflects
    <2>6. \A i \in Indexes : Shows(i, k, Reflects(t, i))'
        BY <1>0, <2>3, <2>5 DEF AtRest, Shows, Field
    <2>7. AtWork(t, k)'
        BY <1>0, <1>1, <2>3, <2>6 DEF AtWork, AtRest, Settled
    <2> QED BY <1>0, <2>1, <2>2, <2>7, ExactOwn
<1>2. CASE k # c
    <2>1. SameKey(k)
        BY <1>0 DEF SameKey
    <2>2. ~Active(t, k) /\ ~Active(t, k)'
        BY <1>0, <1>2 DEF Active
    <2> QED BY <1>0, <2>1, <2>2, ExactFrame
<1> QED BY <1>1, <1>2

LEMMA ReapExact ==
    ASSUME TypeInv, NEW s \in Sweepers, NEW c \in Keys, Reap(s, c),
           NEW k \in Keys, KeyExact(k)
    PROVE  KeyExact(k)'
<1>0. /\ UNCHANGED <<entities, index, pc, call>>
      /\ tombstones' = [tombstones EXCEPT ![c] = NoTombstone]
    BY DEF Reap
<1>1. \A u \in Threads : Active(u, k)' <=> Active(u, k)
    BY <1>0 DEF Active
<1>2. Settled(k) => Settled(k)'
    BY <1>0 DEF Settled, TypeInv, DataOK
<1>3. \A u \in Threads, i \in Indexes :
        Shows(i, k, Reflects(u, i)) => Shows(i, k, Reflects(u, i))'
    BY <1>0 DEF Shows, Reflects, Field
<1>4. \A u \in Threads : AtWork(u, k) => AtWork(u, k)'
    BY <1>0, <1>2, <1>3 DEF AtWork
<1>5. AtRest(k) => AtRest(k)'
    BY <1>0, <1>2 DEF AtRest, Shows, Field
<1> QED BY <1>1, <1>4, <1>5 DEF KeyExact, Quiet

LEMMA ExactNext == TypeInv /\ ExactInv /\ [Next]_vars => ExactInv'
<1> SUFFICES ASSUME TypeInv, ExactInv, [Next]_vars, NEW k \in Keys, k \notin raced'
             PROVE  KeyExact(k)'
    BY DEF ExactInv
<1>1. CASE Next
    <2>1. KeyExact(k) /\ ~Overlap(k)'
        BY <1>1 DEF Next, NoteRaces, ExactInv
    <2>2. CASE \E t \in Workers, c \in Keys, v \in Values : BeginUpsert(t, c, v)
        BY <2>1, <2>2, BeginUpsertExact
    <2>3. CASE \E t \in Workers, c \in Keys : BeginDelete(t, c)
        BY <2>1, <2>3, TakeExact DEF BeginDelete, Threads
    <2>4. CASE \E t \in Threads : Continue(t)
        BY <2>1, <2>4, ContinueExact
    <2>5. CASE \E s \in Sweepers, c \in Keys : Evict(s, c)
        BY <2>1, <2>5, TakeExact DEF Evict, Threads
    <2>6. CASE \E s \in Sweepers, c \in Keys : Reap(s, c)
        BY <2>1, <2>6, ReapExact
    <2>7. CASE UNCHANGED <<data, pc, call>>
        BY <2>1, <2>7, ExactFrame DEF data, SameKey
    <2> QED
        BY <1>1, <2>2, <2>3, <2>4, <2>5, <2>6, <2>7
        DEF Next, SweepStep, BeginSweep, ScanRecord, ScanEnd, EvictMissing, EvictEnd,
            ScanTombstone, TombscanEnd, SweepEnd, Tick
<1>2. CASE UNCHANGED vars
    <2>1. KeyExact(k)
        BY <1>2 DEF vars, ExactInv
    <2> QED BY <1>2, <2>1, ExactFrame DEF vars, SameKey
<1> QED BY <1>1, <1>2

(* Whatever the other keys and threads do, between operations a key that   *)
(* two operations have never worked on at once is listed in the indexes    *)
(* exactly as its record says, and has no tombstone while it is live.      *)
THEOREM IndexesExact == Spec => []IndexExact
<1>1. Spec => []ExactInv
    BY TypeInvariant, ExactInit, ExactNext, PTL DEF Spec
<1> QED BY <1>1, ExactInvImplies, PTL

-----------------------------------------------------------------------------
(* IndexComplete.  The inductive invariant has two parts, for a key where  *)
(* no delete has overlapped another operation.  A delete works alone, on a *)
(* key that has no record.  And a live record is listed, or an upsert is   *)
(* in front of listing it, be it stuck there or not: what is stuck never   *)
(* moves again, so only the conclusion has to tell it apart.               *)

DeleteAlone(k) ==
    \A t \in Threads : Active(t, k) /\ call[t].op = "delete" =>
        entities[k] = NoRecord /\ \A u \in Threads : u # t => ~Active(u, k)

(* An upsert of key k has not come past the listing in index i.            *)
UnderWay(t, k, i) ==
    /\ Active(t, k)
    /\ call[t].op = "upsert"
    /\ \/ pc[t] \in {"unindex", "prune", "hung", "insert"}
       \/ /\ pc[t] = "index"
          /\ call[t].pos <= i
          /\ entities[k].val = call[t].rec.val

Restored(k) ==
    \A i \in Indexes : Field(i, entities[k]) # NoField =>
        \/ k \in index[i][Field(i, entities[k])]
        \/ \E t \in Threads : UnderWay(t, k, i)

CompleteInv == \A k \in Keys : k \notin delraced => DeleteAlone(k) /\ Restored(k)

LEMMA NotStuckWillList ==
    ASSUME NEW k \in Keys, NEW t \in Threads, NEW i \in Indexes,
           UnderWay(t, k, i), ~Stuck(t)
    PROVE  WillList(t, k, i)
BY DEF UnderWay, Stuck, WillList

LEMMA CompleteInvImplies == CompleteInv => IndexComplete
<1> SUFFICES ASSUME CompleteInv, NEW k \in Keys, NEW i \in Indexes,
                    k \notin delraced, Field(i, entities[k]) # NoField,
                    Quiet(k) \/ \A t \in Threads : ~Stuck(t),
                    k \notin index[i][Field(i, entities[k])]
             PROVE  \E t \in Threads : WillList(t, k, i)
    BY DEF IndexComplete
<1>1. PICK t \in Threads : UnderWay(t, k, i)
    BY DEF CompleteInv, Restored
<1>2. ~Quiet(k)
    BY <1>1 DEF Quiet, UnderWay
<1> QED BY <1>1, <1>2, NotStuckWillList

LEMMA CompleteInit == Init => CompleteInv
<1> SUFFICES ASSUME Init, NEW k \in Keys PROVE DeleteAlone(k) /\ Restored(k)
    BY DEF CompleteInv
<1>1. \A t \in Threads : ~Active(t, k)
    BY DEF Init, Active
<1>2. entities[k] = NoRecord
    BY DEF Init
<1> QED BY <1>1, <1>2, NoField_NoRecord DEF DeleteAlone, Restored

LEMMA DeleteAloneFrame ==
    ASSUME NEW k \in Keys, DeleteAlone(k), entities'[k] = entities[k],
           \A u \in Threads : Active(u, k)' => Active(u, k) /\ call'[u].op = call[u].op
    PROVE  DeleteAlone(k)'
BY DEF DeleteAlone

LEMMA RestoredFrame ==
    ASSUME NEW k \in Keys, Restored(k), entities'[k] = entities[k],
           \A i \in Indexes, f \in Fields : k \in index[i][f] => k \in index'[i][f],
           \A i \in Indexes : Field(i, entities[k]) # NoField =>
                Field(i, entities[k]) \in Fields,
           \A u \in Threads, i \in Indexes : UnderWay(u, k, i) =>
                UnderWay(u, k, i)' \/ Field(i, entities[k]) = NoField
                                   \/ k \in index'[i][Field(i, entities[k])]
    PROVE  Restored(k)'
<1> SUFFICES ASSUME NEW i \in Indexes, Field(i, entities[k])' # NoField
             PROVE  \/ (k \in index[i][Field(i, entities[k])])'
                    \/ (\E t \in Threads : UnderWay(t, k, i))'
    BY DEF Restored
<1>1. Field(i, entities[k])' = Field(i, entities[k])
    BY DEF Field
<1>2. CASE k \in index[i][Field(i, entities[k])]
    BY <1>1, <1>2
<1>3. CASE \E u \in Threads : UnderWay(u, k, i)
    BY <1>1, <1>3
<1> QED BY <1>1, <1>2, <1>3 DEF Restored

LEMMA UnderWayFrame ==
    ASSUME NEW k \in Keys, NEW u \in Threads, NEW i \in Indexes, UnderWay(u, k, i),
           pc'[u] = pc[u], call'[u] = call[u], entities'[k] = entities[k]
    PROVE  UnderWay(u, k, i)'
BY DEF UnderWay, Active

LEMMA EntityField ==
    ASSUME DataOK, NEW k \in Keys, NEW i \in Indexes, Field(i, entities[k]) # NoField
    PROVE  Field(i, entities[k]) \in Fields
BY FieldType DEF DataOK

(* A step of another operation, or one that begins an operation.           *)
LEMMA CompleteFrame ==
    ASSUME TypeInv, NEW k \in Keys, DeleteAlone(k), Restored(k), SameKey(k),
           \A u \in Threads : \/ pc'[u] = pc[u] /\ call'[u] = call[u]
                              \/ ~Active(u, k) /\ ~Active(u, k)'
    PROVE  DeleteAlone(k)' /\ Restored(k)'
<1>1. \A u \in Threads : Active(u, k)' => Active(u, k) /\ call'[u].op = call[u].op
    BY DEF Active
<1>2. \A u \in Threads, i \in Indexes : UnderWay(u, k, i) => UnderWay(u, k, i)'
    BY UnderWayFrame DEF UnderWay, SameKey
<1> QED BY <1>1, <1>2, DeleteAloneFrame, RestoredFrame, EntityField DEF SameKey, TypeInv

(* A step of a delete that works alone on its key, which has no record.    *)
LEMMA DeleteStepComplete ==
    ASSUME TypeInv, NEW t \in Threads, Continue(t),
           NEW k \in Keys, k = call[t].key, call[t].op = "delete",
           DeleteAlone(k)
    PROVE  DeleteAlone(k)' /\ Restored(k)'
<1>0. /\ pc[t] # "idle"
      /\ Fits(call[t], pc[t])
      /\ \A u \in Threads : u # t => pc'[u] = pc[u] /\ call'[u] = call[u]
    BY ContinueFrame
<1>1. entities[k] = NoRecord /\ \A u \in Threads : u # t => ~Active(u, k)
    BY <1>0 DEF DeleteAlone, Active
<1>2. pc[t] \in {"unindex", "prune", "hung", "bury"}
    BY <1>0 DEF Fits
<1>3. UNCHANGED entities
    BY <1>2
    DEF Continue, RejectOverBudget, AcceptBudget, Stamp, Insert, SkipUnindex,
        UnindexSorted, UnindexHash, HangOnEmptySet, LeaveNonEmptySet, SkipIndex,
        AddIndex, RemoveTombstone, StoreMemory, Account, Bury, data
<1>4. \A u \in Threads : u # t => ~Active(u, k)'
    BY <1>0, <1>1 DEF Active
<1>5. DeleteAlone(k)'
    BY <1>1, <1>3, <1>4 DEF DeleteAlone
<1>6. Restored(k)'
    BY <1>1, <1>3, NoField_NoRecord DEF Restored, Field
<1> QED BY <1>5, <1>6

LEMMA UpsertStepRestored ==
    ASSUME TypeInv, NEW t \in Threads, Continue(t),
           NEW k \in Keys, k = call[t].key, call[t].op = "upsert",
           Restored(k)
    PROVE  Restored(k)'
<1>0. /\ pc[t] # "idle"
      /\ Fits(call[t], pc[t]) /\ call[t] \in Call
      /\ \A u \in Threads : u # t => pc'[u] = pc[u] /\ call'[u] = call[u]
      /\ pc'[t] # "idle" => call'[t].key = call[t].key
      /\ DataOK /\ LocalsOK /\ NumIndexes \in Nat
    BY ContinueFrame, StoreAssumption DEF TypeInv, Fits
<1>a. ASSUME UNCHANGED <<entities, index>>,
             \A i \in Indexes : UnderWay(t, k, i) =>
                UnderWay(t, k, i)' \/ Field(i, entities[k]) = NoField
      PROVE  Restored(k)'
    <2>1. \A u \in Threads, i \in Indexes : u # t /\ UnderWay(u, k, i) => UnderWay(u, k, i)'
        BY <1>0, <1>a, UnderWayFrame
    <2> QED BY <1>0, <1>a, <2>1, RestoredFrame, EntityField
<1>b. ASSUME \A i \in Indexes : UnderWay(t, k, i)'
      PROVE  Restored(k)'
    BY <1>b DEF Restored
<1>1. CASE RejectOverBudget(t)
    <2>1. \A i \in Indexes : ~UnderWay(t, k, i)
        BY <1>1 DEF RejectOverBudget, UnderWay
    <2> QED BY <1>a, <1>1, <2>1 DEF RejectOverBudget, data
<1>2. CASE AcceptBudget(t)
    <2>1. \A i \in Indexes : ~UnderWay(t, k, i)
        BY <1>2 DEF AcceptBudget, UnderWay
    <2> QED BY <1>a, <1>2, <2>1 DEF AcceptBudget, data
<1>3. CASE Stamp(t)
    <2>1. pc'[t] = "insert" /\ call'[t].op = "upsert"
        BY <1>0, <1>3 DEF Stamp, Goto, LocalsOK, Call
    <2> QED BY <1>0, <1>b, <2>1 DEF UnderWay, Active
<1>4. CASE Insert(t)
    <2>1. /\ pc'[t] = "index" /\ call'[t].op = "upsert" /\ call'[t].pos = 1
          /\ call'[t].rec = call[t].rec
          /\ entities'[k] = call[t].rec
        BY <1>0, <1>4 DEF Insert, Goto, LocalsOK, Call, DataOK
    <2> QED BY <1>0, <1>b, <2>1 DEF UnderWay, Active, Indexes
<1>5. CASE \/ SkipUnindex(t) \/ UnindexSorted(t) \/ UnindexHash(t)
           \/ HangOnEmptySet(t) \/ LeaveNonEmptySet(t)
    <2>1. pc'[t] \in {"unindex", "prune", "hung"}
        BY <1>0, <1>5
        DEF SkipUnindex, UnindexSorted, UnindexHash, HangOnEmptySet,
            LeaveNonEmptySet, Goto, LocalsOK
    <2>2. call'[t].op = "upsert"
        <3>1. UNCHANGED call \/ Advance(t)
            BY <1>5
            DEF SkipUnindex, UnindexSorted, UnindexHash, HangOnEmptySet,
                LeaveNonEmptySet
        <3> QED BY <1>0, <3>1, AdvanceCall
    <2> QED BY <1>0, <1>b, <2>1, <2>2 DEF UnderWay, Active
<1>6. CASE SkipIndex(t)
    <2>1. /\ pc[t] = "index" /\ pc'[t] = "index"
          /\ call'[t].pos = call[t].pos + 1 /\ call'[t].rec = call[t].rec
          /\ call'[t].op = "upsert" /\ call'[t].key = k
          /\ UNCHANGED <<entities, index>>
          /\ call[t].pos \in Indexes /\ Field(call[t].pos, call[t].rec) = NoField
        BY <1>0, <1>6, AdvanceCall DEF SkipIndex, data
    <2>2. ASSUME NEW i \in Indexes, UnderWay(t, k, i), i # call[t].pos
          PROVE  UnderWay(t, k, i)'
        <3>1. call[t].pos <= i /\ entities[k].val = call[t].rec.val
            BY <2>1, <2>2 DEF UnderWay
        <3>2. call[t].pos + 1 <= i
            BY <1>0, <2>1, <2>2, <3>1 DEF Indexes
        <3> QED BY <2>1, <3>1, <3>2 DEF UnderWay, Active
    <2>3. ASSUME NEW i \in Indexes, UnderWay(t, k, i), i = call[t].pos
          PROVE  Field(i, entities[k]) = NoField
        <3>1. entities[k].val = call[t].rec.val
            BY <2>1, <2>3 DEF UnderWay
        <3>2. call[t].rec # NoRecord
            BY <1>0, StoreAssumption DEF Fits
        <3> QED BY <2>1, <2>3, <3>1, <3>2 DEF Field
    <2> QED BY <1>a, <2>1, <2>2, <2>3
<1>7. CASE AddIndex(t)
    <2> DEFINE p == call[t].pos  f == Field(p, call[t].rec)
    <2>1. /\ pc[t] = "index" /\ pc'[t] = "index"
          /\ call'[t].pos = call[t].pos + 1 /\ call'[t].rec = call[t].rec
          /\ call'[t].op = "upsert" /\ call'[t].key = k
          /\ UNCHANGED entities
          /\ p \in Indexes /\ f \in Fields
          /\ index' = Listed(p, f, k)
        BY <1>0, <1>7, AdvanceCall, FieldType DEF AddIndex, Call
    <2> HIDE DEF f
    <2>2. \A i \in Indexes, g \in Fields : k \in index[i][g] => k \in index'[i][g]
        BY <1>0, <2>1, ListingFrame
    <2>3. k \in index'[p][f]
        BY <1>0, <2>1, ListingFrame
    <2>4. ASSUME NEW i \in Indexes, UnderWay(t, k, i), i # p
          PROVE  UnderWay(t, k, i)'
        <3>1. call[t].pos <= i /\ entities[k].val = call[t].rec.val
            BY <2>1, <2>4 DEF UnderWay
        <3>2. call[t].pos + 1 <= i
            BY <1>0, <2>1, <2>4, <3>1 DEF Indexes
        <3> QED BY <2>1, <3>1, <3>2 DEF UnderWay, Active
    <2>5. ASSUME NEW i \in Indexes, UnderWay(t, k, i), i = p
          PROVE  Field(i, entities[k]) = NoField \/ k \in index'[i][Field(i, entities[k])]
        <3>1. entities[k].val = call[t].rec.val
            BY <2>1, <2>5 DEF UnderWay
        <3>2. call[t].rec # NoRecord
            BY <1>0, StoreAssumption DEF Fits
        <3>3. Field(i, entities[k]) = NoField \/ Field(i, entities[k]) = f
            BY <2>5, <3>1, <3>2 DEF Field, f
        <3> QED BY <2>3, <2>5, <3>3
    <2>6. \A u \in Threads, i \in Indexes : u # t /\ UnderWay(u, k, i) => UnderWay(u, k, i)'
        BY <1>0, <2>1, UnderWayFrame
    <2> QED BY <1>0, <2>1, <2>2, <2>4, <2>5, <2>6, RestoredFrame, EntityField
<1>8. CASE RemoveTombstone(t)
    <2>1. \A i \in Indexes : ~UnderWay(t, k, i)
        BY <1>0, <1>8 DEF RemoveTombstone, UnderWay, Indexes, Call
    <2> QED BY <1>a, <1>8, <2>1 DEF RemoveTombstone
<1>9. CASE StoreMemory(t)
    <2>1. \A i \in Indexes : ~UnderWay(t, k, i)
        BY <1>9 DEF StoreMemory, UnderWay
    <2> QED BY <1>a, <1>9, <2>1 DEF StoreMemory
<1>10. ~Account(t) /\ ~Bury(t)
    BY <1>0 DEF Account, Bury, Fits
<1> QED
    BY <1>1, <1>2, <1>3, <1>4, <1>5, <1>6, <1>7, <1>8, <1>9, <1>10 DEF Continue

LEMMA ContinueOp ==
    ASSUME TypeInv, NEW t \in Threads, Continue(t), pc'[t] # "idle"
    PROVE  call'[t].op = call[t].op
<1>0. LocalsOK /\ call[t] \in Call
    BY ContinueFrame DEF TypeInv, Fits
<1>1. CASE UNCHANGED call
    BY <1>1
<1>2. CASE Advance(t)
    BY <1>0, <1>2, AdvanceCall
<1>3. CASE AcceptBudget(t) \/ Stamp(t) \/ Insert(t)
    BY <1>0, <1>3 DEF AcceptBudget, Stamp, Insert, LocalsOK, Call
<1>4. CASE Return(t)
    BY <1>0, <1>4 DEF Return, LocalsOK
<1> QED
    BY <1>1, <1>2, <1>3, <1>4
    DEF Continue, RejectOverBudget, SkipUnindex, UnindexSorted, UnindexHash,
        HangOnEmptySet, LeaveNonEmptySet, SkipIndex, AddIndex, RemoveTombstone,
        StoreMemory, Account, Bury

LEMMA UpsertStepAlone ==
    ASSUME TypeInv, NEW t \in Threads, Continue(t),
           NEW k \in Keys, k = call[t].key, call[t].op = "upsert",
           DeleteAlone(k)
    PROVE  DeleteAlone(k)'
<1>0. /\ pc[t] # "idle"
      /\ \A u \in Threads : u # t => pc'[u] = pc[u] /\ call'[u] = call[u]
    BY ContinueFrame
<1>1. \A u \in Threads : ~(Active(u, k) /\ call[u].op = "delete")
    BY <1>0 DEF DeleteAlone, Active
<1>2. ~(Active(t, k)' /\ call'[t].op = "delete")
    BY ContinueOp DEF Active
<1> QED BY <1>0, <1>1, <1>2 DEF DeleteAlone, Active

LEMMA ContinueComplete ==
    ASSUME TypeInv, NEW t \in Threads, Continue(t),
           NEW k \in Keys, DeleteAlone(k), Restored(k)
    PROVE  DeleteAlone(k)' /\ Restored(k)'
<1>0. /\ pc[t] # "idle"
      /\ Fits(call[t], pc[t])
      /\ \A u \in Threads : u # t => pc'[u] = pc[u] /\ call'[u] = call[u]
      /\ pc'[t] # "idle" => call'[t].key = call[t].key
    BY ContinueFrame
<1>1. CASE k = call[t].key
    <2>1. call[t].op \in {"upsert", "delete"}
        BY <1>0 DEF Fits, Call
    <2> QED BY <1>1, <2>1, DeleteStepComplete, UpsertStepRestored, UpsertStepAlone
<1>2. CASE k # call[t].key
    <2>1. ~Active(t, k) /\ ~Active(t, k)'
        BY <1>0, <1>2 DEF Active
    <2> QED BY <1>0, <1>2, <2>1, ContinueSameKey, CompleteFrame
<1> QED BY <1>1, <1>2

LEMMA TakeComplete ==
    ASSUME TypeInv, NEW t \in Threads, pc[t] = "idle", NEW c \in Keys, Take(t, c),
           NEW k \in Keys, DeleteAlone(k), Restored(k), ~DeleteOverlap(k)'
    PROVE  DeleteAlone(k)' /\ Restored(k)'
<1>0. /\ LocalsOK /\ DataOK
      /\ pc'[t] = "unindex" /\ call'[t].key = c /\ call'[t].op = "delete"
      /\ \A u \in Threads : u # t => pc'[u] = pc[u] /\ call'[u] = call[u]
      /\ UNCHANGED <<index, tombstones>>
      /\ entities' = [entities EXCEPT ![c] = NoRecord]
    BY DEF TypeInv, LocalsOK, Take, Goto
<1>1. CASE k = c
    <2>1. entities'[k] = NoRecord
        BY <1>0, <1>1 DEF DataOK
    <2>2. Active(t, k)' /\ \A u \in Threads : u # t => ~Active(u, k)'
        BY <1>0, <1>1 DEF DeleteOverlap, Active
    <2>3. Restored(k)'
        BY <2>1, NoField_NoRecord DEF Restored, Field
    <2> QED BY <2>1, <2>2, <2>3 DEF DeleteAlone
<1>2. CASE k # c
    <2>1. SameKey(k)
        BY <1>0, <1>2 DEF SameKey, DataOK
    <2>2. ~Active(t, k) /\ ~Active(t, k)'
        BY <1>0, <1>2 DEF Active
    <2> QED BY <1>0, <2>1, <2>2, CompleteFrame
<1> QED BY <1>1, <1>2

LEMMA BeginUpsertComplete ==
    ASSUME TypeInv, NEW t \in Workers, NEW c \in Keys, NEW v \in Values,
           BeginUpsert(t, c, v),
           NEW k \in Keys, DeleteAlone(k), Restored(k), ~DeleteOverlap(k)'
    PROVE  DeleteAlone(k)' /\ Restored(k)'
<1>0. /\ LocalsOK /\ DataOK /\ t \in Threads
      /\ pc[t] = "idle"
      /\ pc'[t] = "budget" /\ call'[t].key = c /\ call'[t].op = "upsert"
      /\ \A u \in Threads : u # t => pc'[u] = pc[u] /\ call'[u] = call[u]
      /\ UNCHANGED <<entities, index, tombstones>>
    BY DEF TypeInv, LocalsOK, BeginUpsert, Goto, Threads, data
<1>1. \A u \in Threads, i \in Indexes : UnderWay(u, k, i) => UnderWay(u, k, i)'
    BY <1>0, UnderWayFrame DEF UnderWay, Active
<1>2. Restored(k)'
    BY <1>0, <1>1, RestoredFrame, EntityField
<1>3. DeleteAlone(k)'
    <2> SUFFICES ASSUME NEW u \in Threads, Active(u, k)', call'[u].op = "delete"
                 PROVE  entities'[k] = NoRecord /\ \A w \in Threads : w # u => ~Active(w, k)'
        BY DEF DeleteAlone
    <2>1. u # t /\ Active(u, k) /\ call[u].op = "delete"
        BY <1>0 DEF Active
    <2> QED BY <1>0, <2>1 DEF DeleteAlone, DeleteOverlap
<1> QED BY <1>2, <1>3

LEMMA CompleteNext == TypeInv /\ CompleteInv /\ [Next]_vars => CompleteInv'
<1> SUFFICES ASSUME TypeInv, CompleteInv, [Next]_vars, NEW k \in Keys, k \notin delraced'
             PROVE  DeleteAlone(k)' /\ Restored(k)'
    BY DEF CompleteInv
<1>0. ASSUME UNCHANGED <<entities, index, pc, call>>, DeleteAlone(k), Restored(k)
      PROVE  DeleteAlone(k)' /\ Restored(k)'
    <2>1. \A u \in Threads, i \in Indexes : UnderWay(u, k, i) => UnderWay(u, k, i)'
        BY <1>0, UnderWayFrame
    <2>2. Restored(k)'
        BY <1>0, <2>1, RestoredFrame, EntityField DEF TypeInv
    <2>3. DeleteAlone(k)'
        BY <1>0, DeleteAloneFrame, SMTT(30) DEF Active
    <2> QED BY <2>2, <2>3
<1>1. CASE Next
    <2>1. DeleteAlone(k) /\ Restored(k) /\ ~DeleteOverlap(k)'
        BY <1>1 DEF Next, NoteRaces, CompleteInv
    <2>2. CASE \E t \in Workers, c \in Keys, v \in Values : BeginUpsert(t, c, v)
        BY <2>1, <2>2, BeginUpsertComplete
    <2>3. CASE \E t \in Workers, c \in Keys : BeginDelete(t, c)
        BY <2>1, <2>3, TakeComplete DEF BeginDelete, Threads
    <2>4. CASE \E t \in Threads : Continue(t)
        BY <2>1, <2>4, ContinueComplete
    <2>5. CASE \E s \in Sweepers, c \in Keys : Evict(s, c)
        BY <2>1, <2>5, TakeComplete DEF Evict, Threads
    <2>6. CASE UNCHANGED <<entities, index, pc, call>>
        BY <1>0, <2>1, <2>6
    <2> QED
        BY <1>1, <2>2, <2>3, <2>4, <2>5, <2>6
        DEF Next, SweepStep, BeginSweep, ScanRecord, ScanEnd, EvictMissing, EvictEnd,
            ScanTombstone, TombscanEnd, Reap, SweepEnd, Tick, data
<1>2. CASE UNCHANGED vars
    BY <1>0, <1>2 DEF vars, CompleteInv
<1> QED BY <1>1, <1>2

(* However many upserts of a key interleave, each live record of a key at  *)
(* rest is in every index it belongs to; and while no thread is stuck in a *)
(* hash index, so is every live record, or an upsert is on its way to list *)
(* it.                                                                     *)
THEOREM IndexesComplete == Spec => []IndexComplete
<1>1. Spec => []CompleteInv
    BY TypeInvariant, CompleteInit, CompleteNext, PTL DEF Spec
<1> QED BY <1>1, CompleteInvImplies, PTL

-----------------------------------------------------------------------------
(* Sorted indexes: nothing is ever stuck, so that the exclusion falls away.*)

SortedOnly == \A i \in Indexes : Kind[i] = "sorted"

NotPruning == \A t \in Threads : pc[t] \notin {"prune", "hung"}

(* IndexComplete without the exclusion of stuck threads.                   *)
NeverLost ==
    \A k \in Keys, i \in Indexes :
        k \notin delraced /\ Field(i, entities[k]) # NoField =>
            \/ k \in index[i][Field(i, entities[k])]
            \/ \E t \in Threads : WillList(t, k, i)

LEMMA SortedNext == SortedOnly /\ TypeInv /\ NotPruning /\ [Next]_vars => NotPruning'
<1> SUFFICES ASSUME SortedOnly, TypeInv, NotPruning, [Next]_vars
             PROVE  NotPruning'
    OBVIOUS
<1>0. pc \in [Threads -> Steps]
    BY DEF TypeInv, LocalsOK
<1>1. ASSUME NEW t \in Threads, NEW p, p \notin {"prune", "hung"}, Goto(t, p)
      PROVE  NotPruning'
    BY <1>0, <1>1 DEF NotPruning, Goto
<1>2. ASSUME NEW t \in Threads, Return(t)
      PROVE  NotPruning'
    BY <1>0, <1>2 DEF NotPruning, Return
<1>3. ASSUME UNCHANGED pc
      PROVE  NotPruning'
    BY <1>3 DEF NotPruning
<1>4. ASSUME NEW t \in Threads, Continue(t)
      PROVE  NotPruning'
    <2>1. ~UnindexHash(t)
        BY DEF SortedOnly, UnindexHash
    <2>2. ~HangOnEmptySet(t) /\ ~LeaveNonEmptySet(t)
        BY DEF NotPruning, HangOnEmptySet, LeaveNonEmptySet
    <2>3. CASE \/ AcceptBudget(t) \/ Stamp(t) \/ Insert(t) \/ RemoveTombstone(t)
               \/ Account(t)
        BY <1>1, <2>3 DEF AcceptBudget, Stamp, Insert, RemoveTombstone, Account
    <2>4. CASE RejectOverBudget(t) \/ StoreMemory(t) \/ Bury(t)
        BY <1>2, <2>4 DEF RejectOverBudget, StoreMemory, Bury
    <2>5. CASE SkipUnindex(t) \/ UnindexSorted(t) \/ SkipIndex(t) \/ AddIndex(t)
        BY <1>3, <2>5 DEF SkipUnindex, UnindexSorted, SkipIndex, AddIndex
    <2> QED BY <1>4, <2>1, <2>2, <2>3, <2>4, <2>5 DEF Continue
<1>5. ASSUME NEW t \in Threads, NEW k \in Keys, Take(t, k)
      PROVE  NotPruning'
    BY <1>1, <1>5 DEF Take
<1>6. CASE \E t \in Workers, k \in Keys, v \in Values : BeginUpsert(t, k, v)
    BY <1>1, <1>6 DEF BeginUpsert, Threads
<1>7. CASE \E t \in Workers, k \in Keys : BeginDelete(t, k)
    BY <1>5, <1>7 DEF BeginDelete, Threads
<1>8. CASE \E s \in Sweepers, k \in Keys : Evict(s, k)
    BY <1>5, <1>8 DEF Evict, Threads
<1>9. CASE UNCHANGED pc
    BY <1>3, <1>9
<1> QED
    BY <1>4, <1>6, <1>7, <1>8, <1>9
    DEF vars, Next, SweepStep, BeginSweep, ScanRecord, ScanEnd, EvictMissing, EvictEnd,
        ScanTombstone, TombscanEnd, Reap, SweepEnd, Tick

LEMMA NotPruningNotStuck == NotPruning => \A t \in Threads : ~Stuck(t)
BY DEF NotPruning, Stuck

(* With sorted indexes only, no operation ever takes an entry away and     *)
(* hangs: however upserts interleave, a live record that an index does not *)
(* list is about to be listed by an upsert that runs on.                   *)
THEOREM SortedIndexesComplete == SortedOnly => (Spec => []NeverLost)
<1> SUFFICES ASSUME SortedOnly PROVE Spec => []NeverLost
    OBVIOUS
<1>1. Init => NotPruning
    BY DEF Init, NotPruning
<1>2. TypeInv /\ NotPruning /\ [Next]_vars => NotPruning'
    BY SortedNext
<1>3. Spec => []NotPruning
    BY TypeInvariant, <1>1, <1>2, PTL DEF Spec
<1>4. IndexComplete /\ NotPruning => NeverLost
    BY NotPruningNotStuck DEF IndexComplete, NeverLost
<1> QED BY <1>3, <1>4, IndexesComplete, PTL

=============================================================================
