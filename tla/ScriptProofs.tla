---------------------------- MODULE ScriptProofs ----------------------------
(***************************************************************************)
(* Whatever scripts do, the store takes steps of Store only, so that every *)
(* theorem about Store holds of a store that scripts use.  A range lookup  *)
(* without a limit misses no record that stays as it is; one with a limit, *)
(* left alone, fills it.  With one writer the store is an atomic map, its  *)
(* counter the exact size of the records, and a batch applied to a prefix. *)
(***************************************************************************)
EXTENDS Scripts, StoreProofs, Sums

-----------------------------------------------------------------------------
(* Scripts implements Store. *)

LEMMA ScriptStepStutters ==
    ASSUME NEW t \in Workers, ScriptStep(t)
    PROVE  UNCHANGED vars
BY DEF ScriptStep, Invoke, CallHandler, NoHandler, Throw, Respond, ReturnBatch,
       SkipOp, RefuseOp, EndBatch

LEMMA LookupStepStutters ==
    ASSUME NEW r \in Readers, LookupStep(r)
    PROVE  UNCHANGED vars /\ UNCHANGED script
BY DEF LookupStep, BeginLookup, ReadRecord, EndLookup

ScriptsOK ==
    /\ script \in [Workers -> Invocation]
    /\ \A t \in Workers : script[t].at # "stopped" => script[t].next # 0

LEMMA SeqOfSet ==
    ASSUME NEW S, NEW T, NEW s \in Seq(S), \A i \in 1..Len(s) : s[i] \in T
    PROVE  s \in Seq(T)
OBVIOUS

LEMMA ScriptInitTypes == ScriptInit => ScriptsOK
BY DEF ScriptInit, ScriptsOK, Idle, Invocation, Styles

LEMMA PayloadsType ==
    ASSUME TypeInv
    PROVE  Payloads \in [Keys -> Values \cup {NoRecord}]
BY DEF TypeInv, DataOK, MaybeRecord, Record, Payloads

LEMMA ParsedType ==
    ASSUME ScriptAssumption, NEW batch \in Batches
    PROVE  Parsed(batch) \in Seq(Op)
<1>1. batch \in Seq(Op \cup {Malformed})
    BY DEF ScriptAssumption
<1>2. CASE Malformed \in ToSet(batch)
    BY <1>2 DEF Parsed
<1>3. CASE Malformed \notin ToSet(batch)
    <2>1. \A i \in 1..Len(batch) : batch[i] \in Op
        BY <1>1, <1>3 DEF ToSet
    <2>2. batch \in Seq(Op)
        BY <1>1, <2>1, SeqOfSet
    <2> QED
        BY <1>3, <2>2 DEF Parsed
<1> QED
    BY <1>2, <1>3

LEMMA SetInvocation ==
    ASSUME ScriptsOK, NEW t \in Workers, NEW a \in Invocation,
           a.at # "stopped" => a.next # 0,
           script' = [script EXCEPT ![t] = a]
    PROVE  ScriptsOK'
BY DEF ScriptsOK

LEMMA IdleType == Idle \in Invocation /\ Idle.at # "stopped" /\ Idle.next # 0
BY DEF Idle, Invocation, Styles

LEMMA InvokedType ==
    ASSUME NEW a \in Invocation, NEW kind \in AllKinds, NEW style \in Styles
    PROVE  LET b == [a EXCEPT !.at = "body", !.kind = kind, !.style = style]
           IN b \in Invocation /\ b.next = a.next
BY DEF Invocation

LEMMA BatchType ==
    ASSUME NEW a \in Invocation, NEW ops \in Seq(Op),
           NEW base \in [Keys -> Values \cup {NoRecord}]
    PROVE  [a EXCEPT !.at = "applying", !.kind = "none", !.ops = ops, !.base = base]
               \in Invocation
BY DEF Invocation

LEMMA ScriptStepTypes ==
    ASSUME ScriptAssumption, TypeInv, ScriptsOK, NEW t \in Workers, ScriptStep(t)
    PROVE  ScriptsOK'
<1>0. script[t] \in Invocation /\ (script[t].at # "stopped" => script[t].next # 0)
    BY DEF ScriptsOK
<1>1. CASE \E kind \in Kinds, style \in Styles : Invoke(t, kind, style)
    <2>1. PICK kind \in Kinds, style \in Styles : Invoke(t, kind, style)
        BY <1>1
    <2> DEFINE a == [Idle EXCEPT !.at = "body", !.kind = kind, !.style = style]
    <2>2. a \in Invocation /\ a.next # 0
        BY ScriptAssumption, IdleType, InvokedType DEF ScriptAssumption
    <2>3. script' = [script EXCEPT ![t] = a]
        BY <2>1 DEF Invoke
    <2> QED
        BY <2>2, <2>3, SetInvocation
<1>2. CASE CallHandler(t)
    <2> DEFINE a == [script[t] EXCEPT !.at = "handler", !.style = "none"]
    <2>1. a \in Invocation /\ a.next = script[t].next
        BY <1>0 DEF Invocation, Styles
    <2>2. script' = [script EXCEPT ![t] = a] /\ script[t].at = "body"
        BY <1>2 DEF CallHandler, At
    <2> QED
        BY <1>0, <2>1, <2>2, SetInvocation
<1>3. CASE NoHandler(t) \/ Throw(t) \/ Respond(t) \/ EndBatch(t)
    <2>1. script' = [script EXCEPT ![t] = Idle]
        BY <1>3 DEF NoHandler, Throw, Respond, EndBatch, Leave
    <2> QED
        BY <2>1, IdleType, SetInvocation
<1>4. CASE \E batch \in Batches : ReturnBatch(t, batch)
    <2>1. PICK batch \in Batches : ReturnBatch(t, batch)
        BY <1>4
    <2> DEFINE a == [script[t] EXCEPT !.at = "applying", !.kind = "none",
                                      !.ops = Parsed(batch), !.base = Payloads]
    <2>2. a \in Invocation
        BY <1>0, ParsedType, PayloadsType, BatchType
    <2>3. a.next = script[t].next
        BY <1>0 DEF Invocation
    <2>4. script' = [script EXCEPT ![t] = a] /\ script[t].at = "handler"
        BY <2>1 DEF ReturnBatch, At
    <2> QED
        BY <1>0, <2>2, <2>3, <2>4, SetInvocation
<1>5. CASE SkipOp(t)
    <2> DEFINE a == [script[t] EXCEPT !.next = @ + 1]
    <2>1. a \in Invocation /\ a.next # 0
        BY <1>0 DEF Invocation
    <2>2. script' = [script EXCEPT ![t] = a]
        BY <1>5 DEF SkipOp, NextOp
    <2> QED
        BY <2>1, <2>2, SetInvocation
<1>6. CASE RefuseOp(t)
    <2> DEFINE a == [script[t] EXCEPT !.at = "stopped"]
    <2>1. a \in Invocation /\ a.at = "stopped"
        BY <1>0 DEF Invocation
    <2>2. script' = [script EXCEPT ![t] = a]
        BY <1>6 DEF RefuseOp, Become
    <2> QED
        BY <2>1, <2>2, SetInvocation
<1> QED
    BY <1>1, <1>2, <1>3, <1>4, <1>5, <1>6 DEF ScriptStep

LEMMA StoreStepTypes ==
    ASSUME ScriptsOK, NEW t \in Workers, StoreStep(t)
    PROVE  ScriptsOK'
<1>0. script[t] \in Invocation /\ (script[t].at # "stopped" => script[t].next # 0)
    BY DEF ScriptsOK
<1>1. CASE UNCHANGED script
    BY <1>1 DEF ScriptsOK
<1>2. CASE ApplyUpsert(t) \/ ApplyDelete(t)
    <2> DEFINE a == [script[t] EXCEPT !.next = @ + 1]
    <2>1. a \in Invocation /\ a.next # 0
        BY <1>0 DEF Invocation
    <2>2. script' = [script EXCEPT ![t] = a]
        BY <1>2 DEF ApplyUpsert, ApplyDelete, NextOp
    <2> QED
        BY <2>1, <2>2, SetInvocation
<1>3. CASE OverBudgetStops(t) /\ script[t].at = "applying"
    <2> DEFINE a == [script[t] EXCEPT !.at = "stopped", !.next = @ - 1]
    <2>1. a \in Invocation /\ a.at = "stopped"
        <3>1. script[t].next \in Nat \ {0}
            BY <1>0, <1>3 DEF Invocation
        <3>2. script[t].next - 1 \in Nat
            BY <3>1
        <3> QED
            BY <1>0, <3>2 DEF Invocation
    <2>2. script' = [script EXCEPT ![t] = a]
        BY <1>3 DEF OverBudgetStops
    <2> QED
        BY <2>1, <2>2, SetInvocation
<1> QED
    BY <1>1, <1>2, <1>3 DEF StoreStep, Direct, OpStep, OverBudgetStops

(* A script, or apply_ops on its behalf, begins an operation of the store  *)
(* on a key of the store, or takes the next step of the one under way.     *)
LEMMA StoreStepIsOne ==
    ASSUME ScriptAssumption, NEW t \in Workers, StoreStep(t),
           ScriptsOK
    PROVE  \/ \E k \in Keys, v \in Values : BeginUpsert(t, k, v)
           \/ \E k \in Keys : BeginDelete(t, k)
           \/ Continue(t)
<1>1. CASE Direct(t)
    BY <1>1 DEF Direct
<1>2. CASE OpStep(t)
    BY <1>2 DEF OpStep, Continue
<1>3. CASE ApplyUpsert(t) \/ ApplyDelete(t)
    <2>1. Current(t) \in Op
        <3>1. script[t].at = "applying" /\ script[t].next <= Len(script[t].ops)
            BY <1>3 DEF ApplyUpsert, ApplyDelete, Applying, At
        <3>2. script[t].ops \in Seq(Op) /\ script[t].next \in Nat \ {0}
            BY <3>1 DEF ScriptsOK, Invocation
        <3> QED
            BY <3>1, <3>2 DEF Current
    <2>2. CASE ApplyUpsert(t)
        <3>1. Current(t).key \in Keys /\ Current(t).val \in Values
            BY <2>1, <2>2 DEF ApplyUpsert, Op
        <3> QED
            BY <3>1, <2>2 DEF ApplyUpsert
    <2>3. CASE ApplyDelete(t)
        <3>1. Current(t).key \in Keys
            BY <2>1, <2>3 DEF ApplyDelete, Op
        <3> QED
            BY <3>1, <2>3 DEF ApplyDelete
    <2> QED
        BY <1>3, <2>2, <2>3
<1> QED
    BY <1>1, <1>2, <1>3 DEF StoreStep

ScriptInv == TypeInv /\ ScriptsOK

LEMMA ScriptNextRefines ==
    ASSUME ScriptInv, [ScriptNext]_scriptVars
    PROVE  [Next]_vars
<1>1. CASE UNCHANGED scriptVars
    BY <1>1 DEF scriptVars
<1>2. CASE \E t \in Workers : ScriptStep(t) /\ UNCHANGED look
    BY <1>2, ScriptStepStutters
<1>3. CASE \E t \in Workers : StoreStep(t) /\ NoteRaces /\ NoteLookups
    <2>1. PICK t \in Workers : StoreStep(t) /\ NoteRaces
        BY <1>3
    <2> QED
        BY <2>1, StoreStepIsOne, ScriptAssumption DEF Next, Threads, ScriptInv
<1>4. CASE \E r \in Readers : LookupStep(r)
    BY <1>4, LookupStepStutters
<1> QED
    BY <1>1, <1>2, <1>3, <1>4 DEF ScriptNext

LEMMA ScriptNextTypes ==
    ASSUME ScriptInv, [ScriptNext]_scriptVars
    PROVE  ScriptInv'
<1>1. TypeInv'
    BY ScriptNextRefines, TypeNext DEF ScriptInv
<1>2. ScriptsOK'
    <2>1. CASE UNCHANGED scriptVars
        BY <2>1 DEF scriptVars, ScriptInv, ScriptsOK
    <2>2. CASE \E t \in Workers : ScriptStep(t) /\ UNCHANGED look
        BY <2>2, ScriptStepTypes, ScriptAssumption DEF ScriptInv
    <2>3. CASE \E t \in Workers : StoreStep(t) /\ NoteRaces /\ NoteLookups
        BY <2>3, StoreStepTypes DEF ScriptInv
    <2>4. CASE \E r \in Readers : LookupStep(r)
        BY <2>4, LookupStepStutters DEF ScriptInv, ScriptsOK
    <2> QED
        BY <2>1, <2>2, <2>3, <2>4 DEF ScriptNext
<1> QED
    BY <1>1, <1>2 DEF ScriptInv

LEMMA ScriptInvariant == ScriptSpec => []ScriptInv
<1>1. ScriptInit => ScriptInv
    BY TypeInit, ScriptInitTypes DEF ScriptInit, ScriptInv
<1>2. ScriptInv /\ [ScriptNext]_scriptVars => ScriptInv'
    BY ScriptNextTypes
<1> QED
    BY <1>1, <1>2, PTL DEF ScriptSpec

(* The writes of scripts, direct or returned, are operations of the store  *)
(* and nothing else, whatever handlers return and wherever a batch stops.  *)
THEOREM ScriptsUseTheStore == ScriptSpec => Spec
<1>1. ScriptInit => Init
    BY DEF ScriptInit
<1>2. ScriptInv /\ [ScriptNext]_scriptVars => [Next]_vars
    BY ScriptNextRefines
<1> QED
    BY <1>1, <1>2, ScriptInvariant, PTL DEF ScriptSpec, Spec

(* The indexes are exact under scripts as they are under any other caller. *)
THEOREM ScriptsKeepIndexes == ScriptSpec => []IndexExact
BY ScriptsUseTheStore, IndexesExact, PTL

-----------------------------------------------------------------------------
(* Lookups.  A record no operation has touched since a lookup began is     *)
(* still there, and is either read or still to be read.                    *)

Kept(l) ==
    \A k \in l.steady :
        /\ k \in Keys
        /\ Quiet(k)
        /\ entities[k] # NoRecord
        /\ l.limit = 0 => k \in l.todo \cup l.got

LooksOK ==
    /\ look \in [Readers -> Lookup \cup {NoLookup}]
    /\ \A r \in Readers : look[r] # NoLookup => Kept(look[r])

LEMMA LooksInit == ScriptInit => LooksOK
BY DEF ScriptInit, LooksOK

LEMMA KeptImplies == LooksOK => LookupFindsSteady
<1> SUFFICES ASSUME LooksOK, NEW r \in Readers, LookupDone(r), look[r].limit = 0
             PROVE  look[r].steady \subseteq look[r].got
    BY DEF LookupFindsSteady
<1> QED
    BY DEF LookupDone, LooksOK, Kept

(* What the tree lists in the range includes every matching record at rest.*)
LEMMA ListedCovers ==
    ASSUME TypeInv, IndexExact, NEW i \in Indexes, NEW range \in SUBSET Fields,
           NEW k \in Matches(i, range), k \notin raced, Quiet(k)
    PROVE  /\ k \in ListedIn(i, range)
           /\ k \in Keys
           /\ entities[k] # NoRecord
<1>1. k \in Keys /\ Field(i, entities[k]) \in range
    BY DEF Matches
<1>2. Shows(i, k, entities[k])
    BY <1>1 DEF IndexExact
<1>3. k \in index[i][Field(i, entities[k])]
    BY <1>1, <1>2 DEF Shows
<1>4. entities[k] # NoRecord
    BY <1>1, StoreAssumption DEF Field
<1> QED
    BY <1>1, <1>3, <1>4 DEF ListedIn

(* A cut of the keys leaves keys only, and all of them without a limit.    *)
LEMMA CutsAre ==
    ASSUME NEW S \in SUBSET Keys, NEW limit, NEW cut \in Cuts(S, limit)
    PROVE  cut \in SUBSET Keys /\ (limit = 0 => cut = S)
BY DEF Cuts

LEMMA LookupStepKeeps ==
    ASSUME ScriptInv, IndexExact, LooksOK, NEW r \in Readers, LookupStep(r)
    PROVE  LooksOK'
<1>0. UNCHANGED vars
    BY LookupStepStutters
<1>1. \A l : Kept(l)' <=> Kept(l)
    BY <1>0 DEF Kept, Quiet, Active, vars
<1>2. \A l \in Lookup \cup {NoLookup} :
          look' = [look EXCEPT ![r] = l] /\ (l # NoLookup => Kept(l)) => LooksOK'
    BY <1>1 DEF LooksOK
<1>3. CASE \E i \in Indexes, range \in Ranges, limit \in Limits : BeginLookup(r, i, range, limit)
    <2>1. PICK i \in Indexes, range \in Ranges, limit \in Limits : BeginLookup(r, i, range, limit)
        BY <1>3
    <2>2. PICK keys \in Cuts(ListedIn(i, range), limit) :
              look' = [look EXCEPT ![r] =
                         [limit |-> limit, todo |-> keys, got |-> {},
                          calm |-> AllQuiet /\ raced = {},
                          steady |-> {k \in Matches(i, range) \ raced : Quiet(k)}]]
        BY <2>1 DEF BeginLookup
    <2> DEFINE l == [limit |-> limit, todo |-> keys, got |-> {},
                     calm |-> AllQuiet /\ raced = {},
                     steady |-> {k \in Matches(i, range) \ raced : Quiet(k)}]
    <2>3. range \in SUBSET Fields
        BY ScriptAssumption DEF ScriptAssumption
    <2>4. ListedIn(i, range) \in SUBSET Keys
        BY <2>3 DEF ListedIn, ScriptInv, TypeInv, DataOK
    <2>5. keys \in SUBSET Keys /\ (limit = 0 => keys = ListedIn(i, range))
        BY <2>2, <2>4, CutsAre
    <2>6. l \in Lookup
        BY <2>5 DEF Lookup, Matches
    <2>7. Kept(l)
        BY <2>3, <2>5, ListedCovers DEF Kept, ScriptInv
    <2> QED
        BY <1>2, <2>2, <2>6, <2>7
<1>4. CASE ReadRecord(r)
    <2>1. PICK k \in look[r].todo :
              look' = [look EXCEPT ![r].todo = @ \ {k},
                         ![r].got = IF entities[k] = NoRecord THEN @ ELSE @ \cup {k}]
        BY <1>4 DEF ReadRecord
    <2>2. look[r] \in Lookup /\ Kept(look[r])
        BY <1>4 DEF ReadRecord, LooksOK
    <2> DEFINE got == IF entities[k] = NoRecord THEN look[r].got ELSE look[r].got \cup {k}
               l == [look[r] EXCEPT !.todo = @ \ {k}, !.got = got]
    <2>3. look' = [look EXCEPT ![r] = l]
        BY <2>1
    <2>4. /\ l \in Lookup
          /\ l.steady = look[r].steady /\ l.limit = look[r].limit
          /\ l.todo = look[r].todo \ {k} /\ l.got = got
        BY <2>1, <2>2 DEF Lookup
    <2>5. Kept(l)
        BY <2>2, <2>4 DEF Kept
    <2> QED
        BY <1>2, <2>3, <2>4, <2>5
<1>5. CASE EndLookup(r)
    BY <1>2, <1>5 DEF EndLookup
<1> QED
    BY <1>3, <1>4, <1>5 DEF LookupStep

(* An operation changes the record of a key only while it is active on it. *)
LEMMA QuietRecordStays ==
    ASSUME TypeInv, Next, NEW k \in Keys, Quiet(k), Quiet(k)'
    PROVE  entities'[k] = entities[k]
<1> USE DEF Quiet, Active
<1>1. CASE \E t \in Workers, j \in Keys, v \in Values : BeginUpsert(t, j, v)
    BY <1>1 DEF BeginUpsert, data
<1>2. ASSUME NEW t \in Threads, NEW j \in Keys, Take(t, j)
      PROVE  entities'[k] = entities[k]
    <2>1. pc'[t] = "unindex" /\ call'[t].key = j
        BY <1>2 DEF Take, Goto, TypeInv, LocalsOK
    <2>2. j # k
        BY <2>1
    <2> QED
        BY <1>2, <2>2 DEF Take, TypeInv, DataOK
<1>3. CASE \E t \in Workers, j \in Keys : BeginDelete(t, j)
    BY <1>2, <1>3 DEF BeginDelete, Threads
<1>4. CASE \E t \in Threads : Continue(t)
    <2>1. PICK t \in Threads : Continue(t)
        BY <1>4
    <2>2. CASE Insert(t)
        BY <2>2 DEF Insert, TypeInv, DataOK
    <2>3. CASE ~Insert(t)
        BY <2>1, <2>3 DEF Continue, RejectOverBudget, AcceptBudget, Stamp, SkipUnindex,
           UnindexSorted, UnindexHash, HangOnEmptySet, LeaveNonEmptySet, SkipIndex,
           AddIndex, RemoveTombstone, StoreMemory, Account, Bury, data
    <2> QED
        BY <2>2, <2>3
<1>5. CASE \E s \in Sweepers : SweepStep(s)
    <2>1. PICK s \in Sweepers : SweepStep(s)
        BY <1>5
    <2>2. CASE \E j \in Keys : Evict(s, j)
        BY <1>2, <2>2 DEF Evict, Threads
    <2>3. CASE ~\E j \in Keys : Evict(s, j)
        BY <2>1, <2>3 DEF SweepStep, BeginSweep, ScanRecord, ScanEnd, EvictMissing,
           EvictEnd, ScanTombstone, TombscanEnd, Reap, SweepEnd, data
    <2> QED
        BY <2>2, <2>3
<1>6. CASE Tick
    BY <1>6 DEF Tick, data
<1> QED
    BY <1>1, <1>3, <1>4, <1>5, <1>6 DEF Next

LEMMA NoteLookupsKeeps ==
    ASSUME TypeInv, Next, LooksOK, NoteLookups
    PROVE  LooksOK'
<1> SUFFICES ASSUME NEW r \in Readers
             PROVE  /\ look'[r] \in Lookup \cup {NoLookup}
                    /\ look'[r] # NoLookup => Kept(look[r])'
    BY DEF LooksOK, NoteLookups
<1>1. CASE look[r] = NoLookup
    BY <1>1 DEF NoteLookups
<1>2. CASE look[r] # NoLookup
    <2>1. look[r] \in Lookup /\ Kept(look[r])
        BY <1>2 DEF LooksOK
    <2>2. look'[r] = [look[r] EXCEPT !.steady = {k \in @ : Quiet(k)'},
                                     !.calm = @ /\ AllQuiet']
        BY <1>2 DEF NoteLookups
    <2>3. /\ look'[r] \in Lookup
          /\ look'[r].steady = {k \in look[r].steady : Quiet(k)'}
          /\ look'[r].limit = look[r].limit
          /\ look'[r].todo = look[r].todo /\ look'[r].got = look[r].got
        BY <2>1, <2>2 DEF Lookup
    <2>4. \A k \in look'[r].steady : entities'[k] = entities[k]
        BY <2>1, <2>3, QuietRecordStays DEF Kept
    <2>5. Kept(look[r])'
        BY <2>1, <2>3, <2>4 DEF Kept
    <2> QED
        BY <2>3, <2>5
<1> QED
    BY <1>1, <1>2

(* Every lookup keeps the records no operation touches.                    *)
LEMMA LooksInvariant == ScriptSpec => []LooksOK
<1>1. ScriptInv /\ IndexExact /\ LooksOK /\ [ScriptNext]_scriptVars => LooksOK'
    <2> SUFFICES ASSUME ScriptInv, IndexExact, LooksOK, [ScriptNext]_scriptVars
                 PROVE  LooksOK'
        OBVIOUS
    <2>1. CASE UNCHANGED scriptVars
        BY <2>1 DEF scriptVars, vars, LooksOK, Kept, Quiet, Active
    <2>2. CASE \E t \in Workers : ScriptStep(t) /\ UNCHANGED look
        BY <2>2, ScriptStepStutters DEF vars, LooksOK, Kept, Quiet, Active
    <2>3. CASE \E t \in Workers : StoreStep(t) /\ NoteRaces /\ NoteLookups
        <3>1. PICK t \in Workers : StoreStep(t) /\ NoteRaces /\ NoteLookups
            BY <2>3
        <3>2. Next
            BY <3>1, StoreStepIsOne, ScriptAssumption DEF Next, Threads, ScriptInv
        <3> QED
            BY <3>1, <3>2, NoteLookupsKeeps DEF ScriptInv
    <2>4. CASE \E r \in Readers : LookupStep(r)
        BY <2>4, LookupStepKeeps
    <2> QED
        BY <2>1, <2>2, <2>3, <2>4 DEF ScriptNext
<1> QED
    BY <1>1, ScriptInvariant, ScriptsKeepIndexes, LooksInit, PTL DEF ScriptSpec

(* A range lookup without a limit returns every record that matched when   *)
(* it began and that no operation has touched since, with any number of    *)
(* workers, keys and sorted indexes.                                       *)
THEOREM LookupsFindSteady == ScriptSpec => []LookupFindsSteady
BY LooksInvariant, KeptImplies, PTL

-----------------------------------------------------------------------------
(* Lookups with a limit.  As long as no operation begins, each key that a  *)
(* lookup has picked has a record, so the keys it has still to read and    *)
(* the records it has add up to what the cut has left.                     *)

Least(m, n) == IF m < n THEN m ELSE n

Fills(l) ==
    l.calm =>
        /\ AllQuiet
        /\ l.got \cap l.todo = {}
        /\ \A k \in l.todo : entities[k] # NoRecord
        /\ l.limit > 0 =>
             Cardinality(l.got \cup l.todo) = Least(Cardinality(l.steady), l.limit)

LooksFill == \A r \in Readers : look[r] # NoLookup => Fills(look[r])

(* A lookup that has read all its records has found those that stayed.     *)
LEMMA FillsImplies == LooksFill => LookupFillsLimit
<1> SUFFICES ASSUME LooksFill, NEW r \in Readers, LookupDone(r), look[r].limit > 0,
                    look[r].calm
             PROVE  Cardinality(look[r].got) = Least(Cardinality(look[r].steady), look[r].limit)
    BY DEF LookupFillsLimit, Least
<1>1. look[r].todo = {} /\ Fills(look[r])
    BY DEF LookupDone, LooksFill
<1>2. look[r].got \cup look[r].todo = look[r].got
    BY <1>1
<1> QED
    BY <1>1, <1>2 DEF Fills

(* At rest, and if no operations have ever overlapped, the tree lists the  *)
(* matching records and nothing else.                                      *)
LEMMA ListedMatches ==
    ASSUME TypeInv, IndexExact, NEW i \in Indexes, NEW range \in SUBSET Fields,
           AllQuiet, raced = {}
    PROVE  ListedIn(i, range) = Matches(i, range)
<1>1. \A k \in Keys : Quiet(k)
    BY DEF AllQuiet, Quiet, Active
<1>2. \A k \in Keys, f \in range : k \in index[i][f] <=> Field(i, entities[k]) = f
    BY <1>1 DEF IndexExact, Shows
<1>3. \A f \in range : index[i][f] \in SUBSET Keys
    BY DEF TypeInv, DataOK
<1> QED
    BY <1>2, <1>3 DEF ListedIn, Matches

(* A cut leaves as many keys as there are, up to the limit.                *)
LEMMA CutCounts ==
    ASSUME ScriptAssumption, NEW S \in SUBSET Keys, NEW limit \in Nat \ {0},
           NEW cut \in Cuts(S, limit)
    PROVE  Cardinality(cut) = Least(Cardinality(S), limit)
<1>1. Cardinality(S) \in Nat
    BY FS_Subset, FS_CardinalityType DEF ScriptAssumption
<1>2. CASE Cardinality(S) <= limit
    <2>1. cut = S
        BY <1>2 DEF Cuts
    <2> QED
        BY <1>1, <1>2, <2>1 DEF Least
<1>3. CASE ~(Cardinality(S) <= limit)
    <2>1. Cardinality(cut) = limit
        BY <1>3 DEF Cuts
    <2> QED
        BY <1>1, <1>3, <2>1 DEF Least
<1> QED
    BY <1>2, <1>3

(* No index entry without a record is among the keys of a calm lookup.     *)
LEMMA LookupStepFills ==
    ASSUME ScriptInv, IndexExact, LooksOK, LooksFill, NEW r \in Readers, LookupStep(r)
    PROVE  LooksFill'
<1>0. UNCHANGED vars
    BY LookupStepStutters
<1>1. \A l : Fills(l)' <=> Fills(l)
    BY <1>0 DEF Fills, AllQuiet, vars
<1>2. \A l \in Lookup \cup {NoLookup} :
          look' = [look EXCEPT ![r] = l] /\ (l # NoLookup => Fills(l)) => LooksFill'
    BY <1>1 DEF LooksFill, LooksOK
<1>3. CASE \E i \in Indexes, range \in Ranges, limit \in Limits : BeginLookup(r, i, range, limit)
    <2>1. PICK i \in Indexes, range \in Ranges, limit \in Limits : BeginLookup(r, i, range, limit)
        BY <1>3
    <2>2. PICK keys \in Cuts(ListedIn(i, range), limit) :
              look' = [look EXCEPT ![r] =
                         [limit |-> limit, todo |-> keys, got |-> {},
                          calm |-> AllQuiet /\ raced = {},
                          steady |-> {k \in Matches(i, range) \ raced : Quiet(k)}]]
        BY <2>1 DEF BeginLookup
    <2> DEFINE l == [limit |-> limit, todo |-> keys, got |-> {},
                     calm |-> AllQuiet /\ raced = {},
                     steady |-> {k \in Matches(i, range) \ raced : Quiet(k)}]
    <2>3. range \in SUBSET Fields /\ limit \in Nat
        BY ScriptAssumption DEF ScriptAssumption
    <2>4. ListedIn(i, range) \in SUBSET Keys
        BY <2>3 DEF ListedIn, ScriptInv, TypeInv, DataOK
    <2>5. keys \in SUBSET Keys /\ keys \subseteq ListedIn(i, range)
        BY <2>2, <2>4 DEF Cuts
    <2>6. l \in Lookup
        BY <2>5 DEF Lookup, Matches
    <2>7. ASSUME AllQuiet, raced = {}
          PROVE  /\ l.steady = ListedIn(i, range)
                 /\ \A k \in keys : entities[k] # NoRecord
                 /\ limit > 0 => Cardinality(keys) = Least(Cardinality(l.steady), limit)
        <3>1. Matches(i, range) = ListedIn(i, range)
            BY <2>3, <2>7, ListedMatches DEF ScriptInv
        <3>2. \A k \in Keys : Quiet(k)
            BY <2>7 DEF AllQuiet, Quiet, Active
        <3>3. l.steady = ListedIn(i, range)
            BY <2>7, <3>1, <3>2 DEF Matches
        <3>4. \A k \in keys : entities[k] # NoRecord
            BY <2>3, <2>5, <2>7, <3>1, <3>2, ListedCovers DEF ScriptInv
        <3>5. limit > 0 => Cardinality(keys) = Least(Cardinality(ListedIn(i, range)), limit)
            BY <2>2, <2>3, <2>4, CutCounts, ScriptAssumption
        <3> QED
            BY <3>3, <3>4, <3>5
    <2>8. Fills(l)
        <3>1. l.calm <=> AllQuiet /\ raced = {}
            OBVIOUS
        <3>2. l.got = {} /\ l.todo = keys /\ l.limit = limit /\ l.got \cup l.todo = keys
            OBVIOUS
        <3> HIDE DEF l
        <3> QED
            BY <2>7, <3>1, <3>2 DEF Fills
    <2> QED
        BY <1>2, <2>2, <2>6, <2>8
<1>4. CASE ReadRecord(r)
    <2>1. PICK k \in look[r].todo :
              look' = [look EXCEPT ![r].todo = @ \ {k},
                         ![r].got = IF entities[k] = NoRecord THEN @ ELSE @ \cup {k}]
        BY <1>4 DEF ReadRecord
    <2>2. look[r] \in Lookup /\ Fills(look[r])
        BY <1>4 DEF ReadRecord, LooksOK, LooksFill
    <2> DEFINE got == IF entities[k] = NoRecord THEN look[r].got ELSE look[r].got \cup {k}
               l == [look[r] EXCEPT !.todo = @ \ {k}, !.got = got]
    <2>3. look' = [look EXCEPT ![r] = l]
        BY <2>1
    <2>4. /\ l \in Lookup
          /\ l.steady = look[r].steady /\ l.limit = look[r].limit /\ l.calm = look[r].calm
          /\ l.todo = look[r].todo \ {k} /\ l.got = got
        BY <2>1, <2>2 DEF Lookup
    <2>5. Fills(l)
        <3> SUFFICES ASSUME look[r].calm PROVE Fills(l)
            BY <2>4 DEF Fills
        <3>1. entities[k] # NoRecord /\ got = look[r].got \cup {k}
            BY <2>1, <2>2 DEF Fills
        <3>2. l.got \cup l.todo = look[r].got \cup look[r].todo
            BY <2>1, <2>4, <3>1
        <3> HIDE DEF l, got
        <3> QED
            BY <2>2, <2>4, <3>1, <3>2 DEF Fills
    <2> QED
        BY <1>2, <2>3, <2>4, <2>5
<1>5. CASE EndLookup(r)
    BY <1>2, <1>5 DEF EndLookup
<1> QED
    BY <1>3, <1>4, <1>5 DEF LookupStep

(* A step of a worker is part of an operation: after it, or before it, the *)
(* store is not at rest.                                                   *)
LEMMA WorkIsNotRest ==
    ASSUME TypeInv, NEW t \in Workers, StoreStep(t), AllQuiet
    PROVE  ~AllQuiet'
<1>1. pc[t] = "idle" /\ t \in Threads
    BY DEF AllQuiet, Threads
<1>2. ~Continue(t)
    BY <1>1 DEF Continue, RejectOverBudget, AcceptBudget, Stamp, Insert, SkipUnindex,
       UnindexSorted, UnindexHash, HangOnEmptySet, LeaveNonEmptySet, SkipIndex,
       AddIndex, RemoveTombstone, StoreMemory, Account, Bury
<1>3. ~RejectOverBudget(t)
    BY <1>1 DEF RejectOverBudget
<1>4. PICK step \in {"budget", "unindex"} : Goto(t, step)
    <2>1. \A k, v : BeginUpsert(t, k, v) => Goto(t, "budget")
        BY DEF BeginUpsert
    <2>2. \A k : BeginDelete(t, k) => Goto(t, "unindex")
        BY DEF BeginDelete, Take
    <2> QED
        BY <1>2, <1>3, <2>1, <2>2 DEF StoreStep, Direct, ApplyUpsert, ApplyDelete, OpStep
<1>5. pc'[t] # "idle"
    BY <1>1, <1>4 DEF Goto, TypeInv, LocalsOK
<1> QED
    BY <1>1, <1>5 DEF AllQuiet

(* An operation of a worker makes a lookup that goes on no longer calm.    *)
LEMMA NoteLookupsFills ==
    ASSUME TypeInv, NEW t \in Workers, StoreStep(t), LooksOK, LooksFill, NoteLookups
    PROVE  LooksFill'
<1> SUFFICES ASSUME NEW r \in Readers, look'[r] # NoLookup
             PROVE  ~look'[r].calm
    BY DEF LooksFill, Fills
<1>1. look[r] \in Lookup /\ Fills(look[r])
    BY DEF NoteLookups, LooksOK, LooksFill
<1>2. look'[r] = [look[r] EXCEPT !.steady = {k \in @ : Quiet(k)'},
                                 !.calm = @ /\ AllQuiet']
    BY DEF NoteLookups
<1>3. look'[r].calm = (look[r].calm /\ AllQuiet')
    BY <1>1, <1>2 DEF Lookup
<1> QED
    BY <1>1, <1>3, WorkIsNotRest DEF Fills

(* With a limit, a range lookup that no operation overlaps with, on a      *)
(* store where none have overlapped, returns as many of the matching       *)
(* records as there are, up to the limit: the limit cuts the index keys,   *)
(* but none of them stands for a record that is not there.                 *)
THEOREM LookupsFillLimit == ScriptSpec => []LookupFillsLimit
<1>1. ScriptInv /\ IndexExact /\ LooksOK /\ LooksFill /\ [ScriptNext]_scriptVars
          => LooksFill'
    <2> SUFFICES ASSUME ScriptInv, IndexExact, LooksOK, LooksFill, [ScriptNext]_scriptVars
                 PROVE  LooksFill'
        OBVIOUS
    <2>1. CASE UNCHANGED scriptVars
        BY <2>1 DEF scriptVars, vars, LooksFill, Fills, AllQuiet
    <2>2. CASE \E t \in Workers : ScriptStep(t) /\ UNCHANGED look
        BY <2>2, ScriptStepStutters DEF vars, LooksFill, Fills, AllQuiet
    <2>3. CASE \E t \in Workers : StoreStep(t) /\ NoteRaces /\ NoteLookups
        BY <2>3, NoteLookupsFills DEF ScriptInv
    <2>4. CASE \E r \in Readers : LookupStep(r)
        BY <2>4, LookupStepFills
    <2> QED
        BY <2>1, <2>2, <2>3, <2>4 DEF ScriptNext
<1>2. ScriptInit => LooksFill
    BY DEF ScriptInit, LooksFill
<1> QED
    BY <1>1, <1>2, ScriptInvariant, ScriptsKeepIndexes, LooksInit, LooksInvariant,
       FillsImplies, PTL DEF ScriptSpec

-----------------------------------------------------------------------------
(* One writer.  Its operations overlap with no other, so that each amounts *)
(* to one atomic write and the counter is exact whenever it rests.         *)

OneWriter == \A t, u \in Workers : t = u

(* The limit can be passed without the counter saturating.                 *)
LimitBelowMax == MaxBytes < Word - 1

(* The total size of records.                                              *)
Bytes(recs) == SumFunctionOnSet([k \in Keys |-> IF recs[k] = NoRecord THEN 0 ELSE Size[recs[k]]],
                                Keys)

(* The weight of the abstract store is the sum of the sizes of its         *)
(* records.                                                                *)
LEMMA WeightIsBytes ==
    ASSUME NEW recs \in [Keys -> Values \cup {NoRecord}]
    PROVE  Abstract!Weight(recs) = Bytes(recs)
<1>1. DOMAIN recs = Keys
    OBVIOUS
<1>2. Abstract!Weight(recs) =
          SumFunction([k \in Keys |-> IF recs[k] = NoRecord THEN 0 ELSE Size[recs[k]]])
    BY <1>1 DEF Abstract!Weight, Abstract!SumFunction, Abstract!SumFunctionOnSet,
        Abstract!FoldFunctionOnSet, Abstract!MapThenFoldSet, SumFunction,
        SumFunctionOnSet, FoldFunctionOnSet, MapThenFoldSet
<1> QED
    BY <1>2 DEF SumFunction, Bytes

Bulk(v) == IF v = NoRecord THEN 0 ELSE Size[v]

Held == Bytes(Payloads)

(* The size of a record is a machine word, and of no record is nothing.    *)
LEMMA BulkType ==
    ASSUME NEW v \in Values \cup {NoRecord}
    PROVE  Bulk(v) \in 0..Word-1 /\ Bulk(v) \in Nat
BY StoreAssumption DEF Bulk

(* The total size, and what it becomes when one record is put or removed.  *)
LEMMA BytesOfPut ==
    ASSUME ScriptAssumption,
           NEW recs \in [Keys -> Values \cup {NoRecord}], NEW k \in Keys,
           NEW v \in Values \cup {NoRecord}
    PROVE  /\ Bytes(recs) \in Nat
           /\ Bulk(recs[k]) <= Bytes(recs)
           /\ Bytes([recs EXCEPT ![k] = v]) = Bytes(recs) + (Bulk(v) - Bulk(recs[k]))
<1> DEFINE f == [j \in Keys |-> IF recs[j] = NoRecord THEN 0 ELSE Size[recs[j]]]
           new == [recs EXCEPT ![k] = v]
           g == [j \in Keys |-> IF new[j] = NoRecord THEN 0 ELSE Size[new[j]]]
<1>1. IsFiniteSet(Keys)
    BY DEF ScriptAssumption
<1>2. /\ \A j \in Keys : f[j] = Bulk(recs[j]) /\ g[j] = Bulk(new[j])
      /\ new[k] = v /\ \A j \in Keys \ {k} : new[j] = recs[j]
      /\ \A j \in Keys : new[j] \in Values \cup {NoRecord}
    BY DEF Bulk
<1>3. \A j \in Keys : f[j] \in Nat /\ g[j] \in Nat
    BY <1>2, BulkType
<1>4. /\ \A j \in Keys : f[j] \in Int /\ g[j] \in Int
      /\ f[k] = Bulk(recs[k]) /\ g[k] = Bulk(v) /\ f[k] \in Nat
      /\ \A j \in Keys \ {k} : f[j] = g[j]
    BY <1>2, <1>3
<1>5. Bytes(recs) = SumFunctionOnSet(f, Keys) /\ Bytes(new) = SumFunctionOnSet(g, Keys)
    BY DEF Bytes
<1> HIDE DEF f, g, new
<1>6. SumFunctionOnSet(f, Keys) \in Nat
    BY <1>1, <1>3, SumOfPart
<1>7. SumFunctionOnSet(g, Keys) = SumFunctionOnSet(f, Keys) + (g[k] - f[k])
    BY <1>1, <1>4, SumUpdate
<1>8. f[k] <= SumFunctionOnSet(f, Keys)
    <2>1. SumFunctionOnSet(f, Keys) = f[k] + SumFunctionOnSet(f, Keys \ {k})
        BY <1>1, <1>4, SumRemove
    <2>2. SumFunctionOnSet(f, Keys \ {k}) \in Nat
        <3>1. IsFiniteSet(Keys \ {k}) /\ \A j \in Keys \ {k} : f[j] \in Nat
            BY <1>1, <1>3, SmallerSet
        <3> QED
            BY <3>1, SumOfPart
    <2> QED
        BY <1>4, <2>1, <2>2
<1> QED
    BY <1>4, <1>5, <1>6, <1>7, <1>8 DEF new

(* The projected counter of an upsert that is accepted is exact.           *)
LEMMA ProjectionExact ==
    ASSUME LimitBelowMax, NEW a \in 0..Word-1, NEW p \in 0..Word-1, NEW r \in 0..Word-1,
           p <= a, SatAdd(SatSub(a, p), r) <= MaxBytes
    PROVE  SatAdd(SatSub(a, p), r) = a - p + r
<1>1. Word \in Nat /\ MaxBytes \in 0..Word-1
    BY StoreAssumption
<1> QED
    BY <1>1 DEF LimitBelowMax, SatAdd, SatSub

(* The records of a writer's steps.                                        *)
LEMMA PayloadOf ==
    ASSUME TypeInv, ScriptAssumption, NEW k \in Keys
    PROVE  /\ Payloads \in [Keys -> Values \cup {NoRecord}]
           /\ Bulk(Payloads[k]) = SizeOf(entities[k])
           /\ Payloads[k] = NoRecord <=> entities[k] = NoRecord
           /\ Held \in Nat
           /\ SizeOf(entities[k]) <= Held
<1>1. Payloads \in [Keys -> Values \cup {NoRecord}]
    BY PayloadsType
<1>2. entities[k] \in MaybeRecord /\ (entities[k] # NoRecord => entities[k].val \in Values)
    BY DEF TypeInv, DataOK, MaybeRecord, Record
<1>3. Payloads[k] = IF entities[k] = NoRecord THEN NoRecord ELSE entities[k].val
    BY DEF Payloads
<1>4. /\ Bulk(Payloads[k]) = SizeOf(entities[k])
      /\ Payloads[k] = NoRecord <=> entities[k] = NoRecord
    BY <1>2, <1>3 DEF Bulk, SizeOf, ScriptAssumption
<1> QED
    BY <1>1, <1>4, BytesOfPut DEF Held

(* A write of one record, or of none.                                      *)
LEMMA WritePayload ==
    ASSUME TypeInv, ScriptAssumption, NEW k \in Keys, NEW r \in MaybeRecord,
           entities' = [entities EXCEPT ![k] = r]
    PROVE  /\ Payloads' = [Payloads EXCEPT ![k] = IF r = NoRecord THEN NoRecord ELSE r.val]
           /\ Held' = Held + (SizeOf(r) - SizeOf(entities[k]))
<1> DEFINE v == IF r = NoRecord THEN NoRecord ELSE r.val
<1>1. v \in Values \cup {NoRecord} /\ Bulk(v) = SizeOf(r)
    BY DEF MaybeRecord, Record, Bulk, SizeOf, ScriptAssumption
<1>2. Payloads' = [Payloads EXCEPT ![k] = v]
    BY DEF TypeInv, DataOK, Payloads
<1> HIDE DEF v
<1>3. Held' = Bytes([Payloads EXCEPT ![k] = v])
    BY <1>2 DEF Held, Bytes
<1>4. /\ Payloads \in [Keys -> Values \cup {NoRecord}]
      /\ Bulk(Payloads[k]) = SizeOf(entities[k])
    BY PayloadOf
<1>5. Bytes([Payloads EXCEPT ![k] = v]) = Bytes(Payloads) + (Bulk(v) - Bulk(Payloads[k]))
    BY <1>1, <1>4, BytesOfPut
<1>6. Held' = Held + (SizeOf(r) - SizeOf(entities[k]))
    BY <1>1, <1>3, <1>4, <1>5 DEF Held
<1> QED
    BY <1>2, <1>6 DEF v

(* A step of an operation that writes neither a record nor the counter.    *)
Neutral(t) ==
    /\ UNCHANGED <<entities, mem>>
    /\ {pc[t], pc'[t]} \cap {"idle", "budget", "bury"} = {}
    /\ pc'[t] \in {"index", "mem"} <=> pc[t] \in {"index", "mem"}
    /\ call'[t].op = call[t].op /\ call'[t].key = call[t].key
    /\ call'[t].prev = call[t].prev /\ call'[t].proj = call[t].proj
    /\ call[t].op = "upsert" => call'[t].rec.val = call[t].rec.val

(* The steps of an operation that move neither the counter nor a record,   *)
(* and the others.                                                         *)
LEMMA ContinueIs ==
    ASSUME TypeInv, NEW t \in Threads, Continue(t)
    PROVE  \/ Neutral(t) \/ RejectOverBudget(t) \/ AcceptBudget(t) \/ Insert(t)
           \/ StoreMemory(t) \/ Account(t) \/ Bury(t)
<1>0. pc \in [Threads -> Steps] /\ call \in [Threads -> Call \cup {NoCall}]
    BY DEF TypeInv, LocalsOK
<1>1. ASSUME pc[t] # "idle"
      PROVE  /\ call[t] \in Call
             /\ \A n : LET c == [call[t] EXCEPT !.pos = n] IN
                  /\ c.op = call[t].op /\ c.key = call[t].key /\ c.prev = call[t].prev
                  /\ c.proj = call[t].proj /\ c.rec = call[t].rec
    BY <1>1 DEF TypeInv, LocalsOK, Fits, Call
<1>2. CASE Stamp(t)
    <2> DEFINE r == [val |-> call[t].rec.val, expires |-> Expiry]
    <2>1. call' = [call EXCEPT ![t] = [call[t] EXCEPT !.rec = r]] /\ r.val = call[t].rec.val
        BY <1>2 DEF Stamp
    <2> HIDE DEF r
    <2>2. LET c == [call[t] EXCEPT !.rec = r] IN
            /\ c.op = call[t].op /\ c.key = call[t].key /\ c.prev = call[t].prev
            /\ c.proj = call[t].proj /\ c.rec = r
        BY <1>1, <1>2 DEF Stamp, Call
    <2> QED
        BY <1>0, <1>2, <2>1, <2>2 DEF Stamp, Goto, data, Neutral
<1>3. CASE SkipUnindex(t) \/ UnindexSorted(t) \/ SkipIndex(t) \/ AddIndex(t)
    <2>1. call' = [call EXCEPT ![t] = [call[t] EXCEPT !.pos = call[t].pos + 1]]
        BY <1>3 DEF SkipUnindex, UnindexSorted, SkipIndex, AddIndex, Advance
    <2>2. pc' = pc /\ pc[t] \in {"unindex", "index"} /\ UNCHANGED <<entities, mem>>
        BY <1>3 DEF SkipUnindex, UnindexSorted, SkipIndex, AddIndex, data
    <2> QED
        BY <1>0, <1>1, <2>1, <2>2 DEF Neutral
<1>4. CASE UnindexHash(t) \/ HangOnEmptySet(t) \/ LeaveNonEmptySet(t)
    <2>1. call' = call \/ call' = [call EXCEPT ![t] = [call[t] EXCEPT !.pos = call[t].pos + 1]]
        BY <1>4 DEF UnindexHash, HangOnEmptySet, LeaveNonEmptySet, Advance
    <2>2. /\ pc[t] \in {"unindex", "prune"} /\ pc'[t] \in {"unindex", "prune", "hung"}
          /\ UNCHANGED <<entities, mem>>
        BY <1>0, <1>4 DEF UnindexHash, HangOnEmptySet, LeaveNonEmptySet, Goto, data
    <2>3. /\ call'[t].op = call[t].op /\ call'[t].key = call[t].key
          /\ call'[t].prev = call[t].prev /\ call'[t].proj = call[t].proj
          /\ call'[t].rec = call[t].rec
        <3>1. CASE call' = call
            BY <3>1
        <3>2. CASE call' = [call EXCEPT ![t] = [call[t] EXCEPT !.pos = call[t].pos + 1]]
            BY <1>0, <1>1, <2>2, <3>2
        <3> QED
            BY <2>1, <3>1, <3>2
    <2> QED
        BY <2>2, <2>3 DEF Neutral
<1>5. CASE RemoveTombstone(t)
    BY <1>0, <1>5 DEF RemoveTombstone, Goto, Neutral
<1> QED
    BY <1>2, <1>3, <1>4, <1>5 DEF Continue

(* What the counter says of the records while the writer is at each step:  *)
(* a delete has taken the record and not yet given its bytes back; an      *)
(* upsert carries the total it is going to leave.                          *)
Tracks(t) ==
    IF pc[t] = "idle" THEN mem = Held
    ELSE IF call[t].op = "delete"
    THEN mem = Held + (IF pc[t] = "bury" THEN 0 ELSE SizeOf(call[t].prev))
    ELSE IF pc[t] \in {"index", "mem"} THEN call[t].proj = Held
    ELSE /\ mem = Held
         /\ entities[call[t].key] = call[t].prev
         /\ pc[t] # "budget" =>
              /\ call[t].proj = Held - SizeOf(call[t].prev) + SizeOf(call[t].rec)
              /\ call[t].proj <= MaxBytes

WriterInv == (\A t \in Workers : Tracks(t)) /\ (Workers = {} => mem = Held)

(* An upsert begins with the counter in balance; a delete begins by taking *)
(* the record, whose bytes it still has to give back.                      *)
LEMMA BeginTracks ==
    ASSUME TypeInv, TypeInv', ScriptAssumption, NEW t \in Workers, Tracks(t),
           \/ \E k \in Keys, v \in Values : BeginUpsert(t, k, v)
           \/ \E k \in Keys : BeginDelete(t, k)
    PROVE  Tracks(t)'
<1>0. /\ pc \in [Threads -> Steps] /\ call \in [Threads -> Call \cup {NoCall}]
      /\ t \in Threads
    BY DEF TypeInv, LocalsOK, Threads
<1>1. ASSUME NEW k \in Keys, NEW v \in Values, BeginUpsert(t, k, v)
      PROVE  Tracks(t)'
    <2> DEFINE c == [op |-> "upsert", key |-> k, rec |-> [val |-> v, expires |-> Never],
                     prev |-> entities[k], proj |-> 0, pos |-> 1]
    <2>1. /\ call'[t] = c /\ pc'[t] = "budget" /\ mem = Held
          /\ UNCHANGED <<entities, mem>>
        BY <1>0, <1>1 DEF BeginUpsert, Goto, data, Tracks
    <2>2. Held' = Held
        BY <2>1 DEF Held, Bytes, Payloads
    <2>3. c.op = "upsert" /\ c.key = k /\ c.prev = entities[k]
        OBVIOUS
    <2> HIDE DEF c
    <2> QED
        BY <2>1, <2>2, <2>3 DEF Tracks
<1>2. ASSUME NEW k \in Keys, BeginDelete(t, k)
      PROVE  Tracks(t)'
    <2> DEFINE c == [op |-> "delete", key |-> k, rec |-> NoRecord,
                     prev |-> entities[k], proj |-> 0, pos |-> 1]
    <2>1. /\ call'[t] = c /\ pc'[t] = "unindex" /\ mem = Held /\ mem' = mem
          /\ entities' = [entities EXCEPT ![k] = NoRecord]
        BY <1>0, <1>2 DEF BeginDelete, Take, Goto, Tracks
    <2>2. PICK w \in Nat : w = Held
        BY <1>2, PayloadOf
    <2>3. PICK n \in Nat : n = SizeOf(entities[k]) /\ SizeOf(NoRecord) = 0
        BY SizeType DEF TypeInv, DataOK, SizeOf
    <2>4. Held' = w + (0 - n)
        BY <2>1, <2>2, <2>3, WritePayload DEF MaybeRecord
    <2>5. mem' = Held' + n
        <3>1. w = w + (0 - n) + n
            BY <2>2, <2>3
        <3> QED
            BY <2>1, <2>2, <2>4, <3>1
    <2>6. c.op = "delete" /\ c.prev = entities[k]
        OBVIOUS
    <2> HIDE DEF c
    <2>7. SizeOf(call[t].prev)' = n
        BY <2>1, <2>3, <2>6 DEF SizeOf
    <2> QED
        BY <2>1, <2>5, <2>6, <2>7 DEF Tracks
<1> QED
    BY <1>1, <1>2

(* Every further step leaves the counter and what the operation still owes *)
(* it in balance with the records.                                         *)
LEMMA ContinueTracks ==
    ASSUME TypeInv, TypeInv', ScriptAssumption, NEW t \in Workers, Tracks(t),
           MaxBytes > 0, LimitBelowMax, Continue(t)
    PROVE  Tracks(t)'
<1>0. /\ pc \in [Threads -> Steps] /\ call \in [Threads -> Call \cup {NoCall}]
      /\ t \in Threads /\ pc[t] # "idle"
      /\ mem \in 0..Word-1 /\ Word \in Nat /\ MaxBytes \in Nat
    BY StoreAssumption DEF TypeInv, LocalsOK, DataOK, Threads, Continue, RejectOverBudget,
       AcceptBudget, Stamp, Insert, SkipUnindex, UnindexSorted, UnindexHash,
       HangOnEmptySet, LeaveNonEmptySet, SkipIndex, AddIndex, RemoveTombstone,
       StoreMemory, Account, Bury
<1>1. call[t] \in Call /\ Fits(call[t], pc[t])
    BY <1>0 DEF TypeInv, LocalsOK, Fits
<1>2. PICK k \in Keys, p \in Nat, r \in Nat, w \in Nat :
         /\ k = call[t].key /\ p = SizeOf(call[t].prev) /\ r = SizeOf(call[t].rec)
         /\ w = Held
         /\ p \in 0..Word-1 /\ r \in 0..Word-1
    <2>1. call[t].key \in Keys /\ call[t].prev \in MaybeRecord /\ call[t].rec \in MaybeRecord
        BY <1>1 DEF Call
    <2>2. /\ SizeOf(call[t].prev) \in 0..Word-1 /\ SizeOf(call[t].rec) \in 0..Word-1
          /\ Held \in Nat
        BY <2>1, SizeType, PayloadOf
    <2> QED
        BY <2>1, <2>2
<1>3. entities' = entities => Held' = Held
    BY DEF Held, Bytes, Payloads
<1>4. CASE Neutral(t)
    <2>1. call[t].op = "upsert" => SizeOf(call[t].rec)' = SizeOf(call[t].rec)
        <3>1. call[t].op = "upsert" => call'[t].rec # NoRecord /\ call[t].rec # NoRecord
            <4>1. pc'[t] # "idle" /\ call'[t].op = call[t].op
                BY <1>4 DEF Neutral
            <4>2. Fits(call'[t], pc'[t])
                BY <1>0, <4>1 DEF TypeInv, LocalsOK, Fits
            <4>3. call[t].op = "upsert" => call'[t].rec \in Record /\ call[t].rec \in Record
                BY <1>1, <4>1, <4>2 DEF Fits
            <4>4. NoRecord \notin Record
                BY StoreAssumption
            <4> QED
                BY <4>3, <4>4
        <3> QED
            BY <1>4, <3>1 DEF Neutral, SizeOf
    <2>2. SizeOf(call[t].prev)' = SizeOf(call[t].prev)
        BY <1>4 DEF Neutral, SizeOf
    <2>3. call[t].op \in {"upsert", "delete"}
        BY <1>1 DEF Call
    <2> QED
        BY <1>3, <1>4, <2>1, <2>2, <2>3 DEF Neutral, Tracks
<1>5. CASE RejectOverBudget(t)
    BY <1>0, <1>1, <1>3, <1>5 DEF RejectOverBudget, Return, data, Tracks, Fits
<1>6. CASE AcceptBudget(t)
    <2> DEFINE n == FirstUnindex(call[t].prev)
               c == [call[t] EXCEPT !.proj = Projected(t), !.pos = n]
    <2>1. /\ call' = [call EXCEPT ![t] = c] /\ pc' = [pc EXCEPT ![t] = "unindex"]
          /\ pc[t] = "budget" /\ UNCHANGED <<entities, mem>> /\ ~OverBudget(t)
        BY <1>6 DEF AcceptBudget, Goto, data
    <2>2. c.op = "upsert" /\ c.key = k /\ c.prev = call[t].prev /\ c.rec = call[t].rec
          /\ c.proj = Projected(t)
        BY <1>1, <1>2, <2>1 DEF Call, Fits
    <2> HIDE DEF c, n
    <2>3. mem = w /\ entities[k] = call[t].prev
        BY <1>1, <1>2, <2>1 DEF Tracks, Fits
    <2>4. p <= w
        BY <1>2, <2>3, PayloadOf
    <2>5. Projected(t) = w - p + r /\ Projected(t) <= MaxBytes
        <3>1. Projected(t) = SatAdd(SatSub(w, p), r)
            BY <1>2, <2>3 DEF Projected
        <3>2. SatAdd(SatSub(w, p), r) \in 0..Word-1
            BY <1>0, <1>2, <2>3, ArithmeticType
        <3>3. SatAdd(SatSub(w, p), r) <= MaxBytes
            BY <1>0, <2>1, <3>1, <3>2 DEF OverBudget
        <3> QED
            BY <1>0, <1>2, <2>3, <2>4, <3>1, <3>3, ProjectionExact
    <2>6. SizeOf(call[t].prev)' = p /\ SizeOf(call[t].rec)' = r /\ Held' = w
        BY <1>0, <1>2, <1>3, <2>1, <2>2 DEF SizeOf
    <2> QED
        BY <1>0, <2>1, <2>2, <2>3, <2>5, <2>6 DEF Tracks
<1>7. CASE Insert(t)
    <2> DEFINE c == [call[t] EXCEPT !.pos = 1]
    <2>1. /\ call' = [call EXCEPT ![t] = c] /\ pc' = [pc EXCEPT ![t] = "index"]
          /\ pc[t] = "insert" /\ entities' = [entities EXCEPT ![k] = call[t].rec]
        BY <1>2, <1>7 DEF Insert, Goto
    <2>2. c.op = "upsert" /\ c.proj = call[t].proj /\ call[t].rec \in MaybeRecord
          /\ call[t].op = "upsert"
        BY <1>1, <2>1 DEF Call, Fits
    <2> HIDE DEF c
    <2>3. call[t].proj = w - p + r /\ SizeOf(entities[k]) = p
        BY <1>2, <2>1, <2>2 DEF Tracks
    <2>4. Held' = w + (r - p)
        BY <1>2, <2>1, <2>2, <2>3, WritePayload
    <2>5. w + (r - p) = w - p + r
        BY <1>2
    <2>6. call'[t].proj = Held' /\ call'[t].op = "upsert" /\ pc'[t] = "index"
        BY <1>0, <2>1, <2>2, <2>3, <2>4, <2>5
    <2> QED
        BY <2>6 DEF Tracks
<1>8. CASE StoreMemory(t)
    <2>1. call[t].op = "upsert"
        BY <1>1, <1>8 DEF StoreMemory, Fits, Call
    <2> QED
        BY <1>0, <1>3, <1>8, <2>1 DEF StoreMemory, Return, Tracks
<1>9. CASE Account(t)
    <2>1. /\ mem' = WrapSub(mem, p) /\ pc'[t] = "bury" /\ UNCHANGED <<entities, call>>
          /\ call[t].op = "delete" /\ pc[t] = "unindex"
        BY <1>0, <1>2, <1>9 DEF Account, Goto
    <2>2. mem = w + p
        BY <1>2, <2>1 DEF Tracks
    <2>3. WrapSub(w + p, p) = w /\ w + 0 = w
        BY <1>2 DEF WrapSub
    <2> QED
        BY <1>2, <1>3, <2>1, <2>2, <2>3 DEF Tracks
<1>10. CASE Bury(t)
    <2>1. call[t].op = "delete"
        BY <1>1, <1>10 DEF Bury, Fits, Call
    <2>2. mem = w
        BY <1>2, <1>10, <2>1 DEF Bury, Tracks
    <2> QED
        BY <1>0, <1>2, <1>3, <1>10, <2>2 DEF Bury, Return, Tracks
<1> QED
    BY <1>0, <1>4, <1>5, <1>6, <1>7, <1>8, <1>9, <1>10, ContinueIs

HasLimit == MaxBytes > 0

(* The two ways of summing the records agree.                              *)
LEMMA WeightIsHeld == TypeInv => Abstract!Weight(Payloads) = Held
BY PayloadsType, WeightIsBytes DEF Held

(* A step of the one writer is the only step that changes the store.       *)
LEMMA WriterStep ==
    ASSUME ScriptInv, OneWriter, HasLimit, LimitBelowMax, WriterInv,
           [ScriptNext]_scriptVars
    PROVE  WriterInv'
<1>1. ScriptInv' /\ TypeInv /\ TypeInv'
    BY ScriptNextTypes DEF ScriptInv
<1>2. CASE UNCHANGED vars
    <2>1. Held' = Held
        BY <1>2 DEF vars, Held, Bytes, Payloads
    <2> QED
        BY <1>2, <2>1 DEF vars, WriterInv, Tracks, SizeOf
<1>3. CASE \E t \in Workers : StoreStep(t) /\ NoteRaces /\ NoteLookups
    <2>1. PICK t \in Workers : StoreStep(t)
        BY <1>3
    <2>2. Tracks(t)'
        BY <1>1, <2>1, StoreStepIsOne, BeginTracks, ContinueTracks, ScriptAssumption
           DEF ScriptInv, WriterInv, HasLimit
    <2> QED
        BY <2>2 DEF WriterInv, OneWriter
<1> QED
    BY <1>2, <1>3, ScriptStepStutters, LookupStepStutters DEF ScriptNext, scriptVars

(* The store is empty, and so is its counter.                              *)
LEMMA WriterInit ==
    ASSUME ScriptAssumption, ScriptInit
    PROVE  WriterInv
<1>1. \A k \in Keys : Payloads[k] = NoRecord
    BY DEF ScriptInit, Init, Payloads
<1>2. Held = 0
    <2> DEFINE f == [k \in Keys |-> IF Payloads[k] = NoRecord THEN 0 ELSE Size[Payloads[k]]]
    <2>1. \A k \in Keys : f[k] = 0
        BY <1>1
    <2>2. Held = SumFunctionOnSet(f, Keys)
        BY DEF Held, Bytes
    <2> HIDE DEF f
    <2> QED
        BY <2>1, <2>2, SumOfZeros DEF ScriptAssumption
<1> QED
    BY <1>2 DEF ScriptInit, Init, WriterInv, Tracks, Threads

(* A single writer keeps the balance whatever its scripts do.              *)
LEMMA WriterInvariant ==
    ASSUME OneWriter, HasLimit, LimitBelowMax
    PROVE  ScriptSpec => []WriterInv
<1>1. ScriptInit => WriterInv
    BY WriterInit, ScriptAssumption
<1>2. ScriptInv /\ WriterInv /\ [ScriptNext]_scriptVars => WriterInv'
    BY WriterStep
<1> QED
    BY <1>1, <1>2, ScriptInvariant, PTL DEF ScriptSpec

(* With one writer and a hard limit that usize can exceed, memory_bytes    *)
(* is, between operations, exactly the total size of the live records.     *)
THEOREM WriterTracksMemory ==
    ASSUME OneWriter, HasLimit, LimitBelowMax
    PROVE  ScriptSpec => []MemoryTracksRecords
<1>1. ScriptInv /\ WriterInv => MemoryTracksRecords
    <2> SUFFICES ASSUME ScriptInv, WriterInv, AllQuiet
                 PROVE  mem = Abstract!Weight(Payloads)
        BY DEF MemoryTracksRecords
    <2>1. mem = Held
        BY DEF WriterInv, Tracks, AllQuiet, Threads
    <2>2. Abstract!Weight(Payloads) = Held
        BY WeightIsHeld DEF ScriptInv
    <2> QED
        BY <2>1, <2>2
<1> QED
    BY <1>1, ScriptInvariant, WriterInvariant, PTL

(* What the record store promises to one writer is kept step by step: a    *)
(* delete takes effect where the record is taken, an upsert where it is    *)
(* inserted, and the insertion leaves no more than the limit.              *)
LEMMA WriterRefines ==
    ASSUME ScriptInv, OneWriter, LimitBelowMax, HasLimit => WriterInv,
           [ScriptNext]_scriptVars
    PROVE  [Abstract!Next]_Payloads
<1>1. ScriptInv' /\ TypeInv /\ TypeInv'
    BY ScriptNextTypes DEF ScriptInv
<1>2. CASE UNCHANGED entities
    BY <1>2 DEF Payloads
<1>3. ASSUME NEW t \in Workers, NEW k \in Keys, BeginDelete(t, k)
      PROVE  Abstract!Next
    <2>1. entities' = [entities EXCEPT ![k] = NoRecord]
        BY <1>3 DEF BeginDelete, Take
    <2>2. Payloads' = [Payloads EXCEPT ![k] = NoRecord]
        BY <1>1, <2>1, WritePayload, ScriptAssumption DEF MaybeRecord
    <2> QED
        BY <2>2 DEF Abstract!Next, Abstract!Remove
<1>4. ASSUME NEW t \in Workers, Insert(t)
      PROVE  Abstract!Next
    <2>1. call[t] \in Call /\ call[t].op = "upsert" /\ call[t].rec \in Record
          /\ pc[t] = "insert" /\ t \in Threads
        BY <1>1, <1>4 DEF Insert, TypeInv, LocalsOK, Fits, Threads, Call
    <2>2. PICK k \in Keys, v \in Values : k = call[t].key /\ v = call[t].rec.val
        BY <2>1 DEF Call, Record
    <2>3. Payloads' = [Payloads EXCEPT ![k] = v]
        <3>1. call[t].rec \in MaybeRecord /\ call[t].rec # NoRecord
            BY <2>1, StoreAssumption DEF MaybeRecord
        <3> QED
            BY <1>1, <1>4, <2>2, <3>1, WritePayload, ScriptAssumption DEF Insert
    <2>4. HasLimit => Abstract!Weight(Payloads)' <= MaxBytes
        <3> SUFFICES ASSUME HasLimit PROVE Abstract!Weight(Payloads)' <= MaxBytes
            OBVIOUS
        <3>1. Tracks(t) /\ Tracks(t)'
            <4>1. Continue(t)
                BY <1>4 DEF Continue
            <4> QED
                BY <1>1, <4>1, ContinueTracks, ScriptAssumption DEF HasLimit, WriterInv
        <3>2. call[t].proj <= MaxBytes
            BY <2>1, <3>1 DEF Tracks
        <3>3. pc'[t] = "index" /\ call'[t].op = "upsert" /\ call'[t].proj = call[t].proj
            <4> DEFINE c == [call[t] EXCEPT !.pos = 1]
            <4>1. c.op = "upsert" /\ c.proj = call[t].proj
                BY <2>1 DEF Call
            <4>2. call'[t] = c /\ pc'[t] = "index"
                BY <1>1, <1>4, <2>1 DEF Insert, Goto, TypeInv, LocalsOK
            <4> HIDE DEF c
            <4> QED
                BY <4>1, <4>2
        <3>4. Held' = call[t].proj
            BY <3>1, <3>3 DEF Tracks
        <3>5. Abstract!Weight(Payloads)' = Held'
            <4>1. (TypeInv => Abstract!Weight(Payloads) = Held)'
                BY WeightIsHeld, PTL
            <4> QED
                BY <1>1, <4>1
        <3> QED
            BY <3>2, <3>4, <3>5
    <2>5. Abstract!Put(k, v)
        <3>1. MaxBytes = 0 \/ HasLimit
            BY StoreAssumption DEF HasLimit
        <3> QED
            BY <2>3, <2>4, <3>1 DEF Abstract!Put
    <2> QED
        BY <2>5 DEF Abstract!Next
<1>5. CASE \E t \in Workers : StoreStep(t) /\ NoteRaces /\ NoteLookups
    <2>1. PICK t \in Workers : StoreStep(t)
        BY <1>5
    <2>2. ASSUME Continue(t), ~Insert(t) PROVE UNCHANGED entities
        BY <2>2 DEF Continue, RejectOverBudget, AcceptBudget, Stamp, SkipUnindex,
           UnindexSorted, UnindexHash, HangOnEmptySet, LeaveNonEmptySet, SkipIndex,
           AddIndex, RemoveTombstone, StoreMemory, Account, Bury, data
    <2>3. ASSUME NEW k \in Keys, NEW v \in Values, BeginUpsert(t, k, v)
          PROVE  UNCHANGED entities
        BY <2>3 DEF BeginUpsert, data
    <2> QED
        BY <1>2, <1>3, <1>4, <2>1, <2>2, <2>3, StoreStepIsOne, ScriptAssumption DEF ScriptInv
<1>6. CASE UNCHANGED vars
    BY <1>2, <1>6 DEF vars
<1> QED
    BY <1>5, <1>6, ScriptStepStutters, LookupStepStutters DEF ScriptNext, scriptVars

(* With one writer the record store is an atomic map whose total size      *)
(* stays within the hard limit, for any keys, payloads, indexes and sizes. *)
THEOREM WriterHasRecordStore ==
    ASSUME OneWriter, LimitBelowMax
    PROVE  ScriptSpec => ImplementsRecordStore
<1>1. ScriptInit => Abstract!Init
    BY DEF ScriptInit, Init, Payloads, Abstract!Init
<1>2. ScriptInv /\ (HasLimit => WriterInv) /\ [ScriptNext]_scriptVars
          => [Abstract!Next]_Payloads
    BY WriterRefines
<1>3. CASE HasLimit
    <2>1. WriterInv => (HasLimit => WriterInv)
        OBVIOUS
    <2>2. ScriptSpec => []WriterInv
        BY <1>3, WriterInvariant
    <2> QED
        BY <1>1, <1>2, <2>1, <2>2, ScriptInvariant, PTL
           DEF ScriptSpec, ImplementsRecordStore, Abstract!Spec
<1>4. CASE ~HasLimit
    <2>1. ScriptInv => (HasLimit => WriterInv)
        BY <1>4
    <2> QED
        BY <1>1, <1>2, <2>1, ScriptInvariant, PTL
           DEF ScriptSpec, ImplementsRecordStore, Abstract!Spec
<1> QED
    BY <1>3, <1>4

-----------------------------------------------------------------------------
(* Batches.  Outcome is defined by recursion on the length of the prefix.  *)

(* The recursion of Outcome over a batch has a solution: one step at a     *)
(* time, the records after the first n operations are a function of those  *)
(* before them.                                                            *)
LEMMA OutcomeExists ==
    ASSUME NEW base, NEW ops, Len(ops) \in Nat
    PROVE  \E g : g = [m \in 0..Len(ops) |->
                         IF m = 0 THEN base ELSE Effect(ops[m], g[m - 1])]
<1> DEFINE Body(g, m) == IF m = 0 THEN base ELSE Effect(ops[m], g[m - 1])
           UpTo(g, n) == \A m \in 0..Len(ops) : m <= n => g[m] = Body(g, m)
           T == {n \in Nat : \E g : UpTo(g, n)}
<1>1. 0 \in T
    <2> DEFINE h == [m \in 0..Len(ops) |-> base]
    <2>1. UpTo(h, 0)
        OBVIOUS
    <2> HIDE DEF h, UpTo
    <2> QED
        BY <2>1
<1>2. ASSUME NEW n \in Nat, NEW g, UpTo(g, n)
      PROVE  \E h : h = [m \in 0..Len(ops) |-> Body(g, m)] /\ UpTo(h, n + 1)
    <2> DEFINE h == [m \in 0..Len(ops) |-> Body(g, m)]
    <2>1. ASSUME NEW m \in 0..Len(ops), m <= n + 1 PROVE h[m] = Body(h, m)
        <3>1. CASE m = 0
            BY <3>1
        <3>2. CASE m # 0
            <4>1. m - 1 \in 0..Len(ops) /\ m - 1 <= n
                BY <2>1, <3>2
            <4>2. h[m - 1] = Body(g, m - 1)
                BY <4>1
            <4>3. g[m - 1] = Body(g, m - 1)
                BY <1>2, <4>1
            <4> QED
                BY <3>2, <4>2, <4>3
        <3> QED
            BY <3>1, <3>2
    <2>2. UpTo(h, n + 1)
        BY <2>1
    <2> HIDE DEF UpTo
    <2> QED
        BY <2>2
<1>3. \A n \in Nat : n \in T => n + 1 \in T
    <2> SUFFICES ASSUME NEW n \in Nat, n \in T PROVE n + 1 \in T
        OBVIOUS
    <2>1. PICK g : UpTo(g, n)
        OBVIOUS
    <2> HIDE DEF UpTo
    <2>2. \E h : UpTo(h, n + 1)
        BY <1>2, <2>1
    <2> QED
        BY <2>2
<1> HIDE DEF T
<1>4. Len(ops) \in T
    BY <1>1, <1>3, NatInductionOnSet
<1>5. PICK g : UpTo(g, Len(ops))
    BY <1>4 DEF T
<1> HIDE DEF UpTo, Body
<1>6. PICK h : h = [m \in 0..Len(ops) |-> Body(g, m)] /\ UpTo(h, Len(ops) + 1)
    BY <1>2, <1>5
<1>7. \A m \in 0..Len(ops) : h[m] = Body(h, m)
    BY <1>6 DEF UpTo
<1>8. h = [m \in 0..Len(ops) |-> Body(h, m)]
    BY <1>6, <1>7
<1> QED
    BY <1>8 DEF Body

(* The outcome of a longer prefix is one more effect.                      *)
LEMMA OutcomeIs ==
    ASSUME NEW base, NEW ops, Len(ops) \in Nat
    PROVE  /\ Outcome(base, ops, 0) = base
           /\ \A n \in 1..Len(ops) :
                Outcome(base, ops, n) = Effect(ops[n], Outcome(base, ops, n - 1))
<1> DEFINE Sol(g) == g = [m \in 0..Len(ops) |->
                            IF m = 0 THEN base ELSE Effect(ops[m], g[m - 1])]
           after == CHOOSE g : Sol(g)
<1>1. Sol(after)
    BY OutcomeExists
<1>2. \A n : Outcome(base, ops, n) = after[n]
    BY DEF Outcome
<1> HIDE DEF after
<1>3. after[0] = base
    BY <1>1
<1>4. ASSUME NEW n \in 1..Len(ops)
      PROVE  after[n] = Effect(ops[n], after[n - 1])
    BY <1>1
<1> QED
    BY <1>2, <1>3, <1>4

(* The operation under way is the last one the batch has begun, and it     *)
(* has taken effect from where it changes the record.                      *)
Written(t) == call[t].op = "delete" \/ pc[t] \in {"index", "mem"}

(* The operation under way writes what operation o of the batch says.      *)
Writes(t, o) ==
    /\ call[t].op = "upsert" /\ o.op = "upsert" /\ o.val # NoValue
    /\ call[t].key = o.key /\ call[t].rec.val = o.val

Batched(t) ==
    LET s == script[t]
        done(n) == Payloads = Outcome(s.base, s.ops, n)
    IN IF s.at \in {"applying", "stopped"}
       THEN /\ s.next \in 1..Len(s.ops) + 1
            /\ s.at = "stopped" => pc[t] = "idle"
            /\ IF pc[t] = "idle" THEN done(s.next - 1)
               ELSE /\ s.next >= 2
                    /\ IF Written(t) THEN done(s.next - 1)
                       ELSE done(s.next - 2) /\ Writes(t, s.ops[s.next - 1])
       ELSE s.next = 1

BatchInv == \A t \in Workers : Batched(t)

(* A batch that starts has changed nothing; an operation that is skipped   *)
(* or refused changes nothing.                                             *)
LEMMA ScriptStepBatched ==
    ASSUME ScriptInv, NEW t \in Workers, Batched(t), ScriptStep(t)
    PROVE  Batched(t)'
<1>0. /\ script \in [Workers -> Invocation] /\ script[t] \in Invocation
      /\ script[t].ops \in Seq(Op)
      /\ UNCHANGED vars /\ pc[t] = "idle"
    BY ScriptStepStutters DEF ScriptInv, ScriptsOK, Invocation, ScriptStep, Invoke,
       CallHandler, NoHandler, Throw, Respond, ReturnBatch, SkipOp, RefuseOp, EndBatch,
       Applying, At
<1>1. UNCHANGED <<pc, call, Payloads, entities>>
    BY <1>0 DEF vars, Payloads
<1>2. CASE \E kind \in Kinds, style \in Styles : Invoke(t, kind, style)
    <2>1. PICK kind, style :
            script' = [script EXCEPT ![t] =
                         [Idle EXCEPT !.at = "body", !.kind = kind, !.style = style]]
        BY <1>2 DEF Invoke
    <2>2. LET s == [Idle EXCEPT !.at = "body", !.kind = kind, !.style = style]
          IN s.at = "body" /\ s.next = 1
        BY DEF Idle
    <2>3. script'[t].at = "body" /\ script'[t].next = 1
        BY <1>0, <2>1, <2>2
    <2> QED
        BY <2>3 DEF Batched
<1>3. CASE CallHandler(t)
    <2>1. /\ script' = [script EXCEPT ![t] = [script[t] EXCEPT !.at = "handler",
                                                              !.style = "none"]]
          /\ script[t].at = "body"
        BY <1>3 DEF CallHandler, At
    <2>2. script'[t].at = "handler" /\ script'[t].next = script[t].next
        BY <1>0, <2>1 DEF Invocation
    <2> QED
        BY <2>1, <2>2 DEF Batched
<1>4. CASE NoHandler(t) \/ Throw(t) \/ Respond(t) \/ EndBatch(t)
    <2>1. script'[t] = Idle
        BY <1>0, <1>4 DEF NoHandler, Throw, Respond, EndBatch, Leave
    <2>2. script'[t].at = "idle" /\ script'[t].next = 1
        BY <2>1 DEF Idle
    <2> QED
        BY <2>2 DEF Batched
<1>5. CASE \E batch \in Batches : ReturnBatch(t, batch)
    <2>1. PICK batch \in Batches : ReturnBatch(t, batch)
        BY <1>5
    <2> DEFINE s == [script[t] EXCEPT !.at = "applying", !.kind = "none",
                                      !.ops = Parsed(batch), !.base = Payloads]
    <2>2. /\ s.at = "applying" /\ s.next = script[t].next /\ s.ops = Parsed(batch)
          /\ s.base = Payloads /\ script'[t] = s /\ script[t].at = "handler"
        BY <1>0, <2>1 DEF ReturnBatch, Invocation, At
    <2>3. Len(Parsed(batch)) \in Nat
        BY ParsedType, ScriptAssumption
    <2> HIDE DEF s
    <2>4. s.next = 1
        BY <2>2 DEF Batched
    <2>5. Outcome(s.base, s.ops, 0) = Payloads
        BY <2>2, <2>3, OutcomeIs
    <2>6. s.next \in 1..Len(s.ops) + 1 /\ s.next - 1 = 0
        BY <2>2, <2>3, <2>4
    <2> QED
        BY <1>0, <1>1, <2>2, <2>5, <2>6 DEF Batched
<1>6. CASE SkipOp(t)
    <2> DEFINE s == [script[t] EXCEPT !.next = @ + 1]
               o == script[t].ops[script[t].next]
               n == script[t].next
    <2>1. /\ script'[t] = s /\ script[t].at = "applying" /\ n <= Len(script[t].ops)
          /\ HasNoEffect(o)
        BY <1>0, <1>6 DEF SkipOp, NextOp, Applying, At, Current
    <2>2. /\ s.at = "applying" /\ s.next = n + 1 /\ s.ops = script[t].ops
          /\ s.base = script[t].base
        BY <1>0, <2>1 DEF Invocation
    <2>3. /\ n \in 1..Len(script[t].ops) /\ Len(script[t].ops) \in Nat
          /\ Payloads = Outcome(script[t].base, script[t].ops, n - 1)
        BY <1>0, <2>1 DEF Batched
    <2>4. o \in Op
        BY <1>0, <2>3
    <2>5. Effect(o, Payloads) = Payloads
        <3>1. CASE o.op = "delete"
            <4>1. entities[o.key] = NoRecord /\ o.key \in Keys
                BY <2>1, <2>4, <3>1 DEF HasNoEffect, Op
            <4>2. Payloads[o.key] = NoRecord
                BY <4>1 DEF Payloads
            <4>3. Payloads \in [Keys -> Values \cup {NoRecord}]
                BY PayloadsType DEF ScriptInv
            <4>4. [Payloads EXCEPT ![o.key] = NoRecord] = Payloads
                BY <4>1, <4>2, <4>3
            <4> QED
                BY <3>1, <4>4 DEF Effect
        <3>2. CASE o.op # "delete"
            BY <2>1, <3>2 DEF HasNoEffect, Effect
        <3> QED
            BY <3>1, <3>2
    <2>6. Payloads = Outcome(script[t].base, script[t].ops, n)
        <3>1. Outcome(script[t].base, script[t].ops, n)
                  = Effect(o, Outcome(script[t].base, script[t].ops, n - 1))
            <4>1. \A j \in 1..Len(script[t].ops) :
                      Outcome(script[t].base, script[t].ops, j)
                        = Effect(script[t].ops[j],
                                 Outcome(script[t].base, script[t].ops, j - 1))
                BY <2>3, OutcomeIs
            <4> QED
                BY <2>3, <4>1
        <3> HIDE DEF n, o
        <3> QED
            BY <2>3, <2>5, <3>1
    <2>7. s.next \in 1..Len(s.ops) + 1 /\ s.next - 1 = n
        BY <2>2, <2>3
    <2> HIDE DEF s, o, n
    <2> QED
        BY <1>0, <1>1, <2>1, <2>2, <2>6, <2>7 DEF Batched
<1>7. CASE RefuseOp(t)
    <2>1. /\ script'[t] = [script[t] EXCEPT !.at = "stopped"]
          /\ script[t].at = "applying"
        BY <1>0, <1>7 DEF RefuseOp, Become, Applying, At
    <2>2. /\ script'[t].at = "stopped" /\ script'[t].next = script[t].next
          /\ script'[t].ops = script[t].ops /\ script'[t].base = script[t].base
        BY <1>0, <2>1 DEF Invocation
    <2> QED
        BY <1>0, <1>1, <2>1, <2>2 DEF Batched
<1> QED
    BY <1>2, <1>3, <1>4, <1>5, <1>6, <1>7 DEF ScriptStep

(* An operation of the batch takes effect once, at its insert or its       *)
(* removal; one that is refused over the budget takes none.                *)
LEMMA StoreStepBatched ==
    ASSUME ScriptInv, ScriptInv', NEW t \in Workers, Batched(t), StoreStep(t)
    PROVE  Batched(t)'
<1>0. /\ script \in [Workers -> Invocation] /\ script[t] \in Invocation
      /\ script[t].ops \in Seq(Op) /\ t \in Threads
      /\ pc \in [Threads -> Steps] /\ call \in [Threads -> Call \cup {NoCall}]
      /\ TypeInv /\ TypeInv'
    BY DEF ScriptInv, ScriptsOK, Invocation, TypeInv, LocalsOK, Threads
<1> DEFINE n == script[t].next
           ops == script[t].ops
           base == script[t].base
<1>1. CASE script[t].at \notin {"applying", "stopped"}
    <2>1. script' = script
        BY <1>1 DEF StoreStep, Direct, ApplyUpsert, ApplyDelete, Applying, At, OpStep,
           OverBudgetStops
    <2> QED
        BY <1>1, <2>1 DEF Batched
<1>2. ASSUME script[t].at = "applying", NEW s, script' = [script EXCEPT ![t] = s],
             s = [script[t] EXCEPT !.next = @ + 1]
      PROVE  /\ script'[t].at = "applying" /\ script'[t].next = n + 1
             /\ script'[t].ops = ops /\ script'[t].base = base
    BY <1>0, <1>2 DEF Invocation
<1>3. CASE ApplyUpsert(t)
    <2> DEFINE o == ops[n]
    <2>1. /\ script[t].at = "applying" /\ pc[t] = "idle" /\ n <= Len(ops)
          /\ o.op = "upsert" /\ o.val # NoValue /\ BeginUpsert(t, o.key, o.val)
        BY <1>3 DEF ApplyUpsert, Applying, At, Current
    <2>2. /\ script'[t].at = "applying" /\ script'[t].next = n + 1
          /\ script'[t].ops = ops /\ script'[t].base = base
        BY <1>2, <1>3, <2>1 DEF ApplyUpsert, NextOp
    <2>3. n \in 1..Len(ops) /\ Len(ops) \in Nat /\ Payloads = Outcome(base, ops, n - 1)
        BY <1>0, <2>1 DEF Batched
    <2>4. /\ pc'[t] = "budget" /\ UNCHANGED Payloads
          /\ call'[t].op = "upsert" /\ call'[t].key = o.key /\ call'[t].rec.val = o.val
        BY <1>0, <2>1 DEF BeginUpsert, Goto, data, Payloads
    <2>5. n + 1 \in 1..Len(ops) + 1 /\ n + 1 >= 2 /\ n + 1 - 2 = n - 1 /\ n + 1 - 1 = n
        BY <2>3
    <2>6. /\ script'[t].ops[script'[t].next - 1] = o
          /\ Outcome(script'[t].base, script'[t].ops, script'[t].next - 2)
               = Outcome(base, ops, n - 1)
          /\ script'[t].next \in 1..Len(script'[t].ops) + 1 /\ script'[t].next >= 2
        <3>1. PICK j \in Nat, q \in Seq(Op), b \in {base} : j = n /\ q = ops /\ b = base
            BY <1>0, <2>3
        <3>2. q[j] = o /\ j \in 1..Len(q) /\ Len(q) \in Nat
            BY <2>3, <3>1
        <3>3. /\ script'[t].next = j + 1 /\ script'[t].ops = q /\ script'[t].base = b
              /\ Outcome(base, ops, n - 1) = Outcome(b, q, j - 1)
            BY <2>2, <3>1
        <3> HIDE DEF o, n, ops, base
        <3>4. j + 1 - 1 = j /\ j + 1 - 2 = j - 1 /\ j + 1 >= 2
              /\ j + 1 \in 1..Len(q) + 1
            BY <3>2
        <3> QED
            BY <3>2, <3>3, <3>4
    <2>7. ~Written(t)' /\ Writes(t, script[t].ops[script[t].next - 1])'
        BY <2>1, <2>4, <2>6 DEF Written, Writes
    <2> HIDE DEF o, n, ops, base
    <2> QED
        BY <2>2, <2>3, <2>4, <2>6, <2>7 DEF Batched
<1>4. CASE ApplyDelete(t)
    <2> DEFINE o == ops[n]
    <2>1. /\ script[t].at = "applying" /\ pc[t] = "idle" /\ n <= Len(ops)
          /\ o.op = "delete" /\ BeginDelete(t, o.key)
        BY <1>4 DEF ApplyDelete, Applying, At, Current
    <2>2. /\ script'[t].at = "applying" /\ script'[t].next = n + 1
          /\ script'[t].ops = ops /\ script'[t].base = base
        BY <1>2, <1>4, <2>1 DEF ApplyDelete, NextOp
    <2>3. n \in 1..Len(ops) /\ Len(ops) \in Nat /\ Payloads = Outcome(base, ops, n - 1)
        BY <1>0, <2>1 DEF Batched
    <2>4. /\ pc'[t] = "unindex" /\ call'[t].op = "delete"
          /\ entities' = [entities EXCEPT ![o.key] = NoRecord]
        BY <1>0, <2>1 DEF BeginDelete, Take, Goto
    <2>5. o \in Op
        BY <1>0, <2>3
    <2>6. o.key \in Keys
        BY <2>1, <2>5 DEF Op
    <2>7. Payloads' = [Payloads EXCEPT ![o.key] = NoRecord]
        BY <1>0, <2>4, <2>6, WritePayload, ScriptAssumption DEF MaybeRecord
    <2>8. Outcome(base, ops, n) = Effect(o, Outcome(base, ops, n - 1))
        <3>1. \A j \in 1..Len(ops) :
                  Outcome(base, ops, j) = Effect(ops[j], Outcome(base, ops, j - 1))
            BY <2>3, OutcomeIs
        <3> QED
            BY <2>3, <3>1
    <2>9. Payloads' = Outcome(base, ops, n)
        BY <2>1, <2>3, <2>7, <2>8 DEF Effect
    <2>10. n + 1 \in 1..Len(ops) + 1 /\ n + 1 >= 2 /\ n + 1 - 1 = n
        BY <2>3, SMTT(30)
    <2> QED
        BY <2>1, <2>2, <2>4, <2>9, <2>10 DEF Batched, Written
<1>5. CASE script[t].at \in {"applying", "stopped"} /\ OpStep(t)
    <2>1. Continue(t) /\ pc[t] # "idle"
        BY <1>5 DEF OpStep, Continue, RejectOverBudget,
           AcceptBudget, Stamp, Insert, SkipUnindex, UnindexSorted, UnindexHash,
           HangOnEmptySet, LeaveNonEmptySet, SkipIndex, AddIndex, RemoveTombstone,
           StoreMemory, Account, Bury
    <2>2. /\ script[t].at = "applying" /\ n \in Nat /\ Len(ops) \in Nat
          /\ n \in 1..Len(ops) + 1 /\ n >= 2
          /\ IF Written(t) THEN Payloads = Outcome(base, ops, n - 1)
             ELSE Payloads = Outcome(base, ops, n - 2) /\ Writes(t, ops[n - 1])
        BY <1>0, <1>5, <2>1 DEF Batched
    <2>3. call[t] \in Call /\ Fits(call[t], pc[t]) /\ call[t].op \in {"upsert", "delete"}
        BY <1>0, <2>1 DEF TypeInv, LocalsOK, Fits, Call
    <2>4. entities' = entities => Payloads' = Payloads
        BY DEF Payloads
    <2>5. CASE RejectOverBudget(t)
        <3>1. /\ script' = [script EXCEPT ![t] = [script[t] EXCEPT !.at = "stopped",
                                                                  !.next = @ - 1]]
              /\ pc[t] = "budget" /\ pc'[t] = "idle" /\ entities' = entities
            BY <1>0, <1>5, <2>2, <2>5
               DEF OpStep, OverBudgetStops, RejectOverBudget, Return, data
        <3>2. /\ script'[t].at = "stopped" /\ script'[t].next = n - 1
              /\ script'[t].ops = ops /\ script'[t].base = base
            BY <1>0, <3>1 DEF Invocation
        <3>3. ~Written(t)
            BY <2>3, <3>1 DEF Written, Fits
        <3>4. n - 1 \in 1..Len(ops) + 1 /\ n - 1 - 1 = n - 2
            BY <2>2
        <3> QED
            BY <2>2, <2>4, <3>1, <3>2, <3>3, <3>4 DEF Batched
    <2>6. ASSUME ~RejectOverBudget(t) PROVE UNCHANGED script
        BY <1>5, <2>6 DEF OpStep
    <2>7. CASE Neutral(t)
        <3>1. ~RejectOverBudget(t)
            BY <2>7 DEF Neutral, RejectOverBudget
        <3> QED
            BY <2>2, <2>4, <2>6, <2>7, <3>1 DEF Neutral, Batched, Written, Writes
    <2>8. CASE AcceptBudget(t)
        <3> DEFINE c == [call[t] EXCEPT !.proj = Projected(t),
                                        !.pos = FirstUnindex(call[t].prev)]
        <3>1. /\ call'[t] = c /\ pc[t] = "budget" /\ pc'[t] = "unindex"
              /\ entities' = entities /\ ~RejectOverBudget(t)
            BY <1>0, <2>8 DEF AcceptBudget, RejectOverBudget, Goto, data
        <3>2. c.op = call[t].op /\ c.key = call[t].key /\ c.rec = call[t].rec
            BY <2>3 DEF Call
        <3> HIDE DEF c
        <3> QED
            BY <2>2, <2>4, <2>6, <3>1, <3>2 DEF Batched, Written, Writes
    <2>9. CASE Insert(t)
        <3> DEFINE c == [call[t] EXCEPT !.pos = 1]
                   o == ops[n - 1]
        <3>1. /\ call'[t] = c /\ pc[t] = "insert" /\ pc'[t] = "index"
              /\ entities' = [entities EXCEPT ![call[t].key] = call[t].rec]
              /\ ~RejectOverBudget(t)
            BY <1>0, <2>9 DEF Insert, RejectOverBudget, Goto
        <3>2. /\ c.op = "upsert" /\ call[t].op = "upsert"
              /\ call[t].rec \in MaybeRecord /\ call[t].rec # NoRecord /\ call[t].key \in Keys
            BY <2>3, <3>1, StoreAssumption DEF Call, Fits, MaybeRecord
        <3>3. Payloads' = [Payloads EXCEPT ![call[t].key] = call[t].rec.val]
            BY <1>0, <3>1, <3>2, WritePayload, ScriptAssumption
        <3>4. ~Written(t) /\ Written(t)'
            BY <3>1, <3>2 DEF Written
        <3>5. Payloads = Outcome(base, ops, n - 2) /\ Writes(t, o)
            BY <2>2, <3>4
        <3>6. Outcome(base, ops, n - 1) = Effect(o, Outcome(base, ops, n - 2))
            <4>1. n - 1 \in 1..Len(ops) /\ n - 1 - 1 = n - 2
                BY <2>2
            <4>2. \A j \in 1..Len(ops) :
                      Outcome(base, ops, j) = Effect(ops[j], Outcome(base, ops, j - 1))
                BY <2>2, OutcomeIs
            <4> QED
                BY <4>1, <4>2
        <3>7. Payloads' = Outcome(base, ops, n - 1)
            <4> HIDE DEF o, n, ops, base
            <4> QED
                BY <3>3, <3>5, <3>6 DEF Effect, Writes
        <3> HIDE DEF c
        <3> QED
            BY <2>2, <2>6, <3>1, <3>4, <3>7 DEF Batched
    <2>10. CASE StoreMemory(t) \/ Bury(t)
        <3>1. /\ Written(t) /\ pc'[t] = "idle" /\ entities' = entities
              /\ ~RejectOverBudget(t)
            BY <1>0, <2>3, <2>10
               DEF StoreMemory, Bury, Return, Written, Fits, RejectOverBudget
        <3> QED
            BY <2>2, <2>4, <2>6, <3>1 DEF Batched
    <2>11. CASE Account(t)
        <3>1. /\ Written(t) /\ Written(t)' /\ pc'[t] = "bury" /\ entities' = entities
              /\ ~RejectOverBudget(t)
            BY <1>0, <2>11 DEF Account, Goto, Written, RejectOverBudget
        <3> QED
            BY <2>2, <2>4, <2>6, <3>1 DEF Batched
    <2> QED
        BY <1>0, <2>1, <2>5, <2>7, <2>8, <2>9, <2>10, <2>11, ContinueIs
<1>6. ~(script[t].at \in {"applying", "stopped"} /\ Direct(t))
    BY DEF Direct, At
<1> QED
    BY <1>1, <1>3, <1>4, <1>5, <1>6 DEF StoreStep

(* With one writer, whatever a handler returns takes effect as a prefix:   *)
(* what the batch has done so far is there in full and nothing else is,    *)
(* and a refused operation undoes none of it.                              *)
THEOREM WriterAppliesPrefix ==
    ASSUME OneWriter
    PROVE  ScriptSpec => []BatchIsPrefix
<1>1. ScriptInit => BatchInv
    BY DEF ScriptInit, BatchInv, Batched, Idle
<1>2. ScriptInv /\ BatchInv /\ [ScriptNext]_scriptVars => BatchInv'
    <2> SUFFICES ASSUME ScriptInv, BatchInv, [ScriptNext]_scriptVars
                 PROVE  BatchInv'
        OBVIOUS
    <2>1. ScriptInv'
        BY ScriptNextTypes
    <2>2. ASSUME NEW t \in Workers, Batched(t)'
          PROVE  BatchInv'
        BY <2>2 DEF BatchInv, OneWriter
    <2>3. CASE UNCHANGED <<vars, script>>
        BY <2>3 DEF vars, BatchInv, Batched, Written, Writes, Payloads
    <2>4. CASE \E t \in Workers : ScriptStep(t) /\ UNCHANGED look
        BY <2>2, <2>4, ScriptStepBatched DEF BatchInv
    <2>5. CASE \E t \in Workers : StoreStep(t) /\ NoteRaces /\ NoteLookups
        BY <2>1, <2>2, <2>5, StoreStepBatched DEF BatchInv
    <2> QED
        BY <2>3, <2>4, <2>5, LookupStepStutters DEF ScriptNext, scriptVars
<1>3. BatchInv /\ ScriptInv => BatchIsPrefix
    BY DEF BatchInv, Batched, BatchIsPrefix, At
<1> QED
    BY <1>1, <1>2, <1>3, ScriptInvariant, PTL DEF ScriptSpec

=============================================================================
