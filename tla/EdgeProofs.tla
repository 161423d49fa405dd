------------------------------ MODULE EdgeProofs ------------------------------
(***************************************************************************)
(* Proofs about Edge and the pool it uses, for any number of requests,     *)
(* jobs, slots, worker threads and permits.                                *)
(***************************************************************************)
EXTENDS Edge, FiniteSetTheorems, TLAPS

(* Before its call a request has no script, and during the call the script *)
(* has started if the call has come that far.                              *)
StartedByStage ==
    \A r \in Requests :
        /\ req[r] \in {"new", "rated", "permitted", "reading"} =>
             stage[r] = "idle" /\ r \notin started
        /\ req[r] = "calling" => (r \in started <=> stage[r] \in {"running", "done"})
        /\ status[r] # NoStatus => req[r] = "answered"

(* A call that runs has let everybody pass.                                *)
RunningPassed == \A c \in Running : ahead[c] = {}

PoolInv == PoolTypeOK /\ SlotExclusive /\ LinesInOrder /\ RunningPassed

IInv == TypeOK /\ PermitsBalance /\ StartedByStage /\ StatusTellsEffect

-----------------------------------------------------------------------------
(* The pool *)

LEMMA SlotArithmetic ==
    /\ \A n \in Nat : n % PoolSize \in Slots /\ n % Wrap \in 0..Wrap - 1
    /\ 0 \in Slots /\ 0 \in 0..Wrap - 1
BY PoolAssumption DEF PoolAssumption, Slots

LEMMA PoolStart == PoolInit => PoolInv
BY SlotArithmetic
   DEF PoolInit, PoolInv, PoolTypeOK, SlotExclusive, LinesInOrder, RunningPassed, Running, Line

LEMMA DrawStep == ASSUME PoolInv, NEW c \in Calls, Draw(c) PROVE PoolInv'
<1>1. PoolTypeOK'
  <2>1. nextSlot \in Nat /\ nextSlot + 1 \in Nat
    BY PoolAssumption DEF PoolInv, PoolTypeOK, PoolAssumption
  <2> QED
    BY <2>1, SlotArithmetic DEF Draw, PoolInv, PoolTypeOK
<1>2. /\ ahead' = ahead /\ Running' = Running
      /\ \A d \in Calls : d # c => slot'[d] = slot[d] /\ stage'[d] = stage[d]
      /\ stage[c] = "idle" /\ stage'[c] = "drawn"
  BY DEF Draw, PoolInv, PoolTypeOK, Running
<1>3. \A s : Line(s)' = Line(s) /\ c \notin Line(s)
  BY <1>2 DEF Line
<1>4. \A d \in Calls : d \in Line(slot[d]) => d # c
  BY <1>3
<1>5. ahead[c] = {}
  BY <1>4 DEF PoolInv, LinesInOrder
<1>6. LinesInOrder'
  BY <1>2, <1>3, <1>4, <1>5 DEF PoolInv, LinesInOrder
<1>7. SlotExclusive' /\ RunningPassed'
  BY <1>2 DEF PoolInv, SlotExclusive, RunningPassed, Running
<1> QED
  BY <1>1, <1>6, <1>7 DEF PoolInv

LEMMA JoinStep == ASSUME PoolInv, NEW c \in Calls, Join(c) PROVE PoolInv'
<1>1. PoolTypeOK'
  BY DEF Join, PoolInv, PoolTypeOK, Line
<1>2. /\ slot' = slot /\ Running' = Running
      /\ \A d \in Calls : d # c => ahead'[d] = ahead[d] /\ stage'[d] = stage[d]
      /\ ahead'[c] = Line(slot[c])
      /\ stage[c] = "drawn" /\ stage'[c] = "waiting"
  BY DEF Join, PoolInv, PoolTypeOK, Running
<1>3. /\ \A s : c \notin Line(s)
      /\ \A s : \A d \in Calls : d # c => (d \in Line(s)' <=> d \in Line(s))
      /\ c \in Line(slot[c])'
      /\ \A s : c \in Line(s)' => s = slot[c]
  BY <1>2 DEF Line
<1>4. \A d \in Calls : c \notin ahead[d]
  BY <1>3 DEF PoolInv, LinesInOrder
<1>5. \A s : Line(s) \subseteq Line(s)'
  BY <1>3 DEF Line
<1>6. LinesInOrder'
  <2>1. \A d \in Calls : ahead'[d] # {} => d \in Line(slot[d])'
    BY <1>2 DEF PoolInv, LinesInOrder, Line
  <2>2. \A d \in Calls : ahead'[d] \subseteq Line(slot[d])'
    BY <1>2 DEF PoolInv, LinesInOrder, Line
  <2>3. ASSUME NEW s \in Slots, NEW d \in Line(s)', NEW e \in Line(s)', d # e
        PROVE  d \in ahead'[e] <=> e \notin ahead'[d]
    <3>1. d \in Calls /\ e \in Calls
      BY <2>3 DEF Line
    <3>2. CASE d # c /\ e # c
      BY <3>1, <3>2, <2>3, <1>2, <1>3 DEF PoolInv, LinesInOrder
    <3>3. CASE d = c
      BY <3>1, <3>3, <2>3, <1>2, <1>3, <1>4
    <3>4. CASE e = c
      BY <3>1, <3>4, <2>3, <1>2, <1>3, <1>4
    <3> QED
      BY <3>2, <3>3, <3>4
  <2> QED
    BY <2>1, <2>2, <2>3 DEF LinesInOrder
<1>7. SlotExclusive'
  BY <1>2 DEF PoolInv, SlotExclusive, Running
<1>8. RunningPassed'
  BY <1>2 DEF PoolInv, RunningPassed, Running
<1> QED
  BY <1>1, <1>6, <1>7, <1>8 DEF PoolInv

LEMMA RunStep == ASSUME PoolInv, NEW c \in Calls, Run(c) PROVE PoolInv'
<1>1. PoolTypeOK'
  BY DEF Run, PoolInv, PoolTypeOK
<1>2. /\ slot' = slot /\ ahead' = ahead /\ ahead[c] = {}
      /\ Running' = Running \cup {c}
      /\ \A s : Line(s)' = Line(s)
      /\ c \in Line(slot[c])
  BY DEF Run, PoolInv, PoolTypeOK, Running, Line
<1>3. LinesInOrder' /\ RunningPassed'
  BY <1>2 DEF PoolInv, LinesInOrder, RunningPassed
<1>4. \A d \in Running : slot[d] = slot[c] => d = c
  <2>1. SUFFICES ASSUME NEW d \in Running, slot[d] = slot[c], d # c PROVE FALSE
    OBVIOUS
  <2>2. d \in Line(slot[c]) /\ slot[c] \in Slots
    BY <2>1 DEF Running, Line, PoolInv, PoolTypeOK
  <2>3. c \in ahead[d]
    BY <1>2, <2>1, <2>2 DEF PoolInv, LinesInOrder
  <2> QED
    BY <2>1, <2>3 DEF PoolInv, RunningPassed
<1>5. SlotExclusive'
  BY <1>2, <1>4 DEF PoolInv, SlotExclusive
<1> QED
  BY <1>1, <1>3, <1>5 DEF PoolInv

(* Leaving the line, by finishing or by stepping out.                      *)
LEMMA LeavingKeepsOrder ==
    ASSUME PoolInv, NEW c \in Calls, LetPass(c), stage'[c] \notin {"waiting", "running"},
           \A d \in Calls : d # c => slot'[d] = slot[d] /\ stage'[d] = stage[d]
    PROVE  SlotExclusive' /\ LinesInOrder' /\ RunningPassed'
<1>1. /\ ahead'[c] = {}
      /\ \A d \in Calls : d # c => ahead'[d] = ahead[d] \ {c}
  BY DEF LetPass
<1>2. \A s : Line(s)' = Line(s) \ {c}
  BY DEF Line
<1>3. Running' \subseteq Running /\ c \notin Running'
  BY DEF Running
<1>4. SlotExclusive' /\ RunningPassed'
  BY <1>1, <1>3 DEF PoolInv, SlotExclusive, RunningPassed, Running
<1>5. \A d \in Calls : ahead'[d] # {} => d \in Line(slot[d])'
  BY <1>1 DEF PoolInv, LinesInOrder, Line
<1>6. \A d \in Calls : ahead'[d] \subseteq Line(slot[d])'
  BY <1>1 DEF PoolInv, LinesInOrder, Line
<1>7. ASSUME NEW s \in Slots, NEW d \in Line(s)', NEW e \in Line(s)', d # e
      PROVE  d \in ahead'[e] <=> e \notin ahead'[d]
  <2>1. d \in Line(s) /\ e \in Line(s) /\ d # c /\ e # c /\ d \in Calls /\ e \in Calls
    BY <1>2, <1>7 DEF Line
  <2> QED
    BY <1>1, <1>7, <2>1 DEF PoolInv, LinesInOrder
<1> QED
  BY <1>4, <1>5, <1>6, <1>7 DEF LinesInOrder

LEMMA FinishStep == ASSUME PoolInv, NEW c \in Calls, Finish(c) PROVE PoolInv'
<1>1. PoolTypeOK'
  BY DEF Finish, LetPass, PoolInv, PoolTypeOK
<1>2. /\ LetPass(c) /\ stage'[c] = "done"
      /\ \A d \in Calls : d # c => slot'[d] = slot[d] /\ stage'[d] = stage[d]
  BY DEF Finish, PoolInv, PoolTypeOK
<1> QED
  BY <1>1, <1>2, LeavingKeepsOrder DEF PoolInv

LEMMA CancelStep == ASSUME PoolInv, NEW c \in Calls, Cancel(c) PROVE PoolInv'
<1>1. PoolTypeOK'
  BY SlotArithmetic DEF Cancel, Over, LetPass, PoolInv, PoolTypeOK
<1>2. /\ LetPass(c) /\ stage'[c] = "idle"
      /\ \A d \in Calls : d # c => slot'[d] = slot[d] /\ stage'[d] = stage[d]
  BY DEF Cancel, Over, PoolInv, PoolTypeOK
<1> QED
  BY <1>1, <1>2, LeavingKeepsOrder DEF PoolInv

LEMMA ReturnStep == ASSUME PoolInv, NEW c \in Calls, Return(c) PROVE PoolInv'
<1>1. PoolTypeOK'
  BY SlotArithmetic DEF Return, Over, PoolInv, PoolTypeOK
<1>2. /\ stage[c] = "done" /\ stage'[c] = "idle" /\ ahead' = ahead
      /\ \A d \in Calls : d # c => slot'[d] = slot[d] /\ stage'[d] = stage[d]
  BY DEF Return, Over, PoolInv, PoolTypeOK
<1>3. \A s : c \notin Line(s) /\ Line(s)' = Line(s)
  BY <1>2 DEF Line
<1>4. ahead[c] = {} /\ \A d \in Calls : c \notin ahead[d]
  BY <1>3 DEF PoolInv, LinesInOrder
<1>5. LetPass(c)
  BY <1>2, <1>4 DEF LetPass, PoolInv, PoolTypeOK
<1> QED
  BY <1>1, <1>2, <1>5, LeavingKeepsOrder DEF PoolInv

LEMMA PoolStep == PoolInv /\ [PoolNext]_poolVars => PoolInv'
<1> SUFFICES ASSUME PoolInv, [PoolNext]_poolVars PROVE PoolInv'
  OBVIOUS
<1>1. CASE UNCHANGED poolVars
  BY <1>1 DEF poolVars, PoolInv, PoolTypeOK, SlotExclusive, LinesInOrder, RunningPassed,
              Running, Line
<1>2. CASE PoolNext
  BY <1>2, DrawStep, JoinStep, RunStep, FinishStep, CancelStep, ReturnStep DEF PoolNext
<1> QED
  BY <1>1, <1>2

-----------------------------------------------------------------------------
(* Requests use the pool as it is meant to be used. *)

LEMMA CallersAreCalls == Requests \subseteq Calls /\ Jobs \subseteq Calls /\ Requests \cap Jobs = {}
BY EdgeAssumption DEF EdgeAssumption

LEMMA PoolUse == [Next]_vars => [PoolNext]_poolVars
<1> SUFFICES ASSUME [Next]_vars PROVE [PoolNext]_poolVars
  OBVIOUS
<1>1. CASE UNCHANGED vars
  BY <1>1 DEF vars
<1>2. ASSUME NEW r \in Requests, Handle(r) \/ Disconnect(r) PROVE [PoolNext]_poolVars
  BY <1>2, CallersAreCalls
     DEF Handle, CheckRate, AcquirePermit, CheckBudget, ReadBody, Call, Respond, Disconnect,
         PoolNext
<1>3. ASSUME NEW j \in Jobs, JobCall(j) PROVE [PoolNext]_poolVars
  BY <1>3, CallersAreCalls DEF JobCall, PoolNext
<1> QED
  BY <1>1, <1>2, <1>3 DEF Next

(* Every run of the edge is a run of the pool.                             *)
THEOREM UsesPool == Spec => PoolSpec
<1>1. Init => PoolInit
  BY DEF Init
<1> QED
  BY <1>1, PoolUse, PTL DEF Spec, PoolSpec

LEMMA PoolInvariant == Spec => []PoolInv
<1>1. PoolSpec => []PoolInv
  BY PoolStart, PoolStep, PTL DEF PoolSpec
<1> QED
  BY <1>1, UsesPool, PTL

-----------------------------------------------------------------------------
(* Permits *)

LEMMA HoldersFinite == IsFiniteSet(Holders)
<1>1. IsFiniteSet(Calls) /\ Holders \subseteq Calls
  BY PoolAssumption, CallersAreCalls DEF PoolAssumption, Holders
<1> QED
  BY <1>1, FS_Subset

(* The steps of a request, seen from the semaphore.                        *)
LEMMA Releases ==
    ASSUME TypeOK, PermitsBalance, NEW r \in Requests, Holds(r), permits' = permits + 1,
           NEW step \in {"answered", "gone"}, req' = [req EXCEPT ![r] = step]
    PROVE  permits' \in 0..MaxRequests /\ PermitsBalance'
<1>1. Holders' = Holders \ {r} /\ r \in Holders
  BY DEF Holders, Holds, TypeOK
<1>2. /\ Cardinality(Holders') = Cardinality(Holders) - 1
      /\ Cardinality(Holders) \in Nat /\ Cardinality(Holders') \in Nat
  <2>1. IsFiniteSet(Holders')
    BY <1>1, HoldersFinite, FS_Subset
  <2> QED
    BY <1>1, <2>1, HoldersFinite, FS_RemoveElement, FS_CardinalityType
<1>3. permits \in Nat /\ MaxRequests \in Nat /\ permits + Cardinality(Holders) = MaxRequests
  BY EdgeAssumption DEF TypeOK, PermitsBalance, EdgeAssumption
<1> QED
  BY <1>2, <1>3 DEF PermitsBalance

LEMMA Acquires ==
    ASSUME TypeOK, PermitsBalance, NEW r \in Requests, req[r] = "rated", permits > 0,
           permits' = permits - 1, req' = [req EXCEPT ![r] = "permitted"]
    PROVE  permits' \in 0..MaxRequests /\ PermitsBalance'
<1>1. Holders' = Holders \cup {r} /\ r \notin Holders
  BY DEF Holders, Holds, TypeOK
<1>2. /\ Cardinality(Holders') = Cardinality(Holders) + 1
      /\ Cardinality(Holders) \in Nat
  BY <1>1, HoldersFinite, FS_AddElement, FS_CardinalityType
<1>3. permits \in Nat /\ MaxRequests \in Nat /\ permits + Cardinality(Holders) = MaxRequests
  BY EdgeAssumption DEF TypeOK, PermitsBalance, EdgeAssumption
<1> QED
  BY <1>2, <1>3 DEF PermitsBalance

LEMMA Keeps ==
    ASSUME TypeOK, PermitsBalance, permits' = permits, Holders' = Holders
    PROVE  permits' \in 0..MaxRequests /\ PermitsBalance'
BY DEF TypeOK, PermitsBalance

-----------------------------------------------------------------------------
(* The invariant of the requests *)

LEMMA Start == Init => IInv
<1> SUFFICES ASSUME Init PROVE IInv
  OBVIOUS
<1>1. PoolTypeOK
  BY PoolStart DEF Init, PoolInv
<1>2. MaxRequests \in Nat /\ permits = MaxRequests
  BY EdgeAssumption DEF EdgeAssumption, Init
<1>3. TypeOK
  BY <1>1, <1>2 DEF Init, TypeOK
<1>4. Holders = {}
  BY DEF Init, Holders, Holds
<1>5. PermitsBalance
  BY <1>2, <1>4, FS_EmptySet DEF PermitsBalance
<1>6. StartedByStage /\ StatusTellsEffect
  BY CallersAreCalls
     DEF Init, PoolInit, StartedByStage, StatusTellsEffect, NoStatus, Refusals, Replies, Rendered
<1> QED
  BY <1>3, <1>5, <1>6 DEF IInv

LEMMA StatusesAreDistinct ==
    Refusals \cap Replies = {} /\ NoStatus \notin Statuses /\ Statuses = Refusals \cup Replies
BY DEF Refusals, Replies, Rendered, Statuses, NoStatus

(* A request is refused before its call.                                   *)
LEMMA Refuse ==
    ASSUME IInv, NEW r \in Requests, NEW st \in Refusals, Answer(r, st),
           req[r] \in {"new", "rated", "permitted", "reading"},
           UNCHANGED <<poolVars, started>>
    PROVE  IInv'
<1>1. /\ req' = [req EXCEPT ![r] = "answered"]
      /\ status' = [status EXCEPT ![r] = st]
      /\ permits' = IF Holds(r) THEN permits + 1 ELSE permits
  BY DEF Answer
<1>2. permits' \in 0..MaxRequests /\ PermitsBalance'
  <2>1. CASE Holds(r)
    BY <1>1, <2>1, Releases DEF IInv
  <2>2. CASE ~Holds(r)
    <3>1. Holders' = Holders
      BY <1>1, <2>2 DEF Holders, Holds, IInv, TypeOK
    <3> QED
      BY <1>1, <2>2, <3>1, Keeps DEF IInv
  <2> QED
    BY <2>1, <2>2
<1>3. TypeOK'
  BY <1>1, <1>2 DEF IInv, TypeOK, PoolTypeOK, poolVars, Statuses
<1>4. /\ StartedByStage'
      /\ StatusTellsEffect'
  BY <1>1, StatusesAreDistinct DEF IInv, TypeOK, StartedByStage, StatusTellsEffect, poolVars
<1> QED
  BY <1>2, <1>3, <1>4 DEF IInv

(* A request passes one of the limits, or its body is read.                *)
LEMMA Advance ==
    ASSUME IInv, NEW r \in Requests, NEW step \in {"rated", "permitted", "reading", "calling"},
           Goto(r, step), req[r] \in {"new", "rated", "permitted", "reading"},
           permits' \in 0..MaxRequests, PermitsBalance',
           UNCHANGED <<poolVars, started>>
    PROVE  IInv'
<1>1. /\ req' = [req EXCEPT ![r] = step]
      /\ status' = status
  BY DEF Goto
<1>2. TypeOK'
  BY <1>1 DEF IInv, TypeOK, PoolTypeOK, poolVars
<1>3. StartedByStage' /\ StatusTellsEffect'
  BY <1>1 DEF IInv, TypeOK, StartedByStage, StatusTellsEffect, poolVars
<1> QED
  BY <1>2, <1>3 DEF IInv

LEMMA CheckRateStep == ASSUME IInv, NEW r \in Requests, CheckRate(r) PROVE IInv'
<1>1. CASE Answer(r, "429 rate")
  BY <1>1, Refuse DEF CheckRate, Refusals
<1>2. CASE Goto(r, "rated") /\ UNCHANGED permits
  <2>1. Holders' = Holders
    BY <1>2 DEF CheckRate, Goto, Holders, Holds, IInv, TypeOK
  <2> QED
    BY <1>2, <2>1, Keeps, Advance DEF CheckRate, IInv
<1> QED
  BY <1>1, <1>2 DEF CheckRate

LEMMA AcquirePermitStep == ASSUME IInv, NEW r \in Requests, AcquirePermit(r) PROVE IInv'
<1>1. CASE Answer(r, "503 concurrency")
  BY <1>1, Refuse DEF AcquirePermit, Refusals
<1>2. CASE permits > 0 /\ permits' = permits - 1 /\ Goto(r, "permitted")
  <2>1. permits' \in 0..MaxRequests /\ PermitsBalance'
    BY <1>2, Acquires DEF AcquirePermit, Goto, IInv
  <2> QED
    BY <1>2, <2>1, Advance DEF AcquirePermit
<1> QED
  BY <1>1, <1>2 DEF AcquirePermit

LEMMA CheckBudgetStep == ASSUME IInv, NEW r \in Requests, CheckBudget(r) PROVE IInv'
<1>1. CASE Answer(r, "503 memory")
  BY <1>1, Refuse DEF CheckBudget, Refusals
<1>2. CASE Goto(r, "reading") /\ UNCHANGED permits
  <2>1. Holders' = Holders
    BY <1>2 DEF CheckBudget, Goto, Holders, Holds, IInv, TypeOK
  <2> QED
    BY <1>2, <2>1, Keeps, Advance DEF CheckBudget, IInv
<1> QED
  BY <1>1, <1>2 DEF CheckBudget

LEMMA ReadBodyStep == ASSUME IInv, NEW r \in Requests, ReadBody(r) PROVE IInv'
<1>1. CASE Answer(r, "400 body")
  BY <1>1, Refuse DEF ReadBody, Refusals
<1>2. CASE Goto(r, "calling") /\ UNCHANGED permits
  <2>1. Holders' = Holders
    BY <1>2 DEF ReadBody, Goto, Holders, Holds, IInv, TypeOK
  <2> QED
    BY <1>2, <2>1, Keeps, Advance DEF ReadBody, IInv
<1> QED
  BY <1>1, <1>2 DEF ReadBody

(* The step of a call moves the stage of that call only.                   *)
LEMMA StagesOfOthers ==
    ASSUME PoolTypeOK, NEW c \in Calls,
           Draw(c) \/ Join(c) \/ Run(c) \/ Finish(c) \/ Cancel(c) \/ Return(c)
    PROVE  \A d \in Calls : d # c => stage'[d] = stage[d]
BY DEF PoolTypeOK, Draw, Join, Run, Finish, Cancel, Return, Over

LEMMA CallStep == ASSUME IInv, PoolTypeOK', NEW r \in Requests, Call(r) PROVE IInv'
<1>1. r \in Calls /\ req[r] = "calling" /\ UNCHANGED <<req, status, permits>>
  BY CallersAreCalls DEF Call
<1>2. \A d \in Requests : d # r => stage'[d] = stage[d] /\ (d \in started' <=> d \in started)
  BY <1>1, CallersAreCalls, StagesOfOthers DEF Call, IInv, TypeOK
<1>3. r \in started' <=> stage'[r] \in {"running", "done"}
  BY <1>1 DEF Call, Draw, Join, Run, Finish, IInv, TypeOK, PoolTypeOK, StartedByStage
<1>4. started' \subseteq Requests
  BY DEF Call, IInv, TypeOK
<1>5. TypeOK'
  BY <1>1, <1>4 DEF IInv, TypeOK
<1>6. PermitsBalance'
  BY <1>1 DEF IInv, PermitsBalance, Holders, Holds
<1>7. StartedByStage'
  BY <1>1, <1>2, <1>3 DEF IInv, StartedByStage
<1>8. StatusTellsEffect'
  BY <1>1, <1>2, StatusesAreDistinct DEF IInv, StartedByStage, StatusTellsEffect
<1> QED
  BY <1>5, <1>6, <1>7, <1>8 DEF IInv

LEMMA RespondStep == ASSUME IInv, PoolTypeOK', NEW r \in Requests, Respond(r) PROVE IInv'
<1>1. PICK st \in Replies : Answer(r, st)
  BY DEF Respond, Replies, Rendered
<1>2. /\ r \in Calls /\ req[r] = "calling" /\ started' = started
      /\ Return(r) /\ stage[r] = "done"
  BY CallersAreCalls DEF Respond, Return
<1>3. /\ req' = [req EXCEPT ![r] = "answered"]
      /\ status' = [status EXCEPT ![r] = st]
      /\ permits' = permits + 1
  BY <1>1, <1>2 DEF Answer, Holds
<1>4. permits' \in 0..MaxRequests /\ PermitsBalance'
  BY <1>2, <1>3, Releases DEF Holds, IInv
<1>5. \A d \in Requests : d # r => stage'[d] = stage[d]
  BY <1>2, CallersAreCalls, StagesOfOthers DEF IInv, TypeOK
<1>6. TypeOK'
  BY <1>2, <1>3, <1>4, StatusesAreDistinct DEF IInv, TypeOK
<1>7. r \in started
  BY <1>2 DEF IInv, StartedByStage
<1>8. StartedByStage'
  BY <1>2, <1>3, <1>5 DEF IInv, TypeOK, StartedByStage
<1>9. StatusTellsEffect'
  BY <1>2, <1>3, <1>7, StatusesAreDistinct DEF IInv, TypeOK, StatusTellsEffect
<1> QED
  BY <1>4, <1>6, <1>8, <1>9 DEF IInv

LEMMA DisconnectStep == ASSUME IInv, PoolTypeOK', NEW r \in Requests, Disconnect(r) PROVE IInv'
<1>1. /\ r \in Calls /\ req[r] \in {"reading", "calling"}
      /\ started' = started /\ permits' = permits + 1 /\ status' = status
      /\ req' = [req EXCEPT ![r] = "gone"]
  BY CallersAreCalls DEF Disconnect, Goto
<1>2. permits' \in 0..MaxRequests /\ PermitsBalance'
  BY <1>1, Releases DEF Holds, IInv
<1>3. \A d \in Requests : d # r => stage'[d] = stage[d]
  BY CallersAreCalls, StagesOfOthers DEF Disconnect, poolVars, IInv, TypeOK
<1>4. status[r] = NoStatus
  BY <1>1 DEF IInv, StartedByStage
<1>5. TypeOK'
  BY <1>1, <1>2 DEF IInv, TypeOK
<1>6. StartedByStage'
  BY <1>1, <1>3, <1>4 DEF IInv, TypeOK, StartedByStage
<1>7. StatusTellsEffect'
  BY <1>1 DEF IInv, StatusTellsEffect
<1> QED
  BY <1>2, <1>5, <1>6, <1>7 DEF IInv

LEMMA JobCallStep == ASSUME IInv, PoolTypeOK', NEW j \in Jobs, JobCall(j) PROVE IInv'
<1>1. UNCHANGED edgeVars /\ j \in Calls /\ \A r \in Requests : r # j
  BY CallersAreCalls DEF JobCall
<1>2. \A r \in Requests : stage'[r] = stage[r]
  BY <1>1, CallersAreCalls, StagesOfOthers DEF JobCall, IInv, TypeOK
<1> QED
  BY <1>1, <1>2
     DEF edgeVars, IInv, TypeOK, PermitsBalance, Holders, Holds, StartedByStage, StatusTellsEffect

LEMMA Step == IInv /\ PoolTypeOK' /\ [Next]_vars => IInv'
<1> SUFFICES ASSUME IInv, PoolTypeOK', [Next]_vars PROVE IInv'
  OBVIOUS
<1>1. CASE UNCHANGED vars
  BY <1>1 DEF vars, poolVars, edgeVars, IInv, TypeOK, PoolTypeOK, PermitsBalance, Holders, Holds,
              StartedByStage, StatusTellsEffect
<1>2. ASSUME NEW r \in Requests, Handle(r) PROVE IInv'
  BY <1>2, CheckRateStep, AcquirePermitStep, CheckBudgetStep, ReadBodyStep, CallStep, RespondStep
     DEF Handle
<1>3. ASSUME NEW r \in Requests, Disconnect(r) PROVE IInv'
  BY <1>3, DisconnectStep
<1>4. ASSUME NEW j \in Jobs, JobCall(j) PROVE IInv'
  BY <1>4, JobCallStep
<1> QED
  BY <1>1, <1>2, <1>3, <1>4 DEF Next

LEMMA Invariant == Spec => []IInv
<1>1. PoolInv => PoolTypeOK
  BY DEF PoolInv
<1> QED
  BY <1>1, PoolInvariant, Start, Step, PTL DEF Spec

-----------------------------------------------------------------------------
(* Two scripts never run in one JS slot at a time, however many requests,  *)
(* jobs and threads there are and whoever gives up waiting (the mutex of   *)
(* JsRuntimePool's slots).                                                 *)
THEOREM SlotsAreExclusive == Spec => []SlotExclusive
<1>1. PoolInv => SlotExclusive
  BY DEF PoolInv
<1> QED
  BY <1>1, PoolInvariant, PTL

(* Nobody waits in the line of a JS slot for a call that has gone, and     *)
(* nobody overtakes.                                                       *)
THEOREM LinesStayInOrder == Spec => []LinesInOrder
<1>1. PoolInv => LinesInOrder
  BY DEF PoolInv
<1> QED
  BY <1>1, PoolInvariant, PTL

(* Requests, permits and the pool keep their types; in particular the      *)
(* semaphore never counts above max_concurrent_requests.                   *)
THEOREM TypeCorrect == Spec => []TypeOK
<1>1. IInv => TypeOK
  BY DEF IInv
<1> QED
  BY <1>1, Invariant, PTL

(* request_semaphore loses no permit and gains none, for any number of     *)
(* requests and permits and however the requests end.                      *)
THEOREM PermitsConserved == Spec => []PermitsBalance
<1>1. IInv => PermitsBalance
  BY DEF IInv
<1> QED
  BY <1>1, Invariant, PTL

(* handle_edge_request refuses only requests whose script has not run, and *)
(* replies only to those whose script has.                                 *)
THEOREM StatusIsTrue == Spec => []StatusTellsEffect
<1>1. IInv => StatusTellsEffect
  BY DEF IInv
<1> QED
  BY <1>1, Invariant, PTL

=============================================================================
