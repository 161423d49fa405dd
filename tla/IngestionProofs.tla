--------------------------- MODULE IngestionProofs ---------------------------
(***************************************************************************)
(* Proofs about Ingestion, for any number of messages, permits and crashes *)
(* and any set of failing steps; then, with one permit, what the order of  *)
(* the messages adds: none is lost, and each is counted.                   *)
(***************************************************************************)
EXTENDS Ingestion, FiniteSetTheorems, TLAPS

(* A message that is still to be processed has not been applied by this    *)
(* process and has no task.                                                *)
AheadIsFresh ==
    /\ held # NoOffset => held < pos
    /\ \A o \in Messages : (o >= pos \/ o = held) => o \notin applied /\ task[o] = NoTask
    /\ phase = "down" => held = NoOffset /\ applied = {} /\ InFlight = {}

(* What a task has applied is told by its step.                            *)
StepTells ==
    /\ \A o \in Messages : task[o] # NoTask =>
         IF task[o].step \in {"recheck", "commit"} THEN o \in ever ELSE o \notin applied
    /\ applied \subseteq ever

IInv == TypeOK /\ PermitsBalance /\ AheadIsFresh /\ StepTells /\ CommitFollowsApply

-----------------------------------------------------------------------------
(* Lemmas about the helpers *)

LEMMA MessagesAndOffsets ==
    /\ Messages \subseteq Offsets
    /\ Offsets \subseteq Nat
    /\ \A o \in Messages : o \in Nat /\ o + 1 \in Offsets /\ o + 1 - 1 = o /\ o # NoOffset
    /\ Permits \in Nat \ {0}
    /\ 0 \in Offsets
BY IngestionAssumption DEF IngestionAssumption, Messages, Offsets, Permits

LEMMA InFlightFinite == IsFiniteSet(InFlight)
<1>1. IsFiniteSet(0..NumMessages-1)
  BY FS_Interval, IngestionAssumption DEF IngestionAssumption
<1>2. InFlight \subseteq 0..NumMessages-1
  BY DEF InFlight, Messages
<1> QED
  BY <1>1, <1>2, FS_Subset

(* Tasks change step without entering or leaving the set in flight.        *)
LEMMA StaysInFlight ==
    ASSUME TypeOK, NEW o \in Messages, task[o] # NoTask,
           NEW t \in Task, task' = [task EXCEPT ![o] = t]
    PROVE  InFlight' = InFlight
<1>1. task \in [Messages -> Task \cup {NoTask}]
  BY DEF TypeOK
<1>2. t # NoTask
  BY IngestionAssumption DEF IngestionAssumption
<1> QED
  BY <1>1, <1>2 DEF InFlight

(* End gives back the permit of a task in flight.                          *)
LEMMA EndBalances ==
    ASSUME IInv, NEW o \in Messages, task[o] # NoTask, End(o)
    PROVE  /\ permits' \in 0..Permits
           /\ PermitsBalance'
           /\ task' \in [Messages -> Task \cup {NoTask}]
           /\ InFlight' = InFlight \ {o}
<1>1. task \in [Messages -> Task \cup {NoTask}] /\ permits \in 0..Permits
  BY DEF IInv, TypeOK
<1>2. InFlight' = InFlight \ {o} /\ o \in InFlight
  BY <1>1 DEF InFlight, End
<1>3. /\ Cardinality(InFlight') = Cardinality(InFlight) - 1
      /\ Cardinality(InFlight) \in Nat
      /\ Cardinality(InFlight') \in Nat
  BY <1>2, InFlightFinite, FS_RemoveElement, FS_CardinalityType, FS_Subset
<1>4. permits' = permits + 1
  BY DEF End
<1>5. permits + Cardinality(InFlight) = Permits
  BY DEF IInv, PermitsBalance
<1>6. permits' + Cardinality(InFlight') = Permits /\ permits' \in 0..Permits
  BY <1>1, <1>3, <1>4, <1>5, MessagesAndOffsets
<1>7. task' \in [Messages -> Task \cup {NoTask}]
  BY <1>1 DEF End
<1> QED
  BY <1>2, <1>6, <1>7 DEF PermitsBalance, Permits

-----------------------------------------------------------------------------

LEMMA InitInvariant == Init => IInv
<1> SUFFICES ASSUME Init PROVE IInv
  OBVIOUS
<1> USE MessagesAndOffsets, IngestionAssumption DEF IngestionAssumption
<1>1. InFlight = {}
  BY DEF Init, InFlight
<1>2. TypeOK
  <2>1. task \in [Messages -> Task \cup {NoTask}]
    BY DEF Init
  <2>2. commits \in Seq(Offsets)
    BY DEF Init
  <2>3. permits \in 0..Permits /\ crashes \in 0..MaxCrashes
    BY DEF Init
  <2> QED
    BY <2>1, <2>2, <2>3 DEF Init, TypeOK
<1>3. PermitsBalance
  BY <1>1, FS_EmptySet DEF Init, PermitsBalance
<1>4. AheadIsFresh /\ StepTells
  BY <1>1 DEF Init, AheadIsFresh, StepTells
<1>5. CommitFollowsApply
  BY DEF Init, CommitFollowsApply
<1> QED
  BY <1>2, <1>3, <1>4, <1>5 DEF IInv

LEMMA BrokerStep ==
    ASSUME IInv, Produce \/ CommitArrives
    PROVE  IInv'
<1> USE MessagesAndOffsets, IngestionAssumption DEF IngestionAssumption
<1>1. CASE Produce
  <2>1. TypeOK'
    BY <1>1 DEF IInv, TypeOK, Produce, loop, history, Offsets
  <2>2. InFlight' = InFlight
    BY <1>1 DEF Produce, InFlight
  <2> QED
    BY <1>1, <2>1, <2>2 DEF IInv, PermitsBalance, AheadIsFresh, StepTells,
        CommitFollowsApply, Produce, loop, history
<1>2. CASE CommitArrives
  <2>1. /\ commits \in Seq(Offsets) /\ commits # <<>>
        /\ Head(commits) = commits[1] /\ 1 \in DOMAIN commits
        /\ \A n \in DOMAIN commits' : n + 1 \in DOMAIN commits /\ commits'[n] = commits[n + 1]
    BY <1>2 DEF IInv, TypeOK, CommitArrives
  <2>2. TypeOK'
    BY <1>2, <2>1 DEF IInv, TypeOK, CommitArrives, loop, history
  <2>3. InFlight' = InFlight
    BY <1>2 DEF CommitArrives, InFlight
  <2>4. CommitFollowsApply'
    BY <1>2, <2>1 DEF IInv, CommitFollowsApply, CommitArrives, history
  <2> QED
    BY <1>2, <2>2, <2>3, <2>4 DEF IInv, PermitsBalance, AheadIsFresh, StepTells,
        CommitArrives, loop, history
<1> QED
  BY <1>1, <1>2

LEMMA ProcessStep ==
    ASSUME IInv, Start \/ Crash
    PROVE  IInv'
<1> USE MessagesAndOffsets, IngestionAssumption DEF IngestionAssumption
<1>1. CASE Start
  <2>1. ResumeAt \in Offsets
    BY DEF IInv, TypeOK, ResumeAt
  <2>2. TypeOK'
    BY <1>1, <2>1 DEF IInv, TypeOK, Start, broker
  <2>3. InFlight' = InFlight /\ InFlight = {} /\ applied = {} /\ held = NoOffset
    BY <1>1 DEF Start, InFlight, IInv, AheadIsFresh
  <2>4. AheadIsFresh'
    BY <1>1, <2>3 DEF Start, AheadIsFresh, InFlight
  <2> QED
    BY <1>1, <2>2, <2>3, <2>4 DEF IInv, PermitsBalance, StepTells, CommitFollowsApply,
        Start, broker
<1>2. CASE Crash
  <2>1. TypeOK'
    BY <1>2 DEF IInv, TypeOK, Crash, broker
  <2>2. InFlight' = {}
    BY <1>2 DEF Crash, InFlight
  <2>3. PermitsBalance'
    BY <1>2, <2>2, FS_EmptySet DEF Crash, PermitsBalance
  <2>4. AheadIsFresh' /\ StepTells'
    BY <1>2, <2>2 DEF Crash, AheadIsFresh, StepTells
  <2>5. CommitFollowsApply'
    BY <1>2 DEF IInv, Crash, CommitFollowsApply, broker
  <2> QED
    BY <2>1, <2>3, <2>4, <2>5 DEF IInv
<1> QED
  BY <1>1, <1>2

LEMMA LoopStep ==
    ASSUME IInv, Receive \/ Spawn \/ RequestStop \/ LeaveLoop
    PROVE  IInv'
<1> USE MessagesAndOffsets, IngestionAssumption DEF IngestionAssumption
<1>1. CASE Receive
  <2>1. pos \in Messages /\ pos + 1 \in Offsets
    BY <1>1 DEF IInv, TypeOK, Receive, Offsets, Messages
  <2>2. TypeOK'
    BY <1>1, <2>1 DEF IInv, TypeOK, Receive, broker, history
  <2>3. InFlight' = InFlight
    BY <1>1 DEF Receive, InFlight
  <2>4. AheadIsFresh'
    <3>1. \A o \in Messages : o >= pos + 1 \/ o = pos => o >= pos
      BY <2>1
    <3> QED
      BY <1>1, <2>1, <2>3, <3>1 DEF IInv, AheadIsFresh, Receive
  <2> QED
    BY <1>1, <2>2, <2>3, <2>4 DEF IInv, PermitsBalance, StepTells, CommitFollowsApply,
        Receive, broker, history
<1>2. CASE Spawn
  <2> DEFINE new == [step |-> "rate", read |-> 0]
  <2>1. held \in Messages /\ held # NoOffset /\ task[held] = NoTask /\ held \notin applied
    BY <1>2 DEF IInv, TypeOK, Spawn, AheadIsFresh
  <2>2. new \in Task /\ new # NoTask /\ new.step = "rate"
    BY DEF Task, Steps
  <2>3. task' = [task EXCEPT ![held] = new]
    BY <1>2 DEF Spawn
  <2> HIDE DEF new
  <2>4. InFlight' = InFlight \cup {held} /\ held \notin InFlight
    BY <2>1, <2>2, <2>3 DEF IInv, TypeOK, InFlight
  <2>5. PermitsBalance' /\ permits' \in 0..Permits
    <3>1. Cardinality(InFlight') = Cardinality(InFlight) + 1 /\ Cardinality(InFlight) \in Nat
      BY <2>4, InFlightFinite, FS_AddElement, FS_CardinalityType
    <3>2. permits' = permits - 1 /\ permits > 0 /\ permits \in 0..Permits
      BY <1>2 DEF Spawn, IInv, TypeOK
    <3>3. permits + Cardinality(InFlight) = Permits
      BY DEF IInv, PermitsBalance
    <3>4. permits' + Cardinality(InFlight') = Permits /\ permits' \in 0..Permits
      BY <3>1, <3>2, <3>3
    <3> QED
      BY <3>4 DEF PermitsBalance, Permits
  <2>6. task' \in [Messages -> Task \cup {NoTask}]
    BY <2>2, <2>3 DEF IInv, TypeOK
  <2>7. TypeOK'
    BY <1>2, <2>5, <2>6 DEF IInv, TypeOK, Spawn, broker, history
  <2>8. AheadIsFresh'
    <3>1. \A o \in Messages : o >= pos => o # held
      BY <2>1 DEF IInv, TypeOK, AheadIsFresh, Messages, Offsets
    <3> QED
      BY <1>2, <2>1, <2>3, <3>1 DEF IInv, TypeOK, AheadIsFresh, Spawn
  <2>9. StepTells'
    BY <1>2, <2>1, <2>2, <2>3 DEF IInv, TypeOK, StepTells, Spawn, history
  <2> QED
    BY <1>2, <2>5, <2>7, <2>8, <2>9 DEF IInv, CommitFollowsApply, Spawn, broker, history
<1>3. CASE RequestStop \/ LeaveLoop
  <2>1. TypeOK'
    BY <1>3 DEF IInv, TypeOK, RequestStop, LeaveLoop, broker, history
  <2>2. InFlight' = InFlight
    BY <1>3 DEF RequestStop, LeaveLoop, InFlight
  <2> QED
    BY <1>3, <2>1, <2>2 DEF IInv, PermitsBalance, AheadIsFresh, StepTells,
        CommitFollowsApply, RequestStop, LeaveLoop, broker, history
<1> QED
  BY <1>1, <1>2, <1>3

(* The steps of a task that do nothing but move on.                        *)
LEMMA TaskMoves ==
    ASSUME IInv, NEW o \in Messages,
           CheckRate(o) \/ RunScript(o) \/ CheckBudget(o) \/ RecheckBudget(o)
    PROVE  IInv'
<1> USE MessagesAndOffsets, IngestionAssumption DEF IngestionAssumption
<1>1. task[o] \in Task /\ task[o] # NoTask
  BY DEF IInv, TypeOK, CheckRate, RunScript, CheckBudget, RecheckBudget, At
<1>2. PICK t \in Task :
        /\ task' = [task EXCEPT ![o] = t]
        /\ t.step \in {"recheck", "commit"} <=> task[o].step \in {"recheck", "commit"}
  <2>1. CASE RunScript(o)
    <3> DEFINE t == [step |-> "budget", read |-> count]
    <3>1. t \in Task /\ t.step = "budget" /\ task[o].step = "script"
      BY <2>1 DEF IInv, TypeOK, Task, Steps, RunScript, At
    <3>2. task' = [task EXCEPT ![o] = t]
      BY <2>1 DEF RunScript
    <3> HIDE DEF t
    <3> QED
      BY <3>1, <3>2
  <2>2. CASE CheckRate(o)
    <3> DEFINE t == [task[o] EXCEPT !.step = "script"]
    <3>1. t \in Task /\ t.step = "script" /\ task[o].step = "rate"
      BY <2>2, <1>1 DEF Task, Steps, CheckRate, At
    <3>2. task' = [task EXCEPT ![o] = t]
      BY <2>2 DEF CheckRate, Goto
    <3> HIDE DEF t
    <3> QED
      BY <3>1, <3>2
  <2>3. CASE CheckBudget(o)
    <3> DEFINE t == [task[o] EXCEPT !.step = "apply"]
    <3>1. t \in Task /\ t.step = "apply" /\ task[o].step = "budget"
      BY <2>3, <1>1 DEF Task, Steps, CheckBudget, At
    <3>2. task' = [task EXCEPT ![o] = t]
      BY <2>3 DEF CheckBudget, Goto
    <3> HIDE DEF t
    <3> QED
      BY <3>1, <3>2
  <2>4. CASE RecheckBudget(o)
    <3> DEFINE t == [task[o] EXCEPT !.step = "commit"]
    <3>1. t \in Task /\ t.step = "commit" /\ task[o].step = "recheck"
      BY <2>4, <1>1 DEF Task, Steps, RecheckBudget, At
    <3>2. task' = [task EXCEPT ![o] = t]
      BY <2>4 DEF RecheckBudget, Goto
    <3> HIDE DEF t
    <3> QED
      BY <3>1, <3>2
  <2> QED
    BY <2>1, <2>2, <2>3, <2>4
<1>3. UNCHANGED <<broker, commits, loop, permits, count, applied, history>>
  BY DEF CheckRate, RunScript, CheckBudget, RecheckBudget
<1>4. InFlight' = InFlight
  BY <1>1, <1>2, StaysInFlight DEF IInv
<1>5. task' \in [Messages -> Task \cup {NoTask}]
  BY <1>2 DEF IInv, TypeOK
<1>6. TypeOK'
  BY <1>3, <1>5 DEF IInv, TypeOK, broker, loop, history
<1>7. AheadIsFresh'
  BY <1>1, <1>2, <1>3, <1>4 DEF IInv, TypeOK, AheadIsFresh, loop
<1>8. StepTells'
  BY <1>1, <1>2, <1>3 DEF IInv, TypeOK, StepTells, history
<1> QED
  BY <1>3, <1>4, <1>6, <1>7, <1>8 DEF IInv, PermitsBalance, CommitFollowsApply, broker,
      history

LEMMA ApplyStep ==
    ASSUME IInv, NEW o \in Messages, Apply(o)
    PROVE  IInv'
<1> USE MessagesAndOffsets, IngestionAssumption DEF IngestionAssumption
<1> DEFINE t == [task[o] EXCEPT !.step = "recheck"]
<1>1. task[o] \in Task /\ task[o] # NoTask /\ task[o].read \in Nat
  BY DEF IInv, TypeOK, Apply, At, Task
<1>2. t \in Task /\ t.step = "recheck"
  BY <1>1 DEF Task, Steps
<1>3. task' = [task EXCEPT ![o] = t]
  BY DEF Apply, Goto
<1> HIDE DEF t
<1>4. InFlight' = InFlight
  BY <1>1, <1>2, <1>3, StaysInFlight DEF IInv
<1>5. task' \in [Messages -> Task \cup {NoTask}]
  BY <1>2, <1>3 DEF IInv, TypeOK
<1>6. count' \in Nat
  BY <1>1 DEF Apply
<1>7. TypeOK'
  BY <1>5, <1>6 DEF IInv, TypeOK, Apply, broker, loop
<1>8. AheadIsFresh'
  BY <1>1, <1>3, <1>4 DEF IInv, TypeOK, AheadIsFresh, Apply, loop, InFlight
<1>9. StepTells'
  BY <1>1, <1>2, <1>3 DEF IInv, TypeOK, StepTells, Apply
<1> QED
  BY <1>4, <1>7, <1>8, <1>9 DEF IInv, PermitsBalance, CommitFollowsApply, Apply, broker, loop

LEMMA EndStep ==
    ASSUME IInv, NEW o \in Messages, Commit(o) \/ FailStep(o)
    PROVE  IInv'
<1> USE MessagesAndOffsets, IngestionAssumption DEF IngestionAssumption
<1>1. task[o] \in Task /\ task[o] # NoTask /\ task[o].read \in Nat /\ End(o)
  BY DEF IInv, TypeOK, Commit, FailStep, Fail, At, Task
<1>2. /\ permits' \in 0..Permits
      /\ PermitsBalance'
      /\ task' \in [Messages -> Task \cup {NoTask}]
      /\ InFlight' = InFlight \ {o}
  BY <1>1, EndBalances
<1>3. task' = [task EXCEPT ![o] = NoTask]
  BY <1>1 DEF End
<1>4. UNCHANGED <<produced, committed, phase, stop, pos, held, applied, ever, first, crashes>>
  BY DEF Commit, FailStep, Fail, broker, loop, history
<1>5. count' \in Nat /\ failed' \in SUBSET Messages
  <2>1. count \in Nat /\ failed \in SUBSET Messages /\ task[o].read + 1 \in Nat
    BY <1>1 DEF IInv, TypeOK
  <2>2. count' = count \/ count' = task[o].read + 1
    BY DEF Commit, FailStep
  <2>3. failed' = failed \/ failed' = failed \cup {o}
    BY DEF Commit, FailStep, Fail, history
  <2> QED
    BY <2>1, <2>2, <2>3
<1>6. CommitFollowsApply' /\ commits' \in Seq(Offsets)
  <2>1. CASE Commit(o)
    <3>1. o \in ever
      BY <2>1 DEF IInv, StepTells, Commit, At
    <3>2. commits \in Seq(Offsets) /\ commits' = Append(commits, o + 1)
      BY <2>1 DEF IInv, TypeOK, Commit
    <3>3. /\ commits' \in Seq(Offsets)
          /\ \A n \in DOMAIN commits' : IF n \in DOMAIN commits THEN commits'[n] = commits[n]
                                                                  ELSE commits'[n] = o + 1
      BY <3>2
    <3> QED
      BY <1>4, <3>1, <3>3 DEF IInv, CommitFollowsApply
  <2>2. CASE FailStep(o)
    <3>1. commits' = commits
      BY <2>2 DEF FailStep, Fail
    <3> QED
      BY <1>4, <3>1 DEF IInv, CommitFollowsApply, TypeOK
  <2> QED
    BY <2>1, <2>2
<1>7. TypeOK'
  BY <1>2, <1>4, <1>5, <1>6 DEF IInv, TypeOK
<1>8. AheadIsFresh'
  BY <1>2, <1>3, <1>4 DEF IInv, TypeOK, AheadIsFresh
<1>9. StepTells'
  BY <1>3, <1>4 DEF IInv, TypeOK, StepTells
<1> QED
  BY <1>2, <1>6, <1>7, <1>8, <1>9 DEF IInv

LEMMA StepInvariant ==
    ASSUME IInv, [Next]_vars
    PROVE  IInv'
<1>1. CASE UNCHANGED vars
  BY <1>1 DEF vars, broker, loop, history, IInv, TypeOK, PermitsBalance, InFlight,
      AheadIsFresh, StepTells, CommitFollowsApply
<1>2. CASE Next
  BY <1>2, BrokerStep, ProcessStep, LoopStep, TaskMoves, ApplyStep, EndStep
     DEF Next, TaskStep
<1> QED
  BY <1>1, <1>2

-----------------------------------------------------------------------------

LEMMA Invariant == Spec => []IInv
<1>1. IInv /\ [Next]_vars => IInv'
  BY StepInvariant
<1> QED
  BY <1>1, InitInvariant, PTL DEF Spec

(* The variables of the ingestion keep their types.                        *)
THEOREM TypeCorrect == Spec => []TypeOK
<1>1. IInv => TypeOK
  BY DEF IInv
<1> QED
  BY <1>1, Invariant, PTL

(* Every permit of the semaphore is free or held by one task in flight,    *)
(* whichever way the tasks end: in-flight work is bounded and no failure   *)
(* can starve the consumer of permits.                                     *)
THEOREM PermitsConserved == Spec => []PermitsBalance
<1>1. IInv => PermitsBalance
  BY DEF IInv
<1> QED
  BY <1>1, Invariant, PTL

(* An offset is committed, or on its way to the broker, only when the      *)
(* message before it has been applied.                                     *)
THEOREM CommitsFollowApplies == Spec => []CommitFollowsApply
<1>1. IInv => CommitFollowsApply
  BY DEF IInv
<1> QED
  BY <1>1, Invariant, PTL

(* No process applies the ops of one message twice.                        *)
THEOREM AppliesOnce == Spec => AppliedOncePerRun
<1>1. IInv /\ [Next]_vars => [\A o \in Messages : Apply(o) => o \notin applied]_vars
  BY DEF IInv, StepTells, Apply, At
<1> QED
  BY <1>1, Invariant, PTL DEF Spec, AppliedOncePerRun

-----------------------------------------------------------------------------
(* The counter.  With one permit a task runs its script, checks the budget *)
(* and applies its ops while no other task does, so what it has read is    *)
(* still the counter when it writes.                                       *)

OneAtATime == Permits = 1
AppliesInFull == "apply" \notin FailSteps

ReadIsCurrent ==
    /\ count = Cardinality(applied)
    /\ \A o \in InFlight : task[o].step \in {"budget", "apply"} => task[o].read = count

(* With one permit there is one task, and none when the permit is free.    *)
LEMMA OneTask ==
    ASSUME IInv, OneAtATime
    PROVE  /\ \A o, u \in InFlight : o = u
           /\ permits > 0 => InFlight = {}
<1>1. /\ Cardinality(InFlight) \in Nat
      /\ \A o \in InFlight : /\ Cardinality(InFlight \ {o}) = Cardinality(InFlight) - 1
                             /\ Cardinality(InFlight \ {o}) \in Nat
                             /\ IsFiniteSet(InFlight \ {o})
  BY InFlightFinite, FS_RemoveElement, FS_CardinalityType, FS_Subset
<1>2. permits + Cardinality(InFlight) = 1 /\ permits \in Nat
  BY DEF IInv, PermitsBalance, TypeOK, OneAtATime
<1>3. \A o \in InFlight : InFlight \ {o} = {} /\ permits = 0
  <2> SUFFICES ASSUME NEW o \in InFlight PROVE InFlight \ {o} = {} /\ permits = 0
    OBVIOUS
  <2>1. Cardinality(InFlight \ {o}) = 0 /\ permits = 0
    BY <1>1, <1>2
  <2> QED
    BY <2>1, <1>1, FS_EmptySet
<1> QED
  BY <1>3

(* A process has applied finitely many messages.                           *)
LEMMA AppliedFinite ==
    ASSUME TypeOK
    PROVE  IsFiniteSet(applied)
<1>1. IsFiniteSet(0..NumMessages-1) /\ applied \subseteq 0..NumMessages-1
  BY FS_Interval, IngestionAssumption DEF IngestionAssumption, TypeOK, Messages
<1> QED
  BY <1>1, FS_Subset

(* Every step keeps the count.                                             *)
LEMMA CountStep ==
    ASSUME IInv, OneAtATime, AppliesInFull, ReadIsCurrent, [Next]_vars
    PROVE  ReadIsCurrent'
<1> USE MessagesAndOffsets
<1>0. /\ task \in [Messages -> Task \cup {NoTask}]
      /\ \A o, u \in InFlight : o = u
      /\ permits > 0 => InFlight = {}
      /\ IInv'
  BY OneTask, StepInvariant DEF IInv, TypeOK
<1>1. CASE UNCHANGED <<task, count, applied>>
  BY <1>1 DEF ReadIsCurrent, InFlight
<1>2. CASE Crash
  BY <1>2, FS_EmptySet DEF Crash, ReadIsCurrent, InFlight
<1>3. CASE Spawn
  <2> DEFINE new == [step |-> "rate", read |-> 0]
  <2>1. task' = [task EXCEPT ![held] = new] /\ new.step = "rate"
        /\ UNCHANGED <<count, applied>>
    BY <1>3 DEF Spawn
  <2> HIDE DEF new
  <2> QED
    BY <1>0, <2>1 DEF ReadIsCurrent, InFlight
<1>4. ASSUME NEW o \in Messages, task[o] # NoTask, task[o].step # "budget",
             UNCHANGED <<count, applied>>,
             NEW t, task' = [task EXCEPT ![o] = t],
             t = NoTask \/ t.step \notin {"budget", "apply"}
      PROVE  ReadIsCurrent'
  BY <1>0, <1>4 DEF ReadIsCurrent, InFlight
<1>5. ASSUME NEW o \in Messages, CheckRate(o) \/ RecheckBudget(o)
      PROVE  ReadIsCurrent'
  <2>1. PICK s \in {"script", "commit"} : Goto(o, s)
    BY <1>5 DEF CheckRate, RecheckBudget
  <2>2. task[o] \in Task /\ task[o] # NoTask /\ task[o].step # "budget"
    BY <1>0, <1>5 DEF CheckRate, RecheckBudget, At
  <2>3. task' = [task EXCEPT ![o] = [task[o] EXCEPT !.step = s]]
        /\ [task[o] EXCEPT !.step = s].step = s
    BY <2>1, <2>2 DEF Goto, Task
  <2> QED
    BY <1>4, <1>5, <2>2, <2>3 DEF CheckRate, RecheckBudget
<1>6. ASSUME NEW o \in Messages, Commit(o) \/ FailStep(o)
      PROVE  ReadIsCurrent'
  <2>1. task' = [task EXCEPT ![o] = NoTask] /\ UNCHANGED <<count, applied>>
    BY <1>6 DEF Commit, FailStep, Fail, End, AppliesInFull
  <2> QED
    BY <1>0, <2>1 DEF ReadIsCurrent, InFlight
<1>7. ASSUME NEW o \in Messages, RunScript(o)
      PROVE  ReadIsCurrent'
  <2> DEFINE t == [step |-> "budget", read |-> count]
  <2>1. task' = [task EXCEPT ![o] = t] /\ t.read = count /\ UNCHANGED <<count, applied>>
    BY <1>7 DEF RunScript
  <2> HIDE DEF t
  <2>2. o \in InFlight
    BY <1>7 DEF RunScript, At, InFlight
  <2> QED
    BY <1>0, <2>1, <2>2 DEF ReadIsCurrent, InFlight
<1>8. ASSUME NEW o \in Messages, CheckBudget(o)
      PROVE  ReadIsCurrent'
  <2> DEFINE t == [task[o] EXCEPT !.step = "apply"]
  <2>1. o \in InFlight /\ task[o] \in Task /\ task[o].step = "budget"
    BY <1>0, <1>8 DEF CheckBudget, At, InFlight
  <2>2. task' = [task EXCEPT ![o] = t] /\ UNCHANGED <<count, applied>>
    BY <1>8 DEF CheckBudget, Goto
  <2>3. t.read = task[o].read
    BY <2>1 DEF Task
  <2> HIDE DEF t
  <2> QED
    BY <1>0, <2>1, <2>2, <2>3 DEF ReadIsCurrent, InFlight
<1>9. ASSUME NEW o \in Messages, Apply(o)
      PROVE  ReadIsCurrent'
  <2> DEFINE t == [task[o] EXCEPT !.step = "recheck"]
  <2>1. o \in InFlight /\ task[o] \in Task /\ task[o].step = "apply"
    BY <1>0, <1>9 DEF Apply, At, InFlight
  <2>2. o \notin applied /\ task[o].read = count
    BY <2>1 DEF IInv, StepTells, InFlight, ReadIsCurrent
  <2>3. Cardinality(applied \cup {o}) = Cardinality(applied) + 1
    BY <2>2, AppliedFinite, FS_AddElement DEF IInv
  <2>4. count' = count + 1 /\ applied' = applied \cup {o} /\ task' = [task EXCEPT ![o] = t]
    BY <1>9, <2>2 DEF Apply, Goto
  <2>5. t.step = "recheck"
    BY <2>1 DEF Task
  <2>6. count' = Cardinality(applied')
    BY <2>3, <2>4 DEF ReadIsCurrent
  <2> HIDE DEF t
  <2> QED
    BY <1>0, <2>1, <2>4, <2>5, <2>6 DEF ReadIsCurrent, InFlight
<1>10. CASE UNCHANGED vars
  BY <1>1, <1>10 DEF vars
<1>11. CASE Produce \/ CommitArrives \/ Start \/ Receive \/ RequestStop \/ LeaveLoop
  BY <1>1, <1>11 DEF Produce, CommitArrives, Start, Receive, RequestStop, LeaveLoop
<1> QED
  BY <1>2, <1>3, <1>5, <1>6, <1>7, <1>8, <1>9, <1>10, <1>11 DEF Next, TaskStep

(* With one permit, and short of an op that fails half way, no increment   *)
(* is lost: the counter is the number of messages applied.                 *)
THEOREM OneTaskCounts ==
    ASSUME OneAtATime, AppliesInFull
    PROVE  Spec => []CountsEachMessage
<1>1. Init => ReadIsCurrent
  BY FS_EmptySet DEF Init, ReadIsCurrent, InFlight
<1>2. IInv /\ ReadIsCurrent /\ [Next]_vars => ReadIsCurrent'
  BY CountStep
<1>3. ReadIsCurrent => CountsEachMessage
  BY DEF ReadIsCurrent, CountsEachMessage
<1> QED
  BY <1>1, <1>2, <1>3, Invariant, PTL DEF Spec

-----------------------------------------------------------------------------
(* The log.  With one permit and no failing step the messages are applied  *)
(* in the order of the log, and so are their offsets committed.            *)

NothingFails == FailSteps = {}
HasCommitted == FirstCommit = 0

(* The task in flight stands just before the message held, or else before  *)
(* the consumer's position.                                                *)
InLine ==
    /\ held # NoOffset => held = pos - 1
    /\ \A o \in InFlight :
         /\ o + 1 = IF held = NoOffset THEN pos ELSE held
         /\ task[o].step \in {"recheck", "commit"} => o \in applied

CommitsRise ==
    /\ committed # NoOffset
    /\ phase = "down" => commits = <<>>
    /\ committed <= NextOffset
    /\ \A n \in DOMAIN commits : committed <= commits[n] /\ commits[n] <= NextOffset
    /\ \A m, n \in DOMAIN commits : m <= n => commits[m] <= commits[n]

NoneSkipped == NextOffset \in Offsets /\ \A o \in Messages : o < NextOffset => o \in ever

Serial == InLine /\ CommitsRise /\ NoneSkipped

(* What NextOffset is: the committed offset when the process is down, the  *)
(* message of a task that has not applied it, or else the first one that   *)
(* no task has taken.                                                      *)
LEMMA NextOffsetIs ==
    IInv /\ OneAtATime /\ InLine =>
        /\ phase = "down" => NextOffset = committed
        /\ phase # "down" =>
             /\ \A o \in InFlight : o \notin applied => NextOffset = o
             /\ InFlight \subseteq applied =>
                  NextOffset = IF held = NoOffset THEN pos ELSE held
<1> SUFFICES ASSUME IInv, OneAtATime, InLine
             PROVE  /\ phase = "down" => NextOffset = committed
                    /\ phase # "down" =>
                         /\ \A o \in InFlight : o \notin applied => NextOffset = o
                         /\ InFlight \subseteq applied =>
                              NextOffset = IF held = NoOffset THEN pos ELSE held
  OBVIOUS
<1> USE MessagesAndOffsets
<1> DEFINE waiting == {o \in InFlight : o \notin applied} \cup ({held} \ {NoOffset})
<1>1. /\ \A o, u \in InFlight : o = u
      /\ InFlight \subseteq Messages
      /\ held \in Messages \cup {NoOffset}
      /\ pos \in Nat
  BY OneTask DEF InFlight, IInv, TypeOK
<1>2. phase = "down" => waiting = {}
  BY DEF IInv, AheadIsFresh
<1>3. ASSUME NEW n \in waiting, \A u \in waiting : n <= u
      PROVE  (CHOOSE o \in waiting : \A u \in waiting : o <= u) = n
  <2> DEFINE c == CHOOSE o \in waiting : \A u \in waiting : o <= u
  <2>1. c \in waiting /\ \A u \in waiting : c <= u
    BY <1>3
  <2>2. c \in Nat /\ n \in Nat /\ c <= n /\ n <= c
    BY <1>1, <1>3, <2>1
  <2> HIDE DEF c, waiting
  <2>3. c = n
    BY <2>2
  <2> QED
    BY <2>3 DEF c
<1>4. /\ phase = "down" => NextOffset = committed
      /\ phase # "down" =>
           /\ waiting = {} => NextOffset = pos
           /\ waiting # {} => NextOffset = CHOOSE o \in waiting : \A u \in waiting : o <= u
  BY <1>2 DEF NextOffset
<1>5. ASSUME phase # "down", NEW o \in InFlight, o \notin applied
      PROVE  NextOffset = o
  <2>1. o \in waiting /\ o \in Nat
    BY <1>1, <1>5
  <2>2. ASSUME NEW u \in waiting PROVE o <= u
    <3>1. CASE u \in InFlight
      BY <1>1, <2>1, <3>1
    <3>2. CASE u = held /\ held # NoOffset
      BY <1>1, <1>5, <2>1, <3>2 DEF InLine
    <3> QED
      BY <3>1, <3>2
  <2> HIDE DEF waiting
  <2> QED
    BY <1>3, <1>4, <1>5, <2>1, <2>2
<1>6. ASSUME phase # "down", InFlight \subseteq applied
      PROVE  NextOffset = IF held = NoOffset THEN pos ELSE held
  <2>1. waiting = IF held = NoOffset THEN {} ELSE {held}
    BY <1>6
  <2>2. CASE held = NoOffset
    BY <1>4, <1>6, <2>1, <2>2
  <2>3. CASE held # NoOffset
    <3>1. held \in waiting /\ \A u \in waiting : held <= u
      BY <1>1, <2>1, <2>3
    <3> HIDE DEF waiting
    <3> QED
      BY <1>3, <1>4, <1>6, <2>3, <3>1
  <2> QED
    BY <2>2, <2>3
<1> QED
  BY <1>4, <1>5, <1>6

(* The messages stay in line.                                              *)
LEMMA LineStep ==
    ASSUME IInv, OneAtATime, NothingFails, InLine, [Next]_vars
    PROVE  InLine'
<1> USE MessagesAndOffsets
<1>0. /\ task \in [Messages -> Task \cup {NoTask}]
      /\ held \in Messages \cup {NoOffset}
      /\ pos \in Nat
      /\ permits > 0 => InFlight = {}
      /\ phase = "down" => held = NoOffset /\ InFlight = {}
      /\ held # NoOffset => held = pos - 1
  BY OneTask DEF IInv, TypeOK, AheadIsFresh, InLine
<1>1. ASSUME UNCHANGED <<task, pos, held, applied>>
      PROVE  InLine'
  BY <1>1 DEF InLine, InFlight
<1>2. CASE Start
  BY <1>0, <1>2 DEF Start, InLine, InFlight
<1>3. CASE Crash
  BY <1>3 DEF Crash, InLine, InFlight
<1>4. CASE Receive
  <2>1. held = NoOffset /\ held' = pos /\ pos' = pos + 1 /\ UNCHANGED <<task, applied>>
    BY <1>4 DEF Receive
  <2>2. pos # NoOffset /\ pos' - 1 = pos
    BY <1>0, <2>1, IngestionAssumption DEF IngestionAssumption
  <2> QED
    BY <2>1, <2>2 DEF InLine, InFlight
<1>5. CASE Spawn
  <2> DEFINE new == [step |-> "rate", read |-> 0]
  <2>1. /\ task' = [task EXCEPT ![held] = new] /\ new.step = "rate"
        /\ held # NoOffset /\ held' = NoOffset /\ pos' = pos
    BY <1>5 DEF Spawn
  <2>2. InFlight = {} /\ held + 1 = pos
    BY <1>0, <1>5, <2>1 DEF Spawn
  <2> HIDE DEF new
  <2> QED
    BY <1>0, <2>1, <2>2 DEF InLine, InFlight
<1>6. ASSUME NEW o \in Messages, TaskStep(o)
      PROVE  InLine'
  <2>1. /\ UNCHANGED <<pos, held>> /\ applied \subseteq applied'
        /\ o \in InFlight
    BY <1>6 DEF TaskStep, CheckRate, RunScript, CheckBudget, Apply, RecheckBudget, Commit,
        FailStep, Fail, At, InFlight, loop
  <2>2. task[o] \in Task
    BY <1>0, <2>1 DEF InFlight
  <2>3. PICK t : task' = [task EXCEPT ![o] = t] /\
                 (t # NoTask /\ t.step \in {"recheck", "commit"} => o \in applied')
    <3>1. CASE CheckRate(o) \/ CheckBudget(o)
      <4>1. PICK s \in {"script", "apply"} : Goto(o, s)
        BY <3>1 DEF CheckRate, CheckBudget
      <4>2. task' = [task EXCEPT ![o] = [task[o] EXCEPT !.step = s]]
            /\ [task[o] EXCEPT !.step = s].step = s
        BY <2>2, <4>1 DEF Goto, Task
      <4> QED
        BY <4>2
    <3>2. CASE RecheckBudget(o)
      <4>1. o \in applied'
        BY <2>1, <3>2 DEF RecheckBudget, At, InLine
      <4> QED
        BY <3>2, <4>1 DEF RecheckBudget, Goto
    <3>3. CASE RunScript(o)
      <4>1. [step |-> "budget", read |-> count].step = "budget"
        OBVIOUS
      <4> QED
        BY <3>3, <4>1 DEF RunScript
    <3>4. CASE Apply(o)
      BY <3>4 DEF Apply, Goto
    <3>5. CASE Commit(o)
      BY <3>5 DEF Commit, End
    <3> QED
      BY <1>6, <3>1, <3>2, <3>3, <3>4, <3>5 DEF TaskStep, FailStep, Fail, NothingFails
  <2> QED
    BY <1>0, <2>1, <2>3 DEF InLine, InFlight
<1>7. CASE UNCHANGED vars
  BY <1>1, <1>7 DEF vars, loop
<1>8. CASE Produce \/ CommitArrives \/ RequestStop \/ LeaveLoop
  BY <1>1, <1>8 DEF Produce, CommitArrives, RequestStop, LeaveLoop, loop
<1> QED
  BY <1>2, <1>3, <1>4, <1>5, <1>6, <1>7, <1>8 DEF Next

(* NextOffset moves to the next message when one is applied, back to the   *)
(* committed offset in a crash, and never else; a commit that is sent      *)
(* carries it.                                                             *)
LEMMA OffsetMoves ==
    ASSUME IInv, OneAtATime, NothingFails, InLine, CommitsRise, [Next]_vars
    PROVE  \/ Crash /\ NextOffset' = committed
           \/ \E o \in Messages : Apply(o) /\ NextOffset = o /\ NextOffset' = o + 1
           \/ CommitArrives /\ NextOffset' = NextOffset
           \/ /\ UNCHANGED <<committed, ever>>
              /\ NextOffset' = NextOffset
              /\ \/ commits' = commits /\ phase' = phase
                 \/ commits' = commits /\ phase' # "down"
                 \/ commits' = Append(commits, NextOffset) /\ phase' # "down"
<1> USE MessagesAndOffsets
<1> DEFINE unTaken == IF held = NoOffset THEN pos ELSE held
<1>0. /\ task \in [Messages -> Task \cup {NoTask}]
      /\ held \in Messages \cup {NoOffset}
      /\ pos \in Nat
      /\ permits > 0 => InFlight = {}
      /\ phase = "down" => held = NoOffset /\ applied = {} /\ InFlight = {}
      /\ \A o, u \in InFlight : o = u
  BY OneTask DEF IInv, TypeOK, AheadIsFresh
<1>1. /\ phase = "down" => NextOffset = committed
      /\ phase # "down" =>
           /\ \A o \in InFlight : o \notin applied => NextOffset = o
           /\ InFlight \subseteq applied => NextOffset = unTaken
  BY NextOffsetIs
<1>2. /\ phase' = "down" => NextOffset' = committed'
      /\ phase' # "down" =>
           /\ \A o \in InFlight' : o \notin applied' => NextOffset' = o
           /\ InFlight' \subseteq applied' =>
                NextOffset' = IF held' = NoOffset THEN pos' ELSE held'
  <2>1. (IInv /\ OneAtATime /\ InLine =>
          /\ phase = "down" => NextOffset = committed
          /\ phase # "down" =>
               /\ \A o \in InFlight : o \notin applied => NextOffset = o
               /\ InFlight \subseteq applied =>
                    NextOffset = IF held = NoOffset THEN pos ELSE held)'
    BY NextOffsetIs, PTL
  <2>2. IInv' /\ InLine'
    BY StepInvariant, LineStep
  <2> QED
    BY <2>1, <2>2 DEF OneAtATime, Permits
<1>3. ASSUME UNCHANGED <<task, pos, held, applied, committed, phase>>
      PROVE  NextOffset' = NextOffset
  BY <1>3 DEF NextOffset, InFlight
<1>4. CASE Crash
  BY <1>2, <1>4 DEF Crash, broker
<1>5. CASE CommitArrives
  <2>1. phase # "down" /\ UNCHANGED <<task, pos, held, applied, phase>>
    BY <1>5 DEF CommitArrives, CommitsRise, loop
  <2>2. NextOffset' = NextOffset
    BY <2>1 DEF NextOffset, InFlight
  <2> QED
    BY <1>5, <2>2
<1>6. CASE Start
  <2>1. NextOffset = committed /\ committed # NoOffset
    BY <1>1, <1>6 DEF Start, CommitsRise
  <2>2. /\ phase' = "up" /\ pos' = committed /\ held' = NoOffset /\ InFlight' = {}
        /\ UNCHANGED <<commits, committed, ever>>
    BY <1>0, <1>6, <2>1 DEF Start, ResumeAt, InFlight, broker
  <2> QED
    BY <1>2, <2>1, <2>2
<1>7. CASE Receive
  <2>1. /\ held = NoOffset /\ held' = pos /\ pos # NoOffset
        /\ phase # "down" /\ UNCHANGED <<phase, task, applied, commits, committed, ever>>
    BY <1>0, <1>7, IngestionAssumption
       DEF Receive, IngestionAssumption, broker, history
  <2>2. InFlight' = InFlight
    BY <2>1 DEF InFlight
  <2>3. CASE InFlight \subseteq applied
    BY <1>1, <1>2, <2>1, <2>2, <2>3
  <2>4. CASE ~(InFlight \subseteq applied)
    BY <1>1, <1>2, <2>1, <2>2, <2>4
  <2> QED
    BY <2>3, <2>4
<1>8. CASE Spawn
  <2> DEFINE new == [step |-> "rate", read |-> 0]
  <2>1. /\ task' = [task EXCEPT ![held] = new] /\ held # NoOffset
        /\ phase # "down" /\ UNCHANGED <<phase, applied, commits, committed, ever>>
    BY <1>8 DEF Spawn, broker, history
  <2>2. InFlight = {} /\ held \in Messages /\ held \notin applied
    BY <1>0, <1>8, <2>1 DEF Spawn, IInv, AheadIsFresh
  <2>3. new # NoTask
    BY IngestionAssumption DEF IngestionAssumption, Task, Steps
  <2> HIDE DEF new
  <2>4. held \in InFlight'
    BY <1>0, <2>1, <2>2, <2>3 DEF InFlight
  <2> QED
    BY <1>1, <1>2, <2>1, <2>2, <2>4
<1>9. ASSUME NEW o \in Messages, Apply(o)
      PROVE  NextOffset = o /\ NextOffset' = o + 1
  <2> DEFINE t == [task[o] EXCEPT !.step = "recheck"]
  <2>1. o \in InFlight /\ o \notin applied /\ task[o] \in Task
    BY <1>0, <1>9 DEF Apply, At, IInv, StepTells, InFlight
  <2>2. phase # "down" /\ phase' = phase /\ applied' = applied \cup {o}
        /\ UNCHANGED <<held, pos>> /\ task' = [task EXCEPT ![o] = t]
    BY <1>0, <1>9, <2>1 DEF Apply, Goto, loop
  <2> HIDE DEF t
  <2>3. InFlight' \subseteq {o}
    BY <1>0, <2>1, <2>2 DEF InFlight
  <2>4. NextOffset' = unTaken
    BY <1>2, <2>2, <2>3
  <2>5. unTaken = o + 1
    BY <2>1 DEF InLine
  <2> QED
    BY <1>1, <2>1, <2>2, <2>4, <2>5
<1>10. ASSUME NEW o \in Messages,
              CheckRate(o) \/ RunScript(o) \/ CheckBudget(o) \/ RecheckBudget(o)
       PROVE  UNCHANGED <<NextOffset, committed, ever, commits, phase>>
  <2>1. UNCHANGED <<pos, held, applied, committed, phase, commits, ever>>
    BY <1>10 DEF CheckRate, RunScript, CheckBudget, RecheckBudget, broker, loop, history
  <2>2. InFlight' = InFlight
    <3>1. task[o] \in Task /\ task[o] # NoTask
      BY <1>0, <1>10 DEF CheckRate, RunScript, CheckBudget, RecheckBudget, At
    <3>2. PICK t \in Task : task' = [task EXCEPT ![o] = t]
      <4>1. CASE RunScript(o)
        BY <4>1 DEF RunScript, Task, Steps, IInv, TypeOK
      <4>2. CASE CheckRate(o) \/ CheckBudget(o) \/ RecheckBudget(o)
        <5>1. PICK s \in Steps : Goto(o, s)
          BY <4>2 DEF CheckRate, CheckBudget, RecheckBudget, Steps
        <5>2. [task[o] EXCEPT !.step = s] \in Task
          BY <3>1, <5>1 DEF Task
        <5> QED
          BY <5>1, <5>2 DEF Goto
      <4> QED
        BY <1>10, <4>1, <4>2
    <3> QED
      BY <3>1, <3>2, StaysInFlight DEF IInv
  <2> QED
    BY <2>1, <2>2 DEF NextOffset
<1>11. ASSUME NEW o \in Messages, Commit(o)
       PROVE  /\ UNCHANGED <<NextOffset, committed, ever>>
              /\ commits' = Append(commits, NextOffset) /\ phase' # "down"
  <2>1. o \in InFlight /\ o \in applied
    BY <1>11 DEF Commit, At, InFlight, InLine
  <2>2. /\ phase # "down" /\ task' = [task EXCEPT ![o] = NoTask]
        /\ UNCHANGED <<held, pos, applied, phase, committed, ever>>
        /\ commits' = Append(commits, o + 1)
    BY <1>0, <1>11, <2>1 DEF Commit, End, broker, loop, history
  <2>3. InFlight \subseteq applied /\ InFlight' \subseteq applied
    BY <1>0, <2>1, <2>2 DEF InFlight
  <2>4. unTaken = o + 1
    BY <2>1 DEF InLine
  <2>5. NextOffset = unTaken /\ NextOffset' = unTaken
    BY <1>1, <1>2, <2>2, <2>3
  <2> QED
    BY <2>2, <2>4, <2>5
<1>12. CASE Produce \/ RequestStop
  BY <1>3, <1>12 DEF Produce, RequestStop, broker, loop, history
<1>12a. CASE LeaveLoop
  <2>1. /\ phase = "up" /\ phase' = "stopped"
        /\ UNCHANGED <<commits, committed, ever, task, pos, held, applied>>
    BY <1>12a DEF LeaveLoop, broker, history
  <2>2. NextOffset' = NextOffset
    BY <2>1 DEF NextOffset, InFlight
  <2> QED
    BY <2>1, <2>2
<1>13. CASE UNCHANGED vars
  BY <1>3, <1>13 DEF vars, broker, loop, history
<1>14. \A o \in Messages : ~FailStep(o)
  BY DEF FailStep, Fail, NothingFails
<1> HIDE DEF unTaken
<1>15. ASSUME NEW o \in Messages, TaskStep(o)
       PROVE  \/ Apply(o) /\ NextOffset = o /\ NextOffset' = o + 1
              \/ /\ UNCHANGED <<committed, ever>>
                 /\ NextOffset' = NextOffset
                 /\ \/ commits' = commits /\ phase' = phase
                    \/ commits' = Append(commits, NextOffset) /\ phase' # "down"
  <2>1. CASE CheckRate(o) \/ RunScript(o) \/ CheckBudget(o) \/ RecheckBudget(o)
    BY <1>10, <2>1
  <2>2. CASE Commit(o)
    BY <1>11, <2>2
  <2>3. CASE Apply(o)
    BY <1>9, <2>3
  <2> QED
    BY <1>14, <1>15, <2>1, <2>2, <2>3 DEF TaskStep
<1>16. CASE \E o \in Messages : TaskStep(o)
  <2>1. PICK o \in Messages : TaskStep(o)
    BY <1>16
  <2> QED
    BY <1>15, <2>1
<1> QED
  BY <1>4, <1>5, <1>6, <1>7, <1>8, <1>12, <1>12a, <1>13, <1>16 DEF Next

(* The first messages are all applied, and the commits go up to there.     *)
LEMMA SerialStep ==
    ASSUME IInv, OneAtATime, NothingFails, Serial, [Next]_vars
    PROVE  Serial'
<1> USE MessagesAndOffsets
<1>1. InLine'
  BY LineStep DEF Serial
<1>2. PICK d \in Nat : d = NextOffset
  BY DEF Serial, NoneSkipped
<1>3. PICK c \in Nat : c = committed /\ c \in Offsets /\ c <= d
  BY <1>2 DEF IInv, TypeOK, Serial, CommitsRise
<1>4. PICK q \in Seq(Offsets) :
         /\ q = commits
         /\ \A n \in DOMAIN q : q[n] \in Nat /\ c <= q[n] /\ q[n] <= d
         /\ \A m, n \in DOMAIN q : m <= n => q[m] <= q[n]
  <2>1. commits \in Seq(Offsets) /\ \A n \in DOMAIN commits : commits[n] \in Nat
    <3>1. commits \in Seq(Offsets)
      BY DEF IInv, TypeOK
    <3>2. \A n \in DOMAIN commits : commits[n] \in Offsets
      BY <3>1
    <3> QED
      BY <3>1, <3>2
  <2>2. /\ \A n \in DOMAIN commits : c <= commits[n] /\ commits[n] <= d
        /\ \A m, n \in DOMAIN commits : m <= n => commits[m] <= commits[n]
    BY <1>2, <1>3 DEF Serial, CommitsRise
  <2> QED
    BY <2>1, <2>2
<1>5. phase = "down" => q = <<>>
  BY <1>4 DEF Serial, CommitsRise
<1>6. d \in Offsets /\ \A o \in Messages : o < d => o \in ever
  BY <1>2 DEF Serial, NoneSkipped
<1>7. NoOffset \notin Nat
  BY IngestionAssumption DEF IngestionAssumption
<1>8. CASE Crash /\ NextOffset' = committed
  <2>1. /\ NextOffset' = c /\ committed' = c /\ commits' = <<>> /\ ever' = ever
    BY <1>3, <1>8 DEF Crash, broker
  <2>2. \A o \in Messages : o < c => o \in ever
    BY <1>3, <1>6
  <2> QED
    BY <1>1, <1>3, <1>7, <2>1, <2>2 DEF Serial, CommitsRise, NoneSkipped
<1>9. ASSUME NEW o \in Messages, Apply(o), NextOffset = o, NextOffset' = o + 1
      PROVE  Serial'
  <2>1. /\ d = o /\ NextOffset' = d + 1 /\ d + 1 \in Offsets
        /\ committed' = c /\ commits' = q /\ phase' = phase /\ ever' = ever \cup {d}
    BY <1>2, <1>3, <1>4, <1>9 DEF Apply, broker, loop
  <2>2. NoneSkipped'
    BY <1>6, <2>1 DEF NoneSkipped
  <2>3. c <= d + 1 /\ \A n \in DOMAIN q : q[n] <= d + 1
    BY <1>3, <1>4
  <2>4. CommitsRise'
    BY <1>3, <1>4, <1>5, <1>7, <2>1, <2>3 DEF CommitsRise
  <2> QED
    BY <1>1, <2>2, <2>4 DEF Serial
<1>10. CASE CommitArrives /\ NextOffset' = NextOffset
  <2>1. /\ q # <<>> /\ committed' = q[1] /\ NextOffset' = d
        /\ phase' = phase /\ ever' = ever /\ commits' = Tail(q)
        /\ 1 \in DOMAIN q /\ phase # "down"
    BY <1>2, <1>4, <1>5, <1>10 DEF CommitArrives, loop, history
  <2>2. \A n \in DOMAIN Tail(q) : n + 1 \in DOMAIN q /\ Tail(q)[n] = q[n + 1]
                                  /\ n \in Nat /\ 1 <= n
    BY <2>1
  <2>3. /\ q[1] # NoOffset /\ q[1] <= d
        /\ \A n \in DOMAIN Tail(q) : q[1] <= Tail(q)[n] /\ Tail(q)[n] <= d
    BY <1>4, <1>7, <2>1, <2>2
  <2>4. \A m, n \in DOMAIN Tail(q) : m <= n => Tail(q)[m] <= Tail(q)[n]
    BY <1>4, <2>2
  <2>5. CommitsRise'
    BY <2>1, <2>3, <2>4 DEF CommitsRise
  <2>6. NoneSkipped'
    BY <1>6, <2>1 DEF NoneSkipped
  <2> QED
    BY <1>1, <2>5, <2>6 DEF Serial
<1>11. CASE /\ UNCHANGED <<committed, ever>>
            /\ NextOffset' = NextOffset
            /\ \/ commits' = commits /\ phase' = phase
               \/ commits' = commits /\ phase' # "down"
               \/ commits' = Append(commits, NextOffset) /\ phase' # "down"
  <2>1. NextOffset' = d /\ committed' = c /\ ever' = ever
    BY <1>2, <1>3, <1>11
  <2>2. NoneSkipped'
    BY <1>6, <2>1 DEF NoneSkipped
  <2>3. CASE commits' = q /\ (phase' = phase \/ phase' # "down")
    BY <1>1, <1>3, <1>4, <1>5, <1>7, <2>1, <2>2, <2>3 DEF Serial, CommitsRise
  <2>4. CASE commits' = Append(q, d) /\ phase' # "down"
    <3> DEFINE r == Append(q, d)
    <3>1. /\ \A n \in DOMAIN r :
               n \in Nat /\ IF n \in DOMAIN q THEN r[n] = q[n]
                                              ELSE n = Len(q) + 1 /\ r[n] = d
          /\ \A n \in DOMAIN q : n \in Nat /\ n <= Len(q)
          /\ Len(q) \in Nat
      BY <1>6
    <3> HIDE DEF r
    <3>2. \A n \in DOMAIN r : c <= r[n] /\ r[n] <= d
      BY <1>3, <1>4, <3>1
    <3>3. \A m, n \in DOMAIN r : m <= n => r[m] <= r[n]
      BY <1>4, <3>1
    <3>4. commits' = r
      BY <2>4 DEF r
    <3>5. CommitsRise'
      BY <1>3, <1>7, <2>1, <2>4, <3>2, <3>3, <3>4 DEF CommitsRise
    <3> QED
      BY <1>1, <2>2, <3>5 DEF Serial
  <2> QED
    BY <1>2, <1>4, <1>11, <2>3, <2>4
<1> QED
  BY <1>8, <1>9, <1>10, <1>11, OffsetMoves DEF Serial

(* Nothing is in flight, committed or skipped to begin with.               *)
LEMMA SerialInit ==
    ASSUME HasCommitted, Init
    PROVE  Serial
<1>1. InFlight = {} /\ NextOffset = 0 /\ committed = 0
  BY DEF Init, InFlight, NextOffset, HasCommitted
<1>2. InLine
  BY <1>1 DEF Init, InLine
<1>3. CommitsRise
  BY <1>1, IngestionAssumption DEF Init, CommitsRise, IngestionAssumption
<1>4. NoneSkipped
  BY <1>1, MessagesAndOffsets DEF NoneSkipped
<1> QED
  BY <1>2, <1>3, <1>4 DEF Serial

(* One message at a time, in the order of the offsets, none of them        *)
(* skipped.                                                                *)
LEMMA SerialInvariant ==
    ASSUME OneAtATime, NothingFails, HasCommitted
    PROVE  Spec => [](IInv /\ Serial)
<1>1. Init => Serial
  BY SerialInit
<1>2. IInv /\ Serial /\ [Next]_vars => Serial'
  BY SerialStep
<1> QED
  BY <1>1, <1>2, Invariant, PTL DEF Spec

(* At least once: with one permit, no failing step and an offset committed *)
(* before the first start, a message that has not been applied is at or    *)
(* beyond the offset at which a restart resumes.                           *)
THEOREM SerialLosesNone ==
    ASSUME OneAtATime, NothingFails, HasCommitted
    PROVE  Spec => []NoMessageLost
<1>1. IInv /\ Serial => NoMessageLost
  <2> SUFFICES ASSUME IInv, Serial, NEW o \in Messages, o \notin ever
               PROVE  o >= ResumeAt
    BY DEF NoMessageLost
  <2>1. PICK d \in Nat : d = NextOffset
    BY MessagesAndOffsets DEF Serial, NoneSkipped
  <2>2. committed \in Nat /\ committed <= d /\ ResumeAt = committed
    BY <2>1, MessagesAndOffsets DEF IInv, TypeOK, Serial, CommitsRise, ResumeAt
  <2>3. ~(o < d) /\ o \in Nat
    BY <2>1, MessagesAndOffsets DEF Serial, NoneSkipped
  <2> QED
    BY <2>1, <2>2, <2>3
<1> QED
  BY <1>1, SerialInvariant, PTL

(* With one permit, no failing step and an offset committed before the     *)
(* first start, ingestion applies the log in order and without gaps, and a *)
(* restart goes back to the offset saved last, never beyond what has been  *)
(* applied.                                                                *)
THEOREM SerialReadsLog ==
    ASSUME OneAtATime, NothingFails, HasCommitted
    PROVE  Spec => ImplementsLogReader
<1>1. Init => Abstract!Init
  <2> SUFFICES ASSUME Init PROVE Abstract!Init
    OBVIOUS
  <2> QED
    BY DEF Init, Abstract!Init, NextOffset, InFlight, HasCommitted
<1>2. IInv /\ Serial /\ [Next]_vars => [Abstract!Next]_<<NextOffset, committed, ever>>
  <2> SUFFICES ASSUME IInv, Serial, [Next]_vars
               PROVE  [Abstract!Next]_<<NextOffset, committed, ever>>
    OBVIOUS
  <2>1. CASE Crash /\ NextOffset' = committed
    BY <2>1 DEF Crash, broker, Abstract!Next, Abstract!Restart
  <2>2. ASSUME NEW o \in Messages, Apply(o), NextOffset = o, NextOffset' = o + 1
        PROVE  Abstract!Apply
    BY <2>2 DEF Apply, broker, Abstract!Apply
  <2>3. CASE CommitArrives /\ NextOffset' = NextOffset
    <3>1. /\ committed' = Head(commits) /\ UNCHANGED <<NextOffset, ever>>
          /\ commits # <<>> /\ commits \in Seq(Offsets)
      BY <2>3 DEF CommitArrives, history, IInv, TypeOK
    <3>2. Head(commits) = commits[1] /\ 1 \in DOMAIN commits /\ commits[1] \in Int
      <4>1. /\ Head(commits) = commits[1] /\ 1 \in DOMAIN commits
            /\ commits[1] \in Offsets
        BY <3>1
      <4>2. commits[1] \in Nat
        BY <4>1, MessagesAndOffsets
      <4>3. \A c \in Nat : c \in Int
        OBVIOUS
      <4> QED
        BY <4>1, <4>2, <4>3
    <3>3. commits[1] \in committed..NextOffset
      <4>1. committed \in Int /\ NextOffset \in Int
        BY MessagesAndOffsets DEF IInv, TypeOK, Serial, CommitsRise, NoneSkipped
      <4> QED
        BY <3>2, <4>1 DEF Serial, CommitsRise
    <3> QED
      BY <3>1, <3>2, <3>3 DEF Abstract!Next, Abstract!Save
  <2>4. CASE UNCHANGED <<committed, ever>> /\ NextOffset' = NextOffset
    BY <2>4
  <2> QED
    BY <2>1, <2>2, <2>3, <2>4, OffsetMoves DEF Serial, Abstract!Next
<1> QED
  BY <1>1, <1>2, SerialInvariant, PTL
     DEF Spec, ImplementsLogReader, Abstract!Spec

=============================================================================
