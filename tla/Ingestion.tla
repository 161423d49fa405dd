------------------------------ MODULE Ingestion ------------------------------
(***************************************************************************)
(* Kafka ingestion, src/ingestion/kafka.rs, with one topic partition: the  *)
(* consumer loop, the tasks it spawns per message, the offsets they commit,*)
(* crashes and restarts.                                                   *)
(*                                                                         *)
(* Every message increments one counter the way the on_ingest script of    *)
(* examples/ads-counter does: the script reads the record and returns an   *)
(* upsert of the incremented one, which the task applies afterwards.  The  *)
(* interleavings inside the upsert itself are in module Store.             *)
(*                                                                         *)
(* The broker is external: it keeps the log and the committed offset, and  *)
(* applies the commits of one consumer in the order they were sent.        *)
(***************************************************************************)
EXTENDS Integers, Sequences, FiniteSets

CONSTANTS
    NumMessages,   \* bound of the messages ever produced
    MaxInFlight,   \* limits.max_concurrent_requests
    FailSteps,     \* the steps of process_message that may fail
    FirstCommit,   \* the offset the group has committed at first, or NoOffset
    NoOffset,      \* none committed; no message held
    NoTask,        \* no task processes the message
    MaxCrashes     \* bound of the crashes

\* Mutant: one permit too many.
PermitsOffByOne == MaxInFlight + 1

Permits == IF MaxInFlight = 0 THEN 1 ELSE MaxInFlight
Messages == 0..NumMessages-1        \* a message is its offset
Offsets == 0..NumMessages

Steps == {"rate", "script", "budget", "apply", "recheck", "commit"}
Task == [step : Steps, read : Nat]  \* read: the counter the script has seen

ASSUME IngestionAssumption ==
    /\ NumMessages \in Nat
    /\ MaxInFlight \in Nat
    /\ MaxCrashes \in Nat
    /\ FailSteps \subseteq Steps
    /\ NoOffset \notin Nat
    /\ NoTask \notin Task
    /\ FirstCommit \in {0, NoOffset}

VARIABLES
    produced,   \* broker: number of messages in the log
    committed,  \* broker: the group's committed offset, or NoOffset
    commits,    \* offsets sent with CommitMode::Async, not yet at the broker
    phase,      \* the process: "down", "up", or "stopped" (loop left)
    stop,       \* the value of the stop channel
    pos,        \* offset the consumer receives next
    held,       \* message received that waits for a permit, or NoOffset
    permits,    \* free permits of the semaphore
    task,       \* [Messages -> Task or NoTask], the spawned tasks
    count,      \* the counter in the record store
    applied,    \* messages whose ops this process has applied
    ever,       \* history: messages whose ops any process has applied
    failed,     \* history: messages whose processing has failed
    first,      \* history: the offset the first process began at, or NoOffset
    crashes     \* number of crashes so far, for the bound

broker == <<produced, committed>>
loop == <<phase, stop, pos, held>>
history == <<ever, failed, first, crashes>>
vars == <<broker, commits, loop, permits, task, count, applied, history>>

Init ==
    /\ produced = 0
    /\ committed = FirstCommit
    /\ commits = <<>>
    /\ phase = "down"
    /\ stop = FALSE
    /\ pos = 0
    /\ held = NoOffset
    /\ permits = Permits
    /\ task = [o \in Messages |-> NoTask]
    /\ count = 0
    /\ applied = {}
    /\ ever = {}
    /\ failed = {}
    /\ first = NoOffset
    /\ crashes = 0

InFlight == {o \in Messages : task[o] # NoTask}

-----------------------------------------------------------------------------
(* The broker *)

Produce ==
    /\ produced < NumMessages
    /\ produced' = produced + 1
    /\ UNCHANGED <<committed, commits, loop, permits, task, count, applied, history>>

CommitArrives ==
    /\ commits # <<>>
    /\ committed' = Head(commits)
    /\ commits' = Tail(commits)
    /\ UNCHANGED <<produced, loop, permits, task, count, applied, history>>

-----------------------------------------------------------------------------
(* The process *)

\* Mutant: resumes past the committed offset, as if it were the last one done.
ResumePast == IF committed = NoOffset THEN produced ELSE committed + 1

(* auto.offset.reset is "latest".                                          *)
ResumeAt == IF committed = NoOffset THEN produced ELSE committed

Start ==
    /\ phase = "down"
    /\ phase' = "up"
    /\ stop' = FALSE
    /\ pos' = ResumeAt
    /\ first' = IF first = NoOffset THEN ResumeAt ELSE first
    /\ UNCHANGED <<broker, commits, held, permits, task, count, applied, ever,
                   failed, crashes>>

(* Everything but the broker is in memory.                                 *)
Crash ==
    /\ phase # "down"
    /\ crashes < MaxCrashes
    /\ crashes' = crashes + 1
    /\ phase' = "down"
    /\ commits' = <<>>
    /\ held' = NoOffset
    /\ permits' = Permits
    /\ task' = [o \in Messages |-> NoTask]
    /\ count' = 0
    /\ applied' = {}
    /\ UNCHANGED <<broker, stop, pos, ever, failed, first>>

-----------------------------------------------------------------------------
(* The loop of run_consumer *)

Receive ==
    /\ phase = "up"
    /\ held = NoOffset
    /\ pos < produced
    /\ held' = pos
    /\ pos' = pos + 1
    /\ UNCHANGED <<broker, commits, phase, stop, permits, task, count, applied, history>>

\* Mutant: the offset is committed when the message is received.
SpawnCommits ==
    /\ phase = "up"
    /\ held # NoOffset
    /\ permits > 0
    /\ permits' = permits - 1
    /\ task' = [task EXCEPT ![held] = [step |-> "rate", read |-> 0]]
    /\ commits' = Append(commits, held + 1)
    /\ held' = NoOffset
    /\ UNCHANGED <<broker, phase, stop, pos, count, applied, history>>

(* Inside the branch that received the message: the loop does not look at  *)
(* the stop channel while it waits for a permit.                           *)
Spawn ==
    /\ phase = "up"
    /\ held # NoOffset
    /\ permits > 0
    /\ permits' = permits - 1
    /\ task' = [task EXCEPT ![held] = [step |-> "rate", read |-> 0]]
    /\ held' = NoOffset
    /\ UNCHANGED <<broker, commits, phase, stop, pos, count, applied, history>>

RequestStop ==
    /\ phase = "up"
    /\ stop' = TRUE
    /\ UNCHANGED <<broker, commits, phase, pos, held, permits, task, count, applied, history>>

(* The tasks in flight are not waited for.                                 *)
LeaveLoop ==
    /\ phase = "up"
    /\ stop
    /\ held = NoOffset
    /\ phase' = "stopped"
    /\ UNCHANGED <<broker, commits, stop, pos, held, permits, task, count, applied, history>>

-----------------------------------------------------------------------------
(* process_message *)

At(o, step) == task[o] # NoTask /\ task[o].step = step

Goto(o, step) == task' = [task EXCEPT ![o].step = step]

End(o) ==
    /\ task' = [task EXCEPT ![o] = NoTask]
    /\ permits' = permits + 1

\* Mutant: an error path that forgets the permit.
FailKeepsPermit(o, step) ==
    /\ step \in FailSteps
    /\ At(o, step)
    /\ failed' = failed \cup {o}
    /\ task' = [task EXCEPT ![o] = NoTask]
    /\ UNCHANGED <<broker, commits, loop, permits, applied, ever, first, crashes>>

\* Mutant: an error seeks back to the message, whatever had been done for it.
FailSeeksBack(o, step) ==
    /\ step \in FailSteps
    /\ At(o, step)
    /\ failed' = failed \cup {o}
    /\ pos' = o
    /\ End(o)
    /\ UNCHANGED <<broker, commits, phase, stop, held, applied, ever, first, crashes>>

(* An error is logged, and that is all: with commit_offset's own error the *)
(* message is in the store and stays uncommitted.                          *)
Fail(o, step) ==
    /\ step \in FailSteps
    /\ At(o, step)
    /\ failed' = failed \cup {o}
    /\ End(o)
    /\ UNCHANGED <<broker, commits, loop, applied, ever, first, crashes>>

(* check_ingestion_rate, then the payload is parsed and the binding found. *)
CheckRate(o) ==
    /\ At(o, "rate")
    /\ Goto(o, "script")
    /\ UNCHANGED <<broker, commits, loop, permits, count, applied, history>>

RunScript(o) ==
    /\ At(o, "script")
    /\ task' = [task EXCEPT ![o] = [step |-> "budget", read |-> count]]
    /\ UNCHANGED <<broker, commits, loop, permits, count, applied, history>>

CheckBudget(o) ==
    /\ At(o, "budget")
    /\ Goto(o, "apply")
    /\ UNCHANGED <<broker, commits, loop, permits, count, applied, history>>

Apply(o) ==
    /\ At(o, "apply")
    /\ count' = task[o].read + 1
    /\ applied' = applied \cup {o}
    /\ ever' = ever \cup {o}
    /\ Goto(o, "recheck")
    /\ UNCHANGED <<broker, commits, loop, permits, failed, first, crashes>>

RecheckBudget(o) ==
    /\ At(o, "recheck")
    /\ Goto(o, "commit")
    /\ UNCHANGED <<broker, commits, loop, permits, count, applied, history>>

\* Mutant: commits the consumer's position instead of the message's offset.
CommitPosition(o) ==
    /\ At(o, "commit")
    /\ commits' = Append(commits, pos)
    /\ End(o)
    /\ UNCHANGED <<broker, loop, count, applied, history>>

Commit(o) ==
    /\ At(o, "commit")
    /\ commits' = Append(commits, o + 1)
    /\ End(o)
    /\ UNCHANGED <<broker, loop, count, applied, history>>

(* apply_ops stops at the op that fails: the increment may be in already.  *)
FailStep(o) ==
    \/ \E step \in FailSteps : Fail(o, step) /\ UNCHANGED count
    \/ Fail(o, "apply") /\ count' = task[o].read + 1

TaskStep(o) ==
    \/ CheckRate(o) \/ RunScript(o) \/ CheckBudget(o) \/ Apply(o)
    \/ RecheckBudget(o) \/ Commit(o) \/ FailStep(o)

-----------------------------------------------------------------------------

Next ==
    \/ Produce \/ CommitArrives
    \/ Start \/ Crash
    \/ Receive \/ Spawn \/ RequestStop \/ LeaveLoop
    \/ \E o \in Messages : TaskStep(o)

Spec == Init /\ [][Next]_vars

(* The process is started and its loop and tasks are run; select! picks    *)
(* among its ready branches at random.                                     *)
FairSpec ==
    /\ Spec
    /\ WF_vars(Start) /\ WF_vars(Receive) /\ WF_vars(Spawn) /\ SF_vars(LeaveLoop)
    /\ WF_vars(CommitArrives)
    /\ \A o \in Messages : WF_vars(TaskStep(o))

-----------------------------------------------------------------------------
(* Every variable has its type.                                            *)
TypeOK ==
    /\ produced \in Offsets
    /\ committed \in Offsets \cup {NoOffset}
    /\ commits \in Seq(Offsets)
    /\ phase \in {"down", "up", "stopped"}
    /\ stop \in BOOLEAN
    /\ pos \in Offsets
    /\ held \in Messages \cup {NoOffset}
    /\ permits \in 0..Permits
    /\ task \in [Messages -> Task \cup {NoTask}]
    /\ count \in Nat
    /\ applied \in SUBSET Messages
    /\ ever \in SUBSET Messages
    /\ failed \in SUBSET Messages
    /\ first \in Offsets \cup {NoOffset}
    /\ crashes \in 0..MaxCrashes

(* A task holds its permit from Spawn to its end on every path, error or   *)
(* not, so that never more than max_in_flight messages are processed and   *)
(* no permit is lost.                                                      *)
PermitsBalance == permits + Cardinality(InFlight) = Permits

(* A commit of offset o + 1 follows the application of message o, be the   *)
(* commit on its way or at the broker.                                     *)
CommitFollowsApply ==
    LET backed(c) == c = 0 \/ c - 1 \in ever
    IN /\ committed # NoOffset => backed(committed)
       /\ \A n \in DOMAIN commits : backed(commits[n])

(* Within one process run the ops of a message are applied at most once:   *)
(* duplicates come from restarts only.                                     *)
AppliedOncePerRun == [][\A o \in Messages : Apply(o) => o \notin applied]_vars

(* The first offset whose message this process has not applied.            *)
NextOffset ==
    LET waiting == {o \in InFlight : o \notin applied} \cup ({held} \ {NoOffset})
    IN CASE phase = "down" -> committed
         [] waiting # {} -> CHOOSE o \in waiting : \A u \in waiting : o <= u
         [] OTHER -> pos

Abstract == INSTANCE LogReader WITH
    done <- NextOffset, saved <- committed, seen <- ever

(* One message at a time, none failing: the log is applied in order,       *)
(* without gaps, and a restart resumes at a saved offset.                  *)
ImplementsLogReader == Abstract!Spec

(* At least once: no message from the first start on is lost, that is,     *)
(* neither applied nor in progress, and behind the offset at which a       *)
(* restart would resume.                                                   *)
InProgress(o) == phase # "down" /\ (o >= pos \/ o = held \/ o \in InFlight)
NoMessageLost ==
    first # NoOffset =>
        \A o \in Messages : first <= o /\ o < produced =>
            o \in ever \/ InProgress(o) \/ o >= ResumeAt

(* The counter counts the messages applied, when no task is under way.     *)
CountsEachMessage == InFlight = {} => count = Cardinality(applied)

=============================================================================
