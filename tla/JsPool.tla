-------------------------------- MODULE JsPool --------------------------------
(***************************************************************************)
(* The slots of JsRuntimePool (src/js/mod.rs): every execute_* call draws  *)
(* a slot round-robin, waits for its mutex and runs its script to the end  *)
(* on the worker thread that polls it.                                     *)
(*                                                                         *)
(* A script runs inside one poll of its task: nothing interrupts it, not   *)
(* even tokio::time::timeout, which polls the script first and finds it    *)
(* ready.  A task that does anything needs one of the worker threads       *)
(* of the tokio runtime.  tokio::sync::Mutex serves its waiters in the     *)
(* order they came: a call waits for those that were ahead of it.          *)
(***************************************************************************)
EXTENDS Naturals, FiniteSets

CONSTANTS
    Calls,     \* the callers: requests, messages, cron jobs, main
    PoolSize,  \* js.pool_size, at least 1
    Workers,   \* tokio worker threads
    Outcomes,  \* what scripts do in this instance: "returns", "throws", "loops"
    Wrap       \* next_slot is a machine word: it counts modulo Wrap

ASSUME PoolAssumption ==
    /\ IsFiniteSet(Calls)
    /\ PoolSize \in Nat \ {0}
    /\ Workers \in Nat \ {0}
    /\ Wrap \in Nat \ {0}
    /\ Outcomes \subseteq {"returns", "throws", "loops"}

Slots == 0..PoolSize - 1

VARIABLES
    nextSlot,  \* next_slot
    slot,      \* the slot a call has drawn
    stage,     \* where a call is
    ahead,     \* the calls a call still has to let pass
    outcome    \* what the script of a call does

poolVars == <<nextSlot, slot, stage, ahead, outcome>>

PoolInit ==
    /\ nextSlot = 0
    /\ slot = [c \in Calls |-> 0]
    /\ stage = [c \in Calls |-> "idle"]
    /\ ahead = [c \in Calls |-> {}]
    /\ outcome = [c \in Calls |-> "returns"]

Running == {c \in Calls : stage[c] = "running"}
WorkerFree == Cardinality(Running) < Workers

(* The call that holds the mutex of a slot and those that wait for it.     *)
Line(s) == {c \in Calls : slot[c] = s /\ stage[c] \in {"waiting", "running"}}

\* Mutant: a call that leaves the line is still waited for.
LeavesTrace(c) == ahead' = [ahead EXCEPT ![c] = {}]

(* Call c passes or steps out.                                             *)
LetPass(c) == ahead' = [d \in Calls |-> IF d = c THEN {} ELSE ahead[d] \ {c}]

(* The locals of a call that is over are gone.                             *)
Over(c) ==
    /\ stage' = [stage EXCEPT ![c] = "idle"]
    /\ slot' = [slot EXCEPT ![c] = 0]
    /\ outcome' = [outcome EXCEPT ![c] = "returns"]

(* next_slot.fetch_add(1) % slots.len()                                    *)
Draw(c) ==
    /\ stage[c] = "idle"
    /\ WorkerFree
    /\ slot' = [slot EXCEPT ![c] = nextSlot % PoolSize]
    /\ nextSlot' = (nextSlot + 1) % Wrap
    /\ stage' = [stage EXCEPT ![c] = "drawn"]
    /\ UNCHANGED <<ahead, outcome>>

(* slots[slot].lock(): the call joins the line.                            *)
Join(c) ==
    /\ stage[c] = "drawn"
    /\ WorkerFree
    /\ ahead' = [ahead EXCEPT ![c] = Line(slot[c])]
    /\ stage' = [stage EXCEPT ![c] = "waiting"]
    /\ UNCHANGED <<nextSlot, slot, outcome>>

(* The lock is granted and the script starts.                              *)
Run(c) ==
    /\ stage[c] = "waiting"
    /\ WorkerFree
    /\ ahead[c] = {}
    /\ stage' = [stage EXCEPT ![c] = "running"]
    /\ outcome' \in {[outcome EXCEPT ![c] = o] : o \in Outcomes}
    /\ UNCHANGED <<nextSlot, slot, ahead>>

(* The script returns or throws, and the guard is dropped.                 *)
Finish(c) ==
    /\ stage[c] = "running"
    /\ outcome[c] # "loops"
    /\ stage' = [stage EXCEPT ![c] = "done"]
    /\ LetPass(c)
    /\ UNCHANGED <<nextSlot, slot, outcome>>

\* Mutant: a waiter that is dropped releases the mutex it never held.
CancelUnlocks(c) ==
    /\ stage[c] = "waiting"
    /\ WorkerFree
    /\ ahead' = [d \in Calls |-> IF d = c THEN {}
                                 ELSE ahead[d] \ (Running \cup {c})]
    /\ Over(c)
    /\ UNCHANGED nextSlot

(* The future is dropped while it waits: it leaves the line, also when the *)
(* lock has been granted but the task was not polled since.                *)
Cancel(c) ==
    /\ stage[c] = "waiting"
    /\ WorkerFree
    /\ LetPass(c)
    /\ Over(c)
    /\ UNCHANGED nextSlot

(* The caller has the result and may call again.                           *)
Return(c) ==
    /\ stage[c] = "done"
    /\ WorkerFree
    /\ Over(c)
    /\ UNCHANGED <<nextSlot, ahead>>

PoolNext ==
    \E c \in Calls : Draw(c) \/ Join(c) \/ Run(c) \/ Finish(c) \/ Cancel(c) \/ Return(c)

PoolSpec == PoolInit /\ [][PoolNext]_poolVars

-----------------------------------------------------------------------------
PoolTypeOK ==
    /\ nextSlot \in 0..Wrap - 1
    /\ slot \in [Calls -> Slots]
    /\ stage \in [Calls -> {"idle", "drawn", "waiting", "running", "done"}]
    /\ ahead \in [Calls -> SUBSET Calls]
    /\ outcome \in [Calls -> Outcomes \cup {"returns"}]

(* No two scripts run in one slot at a time, however calls queue, give up  *)
(* and come back.                                                          *)
SlotExclusive ==
    \A c, d \in Running : slot[c] = slot[d] => c = d

(* A call waits for calls in the line of its slot only, so that it is not  *)
(* left behind one that has gone; and of two calls in a line one waits for *)
(* the other, and not both.                                                *)
LinesInOrder ==
    /\ \A c \in Calls : ahead[c] # {} => c \in Line(slot[c])
    /\ \A c \in Calls : ahead[c] \subseteq Line(slot[c])
    /\ \A s \in Slots : \A c, d \in Line(s) :
          c # d => (c \in ahead[d] <=> d \notin ahead[c])

=============================================================================
