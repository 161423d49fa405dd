--------------------------------- MODULE Edge ---------------------------------
(***************************************************************************)
(* HTTP requests in the edge (handle_edge_request of src/http/mod.rs) with *)
(* the limits they pass (src/limits/mod.rs) and the JS slots they share    *)
(* with ingestion and cron jobs (module JsPool).                           *)
(*                                                                         *)
(* One request passes: rate limit, concurrency permit, store budget, body, *)
(* slot, script, response.  Its permit lives until the handler returns or  *)
(* is dropped, which happens at an await when the client goes away.        *)
(***************************************************************************)
EXTENDS JsPool

CONSTANTS
    Requests,     \* requests, each made once
    Jobs,         \* tasks of ingestion and cron that call scripts over and over
    MaxRequests,  \* max_concurrent_requests, at least 1
    SoftLimit,    \* soft_limit_bytes
    HardLimit,    \* hard_limit_bytes
    Usages        \* values of current_memory_bytes, which other tasks change

ASSUME EdgeAssumption ==
    /\ Calls = Requests \cup Jobs
    /\ Requests \cap Jobs = {}
    /\ MaxRequests \in Nat \ {0}
    /\ SoftLimit \in Nat /\ HardLimit \in Nat /\ Usages \subseteq Nat

Refusals == {"429 rate", "503 concurrency", "503 memory", "400 body"}
(* What a script returns is sent, cannot be serialized, or is too large.   *)
Rendered == {"ok", "500 reply", "503 too large"}
Replies == Rendered \cup {"500 script"}
Statuses == Refusals \cup Replies
NoStatus == "none"

VARIABLES
    req,       \* where a request is
    status,    \* its response
    permits,   \* free permits of request_semaphore
    started    \* history: the requests whose script has started

edgeVars == <<req, status, permits, started>>
vars == <<poolVars, edgeVars>>

Init ==
    /\ PoolInit
    /\ req = [r \in Requests |-> "new"]
    /\ status = [r \in Requests |-> NoStatus]
    /\ permits = MaxRequests
    /\ started = {}

-----------------------------------------------------------------------------
(* handle_edge_request *)

(* The steps at which the handler holds a permit.                          *)
Holds(r) == req[r] \in {"permitted", "reading", "calling"}
Holders == {r \in Requests : Holds(r)}

Goto(r, step) ==
    /\ req' = [req EXCEPT ![r] = step]
    /\ UNCHANGED status

\* Mutant: an early return that keeps the permit.
AnswerAndKeep(r, st) ==
    /\ req' = [req EXCEPT ![r] = "answered"]
    /\ status' = [status EXCEPT ![r] = st]
    /\ permits' = IF Holds(r) /\ st \notin Refusals THEN permits + 1 ELSE permits

(* The response is built and the handler's permit dropped.                 *)
Answer(r, st) ==
    /\ req' = [req EXCEPT ![r] = "answered"]
    /\ status' = [status EXCEPT ![r] = st]
    /\ permits' = IF Holds(r) THEN permits + 1 ELSE permits

(* check_request_rate: module RateLimiter says when it refuses.            *)
CheckRate(r) ==
    /\ req[r] = "new"
    /\ WorkerFree
    /\ \/ Answer(r, "429 rate")
       \/ Goto(r, "rated") /\ UNCHANGED permits
    /\ UNCHANGED <<poolVars, started>>

(* try_acquire_request_permit does not wait.                               *)
AcquirePermit(r) ==
    /\ req[r] = "rated"
    /\ WorkerFree
    /\ \/ permits = 0 /\ Answer(r, "503 concurrency")
       \/ permits > 0 /\ permits' = permits - 1 /\ Goto(r, "permitted")
    /\ UNCHANGED <<poolVars, started>>

(* check_store_budget: both limits refuse with a 503.                      *)
CheckBudget(r) ==
    /\ req[r] = "permitted"
    /\ WorkerFree
    /\ \E usage \in Usages :
         IF usage > HardLimit \/ usage > SoftLimit
         THEN Answer(r, "503 memory")
         ELSE Goto(r, "reading") /\ UNCHANGED permits
    /\ UNCHANGED <<poolVars, started>>

(* to_bytes and from_slice: the client has sent the body; one that is too  *)
(* long or no JSON is refused.                                             *)
ReadBody(r) ==
    /\ req[r] = "reading"
    /\ WorkerFree
    /\ \/ Answer(r, "400 body")
       \/ Goto(r, "calling") /\ UNCHANGED permits
    /\ UNCHANGED <<poolVars, started>>

(* execute_route *)
Call(r) ==
    /\ req[r] = "calling"
    /\ Draw(r) \/ Join(r) \/ Run(r) \/ Finish(r)
    /\ started' = IF Run(r) THEN started \cup {r} ELSE started
    /\ UNCHANGED <<req, status, permits>>

\* Mutant: the store budget is checked once more, after the script.
RespondRechecks(r) ==
    /\ req[r] = "calling"
    /\ Return(r)
    /\ \/ \E usage \in Usages : usage > SoftLimit /\ Answer(r, "503 memory")
       \/ outcome[r] = "returns" /\ \E st \in Rendered : Answer(r, st)
       \/ outcome[r] = "throws" /\ Answer(r, "500 script")
    /\ UNCHANGED started

(* An error is a 500, or a 503 if its text speaks of a time budget: both   *)
(* are "500 script" here.                                                  *)
Respond(r) ==
    /\ req[r] = "calling"
    /\ Return(r)
    /\ \/ outcome[r] = "returns" /\ \E st \in Rendered : Answer(r, st)
       \/ outcome[r] = "throws" /\ Answer(r, "500 script")
    /\ UNCHANGED started

\* Mutant: the call of a client that went away stays in the line.
DisconnectStays(r) ==
    /\ req[r] = "reading" \/ (req[r] = "calling" /\ stage[r] = "waiting")
    /\ WorkerFree
    /\ Goto(r, "gone")
    /\ permits' = permits + 1
    /\ UNCHANGED <<poolVars, started>>

(* The client goes away: the server drops the handler where it waits, for  *)
(* the body or for the slot, and with it the permit.                       *)
Disconnect(r) ==
    /\ \/ req[r] = "reading" /\ WorkerFree /\ UNCHANGED poolVars
       \/ req[r] = "calling" /\ Cancel(r)
    /\ Goto(r, "gone")
    /\ permits' = permits + 1
    /\ UNCHANGED started

-----------------------------------------------------------------------------

(* execute_ingest and execute_cron of a task that is never dropped.        *)
JobCall(j) ==
    /\ j \in Jobs
    /\ Draw(j) \/ Join(j) \/ Run(j) \/ Finish(j) \/ Return(j)
    /\ UNCHANGED edgeVars

Handle(r) ==
    \/ CheckRate(r) \/ AcquirePermit(r) \/ CheckBudget(r) \/ ReadBody(r)
    \/ Call(r) \/ Respond(r)

Next ==
    \/ \E r \in Requests : Handle(r) \/ Disconnect(r)
    \/ \E j \in Jobs : JobCall(j)

Spec == Init /\ [][Next]_vars

(* tokio polls every ready task again and again as threads become free.    *)
(* Clients send their bodies in the end or go away; nothing makes a client *)
(* call or a job call again.  A task has one next step at a time, so it    *)
(* is enough to be fair to its steps together.                             *)
Proceed(r) ==
    \/ AcquirePermit(r) \/ CheckBudget(r) \/ ReadBody(r) \/ Call(r) \/ Respond(r)
    \/ req[r] = "reading" /\ Disconnect(r)

Fairness ==
    /\ \A r \in Requests : SF_vars(Proceed(r))
    /\ \A j \in Jobs : SF_vars(stage[j] # "idle" /\ JobCall(j))

FairSpec == Spec /\ Fairness

-----------------------------------------------------------------------------
TypeOK ==
    /\ PoolTypeOK
    /\ req \in [Requests -> {"new", "rated", "permitted", "reading", "calling",
                             "answered", "gone"}]
    /\ status \in [Requests -> Statuses \cup {NoStatus}]
    /\ permits \in 0..MaxRequests
    /\ started \subseteq Requests

(* Permits are neither lost nor given back twice, whichever way a request  *)
(* ends: refused, answered, failed, or dropped where it waits.             *)
PermitsBalance == permits + Cardinality(Holders) = MaxRequests

(* What a request is told is what happened: a refusal means that its       *)
(* script has not run, so that it can be sent again; a reply, that it has. *)
StatusTellsEffect ==
    \A r \in Requests : /\ status[r] \in Refusals => r \notin started
                        /\ status[r] \in Replies => r \in started

(* A request that no client has given up is answered, if scripts end,      *)
(* although ingestion and cron jobs keep calling scripts.                  *)
RequestsEnd == \A r \in Requests : req[r] # "new" ~> req[r] \in {"answered", "gone"}

=============================================================================
