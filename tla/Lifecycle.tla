----------------------------- MODULE Lifecycle -----------------------------
(***************************************************************************)
(* The process: main of src/main.rs from the bundle to the exit, the tasks *)
(* it starts and stops (src/cron, src/ingestion, src/store/retention.rs)   *)
(* and the readiness flags of src/http/health.rs.                          *)
(*                                                                         *)
(* What a script, a message or a request does to the store is in the other *)
(* modules; here they only run, and when is what matters.  The scheduler   *)
(* is tokio's: every task may be interleaved with every other one, and all *)
(* of them end with main.                                                  *)
(***************************************************************************)
EXTENDS Configuration, FiniteSets

CONSTANTS
    Bundles,  \* the bundles the process may be started with
    MaxTasks, \* bound of the crons and of the sources of a bundle
    Requests  \* the requests clients may send

Groups == {"cron", "ingestion", "retention"}
TaskIds == Groups \X (1..MaxTasks)
Consumers == {"ingestion"} \X (1..MaxTasks)
TaskStates == {"none", "starting", "idle", "busy", "ended", "failed"}

ASSUME LifecycleAssumption ==
    /\ MaxTasks \in Nat \ {0}
    /\ Bundles \subseteq Bundle
    /\ \A b \in Bundles :
          /\ Len(b.app.crons) <= MaxTasks
          /\ Len(b.app.ingestion) <= MaxTasks

VARIABLES
    bundle,   \* the files at BUNDLE_PATH
    main,     \* the step main is at, or how the process has ended
    group,    \* the task group main stops, an index of StopOrder
    health,   \* HealthState
    kafka,    \* IngestionHealth, the flag all consumers share
    poller,   \* the task that copies kafka to health
    task,     \* [TaskIds -> TaskStates]
    inflight, \* [TaskIds -> Nat], the messages a consumer has spawned tasks for
    stop,     \* the groups whose stop channel says so
    server,   \* the edge server: "none", "serving" or "draining"
    request,  \* [Requests -> {"none", "open", "answered"}]
    ran       \* history: the hooks that succeeded, and who has run since

clients == <<server, request>>
tasks == <<task, inflight, kafka>>
vars == <<bundle, main, group, health, poller, tasks, stop, clients, ran>>

Ended == {"ok", "error", "killed"}
Up == main \notin Ended

KafkaConfigured == \E i \in DOMAIN bundle.app.ingestion : IsKafka(bundle.app.ingestion[i])

(* HealthState::is_ready *)
Ready ==
    /\ health.config /\ health.scripts /\ health.store
    /\ KafkaConfigured => health.kafka

-----------------------------------------------------------------------------
(* The order of the steps of main. *)

MainOrder ==
    <<"load", "store", "pool", "retention", "on_init", "ingestion", "crons",
      "router", "bind", "serving", "notify", "on_shutdown", "stop">>

StopOrder == <<"cron", "ingestion", "retention">>

After(step) ==
    MainOrder[(CHOOSE i \in DOMAIN MainOrder : MainOrder[i] = step) + 1]
Proceed(step) == main = step /\ main' = After(step)
Fail(step) == main = step /\ main' = "error"

Init ==
    /\ bundle \in Bundles
    /\ main = "load"
    /\ group = 1
    /\ health = [config |-> FALSE, scripts |-> FALSE, store |-> FALSE, kafka |-> FALSE]
    /\ kafka = FALSE
    /\ poller = [step |-> "none", seen |-> FALSE]
    /\ task = [t \in TaskIds |-> "none"]
    /\ inflight = [t \in TaskIds |-> 0]
    /\ stop = {}
    /\ server = "none"
    /\ request = [r \in Requests |-> "none"]
    /\ ran = {}

-----------------------------------------------------------------------------
(* Startup *)

Load ==
    /\ \/ Proceed("load") /\ Valid(bundle) /\ health' = [health EXCEPT !.config = TRUE]
       \/ Fail("load") /\ ~Valid(bundle) /\ UNCHANGED health
    /\ UNCHANGED <<bundle, group, poller, tasks, stop, clients, ran>>

(* The store is there, and ready; creating the metrics may still fail.     *)
CreateStore ==
    /\ Proceed("store") \/ Fail("store")
    /\ health' = [health EXCEPT !.store = TRUE]
    /\ UNCHANGED <<bundle, group, poller, tasks, stop, clients, ran>>

(* Each script is read when the pool is created.  That fails on a file that*)
(* is missing, and may fail on one that is there: read_to_string wants a   *)
(* readable file and UTF-8.                                                *)
CreatePool ==
    /\ \/ /\ Proceed("pool")
          /\ ScriptsRead(bundle.app) \subseteq Files
          /\ health' = [health EXCEPT !.scripts = TRUE]
       \/ /\ Fail("pool")
          /\ ScriptsRead(bundle.app) # {}
          /\ UNCHANGED health
    /\ UNCHANGED <<bundle, group, poller, tasks, stop, clients, ran>>

SpawnRetention ==
    /\ Proceed("retention")
    /\ task' = [task EXCEPT ![<<"retention", 1>>] = "idle"]
    /\ UNCHANGED <<bundle, group, health, poller, inflight, kafka, stop, clients, ran>>

(* The script, or one of the operations it returned, may fail.             *)
RunOnInit ==
    /\ \/ Proceed("on_init") /\ ran' = ran \cup {"on_init"}
       \/ Fail("on_init") /\ bundle.app.on_init # NoScript /\ UNCHANGED ran
    /\ UNCHANGED <<bundle, group, health, poller, tasks, stop, clients>>

StartIngestion ==
    /\ Proceed("ingestion")
    /\ health' = [health EXCEPT !.kafka = ~KafkaConfigured]
    /\ task' = [t \in TaskIds |->
                  IF /\ t \in Consumers
                     /\ t[2] \in DOMAIN bundle.app.ingestion
                     /\ IsKafka(bundle.app.ingestion[t[2]])
                  THEN "starting" ELSE task[t]]
    /\ poller' = [poller EXCEPT !.step = IF KafkaConfigured THEN "read" ELSE "none"]
    /\ UNCHANGED <<bundle, group, inflight, kafka, stop, clients, ran>>

SpawnCrons ==
    /\ Proceed("crons")
    /\ task' = [t \in TaskIds |->
                  IF t[1] = "cron" /\ t[2] \in DOMAIN bundle.app.crons
                  THEN "idle" ELSE task[t]]
    /\ UNCHANGED <<bundle, group, health, poller, inflight, kafka, stop, clients, ran>>

BuildRouter ==
    /\ IF RouterBuilds(bundle.app) THEN Proceed("router") ELSE Fail("router")
    /\ UNCHANGED <<bundle, group, health, poller, tasks, stop, clients, ran>>

(* Both listeners, and then the servers.                                   *)
Bind ==
    /\ \/ Proceed("bind") /\ server' = "serving"
       \/ Fail("bind") /\ UNCHANGED server
    /\ UNCHANGED <<bundle, group, health, poller, tasks, stop, request, ran>>

-----------------------------------------------------------------------------
(* Shutdown *)

(* ctrl_c, or the end of a server.                                         *)
Wake ==
    /\ Proceed("serving")
    /\ UNCHANGED <<bundle, group, health, poller, tasks, stop, clients, ran>>

(* shutdown_tx.send: the servers are told, and not waited for.             *)
NotifyServers ==
    /\ Proceed("notify")
    /\ server' = "draining"
    /\ UNCHANGED <<bundle, group, health, poller, tasks, stop, request, ran>>

RunOnShutdown ==
    /\ \/ Proceed("on_shutdown") /\ ran' = ran \cup {"on_shutdown"}
       \/ Fail("on_shutdown") /\ bundle.app.on_shutdown # NoScript /\ UNCHANGED ran
    /\ UNCHANGED <<bundle, group, health, poller, tasks, stop, clients>>

\* Mutant: the task is awaited with its stop channel untouched.
JoinWithoutStop ==
    /\ main = "stop"
    /\ main' = "join"
    /\ UNCHANGED <<bundle, group, health, poller, tasks, stop, clients, ran>>

SendStop ==
    /\ main = "stop"
    /\ main' = "join"
    /\ stop' = stop \cup {StopOrder[group]}
    /\ UNCHANGED <<bundle, group, health, poller, tasks, clients, ran>>

AtRest == {"none", "ended", "failed"}

\* Mutant: one task of the group is waited for, not all of them.
JoinsOne ==
    /\ main = "join"
    /\ task[<<StopOrder[group], 1>>] \in AtRest
    /\ IF group < Len(StopOrder)
       THEN main' = "stop" /\ group' = group + 1
       ELSE main' = "clear" /\ UNCHANGED group
    /\ UNCHANGED <<bundle, health, poller, tasks, stop, clients, ran>>

JoinGroup ==
    /\ main = "join"
    /\ \A i \in 1..MaxTasks : task[<<StopOrder[group], i>>] \in AtRest
    /\ IF group < Len(StopOrder)
       THEN main' = "stop" /\ group' = group + 1
       ELSE main' = "clear" /\ UNCHANGED group
    /\ UNCHANGED <<bundle, health, poller, tasks, stop, clients, ran>>

ClearFlags ==
    /\ main = "clear"
    /\ main' = "return"
    /\ health' = [health EXCEPT !.kafka = FALSE, !.scripts = FALSE, !.store = FALSE]
    /\ UNCHANGED <<bundle, group, poller, tasks, stop, clients, ran>>

Return ==
    /\ main = "return"
    /\ main' = "ok"
    /\ UNCHANGED <<bundle, group, health, poller, tasks, stop, clients, ran>>

(* A signal without a handler: SIGTERM at any time, SIGINT before serving. *)
Kill ==
    /\ Up
    /\ main' = "killed"
    /\ UNCHANGED <<bundle, group, health, poller, tasks, stop, clients, ran>>

Startup ==
    \/ Load \/ CreateStore \/ CreatePool \/ SpawnRetention \/ RunOnInit
    \/ StartIngestion \/ SpawnCrons \/ BuildRouter \/ Bind
Shutdown ==
    \/ NotifyServers \/ RunOnShutdown \/ SendStop \/ JoinGroup \/ ClearFlags \/ Return

-----------------------------------------------------------------------------
(* The tasks.  Each is a loop around select!: at rest it is idle, and busy *)
(* while a branch runs, which does not look at the stop channel.           *)

TaskStep(t, from, to) ==
    /\ Up
    /\ task[t] = from
    /\ task' = [task EXCEPT ![t] = to]
    /\ UNCHANGED <<bundle, main, group, health, poller, stop, clients>>

(* interval.tick of the cron tasks and the sweeper.                        *)
Tick(t) ==
    /\ t \notin Consumers
    /\ TaskStep(t, "idle", "busy")
    /\ UNCHANGED <<inflight, kafka, ran>>

(* The sweep, or the handler of the cron; its failure is only logged.      *)
RunHandler(t) ==
    /\ t \notin Consumers
    /\ TaskStep(t, "busy", "idle")
    /\ ran' = ran \cup {t[1]}
    /\ UNCHANGED <<inflight, kafka>>

\* Mutant: the flag is set before the subscription, whether it fails or not.
FlagThenSubscribe(t) ==
    /\ t \in Consumers
    /\ TaskStep(t, "starting", "idle") \/ TaskStep(t, "starting", "failed")
    /\ kafka' = TRUE
    /\ UNCHANGED <<inflight, ran>>

(* Creating the consumer or subscribing may fail; the task then ends.      *)
Subscribe(t) ==
    /\ t \in Consumers
    /\ \/ TaskStep(t, "starting", "idle") /\ kafka' = TRUE
       \/ TaskStep(t, "starting", "failed") /\ UNCHANGED kafka
    /\ UNCHANGED <<inflight, ran>>

(* consumer.recv; the message then waits for a permit of the semaphore.    *)
Receive(t) ==
    /\ t \in Consumers
    /\ TaskStep(t, "idle", "busy")
    /\ UNCHANGED <<inflight, kafka, ran>>

SpawnProcess(t) ==
    /\ t \in Consumers
    /\ inflight[t] < bundle.app.limits.max_concurrent_requests
    /\ TaskStep(t, "busy", "idle")
    /\ inflight' = [inflight EXCEPT ![t] = @ + 1]
    /\ UNCHANGED <<kafka, ran>>

(* process_message, in a task nobody waits for.                            *)
Process(t) ==
    /\ Up
    /\ inflight[t] > 0
    /\ inflight' = [inflight EXCEPT ![t] = @ - 1]
    /\ ran' = ran \cup {"ingestion"}
    /\ UNCHANGED <<bundle, main, group, health, poller, task, kafka, stop, clients>>

\* Mutant: the flag is left set when the consumer ends.
SeeStopOnly(t) ==
    /\ t[1] \in stop
    /\ TaskStep(t, "idle", "ended")
    /\ UNCHANGED <<inflight, kafka, ran>>

(* The branch of the stop channel; a consumer clears the shared flag.      *)
SeeStop(t) ==
    /\ t[1] \in stop
    /\ TaskStep(t, "idle", "ended")
    /\ kafka' = (kafka /\ t \notin Consumers)
    /\ UNCHANGED <<inflight, ran>>

PollRead ==
    /\ Up
    /\ poller.step = "read"
    /\ poller' = [step |-> "write", seen |-> kafka]
    /\ UNCHANGED <<bundle, main, group, health, tasks, stop, clients, ran>>

\* Mutant: the flag is copied once.
PollOnce ==
    /\ Up
    /\ poller.step = "write"
    /\ health' = [health EXCEPT !.kafka = poller.seen]
    /\ poller' = [step |-> "none", seen |-> FALSE]
    /\ UNCHANGED <<bundle, main, group, tasks, stop, clients, ran>>

PollWrite ==
    /\ Up
    /\ poller.step = "write"
    /\ health' = [health EXCEPT !.kafka = poller.seen]
    /\ poller' = [step |-> "read", seen |-> FALSE]
    /\ UNCHANGED <<bundle, main, group, tasks, stop, clients, ran>>

TaskNext(t) ==
    \/ Tick(t) \/ RunHandler(t) \/ SeeStop(t)
    \/ Subscribe(t) \/ Receive(t) \/ SpawnProcess(t) \/ Process(t)

-----------------------------------------------------------------------------
(* The clients: a draining server takes no new connection and finishes the *)
(* requests it has.                                                        *)

OpenRequest(r) ==
    /\ Up
    /\ server = "serving"
    /\ request[r] = "none"
    /\ request' = [request EXCEPT ![r] = "open"]
    /\ UNCHANGED <<bundle, main, group, health, poller, tasks, stop, server, ran>>

AnswerRequest(r) ==
    /\ Up
    /\ request[r] = "open"
    /\ request' = [request EXCEPT ![r] = "answered"]
    /\ ran' = ran \cup {"request"}
    /\ UNCHANGED <<bundle, main, group, health, poller, tasks, stop, server>>

Next ==
    \/ Startup \/ Wake \/ Shutdown \/ Kill
    \/ \E t \in TaskIds : TaskNext(t)
    \/ PollRead \/ PollWrite
    \/ \E r \in Requests : OpenRequest(r) \/ AnswerRequest(r)

(* main and every task go on when they can.  select! picks at random among *)
(* the branches that are due, so a stop is seen although ticks and         *)
(* messages keep coming.                                                   *)
Fairness ==
    /\ WF_vars(Startup) /\ WF_vars(Shutdown)
    /\ WF_vars(PollRead) /\ WF_vars(PollWrite)
    /\ \A t \in TaskIds :
          /\ WF_vars(RunHandler(t)) /\ WF_vars(Subscribe(t))
          /\ WF_vars(SpawnProcess(t)) /\ WF_vars(Process(t))
          /\ SF_vars(SeeStop(t))

Spec == Init /\ [][Next]_vars
FairSpec == Spec /\ Fairness

-----------------------------------------------------------------------------
(* The types of the variables.                                             *)
TypeOK ==
    /\ bundle \in Bundles
    /\ main \in {MainOrder[i] : i \in DOMAIN MainOrder}
                   \cup {"join", "clear", "return"} \cup Ended
    /\ group \in DOMAIN StopOrder
    /\ health \in [config : BOOLEAN, scripts : BOOLEAN, store : BOOLEAN, kafka : BOOLEAN]
    /\ kafka \in BOOLEAN
    /\ poller \in [step : {"none", "read", "write"}, seen : BOOLEAN]
    /\ task \in [TaskIds -> TaskStates]
    /\ inflight \in [TaskIds -> 0..bundle.app.limits.max_concurrent_requests]
    /\ stop \subseteq Groups
    /\ server \in {"none", "serving", "draining"}
    /\ request \in [Requests -> {"none", "open", "answered"}]
    /\ ran \subseteq Groups \cup {"on_init", "on_shutdown", "request"}

(* No cron, message or request is handled before on_init has succeeded.    *)
InitFirst == ran \cap {"cron", "ingestion", "request"} # {} => "on_init" \in ran

(* When main goes on to stop the next group, every task of the groups it   *)
(* has stopped has left its loop; so have they all at a clean exit.        *)
StoppedTasksRest ==
    \A t \in TaskIds, i \in DOMAIN StopOrder :
        /\ t[1] = StopOrder[i]
        /\ i < group \/ main \in {"clear", "return", "ok"}
        => task[t] \in AtRest

Consuming(t) == t \in Consumers /\ task[t] \in {"idle", "busy"}

(* /readyz answers 200 only when on_init has succeeded and, with Kafka     *)
(* configured, some consumer is subscribed, until the consumers are told   *)
(* to stop: the copies of the shared flag never run ahead of it.           *)
ReadyTellsTruth ==
    Ready /\ server # "none" /\ "ingestion" \notin stop =>
        /\ "on_init" \in ran
        /\ KafkaConfigured => \E t \in TaskIds : Consuming(t)

(* Once main has cleared the flags, the process is not ready again, though *)
(* the poller may still write what it has read before.                     *)
NotReadyAgain == main \in {"return", "ok"} => ~Ready

(* The last consumer to end leaves the shared flag clear, in whatever      *)
(* order they subscribe, fail and end.                                     *)
FlagIsCleared == group = 3 => ~kafka

(* In an accepted schema whose names have no dots, every index of a record *)
(* entity has its own internal name, which lookups resolve to it; the bare *)
(* name resolves to it when no other entity declares it, and to nothing    *)
(* otherwise.                                                              *)
PlainNamesResolve ==
    LET schema == bundle.schema
        declared == DeclaredIndexes(schema)
        bare(d) == schema[d[1]].indexes[d[2]].name
        plain == \A d \in declared : Len(schema[d[1]].name) = 1 /\ Len(bare(d)) = 1
    IN main = "store" /\ plain =>
        \A d \in declared :
            LET same == {e \in declared : bare(e) = bare(d)} IN
            /\ \A e \in declared : InternalName(schema, d) = InternalName(schema, e) => d = e
            /\ Resolve(schema, InternalName(schema, d)) = {InternalName(schema, d)}
            /\ Resolve(schema, bare(d)) =
                  IF same = {d} THEN {InternalName(schema, d)} ELSE {}

(* A shutdown ends: main does not wait for ever for a task, however many   *)
(* ticks and messages are due.  That handlers and sweeps end is assumed; a *)
(* sweep of a hash index may not (OperationsFinish of module Store).       *)
ShutdownCompletes == main = "notify" ~> ~Up

(* A consumer that has subscribed shows at /readyz while the process       *)
(* serves.                                                                 *)
SubscribedShows == (main = "serving" /\ kafka) ~> (Ready \/ main # "serving")

=============================================================================
