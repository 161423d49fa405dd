---------------------------- MODULE MCLifecycle ----------------------------
(* Bundles for TLC: a few that the process lives with, bundles with one    *)
(* defect each, and schemas whose index names meet.                        *)
EXTENDS Lifecycle

MCFiles == {"a.js", "hook.js", IngestScript}

Limits ==
    [max_concurrent_requests |-> 1, pool_size |-> 1, max_cpu_ms_per_request |-> 1,
     max_bytes |-> 4, max_request_bytes |-> 1, max_response_bytes |-> 1,
     max_entity_bytes |-> 2, soft_limit_percent |-> 100]

Endpoint(name, word, shape, params) ==
    [name |-> name, method |-> [word |-> word, padded |-> FALSE],
     path |-> [shape |-> shape, params |-> params, wellformed |-> TRUE],
     handler |-> "a.js"]
Handler(name) == [name |-> name, handler |-> "a.js"]
Cron(name, script) == [name |-> name, interval_seconds |-> 1, handler |-> script]
Source(type, entities) ==
    [type |-> type, topics |-> [i \in DOMAIN entities |-> [entity |-> entities[i]]]]

Index(name, field) == [name |-> name, field |-> field]
Entity(name, indexes) ==
    [name |-> name, primary_key |-> <<"id">>, fields |-> <<[name |-> <<"f">>]>>,
     entity_type |-> "record", partition_key |-> Unset, order_by |-> Unset,
     max_per_partition |-> Unset, indexes |-> indexes]
Collection(partition, order, max) ==
    [Entity(<<"c">>, <<>>) EXCEPT !.entity_type = "collection",
        !.partition_key = partition, !.order_by = order, !.max_per_partition = max]

E == Entity(<<"e">>, <<Index(<<"by">>, <<"f">>)>>)

Quiet ==
    [app |-> [name |-> <<"app">>, version |-> <<"1">>, limits |-> Limits,
              endpoints |-> <<>>, queries |-> <<>>, crons |-> <<>>,
              on_init |-> NoScript, on_shutdown |-> NoScript,
              ingestion |-> <<>>, enable_execute |-> FALSE],
     schema |-> <<E>>]

-----------------------------------------------------------------------------
(* Accepted *)

Full ==
    [Quiet EXCEPT !.app.endpoints = <<Endpoint(<<"r">>, "GET", "/r", <<>>)>>,
                  !.app.queries = <<Handler(<<"q">>)>>,
                  !.app.crons = <<Cron(<<"c">>, "a.js")>>,
                  !.app.on_init = "hook.js", !.app.on_shutdown = "hook.js",
                  !.app.ingestion = <<Source("kafka", <<<<"e">>>>)>>]

TwoSources ==
    [Quiet EXCEPT !.app.ingestion =
        <<Source("kafka", <<<<"e">>>>), Source("kafka", <<<<"e">>>>)>>]

(* The router refuses these, after on_init and the consumers.              *)
BadRoutes ==
    {[Quiet EXCEPT !.app.endpoints = routes, !.app.on_init = "hook.js"] :
        routes \in {<<Endpoint(<<"r">>, "TRACE", "/r", <<>>)>>,
                    <<[Endpoint(<<"r">>, "GET", "r", <<>>) EXCEPT !.path.wellformed = FALSE]>>,
                    <<Endpoint(<<"r">>, "GET", "/metrics", <<>>)>>,
                    <<Endpoint(<<"r">>, "GET", "/_", <<"a">>),
                      Endpoint(<<"s">>, "GET", "/_", <<"b">>)>>}}

Lively == {Full, TwoSources} \cup BadRoutes

-----------------------------------------------------------------------------
(* One defect each, or none at the boundary. *)

BadLimits ==
    {[Limits EXCEPT ![key] = 0] :
        key \in {"max_concurrent_requests", "pool_size", "max_bytes", "max_request_bytes"}}
    \cup {[Limits EXCEPT !.max_entity_bytes = 5], [Limits EXCEPT !.soft_limit_percent = 101]}

BadApps ==
    {[Quiet.app EXCEPT !.name = <<>>]}
    \cup {[Quiet.app EXCEPT !.limits = limits] : limits \in BadLimits}
    \cup {[Quiet.app EXCEPT !.crons = <<Cron(name, script)>>] :
             name \in {<<>>, <<"c">>}, script \in {"a.js", "none.js"}}
    \cup {[Quiet.app EXCEPT !.on_init = "none.js"]}
    \cup {[Quiet.app EXCEPT !.queries = <<[Handler(<<"q">>) EXCEPT !.handler = "none.js"]>>]}
    \cup {[Quiet.app EXCEPT !.ingestion = <<Source("kafka", topics)>>] :
             topics \in {<<>>, <<<<"unknown">>>>}}
    \cup {[Quiet.app EXCEPT !.ingestion = <<Source(type, <<>>)>>] : type \in {"http", "amqp"}}
    \cup {[Quiet.app EXCEPT !.endpoints = <<Endpoint(<<"r">>, "GET", "/r", <<>>),
                                            Endpoint(name, word, "/r", <<>>)>>] :
             name \in {<<"r">>, <<"s">>}, word \in {"", "GET"}}

Names == {<<"a">>, <<"b">>, <<"a", "b">>}

MCSchemas ==
    {<<>>, <<E, E>>, <<Entity(<<>>, <<>>)>>, <<Entity(<<"e">>, <<Index(<<>>, <<"f">>)>>)>>}
    \cup {<<Entity(<<"e">>, <<Index(<<"by">>, field)>>)>> : field \in {<<"f">>, <<"g">>}}
    \cup {<<Collection(part, order, max)>> :
             part \in {Unset, <<"f">>, <<"g">>}, order \in {Unset, <<"g">>}, max \in {0, 1}}
    \cup {<<Entity(n1, <<Index(i1, <<"f">>)>>), Entity(n2, <<Index(i2, <<"f">>)>>)>> :
             n1, n2, i1, i2 \in Names}

Static ==
    {[Quiet EXCEPT !.app = app] : app \in BadApps}
    \cup {[Quiet EXCEPT !.schema = schema] : schema \in MCSchemas}

MCBundles == Lively \cup Static

-----------------------------------------------------------------------------
(* What the code does not do, checked in configurations of their own. *)

(* mvp plan 153: "Fail fast": a bundle whose routes cannot be built has    *)
(* not run its on_init when the process gives up.                          *)
FailsFast == main = "error" /\ ~RouterBuilds(bundle.app) => "on_init" \notin ran

(* mvp plan 262: "Graceful shutdown on SIGTERM/SIGINT": a process that has *)
(* served runs on_shutdown before it ends on a signal.                     *)
SignalsRunShutdown ==
    main = "killed" /\ server # "none" => "on_shutdown" \in ran

(* x-timeline plan 256: "On shutdown: Execute on_shutdown, stop crons,     *)
(* stop ingestion, stop retention": the tasks are stopped, also when       *)
(* on_shutdown fails.                                                      *)
StopsEveryTask ==
    main \in {"ok", "error"} /\ server = "draining" => \A t \in TaskIds : task[t] \in AtRest

(* mvp plan 262: a request a client has sent is answered at a clean exit.  *)
RequestsAnswered == main = "ok" => \A r \in Requests : request[r] # "open"

(* PRD 296: "Kafka subscribed": ready means every consumer is.             *)
AllSubscribed ==
    Ready /\ server # "none" /\ stop = {} /\ KafkaConfigured =>
        \A t \in Consumers : task[t] # "none" => Consuming(t)
=============================================================================
