---------------------------- MODULE Configuration ----------------------------
(***************************************************************************)
(* What LoadedConfig::validate of src/config/mod.rs accepts, and what the  *)
(* runtime makes of an accepted bundle: the scripts of the JS pool, the    *)
(* routes of the HTTP router and the names of the indexes.                 *)
(*                                                                         *)
(* A bundle is a record with the keys of app.yaml and schema.yaml.  A name *)
(* is the sequence of its parts between dots, the empty sequence a blank   *)
(* one; a method is a word, which is compared in upper case, and whether   *)
(* blanks surround it; a path is its shape, the names of its parameters,   *)
(* and whether it is one axum knows how to read.                           *)
(***************************************************************************)
EXTENDS Integers, Sequences, SequencesExt

CONSTANTS
    Files,    \* script paths under which the bundle has a file
    NoScript, \* the path of a hook that is not configured
    Unset     \* an optional key of an entity that is left out

-----------------------------------------------------------------------------
(* What serde makes of the two files: the keys that are read, all others   *)
(* being left out.                                                         *)

Name == Seq(STRING)

LimitsConfig ==
    [max_concurrent_requests : Nat, pool_size : Nat, max_cpu_ms_per_request : Nat,
     max_bytes : Nat, max_request_bytes : Nat, max_response_bytes : Nat,
     max_entity_bytes : Nat, soft_limit_percent : 0..255]

EndpointConfig ==
    [name : Name, method : [word : STRING, padded : BOOLEAN],
     path : [shape : STRING, params : Seq(STRING), wellformed : BOOLEAN],
     handler : STRING]
QueryConfig == [name : Name, handler : STRING]
CronConfig == [name : Name, interval_seconds : Nat, handler : STRING]
IngestionSource == [type : STRING, topics : Seq([entity : Name])]

AppConfig ==
    [name : Name, version : Name, limits : LimitsConfig,
     endpoints : Seq(EndpointConfig), queries : Seq(QueryConfig), crons : Seq(CronConfig),
     on_init : {NoScript} \cup STRING, on_shutdown : {NoScript} \cup STRING,
     ingestion : Seq(IngestionSource), enable_execute : BOOLEAN]

EntitySchema ==
    [name : Name, primary_key : Name, fields : Seq([name : Name]),
     entity_type : {"record", "collection"}, indexes : Seq([name : Name, field : Name]),
     partition_key : {Unset} \cup Name, order_by : {Unset} \cup Name,
     max_per_partition : {Unset} \cup Nat]

Bundle == [app : AppConfig, schema : Seq(EntitySchema)]

-----------------------------------------------------------------------------
Blank(name) == name = <<>>
FieldNames(list) == {list[i].name : i \in DOMAIN list}

(* Every entry has a name, and no two have the same.                       *)
WellNamed(list) ==
    /\ \A i \in DOMAIN list : ~Blank(list[i].name)
    /\ \A i, j \in DOMAIN list : list[i].name = list[j].name => i = j

ScriptPresent(path) == path \in Files

-----------------------------------------------------------------------------
(* LoadedConfig::validate_app *)

LimitsSane(limits) ==
    /\ limits.max_concurrent_requests > 0
    /\ limits.pool_size > 0
    /\ limits.max_cpu_ms_per_request > 0
    /\ limits.max_bytes > 0
    /\ limits.max_request_bytes > 0
    /\ limits.max_response_bytes > 0
    /\ limits.max_entity_bytes <= limits.max_bytes
    /\ limits.soft_limit_percent <= 100

ValidEndpoints(endpoints) ==
    /\ WellNamed(endpoints)
    /\ \A i \in DOMAIN endpoints :
          /\ endpoints[i].method.word # ""
          /\ endpoints[i].path.shape # ""
          /\ ScriptPresent(endpoints[i].handler)
    /\ \A i, j \in DOMAIN endpoints :
          /\ endpoints[i].method.word = endpoints[j].method.word
          /\ endpoints[i].path = endpoints[j].path
          => i = j

ValidQueries(queries) ==
    /\ WellNamed(queries)
    /\ \A i \in DOMAIN queries : ScriptPresent(queries[i].handler)

ValidCrons(crons) ==
    /\ WellNamed(crons)
    /\ \A i \in DOMAIN crons :
          crons[i].interval_seconds > 0 /\ ScriptPresent(crons[i].handler)

ValidHook(path) == path = NoScript \/ ScriptPresent(path)

IsKafka(source) == source.type = "kafka"

ValidIngestion(sources) ==
    \A i \in DOMAIN sources :
        /\ sources[i].type \in {"kafka", "http"}
        /\ IsKafka(sources[i]) => sources[i].topics # <<>>

ValidApp(app) ==
    /\ ~Blank(app.name) /\ ~Blank(app.version)
    /\ LimitsSane(app.limits)
    /\ ValidEndpoints(app.endpoints)
    /\ ValidQueries(app.queries)
    /\ ValidCrons(app.crons)
    /\ ValidHook(app.on_init) /\ ValidHook(app.on_shutdown)
    /\ ValidIngestion(app.ingestion)

-----------------------------------------------------------------------------
(* LoadedConfig::validate_schema, validate_cross_references *)

ValidCollection(entity, known) ==
    /\ entity.partition_key \in known
    /\ entity.order_by \in known \cup {Unset}
    /\ entity.max_per_partition # 0

ValidEntity(entity) ==
    LET known == FieldNames(entity.fields) \cup {entity.primary_key} IN
    /\ ~Blank(entity.primary_key)
    /\ WellNamed(entity.fields)
    /\ entity.entity_type = "collection" => ValidCollection(entity, known)
    /\ WellNamed(entity.indexes)
    /\ \A i \in DOMAIN entity.indexes : entity.indexes[i].field \in known

ValidSchema(schema) ==
    /\ schema # <<>>
    /\ WellNamed(schema)
    /\ \A i \in DOMAIN schema : ValidEntity(schema[i])

CrossReferencesHold(bundle) ==
    \A i \in DOMAIN bundle.app.ingestion :
        LET topics == bundle.app.ingestion[i].topics IN
        \A j \in DOMAIN topics : topics[j].entity \in FieldNames(bundle.schema)

Valid(bundle) ==
    ValidApp(bundle.app) /\ ValidSchema(bundle.schema) /\ CrossReferencesHold(bundle)

-----------------------------------------------------------------------------
(* JsRuntimePool::new: the files it reads.  validate does not look for the*)
(* ingest script, which is read when it is there.                          *)

IngestScript == "scripts/on_ingest.js"

Handlers(list) == {list[i].handler : i \in DOMAIN list}
ScriptsRead(app) ==
    Handlers(app.endpoints) \cup Handlers(app.queries) \cup Handlers(app.crons)
        \cup ({app.on_init, app.on_shutdown} \ {NoScript})
        \cup ({IngestScript} \cap Files)

-----------------------------------------------------------------------------
(* build_router: method_filter refuses words it does not know, and blanks  *)
(* around them; axum panics on a route it has already, on two paths that   *)
(* differ in nothing but the names of their parameters, and on a path that *)
(* does not start with '/' or is malformed.                                *)

KnownMethods == {"GET", "POST", "PUT", "PATCH", "DELETE", "HEAD", "OPTIONS"}
MethodFilter(method) == ~method.padded /\ method.word \in KnownMethods

OwnRoutes(app) ==
    {"/healthz", "/readyz", "/metrics"}
        \cup (IF app.enable_execute THEN {"/admin/execute"} ELSE {})

RoutesClash(app, i, j) ==
    LET a == app.endpoints[i]
        b == app.endpoints[j]
    IN /\ i # j
       /\ a.path.shape = b.path.shape
       /\ a.path # b.path \/ a.method.word = b.method.word

RouterBuilds(app) ==
    \A i \in DOMAIN app.endpoints :
        /\ MethodFilter(app.endpoints[i].method)
        /\ app.endpoints[i].path.wellformed
        /\ app.endpoints[i].method.word = "GET"
              => app.endpoints[i].path.shape \notin OwnRoutes(app)
        /\ \A j \in DOMAIN app.endpoints : ~RoutesClash(app, i, j)

-----------------------------------------------------------------------------
(* Store::new: index definitions are kept under "<entity>.<index>", for    *)
(* record entities only.  resolve_index_name: that name, or the end of one *)
(* such name and no other.                                                 *)

DeclaredIndexes(schema) ==
    UNION {{i} \X DOMAIN schema[i].indexes :
              i \in {k \in DOMAIN schema : schema[k].entity_type = "record"}}

InternalName(schema, d) == schema[d[1]].name \o schema[d[1]].indexes[d[2]].name
IndexDefs(schema) == {InternalName(schema, d) : d \in DeclaredIndexes(schema)}

\* Mutant: any one of the matching names.
ResolveAny(schema, name) ==
    IF name \in IndexDefs(schema) THEN {name}
    ELSE LET matches == {n \in IndexDefs(schema) : IsStrictSuffix(name, n)}
         IN IF matches = {} THEN {} ELSE {CHOOSE n \in matches : TRUE}

Resolve(schema, name) ==
    IF name \in IndexDefs(schema) THEN {name}
    ELSE LET matches == {n \in IndexDefs(schema) : IsStrictSuffix(name, n)}
         IN IF \E n \in matches : matches = {n} THEN matches ELSE {}

=============================================================================
