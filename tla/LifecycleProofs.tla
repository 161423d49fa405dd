-------------------------- MODULE LifecycleProofs --------------------------
(* Theorems about module Lifecycle, for every set of bundles and every     *)
(* number of tasks and requests.                                           *)
EXTENDS Lifecycle, SequenceTheorems, TLAPS

(* The steps of main follow one another as MainOrder lists them.           *)
LEMMA MainOrderDistinct ==
    /\ DOMAIN MainOrder = 1..13
    /\ \A i, j \in 1..13 : MainOrder[i] = MainOrder[j] => i = j
BY DEF MainOrder

LEMMA AfterNth ==
    ASSUME NEW k \in 1..12
    PROVE After(MainOrder[k]) = MainOrder[k + 1]
<1>1. k \in DOMAIN MainOrder BY MainOrderDistinct
<1> DEFINE i == CHOOSE i \in DOMAIN MainOrder : MainOrder[i] = MainOrder[k]
<1>2. i \in DOMAIN MainOrder /\ MainOrder[i] = MainOrder[k] BY <1>1
<1>3. i = k BY <1>1, <1>2, MainOrderDistinct
<1> QED BY <1>3 DEF After

LEMMA AfterEach ==
    /\ After("load") = "store" /\ After("store") = "pool"
    /\ After("pool") = "retention" /\ After("retention") = "on_init"
    /\ After("on_init") = "ingestion" /\ After("ingestion") = "crons"
    /\ After("crons") = "router" /\ After("router") = "bind"
    /\ After("bind") = "serving" /\ After("serving") = "notify"
    /\ After("notify") = "on_shutdown" /\ After("on_shutdown") = "stop"
<1>1. /\ MainOrder[1] = "load" /\ MainOrder[2] = "store" /\ MainOrder[3] = "pool"
      /\ MainOrder[4] = "retention" /\ MainOrder[5] = "on_init"
      /\ MainOrder[6] = "ingestion" /\ MainOrder[7] = "crons"
      /\ MainOrder[8] = "router" /\ MainOrder[9] = "bind" /\ MainOrder[10] = "serving"
      /\ MainOrder[11] = "notify" /\ MainOrder[12] = "on_shutdown"
      /\ MainOrder[13] = "stop"
  BY DEF MainOrder
<1>2. \A k \in 1..12 : After(MainOrder[k]) = MainOrder[k + 1] BY AfterNth
<1>3. /\ After(MainOrder[1]) = MainOrder[1 + 1] /\ After(MainOrder[2]) = MainOrder[2 + 1]
      /\ After(MainOrder[3]) = MainOrder[3 + 1] /\ After(MainOrder[4]) = MainOrder[4 + 1]
      /\ After(MainOrder[5]) = MainOrder[5 + 1] /\ After(MainOrder[6]) = MainOrder[6 + 1]
      /\ After(MainOrder[7]) = MainOrder[7 + 1] /\ After(MainOrder[8]) = MainOrder[8 + 1]
      /\ After(MainOrder[9]) = MainOrder[9 + 1] /\ After(MainOrder[10]) = MainOrder[10 + 1]
      /\ After(MainOrder[11]) = MainOrder[11 + 1] /\ After(MainOrder[12]) = MainOrder[12 + 1]
  BY <1>2
<1>4. /\ 1 + 1 = 2 /\ 2 + 1 = 3 /\ 3 + 1 = 4 /\ 4 + 1 = 5 /\ 5 + 1 = 6 /\ 6 + 1 = 7
      /\ 7 + 1 = 8 /\ 8 + 1 = 9 /\ 9 + 1 = 10 /\ 10 + 1 = 11 /\ 11 + 1 = 12 /\ 12 + 1 = 13
  OBVIOUS
<1> QED BY <1>1, <1>3, <1>4

MainSteps == {"load", "store", "pool", "retention", "on_init", "ingestion", "crons",
              "router", "bind", "serving", "notify", "on_shutdown", "stop"}

LEMMA MainOrderSteps == {MainOrder[i] : i \in DOMAIN MainOrder} = MainSteps
<1>1. \A i \in 1..13 : MainOrder[i] \in MainSteps BY DEF MainOrder, MainSteps
<1>2. \A step \in MainSteps : \E i \in 1..13 : MainOrder[i] = step
  BY DEF MainOrder, MainSteps
<1> QED BY <1>1, <1>2, MainOrderDistinct

LEMMA StopOrderEach ==
    /\ DOMAIN StopOrder = 1..3 /\ Len(StopOrder) = 3
    /\ StopOrder[1] = "cron" /\ StopOrder[2] = "ingestion" /\ StopOrder[3] = "retention"
BY DEF StopOrder

-----------------------------------------------------------------------------
(* The type invariant *)

LEMMA TypeInit == Init => TypeOK
<1> SUFFICES ASSUME Init PROVE TypeOK OBVIOUS
<1>1. bundle.app.limits.max_concurrent_requests \in Nat
  BY LifecycleAssumption DEF LifecycleAssumption, Init, Bundle, AppConfig, LimitsConfig
<1>2. main \in MainSteps BY DEF Init, MainSteps
<1>3. inflight \in [TaskIds -> 0..bundle.app.limits.max_concurrent_requests]
  BY <1>1 DEF Init
<1>4. main \in {MainOrder[i] : i \in DOMAIN MainOrder} BY <1>2, MainOrderSteps
<1>5. group \in DOMAIN StopOrder BY StopOrderEach DEF Init
<1>6. /\ health \in [config : BOOLEAN, scripts : BOOLEAN, store : BOOLEAN, kafka : BOOLEAN]
      /\ poller \in [step : {"none", "read", "write"}, seen : BOOLEAN]
      /\ task \in [TaskIds -> TaskStates]
      /\ request \in [Requests -> {"none", "open", "answered"}]
  BY DEF Init, TaskStates
<1> QED BY <1>3, <1>4, <1>5, <1>6 DEF Init, TypeOK

MainStep == Startup \/ Wake \/ Shutdown \/ Kill

LEMMA TypeOfMain ==
    ASSUME MainStep
    PROVE main' \in MainSteps \cup {"join", "clear", "return"} \cup Ended
BY AfterEach
   DEF MainStep, Startup, Shutdown, Load, CreateStore, CreatePool, SpawnRetention,
       RunOnInit, StartIngestion, SpawnCrons, BuildRouter, Bind, Wake, NotifyServers,
       RunOnShutdown, SendStop, JoinGroup, ClearFlags, Return, Kill, Proceed, Fail,
       MainSteps, Ended

LEMMA TypeMain == ASSUME TypeOK, MainStep PROVE TypeOK'
<1>0. main' \in {MainOrder[i] : i \in DOMAIN MainOrder}
                   \cup {"join", "clear", "return"} \cup Ended
  BY TypeOfMain, MainOrderSteps
<1> USE <1>0, StopOrderEach DEF TypeOK, TaskStates, Groups, TaskIds, tasks, clients
<1>1. CASE Load BY <1>1 DEF Load
<1>2. CASE CreateStore BY <1>2 DEF CreateStore
<1>3. CASE CreatePool
  <2>1. health' = [health EXCEPT !.scripts = TRUE] \/ health' = health
    BY <1>3 DEF CreatePool
  <2> QED BY <1>3, <2>1 DEF CreatePool
<1>4. CASE SpawnRetention BY <1>4 DEF SpawnRetention
<1>5. CASE RunOnInit
  <2>1. ran' \subseteq Groups \cup {"on_init", "on_shutdown", "request"}
    BY <1>5 DEF RunOnInit
  <2> QED BY <1>5, <2>1 DEF RunOnInit
<1>6. CASE StartIngestion
  <2>1. task' \in [TaskIds -> TaskStates] BY <1>6 DEF StartIngestion
  <2>2. health' \in [config : BOOLEAN, scripts : BOOLEAN, store : BOOLEAN, kafka : BOOLEAN]
    BY <1>6 DEF StartIngestion
  <2>3. poller' \in [step : {"none", "read", "write"}, seen : BOOLEAN]
    BY <1>6 DEF StartIngestion
  <2> QED BY <1>6, <2>1, <2>2, <2>3 DEF StartIngestion
<1>7. CASE SpawnCrons BY <1>7 DEF SpawnCrons
<1>8. CASE BuildRouter BY <1>8 DEF BuildRouter
<1>9. CASE Bind BY <1>9 DEF Bind
<1>10. CASE Wake BY <1>10 DEF Wake
<1>11. CASE NotifyServers BY <1>11 DEF NotifyServers
<1>12. CASE RunOnShutdown
  <2>1. ran' \subseteq Groups \cup {"on_init", "on_shutdown", "request"}
    BY <1>12 DEF RunOnShutdown
  <2> QED BY <1>12, <2>1 DEF RunOnShutdown
<1>13. CASE SendStop
  <2>1. StopOrder[group] \in Groups BY <1>13 DEF SendStop
  <2>2. stop' \subseteq Groups BY <1>13, <2>1 DEF SendStop
  <2> QED BY <1>13, <2>2 DEF SendStop
<1>14. CASE JoinGroup
  <2>1. group' \in DOMAIN StopOrder BY <1>14 DEF JoinGroup
  <2> QED BY <1>14, <2>1 DEF JoinGroup
<1>15. CASE ClearFlags BY <1>15 DEF ClearFlags
<1>16. CASE Return BY <1>16 DEF Return
<1>17. CASE Kill BY <1>17 DEF Kill
<1> QED
  BY <1>1, <1>2, <1>3, <1>4, <1>5, <1>6, <1>7, <1>8, <1>9, <1>10, <1>11, <1>12,
     <1>13, <1>14, <1>15, <1>16, <1>17 DEF MainStep, Startup, Shutdown

LEMMA TypeTask == ASSUME TypeOK, NEW t \in TaskIds, TaskNext(t) PROVE TypeOK'
<1> DEFINE Permits == bundle.app.limits.max_concurrent_requests
<1>0. Permits \in Nat
  BY LifecycleAssumption
     DEF TypeOK, LifecycleAssumption, Bundle, AppConfig, LimitsConfig
<1>t. t[1] \in Groups BY DEF TaskIds
<1> HIDE DEF Permits
<1>m. inflight \in [TaskIds -> 0..Permits] BY DEF TypeOK, Permits
<1> USE DEF TypeOK, TaskStep, TaskStates, tasks, clients
<1>1. CASE Tick(t) BY <1>1 DEF Tick
<1>2. CASE RunHandler(t) BY <1>2, <1>t DEF RunHandler
<1>3. CASE SeeStop(t) BY <1>3 DEF SeeStop
<1>4. CASE Subscribe(t) BY <1>4 DEF Subscribe
<1>5. CASE Receive(t) BY <1>5 DEF Receive
<1>6. CASE SpawnProcess(t)
  <2>1. inflight[t] + 1 \in 0..Permits BY <1>6, <1>0, <1>m DEF SpawnProcess, Permits
  <2>2. inflight' \in [TaskIds -> 0..Permits] BY <1>6, <2>1, <1>m DEF SpawnProcess
  <2>3. inflight' \in [TaskIds -> 0..bundle'.app.limits.max_concurrent_requests]
    BY <1>6, <2>2 DEF SpawnProcess, Permits
  <2> QED BY <1>6, <2>3 DEF SpawnProcess
<1>7. CASE Process(t)
  <2>1. inflight[t] - 1 \in 0..Permits BY <1>7, <1>0, <1>m DEF Process
  <2>2. inflight' \in [TaskIds -> 0..Permits] BY <1>7, <2>1, <1>m DEF Process
  <2>3. inflight' \in [TaskIds -> 0..bundle'.app.limits.max_concurrent_requests]
    BY <1>7, <2>2 DEF Process, Permits
  <2> QED BY <1>7, <2>3 DEF Process, Groups
<1> QED BY <1>1, <1>2, <1>3, <1>4, <1>5, <1>6, <1>7 DEF TaskNext

LEMMA TypeStep == TypeOK /\ [Next]_vars => TypeOK'
<1> SUFFICES ASSUME TypeOK, [Next]_vars PROVE TypeOK' OBVIOUS
<1>1. CASE MainStep BY <1>1, TypeMain
<1>2. CASE \E t \in TaskIds : TaskNext(t) BY <1>2, TypeTask
<1>3. CASE PollRead BY <1>3 DEF PollRead, TypeOK, tasks, clients
<1>4. CASE PollWrite BY <1>4 DEF PollWrite, TypeOK, tasks, clients
<1>5. CASE \E r \in Requests : OpenRequest(r) \/ AnswerRequest(r)
  BY <1>5 DEF OpenRequest, AnswerRequest, TypeOK, tasks, clients
<1>6. CASE UNCHANGED vars BY <1>6 DEF vars, TypeOK, tasks, clients
<1> QED BY <1>1, <1>2, <1>3, <1>4, <1>5, <1>6 DEF Next, MainStep

(* Every variable keeps its type, however many tasks run: a consumer never *)
(* spawns more tasks than the semaphore of run_consumer has permits.       *)
THEOREM TypeCorrect == Spec => []TypeOK
BY TypeInit, TypeStep, PTL DEF Spec

-----------------------------------------------------------------------------
(* The inductive invariant.                                                *)

Initialised == {"ingestion", "crons", "router", "bind", "serving", "notify",
                "on_shutdown", "stop", "join", "clear", "return", "ok"}

(* Whoever may run has been started after on_init.                         *)
StartedAfterInit ==
    \/ main \in Initialised
    \/ server # "none"
    \/ \E r \in Requests : request[r] = "open"
    \/ \E t \in TaskIds : task[t] # "none" /\ t[1] # "retention"
    \/ \E t \in TaskIds : inflight[t] > 0
    => "on_init" \in ran

(* Before the shutdown no group has been stopped, and no consumer exists   *)
(* before StartIngestion.                                                  *)
NothingStopped ==
    /\ main \in MainSteps \ {"stop"} => group = 1
    /\ main \in {"load", "store", "pool", "retention", "on_init", "ingestion"} =>
          \A t \in Consumers : task[t] = "none"

(* Neither the shared flag nor a copy of it is ahead of the consumers.     *)
SomeConsumes == \E t \in TaskIds : Consuming(t)
FlagsFollow ==
    /\ kafka => SomeConsumes
    /\ KafkaConfigured /\ "ingestion" \notin stop =>
          /\ health.kafka => SomeConsumes
          /\ poller.step = "write" /\ poller.seen => SomeConsumes

IInv ==
    /\ TypeOK
    /\ InitFirst
    /\ StartedAfterInit
    /\ NothingStopped
    /\ StoppedTasksRest
    /\ FlagsFollow
    /\ main \in {"return", "ok"} => ~health.store

LEMMA InvInit == Init => IInv
<1> SUFFICES ASSUME Init PROVE IInv OBVIOUS
<1>1. \A t \in TaskIds : task[t] = "none" /\ inflight[t] = 0 BY DEF Init
<1>2. Consumers \subseteq TaskIds BY DEF Consumers, TaskIds, Groups
<1>3. InitFirst /\ StartedAfterInit /\ NothingStopped
  BY <1>1, <1>2 DEF Init, InitFirst, StartedAfterInit, NothingStopped, Initialised
<1>4. StoppedTasksRest BY <1>1 DEF StoppedTasksRest, AtRest
<1>5. FlagsFollow BY DEF Init, FlagsFollow
<1>6. main \notin {"return", "ok"} BY DEF Init
<1> QED BY TypeInit, <1>3, <1>4, <1>5, <1>6 DEF IInv

(* A step of main that starts no task and stops none.                      *)
LEMMA QuietMain ==
    ASSUME IInv, Load \/ CreateStore \/ CreatePool \/ RunOnInit \/ BuildRouter \/ Bind
                 \/ Wake \/ NotifyServers \/ RunOnShutdown
    PROVE IInv'
<1> USE AfterEach DEF Proceed, Fail, tasks, clients
<1> DEFINE Step == Load \/ CreateStore \/ CreatePool \/ RunOnInit \/ BuildRouter \/ Bind
                 \/ Wake \/ NotifyServers \/ RunOnShutdown
<1>0. TypeOK' BY TypeMain DEF IInv, MainStep, Startup, Shutdown
<1>1. /\ UNCHANGED <<bundle, group, kafka, poller, task, inflight, stop, request>>
      /\ health'.kafka = health.kafka
  BY DEF Load, CreateStore, CreatePool, RunOnInit, BuildRouter, Bind, Wake,
         NotifyServers, RunOnShutdown, IInv, TypeOK
<1>2. /\ main \in MainSteps \ {"stop"}
      /\ main' \in {"error", "stop"} \cup MainSteps
      /\ main' \in Initialised => main \in Initialised \/ "on_init" \in ran'
      /\ main' \in {"load", "store", "pool", "retention", "on_init", "ingestion"} =>
            main \in {"load", "store", "pool", "retention", "on_init", "ingestion"}
  BY DEF Load, CreateStore, CreatePool, RunOnInit, BuildRouter, Bind, Wake,
         NotifyServers, RunOnShutdown, MainSteps, Initialised
<1>3. /\ ran \subseteq ran' /\ ran' \subseteq ran \cup {"on_init", "on_shutdown"}
      /\ server' # "none" => server # "none" \/ main \in Initialised
  BY DEF Load, CreateStore, CreatePool, RunOnInit, BuildRouter, Bind, Wake,
         NotifyServers, RunOnShutdown, Initialised
<1>4. InitFirst' BY <1>3 DEF IInv, InitFirst
<1>5. StartedAfterInit' BY <1>1, <1>2, <1>3 DEF IInv, StartedAfterInit
<1>6. NothingStopped'
  <2>1. group = 1 BY <1>2 DEF IInv, NothingStopped
  <2> QED BY <1>1, <1>2, <2>1 DEF IInv, NothingStopped
<1>7. StoppedTasksRest'
  BY <1>1, <1>2 DEF IInv, StoppedTasksRest, MainSteps
<1>8. FlagsFollow'
  BY <1>1 DEF IInv, FlagsFollow, SomeConsumes, Consuming, KafkaConfigured
<1>9. main' \notin {"return", "ok"} BY <1>2 DEF MainSteps
<1> QED BY <1>0, <1>4, <1>5, <1>6, <1>7, <1>8, <1>9 DEF IInv

(* A step of main that starts tasks; on_init has run if they are no sweeper.*)
LEMMA SpawnMain ==
    ASSUME IInv, SpawnRetention \/ StartIngestion \/ SpawnCrons
    PROVE IInv'
<1> USE AfterEach DEF Proceed, Fail, tasks, clients
<1>0. TypeOK' BY TypeMain DEF IInv, MainStep, Startup, Shutdown
<1>1. /\ UNCHANGED <<bundle, group, kafka, inflight, stop, server, request, ran>>
      /\ main \in {"retention", "ingestion", "crons"}
      /\ main' \in {"on_init", "crons", "router"}
      /\ main' = "on_init" => main = "retention"
      /\ main' # "on_init" => main \in Initialised
  BY DEF SpawnRetention, StartIngestion, SpawnCrons, Initialised
<1>2. \A t \in TaskIds :
         /\ task'[t] # task[t] => t[1] = "retention" \/ main \in Initialised
         /\ Consuming(t) => Consuming(t)'
  <2>1. CASE SpawnRetention
    <3>1. \A t \in TaskIds : t # <<"retention", 1>> => task'[t] = task[t]
      BY <2>1 DEF SpawnRetention, IInv, TypeOK
    <3>2. \A t \in Consumers : t # <<"retention", 1>> BY DEF Consumers
    <3> QED BY <3>1, <3>2 DEF Consuming
  <2>2. CASE StartIngestion
    <3>1. \A t \in TaskIds : ~Consuming(t)
      BY <2>2 DEF StartIngestion, IInv, NothingStopped, Consuming
    <3>2. main \in Initialised BY <2>2 DEF StartIngestion, Initialised
    <3> QED BY <3>1, <3>2
  <2>3. CASE SpawnCrons
    <3>1. \A t \in TaskIds : t[1] # "cron" => task'[t] = task[t]
      BY <2>3 DEF SpawnCrons, IInv, TypeOK
    <3>2. \A t \in Consumers : t[1] = "ingestion" BY DEF Consumers
    <3>3. main \in Initialised BY <2>3 DEF SpawnCrons, Initialised
    <3> QED BY <3>1, <3>2, <3>3 DEF Consuming
  <2> QED BY <2>1, <2>2, <2>3
<1>3. InitFirst' BY <1>1 DEF IInv, InitFirst
<1>4. StartedAfterInit' BY <1>1, <1>2 DEF IInv, StartedAfterInit, Initialised
<1>5. NothingStopped'
  <2>1. group = 1 BY <1>1 DEF IInv, NothingStopped, MainSteps
  <2>2. main' = "on_init" => \A t \in Consumers : task'[t] = "none"
    <3> SUFFICES ASSUME main' = "on_init", NEW t \in Consumers PROVE task'[t] = "none"
      OBVIOUS
    <3>1. SpawnRetention BY <1>1 DEF StartIngestion, SpawnCrons
    <3>2. t \in TaskIds /\ t # <<"retention", 1>> BY DEF Consumers, TaskIds, Groups
    <3>3. task'[t] = task[t] BY <3>1, <3>2 DEF SpawnRetention, IInv, TypeOK
    <3> QED BY <1>1, <3>3 DEF IInv, NothingStopped
  <2> QED BY <1>1, <2>1, <2>2 DEF NothingStopped
<1>6. StoppedTasksRest'
  <2>1. group' = 1 BY <1>1 DEF IInv, NothingStopped, MainSteps
  <2> QED BY <1>1, <2>1, StopOrderEach DEF StoppedTasksRest
<1>7. FlagsFollow'
  <2>1. SomeConsumes => SomeConsumes' BY <1>2 DEF SomeConsumes
  <2>2. CASE StartIngestion
    <3>1. KafkaConfigured => ~health'.kafka /\ poller'.step = "read"
      BY <2>2 DEF StartIngestion, IInv, TypeOK
    <3>2. KafkaConfigured' = KafkaConfigured BY <1>1 DEF KafkaConfigured
    <3> QED BY <1>1, <2>1, <3>1, <3>2 DEF IInv, FlagsFollow
  <2>3. CASE SpawnRetention \/ SpawnCrons
    <3>1. UNCHANGED <<health, poller>> BY <2>3 DEF SpawnRetention, SpawnCrons
    <3>2. KafkaConfigured' = KafkaConfigured BY <1>1 DEF KafkaConfigured
    <3> QED BY <1>1, <2>1, <3>1, <3>2 DEF IInv, FlagsFollow
  <2> QED BY <2>2, <2>3
<1>8. main' \notin {"return", "ok"} BY <1>1
<1> QED BY <1>0, <1>3, <1>4, <1>5, <1>6, <1>7, <1>8 DEF IInv

(* The steps of main that stop tasks and end the process.                  *)
LEMMA StopMain ==
    ASSUME IInv, SendStop \/ JoinGroup \/ ClearFlags \/ Return \/ Kill
    PROVE IInv'
<1> USE DEF tasks, clients
<1>0. TypeOK' BY TypeMain DEF IInv, MainStep, Startup, Shutdown
<1>1. /\ UNCHANGED <<bundle, poller, task, inflight, kafka, server, request, ran>>
      /\ health'.kafka => health.kafka
      /\ stop \subseteq stop'
      /\ main' \in {"join", "stop", "clear", "return", "ok", "killed"}
      /\ main' \in Initialised => main \in Initialised
  BY DEF SendStop, JoinGroup, ClearFlags, Return, Kill, Initialised, IInv, TypeOK
<1>2. InitFirst' BY <1>1 DEF IInv, InitFirst
<1>3. StartedAfterInit' BY <1>1 DEF IInv, StartedAfterInit
<1>4. NothingStopped' BY <1>1 DEF NothingStopped, MainSteps
<1>5. StoppedTasksRest'
  <2>1. CASE JoinGroup
    <3> SUFFICES ASSUME NEW t \in TaskIds, NEW i \in DOMAIN StopOrder,
                        t[1] = StopOrder[i],
                        i < group' \/ main' \in {"clear", "return", "ok"}
                 PROVE  task[t] \in AtRest
      BY <1>1 DEF StoppedTasksRest
    <3>1. group \in 1..3 /\ i \in 1..3 BY StopOrderEach DEF IInv, TypeOK
    <3>2. i < group \/ i = group BY <2>1, <3>1, StopOrderEach DEF JoinGroup
    <3>3. t = <<t[1], t[2]>> /\ t[2] \in 1..MaxTasks BY DEF TaskIds
    <3>4. CASE i = group BY <2>1, <3>3, <3>4 DEF JoinGroup
    <3>5. CASE i < group BY <3>5 DEF IInv, StoppedTasksRest
    <3> QED BY <3>2, <3>4, <3>5
  <2>2. CASE SendStop \/ ClearFlags \/ Return \/ Kill
    <3>1. /\ group' = group
          /\ main' \in {"clear", "return", "ok"} => main \in {"clear", "return", "ok"}
      BY <2>2 DEF SendStop, ClearFlags, Return, Kill
    <3> QED BY <1>1, <3>1 DEF IInv, StoppedTasksRest
  <2> QED BY <2>1, <2>2
<1>6. FlagsFollow'
  <2>1. SomeConsumes' = SomeConsumes /\ KafkaConfigured' = KafkaConfigured
    BY <1>1 DEF SomeConsumes, Consuming, KafkaConfigured
  <2> QED BY <1>1, <2>1 DEF IInv, FlagsFollow
<1>7. main' \in {"return", "ok"} => ~health'.store
  BY DEF SendStop, JoinGroup, ClearFlags, Return, Kill, IInv, TypeOK
<1> QED BY <1>0, <1>2, <1>3, <1>4, <1>5, <1>6, <1>7 DEF IInv

(* The steps of the tasks.                                                 *)
LEMMA TaskInv == ASSUME IInv, NEW t \in TaskIds, TaskNext(t) PROVE IInv'
<1> USE DEF tasks, clients
<1>0. TypeOK' BY TypeTask DEF IInv
<1>1. /\ UNCHANGED <<bundle, main, group, health, poller, stop, server, request>>
      /\ \A u \in TaskIds : u # t => task'[u] = task[u] /\ inflight'[u] = inflight[u]
      /\ task'[t] = task[t] \/ task[t] \notin AtRest
      /\ inflight'[t] > inflight[t] => task[t] # "none" /\ t \in Consumers
  BY DEF TaskNext, Tick, RunHandler, SeeStop, Subscribe, Receive, SpawnProcess, Process,
         TaskStep, AtRest, IInv, TypeOK
<1>2. /\ ran \subseteq ran' /\ ran' \subseteq ran \cup {t[1], "ingestion"}
      /\ ran' # ran => \/ task[t] # "none" /\ t[1] \in {"cron", "retention"}
                                         /\ ran' \subseteq ran \cup {t[1]}
                       \/ inflight[t] > 0
  <2>1. t[1] \in Groups /\ (t[1] = "ingestion" => t \in Consumers)
    BY DEF TaskIds, Consumers, Groups
  <2> QED
    BY <2>1 DEF TaskNext, Tick, RunHandler, SeeStop, Subscribe, Receive, SpawnProcess,
           Process, TaskStep, Groups
<1>c. Consumers = {u \in TaskIds : u[1] = "ingestion"}
  BY DEF Consumers, TaskIds, Groups
<1>3. InitFirst'
  <2>1. ran' # ran /\ t[1] # "retention" => "on_init" \in ran
    BY <1>2 DEF IInv, StartedAfterInit
  <2>2. t[1] = "retention" /\ inflight[t] > 0 => "on_init" \in ran
    BY DEF IInv, StartedAfterInit
  <2> QED BY <1>2, <2>1, <2>2 DEF IInv, InitFirst
<1>4. StartedAfterInit'
  <2>1. \A u \in TaskIds : task'[u] # "none" => task[u] # "none"
    BY <1>1 DEF AtRest
  <2>2. inflight'[t] > 0 => inflight[t] > 0 \/ inflight'[t] > inflight[t]
    <3>1. inflight[t] \in Int /\ inflight'[t] \in Int BY <1>0 DEF IInv, TypeOK
    <3> QED BY <3>1
  <2>3. \A u \in TaskIds : inflight'[u] > 0 => "on_init" \in ran
    BY <1>1, <1>c, <2>2 DEF IInv, StartedAfterInit
  <2> QED BY <1>1, <1>2, <2>1, <2>3 DEF IInv, StartedAfterInit
<1>5. NothingStopped'
  BY <1>1, <1>c DEF IInv, NothingStopped, AtRest
<1>6. StoppedTasksRest'
  BY <1>1 DEF IInv, StoppedTasksRest
<1>7. FlagsFollow'
  <2>1. CASE SeeStop(t) /\ t \in Consumers
    <3>1. ~kafka' BY <2>1 DEF SeeStop
    <3>2. "ingestion" \in stop' BY <2>1, <1>c, <1>1 DEF SeeStop
    <3> QED BY <3>1, <3>2 DEF FlagsFollow
  <2>2. CASE Subscribe(t)
    <3>1. SomeConsumes => SomeConsumes'
      <4>1. ~Consuming(t) BY <2>2 DEF Subscribe, TaskStep, Consuming
      <4> QED BY <1>1, <4>1 DEF SomeConsumes, Consuming
    <3>2. kafka' => SomeConsumes'
      <4>1. CASE TaskStep(t, "starting", "idle")
        <5>1. Consuming(t)' BY <4>1, <2>2 DEF TaskStep, Subscribe, Consuming, IInv, TypeOK
        <5> QED BY <5>1 DEF SomeConsumes
      <4>2. CASE UNCHANGED kafka BY <4>2, <3>1 DEF IInv, FlagsFollow
      <4> QED BY <2>2, <4>1, <4>2 DEF Subscribe
    <3>3. KafkaConfigured' = KafkaConfigured BY <1>1 DEF KafkaConfigured
    <3> QED BY <1>1, <3>1, <3>2, <3>3 DEF IInv, FlagsFollow
  <2>3. CASE \/ Tick(t) \/ RunHandler(t) \/ (SeeStop(t) /\ t \notin Consumers)
             \/ Receive(t) \/ SpawnProcess(t) \/ Process(t)
    <3>1. kafka' = kafka
      BY <2>3 DEF Tick, RunHandler, SeeStop, Receive, SpawnProcess, Process, IInv, TypeOK
    <3>2. Consuming(t) => Consuming(t)'
      BY <2>3 DEF Tick, RunHandler, SeeStop, Receive, SpawnProcess, Process, TaskStep,
                  Consuming, IInv, TypeOK
    <3>3. SomeConsumes => SomeConsumes' BY <1>1, <3>2 DEF SomeConsumes, Consuming
    <3>4. KafkaConfigured' = KafkaConfigured BY <1>1 DEF KafkaConfigured
    <3> QED BY <1>1, <3>1, <3>3, <3>4 DEF IInv, FlagsFollow
  <2> QED BY <2>1, <2>2, <2>3, Zenon DEF TaskNext
<1>8. main' \in {"return", "ok"} => ~health'.store BY <1>1 DEF IInv
<1> QED BY <1>0, <1>3, <1>4, <1>5, <1>6, <1>7, <1>8 DEF IInv

LEMMA PollInv == ASSUME IInv, PollRead \/ PollWrite PROVE IInv'
<1>0. TypeOK' BY TypeStep DEF IInv, Next
<1>1. /\ UNCHANGED <<bundle, main, group, task, inflight, kafka, stop, server, request, ran>>
      /\ health'.store = health.store
  BY DEF PollRead, PollWrite, tasks, clients, IInv, TypeOK
<1>2. FlagsFollow'
  <2>1. /\ SomeConsumes' = SomeConsumes /\ KafkaConfigured' = KafkaConfigured
    BY <1>1 DEF SomeConsumes, Consuming, KafkaConfigured
  <2>2. /\ health'.kafka => health.kafka \/ (poller.step = "write" /\ poller.seen)
        /\ poller'.step = "write" /\ poller'.seen => kafka
    <3>1. CASE PollRead
      <4>1. health' = health /\ poller' = [step |-> "write", seen |-> kafka]
        BY <3>1 DEF PollRead
      <4> QED BY <4>1 DEF IInv, TypeOK
    <3>2. CASE PollWrite
      <4>1. poller.step = "write" /\ poller' = [step |-> "read", seen |-> FALSE]
        BY <3>2 DEF PollWrite
      <4>2. health'.kafka = poller.seen BY <3>2 DEF PollWrite, IInv, TypeOK
      <4> QED BY <4>1, <4>2
    <3> QED BY <3>1, <3>2
  <2> QED BY <1>1, <2>1, <2>2 DEF IInv, FlagsFollow
<1>3. InitFirst' /\ StartedAfterInit' /\ NothingStopped'
  BY <1>1 DEF IInv, InitFirst, StartedAfterInit, NothingStopped
<1>4. StoppedTasksRest' BY <1>1 DEF IInv, StoppedTasksRest
<1> QED BY <1>0, <1>1, <1>2, <1>3, <1>4 DEF IInv

LEMMA ClientInv ==
    ASSUME IInv, NEW r \in Requests, OpenRequest(r) \/ AnswerRequest(r)
    PROVE IInv'
<1>0. TypeOK' BY TypeStep DEF IInv, Next
<1>1. /\ UNCHANGED <<bundle, main, group, health, poller, task, inflight, kafka, stop, server>>
      /\ \A q \in Requests : request'[q] = "open" => request[q] = "open" \/ server # "none"
      /\ ran \subseteq ran' /\ ran' \subseteq ran \cup {"request"}
      /\ ran' # ran => request[r] = "open"
  BY DEF OpenRequest, AnswerRequest, tasks, clients, IInv, TypeOK
<1>2. InitFirst' /\ StartedAfterInit' /\ NothingStopped'
  BY <1>1 DEF IInv, InitFirst, StartedAfterInit, NothingStopped
<1>3. StoppedTasksRest' BY <1>1 DEF IInv, StoppedTasksRest
<1>4. FlagsFollow'
  BY <1>1 DEF IInv, FlagsFollow, SomeConsumes, Consuming, KafkaConfigured
<1> QED BY <1>0, <1>1, <1>2, <1>3, <1>4 DEF IInv

LEMMA InvStep == IInv /\ [Next]_vars => IInv'
<1> SUFFICES ASSUME IInv, [Next]_vars PROVE IInv' OBVIOUS
<1>1. CASE UNCHANGED vars
  <2>1. TypeOK' BY TypeStep DEF IInv
  <2>2. UNCHANGED <<bundle, main, group, health, poller, task, inflight, kafka, stop, server,
                    request, ran>>
    BY <1>1 DEF vars, tasks, clients
  <2>3. InitFirst' /\ StartedAfterInit' /\ NothingStopped'
    BY <2>2 DEF IInv, InitFirst, StartedAfterInit, NothingStopped
  <2>4. StoppedTasksRest' BY <2>2 DEF IInv, StoppedTasksRest
  <2>5. FlagsFollow'
    BY <2>2 DEF IInv, FlagsFollow, SomeConsumes, Consuming, KafkaConfigured
  <2> QED BY <2>1, <2>2, <2>3, <2>4, <2>5 DEF IInv
<1> QED
  BY <1>1, QuietMain, SpawnMain, StopMain, TaskInv, PollInv, ClientInv
     DEF Next, Startup, Shutdown

LEMMA Invariance == Spec => []IInv
BY InvInit, InvStep, PTL DEF Spec

(* Nothing but the sweeper has run before on_init has succeeded.           *)
THEOREM InitComesFirst == Spec => []InitFirst
<1>1. IInv => InitFirst BY DEF IInv
<1> QED BY <1>1, Invariance, PTL

(* The groups main has stopped are at rest, however many tasks they have.  *)
THEOREM StopIsComplete == Spec => []StoppedTasksRest
<1>1. IInv => StoppedTasksRest BY DEF IInv
<1> QED BY <1>1, Invariance, PTL

(* /readyz does not claim a subscription no consumer has, however many     *)
(* consumers share the flag.                                               *)
THEOREM ReadinessIsTrue == Spec => []ReadyTellsTruth
<1>1. IInv => ReadyTellsTruth
  BY DEF IInv, ReadyTellsTruth, Ready, StartedAfterInit, FlagsFollow, SomeConsumes
<1> QED BY <1>1, Invariance, PTL

(* The poller does not make a process ready again that has cleared itself. *)
THEOREM ClearedStaysUnready == Spec => []NotReadyAgain
<1>1. IInv => NotReadyAgain BY DEF IInv, NotReadyAgain, Ready
<1> QED BY <1>1, Invariance, PTL

(* No consumer leaves the shared flag set behind it.                       *)
THEOREM FlagEndsClear == Spec => []FlagIsCleared
<1>1. IInv => FlagIsCleared
  <2> SUFFICES ASSUME IInv, group = 3, kafka PROVE FALSE BY DEF FlagIsCleared
  <2>1. PICK t \in TaskIds : Consuming(t) BY DEF IInv, FlagsFollow, SomeConsumes
  <2>2. t[1] = StopOrder[2] /\ 2 \in DOMAIN StopOrder
    BY <2>1, StopOrderEach DEF Consuming, Consumers
  <2>3. task[t] \in AtRest BY <2>2 DEF IInv, StoppedTasksRest
  <2> QED BY <2>1, <2>3 DEF Consuming, AtRest
<1> QED BY <1>1, Invariance, PTL

-----------------------------------------------------------------------------
(* The names of the indexes: those of accepted schemas without dots.       *)

(* The first and the last part of a name.                                  *)
LEMMA PartsOfNames ==
    ASSUME NEW S, NEW a \in Seq(S)
    PROVE  /\ Len(a) = 1 => a[1] \in S
           /\ Len(a) = 2 => a[1] \in S /\ a[2] \in S
<1>1. a \in [1..Len(a) -> S] /\ Len(a) \in Nat OBVIOUS
<1>2. \A i \in 1..Len(a) : a[i] \in S BY <1>1
<1>3. Len(a) = 1 => 1 \in 1..Len(a) OBVIOUS
<1>4. Len(a) = 2 => 1 \in 1..Len(a) /\ 2 \in 1..Len(a) OBVIOUS
<1> QED BY <1>2, <1>3, <1>4

(* A function on an interval is a sequence.                                *)
LEMMA FunctionIsName ==
    ASSUME NEW S, NEW n \in Nat, NEW f \in [1..n -> S]
    PROVE  f \in Seq(S) /\ Len(f) = n
<1>1. f \in Seq(S) OBVIOUS
<1>2. Len(f) \in Nat /\ DOMAIN f = 1..Len(f) BY <1>1
<1>3. DOMAIN f = 1..n OBVIOUS
<1> QED BY <1>1, <1>2, <1>3

(* An index name without dots behind an entity name without dots.          *)
LEMMA PairOfNames ==
    ASSUME NEW a \in Name, NEW b \in Name, Len(a) = 1, Len(b) = 1
    PROVE  /\ a \o b \in Name /\ Len(a \o b) = 2
           /\ (a \o b)[1] = a[1] /\ (a \o b)[2] = b[1]
<1>1. a \in Seq(STRING) /\ b \in Seq(STRING) BY DEF Name
<1>2. a \o b \in Seq(STRING) /\ Len(a \o b) = Len(a) + Len(b)
      /\ \A i \in 1..Len(a) + Len(b) :
            (a \o b)[i] = IF i <= Len(a) THEN a[i] ELSE b[i - Len(a)]
  BY <1>1, ConcatProperties
<1>3. Len(a \o b) = 2 BY <1>2
<1>4. (a \o b)[1] = a[1] BY <1>2
<1>5. (a \o b)[2] = b[1]
  <2>1. 2 \in 1..Len(a) + Len(b) /\ 2 - Len(a) = 1 /\ ~(2 <= Len(a)) OBVIOUS
  <2> QED BY <1>2, <2>1
<1> QED BY <1>2, <1>3, <1>4, <1>5 DEF Name

(* A name is its parts, and one of one part is that part.                  *)
LEMMA SameName ==
    ASSUME NEW a \in Name, NEW b \in Name, Len(a) = 1, Len(b) = 1, a[1] = b[1]
    PROVE  a = b
<1>1. /\ a \in [1..1 -> STRING] /\ b \in [1..1 -> STRING]
  BY DEF Name
<1>2. \A i \in 1..1 : a[i] = b[i] BY <1>1
<1> QED BY <1>1, <1>2

(* The last part of an internal name is what resolve_index_name compares.  *)
LEMMA SuffixOfPair ==
    ASSUME NEW s \in Name, NEW n \in Name, Len(s) = 1, Len(n) = 2
    PROVE  IsStrictSuffix(s, n) <=> s[1] = n[2]
<1> DEFINE rs == [i \in 1..1 |-> s[(1 - i) + 1]]
           rn == [i \in 1..2 |-> n[(2 - i) + 1]]
<1>1. Reverse(s) = rs /\ Reverse(n) = rn BY DEF Reverse
<1>2. s[1] \in STRING /\ n[1] \in STRING /\ n[2] \in STRING
  BY PartsOfNames DEF Name
<1>3. rs[1] = s[1] /\ rn[1] = n[2] /\ rn[2] = n[1] OBVIOUS
<1>4. rs \in Seq(STRING) /\ rn \in Seq(STRING) /\ Len(rs) = 1 /\ Len(rn) = 2
  <2>1. \A i \in 1..2 : (2 - i) + 1 \in 1..2 OBVIOUS
  <2>2. \A i \in 1..2 : n[i] \in STRING BY <1>2
  <2>3. rn \in [1..2 -> STRING] BY <2>1, <2>2
  <2>4. rs \in [1..1 -> STRING] BY <1>2
  <2> HIDE DEF rs, rn
  <2>5. rs \in Seq(STRING) /\ Len(rs) = 1 BY <2>4, FunctionIsName
  <2>6. rn \in Seq(STRING) /\ Len(rn) = 2 BY <2>3, FunctionIsName
  <2> QED BY <2>5, <2>6
<1> HIDE DEF rs, rn
<1>5. SubSeq(rs, 1, 1) = [i \in 1..1 |-> rs[i]] /\ SubSeq(rn, 1, 1) = [i \in 1..1 |-> rn[i]]
  BY <1>4
<1>6. SubSeq(rs, 1, 1) = SubSeq(rn, 1, 1) <=> rs[1] = rn[1]
  <2> DEFINE f == [i \in 1..1 |-> rs[i]]
             g == [i \in 1..1 |-> rn[i]]
  <2>1. f[1] = rs[1] /\ g[1] = rn[1] OBVIOUS
  <2>2. rs[1] = rn[1] => f = g
    <3>1. rs[1] = rn[1] => \A i \in 1..1 : rs[i] = rn[i] OBVIOUS
    <3> QED BY <3>1
  <2> QED BY <1>5, <2>1, <2>2
<1>7. s # n OBVIOUS
<1> QED BY <1>1, <1>3, <1>4, <1>6, <1>7 DEF IsStrictSuffix, IsSuffix, IsPrefix

(* validate_schema makes the internal names distinct; resolve_index_name   *)
(* finds each of them, and a bare name that one entity alone declares.     *)
LEMMA NamesResolve ==
    ASSUME NEW schema \in Seq(EntitySchema), ValidSchema(schema),
           \A d \in DeclaredIndexes(schema) :
               /\ Len(schema[d[1]].name) = 1
               /\ Len(schema[d[1]].indexes[d[2]].name) = 1,
           NEW d \in DeclaredIndexes(schema)
    PROVE  LET bare(e) == schema[e[1]].indexes[e[2]].name
               same == {e \in DeclaredIndexes(schema) : bare(e) = bare(d)}
           IN /\ \A e \in DeclaredIndexes(schema) :
                    InternalName(schema, d) = InternalName(schema, e) => d = e
              /\ Resolve(schema, InternalName(schema, d)) = {InternalName(schema, d)}
              /\ Resolve(schema, bare(d)) =
                    IF same = {d} THEN {InternalName(schema, d)} ELSE {}
<1> DEFINE declared == DeclaredIndexes(schema)
           entity(e) == schema[e[1]].name
           bare(e) == schema[e[1]].indexes[e[2]].name
           full(e) == InternalName(schema, e)
           same == {e \in declared : bare(e) = bare(d)}
           matches == {n \in IndexDefs(schema) : IsStrictSuffix(bare(d), n)}
<1>0. d \in declared OBVIOUS
<1>1. \A e \in declared :
          /\ e = <<e[1], e[2]>> /\ e[1] \in DOMAIN schema
          /\ e[2] \in DOMAIN schema[e[1]].indexes
          /\ schema[e[1]] \in EntitySchema
  BY DEF DeclaredIndexes
<1>2. \A e \in declared : entity(e) \in Name /\ bare(e) \in Name
                          /\ Len(entity(e)) = 1 /\ Len(bare(e)) = 1
  <2> SUFFICES ASSUME NEW e \in declared
               PROVE  /\ entity(e) \in Name /\ bare(e) \in Name
                      /\ Len(entity(e)) = 1 /\ Len(bare(e)) = 1
    OBVIOUS
  <2>1. Len(entity(e)) = 1 /\ Len(bare(e)) = 1 OBVIOUS
  <2>2. entity(e) \in Name BY <1>1 DEF EntitySchema
  <2>3. schema[e[1]].indexes \in Seq([name : Name, field : Name])
    BY <1>1 DEF EntitySchema
  <2>4. e[2] \in 1..Len(schema[e[1]].indexes) BY <1>1, <2>3
  <2>5. schema[e[1]].indexes[e[2]] \in [name : Name, field : Name]
    BY <2>3, <2>4, ElementOfSeq
  <2>6. bare(e) \in Name BY <2>5
  <2> QED BY <2>1, <2>2, <2>6
<1>3. \A e \in declared : /\ full(e) \in Name /\ Len(full(e)) = 2
                          /\ full(e)[1] = entity(e)[1] /\ full(e)[2] = bare(e)[1]
  BY <1>2, PairOfNames DEF InternalName
<1>4. \A e \in declared : entity(e) = entity(d) /\ bare(e) = bare(d) => e = d
  <2> SUFFICES ASSUME NEW e \in declared, entity(e) = entity(d), bare(e) = bare(d)
               PROVE  e = d
    OBVIOUS
  <2>1. e[1] = d[1] BY <1>1 DEF ValidSchema, WellNamed
  <2>2. WellNamed(schema[d[1]].indexes) BY <1>1 DEF ValidSchema, ValidEntity
  <2>3. e[2] = d[2] BY <1>1, <2>1, <2>2 DEF WellNamed
  <2> QED BY <1>1, <2>1, <2>3
<1>5. \A e \in declared : full(d) = full(e) => d = e
  <2> SUFFICES ASSUME NEW e \in declared, full(d) = full(e) PROVE d = e OBVIOUS
  <2>1. entity(d)[1] = entity(e)[1] /\ bare(d)[1] = bare(e)[1] BY <1>3
  <2>2. entity(d) = entity(e) /\ bare(d) = bare(e)
    <3> HIDE DEF entity, bare, declared
    <3> QED BY <1>0, <1>2, <2>1, SameName
  <2> QED BY <1>4, <2>2
<1>6. IndexDefs(schema) = {full(e) : e \in declared} BY DEF IndexDefs
<1>7. bare(d) \notin IndexDefs(schema) BY <1>2, <1>3, <1>6
<1>8. \A e \in declared : IsStrictSuffix(bare(d), full(e)) <=> bare(e) = bare(d)
  <2> SUFFICES ASSUME NEW e \in declared
               PROVE  IsStrictSuffix(bare(d), full(e)) <=> bare(e) = bare(d)
    OBVIOUS
  <2> HIDE DEF bare, full, entity, declared
  <2>1. IsStrictSuffix(bare(d), full(e)) <=> bare(d)[1] = full(e)[2]
    BY <1>0, <1>2, <1>3, SuffixOfPair
  <2>2. bare(d)[1] = bare(e)[1] => bare(e) = bare(d)
    BY <1>0, <1>2, SameName
  <2> QED BY <1>0, <1>3, <2>1, <2>2
<1>9. matches = {full(e) : e \in same}
  <2> HIDE DEF bare, full, entity, declared
  <2> QED BY <1>6, <1>8
<1>10. Resolve(schema, full(d)) = {full(d)}
  BY <1>6 DEF Resolve
<1>11. Resolve(schema, bare(d)) = IF \E n \in matches : matches = {n} THEN matches ELSE {}
  BY <1>7 DEF Resolve
<1>12. (\E n \in matches : matches = {n}) <=> same = {d}
  <2> HIDE DEF bare, full, entity, matches, declared
  <2>1. d \in same BY <1>0
  <2>2. \A e \in same : e \in declared OBVIOUS
  <2> HIDE DEF same
  <2>3. \A e \in same : full(e) \in matches BY <1>9
  <2>4. ASSUME NEW n \in matches, matches = {n} PROVE \A e \in same : e = d
    <3> TAKE e \in same
    <3>1. full(e) = full(d) BY <2>1, <2>3, <2>4
    <3>2. e \in declared BY <2>2
    <3> QED BY <1>5, <3>1, <3>2
  <2>5. same = {d} => matches = {full(d)} BY <1>9
  <2> QED BY <2>1, <2>4, <2>5
<1>13. same = {d} => matches = {full(d)}
  <2> HIDE DEF bare, full, entity, matches, declared, same
  <2> QED BY <1>9
<1> HIDE DEF matches
<1>14. Resolve(schema, bare(d)) = IF same = {d} THEN {full(d)} ELSE {}
  BY <1>11, <1>12, <1>13
<1> QED BY <1>5, <1>10, <1>14

(* A bundle that main has gone on with is one that validate has accepted.  *)
Accepted == TypeOK /\ (main \in {"store", "pool"} => Valid(bundle))

(* main has not looked at the bundle yet.                                  *)
LEMMA AcceptedInit == Init => Accepted
BY TypeInit DEF Init, Accepted

(* main comes to the store only behind validate, and the bundle stays.     *)
LEMMA AcceptedStep == Accepted /\ [Next]_vars => Accepted'
<1> SUFFICES ASSUME Accepted, [Next]_vars PROVE Accepted' OBVIOUS
<1>1. TypeOK' BY TypeStep DEF Accepted
<1>2. CASE MainStep
  <2>1. main' \in {"store", "pool"} => main = "store" \/ Valid(bundle)
    BY <1>2, AfterEach
       DEF MainStep, Startup, Shutdown, Load, CreateStore, CreatePool, SpawnRetention,
           RunOnInit, StartIngestion, SpawnCrons, BuildRouter, Bind, Wake, NotifyServers,
           RunOnShutdown, SendStop, JoinGroup, ClearFlags, Return, Kill, Proceed, Fail
  <2>2. bundle' = bundle
    BY <1>2
       DEF MainStep, Startup, Shutdown, Load, CreateStore, CreatePool, SpawnRetention,
           RunOnInit, StartIngestion, SpawnCrons, BuildRouter, Bind, Wake, NotifyServers,
           RunOnShutdown, SendStop, JoinGroup, ClearFlags, Return, Kill
  <2> QED BY <1>1, <2>1, <2>2 DEF Accepted
<1>3. CASE UNCHANGED <<main, bundle>> BY <1>1, <1>3 DEF Accepted
<1>4. CASE ~MainStep
  <2>1. UNCHANGED <<main, bundle>>
    BY <1>4 DEF Next, MainStep, TaskNext, Tick, RunHandler, SeeStop, Subscribe, Receive,
                SpawnProcess, Process, TaskStep, PollRead, PollWrite, OpenRequest,
                AnswerRequest, vars
  <2> QED BY <1>3, <2>1
<1> QED BY <1>2, <1>4

(* Every index of an accepted schema without dotted names can be looked up *)
(* under its internal name, and under its own when that is unambiguous,    *)
(* however many entities and indexes the schema declares.                  *)
THEOREM IndexNamesResolve == Spec => []PlainNamesResolve
<1>1. Accepted => PlainNamesResolve
  <2> SUFFICES ASSUME Accepted, main = "store",
                      \A d \in DeclaredIndexes(bundle.schema) :
                          /\ Len(bundle.schema[d[1]].name) = 1
                          /\ Len(bundle.schema[d[1]].indexes[d[2]].name) = 1
               PROVE  PlainNamesResolve
    BY DEF PlainNamesResolve
  <2>1. bundle.schema \in Seq(EntitySchema) /\ ValidSchema(bundle.schema)
    BY LifecycleAssumption
       DEF LifecycleAssumption, Accepted, TypeOK, Bundle, Valid
  <2> QED BY <2>1, NamesResolve DEF PlainNamesResolve
<1>2. Spec => []Accepted BY AcceptedInit, AcceptedStep, PTL DEF Spec
<1> QED BY <1>1, <1>2, PTL

(* No script that JsRuntimePool::new reads is missing: validate has seen   *)
(* each file app.yaml names, whichever list names it, and the ingest       *)
(* script, which validate does not see, is read only when it is there.     *)
(* That a file which is there can be read as UTF-8 is not claimed.         *)
THEOREM NoScriptMissing ==
    Spec => [](main = "pool" => ScriptsRead(bundle.app) \subseteq Files)
<1>1. Accepted => (main = "pool" => ScriptsRead(bundle.app) \subseteq Files)
  <2> SUFFICES ASSUME Accepted, main = "pool"
               PROVE  ScriptsRead(bundle.app) \subseteq Files
    OBVIOUS
  <2> DEFINE app == bundle.app
  <2>1. ValidApp(app) BY DEF Accepted, Valid
  <2>2. Handlers(app.endpoints) \subseteq Files
    BY <2>1 DEF ValidApp, ValidEndpoints, Handlers, ScriptPresent
  <2>3. Handlers(app.queries) \subseteq Files
    BY <2>1 DEF ValidApp, ValidQueries, Handlers, ScriptPresent
  <2>4. Handlers(app.crons) \subseteq Files
    BY <2>1 DEF ValidApp, ValidCrons, Handlers, ScriptPresent
  <2>5. {app.on_init, app.on_shutdown} \ {NoScript} \subseteq Files
    BY <2>1 DEF ValidApp, ValidHook, ScriptPresent
  <2> QED BY <2>2, <2>3, <2>4, <2>5 DEF ScriptsRead
<1>2. Spec => []Accepted BY AcceptedInit, AcceptedStep, PTL DEF Spec
<1> QED BY <1>1, <1>2, PTL

=============================================================================
