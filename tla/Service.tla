------------------------------ MODULE Service ------------------------------
(***************************************************************************)
(* The life of one pod: internal/config/config.go, internal/health, the    *)
(* main function of each service up to its loop, and the kubelet that      *)
(* probes it as the manifests in k8s say.                                  *)
(*                                                                         *)
(* The process loads its configuration, checks it, starts its HTTP server  *)
(* in a goroutine and runs until a signal ends it.  A main function is     *)
(* described by what it asks for and what it serves.  The loops have       *)
(* modules of their own.                                                   *)
(***************************************************************************)
EXTENDS Integers, Sequences

CONSTANTS
    Unset,         \* an environment variable that is not set, or empty
    NotANumber,    \* a value of a numeric variable that strconv does not parse
    Files,         \* what CONFIG_PATH may lead to
    Environments,  \* service -> environments its pod may be given
    Threshold,     \* failureThreshold of the liveness probe
    Faults,        \* the kinds of fault the environment may inject
    MaxFaults      \* bound: faults in one behaviour

FaultKinds == {"no_database", "port_taken", "slow_start", "crash", "sigterm"}

-----------------------------------------------------------------------------
\* The main functions.

HealthRoutes == {"/healthz", "/readyz", "/livez"}

FraudMain ==
    [needs |-> {"KAFKA_BROKERS"}, pool |-> FALSE, port |-> 8081,
     routes |-> HealthRoutes, graceful |-> TRUE]

AuthorizationMain ==
    [needs |-> {"KAFKA_BROKERS", "REDIS_ADDR"}, pool |-> FALSE, port |-> 8083,
     routes |-> HealthRoutes, graceful |-> TRUE]

LedgerMain ==
    [needs |-> {"KAFKA_BROKERS", "DATABASE_HOST"}, pool |-> TRUE, port |-> 8084,
     routes |-> HealthRoutes, graceful |-> TRUE]

\* These two serve their API on the port, end if they cannot, and leave
\* SIGTERM to its default.
NotificationMain ==
    [needs |-> {"KAFKA_BROKERS", "REDIS_ADDR"}, pool |-> FALSE, port |-> 8082,
     routes |-> {"/metrics", "/health", "/notifications/send"}, graceful |-> FALSE]

GatewayMain ==
    [needs |-> {"KAFKA_BROKERS"}, pool |-> FALSE, port |-> 8080,
     routes |-> {"/metrics", "/api/v1/transactions", "/api/v1/transfers", "/api/v1/health"},
     graceful |-> FALSE]

Main ==
    [fraud |-> FraudMain, authorization |-> AuthorizationMain, ledger |-> LedgerMain,
     notification |-> NotificationMain, gateway |-> GatewayMain]

-----------------------------------------------------------------------------
\* The configuration: its fields, named by the variables that override them.

NumberFields ==
    {"APP_PORT", "DATABASE_PORT", "DATABASE_MAX_OPEN_CONNS", "DATABASE_MAX_IDLE_CONNS",
     "DATABASE_CONN_MAX_LIFETIME_SEC", "DATABASE_CONN_MAX_IDLE_TIME_SEC", "REDIS_DB",
     "REDIS_POOL_SIZE", "OTEL_SAMPLE_RATE"}

ListFields == {"KAFKA_BROKERS"}

BoolFields == {"OTEL_ENABLED"}

\* The topics and their names where nothing else is said.
DefaultTopic ==
    [KAFKA_TOPIC_TRANSACTIONS_PENDING    |-> "transactions.pending",
     KAFKA_TOPIC_TRANSACTIONS_AUTHORIZED |-> "transactions.authorized",
     KAFKA_TOPIC_TRANSACTIONS_SETTLED    |-> "transactions.settled",
     KAFKA_TOPIC_TRANSACTIONS_FAILED     |-> "transactions.failed",
     KAFKA_TOPIC_TRANSACTIONS_REVERSED   |-> "transactions.reversed",
     KAFKA_TOPIC_FRAUD_EVENTS            |-> "fraud.events",
     KAFKA_TOPIC_AUDIT_LOG               |-> "audit.log",
     KAFKA_TOPIC_NOTIFICATIONS_OUTBOX    |-> "notifications.outbox",
     KAFKA_TOPIC_NOTIFICATIONS_SENT      |-> "notifications.sent",
     KAFKA_TOPIC_NOTIFICATIONS_FAILED    |-> "notifications.failed"]

StringFields ==
    {"APP_NAME", "APP_ENV", "APP_METRICS", "KAFKA_CONSUMER_GROUP", "DATABASE_HOST",
     "DATABASE_USER", "DATABASE_PASSWORD", "DATABASE_NAME", "REDIS_ADDR",
     "REDIS_PASSWORD", "OTEL_COLLECTOR_URL", "AVRO_SCHEMAS_DIR"} \cup DOMAIN DefaultTopic

Fields == NumberFields \cup ListFields \cup BoolFields \cup StringFields

\* var cfg Config
Zero ==
    [f \in Fields |-> CASE f \in NumberFields -> 0 [] f \in ListFields -> <<>>
                        [] f \in BoolFields -> FALSE [] OTHER -> ""]

\* splitCSV: an item may be blank, and is left out.
SplitCSV(items) == SelectSeq(items, LAMBDA item : item # "")

\* Mutant: the file has the last word.
FileOverrides(cfg, env) ==
    [f \in Fields |->
        IF env[f] \in {Unset, NotANumber} \/ cfg[f] # Zero[f] THEN cfg[f]
        ELSE IF f \in ListFields THEN SplitCSV(env[f])
        ELSE env[f]]

\* applyEnvOverrides: what is set and parses replaces what the file said, a
\* list of blanks too.
Overridden(cfg, env) ==
    [f \in Fields |->
        IF env[f] \in {Unset, NotANumber} THEN cfg[f]
        ELSE IF f \in ListFields THEN SplitCSV(env[f])
        ELSE env[f]]

\* TopicsConfig.Defaults
WithTopics(cfg) ==
    [f \in Fields |-> IF f \in DOMAIN DefaultTopic /\ cfg[f] = "" THEN DefaultTopic[f] ELSE cfg[f]]

\* Load fails on a file that is there and cannot be read or parsed.
Loads(file) == file.is \in {"unset", "missing", "yaml"}

Load(file, env) ==
    WithTopics(Overridden(IF file.is = "yaml" THEN file.fields ELSE Zero, env))

\* What main asks for after Load, or log.Fatalf.
Accepts(main, cfg) == \A f \in main.needs : cfg[f] # Zero[f]

Port(main, cfg) == IF cfg["APP_PORT"] = 0 THEN main.port ELSE cfg["APP_PORT"]

-----------------------------------------------------------------------------
VARIABLES
    service,    \* whose pod it is
    file, env,  \* what it is configured with
    config,     \* cfg, once it is loaded
    pc,         \* where main is
    server,     \* the HTTP server's goroutine
    ready,      \* Server.ready
    healthy,    \* Server.healthy
    signalled,  \* SIGTERM was sent
    answer,     \* what the process answered to the readiness probe under way
    endpoint,   \* the kubelet's view: the pod is ready
    failures,   \* failures of the liveness probe in a row
    killed,     \* history: the kubelet restarted the container over its probe
    faults,     \* history: number of faults so far
    happened    \* history: their kinds

given     == <<service, file, env>>
process   == <<config, pc, server, ready, healthy, signalled>>
kubelet   == <<answer, endpoint, failures, killed>>
faultVars == <<faults, happened>>
vars == <<given, process, kubelet, faultVars>>

ASSUME ConstantsAssumption ==
    /\ Threshold \in Nat \ {0} /\ MaxFaults \in Nat
    /\ Faults \subseteq FaultKinds

main == Main[service]

\* What a process starts with; New has not been called.
Fresh ==
    /\ config' = Zero /\ pc' = "load" /\ server' = "none"
    /\ ready' = FALSE /\ healthy' = FALSE /\ signalled' = FALSE

Init ==
    /\ service \in DOMAIN Main
    /\ file \in Files
    /\ env \in Environments[service]
    /\ config = Zero /\ pc = "load" /\ server = "none"
    /\ ready = FALSE /\ healthy = FALSE /\ signalled = FALSE
    /\ answer = "none" /\ endpoint = FALSE /\ failures = 0 /\ killed = FALSE
    /\ faults = 0 /\ happened = {}

Fault(kind) ==
    /\ kind \in Faults
    /\ faults < MaxFaults
    /\ faults' = faults + 1
    /\ happened' = happened \cup {kind}

NoFault == UNCHANGED faultVars

-----------------------------------------------------------------------------
\* The process.

\* It ends, and its server with it.
Exit ==
    /\ pc' = "down"
    /\ server' = "none"
    /\ UNCHANGED <<config, ready, healthy, signalled>>

\* config.Load and the checks that follow, each ending in log.Fatalf.
LoadConfig ==
    /\ pc = "load"
    /\ IF Loads(file) /\ Accepts(main, Load(file, env))
       THEN /\ config' = Load(file, env)
            /\ pc' = IF main.pool THEN "connect" ELSE "serve"
            /\ UNCHANGED <<server, ready, healthy, signalled>>
       ELSE Exit
    /\ NoFault
    /\ UNCHANGED <<given, kubelet>>

\* db.NewPoolFromConfig, or log.Fatalf.
Connect ==
    /\ pc = "connect"
    /\ \/ pc' = "serve" /\ NoFault /\ UNCHANGED <<config, server, ready, healthy, signalled>>
       \/ Fault("no_database") /\ Exit
    /\ UNCHANGED <<given, kubelet>>

\* Mutant: New leaves healthy as it is.
ServeUnhealthy ==
    /\ pc = "serve"
    /\ server' = "starting"
    /\ pc' = IF main.graceful THEN "setReady" ELSE "run"
    /\ NoFault
    /\ UNCHANGED <<given, kubelet, config, ready, healthy, signalled>>

\* health.New, or the engine of gin, and the goroutine that listens.
Serve ==
    /\ pc = "serve"
    /\ server' = "starting"
    /\ healthy' = TRUE
    /\ pc' = IF main.graceful THEN "setReady" ELSE "run"
    /\ NoFault
    /\ UNCHANGED <<given, kubelet, config, ready, signalled>>

\* hs.SetReady(true), before or after the server listens.
SetReady ==
    /\ pc = "setReady"
    /\ ready' = TRUE
    /\ pc' = "run"
    /\ NoFault
    /\ UNCHANGED <<given, kubelet, config, server, healthy, signalled>>

\* ListenAndServe.  An error is logged where the server is for health only.
Listen ==
    /\ server = "starting"
    /\ \/ server' = "listening" /\ NoFault
          /\ UNCHANGED <<config, pc, ready, healthy, signalled>>
       \/ /\ Fault("port_taken")
          /\ IF main.graceful
             THEN server' = "none" /\ UNCHANGED <<config, pc, ready, healthy, signalled>>
             ELSE Exit
    /\ UNCHANGED <<given, kubelet>>

\* ctx is cancelled: the loop returns and the deferred Shutdown begins.
Stop ==
    /\ pc = "run" /\ signalled /\ main.graceful
    /\ pc' = "shutdown"
    /\ healthy' = FALSE
    /\ NoFault
    /\ UNCHANGED <<given, kubelet, config, server, ready, signalled>>

\* The rest of Shutdown: the context is done, so nothing is waited for.
Shutdown ==
    /\ pc = "shutdown"
    /\ ready' = FALSE
    /\ pc' = "down"
    /\ server' = "none"
    /\ NoFault
    /\ UNCHANGED <<given, kubelet, config, healthy, signalled>>

\* Before signal.Notify, or without it, a SIGTERM ends the process.
DieOfSignal ==
    /\ signalled
    /\ IF main.graceful THEN pc \in {"load", "connect"} ELSE pc # "down"
    /\ Exit
    /\ NoFault
    /\ UNCHANGED <<given, kubelet>>

Crash ==
    /\ pc # "down"
    /\ Fault("crash")
    /\ Exit
    /\ UNCHANGED <<given, kubelet>>

Step == LoadConfig \/ Connect \/ Serve \/ SetReady \/ Stop \/ Shutdown \/ DieOfSignal

-----------------------------------------------------------------------------
\* The kubelet.

\* The restart policy is Always.
Restart ==
    /\ pc = "down"
    /\ Fresh
    /\ answer' = "none" /\ endpoint' = FALSE /\ failures' = 0
    /\ NoFault
    /\ UNCHANGED <<given, killed>>

\* The manifests name the port each service takes by itself.
Reaches(route) ==
    server = "listening" /\ Port(main, config) = main.port /\ route \in main.routes

\* handleReadiness reads the flag, or nobody answers; no service has checkers.
AskReady ==
    /\ answer = "none"
    /\ answer' = IF Reaches("/readyz") /\ ready THEN "200" ELSE "503"
    /\ NoFault
    /\ UNCHANGED <<given, process, endpoint, failures, killed>>

\* The answer arrives.  By then the process may have gone on.
HearReady ==
    /\ answer # "none"
    /\ endpoint' = (answer = "200")
    /\ answer' = "none"
    /\ NoFault
    /\ UNCHANGED <<given, process, failures, killed>>

\* handleLiveness, reached
Live == Reaches("/livez") /\ healthy

\* A process without a server yet is asked only if it took very long to start.
Starting == pc \in {"load", "connect", "serve"} \/ server = "starting"

\* The liveness probe: at the threshold the container is told to end.  A pod that
\* is to end is not asked any more.
ProbeLive ==
    /\ pc # "down" /\ ~signalled
    /\ IF Starting THEN Fault("slow_start") ELSE NoFault
    /\ \/ Live /\ failures' = 0 /\ UNCHANGED <<signalled, killed>>
       \/ /\ ~Live /\ failures + 1 < Threshold
          /\ failures' = failures + 1
          /\ UNCHANGED <<signalled, killed>>
       \/ /\ ~Live /\ failures + 1 = Threshold
          /\ failures' = 0 /\ signalled' = TRUE /\ killed' = TRUE
    /\ UNCHANGED <<given, config, pc, server, ready, healthy, answer, endpoint>>

\* The pod is asked to end, by a rollout or a scale-down.
Terminate ==
    /\ pc # "down" /\ ~signalled
    /\ Fault("sigterm")
    /\ signalled' = TRUE
    /\ UNCHANGED <<given, config, pc, server, ready, healthy, kubelet>>

-----------------------------------------------------------------------------

Next ==
    \/ Step \/ Listen \/ Crash
    \/ Restart \/ AskReady \/ HearReady \/ ProbeLive \/ Terminate

Spec == Init /\ [][Next]_vars

\* The process runs, and the kubelet restarts it and goes on probing.
FairSpec ==
    /\ Spec
    /\ WF_vars(Step) /\ WF_vars(Listen)
    /\ WF_vars(Restart) /\ WF_vars(AskReady) /\ WF_vars(HearReady)
    /\ WF_vars(~Starting /\ ProbeLive)

-----------------------------------------------------------------------------
\* Properties.

\* The type of the state: a server that listens was made by a process that has
\* its configuration, and what is ready was made healthy first.
TypeOK ==
    /\ service \in DOMAIN Main
    /\ pc \in {"load", "connect", "serve", "setReady", "run", "shutdown", "down"}
    /\ server \in {"none", "starting", "listening"}
    /\ ready \in BOOLEAN /\ healthy \in BOOLEAN /\ signalled \in BOOLEAN
    /\ answer \in {"none", "200", "503"}
    /\ endpoint \in BOOLEAN /\ killed \in BOOLEAN
    /\ failures \in 0 .. Threshold - 1
    /\ faults \in Nat /\ happened \subseteq Faults
    /\ server # "none" => pc \in {"setReady", "run", "shutdown"}

Probed == {"/readyz", "/livez"} \subseteq main.routes

\* The environment of the manifests: the port they probe and all that is needed.
Deployed ==
    /\ Loads(file)
    /\ env["APP_PORT"] = main.port
    /\ \A f \in main.needs :
          /\ env[f] # Unset
          /\ f \in ListFields => \E i \in 1 .. Len(env[f]) : env[f][i] # ""

\* The pod of a service that routes the probes, deployed as the manifests say, is
\* ready in the end and stays so, whatever its configuration file says and
\* however often it crashed, lost its port or was restarted.
ProbedIsReady == Deployed /\ Probed => <>[]endpoint

\* The same of every service, as its manifest (k8s/api-gateway.yaml:59-70,
\* k8s/notification-service.yaml:65-76) and docs/runbook.md:52 have it.
DeployedIsReady == Deployed => <>[]endpoint

\* The liveness probe restarts a container only if the probes cannot reach it or
\* its server did not come up: none of the steps of a healthy process, its
\* start and its end included, looks dead to the kubelet.
KilledOnlyIfUnreachable ==
    killed =>
        \/ happened \cap {"slow_start", "port_taken"} # {}
        \/ ~Probed
        \/ Port(main, Load(file, env)) # main.port
=============================================================================
