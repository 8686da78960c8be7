------------------------------ MODULE Bootstrap ------------------------------
(***************************************************************************)
(* The start of a process: bootstrap() of src/main.ts with the hooks of    *)
(* the two Nest applications it creates and the loop that connects the     *)
(* Kafka producer (src/infra/messaging/kafka/kafka.module.ts).             *)
(*                                                                         *)
(* The gRPC application owns the publisher and its producer, each          *)
(* application has a database client of its own.  Nobody catches what      *)
(* bootstrap() throws, so the process ends with it.                        *)
(***************************************************************************)
EXTENDS Naturals

CONSTANTS
    Deadline,    \* how long the loop keeps trying to connect (30 s)
    Pause,       \* the wait between two attempts (750 ms)
    MaxAttempt,  \* the longest a failing attempt takes, kafkajs's own retries included
    MaxLate,     \* the longest a timer fires late
    BrokerUp     \* the moments at which the broker may come up and stay up

ASSUME TimesAssumption ==
    /\ Deadline \in Nat /\ MaxAttempt \in Nat /\ MaxLate \in Nat
    /\ Pause \in Nat \ {0}
    /\ BrokerUp \subseteq Nat

App == {"grpc", "http"}

VARIABLES
    stage,      \* what bootstrap() waits for
    clock,      \* time since the loop began
    upAt,       \* when the broker comes up
    producer,   \* the producer is connected
    db,         \* the applications whose database client is connected
    webhook,    \* the HTTP server listens
    crons,      \* the cron jobs of the publisher run
    grpc        \* the gRPC server listens

services == <<producer, db, webhook, crons, grpc>>

vars == <<stage, clock, upAt, services>>

Stage ==
    {"connect", "pause", "createHttp", "initHttp", "listenHttp", "initGrpc",
     "startCrons", "listenGrpc", "up", "gaveUp", "dead"}

TypeOK ==
    /\ stage \in Stage
    /\ clock \in Nat
    /\ upAt \in BrokerUp
    /\ db \subseteq App
    /\ producer \in BOOLEAN /\ webhook \in BOOLEAN
    /\ crons \in BOOLEAN /\ grpc \in BOOLEAN

Init ==
    /\ stage = "connect"
    /\ clock = 0
    /\ upAt \in BrokerUp
    /\ producer = FALSE
    /\ db = {}
    /\ webhook = FALSE
    /\ crons = FALSE
    /\ grpc = FALSE

\* The process and what it had are gone.
Ends ==
    /\ producer' = FALSE
    /\ db' = {}
    /\ webhook' = FALSE
    /\ crons' = FALSE
    /\ grpc' = FALSE
    /\ UNCHANGED upAt

-----------------------------------------------------------------------------
(* NestFactory.createMicroservice(GrpcAppModule) waits for the producer    *)

\* producer.connect succeeds.  An attempt may last until the broker is up.
ProducerConnects ==
    /\ stage = "connect"
    /\ \E d \in 0..MaxAttempt :
         /\ clock + d >= upAt
         /\ clock' = clock + d
    /\ producer' = TRUE
    /\ stage' = "createHttp"
    /\ UNCHANGED <<upAt, db, webhook, crons, grpc>>

\* Mutant: the deadline is 30 ms away.
TooLateSoon(now) == now > 0

\* Mutant: each attempt starts the 30 s again.
NeverTooLate(now) == FALSE

TooLate(now) == now > Deadline

\* producer.connect throws, for the broker was not up when it began.
ConnectFails ==
    /\ stage = "connect"
    /\ clock < upAt
    /\ \E d \in 0..MaxAttempt :
         /\ clock' = clock + d
         /\ ~TooLate(clock + d)
    /\ stage' = "pause"
    /\ UNCHANGED <<upAt, services>>

\* The same after the deadline: the loop throws, and Nest ends the process.
GivesUp ==
    /\ stage = "connect"
    /\ clock < upAt
    /\ \E d \in 0..MaxAttempt :
         /\ clock' = clock + d
         /\ TooLate(clock + d)
    /\ stage' = "gaveUp"
    /\ Ends

\* Mutant: the loop does not wait.
NoPause ==
    /\ stage = "pause"
    /\ stage' = "connect"
    /\ UNCHANGED <<clock, upAt, services>>

PauseEnds ==
    /\ stage = "pause"
    /\ \E late \in 0..MaxLate : clock' = clock + Pause + late
    /\ stage' = "connect"
    /\ UNCHANGED <<upAt, services>>

-----------------------------------------------------------------------------
(* The rest of bootstrap()                                                 *)

\* NestFactory.create(HttpAppModule): its OutboxModule has no publisher.
CreateHttpApp ==
    /\ stage = "createHttp"
    /\ stage' = "initHttp"
    /\ UNCHANGED <<clock, upAt, services>>

\* httpApp.listen first calls the init hooks: PrismaService.onModuleInit.
InitHttpApp ==
    /\ stage = "initHttp"
    /\ db' = db \cup {"http"}
    /\ stage' = "listenHttp"
    /\ UNCHANGED <<clock, upAt, producer, webhook, crons, grpc>>

\* Then it binds the port: the webhook is served from here on.
ListenHttp ==
    /\ stage = "listenHttp"
    /\ webhook' = TRUE
    /\ stage' = "initGrpc"
    /\ UNCHANGED <<clock, upAt, producer, db, crons, grpc>>

\* app.listen calls the init hooks of the gRPC application.
InitGrpcApp ==
    /\ stage = "initGrpc"
    /\ db' = db \cup {"grpc"}
    /\ stage' = "startCrons"
    /\ UNCHANGED <<clock, upAt, producer, webhook, crons, grpc>>

\* Mutant: the jobs start with the init hooks, whether or not the client is
\* connected.
CronsBeforeInit ==
    /\ stage \in {"initGrpc", "startCrons"}
    /\ crons' = TRUE
    /\ stage' = IF stage = "initGrpc" THEN stage ELSE "listenGrpc"
    /\ UNCHANGED <<clock, upAt, producer, db, webhook, grpc>>

\* The bootstrap hooks: ScheduleModule starts the publisher's cron jobs.
StartCrons ==
    /\ stage = "startCrons"
    /\ crons' = TRUE
    /\ stage' = "listenGrpc"
    /\ UNCHANGED <<clock, upAt, producer, db, webhook, grpc>>

ListenGrpc ==
    /\ stage = "listenGrpc"
    /\ grpc' = TRUE
    /\ stage' = "up"
    /\ UNCHANGED <<clock, upAt, producer, db, webhook, crons>>

\* A database does not answer, a port is taken: bootstrap() rejects.
StepFails ==
    /\ stage \in {"initHttp", "listenHttp", "initGrpc", "listenGrpc"}
    /\ stage' = "dead"
    /\ Ends
    /\ UNCHANGED clock

-----------------------------------------------------------------------------

Killed ==
    /\ stage \notin {"gaveUp", "dead"}
    /\ stage' = "dead"
    /\ Ends
    /\ UNCHANGED clock

\* Whatever runs the container starts the process again.
Restart ==
    /\ stage \in {"gaveUp", "dead"}
    /\ stage' = "connect"
    /\ clock' = 0
    /\ upAt' \in BrokerUp
    /\ UNCHANGED services

Progress ==
    \/ ProducerConnects \/ ConnectFails \/ GivesUp \/ PauseEnds
    \/ CreateHttpApp \/ InitHttpApp \/ ListenHttp
    \/ InitGrpcApp \/ StartCrons \/ ListenGrpc \/ StepFails

Next == Progress \/ Killed \/ Restart

\* Each request that bootstrap() waits for is answered, with success or failure.
Spec == Init /\ [][Next]_vars /\ WF_vars(Progress)

-----------------------------------------------------------------------------
(* Properties                                                              *)

\* What is served has what it needs: callbacks never meet a client that is not
\* connected, the publisher neither that nor a producer without a broker; and
\* nobody can ask for a link before callbacks are heard and events are sent.
ServesWhatItCan ==
    /\ webhook => "http" \in db
    /\ crons => "grpc" \in db /\ producer
    /\ grpc => webhook /\ crons

\* A broker that is up one attempt before the deadline is found, whatever the
\* attempts before it took and however late the timers fire, unless the process
\* is killed.
TimelyBrokerFound ==
    (stage = "connect" /\ clock = 0 /\ upAt + MaxAttempt <= Deadline)
        ~> (producer \/ stage = "dead")

\* No attempt begins later than one pause after the deadline.
AttemptsEnd == stage = "connect" => clock <= Deadline + Pause + MaxLate

\* A start comes to an end: the process serves, or it is gone and may be started
\* again.
StartEnds == (stage = "connect") ~> (stage \in {"up", "gaveUp", "dead"})

=============================================================================
