--------------------------- MODULE PaymentSystem ---------------------------
(***************************************************************************)
(* The deployed service: Payments and OutboxPublisher over one outbox      *)
(* table, from a paid link to the message that announces it.               *)
(*                                                                         *)
(* Both halves of the server run in one Node process (src/main.ts): a      *)
(* rejection nobody handles in a webhook handler takes the publisher's     *)
(* batch with it.  Other processes are replicas of which only the          *)
(* publisher matters here.  What the two halves share is the outbox table: *)
(* `outbox` is the table as the publisher works on it, `saved` the rows as *)
(* the transactions of the service saved them, which is what Payments      *)
(* says of its table.                                                      *)
(*                                                                         *)
(* main.ts enables no shutdown hooks, so onModuleDestroy is no part of the *)
(* composition: processes stop by dying.                                   *)
(***************************************************************************)
EXTENDS Outbox

CONSTANTS
    \* of the service
    Key, Call, Handler, Settlements, PaymentFaults, Undefined, MaxDay, MaxEvents,
    \* of the publisher
    Instance, Run, Host, BatchSize, MaxRetries, PublisherFaults, MaxMessages,
    MaxStops, MaxResets,
    Server    \* the process whose gRPC and HTTP servers are called

ASSUME ServerAssumption == Server \in Instance

\* What Payments and OutboxPublisher assume of theirs.
ASSUME ServiceAssumption ==
    /\ Settlements \subseteq {"success", "failure", "cancel"}
    /\ PaymentFaults \subseteq {"db", "crash"}
    /\ IsFiniteSet(Handler)
    /\ MaxDay \in Nat /\ MaxEvents \in Nat /\ Timestamp = 1..MaxEvents
ASSUME PublisherAssumption ==
    /\ IsFiniteSet(Instance) /\ Host \in [Run -> Instance]
    /\ BatchSize \in Nat \ {0} /\ MaxRetries \in Nat \ {0} /\ MaxMessages \in Nat \ {0}
    /\ MaxStops \in Nat /\ MaxResets \in Nat
    /\ PublisherFaults \subseteq {"db", "kafka"}

VARIABLES
    payment, saved, links, answers, paid, day, clock, call, handler,
    outbox, deleted, kafka, isProcessing, lifecycle, stage, task, stops, resets

Service == INSTANCE Payments WITH outbox <- saved, Faults <- PaymentFaults

Publisher == INSTANCE OutboxPublisher WITH Faults <- PublisherFaults

serviceVars == <<payment, saved, links, answers, paid, day, clock, call, handler>>

publisherVars ==
    <<outbox, deleted, kafka, isProcessing, lifecycle, stage, task, stops, resets>>

systemVars == <<serviceVars, publisherVars>>

SystemInit == Service!Init /\ Publisher!Init

OrderCode == Aggregate

-----------------------------------------------------------------------------
(* Steps of the service                                                    *)

\* A call of a client.
ServeCall ==
    /\ lifecycle[Server] = "up"
    /\ \/ \E key \in Key, order \in OrderCode : Service!ReturnCachedPayment(key, order)
       \/ \E c \in Call : Service!CallStep(c)
    /\ UNCHANGED publisherVars

\* A callback arrives, or somebody cancels.
AcceptSettlement(h) ==
    /\ lifecycle[Server] = "up"
    /\ \/ \E t \in Service!Txn, kind \in Settlements : Service!HandleCallback(h, t, kind)
       \/ \E order \in OrderCode : Service!CancelPayment(h, order)
    /\ UNCHANGED publisherVars

\* The queries of a handler up to its commit.
HandlerQuery(h) ==
    /\ Service!PaymentFound(h) \/ Service!UpdatePayment(h) \/ Service!SaveOutboxEvent(h)
    /\ UNCHANGED publisherVars

\* The commit makes the row of the event visible to the publishers.
CommitSettlement(h) ==
    /\ Service!Commit(h)
    /\ \E e \in DOMAIN saved' \ DOMAIN saved :
         Publisher!SavePaymentEvent(e, saved'[e].aggregateId, saved'[e].eventType,
                                    saved'[e].createdAt)

\* A handler rejects.  Unless a caller hears of it, the process dies with its
\* publisher.
HandlerRejects(h) ==
    /\ Service!PaymentNotFound(h) \/ Service!UpdateFails(h) \/ Service!HandlerFails(h)
    /\ IF handler[h].kind = "cancel" THEN UNCHANGED publisherVars ELSE Publisher!Crash(Server)

ServerDies ==
    /\ Service!Crash
    /\ Publisher!Crash(Server)

\* Payers and the calendar.
Elsewhere ==
    /\ (\E t \in Service!Txn : Service!Pay(t)) \/ Service!Midnight
    /\ UNCHANGED publisherVars

-----------------------------------------------------------------------------
(* Steps of the publishers                                                 *)

PublisherRun(r) == Publisher!RunStep(r) /\ UNCHANGED serviceVars

PublisherTask(r, e) == Publisher!TaskStep(r, e) /\ UNCHANGED serviceVars

\* A process comes back, the daily cleanup runs, a replica dies.
ProcessStep(i) ==
    /\ \/ Publisher!CleanupOldEvents(i)
       \/ Publisher!Restart(i)
       \/ i # Server /\ Publisher!Crash(i)
    /\ UNCHANGED serviceVars

\* A week goes by since an event was published; an operator resets a failed one.
RowStep(e) ==
    /\ Publisher!PublishedLongAgo(e) \/ Publisher!ResetFailed(e)
    /\ UNCHANGED serviceVars

-----------------------------------------------------------------------------

HandlerMoves(h) == HandlerQuery(h) \/ CommitSettlement(h)

SystemNext ==
    \/ ServeCall
    \/ \E h \in Handler : AcceptSettlement(h) \/ HandlerMoves(h) \/ HandlerRejects(h)
    \/ ServerDies
    \/ Elsewhere
    \/ \E r \in Run : PublisherRun(r)
    \/ \E r \in Run, e \in Event : PublisherTask(r, e)
    \/ \E i \in Instance : ProcessStep(i)
    \/ \E e \in Event : RowStep(e)

SystemSpec == SystemInit /\ [][SystemNext]_systemVars

(***************************************************************************)
(* Fairness, as in the parts: awaited requests are answered, each waiting  *)
(* transaction gets its lock in time, the cron ticks, and a process that   *)
(* died is started again.                                                  *)
(***************************************************************************)
SystemFairness ==
    /\ \A h \in Handler : SF_systemVars(HandlerMoves(h))
    /\ \A r \in Run : WF_systemVars(PublisherRun(r))
    /\ \A r \in Run, e \in Event : WF_systemVars(PublisherTask(r, e))
    /\ \A i \in Instance : WF_systemVars(ProcessStep(i) /\ Publisher!Restart(i))

FairSystemSpec == SystemSpec /\ SystemFairness

-----------------------------------------------------------------------------
(* Properties                                                              *)

\* The two halves agree on every event: each saved one is in the table, with
\* what the transaction wrote, or was deleted.
OneTable ==
    /\ DOMAIN saved = DOMAIN outbox \cup deleted
    /\ \A e \in DOMAIN outbox :
         /\ outbox[e].aggregateId = saved[e].aggregateId
         /\ outbox[e].eventType = saved[e].eventType
         /\ outbox[e].createdAt = saved[e].createdAt

\* A consumer of payment.completed may ship: every message in the topic is about
\* a payment whose link was paid, whatever crashes, retries and callbacks came
\* between the payer and Kafka; and none is in the topic of another settlement.
MessagesAreTrue ==
    \A e \in Event :
        /\ kafka["payment.completed"][e] > 0 =>
             /\ e \in DOMAIN saved
             /\ saved[e].aggregateId \in DOMAIN payment
             /\ payment[saved[e].aggregateId].providerTransactionId \in paid
        /\ kafka["payment.failed"][e] > 0 =>
             e \in DOMAIN saved /\ saved[e].eventType = "PAYMENT_FAILED"

OlderEvents(e) ==
    {f \in DOMAIN saved : /\ saved[f].aggregateId = saved[e].aggregateId
                          /\ saved[f].createdAt < saved[e].createdAt}

GivenUp(e) == e \in DOMAIN outbox /\ outbox[e].retryCount >= MaxRetries

\* No event of a payment is sent ahead of an older one that waits in the queue:
\* when it is handed to Kafka, each older event was delivered, was given up on,
\* or is in the same batch.  It takes the row lock, which makes dates follow
\* commits, and the order of the query, with a limit, over any number of
\* processes.  A manual reset brings an event back late.
NoOvertaking ==
    resets = 0 =>
        \A r \in Run, e \in Event : task[r][e] \in Publisher!KafkaTopic =>
            \A f \in OlderEvents(e) :
                Publisher!Delivered(f) \/ GivenUp(f) \/ task[r][f] # "none"

\* No settlement is lost between the halves: the newest event of a settled
\* payment names its status, and it was delivered, is in the queue, or was given
\* up on.
SettlementOnItsWay ==
    \A o \in DOMAIN payment : payment[o].status # "PENDING" =>
        \E e \in Service!EventsOf(o) :
            /\ Service!AnnouncedStatus(saved[e].eventType) = payment[o].status
            /\ \A f \in Service!EventsOf(o) : saved[f].createdAt <= saved[e].createdAt
            /\ \/ Publisher!Delivered(e)
               \/ GivenUp(e)
               \/ e \in PendingEvents(outbox, MaxRetries)

\* While Kafka and the database answer, a payment that completed is announced,
\* although processes die at any step and events without a topic are in the way.
CompletedReachesKafka ==
    \A o \in OrderCode :
        (o \in DOMAIN payment /\ payment[o].status = "COMPLETED")
            ~> \E e \in Event :
                 /\ e \in DOMAIN saved /\ saved[e].aggregateId = o
                 /\ kafka["payment.completed"][e] > 0

\* A callback that was answered reaches Kafka as well, unless its process dies:
\* the answer is given before the work.
CallbackReachesKafka ==
    \A h \in Handler, o \in OrderCode :
        (handler[h].at = "find" /\ handler[h].kind = "success" /\ handler[h].txn.order = o)
            ~> \/ lifecycle[Server] = "down"
               \/ \E e \in Event :
                    /\ e \in DOMAIN saved /\ saved[e].aggregateId = o
                    /\ kafka["payment.completed"][e] > 0

\* An announcement as the ledger has it, and as a message in a topic says it.
Announcement(e) ==
    [at |-> saved[e].createdAt, status |-> Service!AnnouncedStatus(saved[e].eventType)]

Heard(topic, e) ==
    [ at     |-> saved[e].createdAt,
      status |-> CASE topic = "payment.completed" -> "COMPLETED"
                   [] topic = "payment.failed"    -> "FAILED"
                   [] topic = "payment.cancelled" -> "CANCELLED" ]

MessagesOf(o) == {m \in Publisher!KafkaTopic \X Service!EventsOf(o) : kafka[m[1]][m[2]] > 0}

\* From the payer to the reader of a topic.
Announcer == INSTANCE PaymentAnnouncer WITH
    Order     <- OrderCode,
    Time      <- Timestamp,
    status    <- [o \in OrderCode |->
                    IF o \in DOMAIN payment THEN payment[o].status ELSE "NONE"],
    announced <- [o \in OrderCode |-> {Announcement(e) : e \in Service!EventsOf(o)}],
    paid      <- {o \in DOMAIN payment : payment[o].providerTransactionId \in paid},
    told      <- [o \in OrderCode |-> {Heard(m[1], m[2]) : m \in MessagesOf(o)}],
    forgotten <- [o \in OrderCode |-> {Announcement(e) : e \in Service!EventsOf(o) \cap deleted}]

\* End to end: whatever processes, callbacks and publishers do, each step is one
\* the abstract announcer may take: a status changes with its announcement and
\* completes only what was paid, a topic tells what was announced, and nothing
\* is deleted untold.
ImplementsAnnouncer == Announcer!AnnouncerSpec

\* While the database answers, an event has one message per process at most, and
\* one more for each death, also one a webhook handler caused, and for each retry
\* counted against it.
FewDuplicates == Publisher!FewDuplicates

=============================================================================
