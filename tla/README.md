# Verification of ticketbottle-payment

TLA+ specifications of the payment service, the TLC runs that check them on small
instances, and proofs that the TLA+ proof system checks for every value of the
constants. Paths below are relative to the repository; its implementation is under
`src/` and its schema under `prisma/`.

The service creates payment links at ZaloPay, learns of payments by callbacks, and
announces what became of a payment to other services through Kafka. It does the last
part with a transactional outbox: the status and the event that announces it are written
in one database transaction, and a cron job later moves the events to Kafka. The two
hard parts of the system are therefore (1) the publisher, which must deliver at least
once over crashes, lost answers and several processes, and (2) the transactions and
remote calls of the payment service, which run concurrently and stop half way. Both run in
one process and meet in one table, so (3) is what holds from a paid link to the message.
Around them are the gRPC surface, with its validation and amounts, the start of a process,
a second gateway and a pagination helper that nothing uses yet.

## Inventory

| component | state | operations | talks to |
|---|---|---|---|
| `OutboxService` (`modules/outbox/outbox.service.ts`) | the `outbox` table | `saveEvent` and its wrappers, `getUnpublishedEvents`, `markAsPublished`, `incrementRetryCount`, `deleteOldPublishedEvents`, `getFailedEvents`, `resetFailedEvent` | PostgreSQL through Prisma |
| `OutboxPublisherService` (`modules/outbox/outbox-publisher.service.ts`) | `isProcessing`, `isShuttingDown`, and what its promises wait for | `processOutboxEvents` (cron and manual), `publishEvent`, `cleanupOldEvents`, `monitorFailedEvents`, `onModuleDestroy` | `OutboxService`, `KafkaProducerService` |
| `KafkaProducerService` (`infra/messaging/kafka/`) | connection | `publish`, connect and disconnect | Kafka |
| `PaymentService` (`modules/payment/payment.service.ts`) | none of its own; the calls in progress | `createPaymentIntent`, `handleCallback`, `handlePaymentSuccess`, `handlePaymentFailure`, `cancelPayment`, `findByIdempotencyKey` | repository, gateway, `OutboxService` |
| `PaymentRepository`, mapper, `payments` table | the `payments` table with three unique columns | `create`, `findBy...`, `updateStatus` | PostgreSQL |
| ZaloPay gateway and the gateway factory | none | `createPaymentLink`, `handleCallback` | ZaloPay over HTTP |
| PayOS gateway (`gateways/payos/`) | none; PayOS keeps the links | `createPaymentLink`, `handleCallback`, `getPaymentInfo`, `cancelPayment`; wired to nothing | PayOS over HTTP |
| gRPC controller, DTOs, mappers | none | `createPaymentIntent`, `getPaymentUrlByIdempotencyKey` | `PaymentService` |
| HTTP controller | none | the webhook: answers at once, handles later | `PaymentService` |
| Kafka module, configuration, `main.ts` | connection | start-up | everything |
| pagination helper (`shared/utils/pagination.util.ts`) | none | `createPaginator`; no caller | PostgreSQL through Prisma |
| filters, interceptors, logging, swagger, generated code, foreign protos | none | - | - |

Interactions: the callers of `PaymentService` are the gRPC controller (links) and the
webhook (callbacks). `PaymentService` writes the `payments` and `outbox` tables in one
transaction. The publisher reads the `outbox` table and writes Kafka and the table. The
payment service and the publisher share the `outbox` table and the process they live in: a
rejection that nobody handles in a webhook handler ends the publisher's batch as well.

What is hard, and the properties that make each part correct:

* **Publisher.** Sends of a batch run concurrently; several processes fetch the same rows
  without locking them; a process may die, or an answer may be lost, between Kafka's
  acknowledgement and the mark; rows may be cleaned up or reset under a running batch.
  Correct means: never marked (or deleted) without having been sent; every event leaves
  the queue; the retry limit holds up to what is in flight; one batch at a time per
  process; a shutdown loses nothing in flight and ends; at-least-once as an abstract
  specification.
* **Payment intents.** The link exists at ZaloPay before the row; two calls race for one
  key or one order; midnight changes the transaction id a retry asks for. Correct means:
  nobody holds a link whose callback finds no row, and nobody holds two links of one
  order.
* **Requests.** The amount goes to ZaloPay before it goes to a 32-bit column, and no
  callback is compared with it. Correct means: a payment is recorded with the amount its
  link charges, and a query finds it.
* **Start.** Two Nest applications with hooks of their own, and a loop that waits for the
  broker. Correct means: nothing is served before what it needs is connected, the loop
  ends, and a broker that comes up in time is found.
* **Settlement.** Callbacks come twice or concurrently with a cancellation, and no update
  looks at the status it replaces. Correct means: status and event change together; the
  newest event names the status; nothing is completed that was not paid.
* **The whole.** An event is written by one half and read by the other, over commits,
  batches, retries and deaths of both at once. Correct means: a message is about what was
  paid; no settlement is lost between the tables; the events of a payment do not overtake
  each other; what completed reaches Kafka; each message too many has a death, a reset or a
  retry behind it; and what payers do and readers see is one ledger.
* **PayOS.** The order code becomes a number, and different orders may become the same.
  Correct means: nobody is led to another's link, and a callback finds its payment.
* **Pages.** The table changes between two queries and between two pages. Correct means: no
  row twice, and none missed but through deletions.

`PROJECT.json` lists every hazard at its line with the properties that cover it.

## Modules

| module | what it is |
|---|---|
| `Outbox` | the table's rows, and each query of `OutboxService` as an operator on a table; used by both state machines |
| `EventRelay` | abstract specification: what the outbox promises (accept, deliver, confirm, forget) |
| `OutboxPublisher` | the publisher, all its processes, Kafka's topics; implements `EventRelay` |
| `OutboxProofs` | lemmas about the table, used by the proofs of both state machines |
| `OutboxPublisherProofs` | theorems about the publisher |
| `PaymentLedger` | abstract specification: status and announcements of a payment change together and in order |
| `Payments` | `PaymentService` with the repository and the ZaloPay gateway; implements `PaymentLedger` |
| `PaymentsProofs` | theorems about `Payments` |
| `PaymentApi` | the gRPC controller, validation, mappers and amounts over `Payments`; implements it |
| `PaymentApiProofs` | its theorems |
| `PaymentAnnouncer` | abstract specification of the whole: `PaymentLedger` with the payers before it and the readers of the topics behind it |
| `PaymentSystem` | composition of `Payments` and `OutboxPublisher` over one table, in one process; implements `PaymentAnnouncer` |
| `PaymentSystemProofs` | theorems about the composition, from those about its halves |
| `Bootstrap`, `BootstrapProofs` | the start of a process, and theorems about it |
| `PayOSGateway`, `PayOSProofs` | the PayOS gateway with the links and webhooks of PayOS, and theorems about it |
| `Pagination`, `PaginationProofs` | a client that reads page after page of a changing table, and a theorem |
| `MCOutboxPublisher`, `MCPayments`, `MCPaymentApi`, `MCPaymentSystem`, `MCBootstrap`, `MCPayOSGateway` | the constants of the TLC runs |

### How `Outbox` corresponds to the code

A table is a function from ids to rows; ids are UUIDs, so a new row takes an unused
element of `Event`. Of a row the model keeps what some query tests: `aggregateId`,
`eventType`, `createdAt`, `published`, `publishedAt` (only as `none`, `recent`, `old`: it
is only ever compared with seven days ago) and `retryCount`. Payload and `lastError` are
data that nothing tests. `getUnpublishedEvents` orders by `createdAt` alone, so
`UnpublishedEvents` returns the *set* of batches that rows of equal age allow.
`EventType` has the two members of the enum and the literal `'PaymentCancelled'` that
`cancelPayment` writes instead of a member.

### How `OutboxPublisher` corresponds to the code

An *instance* is a process; a *run* is an invocation of `processOutboxEvents`, by the cron
or by hand, and several runs belong to one instance so that invocations can overlap.
`task[r][e]` is the `publishEvent` of run `r` for event `e`. Every action ends where the
code awaits.

| code | actions |
|---|---|
| `processOutboxEvents` up to its first await | `StartRun` |
| the answer of `getUnpublishedEvents` | `FetchBatch`, `FetchFails` |
| `Promise.allSettled` and the finally block | `FinishBatch`, `EndRun` |
| `publishEvent` | `PublishEvent`, `SendAcknowledged`, `SendRejected`, `MarkSucceeds`, `MarkFails`, `RetryCounted`, `RetryNotCounted`, `SkipCounted`, `SkipFails` |
| `cleanupOldEvents` | `CleanupOldEvents` |
| `onModuleDestroy` | `BeginShutdown`, `CompleteShutdown` |
| `resetFailedEvent` | `ResetFailed` |
| the process dies and comes back | `Crash`, `Restart` |

A request may fail without effect, or take effect and lose its answer. The second also
stands for a crash between effect and answer. `SkipFails` goes to the catch block, which
counts the event again: an event of an unknown type can be counted twice in one batch.
`FailedEvents` are only reset by hand; the repository has no caller of `resetFailedEvent`.

`kafka[topic][e]` counts the messages of an event in a topic. Each call of `publishEvent`
draws a new `messageId`, so each message counted is one id.

Two things differ from what a reader may expect. `main.ts` never calls
`enableShutdownHooks`, so Nest does not call `onModuleDestroy` on a signal: the shutdown
actions model the class's own contract, and a plain kill is `Crash`. A query that a
crashed process had sent and the database carries out only later is not modelled: after
`Crash` nothing of the old process arrives.

### How `Payments` corresponds to the code

`Call` and `Handler` are invocations in progress; each is a record that says which await
it is at. The row of a payment keeps `idempotencyKey`, `providerTransactionId` and
`status`, in a table indexed by `orderCode`; the payment's own id is as unique and as
immutable, and the model uses the order code for both. ZaloPay's link is identified with
the transaction id `YYMMDD_orderCode` it was created under, so `Txn` has a day and an
order, and `Midnight` moves the day on.

| code | actions |
|---|---|
| `createPaymentIntent`, key known | `ReturnCachedPayment` |
| `createPaymentIntent`, key new | `RequestPaymentLink`, `LinkCreated`, `LinkRefused`, `InsertPayment`, `InsertFails` |
| webhook and `handleCallback` | `HandleCallback`, `PaymentFound`, `PaymentNotFound` |
| `handlePaymentSuccess`, `handlePaymentFailure`, `cancelPayment` | `CancelPayment`, `UpdatePayment`, `UpdateFails`, `SaveOutboxEvent`, `Commit`, `HandlerFails` |
| outside | `Pay`, `Midnight`, `Crash` |

`Settlements` says which ways to settle a payment have a caller. The deployed service has
`{"success"}` (ZaloPay reports success or nothing; `cancelPayment` is called by nobody);
the runs that ask about conflicting settlements allow all three, since the code has them.

A transaction that updated a row holds its lock until it ends, and what it wrote is seen
at `Commit`. `createdAt` of the event is taken when `tx.outbox.create` runs, after the
update and so under the lock, from one clock that never returns the same value twice.
This is where the argument rests on the environment: Prisma fills `@default(now())` in
when the query runs. Were it left to the database (`CURRENT_TIMESTAMP`, the start of the
transaction), or did processes with different clocks settle the same payment, events of
one payment could be dated against the order of their commits, and
`NewestEventNamesStatus` would fail.

The webhook does not await its handler, so a handler that fails (`PaymentNotFound`,
`UpdateFails`, `HandlerFails`) leaves an unhandled rejection, and Node, version 20 in the
image, ends the process: `Rejects` makes `ProcessDies` part of these steps. Only
`cancelPayment` would reject to a caller. The publisher of the same process dies with it,
in `PaymentSystem`. `links` are the links ZaloPay made, known to a
client or not; a failure verdict may come for any of them, so `PaymentNotFound` happens.

A callback with a bad signature, and a request for a provider the factory does not know,
change nothing and are no steps of the model.

### How `PaymentApi` corresponds to the code

It extends `Payments`, conjoins amounts to the actions of `createPaymentIntent`, and adds
the query. `asked[c]` is the amount of a call in progress, `charge[t]` what the payer of a
link is charged, `amountCents` the column.

| code | definitions |
|---|---|
| `ValidationPipe`, `CreatePaymentIntentDto`, `toServiceDto`, mappers | `Accepted`, `MappedCurrency`, `MappedProvider` |
| `createIntent` | `CreateIntent`, `CreateIntentAgain` |
| `createPaymentIntent` after the link | `LinkCreatedFor`, `LinkRefusedFor`, `InsertPaymentFor`, `InsertFailsFor` |
| Prisma's check of an `Int` and the column | `Fits`, `Column` |
| `getPaymentUrlByIdempotencyKey` | `GetPaymentUrl`, `QueryAnswer`, `Whitelisted`, `ReportedStatus` |

A refused request changes nothing and is no step. The DTO asks for a number, not for a
positive one, so negative amounts pass it; ZaloPay may refuse any request. One rule of ZaloPay's is assumed: it
refuses an `app_trans_id` it knows. So of two calls for one order on one day one gets the
link, and a call that lost its link before the row was written cannot get another before
midnight.

### How `Bootstrap` corresponds to the code

`stage` is what `bootstrap()` waits for. The loop of `kafka.module.ts` is
`ProducerConnects`, `ConnectFails`, `GivesUp` and `PauseEnds`; time passes in an attempt and
in a pause, and an attempt that begins while the broker is up succeeds. `httpApp.listen`
is `InitHttpApp` (init hooks: its `PrismaService` connects) and `ListenHttp`; `app.listen`
is `InitGrpcApp`, `StartCrons` (bootstrap hooks) and `ListenGrpc`. Nobody catches what
`bootstrap()` throws: `StepFails` and `GivesUp` end the process. `Restart` is the container
runtime's.

### How `PaymentSystem` corresponds to the code

It instantiates `Payments` and `OutboxPublisher` and adds no behaviour of its own: each
action is one of theirs, or one of each at the same moment. `outbox` is the table as the
publisher works on it. `saved` is what `Payments` calls its table, to which only its commits
add, so it remembers what each transaction wrote after the publisher has marked or deleted
the row.

| code | actions |
|---|---|
| requests, callbacks, queries of a handler | `ServeCall`, `AcceptSettlement`, `HandlerQuery`: a step of `Payments`, the first two while the process is up |
| the commit of `$transaction` | `CommitSettlement`: `Commit` in one half, `SavePaymentEvent` with the same row in the other |
| a handler rejects and nobody awaits it | `HandlerRejects`: the handlers and the publisher of that process are gone |
| the process dies for another reason | `ServerDies` |
| `OutboxPublisherService`, on any process | `PublisherRun`, `PublisherTask`, `ProcessStep`, `RowStep` |

`Server` is the process whose requests and webhooks are modelled; the others matter as
publishers only. Since no shutdown hook is enabled, `BeginShutdown` and `CompleteShutdown`
are no part of it. `MaxStops` bounds all deaths, those caused by a handler included: at the
bound a handler that would reject stays where it is.

### How `PayOSGateway` corresponds to the code

`buildPayOSOrderCode` is modelled by what it computes, on the parts of an order code its two
regular expressions take: the first eight decimal digits in a row, and the last five
characters. `parseInt` stops at the first character that is no base-36 digit, and a number
beyond 2^53 is rounded as JavaScript rounds it (`Double`). That `parseInt` would also accept
a sign or white space in front is not modelled. PayOS, external, keeps the links by number, refuses a number it has, and sends
signed webhooks any number of times; the answer to any request may be lost.

| code | definitions |
|---|---|
| `buildPayOSOrderCode` | `BuildPayOSOrderCode`, `HasOrderCode`, `ParseInt`, `Double` |
| `createPaymentLink` | `CreatePaymentLink`, `TransactionId` |
| `cancelPayment`, `getPaymentInfo` | `CancelPayment`, `PaymentInfo` |
| `handleCallback` | `HandleCallback` |
| PayOS | `Pay`, `PayFails`, `PaymentLinkId` |

Four things a reader of the code should know, none of which a run refutes because nothing
calls this gateway. The comments (`payos.gateway.ts:72-75`, `schema.prisma:22`) say the
transaction id is PayOS's numeric order code; `createPaymentLink` returns the
`paymentLinkId`, and so does `handleCallback`, which is what `CallbackFindsPayment` needs.
The example in a comment has 15 digits where the code gives 16. A retry after a lost
answer is refused for ever, since the number depends on the order alone. And the calls of
the SDK (`createPaymentLink`, `verifyPaymentWebhookData`, `getPaymentLinkInformation`,
`cancelPaymentLink`) are made on a value typed `any`, while `package-lock.json` pins
`@payos/node` 2.0.3, whose code is not in the repository: if that version names them
otherwise, each call throws, which is no step of the model; and an asynchronous verification
would have to be awaited. The model is of a client that has these calls, with a synchronous
verification.

### How `Pagination` corresponds to the code

`Count` and `Find` are the two queries of `Promise.all`, in either order and over tables that
may differ; `TakePage` computes `meta.next`, and the client asks for that page. The rows are
ordered by insertion, the order in which pages make sense for a client. A negative page is
not modelled: it would read the first page and name page 0 or -1 as the next.

## Runs

| run | instance | checks | shows |
|---|---|---|---|
| `two_instances` | 2 processes, 2 events, batch 2, 2 retries, 1 stop, 1 reset, all faults | `TypeOK`, `PublishedWasSent`, `RetryBudget`, `ImplementsRelay` | whatever two processes do to the same rows, a published or deleted row was sent in the topic of its type, the retry count passes the limit by no more than the batches in flight, and the publisher implements `EventRelay` |
| `one_instance` | 1 process, 2 overlapping runs, 2 events, batch 1, 2 retries, 2 stops, all faults | `OneBatchPerInstance`, `DrainedBeforeClose`, `NeverResent`, `EventuallySettled`, `DrainTerminates` | the flag keeps runs apart and is never left set; a shutdown waits for the batch and ends; a published event is not sent again; each event leaves the queue |
| `requests` | 2 calls, 2 orders, 2 keys, 1 midnight, an amount that fits although negative and one too large, all faults | `ApiTypeOK`, `RecordedAmountIsCharged`, `KnownLinksHaveRows`, `OneLinkPerOrder` | races of calls, crashes, lost answers and midnight give nobody a dead or a second link, and leave no payment recorded with another amount than its link charges |
| `settlement` | 2 handlers, 2 orders, 2 events, 1 midnight, all settlements, all faults | `TypeOK`, `NewestEventNamesStatus`, `NoFalseCompletion`, `CallbackFindsRow`, `ImplementsLedger` | the newest event of a payment names its status, only what was paid is completed, the callback of a paid link finds its row, and the two tables implement `PaymentLedger` |
| `two_halves` | 1 order, 2 handlers, 2 events, success and failure, 2 processes, batch 2, failing Kafka, 1 death | `MessagesAreTrue`, `NoOvertaking`, `SettlementOnItsWay`, `ImplementsAnnouncer` | over both halves: messages are true, no settlement is lost between the tables, no event is sent ahead of an older one of its payment, and the service as a whole implements `PaymentAnnouncer` |
| `delivery` | 1 order, 2 handlers, 2 events, success and cancel, 1 process, batch 1, 2 deaths, 1 reset | `FewDuplicates`, `CompletedReachesKafka`, `CallbackReachesKafka` | while Kafka and the database answer, what completed reaches Kafka although events without a topic fill the batch and the process dies at any step; a callback does unless its process dies; an event gets no more messages than deaths, resets and retries explain |
| `bootstrap` | deadline 6, attempts up to 3, pauses 1 or 2 | `ServesWhatItCan`, `AttemptsEnd`, `StartEnds`, `TimelyBrokerFound` | what a start serves has what it needs, each start ends, and a broker up one attempt before the deadline is found |
| `payos` | 9 order codes, base 2, numbers exact up to 400 | `InfoIsAlike`, `CancelsAlike`, `CallbackFindsPayment` | the number of a proper order is taken, found and cancelled by no order but those with the same date and end, a callback names the stored payment |
| `pagination` | pages of 2, 6 rows and up to 8, 3 deletions | `MissesAtMostDeleted`, `NoRowTwice` | a client misses at most one row per deletion, and gets none twice |
| `query` | 1 order, no faults | `QueryFindsPayment`, violated | see findings |
| `replay` | 1 order | `ReplayReturnsLink`, violated | see findings |
| `never_lost` | no faults | `EventsNeverLost`, violated | see findings |

### Bounds

Two events are enough for a batch to be shorter than the queue (batch 1) or to hold
concurrent tasks (batch 2), and for one to be overtaken by the other. Two processes are
enough for every race on a row: the actions of a third commute in the same way.
`MaxRetries` 2 lets an event be retried and then given up on. `MaxStops` counts crashes and
shutdowns together, so 2 allows a crash during a shutdown's restart, and in `delivery` a
second death over what the first left. `MaxMessages` is where counting messages stops: 1 is
enough where only "some message" is asked; `delivery` has 4, one more than its two deaths
allow. `MaxResets` 1 gives an event a second life. On the payment side two keys, two orders
and two calls give each pair of equal and different keys and orders; one midnight gives two
links of one order; two events let one payment be settled twice, or two payments overlap.
Each bound is a constant used in a guard, and the theorems below hold for every value.

Two things the runs are too small for rest on the theorems. In `two_halves` a batch holds all
events there are, so the limit of the query never bites there; `NobodyOvertakes` covers every
batch size. In `delivery` one process publishes and Kafka answers; duplicates that several
processes and counted retries make are covered by `DuplicatesExplained`.

Events and handlers are symmetric where the run checks no liveness; instances and runs are
not (`Host` tells them apart). In `requests` orders, keys and calls are.

For the start, the deadline is longer than an attempt and an attempt longer than a pause,
as with the code's 30 s, up to some 25 s of kafkajs's own retries, and 0.75 s; the broker
comes up at any moment until well after the deadline.

For PayOS, two digits and 50 in place of 36 and 10^8 keep what matters: five digits fit into
the shift with room to spare, one digit of the date too many leaves the exact numbers, and
the orders of `MCPayOSGateway` share a number because of what is lost, because of rounding,
or because `parseInt` stops early. Three pages and three deletions let rows move up from
each page into the one before, while the client is on it or behind it.

Deadlock checking is off in `payos` and `pagination`, whose systems do stop: when each link
is paid or cancelled and each verdict given, and when the client has read the last page.
Everywhere else the publisher's cron never stops, clients may repeat a call, and processes
are restarted.

### Fairness

* `OutboxPublisher`: weak fairness of `StartRun` (the cron ticks every few seconds), of the
  steps of a run and of each `publishEvent` (every awaited request is answered, with
  success or failure), of `CompleteShutdown` (the poll) and of `Restart` (a supervisor).
  Strong fairness of `FetchBatch` and `RetryCounted`: a database that is asked for ever
  answers some time. Kafka is never assumed to recover: `EventuallySettled` holds because
  the retries run out. Crashes, shutdowns, resets and cleanups have no fairness.
* `PaymentSystem`: strong fairness of a handler's own steps, for the database gives a lock
  that several wait for to each of them in time; weak fairness of the publisher's steps, for
  here Kafka and the database answer (`PublisherFaults = {}`); weak fairness of the restart.
  Nothing is assumed of clients, payers or ZaloPay; the request to ZaloPay has no timeout in
  the code. `CallbackReachesKafka` excepts the death of the process, and must: the webhook is
  answered before the work, so ZaloPay does not call again.
* `Bootstrap`: weak fairness of its progress: what it waits for is answered, with success
  or failure, and timers fire. Being killed or restarted has no fairness.

## Findings

* `replay` - `createPaymentIntent` answers a repeated key with `existing.paymentUrl`
  (`payment.service.ts:126`), but `toPaymentEntity` copies no URL, so the client gets none.
* `never_lost` - `cancelPayment` writes `'PaymentCancelled'`, for which the publisher has
  no topic; the event is retried to the limit and never sent. `OUTBOX_PATTERN.md` promises
  events are never lost.
* `query` - `getPaymentUrlByIdempotencyKey` always fails: the validation pipe's whitelist
  strips `idempotencyKey`, which `GetUrlDto` does not decorate. With the key a pending
  payment would still fail, since `PaymentStatusMapper.toProto` takes the proto value 0 for
  a missing one.

Not refuted by a run, for nothing executes it: `OUTBOX_PATTERN.md` describes an event for
the creation of a payment, which the code never saves, and the comments on PayOS's numbers
above.

## Proofs

### The publisher

`OutboxPublisherProofs` holds for every finite set of instances, any sets of events, runs
and payments, every `BatchSize`, `MaxRetries` and `MaxMessages` of at least 1, and every
value of the other bounds. The assumptions are those named in `Outbox` and
`OutboxPublisher`; TLC evaluates them in the runs.

| theorem | statement | argument |
|---|---|---|
| `TypeCorrect` | `Spec => []TypeOK` | inductive by itself |
| `OneBatchAtATime` | `Spec => []OneBatchPerInstance` | `FlagInv`: adds that a run not publishing has no task and that a stopped process has its flag clear. Without the first, `EndRun` could leave a task behind; without the second, a restarted process could come up with the flag set for nobody |
| `ShutdownDrains` | `Spec => []DrainedBeforeClose` | from `FlagInv`: down means flag clear, flag clear means no run, no run means no task |
| `PublishedMeansSent` | `Spec => []PublishedWasSent` | `DeliveryInv`: adds that a task sends to the topic of its event, and that a task awaiting the mark has its message stored; the property alone is not inductive, since `MarkSucceeds` needs the second |
| `RelayRefinement` | `Spec => ImplementsRelay` | each step maps to a step of `EventRelay` or a stutter, using `DeliveryInv` |
| `RetriesBounded` | `Spec => []RetryBudget` | `RetryInv`: the count plus the increments that batches in flight may still make is within the budget. Cardinalities of the sets of instances that may count carry the induction, hence `IsFiniteSet(Instance)` |
| `OneInstanceNeverResends` | with one instance, `Spec => []NeverResent` | inductive together with `FlagInv`, without which a second run of the process could hold a stale batch |
| `DuplicatesAccounted` | while the database answers, `Spec => []FewDuplicates` | `DuplicateInv`: each message of an unpublished event is explained by a stop, a reset or a counted retry, or belongs to an instance that has yet to mark or count (`Settling`); once the event is marked, only instances that still hold it from before (`Sending`) can add one each. `RetryInv` keeps the counts apart. A database that fails loses marks that nothing counts, and the messages are then bounded by nothing: hence the hypothesis |

### The payment service

`PaymentsProofs` holds for any sets of orders, keys, calls and events, every finite set of
handlers, every choice of settlements and faults, and every value of the bounds.

| theorem | statement | argument |
|---|---|---|
| `TypeCorrect` | `Spec => []TypeOK` | with `ClockInv`: the busy handlers that have no date yet (`Undated`) never outnumber the timestamps left. The bound on events is a bound on handlers that begin, so the date a handler draws later is within it only by that count; hence the finite set of handlers |
| `LinksAreBacked` | `Spec => []KnownLinksHaveRows` | from `LinkInv`: the link of an answer is in the row of its order, under its key |
| `LinksAreUnique` | `Spec => []OneLinkPerOrder` | from `LinkInv`, which also says that no key is in two rows. `OneLinkPerOrder` alone speaks of answers only, and an insert is kept from breaking it by the rows |
| `CompletedMeansPaid` | `Spec => []NoFalseCompletion` | `PaidInv`: a handler of a success is about a paid link at each of its awaits |
| `AnnouncementsInOrder` | `Spec => []NewestEventNamesStatus` | `LockInv`: one transaction at a time holds the lock of a row, and its event is dated after every event the payment has. Without the second part a commit could add an event that is not the newest |
| `SettlementsAnnounced` | a settled payment has a newest event, which names its status | inductive with `LockInv`; `NewestEventNamesStatus` says nothing of whether there is a newest one |
| `PaidCallbacksFindRows` | `Spec => []CallbackFindsRow` | `TxnInv`: a transaction id is in one row, and a paid link is in a row. A link can be paid only once somebody was given it, and by `LinkInv` it then has its row; rows never change their link, so the callback finds it whenever it comes |
| `LedgerRefinement` | `Spec => ImplementsLedger` | a commit maps to a step of `PaymentLedger`, by `LockInv`; every other step to an insert or a stutter |

### The whole

`PaymentSystemProofs` holds for all constants the halves allow. It first shows that every
behaviour of the composition is one of each half (`HalvesBehave`), so
their theorems hold of it, and that each step is a commit of both halves or a step of the
publisher's own that leaves `saved` alone (`SystemSplit`). What remains is to relate the two.

| theorem | statement | argument |
|---|---|---|
| `HalvesBehave` | `SystemSpec => Service!Spec /\ Publisher!Spec` | step by step: an action of the composition is an action of each half or leaves its variables alone; a death of the process is a `Crash` of either |
| `PromisesKept`, `AbstractionsHold` | `KnownLinksHaveRows`, `OneLinkPerOrder`, `OneBatchPerInstance`, `RetryBudget`, `PublishedWasSent` and both refinements hold in the composition | from `HalvesBehave` and the theorems of the halves |
| `HalvesAgree` | `SystemSpec => []OneTable` | a commit writes one row into both; no step of the publisher changes what the service wrote, or lets a row go without keeping it in `deleted` |
| `MessagesTrue` | `SystemSpec => []MessagesAreTrue` | `TopicInv`: whatever is in a topic, or on its way to it, is a saved event of its type. Messages alone are not inductive: a task holds the row of some time ago. Then `NoFalseCompletion` of the service speaks of the saved row |
| `NobodyOvertakes` | `SystemSpec => []NoOvertaking` | a commit adds no older event of a payment (`CommitIsNewest`, from the row lock); a batch skips no older row (`BatchSkipsNone`, from the order of the query); what was delivered or given up on stays so without resets (`OverStays`) |
| `SettlementsOnTheirWay` | `SystemSpec => []SettlementOnItsWay` | `SettlementsAnnounced` finds the event, `HalvesAgree` its row, and `DeliveryInv` says a published or deleted one was delivered |
| `AnnouncerRefinement` | `SystemSpec => ImplementsAnnouncer` | `ToldInv`: the announcements a reader finds in the topics are those of the events `EventRelay` calls delivered. A step of the service is a step of `PaymentLedger` that opens no paid payment and completes no unpaid one (`TxnInv`, `PaidInv`); a step of the publisher is a step of `EventRelay`, whose deliver and forget are `Tell` and `Forget` once `HalvesAgree` and `TopicInv` say what the delivered event announced |
| `DuplicatesExplained` | while the database answers, `SystemSpec => []FewDuplicates` | from `DuplicatesAccounted`; a death that a webhook handler causes is counted as any other |

### Requests, start, PayOS and pages

| theorem | statement | argument |
|---|---|---|
| `ImplementsPayments` | `ApiSpec => Spec` | each step of the surface is a step of `Payments` or leaves its variables alone; with it the theorems above hold of the surface |
| `AmountsAgree` | `ApiSpec => []RecordedAmountIsCharged` | `AmountInv`: a call that has its link holds the amount the link charges. It is kept because no link changes its charge, and what fits into the column is stored as it is |
| `ApiTypeCorrect` | `ApiSpec => []ApiTypeOK` | from the same invariant |
| `ConnectedBeforeServing` | `Spec => []ServesWhatItCan` | `StageInv`: what each stage of `bootstrap()` has from the stages behind it |
| `LoopEnds` | `Spec => []AttemptsEnd` | `LoopInv`: a pause begins before the deadline |
| `GivesUpOnlyLate` | `Spec => [](stage = "gaveUp" => upAt + MaxAttempt > Deadline)` | from `LoopInv`: an attempt that failed began before the broker was up, and ended after the deadline |
| `CodesTellOrdersApart` | the number of a proper order code is that of no order code with another date, or with another end of five digits | division with remainder, digit by digit: five characters in any base stay below the shift, also where `parseInt` stops early (`ParseIntInRange`), and what is rounded stays beyond what is exact (`RoundedIsLarge`) |
| `InfoOfAlike` | `Spec => []InfoIsAlike` | from `CodesTellOrdersApart` and `LinkInv`: a link is kept under the number made of its order |
| `CancellationHitsAlike` | `Spec => CancelsAlike` | from `CodesTellOrdersApart` and `LinkInv` |
| `CallbacksNamePayments` | `Spec => []CallbackFindsPayment` | a webhook is about a link there is, and a paid link stays paid |
| `PagesDisjoint` | `Spec => []NoRowTwice` | `PageInv`: rows the client has stand before the page asked for. Deletions only move rows forward, to the side of those it has; the cardinalities of `Rank` carry the induction |

| `DeletionsCostOneRow` | `Spec => []MissesAtMostDeleted` | `MissInv`: the rows of the beginning that the client did not get and that stand before the next row it will read (`Skipped`) are no more than the deletions so far, since a deletion moves one row at most over that line; and the count it took covers every row of the beginning, so its last page is not too early |

Every safety property the runs check is now a theorem, and so are the refinements and the
action property `CancelsAlike`. Only model-checked: what needs fairness (`EventuallySettled`,
`DrainTerminates`, `CompletedReachesKafka`, `CallbackReachesKafka`, `StartEnds`,
`TimelyBrokerFound`), which is out of the prover's reach; `GivesUpOnlyLate` is the safety half
of the last.

## Not modelled

Filters,
interceptors, logging, swagger, generated code and the protos of other services carry no
state and no control of their own. MACs and redirect URLs are data that no property tells
apart. The order of messages within a topic is not modelled. `onModuleDestroy` of the
Kafka producer and of the database client is never called, since no shutdown hooks are
enabled.

## Plan

Done, in this order: `Outbox`, `OutboxPublisher` with `EventRelay` and its proofs,
`Payments` with `PaymentLedger` and its proofs, `PaymentApi`, `Bootstrap`, `PaymentSystem`
with its proofs, `PayOSGateway`, `Pagination`. What could follow:

1. Topics as logs, partitioned by the key of a message: in which order a consumer sees the
   messages of one payment. `NoOvertaking` ends where a batch is sent.
2. The step lemmas behind the liveness properties: that the measure each of them rests on
   (retries left, events ahead in the queue) is never raised by a step but a reset.
