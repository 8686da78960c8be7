--------------------------- MODULE OutboxPublisher ---------------------------
(***************************************************************************)
(* OutboxPublisherService                                                  *)
(* (src/modules/outbox/outbox-publisher.service.ts): the cron job that     *)
(* takes unpublished events from the outbox table, sends each to Kafka and *)
(* marks it published, with the service's retries, cleanup and shutdown.   *)
(*                                                                         *)
(* An instance is a process of the application.  All instances share the   *)
(* table and Kafka.  A run is an invocation of processOutboxEvents, by the *)
(* cron tick or by triggerManualProcessing; several runs belong to one     *)
(* instance, so that invocations can overlap.  publishEvent is one task    *)
(* per run and event of its batch; the tasks of a batch run concurrently   *)
(* (Promise.allSettled).  A step ends where the code awaits: the answer of *)
(* the database or of Kafka arrives in a later step.                       *)
(*                                                                         *)
(* A request that fails may still have taken effect, when only its answer  *)
(* was lost.  The loss of an answer also stands for a crash that comes     *)
(* after the request took effect and before the answer.                    *)
(***************************************************************************)
EXTENDS Outbox

CONSTANTS
    Instance,      \* processes that run a publisher
    Run,           \* invocations of processOutboxEvents that may overlap
    Host,          \* the instance of each run
    BatchSize,     \* BATCH_SIZE, 100 in the code
    MaxRetries,    \* MAX_RETRIES, 5 in the code
    Faults,        \* which of "db" and "kafka" may refuse or lose a request
    MaxMessages,   \* bound: messages per event are counted up to this
    MaxStops,      \* bound: crashes and shutdowns
    MaxResets      \* bound: manual resets of failed events

ASSUME InstanceAssumption == IsFiniteSet(Instance)
ASSUME HostAssumption == Host \in [Run -> Instance]
ASSUME LimitsAssumption ==
    /\ BatchSize \in Nat \ {0}
    /\ MaxRetries \in Nat \ {0}
    /\ MaxMessages \in Nat \ {0}
    /\ MaxStops \in Nat
    /\ MaxResets \in Nat
ASSUME FaultsAssumption == Faults \subseteq {"db", "kafka"}

VARIABLES
    outbox,        \* the table
    deleted,       \* history: ids of the rows the cleanup deleted
    kafka,         \* messages of each event in each topic, one per messageId
    isProcessing,  \* the flag of each instance
    lifecycle,     \* "up", "draining" (isShuttingDown is set) or "down"
    stage,         \* of each run: "idle", or where processOutboxEvents waits
    task,          \* of each run and event: where publishEvent waits
    stops,         \* crashes and shutdowns so far
    resets         \* manual resets so far

vars == <<outbox, deleted, kafka, isProcessing, lifecycle, stage, task, stops, resets>>

KafkaTopic == {"payment.completed", "payment.failed", "payment.cancelled"}

\* A task that awaits producer.send is at the topic it sends to.  "mark" awaits
\* markAsPublished, "retry" the catch block's incrementRetryCount, and "skip"
\* the incrementRetryCount for an event without a topic.
TaskState == KafkaTopic \cup {"none", "skip", "mark", "retry", "settled"}

TypeOK ==
    /\ IsTable(outbox)
    /\ deleted \in SUBSET (Event \ DOMAIN outbox)
    /\ kafka \in [KafkaTopic -> [Event -> 0..MaxMessages]]
    /\ isProcessing \in [Instance -> BOOLEAN]
    /\ lifecycle \in [Instance -> {"up", "draining", "down"}]
    /\ stage \in [Run -> {"idle", "fetching", "publishing"}]
    /\ task \in [Run -> [Event -> TaskState]]
    /\ stops \in 0..MaxStops
    /\ resets \in 0..MaxResets

Init ==
    /\ outbox = [e \in {} |-> e]
    /\ deleted = {}
    /\ kafka = [topic \in KafkaTopic |-> [e \in Event |-> 0]]
    /\ isProcessing = [i \in Instance |-> FALSE]
    /\ lifecycle = [i \in Instance |-> "up"]
    /\ stage = [r \in Run |-> "idle"]
    /\ task = [r \in Run |-> [e \in Event |-> "none"]]
    /\ stops = 0
    /\ resets = 0

-----------------------------------------------------------------------------
(* The transactions of the payment service that save events               *)

\* A transaction that saved event e commits.  Rows become visible in any
\* order of createdAt: it is taken before the commit.
SavePaymentEvent(e, aggregateId, eventType, createdAt) ==
    /\ e \notin DOMAIN outbox \cup deleted
    /\ outbox' = SaveEvent(outbox, e, aggregateId, eventType, createdAt)
    /\ UNCHANGED <<deleted, kafka, isProcessing, lifecycle, stage, task, stops, resets>>

-----------------------------------------------------------------------------
(* processOutboxEvents                                                     *)

\* Mutant: isProcessing is not checked.
StartRunUnchecked(r) ==
    /\ stage[r] = "idle"
    /\ lifecycle[Host[r]] = "up"
    /\ isProcessing' = [isProcessing EXCEPT ![Host[r]] = TRUE]
    /\ stage' = [stage EXCEPT ![r] = "fetching"]
    /\ UNCHANGED <<outbox, deleted, kafka, lifecycle, task, stops, resets>>

\* Mutant: isShuttingDown is not checked.
StartRunDraining(r) ==
    /\ stage[r] = "idle"
    /\ ~isProcessing[Host[r]]
    /\ lifecycle[Host[r]] # "down"
    /\ isProcessing' = [isProcessing EXCEPT ![Host[r]] = TRUE]
    /\ stage' = [stage EXCEPT ![r] = "fetching"]
    /\ UNCHANGED <<outbox, deleted, kafka, lifecycle, task, stops, resets>>

\* The check of the two flags and the assignment of isProcessing are
\* synchronous.  When the check fails the invocation returns and nothing
\* changes.
StartRun(r) ==
    /\ stage[r] = "idle"
    /\ ~isProcessing[Host[r]]
    /\ lifecycle[Host[r]] = "up"
    /\ isProcessing' = [isProcessing EXCEPT ![Host[r]] = TRUE]
    /\ stage' = [stage EXCEPT ![r] = "fetching"]
    /\ UNCHANGED <<outbox, deleted, kafka, lifecycle, task, stops, resets>>

\* The finally block of processOutboxEvents.
EndRun(r) ==
    /\ isProcessing' = [isProcessing EXCEPT ![Host[r]] = FALSE]
    /\ stage' = [stage EXCEPT ![r] = "idle"]
    /\ task' = [task EXCEPT ![r] = [e \in Event |-> "none"]]

\* Mutant: a failed payment goes to the topic of the completed ones.
OneTopicForAll(eventType) ==
    IF eventType \in {"PAYMENT_COMPLETED", "PAYMENT_FAILED"} THEN "payment.completed" ELSE "null"

GetTopicForEventType(eventType) ==
    CASE eventType = "PAYMENT_COMPLETED" -> "payment.completed"
      [] eventType = "PAYMENT_FAILED"    -> "payment.failed"
      [] OTHER                           -> "null"

\* publishEvent up to its first await, with the row as it was fetched.
PublishEvent(event) ==
    LET topic == GetTopicForEventType(event.eventType)
    IN  IF topic = "null" THEN "skip" ELSE topic

\* getUnpublishedEvents answers: an empty batch ends the run, another starts
\* a publishEvent for each of its events.
FetchBatch(r) ==
    /\ stage[r] = "fetching"
    /\ \E batch \in UnpublishedEvents(outbox, BatchSize, MaxRetries) :
         \/ /\ batch = {}
            /\ EndRun(r)
         \/ /\ batch # {}
            /\ stage' = [stage EXCEPT ![r] = "publishing"]
            /\ task' = [task EXCEPT ![r] =
                 [e \in Event |-> IF e \in batch THEN PublishEvent(outbox[e]) ELSE "none"]]
            /\ UNCHANGED isProcessing
    /\ UNCHANGED <<outbox, deleted, kafka, lifecycle, stops, resets>>

\* getUnpublishedEvents throws.
FetchFails(r) ==
    /\ "db" \in Faults
    /\ stage[r] = "fetching"
    /\ EndRun(r)
    /\ UNCHANGED <<outbox, deleted, kafka, lifecycle, stops, resets>>

\* Promise.allSettled: the run ends when no task waits any more.
FinishBatch(r) ==
    /\ stage[r] = "publishing"
    /\ \A e \in Event : task[r][e] \in {"none", "settled"}
    /\ EndRun(r)
    /\ UNCHANGED <<outbox, deleted, kafka, lifecycle, stops, resets>>

-----------------------------------------------------------------------------
(* publishEvent of run r for event e                                       *)

\* The task goes on to where `next` waits.
Advance(r, e, next) == task' = [task EXCEPT ![r][e] = next]

\* Kafka stores a message, under a messageId of its own: publishEvent draws a
\* random one for each call.
Produce(topic, e) ==
    kafka' = [kafka EXCEPT ![topic][e] = IF @ < MaxMessages THEN @ + 1 ELSE @]

\* producer.send resolves after all in-sync replicas have the message.
SendAcknowledged(r, e) ==
    /\ task[r][e] \in KafkaTopic
    /\ Produce(task[r][e], e)
    /\ Advance(r, e, "mark")
    /\ UNCHANGED <<outbox, deleted, isProcessing, lifecycle, stage, stops, resets>>

\* Mutant: publish is not awaited, so its failure goes unseen.
SendFailureUnseen(r, e) ==
    /\ "kafka" \in Faults
    /\ task[r][e] \in KafkaTopic
    /\ Advance(r, e, "mark")
    /\ UNCHANGED <<outbox, deleted, kafka, isProcessing, lifecycle, stage, stops, resets>>

\* producer.send rejects, having stored the message or not.
SendRejected(r, e) ==
    /\ "kafka" \in Faults
    /\ task[r][e] \in KafkaTopic
    /\ Produce(task[r][e], e) \/ UNCHANGED kafka
    /\ Advance(r, e, "retry")
    /\ UNCHANGED <<outbox, deleted, isProcessing, lifecycle, stage, stops, resets>>

MarkSucceeds(r, e) ==
    /\ task[r][e] = "mark"
    /\ e \in DOMAIN outbox
    /\ outbox' = MarkAsPublished(outbox, e)
    /\ Advance(r, e, "settled")
    /\ UNCHANGED <<deleted, kafka, isProcessing, lifecycle, stage, stops, resets>>

\* markAsPublished throws: the row is gone, or the database failed before or
\* after the update.
MarkFails(r, e) ==
    /\ task[r][e] = "mark"
    /\ \/ e \notin DOMAIN outbox /\ UNCHANGED outbox
       \/ "db" \in Faults /\ UNCHANGED outbox
       \/ "db" \in Faults /\ e \in DOMAIN outbox /\ outbox' = MarkAsPublished(outbox, e)
    /\ Advance(r, e, "retry")
    /\ UNCHANGED <<deleted, kafka, isProcessing, lifecycle, stage, stops, resets>>

\* The catch block counts the attempt and rethrows.
RetryCounted(r, e) ==
    /\ task[r][e] = "retry"
    /\ e \in DOMAIN outbox
    /\ outbox' = IncrementRetryCount(outbox, e)
    /\ Advance(r, e, "settled")
    /\ UNCHANGED <<deleted, kafka, isProcessing, lifecycle, stage, stops, resets>>

\* incrementRetryCount throws inside the catch block.
RetryNotCounted(r, e) ==
    /\ task[r][e] = "retry"
    /\ e \notin DOMAIN outbox \/ "db" \in Faults
    /\ Advance(r, e, "settled")
    /\ UNCHANGED <<outbox, deleted, kafka, isProcessing, lifecycle, stage, stops, resets>>

\* Mutant: an event without a topic is skipped and not counted.
SkipUncounted(r, e) ==
    /\ task[r][e] = "skip"
    /\ Advance(r, e, "settled")
    /\ UNCHANGED <<outbox, deleted, kafka, isProcessing, lifecycle, stage, stops, resets>>

\* An event without a topic is only counted.
SkipCounted(r, e) ==
    /\ task[r][e] = "skip"
    /\ e \in DOMAIN outbox
    /\ outbox' = IncrementRetryCount(outbox, e)
    /\ Advance(r, e, "settled")
    /\ UNCHANGED <<deleted, kafka, isProcessing, lifecycle, stage, stops, resets>>

\* incrementRetryCount throws inside the try block, before or after the
\* update: the catch block counts the event again.
SkipFails(r, e) ==
    /\ task[r][e] = "skip"
    /\ \/ e \notin DOMAIN outbox /\ UNCHANGED outbox
       \/ "db" \in Faults /\ UNCHANGED outbox
       \/ "db" \in Faults /\ e \in DOMAIN outbox /\ outbox' = IncrementRetryCount(outbox, e)
    /\ Advance(r, e, "retry")
    /\ UNCHANGED <<deleted, kafka, isProcessing, lifecycle, stage, stops, resets>>

-----------------------------------------------------------------------------
(* Cleanup, manual reset, shutdown, crash                                  *)

\* Row e was published more than seven days ago.
PublishedLongAgo(e) ==
    /\ e \in DOMAIN outbox
    /\ outbox[e].publishedAt = "recent"
    /\ outbox' = GrowOld(outbox, e)
    /\ UNCHANGED <<deleted, kafka, isProcessing, lifecycle, stage, task, stops, resets>>

\* cleanupOldEvents on an instance; it does not look at isShuttingDown.
CleanupOldEvents(i) ==
    /\ lifecycle[i] # "down"
    /\ OldPublishedEvents(outbox) # {}
    /\ outbox' = DeleteOldPublishedEvents(outbox)
    /\ deleted' = deleted \cup OldPublishedEvents(outbox)
    /\ UNCHANGED <<kafka, isProcessing, lifecycle, stage, task, stops, resets>>

\* An operator resets an event that getFailedEvents reports.
ResetFailed(e) ==
    /\ resets < MaxResets
    /\ e \in FailedEvents(outbox, MaxRetries)
    /\ outbox' = ResetFailedEvent(outbox, e)
    /\ resets' = resets + 1
    /\ UNCHANGED <<deleted, kafka, isProcessing, lifecycle, stage, task, stops>>

\* onModuleDestroy sets isShuttingDown and waits for isProcessing to clear.
BeginShutdown(i) ==
    /\ stops < MaxStops
    /\ lifecycle[i] = "up"
    /\ lifecycle' = [lifecycle EXCEPT ![i] = "draining"]
    /\ stops' = stops + 1
    /\ UNCHANGED <<outbox, deleted, kafka, isProcessing, stage, task, resets>>

\* Mutant: onModuleDestroy does not wait for the batch.
ShutdownAtOnce(i) ==
    /\ lifecycle[i] = "draining"
    /\ lifecycle' = [lifecycle EXCEPT ![i] = "down"]
    /\ UNCHANGED <<outbox, deleted, kafka, isProcessing, stage, task, stops, resets>>

CompleteShutdown(i) ==
    /\ lifecycle[i] = "draining"
    /\ ~isProcessing[i]
    /\ lifecycle' = [lifecycle EXCEPT ![i] = "down"]
    /\ UNCHANGED <<outbox, deleted, kafka, isProcessing, stage, task, stops, resets>>

\* The process dies: its memory is gone, the table and Kafka stay.
Crash(i) ==
    /\ stops < MaxStops
    /\ lifecycle[i] # "down"
    /\ lifecycle' = [lifecycle EXCEPT ![i] = "down"]
    /\ isProcessing' = [isProcessing EXCEPT ![i] = FALSE]
    /\ stage' = [r \in Run |-> IF Host[r] = i THEN "idle" ELSE stage[r]]
    /\ task' = [r \in Run |-> IF Host[r] = i THEN [e \in Event |-> "none"] ELSE task[r]]
    /\ stops' = stops + 1
    /\ UNCHANGED <<outbox, deleted, kafka, resets>>

\* The instance is started again, with the initial value of each field.
Restart(i) ==
    /\ lifecycle[i] = "down"
    /\ lifecycle' = [lifecycle EXCEPT ![i] = "up"]
    /\ UNCHANGED <<outbox, deleted, kafka, isProcessing, stage, task, stops, resets>>

-----------------------------------------------------------------------------

RunStep(r) == StartRun(r) \/ FetchBatch(r) \/ FetchFails(r) \/ FinishBatch(r)

TaskStep(r, e) ==
    \/ SendAcknowledged(r, e) \/ SendRejected(r, e)
    \/ MarkSucceeds(r, e) \/ MarkFails(r, e)
    \/ RetryCounted(r, e) \/ RetryNotCounted(r, e)
    \/ SkipCounted(r, e) \/ SkipFails(r, e)

InstanceStep(i) ==
    CleanupOldEvents(i) \/ BeginShutdown(i) \/ CompleteShutdown(i) \/ Crash(i) \/ Restart(i)

EventStep(e) ==
    \/ \E a \in Aggregate, type \in EventType, t \in Timestamp : SavePaymentEvent(e, a, type, t)
    \/ PublishedLongAgo(e)
    \/ ResetFailed(e)

Next ==
    \/ \E r \in Run : RunStep(r)
    \/ \E r \in Run, e \in Event : TaskStep(r, e)
    \/ \E i \in Instance : InstanceStep(i)
    \/ \E e \in Event : EventStep(e)

Spec == Init /\ [][Next]_vars

(***************************************************************************)
(* Fairness.  The cron keeps ticking; every awaited request is answered,   *)
(* one way or the other; a stopped instance is started again.  That the    *)
(* database answers a query or an increment that is tried again and again  *)
(* is an assumption on the environment.  Nothing makes Kafka recover, and  *)
(* nothing is assumed of cleanup, resets, crashes and shutdowns.           *)
(***************************************************************************)
Fairness ==
    /\ \A r \in Run :
         /\ WF_vars(StartRun(r))
         /\ SF_vars(FetchBatch(r))
         /\ WF_vars(FetchFails(r) \/ FinishBatch(r))
    /\ \A r \in Run, e \in Event :
         /\ WF_vars(TaskStep(r, e))
         /\ SF_vars(RetryCounted(r, e))
    /\ \A i \in Instance : WF_vars(CompleteShutdown(i)) /\ WF_vars(Restart(i))

FairSpec == Spec /\ Fairness

-----------------------------------------------------------------------------
(* Properties                                                              *)

Routable(eventType) == GetTopicForEventType(eventType) # "null"

\* Kafka holds a message of event e.
Delivered(e) == \E topic \in KafkaTopic : kafka[topic][e] > 0

\* markAsPublished is only ever reached with the message stored, whatever
\* crashes, lost answers and other instances do in between: a row that says
\* published has a message in the topic of its type, and a row the cleanup
\* deleted was delivered.
PublishedWasSent ==
    /\ \A e \in DOMAIN outbox :
         outbox[e].published =>
           /\ Routable(outbox[e].eventType)
           /\ kafka[GetTopicForEventType(outbox[e].eventType)][e] > 0
    /\ \A e \in deleted : Delivered(e)

\* isProcessing does its job: it is set exactly while one run of the instance
\* is under way, so cron ticks and manual triggers never work on two batches
\* at a time and no path through the finally block leaves it stuck.
OneBatchPerInstance ==
    \A i \in Instance :
        /\ isProcessing[i] <=> \E r \in Run : Host[r] = i /\ stage[r] # "idle"
        /\ \A r, s \in Run :
             (Host[r] = i /\ Host[s] = i /\ stage[r] # "idle" /\ stage[s] # "idle") => r = s

\* onModuleDestroy returns only when nothing of the batch is in flight.
DrainedBeforeClose ==
    \A r \in Run : lifecycle[Host[r]] = "down" =>
        stage[r] = "idle" /\ \A e \in Event : task[r][e] = "none"

\* The inductive invariant behind the flag and the shutdown.
FlagInv ==
    /\ OneBatchPerInstance
    /\ \A r \in Run : stage[r] # "publishing" => \A e \in Event : task[r][e] = "none"
    /\ \A i \in Instance : lifecycle[i] = "down" => ~isProcessing[i]

\* The inductive invariant behind delivery: a task sends to the topic of its
\* event, and only reaches markAsPublished behind a stored message.
DeliveryInv ==
    /\ PublishedWasSent
    /\ \A r \in Run, e \in Event :
         /\ task[r][e] \in KafkaTopic \cup {"mark"} => e \in DOMAIN outbox \cup deleted
         /\ task[r][e] \in KafkaTopic /\ e \in DOMAIN outbox =>
              task[r][e] = GetTopicForEventType(outbox[e].eventType)
         /\ task[r][e] = "mark" /\ e \in DOMAIN outbox =>
              /\ Routable(outbox[e].eventType)
              /\ kafka[GetTopicForEventType(outbox[e].eventType)][e] > 0
         /\ task[r][e] = "skip" => e \in DOMAIN outbox /\ ~Routable(outbox[e].eventType)

\* How often one batch may count a retry of an event: once, and twice where the
\* unknown-type branch fails after its update and the catch block counts again.
RetriesPerBatch(eventType) == IF Routable(eventType) THEN 1 ELSE 2

\* The limit on retries survives concurrency: what is counted beyond the last
\* fetch is what the batches already in flight, one per instance, may add.
RetryBudget ==
    \A e \in DOMAIN outbox :
        outbox[e].retryCount <=
            MaxRetries - 1 + Cardinality(Instance) * RetriesPerBatch(outbox[e].eventType)

\* The instances whose batch may still count a retry of event e, and those
\* that may count two.
MayCount(e) ==
    {i \in Instance : \E r \in Run : Host[r] = i /\ task[r][e] \notin {"none", "settled"}}

MayCountTwice(e) ==
    {i \in Instance : \E r \in Run : Host[r] = i /\ task[r][e] = "skip"}

\* The inductive invariant behind the budget: the retries still to come are
\* part of it.
RetryInv ==
    \A e \in DOMAIN outbox :
        outbox[e].retryCount + Cardinality(MayCount(e)) + Cardinality(MayCountTwice(e)) <=
            MaxRetries - 1 + Cardinality(Instance) * RetriesPerBatch(outbox[e].eventType)

\* With one instance nobody is sending an event that is marked published, not
\* even a run that overlaps the one that marked it, or a restarted process.
NeverResent ==
    \A r \in Run, e \in DOMAIN outbox :
        outbox[e].published => task[r][e] \notin KafkaTopic

\* The retries an operator may have taken back by resets.  Only an event that
\* Kafka refused can be reset and sent again.
Forgiven ==
    IF "kafka" \in Faults THEN resets * (MaxRetries - 1 + Cardinality(Instance)) ELSE 0

\* The messages of event e that a stop of a process or a retry explains.
Excused(e) == stops + outbox[e].retryCount + Forgiven

\* While the database answers, duplicates are accounted for: an event has one
\* message per instance, one per process that stopped and one per retry counted
\* against it, at most, and where Kafka answers too no retry is ever counted.
FewDuplicates ==
    \A e \in DOMAIN outbox : Routable(outbox[e].eventType) =>
        /\ "kafka" \notin Faults => outbox[e].retryCount = 0
        /\ \A topic \in KafkaTopic :
             kafka[topic][e] <= Cardinality(Instance) + Excused(e)

\* The instances that are about to send event e, and those whose message of it
\* waits for the mark or for the count of a retry.
Sending(e) == {i \in Instance : \E r \in Run : Host[r] = i /\ task[r][e] \in KafkaTopic}

Settling(e) == {i \in Instance : \E r \in Run : Host[r] = i /\ task[r][e] \in {"mark", "retry"}}

\* A message of an unpublished event is explained, or belongs to an instance that
\* has yet to settle it; the first mark leaves one more to each instance that is
\* still sending.
Accounted(topic, e) ==
    IF outbox[e].published
    THEN kafka[topic][e] + Cardinality(Sending(e)) <= Cardinality(Instance) + Excused(e)
    ELSE kafka[topic][e] <= Cardinality(Settling(e)) + Excused(e)

\* The inductive invariant behind it: every message is accounted for, and where
\* Kafka answers only a deleted event gets into a catch block.
DuplicateInv ==
    /\ \A topic \in KafkaTopic, e \in DOMAIN outbox :
         Routable(outbox[e].eventType) => Accounted(topic, e)
    /\ "kafka" \notin Faults =>
         /\ \A e \in DOMAIN outbox :
              Routable(outbox[e].eventType) => outbox[e].retryCount = 0
         /\ \A r \in Run, e \in Event : task[r][e] = "retry" => e \in deleted
    /\ \A topic \in KafkaTopic, e \in Event :
         e \notin DOMAIN outbox \cup deleted => kafka[topic][e] = 0

\* A saved event does not stay in the queue for ever: it is published or given
\* up on, whatever Kafka does and however short the batch is.
EventuallySettled ==
    \A e \in Event :
        e \in PendingEvents(outbox, MaxRetries) ~> e \notin PendingEvents(outbox, MaxRetries)

\* onModuleDestroy returns: the batch it waits for comes to an end.
DrainTerminates ==
    \A i \in Instance : lifecycle[i] = "draining" ~> lifecycle[i] = "down"

\* The publisher implements EventRelay.
Relay == INSTANCE EventRelay WITH
    accepted  <- DOMAIN outbox \cup deleted,
    delivered <- {e \in Event : Delivered(e)},
    confirmed <- {e \in DOMAIN outbox : outbox[e].published} \cup deleted,
    forgotten <- deleted

\* At least once, and never unconfirmed: every step of the publisher is a step
\* of the relay or leaves it alone.
ImplementsRelay == Relay!RelaySpec

\* OUTBOX_PATTERN.md: "Events are never lost".  The code has no topic for the
\* event cancelPayment saves.
EventsNeverLost ==
    \A e \in Event : e \in DOMAIN outbox ~> Delivered(e)

=============================================================================
