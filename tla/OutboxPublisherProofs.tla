------------------------ MODULE OutboxPublisherProofs ------------------------
(***************************************************************************)
(* What OutboxPublisher guarantees for any number of events, instances and *)
(* runs, any batch size and retry limit, and any faults.                   *)
(***************************************************************************)
EXTENDS OutboxPublisher, OutboxProofs, FiniteSetTheorems, TLAPS

-----------------------------------------------------------------------------
(* Type correctness                                                        *)

\* Every topic an event type maps to is a Kafka topic.
LEMMA TopicIsKafkaTopic ==
    ASSUME NEW type \in EventType, Routable(type)
    PROVE  GetTopicForEventType(type) \in KafkaTopic
  BY DEF EventType, Routable, GetTopicForEventType, KafkaTopic

\* A task starts where publishEvent first waits.
LEMMA PublishEventStarts ==
    ASSUME NEW row \in Row
    PROVE  /\ PublishEvent(row) \in TaskState
           /\ Routable(row.eventType) => PublishEvent(row) = GetTopicForEventType(row.eventType)
           /\ ~Routable(row.eventType) => PublishEvent(row) = "skip"
  BY DEF Row, PublishEvent, Routable, GetTopicForEventType, TaskState, KafkaTopic

\* The end of a run keeps the types of what it resets.
LEMMA EndRunType ==
    ASSUME TypeOK, NEW r \in Run, EndRun(r)
    PROVE  /\ isProcessing' \in [Instance -> BOOLEAN]
           /\ stage' \in [Run -> {"idle", "fetching", "publishing"}]
           /\ task' \in [Run -> [Event -> TaskState]]
  BY HostAssumption DEF TypeOK, EndRun, TaskState

\* A message more keeps the type of Kafka.
LEMMA ProduceType ==
    ASSUME TypeOK, NEW topic \in KafkaTopic, NEW e \in Event, Produce(topic, e)
    PROVE  kafka' \in [KafkaTopic -> [Event -> 0..MaxMessages]]
  BY LimitsAssumption DEF TypeOK, Produce

\* The variables have their types in every reachable state.
LEMMA TypeInit == Init => TypeOK
  BY LimitsAssumption DEF Init, TypeOK, IsTable, TaskState

LEMMA RunStepType ==
    ASSUME TypeOK, NEW r \in Run, RunStep(r)
    PROVE  TypeOK'
  <1>1. CASE StartRun(r)
    BY <1>1, HostAssumption DEF TypeOK, StartRun
  <1>2. CASE FetchBatch(r)
    <2>1. PICK batch \in UnpublishedEvents(outbox, BatchSize, MaxRetries) :
            \/ EndRun(r)
            \/ /\ stage' = [stage EXCEPT ![r] = "publishing"]
               /\ task' = [task EXCEPT ![r] =
                    [e \in Event |-> IF e \in batch THEN PublishEvent(outbox[e]) ELSE "none"]]
               /\ UNCHANGED isProcessing
      BY <1>2 DEF FetchBatch
    <2>2. \A e \in batch : PublishEvent(outbox[e]) \in TaskState
      BY <2>1, BatchIsPending, PublishEventStarts DEF TypeOK, IsTable
    <2>3. /\ isProcessing' \in [Instance -> BOOLEAN]
          /\ stage' \in [Run -> {"idle", "fetching", "publishing"}]
          /\ task' \in [Run -> [Event -> TaskState]]
      BY <2>1, <2>2, EndRunType DEF TypeOK, TaskState
    <2>4. QED
      BY <1>2, <2>3 DEF TypeOK, FetchBatch
  <1>3. CASE FetchFails(r)
    BY <1>3, EndRunType DEF TypeOK, FetchFails
  <1>4. CASE FinishBatch(r)
    BY <1>4, EndRunType DEF TypeOK, FinishBatch
  <1>5. QED
    BY <1>1, <1>2, <1>3, <1>4 DEF RunStep

\* A step of a task moves it to a task state, and its table operations yield
\* tables over the same rows.
LEMMA AdvanceType ==
    ASSUME TypeOK, NEW r \in Run, NEW e \in Event, NEW next \in TaskState,
           Advance(r, e, next)
    PROVE  task' \in [Run -> [Event -> TaskState]]
  BY DEF TypeOK, Advance

LEMMA TaskStepType ==
    ASSUME TypeOK, NEW r \in Run, NEW e \in Event, TaskStep(r, e)
    PROVE  TypeOK'
  <1>1. CASE SendAcknowledged(r, e) \/ SendRejected(r, e)
    <2>1. /\ kafka' \in [KafkaTopic -> [Event -> 0..MaxMessages]]
          /\ task' \in [Run -> [Event -> TaskState]]
      BY <1>1, ProduceType, AdvanceType
         DEF SendAcknowledged, SendRejected, TypeOK, TaskState
    <2>2. QED
      BY <1>1, <2>1 DEF SendAcknowledged, SendRejected, TypeOK
  <1>2. CASE MarkSucceeds(r, e) \/ MarkFails(r, e)
    <2>1. /\ IsTable(outbox')
          /\ DOMAIN outbox' = DOMAIN outbox
          /\ task' \in [Run -> [Event -> TaskState]]
      BY <1>2, MarkAsPublishedTable, AdvanceType
         DEF MarkSucceeds, MarkFails, TypeOK, TaskState
    <2>2. QED
      BY <1>2, <2>1 DEF MarkSucceeds, MarkFails, TypeOK
  <1>3. CASE RetryCounted(r, e) \/ RetryNotCounted(r, e)
    <2>1. /\ IsTable(outbox')
          /\ DOMAIN outbox' = DOMAIN outbox
          /\ task' \in [Run -> [Event -> TaskState]]
      BY <1>3, IncrementRetryCountTable, AdvanceType
         DEF RetryCounted, RetryNotCounted, TypeOK, TaskState
    <2>2. QED
      BY <1>3, <2>1 DEF RetryCounted, RetryNotCounted, TypeOK
  <1>4. CASE SkipCounted(r, e) \/ SkipFails(r, e)
    <2>1. /\ IsTable(outbox')
          /\ DOMAIN outbox' = DOMAIN outbox
          /\ task' \in [Run -> [Event -> TaskState]]
      BY <1>4, IncrementRetryCountTable, AdvanceType
         DEF SkipCounted, SkipFails, TypeOK, TaskState
    <2>2. QED
      BY <1>4, <2>1 DEF SkipCounted, SkipFails, TypeOK
  <1>5. QED
    BY <1>1, <1>2, <1>3, <1>4 DEF TaskStep

LEMMA InstanceStepType ==
    ASSUME TypeOK, NEW i \in Instance, InstanceStep(i)
    PROVE  TypeOK'
  <1>1. CASE CleanupOldEvents(i)
    <2>1. /\ IsTable(outbox')
          /\ DOMAIN outbox' = DOMAIN outbox \ OldPublishedEvents(outbox)
          /\ OldPublishedEvents(outbox) \subseteq DOMAIN outbox
      BY <1>1, DeleteOldPublishedEventsTable DEF TypeOK, CleanupOldEvents
    <2>2. DOMAIN outbox \subseteq Event
      BY DEF TypeOK, IsTable
    <2>3. deleted' \in SUBSET (Event \ DOMAIN outbox')
      BY <1>1, <2>1, <2>2 DEF TypeOK, CleanupOldEvents
    <2>4. QED
      BY <1>1, <2>1, <2>3 DEF TypeOK, CleanupOldEvents
  <1>2. CASE BeginShutdown(i)
    BY <1>2, LimitsAssumption DEF TypeOK, BeginShutdown
  <1>3. CASE CompleteShutdown(i)
    BY <1>3 DEF TypeOK, CompleteShutdown
  <1>4. CASE Crash(i)
    BY <1>4, LimitsAssumption DEF TypeOK, Crash, TaskState
  <1>5. CASE Restart(i)
    BY <1>5 DEF TypeOK, Restart
  <1>6. QED
    BY <1>1, <1>2, <1>3, <1>4, <1>5 DEF InstanceStep

LEMMA EventStepType ==
    ASSUME TypeOK, NEW e \in Event, EventStep(e)
    PROVE  TypeOK'
  <1>1. ASSUME NEW a \in Aggregate, NEW type \in EventType, NEW t \in Timestamp,
               SavePaymentEvent(e, a, type, t)
        PROVE  TypeOK'
    <2>1. /\ e \notin DOMAIN outbox
          /\ outbox' = SaveEvent(outbox, e, a, type, t)
      BY <1>1 DEF SavePaymentEvent
    <2>2. IsTable(outbox') /\ DOMAIN outbox' = DOMAIN outbox \cup {e}
      <3>1. IsTable(outbox)
        BY DEF TypeOK
      <3>2. /\ IsTable(SaveEvent(outbox, e, a, type, t))
            /\ DOMAIN SaveEvent(outbox, e, a, type, t) = DOMAIN outbox \cup {e}
        BY <2>1, <3>1, SaveEventTable
      <3>3. QED
        BY <2>1, <3>2
    <2>3. QED
      BY <1>1, <2>2 DEF TypeOK, SavePaymentEvent
  <1>2. CASE PublishedLongAgo(e)
    BY <1>2, GrowOldTable DEF TypeOK, PublishedLongAgo
  <1>3. CASE ResetFailed(e)
    BY <1>3, ResetFailedEventTable, LimitsAssumption
       DEF TypeOK, ResetFailed, FailedEvents
  <1>4. QED
    BY <1>1, <1>2, <1>3 DEF EventStep

LEMMA TypeStep == TypeOK /\ [Next]_vars => TypeOK'
  <1> SUFFICES ASSUME TypeOK, [Next]_vars PROVE TypeOK'
    OBVIOUS
  <1>1. CASE Next
    BY <1>1, RunStepType, TaskStepType, InstanceStepType, EventStepType DEF Next
  <1>2. CASE UNCHANGED vars
    BY <1>2 DEF vars, TypeOK
  <1>3. QED
    BY <1>1, <1>2

\* Every variable keeps its type: the rows of the table are rows whatever the
\* order of saves, updates and cleanups, and the counts stay natural numbers.
THEOREM TypeCorrect == Spec => []TypeOK
  BY TypeInit, TypeStep, PTL DEF Spec

-----------------------------------------------------------------------------
(* One batch per instance, and a shutdown that waits for it                *)

LEMMA FlagInit == Init => FlagInv
  BY DEF Init, FlagInv, OneBatchPerInstance

\* The end of a run clears the flag of its instance and its tasks.
LEMMA EndRunFlag ==
    ASSUME TypeOK, FlagInv, NEW r \in Run, stage[r] # "idle", EndRun(r), UNCHANGED lifecycle
    PROVE  FlagInv'
  BY HostAssumption DEF TypeOK, FlagInv, OneBatchPerInstance, EndRun

LEMMA RunStepFlag ==
    ASSUME TypeOK, FlagInv, NEW r \in Run, RunStep(r)
    PROVE  FlagInv'
  <1>1. CASE StartRun(r)
    BY <1>1, HostAssumption DEF TypeOK, FlagInv, OneBatchPerInstance, StartRun
  <1>2. CASE FetchBatch(r)
    <2>1. CASE EndRun(r)
      BY <1>2, <2>1, EndRunFlag DEF FetchBatch
    <2>2. CASE /\ stage' = [stage EXCEPT ![r] = "publishing"]
               /\ \A s \in Run : s # r => task'[s] = task[s]
               /\ UNCHANGED isProcessing
      BY <1>2, <2>2 DEF TypeOK, FlagInv, OneBatchPerInstance, FetchBatch
    <2>3. QED
      BY <1>2, <2>1, <2>2 DEF FetchBatch, TypeOK
  <1>3. CASE FetchFails(r)
    BY <1>3, EndRunFlag DEF FetchFails
  <1>4. CASE FinishBatch(r)
    BY <1>4, EndRunFlag DEF FinishBatch
  <1>5. QED
    BY <1>1, <1>2, <1>3, <1>4 DEF RunStep

\* A task only moves while its run is publishing.
LEMMA TaskStepFlag ==
    ASSUME TypeOK, FlagInv, NEW r \in Run, NEW e \in Event, TaskStep(r, e)
    PROVE  FlagInv'
  <1>1. /\ task[r][e] # "none"
        /\ \E next \in TaskState : Advance(r, e, next)
        /\ UNCHANGED <<isProcessing, lifecycle, stage>>
    BY DEF TaskStep, SendAcknowledged, SendRejected, MarkSucceeds, MarkFails, RetryCounted,
           RetryNotCounted, SkipCounted, SkipFails, TaskState, KafkaTopic
  <1>2. QED
    BY <1>1 DEF TypeOK, FlagInv, OneBatchPerInstance, Advance

LEMMA InstanceStepFlag ==
    ASSUME TypeOK, FlagInv, NEW i \in Instance, InstanceStep(i)
    PROVE  FlagInv'
  <1>1. CASE CleanupOldEvents(i) \/ BeginShutdown(i) \/ CompleteShutdown(i) \/ Restart(i)
    BY <1>1 DEF TypeOK, FlagInv, OneBatchPerInstance, CleanupOldEvents, BeginShutdown,
                CompleteShutdown, Restart
  <1>2. CASE Crash(i)
    BY <1>2, HostAssumption DEF TypeOK, FlagInv, OneBatchPerInstance, Crash
  <1>3. QED
    BY <1>1, <1>2 DEF InstanceStep

LEMMA FlagStep == TypeOK /\ FlagInv /\ [Next]_vars => FlagInv'
  <1> SUFFICES ASSUME TypeOK, FlagInv, [Next]_vars PROVE FlagInv'
    OBVIOUS
  <1>1. CASE \E e \in Event : EventStep(e)
    BY <1>1 DEF FlagInv, OneBatchPerInstance, EventStep, SavePaymentEvent, PublishedLongAgo,
                ResetFailed
  <1>2. CASE UNCHANGED vars
    BY <1>2 DEF vars, FlagInv, OneBatchPerInstance
  <1>3. QED
    BY <1>1, <1>2, RunStepFlag, TaskStepFlag, InstanceStepFlag DEF Next

LEMMA FlagInvariant == Spec => []FlagInv
  BY TypeCorrect, FlagInit, FlagStep, PTL DEF Spec

\* isProcessing is set exactly while one run of the instance is under way, for
\* any number of overlapping invocations.
THEOREM OneBatchAtATime == Spec => []OneBatchPerInstance
  <1>1. FlagInv => OneBatchPerInstance
    BY DEF FlagInv
  <1>2. QED
    BY <1>1, FlagInvariant, PTL

\* When onModuleDestroy has returned, no task of the instance is in flight.
THEOREM ShutdownDrains == Spec => []DrainedBeforeClose
  <1>1. TypeOK /\ FlagInv => DrainedBeforeClose
    BY HostAssumption DEF TypeOK, FlagInv, OneBatchPerInstance, DrainedBeforeClose
  <1>2. QED
    BY <1>1, TypeCorrect, FlagInvariant, PTL

-----------------------------------------------------------------------------
(* Published means sent                                                    *)

LEMMA DeliveryInit == Init => DeliveryInv
  BY DEF Init, DeliveryInv, PublishedWasSent, KafkaTopic

\* Kafka never loses a message, and has one more of the event produced.
LEMMA ProduceDelivers ==
    ASSUME TypeOK, NEW topic \in KafkaTopic, NEW e \in Event, Produce(topic, e)
    PROVE  /\ kafka'[topic][e] > 0
           /\ \A t \in KafkaTopic, x \in Event : kafka[t][x] > 0 => kafka'[t][x] > 0
           /\ \A t \in KafkaTopic, x \in Event :
                t # topic \/ x # e => kafka'[t][x] = kafka[t][x]
  BY LimitsAssumption DEF TypeOK, Produce

\* The topic of a routable row is a topic of Kafka.
LEMMA RowTopic ==
    ASSUME TypeOK, NEW e \in DOMAIN outbox, Routable(outbox[e].eventType)
    PROVE  GetTopicForEventType(outbox[e].eventType) \in KafkaTopic
  BY TopicIsKafkaTopic DEF TypeOK, IsTable, Row

LEMMA RunStepDelivery ==
    ASSUME TypeOK, DeliveryInv, NEW r \in Run, RunStep(r)
    PROVE  DeliveryInv'
  <1>1. UNCHANGED <<outbox, deleted, kafka>>
    BY DEF RunStep, StartRun, FetchBatch, FetchFails, FinishBatch
  <1>2. PublishedWasSent'
    BY <1>1 DEF DeliveryInv, PublishedWasSent, Delivered
  <1>3. ASSUME NEW s \in Run, NEW e \in Event
        PROVE  \/ task'[s][e] = task[s][e]
               \/ task'[s][e] = "none"
               \/ e \in DOMAIN outbox /\ task'[s][e] = PublishEvent(outbox[e])
    <2>1. CASE StartRun(r)
      BY <2>1 DEF StartRun
    <2>2. CASE FetchFails(r) \/ FinishBatch(r)
      BY <2>2 DEF TypeOK, FetchFails, FinishBatch, EndRun
    <2>3. CASE FetchBatch(r)
      <3>1. PICK batch \in UnpublishedEvents(outbox, BatchSize, MaxRetries) :
              \/ EndRun(r)
              \/ task' = [task EXCEPT ![r] =
                   [x \in Event |-> IF x \in batch THEN PublishEvent(outbox[x]) ELSE "none"]]
        BY <2>3 DEF FetchBatch
      <3>2. batch \subseteq DOMAIN outbox
        BY BatchIsPending
      <3>3. QED
        BY <3>1, <3>2 DEF TypeOK, EndRun
    <2>4. QED
      BY <2>1, <2>2, <2>3 DEF RunStep
  <1>4. ASSUME NEW e \in DOMAIN outbox
        PROVE  /\ PublishEvent(outbox[e]) \in KafkaTopic =>
                    PublishEvent(outbox[e]) = GetTopicForEventType(outbox[e].eventType)
               /\ PublishEvent(outbox[e]) # "mark"
               /\ PublishEvent(outbox[e]) = "skip" => ~Routable(outbox[e].eventType)
    <2>1. outbox[e] \in Row
      BY DEF TypeOK, IsTable
    <2>2. QED
      BY <2>1 DEF Row, EventType, PublishEvent, Routable, GetTopicForEventType, KafkaTopic
  <1>5. QED
    BY <1>1, <1>2, <1>3, <1>4 DEF DeliveryInv, KafkaTopic

LEMMA TaskStepDelivery ==
    ASSUME TypeOK, DeliveryInv, NEW r \in Run, NEW e \in Event, TaskStep(r, e)
    PROVE  DeliveryInv'
  <1>1. CASE SendAcknowledged(r, e) \/ SendRejected(r, e)
    <2>1. /\ task[r][e] \in KafkaTopic
          /\ \/ Advance(r, e, "mark") /\ kafka'[task[r][e]][e] > 0
             \/ Advance(r, e, "retry")
          /\ \A t \in KafkaTopic, x \in Event : kafka[t][x] > 0 => kafka'[t][x] > 0
          /\ UNCHANGED <<outbox, deleted>>
      BY <1>1, ProduceDelivers DEF SendAcknowledged, SendRejected
    <2>2. PublishedWasSent'
      <3>1. \A x \in DOMAIN outbox : outbox[x].published =>
              kafka'[GetTopicForEventType(outbox[x].eventType)][x] > 0
        BY <2>1, RowTopic DEF DeliveryInv, PublishedWasSent, TypeOK, IsTable
      <3>2. \A x \in deleted : Delivered(x)'
        BY <2>1 DEF DeliveryInv, PublishedWasSent, Delivered, TypeOK
      <3>3. QED
        BY <2>1, <3>1, <3>2 DEF DeliveryInv, PublishedWasSent
    <2>3. \/ /\ task[r][e] = GetTopicForEventType(outbox[e].eventType)
             /\ Routable(outbox[e].eventType)
          \/ e \notin DOMAIN outbox
      BY <2>1 DEF DeliveryInv, Routable, KafkaTopic
    <2>4. ASSUME NEW s \in Run, NEW x \in Event, task'[s][x] = "mark", x \in DOMAIN outbox
          PROVE  /\ Routable(outbox[x].eventType)
                 /\ kafka'[GetTopicForEventType(outbox[x].eventType)][x] > 0
      <3>1. CASE s = r /\ x = e
        BY <2>1, <2>3, <2>4, <3>1 DEF TypeOK, Advance
      <3>2. CASE task'[s][x] = task[s][x]
        BY <2>1, <2>4, <3>2, RowTopic DEF DeliveryInv
      <3>3. QED
        BY <2>1, <3>1, <3>2 DEF TypeOK, Advance
    <2>5. \A s \in Run, x \in Event :
            \/ task'[s][x] = task[s][x]
            \/ s = r /\ x = e /\ task'[s][x] \in {"mark", "retry"}
      BY <2>1 DEF TypeOK, Advance
    <2>6. e \in DOMAIN outbox \cup deleted
      BY <2>1 DEF DeliveryInv
    <2>7. QED
      BY <2>1, <2>2, <2>4, <2>5, <2>6 DEF DeliveryInv, KafkaTopic
  <1>2. CASE MarkSucceeds(r, e) \/ MarkFails(r, e)
    <2>1. /\ task[r][e] = "mark"
          /\ Advance(r, e, "settled") \/ Advance(r, e, "retry")
          /\ UNCHANGED <<deleted, kafka>>
          /\ \/ UNCHANGED outbox
             \/ e \in DOMAIN outbox /\ outbox' = MarkAsPublished(outbox, e)
      BY <1>2 DEF MarkSucceeds, MarkFails
    <2>2. /\ DOMAIN outbox' = DOMAIN outbox
          /\ \A x \in DOMAIN outbox :
               /\ outbox'[x].eventType = outbox[x].eventType
               /\ x # e => outbox'[x].published = outbox[x].published
      BY <2>1, MarkAsPublishedTable DEF TypeOK
    <2>3. PublishedWasSent'
      BY <2>1, <2>2 DEF DeliveryInv, PublishedWasSent, Delivered
    <2>4. \A s \in Run, x \in Event :
            task'[s][x] = task[s][x] \/ task'[s][x] \in {"settled", "retry"}
      BY <2>1 DEF TypeOK, Advance
    <2>5. QED
      BY <2>1, <2>2, <2>3, <2>4 DEF DeliveryInv, KafkaTopic
  <1>3. CASE RetryCounted(r, e) \/ RetryNotCounted(r, e) \/ SkipCounted(r, e) \/ SkipFails(r, e)
    <2>1. /\ Advance(r, e, "settled") \/ Advance(r, e, "retry")
          /\ UNCHANGED <<deleted, kafka>>
          /\ \/ UNCHANGED outbox
             \/ e \in DOMAIN outbox /\ outbox' = IncrementRetryCount(outbox, e)
      BY <1>3 DEF RetryCounted, RetryNotCounted, SkipCounted, SkipFails
    <2>2. /\ DOMAIN outbox' = DOMAIN outbox
          /\ \A x \in DOMAIN outbox :
               /\ outbox'[x].eventType = outbox[x].eventType
               /\ outbox'[x].published = outbox[x].published
      BY <2>1, IncrementRetryCountTable DEF TypeOK
    <2>3. PublishedWasSent'
      BY <2>1, <2>2 DEF DeliveryInv, PublishedWasSent, Delivered
    <2>4. \A s \in Run, x \in Event :
            task'[s][x] = task[s][x] \/ task'[s][x] \in {"settled", "retry"}
      BY <2>1 DEF TypeOK, Advance
    <2>5. QED
      BY <2>1, <2>2, <2>3, <2>4 DEF DeliveryInv, KafkaTopic
  <1>4. QED
    BY <1>1, <1>2, <1>3 DEF TaskStep

LEMMA InstanceStepDelivery ==
    ASSUME TypeOK, DeliveryInv, NEW i \in Instance, InstanceStep(i)
    PROVE  DeliveryInv'
  <1>1. CASE CleanupOldEvents(i)
    <2>1. /\ UNCHANGED <<kafka, task>>
          /\ outbox' = DeleteOldPublishedEvents(outbox)
          /\ deleted' = deleted \cup OldPublishedEvents(outbox)
      BY <1>1 DEF CleanupOldEvents
    <2>2. /\ DOMAIN outbox' = DOMAIN outbox \ OldPublishedEvents(outbox)
          /\ OldPublishedEvents(outbox) \subseteq DOMAIN outbox
          /\ \A x \in OldPublishedEvents(outbox) : outbox[x].published
          /\ \A x \in DOMAIN outbox' : outbox'[x] = outbox[x]
      BY <2>1, DeleteOldPublishedEventsTable DEF TypeOK
    <2>3. \A x \in OldPublishedEvents(outbox) : Routable(outbox[x].eventType) /\ Delivered(x)
      BY <2>2, RowTopic DEF DeliveryInv, PublishedWasSent, Delivered
    <2>4. PublishedWasSent'
      BY <2>1, <2>2, <2>3 DEF DeliveryInv, PublishedWasSent, Delivered
    <2>5. QED
      BY <2>1, <2>2, <2>3, <2>4 DEF DeliveryInv
  <1>2. CASE BeginShutdown(i) \/ CompleteShutdown(i) \/ Restart(i) \/ Crash(i)
    <2>1. /\ UNCHANGED <<outbox, deleted, kafka>>
          /\ \A r \in Run, e \in Event : task'[r][e] = task[r][e] \/ task'[r][e] = "none"
      BY <1>2 DEF TypeOK, BeginShutdown, CompleteShutdown, Restart, Crash
    <2>2. QED
      BY <2>1 DEF DeliveryInv, PublishedWasSent, Delivered, KafkaTopic
  <1>3. QED
    BY <1>1, <1>2 DEF InstanceStep

\* A saved event is a new row; the passage of time and a reset change no row's
\* type or flag.
LEMMA EventStepTable ==
    ASSUME TypeOK, NEW e \in Event, EventStep(e)
    PROVE  /\ UNCHANGED <<deleted, kafka, task>>
           /\ \A x \in DOMAIN outbox :
                /\ outbox'[x].eventType = outbox[x].eventType
                /\ outbox'[x].published = outbox[x].published
           /\ \/ DOMAIN outbox' = DOMAIN outbox
              \/ /\ DOMAIN outbox' = DOMAIN outbox \cup {e}
                 /\ e \notin DOMAIN outbox \cup deleted
                 /\ ~outbox'[e].published
  <1>1. ASSUME NEW a \in Aggregate, NEW type \in EventType, NEW t \in Timestamp,
               SavePaymentEvent(e, a, type, t)
        PROVE  /\ DOMAIN outbox' = DOMAIN outbox \cup {e}
               /\ e \notin DOMAIN outbox \cup deleted
               /\ ~outbox'[e].published
               /\ \A x \in DOMAIN outbox : outbox'[x] = outbox[x]
               /\ UNCHANGED <<deleted, kafka, task>>
    <2>1. IsTable(outbox)
      BY DEF TypeOK
    <2>2. /\ e \notin DOMAIN outbox \cup deleted
          /\ outbox' = SaveEvent(outbox, e, a, type, t)
          /\ UNCHANGED <<deleted, kafka, task>>
      BY <1>1 DEF SavePaymentEvent
    <2>3. /\ DOMAIN SaveEvent(outbox, e, a, type, t) = DOMAIN outbox \cup {e}
          /\ ~SaveEvent(outbox, e, a, type, t)[e].published
          /\ \A x \in DOMAIN outbox : SaveEvent(outbox, e, a, type, t)[x] = outbox[x]
      <3>1. e \notin DOMAIN outbox
        BY <2>2
      <3>2. QED
        BY <2>1, <3>1, SaveEventTable
    <2>4. QED
      BY <2>2, <2>3
  <1>2. CASE PublishedLongAgo(e)
    BY <1>2, GrowOldTable DEF TypeOK, PublishedLongAgo
  <1>3. CASE ResetFailed(e)
    BY <1>3, ResetFailedEventTable DEF TypeOK, ResetFailed, FailedEvents
  <1>4. QED
    BY <1>1, <1>2, <1>3 DEF EventStep

LEMMA EventStepDelivery ==
    ASSUME TypeOK, DeliveryInv, NEW e \in Event, EventStep(e)
    PROVE  DeliveryInv'
  <1>1. /\ UNCHANGED <<deleted, kafka, task>>
        /\ DOMAIN outbox \subseteq DOMAIN outbox'
        /\ \A x \in DOMAIN outbox :
             /\ outbox'[x].eventType = outbox[x].eventType
             /\ outbox'[x].published = outbox[x].published
        /\ \A x \in DOMAIN outbox' \ DOMAIN outbox :
             x \notin deleted /\ ~outbox'[x].published
    BY EventStepTable
  <1>2. PublishedWasSent'
    BY <1>1 DEF DeliveryInv, PublishedWasSent, Delivered
  <1>3. QED
    BY <1>1, <1>2 DEF DeliveryInv

LEMMA DeliveryStep == TypeOK /\ DeliveryInv /\ [Next]_vars => DeliveryInv'
  <1> SUFFICES ASSUME TypeOK, DeliveryInv, [Next]_vars PROVE DeliveryInv'
    OBVIOUS
  <1>1. CASE UNCHANGED vars
    BY <1>1 DEF vars, DeliveryInv, PublishedWasSent, Delivered
  <1>2. QED
    BY <1>1, RunStepDelivery, TaskStepDelivery, InstanceStepDelivery, EventStepDelivery DEF Next

LEMMA DeliveryInvariant == Spec => []DeliveryInv
  BY TypeCorrect, DeliveryInit, DeliveryStep, PTL DEF Spec

\* A row marked published, and a row the cleanup deleted, has a message in
\* Kafka, in the topic of its type: no crash, lost answer or concurrent
\* instance makes the publisher mark an event it did not send.
THEOREM PublishedMeansSent == Spec => []PublishedWasSent
  <1>1. DeliveryInv => PublishedWasSent
    BY DEF DeliveryInv
  <1>2. QED
    BY <1>1, DeliveryInvariant, PTL

-----------------------------------------------------------------------------
(* The publisher implements the relay                                      *)

LEMMA RelayInitially == Init => Relay!RelayInit
  BY DEF Init, Relay!RelayInit, Delivered

LEMMA TaskStepRelay ==
    ASSUME TypeOK, DeliveryInv, NEW r \in Run, NEW e \in Event, TaskStep(r, e)
    PROVE  [Relay!RelayNext]_(Relay!relayVars)
  <1>1. CASE /\ task[r][e] \in KafkaTopic
             /\ Produce(task[r][e], e)
             /\ UNCHANGED <<outbox, deleted>>
    <2>1. e \in DOMAIN outbox \cup deleted
      BY <1>1 DEF DeliveryInv
    <2>2. {x \in Event : Delivered(x)}' = {x \in Event : Delivered(x)} \cup {e}
      BY <1>1, ProduceDelivers DEF Delivered
    <2>3. Relay!Deliver(e)
      BY <1>1, <2>1, <2>2 DEF Relay!Deliver
    <2>4. QED
      BY <2>3 DEF Relay!RelayNext
  <1>2. CASE /\ task[r][e] = "mark"
             /\ e \in DOMAIN outbox
             /\ outbox' = MarkAsPublished(outbox, e)
             /\ UNCHANGED <<deleted, kafka>>
    <2>1. /\ DOMAIN outbox' = DOMAIN outbox
          /\ outbox'[e].published
          /\ \A x \in DOMAIN outbox : x # e => outbox'[x].published = outbox[x].published
      BY <1>2, MarkAsPublishedTable DEF TypeOK
    <2>2. Delivered(e)
      BY <1>2, RowTopic DEF DeliveryInv, Delivered
    <2>3. Relay!Confirm(e)
      BY <1>2, <2>1, <2>2 DEF Relay!Confirm, Delivered
    <2>4. QED
      BY <2>3 DEF Relay!RelayNext
  <1>3. CASE /\ e \in DOMAIN outbox
             /\ outbox' = IncrementRetryCount(outbox, e)
             /\ UNCHANGED <<deleted, kafka>>
    <2>1. /\ DOMAIN outbox' = DOMAIN outbox
          /\ \A x \in DOMAIN outbox : outbox'[x].published = outbox[x].published
      BY <1>3, IncrementRetryCountTable DEF TypeOK
    <2>2. UNCHANGED Relay!relayVars
      BY <1>3, <2>1 DEF Relay!relayVars, Delivered
    <2>3. QED
      BY <2>2
  <1>4. CASE UNCHANGED <<outbox, deleted, kafka>>
    BY <1>4 DEF Relay!relayVars, Delivered
  <1>5. QED
    BY <1>1, <1>2, <1>3, <1>4
       DEF TaskStep, SendAcknowledged, SendRejected, MarkSucceeds, MarkFails, RetryCounted,
           RetryNotCounted, SkipCounted, SkipFails

LEMMA CleanupRelay ==
    ASSUME TypeOK, NEW i \in Instance, CleanupOldEvents(i)
    PROVE  Relay!RelayNext
  <1>1. /\ UNCHANGED kafka
        /\ outbox' = DeleteOldPublishedEvents(outbox)
        /\ deleted' = deleted \cup OldPublishedEvents(outbox)
    BY DEF CleanupOldEvents
  <1>2. /\ DOMAIN outbox' = DOMAIN outbox \ OldPublishedEvents(outbox)
        /\ OldPublishedEvents(outbox) \subseteq DOMAIN outbox
        /\ \A x \in OldPublishedEvents(outbox) : outbox[x].published
        /\ \A x \in DOMAIN outbox' : outbox'[x] = outbox[x]
    BY <1>1, DeleteOldPublishedEventsTable DEF TypeOK
  <1>3. Relay!Forget(OldPublishedEvents(outbox))
    BY <1>1, <1>2 DEF Relay!Forget, Delivered
  <1>4. OldPublishedEvents(outbox) \in SUBSET Event
    BY <1>2 DEF TypeOK, IsTable
  <1>5. QED
    BY <1>3, <1>4 DEF Relay!RelayNext

LEMMA EventStepRelay ==
    ASSUME TypeOK, NEW e \in Event, EventStep(e)
    PROVE  [Relay!RelayNext]_(Relay!relayVars)
  <1>1. CASE DOMAIN outbox' = DOMAIN outbox
    BY <1>1, EventStepTable DEF Relay!relayVars, Delivered
  <1>2. CASE /\ DOMAIN outbox' = DOMAIN outbox \cup {e}
             /\ e \notin DOMAIN outbox \cup deleted
             /\ ~outbox'[e].published
    <2>1. Relay!Accept(e)
      BY <1>2, EventStepTable DEF Relay!Accept, Delivered
    <2>2. QED
      BY <2>1 DEF Relay!RelayNext
  <1>3. QED
    BY <1>1, <1>2, EventStepTable

LEMMA RelayStep ==
    TypeOK /\ DeliveryInv /\ [Next]_vars => [Relay!RelayNext]_(Relay!relayVars)
  <1> SUFFICES ASSUME TypeOK, DeliveryInv, [Next]_vars
               PROVE  [Relay!RelayNext]_(Relay!relayVars)
    OBVIOUS
  <1>1. CASE UNCHANGED <<outbox, deleted, kafka>>
    BY <1>1 DEF Relay!relayVars, Delivered
  <1>2. ASSUME NEW r \in Run, RunStep(r)
        PROVE  UNCHANGED <<outbox, deleted, kafka>>
    BY <1>2 DEF RunStep, StartRun, FetchBatch, FetchFails, FinishBatch
  <1>3. ASSUME NEW i \in Instance, InstanceStep(i)
        PROVE  UNCHANGED <<outbox, deleted, kafka>> \/ CleanupOldEvents(i)
    BY <1>3 DEF InstanceStep, BeginShutdown, CompleteShutdown, Crash, Restart
  <1>4. CASE UNCHANGED vars
    BY <1>1, <1>4 DEF vars
  <1>5. QED
    BY <1>1, <1>2, <1>3, <1>4, TaskStepRelay, CleanupRelay, EventStepRelay DEF Next

\* The publisher implements EventRelay: at least once, confirmed only after
\* delivery, forgotten only after confirmation, for any number of instances.
THEOREM RelayRefinement == Spec => ImplementsRelay
  BY TypeCorrect, DeliveryInvariant, RelayInitially, RelayStep, PTL
     DEF Spec, ImplementsRelay, Relay!RelaySpec

-----------------------------------------------------------------------------
(* The retry budget                                                        *)

\* Below the limit any claims are within the budget.
LEMMA BudgetAtFetch ==
    ASSUME NEW count \in Nat, count < MaxRetries, NEW perBatch \in {1, 2},
           NEW A \in SUBSET Instance, NEW B \in SUBSET Instance, perBatch = 1 => B = {}
    PROVE  count + Cardinality(A) + Cardinality(B) <=
             MaxRetries - 1 + Cardinality(Instance) * perBatch
  <1>1. /\ Cardinality(Instance) \in Nat /\ Cardinality(A) \in Nat /\ Cardinality(B) \in Nat
        /\ Cardinality(A) <= Cardinality(Instance) /\ Cardinality(B) <= Cardinality(Instance)
    BY InstanceAssumption, FS_Subset, FS_CardinalityType
  <1>2. perBatch = 1 => Cardinality(B) = 0
    BY FS_EmptySet
  <1>3. QED
    BY <1>1, <1>2, LimitsAssumption

\* Claims only go away, and a retry that is counted uses one up.
LEMMA BudgetKept ==
    ASSUME NEW count \in Nat, NEW count2 \in Nat, NEW limit \in Int,
           NEW A \in SUBSET Instance, NEW B \in SUBSET Instance,
           NEW A2 \in SUBSET A, NEW B2 \in SUBSET B,
           count + Cardinality(A) + Cardinality(B) <= limit,
           \/ count2 <= count
           \/ count2 = count + 1 /\ (A2 # A \/ B2 # B)
    PROVE  count2 + Cardinality(A2) + Cardinality(B2) <= limit
  <1>1. IsFiniteSet(A) /\ IsFiniteSet(B)
    BY InstanceAssumption, FS_Subset
  <1>2. IsFiniteSet(A2) /\ IsFiniteSet(B2)
    BY <1>1, FS_Subset
  <1>3. /\ Cardinality(A) \in Nat /\ Cardinality(B) \in Nat
        /\ Cardinality(A2) \in Nat /\ Cardinality(B2) \in Nat
    BY <1>1, <1>2, FS_CardinalityType
  <1>4. /\ Cardinality(A2) <= Cardinality(A) /\ Cardinality(B2) <= Cardinality(B)
        /\ A2 # A => Cardinality(A2) # Cardinality(A)
        /\ B2 # B => Cardinality(B2) # Cardinality(B)
    BY <1>1, FS_Subset
  <1>5. CASE count2 <= count
    BY <1>3, <1>4, <1>5
  <1>6. CASE count2 = count + 1 /\ Cardinality(A2) # Cardinality(A)
    BY <1>3, <1>4, <1>6
  <1>7. CASE count2 = count + 1 /\ Cardinality(B2) # Cardinality(B)
    BY <1>3, <1>4, <1>7
  <1>8. QED
    BY <1>4, <1>5, <1>6, <1>7

\* The budget of a row is an integer.
LEMMA BudgetType ==
    ASSUME NEW type
    PROVE  /\ RetriesPerBatch(type) \in {1, 2}
           /\ MaxRetries - 1 + Cardinality(Instance) * RetriesPerBatch(type) \in Int
  BY InstanceAssumption, FS_CardinalityType, LimitsAssumption DEF RetriesPerBatch

LEMMA RetryInit == Init => RetryInv
  BY DEF Init, RetryInv

\* A step keeps the budget of a row when its claims shrink and its count does
\* not grow, or grows by one as a claim goes.
LEMMA RowKeepsBudget ==
    ASSUME TypeOK, TypeOK', RetryInv, NEW x \in DOMAIN outbox, x \in DOMAIN outbox',
           outbox'[x].eventType = outbox[x].eventType,
           MayCount(x)' \subseteq MayCount(x),
           MayCountTwice(x)' \subseteq MayCountTwice(x),
           \/ outbox'[x].retryCount <= outbox[x].retryCount
           \/ /\ outbox'[x].retryCount = outbox[x].retryCount + 1
              /\ MayCount(x)' # MayCount(x) \/ MayCountTwice(x)' # MayCountTwice(x)
    PROVE  outbox'[x].retryCount + Cardinality(MayCount(x)') + Cardinality(MayCountTwice(x)') <=
             MaxRetries - 1 + Cardinality(Instance) * RetriesPerBatch(outbox'[x].eventType)
  <1> DEFINE limit == MaxRetries - 1 + Cardinality(Instance) * RetriesPerBatch(outbox[x].eventType)
  <1>1. outbox[x].retryCount \in Nat /\ outbox'[x].retryCount \in Nat
    BY DEF TypeOK, IsTable, Row
  <1>2. MayCount(x) \in SUBSET Instance /\ MayCountTwice(x) \in SUBSET Instance
    BY DEF MayCount, MayCountTwice
  <1>3. limit \in Int
    BY BudgetType
  <1>4. outbox[x].retryCount + Cardinality(MayCount(x)) + Cardinality(MayCountTwice(x)) <= limit
    BY DEF RetryInv
  <1> HIDE DEF limit
  <1>5. outbox'[x].retryCount + Cardinality(MayCount(x)') + Cardinality(MayCountTwice(x)') <= limit
    BY <1>1, <1>2, <1>3, <1>4, BudgetKept
  <1>6. QED
    BY <1>5 DEF limit

\* A row below the limit is within its budget after any step.
LEMMA RowWithinBudget ==
    ASSUME TypeOK', DeliveryInv', NEW x \in DOMAIN outbox', outbox'[x].retryCount < MaxRetries
    PROVE  outbox'[x].retryCount + Cardinality(MayCount(x)') + Cardinality(MayCountTwice(x)') <=
             MaxRetries - 1 + Cardinality(Instance) * RetriesPerBatch(outbox'[x].eventType)
  <1>1. outbox'[x].retryCount \in Nat
    BY DEF TypeOK, IsTable, Row
  <1>2. MayCount(x)' \in SUBSET Instance /\ MayCountTwice(x)' \in SUBSET Instance
    BY DEF MayCount, MayCountTwice
  <1>3. RetriesPerBatch(outbox'[x].eventType) = 1 => MayCountTwice(x)' = {}
    BY DEF DeliveryInv, RetriesPerBatch, MayCountTwice, TypeOK, IsTable
  <1>4. RetriesPerBatch(outbox'[x].eventType) \in {1, 2}
    BY BudgetType
  <1>5. QED
    BY <1>1, <1>2, <1>3, <1>4, BudgetAtFetch

\* Claims on an event go away when its tasks stay, or become "none".
LEMMA ClaimsShrink ==
    ASSUME NEW x, \A s \in Run : task'[s][x] = task[s][x] \/ task'[s][x] = "none"
    PROVE  MayCount(x)' \subseteq MayCount(x) /\ MayCountTwice(x)' \subseteq MayCountTwice(x)
  BY DEF MayCount, MayCountTwice

LEMMA RunStepRetry ==
    ASSUME TypeOK, TypeOK', DeliveryInv', RetryInv, NEW r \in Run, RunStep(r)
    PROVE  RetryInv'
  <1>1. UNCHANGED outbox
    BY DEF RunStep, StartRun, FetchBatch, FetchFails, FinishBatch
  <1>2. ASSUME NEW x \in DOMAIN outbox, outbox[x].retryCount >= MaxRetries
        PROVE  \A s \in Run : task'[s][x] = task[s][x] \/ task'[s][x] = "none"
    <2>1. x \in Event /\ outbox[x].retryCount \in Nat
      BY DEF TypeOK, IsTable, Row
    <2>2. CASE StartRun(r)
      BY <2>2 DEF StartRun
    <2>3. CASE FetchFails(r) \/ FinishBatch(r)
      BY <2>1, <2>3 DEF TypeOK, FetchFails, FinishBatch, EndRun
    <2>4. CASE FetchBatch(r)
      <3>1. PICK batch \in UnpublishedEvents(outbox, BatchSize, MaxRetries) :
              \/ EndRun(r)
              \/ task' = [task EXCEPT ![r] =
                   [e \in Event |-> IF e \in batch THEN PublishEvent(outbox[e]) ELSE "none"]]
        BY <2>4 DEF FetchBatch
      <3>2. x \notin batch
        BY <1>2, <2>1, BatchIsPending, LimitsAssumption
      <3>3. CASE EndRun(r)
        BY <2>1, <3>3 DEF TypeOK, EndRun
      <3>4. CASE task' = [task EXCEPT ![r] =
                   [e \in Event |-> IF e \in batch THEN PublishEvent(outbox[e]) ELSE "none"]]
        BY <2>1, <3>2, <3>4 DEF TypeOK
      <3>5. QED
        BY <3>1, <3>3, <3>4
    <2>5. QED
      BY <2>2, <2>3, <2>4 DEF RunStep
  <1>3. ASSUME NEW x \in DOMAIN outbox'
        PROVE  outbox'[x].retryCount + Cardinality(MayCount(x)') + Cardinality(MayCountTwice(x)')
                 <= MaxRetries - 1 + Cardinality(Instance) * RetriesPerBatch(outbox'[x].eventType)
    <2>1. outbox[x].retryCount \in Nat /\ MaxRetries \in Nat
      BY <1>1, LimitsAssumption DEF TypeOK, IsTable, Row
    <2>2. CASE outbox[x].retryCount < MaxRetries
      BY <1>1, <2>2, RowWithinBudget
    <2>3. CASE outbox[x].retryCount >= MaxRetries
      <3>1. MayCount(x)' \subseteq MayCount(x) /\ MayCountTwice(x)' \subseteq MayCountTwice(x)
        BY <1>1, <1>2, <2>3, ClaimsShrink
      <3>2. QED
        BY <1>1, <2>1, <3>1, RowKeepsBudget
    <2>4. QED
      BY <2>1, <2>2, <2>3
  <1>4. QED
    BY <1>3 DEF RetryInv

\* The claims of the other events stay as they are.
LEMMA TaskStepRetry ==
    ASSUME TypeOK, TypeOK', FlagInv, RetryInv, NEW r \in Run, NEW e \in Event, TaskStep(r, e)
    PROVE  RetryInv'
  <1> DEFINE i == Host[r]
  <1>1. i \in Instance
    BY HostAssumption
  <1>2. task[r][e] # "none"
    BY DEF TaskStep, SendAcknowledged, SendRejected, MarkSucceeds, MarkFails, RetryCounted,
           RetryNotCounted, SkipCounted, SkipFails, KafkaTopic
  <1>3. ASSUME NEW s \in Run, Host[s] = i, s # r
        PROVE  task[s][e] = "none"
    <2>1. stage[r] # "idle"
      BY <1>2 DEF FlagInv
    <2>2. stage[s] = "idle"
      BY <1>1, <1>3, <2>1 DEF FlagInv, OneBatchPerInstance
    <2>3. QED
      BY <2>2 DEF FlagInv
  <1>4. ASSUME NEW next \in {"mark", "retry", "settled"}, Advance(r, e, next)
        PROVE  /\ \A s \in Run, x \in Event : s # r \/ x # e => task'[s][x] = task[s][x]
               /\ task'[r][e] = next
    BY <1>4 DEF TypeOK, Advance
  <1>5. ASSUME NEW x \in DOMAIN outbox, x # e
        PROVE  MayCount(x)' = MayCount(x) /\ MayCountTwice(x)' = MayCountTwice(x)
    <2>1. \A s \in Run : task'[s][x] = task[s][x]
      BY <1>4, <1>5 DEF TypeOK, IsTable, TaskStep, SendAcknowledged, SendRejected, MarkSucceeds,
           MarkFails, RetryCounted, RetryNotCounted, SkipCounted, SkipFails
    <2>2. QED
      BY <2>1 DEF MayCount, MayCountTwice
  <1>6. ASSUME NEW next \in {"mark", "retry", "settled"}, Advance(r, e, next),
               task[r][e] # "settled"
        PROVE  /\ MayCount(e)' \subseteq MayCount(e)
               /\ MayCountTwice(e)' \subseteq MayCountTwice(e)
               /\ next = "settled" => MayCount(e)' # MayCount(e)
               /\ task[r][e] = "skip" => MayCountTwice(e)' # MayCountTwice(e)
    <2>1. \A s \in Run : s # r => task'[s][e] = task[s][e]
      BY <1>4, <1>6
    <2>2. task'[r][e] = next
      BY <1>4, <1>6
    <2>3. MayCount(e)' \subseteq MayCount(e) /\ MayCountTwice(e)' \subseteq MayCountTwice(e)
      BY <1>2, <1>6, <2>1, <2>2 DEF MayCount, MayCountTwice
    <2>4. next = "settled" => i \in MayCount(e) /\ i \notin MayCount(e)'
      BY <1>1, <1>2, <1>3, <1>6, <2>1, <2>2 DEF MayCount
    <2>5. task[r][e] = "skip" => i \in MayCountTwice(e) /\ i \notin MayCountTwice(e)'
      BY <1>1, <1>3, <2>1, <2>2 DEF MayCountTwice
    <2>6. QED
      BY <2>3, <2>4, <2>5
  <1>7. ASSUME NEW x \in DOMAIN outbox'
        PROVE  outbox'[x].retryCount + Cardinality(MayCount(x)') + Cardinality(MayCountTwice(x)')
                 <= MaxRetries - 1 + Cardinality(Instance) * RetriesPerBatch(outbox'[x].eventType)
    <2>1. CASE \/ SendAcknowledged(r, e) \/ SendRejected(r, e) \/ MarkSucceeds(r, e)
               \/ MarkFails(r, e) \/ RetryNotCounted(r, e)
      <3>1. /\ \/ UNCHANGED outbox
               \/ e \in DOMAIN outbox /\ outbox' = MarkAsPublished(outbox, e)
            /\ \E next \in {"mark", "retry", "settled"} : Advance(r, e, next)
            /\ task[r][e] # "settled"
        BY <2>1 DEF SendAcknowledged, SendRejected, MarkSucceeds, MarkFails, RetryNotCounted,
                    KafkaTopic
      <3>2. /\ DOMAIN outbox' = DOMAIN outbox
            /\ outbox'[x].eventType = outbox[x].eventType
            /\ outbox'[x].retryCount = outbox[x].retryCount
        BY <1>7, <3>1, MarkAsPublishedTable DEF TypeOK
      <3>3. outbox[x].retryCount \in Nat
        BY <1>7, <3>2 DEF TypeOK, IsTable, Row
      <3>4. MayCount(x)' \subseteq MayCount(x) /\ MayCountTwice(x)' \subseteq MayCountTwice(x)
        BY <1>5, <1>6, <1>7, <3>1, <3>2
      <3>5. QED
        BY <1>7, <3>2, <3>3, <3>4, RowKeepsBudget
    <2>2. CASE RetryCounted(r, e) \/ SkipCounted(r, e) \/ SkipFails(r, e)
      <3>1. /\ \/ UNCHANGED outbox
               \/ e \in DOMAIN outbox /\ outbox' = IncrementRetryCount(outbox, e)
            /\ \E next \in {"mark", "retry", "settled"} :
                 Advance(r, e, next) /\ (next = "settled" \/ task[r][e] = "skip")
            /\ task[r][e] # "settled"
        BY <2>2 DEF RetryCounted, SkipCounted, SkipFails
      <3>2. /\ DOMAIN outbox' = DOMAIN outbox
            /\ outbox'[x].eventType = outbox[x].eventType
            /\ \/ outbox'[x].retryCount = outbox[x].retryCount
               \/ x = e /\ outbox'[x].retryCount = outbox[x].retryCount + 1
        BY <1>7, <3>1, IncrementRetryCountTable DEF TypeOK
      <3>3. outbox[x].retryCount \in Nat
        BY <1>7, <3>2 DEF TypeOK, IsTable, Row
      <3>4. MayCount(x)' \subseteq MayCount(x) /\ MayCountTwice(x)' \subseteq MayCountTwice(x)
        BY <1>5, <1>6, <1>7, <3>1, <3>2
      <3>5. x = e => MayCount(x)' # MayCount(x) \/ MayCountTwice(x)' # MayCountTwice(x)
        BY <1>6, <3>1
      <3>6. QED
        BY <1>7, <3>2, <3>3, <3>4, <3>5, RowKeepsBudget
    <2>3. QED
      BY <2>1, <2>2 DEF TaskStep
  <1>8. QED
    BY <1>7 DEF RetryInv

LEMMA InstanceStepRetry ==
    ASSUME TypeOK, TypeOK', RetryInv, NEW i \in Instance, InstanceStep(i)
    PROVE  RetryInv'
  <1>1. /\ DOMAIN outbox' \subseteq DOMAIN outbox
        /\ \A x \in DOMAIN outbox' : outbox'[x] = outbox[x]
    <2>1. CASE CleanupOldEvents(i)
      BY <2>1, DeleteOldPublishedEventsTable DEF TypeOK, CleanupOldEvents
    <2>2. CASE BeginShutdown(i) \/ CompleteShutdown(i) \/ Crash(i) \/ Restart(i)
      BY <2>2 DEF BeginShutdown, CompleteShutdown, Crash, Restart
    <2>3. QED
      BY <2>1, <2>2 DEF InstanceStep
  <1>2. \A s \in Run, x \in Event : task'[s][x] = task[s][x] \/ task'[s][x] = "none"
    BY DEF TypeOK, InstanceStep, CleanupOldEvents, BeginShutdown, CompleteShutdown, Crash, Restart
  <1>3. ASSUME NEW x \in DOMAIN outbox'
        PROVE  outbox'[x].retryCount + Cardinality(MayCount(x)') + Cardinality(MayCountTwice(x)')
                 <= MaxRetries - 1 + Cardinality(Instance) * RetriesPerBatch(outbox'[x].eventType)
    <2>1. x \in Event /\ x \in DOMAIN outbox /\ outbox[x].retryCount \in Nat
      BY <1>1, <1>3 DEF TypeOK, IsTable, Row
    <2>2. MayCount(x)' \subseteq MayCount(x) /\ MayCountTwice(x)' \subseteq MayCountTwice(x)
      BY <1>2, <2>1, ClaimsShrink
    <2>3. QED
      BY <1>1, <1>3, <2>1, <2>2, RowKeepsBudget
  <1>4. QED
    BY <1>3 DEF RetryInv

\* A new row has not been tried, and a reset only lowers the count.
LEMMA EventStepCounts ==
    ASSUME TypeOK, NEW e \in Event, EventStep(e), NEW x \in DOMAIN outbox'
    PROVE  \/ outbox'[x].retryCount = 0
           \/ /\ x \in DOMAIN outbox
              /\ outbox'[x].eventType = outbox[x].eventType
              /\ outbox'[x].retryCount = outbox[x].retryCount
  <1>1. ASSUME NEW a \in Aggregate, NEW type \in EventType, NEW t \in Timestamp,
               SavePaymentEvent(e, a, type, t)
        PROVE  \/ outbox'[x].retryCount = 0
               \/ x \in DOMAIN outbox /\ outbox'[x] = outbox[x]
    <2>1. IsTable(outbox)
      BY DEF TypeOK
    <2>2. e \notin DOMAIN outbox /\ outbox' = SaveEvent(outbox, e, a, type, t)
      BY <1>1 DEF SavePaymentEvent
    <2>3. /\ DOMAIN SaveEvent(outbox, e, a, type, t) = DOMAIN outbox \cup {e}
          /\ SaveEvent(outbox, e, a, type, t)[e].retryCount = 0
          /\ \A y \in DOMAIN outbox : SaveEvent(outbox, e, a, type, t)[y] = outbox[y]
      BY <2>1, <2>2 DEF SaveEvent
    <2>4. QED
      BY <2>2, <2>3
  <1>2. CASE PublishedLongAgo(e)
    BY <1>2, GrowOldTable DEF TypeOK, PublishedLongAgo
  <1>3. CASE ResetFailed(e)
    BY <1>3, ResetFailedEventTable DEF TypeOK, ResetFailed, FailedEvents
  <1>4. QED
    BY <1>1, <1>2, <1>3 DEF EventStep

LEMMA EventStepRetry ==
    ASSUME TypeOK, TypeOK', DeliveryInv', RetryInv, NEW e \in Event, EventStep(e)
    PROVE  RetryInv'
  <1>1. UNCHANGED task
    BY EventStepTable
  <1>2. ASSUME NEW x \in DOMAIN outbox'
        PROVE  outbox'[x].retryCount + Cardinality(MayCount(x)') + Cardinality(MayCountTwice(x)')
                 <= MaxRetries - 1 + Cardinality(Instance) * RetriesPerBatch(outbox'[x].eventType)
    <2>1. CASE outbox'[x].retryCount = 0
      BY <2>1, RowWithinBudget, LimitsAssumption
    <2>2. CASE /\ x \in DOMAIN outbox
               /\ outbox'[x].eventType = outbox[x].eventType
               /\ outbox'[x].retryCount = outbox[x].retryCount
      <3>1. MayCount(x)' \subseteq MayCount(x) /\ MayCountTwice(x)' \subseteq MayCountTwice(x)
        BY <1>1, ClaimsShrink
      <3>2. outbox[x].retryCount \in Nat
        BY <2>2 DEF TypeOK, IsTable, Row
      <3>3. QED
        BY <2>2, <3>1, <3>2, RowKeepsBudget
    <2>3. QED
      BY <2>1, <2>2, EventStepCounts
  <1>3. QED
    BY <1>2 DEF RetryInv

LEMMA RetryStep ==
    TypeOK /\ TypeOK' /\ FlagInv /\ DeliveryInv' /\ RetryInv /\ [Next]_vars => RetryInv'
  <1> SUFFICES ASSUME TypeOK, TypeOK', FlagInv, DeliveryInv', RetryInv, [Next]_vars
               PROVE  RetryInv'
    OBVIOUS
  <1>1. CASE UNCHANGED vars
    BY <1>1 DEF vars, RetryInv, MayCount, MayCountTwice
  <1>2. QED
    BY <1>1, RunStepRetry, TaskStepRetry, InstanceStepRetry, EventStepRetry DEF Next

LEMMA RetryInvariant == Spec => []RetryInv
  BY TypeCorrect, FlagInvariant, DeliveryInvariant, RetryInit, RetryStep, PTL DEF Spec

LEMMA BudgetHolds == ASSUME TypeOK, RetryInv PROVE RetryBudget
  <1> SUFFICES ASSUME NEW e \in DOMAIN outbox
               PROVE  outbox[e].retryCount <=
                        MaxRetries - 1 +
                          Cardinality(Instance) * RetriesPerBatch(outbox[e].eventType)
    BY DEF RetryBudget
  <1> DEFINE limit ==
        MaxRetries - 1 + Cardinality(Instance) * RetriesPerBatch(outbox[e].eventType)
  <1>1. limit \in Int
    BY BudgetType
  <1>2. outbox[e].retryCount \in Nat
    BY DEF TypeOK, IsTable, Row
  <1>3. MayCount(e) \in SUBSET Instance /\ MayCountTwice(e) \in SUBSET Instance
    BY DEF MayCount, MayCountTwice
  <1>4. Cardinality(MayCount(e)) \in Nat /\ Cardinality(MayCountTwice(e)) \in Nat
    BY <1>3, InstanceAssumption, FS_Subset, FS_CardinalityType
  <1>5. outbox[e].retryCount + Cardinality(MayCount(e)) + Cardinality(MayCountTwice(e)) <= limit
    BY DEF RetryInv
  <1> HIDE DEF limit
  <1>6. outbox[e].retryCount <= limit
    BY <1>1, <1>2, <1>4, <1>5
  <1>7. QED
    BY <1>6 DEF limit

\* The number of retries counted against an event stays within MaxRetries - 1
\* and one batch per instance, for any number of instances, crashes and lost
\* answers.
THEOREM RetriesBounded == Spec => []RetryBudget
  BY TypeCorrect, RetryInvariant, BudgetHolds, PTL

-----------------------------------------------------------------------------
(* One instance does not send a published event again                      *)

LEMMA NeverResentStep ==
    ASSUME \A i, j \in Instance : i = j, TypeOK, FlagInv, NeverResent, [Next]_vars
    PROVE  NeverResent'
  <1>1. ASSUME NEW r \in Run, RunStep(r)
        PROVE  NeverResent'
    <2>1. UNCHANGED outbox
      BY <1>1 DEF RunStep, StartRun, FetchBatch, FetchFails, FinishBatch
    <2>2. ASSUME NEW s \in Run, NEW e \in DOMAIN outbox, outbox[e].published
          PROVE  task'[s][e] = task[s][e] \/ task'[s][e] = "none"
      <3>1. e \in Event
        BY DEF TypeOK, IsTable
      <3>2. CASE StartRun(r)
        BY <3>2 DEF StartRun
      <3>3. CASE FetchFails(r) \/ FinishBatch(r)
        BY <3>1, <3>3 DEF TypeOK, FetchFails, FinishBatch, EndRun
      <3>4. CASE FetchBatch(r)
        <4>1. PICK batch \in UnpublishedEvents(outbox, BatchSize, MaxRetries) :
                \/ EndRun(r)
                \/ task' = [task EXCEPT ![r] =
                     [x \in Event |-> IF x \in batch THEN PublishEvent(outbox[x]) ELSE "none"]]
          BY <3>4 DEF FetchBatch
        <4>2. e \notin batch
          BY <2>2, BatchIsPending
        <4>3. CASE EndRun(r)
          BY <3>1, <4>3 DEF TypeOK, EndRun
        <4>4. CASE task' = [task EXCEPT ![r] =
                     [x \in Event |-> IF x \in batch THEN PublishEvent(outbox[x]) ELSE "none"]]
          BY <3>1, <4>2, <4>4 DEF TypeOK
        <4>5. QED
          BY <4>1, <4>3, <4>4
      <3>5. QED
        BY <1>1, <3>2, <3>3, <3>4 DEF RunStep
    <2>3. QED
      BY <2>1, <2>2 DEF NeverResent, KafkaTopic
  <1>2. ASSUME NEW r \in Run, NEW e \in Event, TaskStep(r, e)
        PROVE  NeverResent'
    <2>1. /\ task[r][e] # "none"
          /\ \E next \in {"mark", "retry", "settled"} : Advance(r, e, next)
      BY <1>2 DEF TaskStep, SendAcknowledged, SendRejected, MarkSucceeds, MarkFails,
             RetryCounted, RetryNotCounted, SkipCounted, SkipFails, KafkaTopic
    <2>2. \A s \in Run, x \in Event :
            task'[s][x] = task[s][x] \/ task'[s][x] \in {"mark", "retry", "settled"}
      BY <2>1 DEF TypeOK, Advance
    <2>3. \A s \in Run : task'[s][e] \notin KafkaTopic
      <3>1. ASSUME NEW s \in Run, s # r
            PROVE  task[s][e] = "none"
        <4>1. stage[r] # "idle"
          BY <2>1 DEF FlagInv
        <4>2. stage[s] = "idle"
          BY <3>1, <4>1, HostAssumption DEF FlagInv, OneBatchPerInstance
        <4>3. QED
          BY <4>2 DEF FlagInv
      <3>2. task'[r][e] \in {"mark", "retry", "settled"}
        BY <2>1 DEF TypeOK, Advance
      <3>3. \A s \in Run : s # r => task'[s][e] = task[s][e]
        BY <2>1 DEF TypeOK, Advance
      <3>4. QED
        BY <3>1, <3>2, <3>3 DEF KafkaTopic
    <2>4. /\ DOMAIN outbox' = DOMAIN outbox
          /\ \A x \in DOMAIN outbox : x # e => outbox'[x].published = outbox[x].published
      <3>1. \/ UNCHANGED outbox
            \/ e \in DOMAIN outbox /\ outbox' = MarkAsPublished(outbox, e)
            \/ e \in DOMAIN outbox /\ outbox' = IncrementRetryCount(outbox, e)
        BY <1>2 DEF TaskStep, SendAcknowledged, SendRejected, MarkSucceeds, MarkFails,
               RetryCounted, RetryNotCounted, SkipCounted, SkipFails
      <3>2. CASE e \in DOMAIN outbox /\ outbox' = MarkAsPublished(outbox, e)
        BY <3>2, MarkAsPublishedTable DEF TypeOK
      <3>3. CASE e \in DOMAIN outbox /\ outbox' = IncrementRetryCount(outbox, e)
        BY <3>3, IncrementRetryCountTable DEF TypeOK
      <3>4. QED
        BY <3>1, <3>2, <3>3
    <2>5. QED
      BY <2>2, <2>3, <2>4 DEF NeverResent, KafkaTopic, TypeOK, IsTable
  <1>3. ASSUME NEW i \in Instance, InstanceStep(i)
        PROVE  NeverResent'
    <2>1. /\ DOMAIN outbox' \subseteq DOMAIN outbox
          /\ \A x \in DOMAIN outbox' : outbox'[x] = outbox[x]
      BY <1>3, DeleteOldPublishedEventsTable
         DEF TypeOK, InstanceStep, CleanupOldEvents, BeginShutdown, CompleteShutdown, Crash, Restart
    <2>2. \A s \in Run, x \in Event : task'[s][x] = task[s][x] \/ task'[s][x] = "none"
      BY <1>3 DEF TypeOK, InstanceStep, CleanupOldEvents, BeginShutdown, CompleteShutdown,
                  Crash, Restart
    <2>3. QED
      BY <2>1, <2>2 DEF NeverResent, KafkaTopic, TypeOK, IsTable
  <1>4. ASSUME NEW e \in Event, EventStep(e)
        PROVE  NeverResent'
    <2>1. /\ UNCHANGED task
          /\ \A x \in DOMAIN outbox' :
               \/ x \in DOMAIN outbox /\ outbox'[x].published = outbox[x].published
               \/ ~outbox'[x].published
      BY <1>4, EventStepTable
    <2>2. QED
      BY <2>1 DEF NeverResent
  <1>5. CASE UNCHANGED vars
    BY <1>5 DEF vars, NeverResent
  <1>6. QED
    BY <1>1, <1>2, <1>3, <1>4, <1>5 DEF Next

\* Where one instance publishes, an event marked published is never sent again,
\* however many runs overlap and however often the process crashes.
THEOREM OneInstanceNeverResends ==
    ASSUME \A i, j \in Instance : i = j
    PROVE  Spec => []NeverResent
  <1>1. Init => NeverResent
    BY DEF Init, NeverResent
  <1>2. TypeOK /\ FlagInv /\ NeverResent /\ [Next]_vars => NeverResent'
    BY NeverResentStep
  <1>3. QED
    BY <1>1, <1>2, TypeCorrect, FlagInvariant, PTL DEF Spec

-----------------------------------------------------------------------------
(* Where duplicates come from                                              *)

\* An instance works on one batch: its other runs have no tasks.
LEMMA OneAtWork ==
    ASSUME TypeOK, FlagInv, NEW r \in Run, NEW e \in Event, task[r][e] # "none",
           NEW s \in Run, s # r, Host[s] = Host[r], NEW x \in Event
    PROVE  task[s][x] = "none"
  <1>1. stage[r] # "idle"
    BY DEF FlagInv
  <1>2. stage[s] = "idle"
    BY <1>1, HostAssumption DEF FlagInv, OneBatchPerInstance
  <1>3. QED
    BY <1>2 DEF FlagInv

\* Sets of instances have a size.
LEMMA InstancesFinite ==
    ASSUME NEW S \in SUBSET Instance
    PROVE  /\ IsFiniteSet(S) /\ Cardinality(S) \in Nat
           /\ Cardinality(S) <= Cardinality(Instance) /\ Cardinality(Instance) \in Nat
  BY InstanceAssumption, FS_Subset, FS_CardinalityType

\* The instances at work on an event.
LEMMA AtWorkType ==
    ASSUME NEW e
    PROVE  /\ Sending(e) \in SUBSET Instance /\ Sending(e)' \in SUBSET Instance
           /\ Settling(e) \in SUBSET Instance /\ Settling(e)' \in SUBSET Instance
  BY DEF Sending, Settling

\* What is explained is a natural number.
LEMMA ExcusedType ==
    ASSUME TypeOK, NEW e \in DOMAIN outbox
    PROVE  /\ outbox[e].retryCount \in Nat /\ stops \in Nat /\ Forgiven \in Nat
           /\ Excused(e) \in Nat
  <1>1. stops \in Nat /\ resets \in Nat /\ MaxRetries - 1 \in Nat
    BY LimitsAssumption DEF TypeOK
  <1>2. Cardinality(Instance) \in Nat
    BY InstancesFinite
  <1>3. Forgiven \in Nat
    BY <1>1, <1>2 DEF Forgiven
  <1>4. outbox[e].retryCount \in Nat
    BY DEF TypeOK, IsTable, Row
  <1>5. QED
    BY <1>1, <1>3, <1>4 DEF Excused

\* The same after a step.
LEMMA ExcusedTypeNext ==
    ASSUME TypeOK', NEW e \in DOMAIN outbox'
    PROVE  Excused(e)' \in Nat
  <1>1. stops' \in Nat /\ resets' \in Nat /\ MaxRetries - 1 \in Nat
    BY LimitsAssumption DEF TypeOK
  <1>2. Cardinality(Instance) \in Nat
    BY InstancesFinite
  <1>3. Forgiven' \in Nat
    BY <1>1, <1>2 DEF Forgiven
  <1>4. outbox'[e].retryCount \in Nat
    BY DEF TypeOK, IsTable, Row
  <1>5. QED
    BY <1>1, <1>3, <1>4 DEF Excused

\* The bound grows with the set of instances; an instance that leaves it is made
\* up for.
LEMMA BoundKept ==
    ASSUME NEW m \in Nat, NEW cost \in Nat, NEW cost2 \in Nat, NEW i,
           NEW S \in SUBSET Instance, NEW S2 \in SUBSET Instance,
           m <= Cardinality(S) + cost,
           \/ S \subseteq S2 /\ cost <= cost2
           \/ S \subseteq S2 \cup {i} /\ cost + 1 <= cost2
    PROVE  m <= Cardinality(S2) + cost2
  <1>1. /\ IsFiniteSet(S2)
        /\ Cardinality(S) \in Nat /\ Cardinality(S2) \in Nat
    BY InstancesFinite
  <1>2. CASE S \subseteq S2 /\ cost <= cost2
    <2>1. Cardinality(S) <= Cardinality(S2)
      BY <1>1, <1>2, FS_Subset
    <2>2. QED
      BY <1>1, <1>2, <2>1
  <1>3. CASE S \subseteq S2 \cup {i} /\ cost + 1 <= cost2
    <2>1. /\ IsFiniteSet(S2 \cup {i})
          /\ Cardinality(S2 \cup {i}) =
               IF i \in S2 THEN Cardinality(S2) ELSE Cardinality(S2) + 1
      BY <1>1, FS_AddElement
    <2>2. Cardinality(S) <= Cardinality(S2 \cup {i})
      BY <1>3, <2>1, FS_Subset
    <2>3. QED
      BY <1>1, <1>3, <2>1, <2>2
  <1>4. QED
    BY <1>2, <1>3

\* A row whose messages do not change stays accounted for when no instance starts
\* to send a published event, and each that has settled one is made up for.
LEMMA AccountKept ==
    ASSUME TypeOK, TypeOK', NEW topic \in KafkaTopic, NEW x \in DOMAIN outbox, NEW i,
           x \in DOMAIN outbox', Accounted(topic, x),
           outbox'[x].published = outbox[x].published,
           kafka'[topic][x] = kafka[topic][x],
           outbox[x].published => Sending(x)' \subseteq Sending(x) /\ Excused(x) <= Excused(x)',
           \/ Settling(x) \subseteq Settling(x)' /\ Excused(x) <= Excused(x)'
           \/ Settling(x) \subseteq Settling(x)' \cup {i} /\ Excused(x) + 1 <= Excused(x)'
    PROVE  Accounted(topic, x)'
  <1>1. Excused(x) \in Nat /\ Excused(x)' \in Nat
    BY ExcusedType, ExcusedTypeNext
  <1>2. kafka[topic][x] \in Nat
    BY DEF TypeOK, IsTable
  <1>3. CASE outbox[x].published
    <2>1. Cardinality(Sending(x)') <= Cardinality(Sending(x))
      BY <1>3, AtWorkType, InstancesFinite, FS_Subset
    <2>2. /\ Cardinality(Sending(x)) \in Nat /\ Cardinality(Sending(x)') \in Nat
          /\ Cardinality(Instance) \in Nat
      BY AtWorkType, InstancesFinite
    <2>3. kafka[topic][x] + Cardinality(Sending(x)) <= Cardinality(Instance) + Excused(x)
      BY <1>3 DEF Accounted
    <2>4. kafka[topic][x] + Cardinality(Sending(x)') <= Cardinality(Instance) + Excused(x)'
      BY <1>1, <1>2, <1>3, <2>1, <2>2, <2>3
    <2>5. QED
      BY <1>3, <2>4 DEF Accounted
  <1>4. CASE ~outbox[x].published
    <2>1. kafka[topic][x] <= Cardinality(Settling(x)) + Excused(x)
      BY <1>4 DEF Accounted
    <2>2. kafka[topic][x] <= Cardinality(Settling(x)') + Excused(x)'
      BY <1>1, <1>2, <2>1, AtWorkType, BoundKept
    <2>3. QED
      BY <1>4, <2>2 DEF Accounted
  <1>5. QED
    BY <1>3, <1>4

\* What a step of processOutboxEvents starts is unpublished, and it leaves no
\* message behind that waits to be settled.
LEMMA RunStepDuplicate ==
    ASSUME TypeOK, TypeOK', FlagInv, DuplicateInv, NEW r \in Run, RunStep(r)
    PROVE  DuplicateInv'
  <1>1. UNCHANGED <<outbox, deleted, kafka, stops, resets>>
    BY DEF RunStep, StartRun, FetchBatch, FetchFails, FinishBatch
  <1>2. ASSUME NEW s \in Run, NEW e \in Event
        PROVE  \/ task'[s][e] = task[s][e]
               \/ task[s][e] \notin {"mark", "retry"} /\ task'[s][e] = "none"
               \/ /\ e \in DOMAIN outbox /\ ~outbox[e].published
                  /\ task[s][e] = "none"
                  /\ task'[s][e] = PublishEvent(outbox[e])
    <2>1. CASE StartRun(r)
      BY <2>1 DEF StartRun
    <2>2. CASE FinishBatch(r)
      BY <2>2 DEF TypeOK, FinishBatch, EndRun
    <2>3. CASE FetchFails(r)
      BY <2>3 DEF TypeOK, FetchFails, EndRun, FlagInv
    <2>4. CASE FetchBatch(r)
      <3>1. PICK batch \in UnpublishedEvents(outbox, BatchSize, MaxRetries) :
              \/ EndRun(r)
              \/ task' = [task EXCEPT ![r] =
                   [x \in Event |-> IF x \in batch THEN PublishEvent(outbox[x]) ELSE "none"]]
        BY <2>4 DEF FetchBatch
      <3>2. \A x \in batch : x \in DOMAIN outbox /\ ~outbox[x].published
        BY BatchIsPending
      <3>3. task[r][e] = "none"
        BY <2>4 DEF FetchBatch, FlagInv
      <3>4. QED
        BY <3>1, <3>2, <3>3 DEF TypeOK, EndRun
    <2>5. QED
      BY <2>1, <2>2, <2>3, <2>4 DEF RunStep
  <1>3. ASSUME NEW e \in DOMAIN outbox
        PROVE  PublishEvent(outbox[e]) \in KafkaTopic \cup {"skip"}
    <2>1. outbox[e] \in Row
      BY DEF TypeOK, IsTable
    <2>2. QED
      BY <2>1 DEF Row, EventType, PublishEvent, GetTopicForEventType, KafkaTopic
  <1>4. ASSUME NEW s \in Run, NEW e \in Event, task'[s][e] = "retry"
        PROVE  task[s][e] = "retry"
    BY <1>2, <1>3, <1>4 DEF KafkaTopic
  <1>5. ASSUME NEW topic \in KafkaTopic, NEW x \in DOMAIN outbox, Accounted(topic, x)
        PROVE  Accounted(topic, x)'
    <2>1. x \in Event
      BY DEF TypeOK, IsTable
    <2>2. Settling(x) \subseteq Settling(x)'
      BY <1>2, <2>1 DEF Settling
    <2>3. outbox[x].published => Sending(x)' \subseteq Sending(x)
      BY <1>2, <2>1 DEF Sending, KafkaTopic
    <2>4. Excused(x)' = Excused(x) /\ Excused(x) \in Nat
      BY <1>1, ExcusedType DEF Excused, Forgiven
    <2>5. QED
      BY <1>1, <1>5, <2>2, <2>3, <2>4, AccountKept
  <1>6. QED
    BY <1>1, <1>4, <1>5 DEF DuplicateInv

\* A step of a task is a send, or settles a message.
LEMMA TaskStepKinds ==
    ASSUME "db" \notin Faults, TypeOK, DeliveryInv, NEW r \in Run, NEW e \in Event, TaskStep(r, e)
    PROVE  /\ UNCHANGED <<deleted, stops, resets>>
           /\ \/ /\ task[r][e] \in KafkaTopic
                 /\ Produce(task[r][e], e) \/ UNCHANGED kafka
                 /\ \/ Advance(r, e, "mark")
                    \/ Advance(r, e, "retry") /\ "kafka" \in Faults
                 /\ UNCHANGED outbox
              \/ /\ task[r][e] = "mark" /\ e \in DOMAIN outbox
                 /\ outbox' = MarkAsPublished(outbox, e)
                 /\ Advance(r, e, "settled")
                 /\ UNCHANGED kafka
              \/ /\ task[r][e] \in {"retry", "skip"} /\ e \in DOMAIN outbox
                 /\ task[r][e] = "skip" => ~Routable(outbox[e].eventType)
                 /\ outbox' = IncrementRetryCount(outbox, e)
                 /\ Advance(r, e, "settled")
                 /\ UNCHANGED kafka
              \/ /\ task[r][e] \in {"mark", "retry"} /\ e \notin DOMAIN outbox
                 /\ \/ Advance(r, e, "settled")
                    \/ task[r][e] = "mark" /\ Advance(r, e, "retry")
                 /\ UNCHANGED <<outbox, kafka>>
  <1>1. ~SkipFails(r, e)
    BY DEF SkipFails, DeliveryInv
  <1>2. QED
    BY <1>1 DEF TaskStep, SendAcknowledged, SendRejected, MarkSucceeds, MarkFails, RetryCounted,
             RetryNotCounted, SkipCounted, DeliveryInv

\* A message goes out for an instance that then has to settle it, or that was
\* still sending when the event was marked.
LEMMA SendAccounted ==
    ASSUME TypeOK, TypeOK', FlagInv, NEW r \in Run, NEW e \in DOMAIN outbox,
           NEW topic \in KafkaTopic, Accounted(topic, e),
           task[r][e] \in KafkaTopic, Produce(task[r][e], e) \/ UNCHANGED kafka,
           NEW next \in {"mark", "retry"}, Advance(r, e, next),
           UNCHANGED <<outbox, stops, resets>>
    PROVE  Accounted(topic, e)'
  <1> DEFINE i == Host[r]
  <1>1. i \in Instance /\ e \in Event
    BY HostAssumption DEF TypeOK, IsTable
  <1>2. /\ task'[r][e] = next
        /\ \A s \in Run : s # r => task'[s][e] = task[s][e]
    BY <1>1 DEF TypeOK, Advance
  <1>3. \A s \in Run : s # r /\ Host[s] = i => task[s][e] = "none"
    <2>1. task[r][e] # "none"
      BY DEF KafkaTopic
    <2>2. QED
      BY <1>1, <2>1, OneAtWork
  <1>4. kafka[topic][e] \in Nat /\ kafka'[topic][e] \in Nat /\ kafka'[topic][e] <= kafka[topic][e] + 1
    BY <1>1, LimitsAssumption DEF TypeOK, Produce
  <1>5. Excused(e)' = Excused(e) /\ Excused(e) \in Nat
    BY ExcusedType DEF Excused, Forgiven
  <1>6. /\ i \in Sending(e) /\ Sending(e)' = Sending(e) \ {i}
        /\ i \notin Settling(e) /\ Settling(e)' = Settling(e) \cup {i}
    <2>1. i \in Sending(e) /\ i \notin Sending(e)'
      BY <1>1, <1>2, <1>3 DEF Sending, KafkaTopic
    <2>2. i \notin Settling(e) /\ i \in Settling(e)'
      BY <1>1, <1>2, <1>3 DEF Settling, KafkaTopic
    <2>3. \A j \in Instance : j # i => (j \in Sending(e)' <=> j \in Sending(e))
      BY <1>2 DEF Sending
    <2>4. \A j \in Instance : j # i => (j \in Settling(e)' <=> j \in Settling(e))
      BY <1>2 DEF Settling
    <2>5. QED
      BY <2>1, <2>2, <2>3, <2>4, AtWorkType
  <1>7. /\ IsFiniteSet(Sending(e)) /\ Cardinality(Sending(e)) \in Nat
        /\ IsFiniteSet(Settling(e)) /\ Cardinality(Settling(e)) \in Nat
        /\ Cardinality(Instance) \in Nat
    BY AtWorkType, InstancesFinite
  <1>8. Cardinality(Sending(e)') = Cardinality(Sending(e)) - 1
    BY <1>6, <1>7, FS_RemoveElement
  <1>9. Cardinality(Settling(e)') = Cardinality(Settling(e)) + 1
    BY <1>6, <1>7, FS_AddElement
  <1>10. CASE outbox[e].published
    <2>1. kafka[topic][e] + Cardinality(Sending(e)) <= Cardinality(Instance) + Excused(e)
      BY <1>10 DEF Accounted
    <2>2. kafka'[topic][e] + Cardinality(Sending(e)') <= Cardinality(Instance) + Excused(e)'
      BY <1>4, <1>5, <1>7, <1>8, <2>1
    <2>3. QED
      BY <1>10, <2>2 DEF Accounted
  <1>11. CASE ~outbox[e].published
    <2>1. kafka[topic][e] <= Cardinality(Settling(e)) + Excused(e)
      BY <1>11 DEF Accounted
    <2>2. kafka'[topic][e] <= Cardinality(Settling(e)') + Excused(e)'
      BY <1>4, <1>5, <1>7, <1>9, <2>1
    <2>3. QED
      BY <1>11, <2>2 DEF Accounted
  <1>12. QED
    BY <1>10, <1>11

\* The first mark: who settles the event does not send it, so both fit among the
\* instances.  A second mark changes nothing.
LEMMA MarkAccounted ==
    ASSUME TypeOK, TypeOK', FlagInv, NEW r \in Run, NEW e \in DOMAIN outbox,
           NEW topic \in KafkaTopic, Accounted(topic, e),
           task[r][e] = "mark", outbox' = MarkAsPublished(outbox, e), Advance(r, e, "settled"),
           UNCHANGED <<kafka, stops, resets>>
    PROVE  Accounted(topic, e)'
  <1>1. e \in Event
    BY DEF TypeOK, IsTable
  <1>2. /\ task'[r][e] = "settled"
        /\ \A s \in Run : s # r => task'[s][e] = task[s][e]
    BY <1>1 DEF TypeOK, Advance
  <1>3. Sending(e)' = Sending(e)
    BY <1>2 DEF Sending, KafkaTopic
  <1>4. e \in DOMAIN outbox' /\ outbox'[e].published /\ outbox'[e].retryCount = outbox[e].retryCount
    BY MarkAsPublishedTable DEF TypeOK
  <1>5. Excused(e)' = Excused(e) /\ Excused(e) \in Nat
    BY <1>4, ExcusedType DEF Excused, Forgiven
  <1>6. kafka[topic][e] \in Nat
    BY <1>1 DEF TypeOK
  <1>7. /\ IsFiniteSet(Sending(e)) /\ Cardinality(Sending(e)) \in Nat
        /\ IsFiniteSet(Settling(e)) /\ Cardinality(Settling(e)) \in Nat
        /\ IsFiniteSet(Sending(e) \cup Settling(e))
        /\ Cardinality(Sending(e) \cup Settling(e)) <= Cardinality(Instance)
        /\ Cardinality(Instance) \in Nat
    BY AtWorkType, InstancesFinite
  <1>8. Sending(e) \cap Settling(e) = {}
    <2>1. ASSUME NEW s \in Run, NEW q \in Run, Host[s] = Host[q],
                 task[s][e] \in KafkaTopic, task[q][e] \in {"mark", "retry"}
          PROVE  FALSE
      <3>1. task[s][e] # "none" /\ task[q][e] # "none" /\ s # q
        BY <2>1 DEF KafkaTopic
      <3>2. QED
        BY <1>1, <2>1, <3>1, OneAtWork
    <2>2. QED
      BY <2>1 DEF Sending, Settling
  <1>9. Cardinality(Sending(e)) + Cardinality(Settling(e)) <= Cardinality(Instance)
    <2>1. Cardinality(Sending(e) \cup Settling(e)) =
            Cardinality(Sending(e)) + Cardinality(Settling(e))
              - Cardinality(Sending(e) \cap Settling(e))
      BY <1>7, FS_Union
    <2>2. Cardinality(Sending(e) \cap Settling(e)) = 0
      BY <1>8, FS_EmptySet
    <2>3. QED
      BY <1>7, <2>1, <2>2
  <1>10. kafka[topic][e] + Cardinality(Sending(e)) <= Cardinality(Instance) + Excused(e)
    <2>1. CASE outbox[e].published
      BY <2>1 DEF Accounted
    <2>2. CASE ~outbox[e].published
      <3>1. kafka[topic][e] <= Cardinality(Settling(e)) + Excused(e)
        BY <2>2 DEF Accounted
      <3>2. QED
        BY <1>5, <1>6, <1>7, <1>9, <3>1
    <2>3. QED
      BY <2>1, <2>2
  <1>11. QED
    BY <1>3, <1>4, <1>5, <1>10 DEF Accounted

\* A retry that is counted explains the message it settles.
LEMMA CountAccounted ==
    ASSUME TypeOK, TypeOK', FlagInv, NEW r \in Run, NEW e \in DOMAIN outbox,
           NEW topic \in KafkaTopic, Accounted(topic, e),
           outbox' = IncrementRetryCount(outbox, e), Advance(r, e, "settled"),
           UNCHANGED <<kafka, stops, resets>>
    PROVE  Accounted(topic, e)'
  <1>1. e \in Event
    BY DEF TypeOK, IsTable
  <1>2. /\ task'[r][e] = "settled"
        /\ \A s \in Run : s # r => task'[s][e] = task[s][e]
    BY <1>1 DEF TypeOK, Advance
  <1>3. Sending(e)' \subseteq Sending(e) /\ Settling(e) \subseteq Settling(e)' \cup {Host[r]}
    BY <1>2 DEF Sending, Settling, KafkaTopic
  <1>4. /\ e \in DOMAIN outbox' /\ outbox'[e].published = outbox[e].published
        /\ outbox'[e].retryCount = outbox[e].retryCount + 1
    BY IncrementRetryCountTable DEF TypeOK
  <1>5. /\ outbox[e].retryCount \in Nat /\ stops \in Nat /\ Forgiven \in Nat
        /\ Excused(e) \in Nat /\ Excused(e)' = Excused(e) + 1
    BY <1>4, ExcusedType DEF Excused, Forgiven
  <1>6. Excused(e) <= Excused(e)' /\ Excused(e) + 1 <= Excused(e)'
    BY <1>5
  <1>7. QED
    BY <1>3, <1>4, <1>6, AccountKept

\* The other events are left alone.
LEMMA TaskStepDuplicate ==
    ASSUME "db" \notin Faults, TypeOK, TypeOK', FlagInv, DeliveryInv, DuplicateInv,
           NEW r \in Run, NEW e \in Event, TaskStep(r, e)
    PROVE  DuplicateInv'
  <1>1. UNCHANGED <<deleted, stops, resets>>
    BY TaskStepKinds
  <1>2. \E next \in {"mark", "retry", "settled"} : Advance(r, e, next)
    BY TaskStepKinds
  <1>3. \A s \in Run, x \in Event : s # r \/ x # e => task'[s][x] = task[s][x]
    BY <1>2 DEF TypeOK, Advance
  <1>4. /\ DOMAIN outbox' = DOMAIN outbox
        /\ \A x \in DOMAIN outbox :
             /\ outbox'[x].eventType = outbox[x].eventType
             /\ x # e => outbox'[x] = outbox[x]
    <2>1. \/ UNCHANGED outbox
          \/ e \in DOMAIN outbox /\ outbox' = MarkAsPublished(outbox, e)
          \/ e \in DOMAIN outbox /\ outbox' = IncrementRetryCount(outbox, e)
      BY TaskStepKinds
    <2>2. QED
      BY <2>1 DEF TypeOK, IsTable, Row, MarkAsPublished, IncrementRetryCount
  <1>5. ASSUME NEW topic \in KafkaTopic, NEW x \in Event
        PROVE  /\ x # e => kafka'[topic][x] = kafka[topic][x]
               /\ x \notin DOMAIN outbox \cup deleted => kafka'[topic][x] = 0
    <2>1. \/ UNCHANGED kafka
          \/ task[r][e] \in KafkaTopic /\ Produce(task[r][e], e)
      BY TaskStepKinds
    <2>2. x # e => kafka'[topic][x] = kafka[topic][x]
      BY <2>1 DEF TypeOK, Produce
    <2>3. UNCHANGED kafka \/ e \in DOMAIN outbox \cup deleted
      BY <2>1 DEF DeliveryInv
    <2>4. QED
      BY <2>2, <2>3 DEF DuplicateInv
  <1>6. ASSUME NEW topic \in KafkaTopic, NEW x \in DOMAIN outbox, x # e, Accounted(topic, x)
        PROVE  Accounted(topic, x)'
    <2>1. x \in Event
      BY DEF TypeOK, IsTable
    <2>2. \A s \in Run : task'[s][x] = task[s][x]
      BY <1>3, <1>6, <2>1
    <2>3. Sending(x)' = Sending(x) /\ Settling(x)' = Settling(x)
      BY <2>2 DEF Sending, Settling
    <2>4. QED
      BY <1>1, <1>4, <1>5, <1>6, <2>1, <2>3 DEF Accounted, Excused, Forgiven
  <1>7. ASSUME NEW topic \in KafkaTopic, e \in DOMAIN outbox, Accounted(topic, e),
               Routable(outbox[e].eventType)
        PROVE  Accounted(topic, e)'
    BY <1>7, TaskStepKinds, SendAccounted, MarkAccounted, CountAccounted
  <1>8. ASSUME "kafka" \notin Faults
        PROVE  /\ \A x \in DOMAIN outbox :
                    Routable(outbox[x].eventType) => outbox'[x].retryCount = 0
               /\ \A s \in Run, x \in Event : task'[s][x] = "retry" => x \in deleted
    <2>1. e \in DOMAIN outbox => task[r][e] # "retry"
      BY <1>8 DEF DuplicateInv, TypeOK
    <2>2. e \in DOMAIN outbox /\ Routable(outbox[e].eventType) =>
            outbox'[e].retryCount = outbox[e].retryCount
      BY <2>1, TaskStepKinds, MarkAsPublishedTable DEF TypeOK
    <2>3. task'[r][e] = "retry" => e \in deleted
      <3>1. task'[r][e] = "retry" => task[r][e] = "mark" /\ e \notin DOMAIN outbox
        BY <1>8, TaskStepKinds DEF TypeOK, Advance
      <3>2. QED
        BY <3>1 DEF DeliveryInv
    <2>4. QED
      BY <1>3, <1>4, <1>8, <2>2, <2>3 DEF DuplicateInv
  <1>9. QED
    BY <1>1, <1>4, <1>5, <1>6, <1>7, <1>8 DEF DuplicateInv

\* A stop explains the message its instance had yet to settle.
LEMMA InstanceStepDuplicate ==
    ASSUME TypeOK, TypeOK', FlagInv, DuplicateInv, NEW i \in Instance, InstanceStep(i)
    PROVE  DuplicateInv'
  <1>1. /\ UNCHANGED <<kafka, resets>>
        /\ \A s \in Run, x \in Event :
             task'[s][x] = task[s][x] \/ (Host[s] = i /\ task'[s][x] = "none")
    BY DEF TypeOK, InstanceStep, CleanupOldEvents, BeginShutdown, CompleteShutdown, Crash, Restart
  <1>2. /\ DOMAIN outbox' \subseteq DOMAIN outbox
        /\ deleted' = deleted \cup (DOMAIN outbox \ DOMAIN outbox')
        /\ \A x \in DOMAIN outbox' : outbox'[x] = outbox[x]
    <2>1. CASE CleanupOldEvents(i)
      BY <2>1, DeleteOldPublishedEventsTable DEF TypeOK, CleanupOldEvents
    <2>2. CASE BeginShutdown(i) \/ CompleteShutdown(i) \/ Crash(i) \/ Restart(i)
      BY <2>2 DEF BeginShutdown, CompleteShutdown, Crash, Restart
    <2>3. QED
      BY <2>1, <2>2 DEF InstanceStep
  <1>3. UNCHANGED <<task, stops>> \/ stops' = stops + 1
    BY DEF InstanceStep, CleanupOldEvents, BeginShutdown, CompleteShutdown, Crash, Restart
  <1>4. ASSUME NEW topic \in KafkaTopic, NEW x \in DOMAIN outbox', Accounted(topic, x)
        PROVE  Accounted(topic, x)'
    <2>1. x \in DOMAIN outbox /\ x \in Event /\ outbox'[x] = outbox[x]
      BY <1>2 DEF TypeOK, IsTable
    <2>2. stops \in Nat /\ outbox[x].retryCount \in Nat /\ Forgiven \in Nat /\ Excused(x) \in Nat
      BY <2>1, ExcusedType
    <2>3. Sending(x)' \subseteq Sending(x) /\ Settling(x) \subseteq Settling(x)' \cup {i}
      BY <1>1, <2>1 DEF Sending, Settling, KafkaTopic
    <2>4. \/ Settling(x) \subseteq Settling(x)' /\ Excused(x) <= Excused(x)'
          \/ Excused(x) + 1 <= Excused(x)'
      <3>1. CASE UNCHANGED <<task, stops>>
        BY <1>1, <2>1, <2>2, <3>1 DEF Settling, Excused, Forgiven
      <3>2. CASE stops' = stops + 1
        BY <1>1, <2>1, <2>2, <3>2 DEF Excused, Forgiven
      <3>3. QED
        BY <1>3, <3>1, <3>2
    <2>5. Excused(x)' \in Nat
      BY <1>4, ExcusedTypeNext
    <2>6. Excused(x) <= Excused(x)'
      BY <2>2, <2>4, <2>5
    <2>7. QED
      BY <1>1, <1>4, <2>1, <2>3, <2>4, <2>6, AccountKept
  <1>5. \A s \in Run, x \in Event : task'[s][x] = "retry" => task[s][x] = "retry"
    BY <1>1
  <1>6. QED
    BY <1>1, <1>2, <1>4, <1>5 DEF DuplicateInv

\* A reset takes back no more retries than the budget allows.
LEMMA ResetDuplicate ==
    ASSUME TypeOK, TypeOK', RetryInv, DuplicateInv, NEW e \in Event, ResetFailed(e)
    PROVE  DuplicateInv'
  <1>1. /\ e \in DOMAIN outbox /\ outbox[e].retryCount >= MaxRetries
        /\ outbox' = ResetFailedEvent(outbox, e) /\ resets' = resets + 1
        /\ UNCHANGED <<deleted, kafka, task, stops>>
    BY DEF ResetFailed, FailedEvents
  <1>2. /\ DOMAIN outbox' = DOMAIN outbox
        /\ outbox'[e].retryCount = 0
        /\ \A x \in DOMAIN outbox :
             /\ outbox'[x].eventType = outbox[x].eventType
             /\ outbox'[x].published = outbox[x].published
             /\ x # e => outbox'[x].retryCount = outbox[x].retryCount
    BY <1>1, ResetFailedEventTable DEF TypeOK
  <1> DEFINE most == MaxRetries - 1 + Cardinality(Instance)
  <1>3. most \in Nat /\ resets \in Nat /\ MaxRetries \in Nat \ {0}
    BY InstancesFinite, LimitsAssumption DEF TypeOK
  <1>4. Forgiven' = IF "kafka" \in Faults THEN Forgiven + most ELSE Forgiven
    BY <1>1, <1>3 DEF Forgiven
  <1>5. Routable(outbox[e].eventType) => "kafka" \in Faults
    BY <1>1, <1>3 DEF DuplicateInv
  <1>6. Routable(outbox[e].eventType) => outbox[e].retryCount <= most
    <2>1. outbox[e].retryCount <=
            MaxRetries - 1 + Cardinality(Instance) * RetriesPerBatch(outbox[e].eventType)
      BY <1>1, BudgetHolds DEF RetryBudget
    <2>2. QED
      BY <2>1, InstancesFinite DEF RetriesPerBatch
  <1> HIDE DEF most
  <1>7. ASSUME NEW topic \in KafkaTopic, NEW x \in DOMAIN outbox, Accounted(topic, x),
               Routable(outbox[x].eventType)
        PROVE  Accounted(topic, x)'
    <2>1. stops \in Nat /\ outbox[x].retryCount \in Nat /\ Forgiven \in Nat
      BY ExcusedType
    <2>2. Sending(x)' = Sending(x) /\ Settling(x)' = Settling(x)
      BY <1>1 DEF Sending, Settling
    <2>3. Excused(x) <= Excused(x)'
      <3>1. CASE x = e
        BY <1>1, <1>2, <1>3, <1>4, <1>5, <1>6, <1>7, <2>1, <3>1 DEF Excused
      <3>2. CASE x # e
        BY <1>1, <1>2, <1>3, <1>4, <2>1, <3>2 DEF Excused
      <3>3. QED
        BY <3>1, <3>2
    <2>4. QED
      BY <1>1, <1>2, <1>7, <2>2, <2>3, AccountKept
  <1>8. "kafka" \notin Faults =>
          \A x \in DOMAIN outbox : Routable(outbox[x].eventType) => outbox'[x].retryCount = 0
    BY <1>2 DEF DuplicateInv
  <1>9. QED
    BY <1>1, <1>2, <1>7, <1>8 DEF DuplicateInv

\* A new event has no messages.
LEMMA EventStepDuplicate ==
    ASSUME TypeOK, TypeOK', RetryInv, DuplicateInv, NEW e \in Event, EventStep(e)
    PROVE  DuplicateInv'
  <1>1. CASE ResetFailed(e)
    BY <1>1, ResetDuplicate
  <1>2. CASE ~ResetFailed(e)
    <2>1. /\ UNCHANGED <<deleted, kafka, task, stops, resets>>
          /\ \A x \in DOMAIN outbox :
               /\ outbox'[x].eventType = outbox[x].eventType
               /\ outbox'[x].published = outbox[x].published
          /\ \/ DOMAIN outbox' = DOMAIN outbox
             \/ /\ DOMAIN outbox' = DOMAIN outbox \cup {e}
                /\ e \notin DOMAIN outbox \cup deleted
                /\ ~outbox'[e].published
      BY <1>2, EventStepTable DEF EventStep, SavePaymentEvent, PublishedLongAgo
    <2>2. /\ \A x \in DOMAIN outbox : outbox'[x].retryCount = outbox[x].retryCount
          /\ \A x \in DOMAIN outbox' \ DOMAIN outbox : outbox'[x].retryCount = 0
      <3>1. CASE PublishedLongAgo(e)
        BY <3>1, GrowOldTable DEF TypeOK, PublishedLongAgo
      <3>2. ASSUME NEW a \in Aggregate, NEW type \in EventType, NEW t \in Timestamp,
                   SavePaymentEvent(e, a, type, t)
            PROVE  /\ \A x \in DOMAIN outbox : outbox'[x].retryCount = outbox[x].retryCount
                   /\ \A x \in DOMAIN outbox' \ DOMAIN outbox : outbox'[x].retryCount = 0
        BY <3>2 DEF SavePaymentEvent, SaveEvent
      <3>3. QED
        BY <1>2, <3>1, <3>2 DEF EventStep
    <2>3. ASSUME NEW topic \in KafkaTopic, NEW x \in DOMAIN outbox, Accounted(topic, x)
          PROVE  Accounted(topic, x)'
      <3>1. Sending(x)' = Sending(x) /\ Settling(x)' = Settling(x)
        BY <2>1 DEF Sending, Settling
      <3>2. Excused(x)' = Excused(x)
        BY <2>1, <2>2 DEF Excused, Forgiven
      <3>3. QED
        BY <2>1, <2>3, <3>1, <3>2 DEF Accounted
    <2>4. ASSUME NEW topic \in KafkaTopic, NEW x \in DOMAIN outbox' \ DOMAIN outbox
          PROVE  Accounted(topic, x)'
      <3>1. x = e /\ kafka'[topic][x] = 0 /\ ~outbox'[x].published
        BY <2>1, <2>4 DEF DuplicateInv
      <3>2. Excused(x)' \in Nat
        BY <2>4, ExcusedTypeNext
      <3>3. Cardinality(Settling(x)') \in Nat
        BY AtWorkType, InstancesFinite
      <3>4. QED
        BY <3>1, <3>2, <3>3 DEF Accounted
    <2>5. QED
      BY <2>1, <2>2, <2>3, <2>4 DEF DuplicateInv
  <1>3. QED
    BY <1>1, <1>2

LEMMA DuplicateStep ==
    ASSUME "db" \notin Faults, TypeOK, TypeOK', FlagInv, DeliveryInv, RetryInv, DuplicateInv,
           [Next]_vars
    PROVE  DuplicateInv'
  <1>1. CASE UNCHANGED vars
    BY <1>1 DEF vars, DuplicateInv, Accounted, Excused, Forgiven, Sending, Settling
  <1>2. QED
    BY <1>1, RunStepDuplicate, TaskStepDuplicate, InstanceStepDuplicate, EventStepDuplicate
       DEF Next

LEMMA DuplicateInvariant ==
    ASSUME "db" \notin Faults
    PROVE  Spec => []DuplicateInv
  <1>1. Init => DuplicateInv
    BY DEF Init, DuplicateInv, KafkaTopic
  <1>2. TypeOK /\ TypeOK' /\ FlagInv /\ DeliveryInv /\ RetryInv /\ DuplicateInv /\ [Next]_vars
          => DuplicateInv'
    BY DuplicateStep
  <1>3. QED
    BY <1>1, <1>2, TypeCorrect, FlagInvariant, DeliveryInvariant, RetryInvariant, PTL DEF Spec

\* While the database answers, for any number of instances and whatever Kafka
\* does: beyond one message per instance an event has one more for each process
\* that stopped and each retry counted, and no retry where Kafka answers as well.
THEOREM DuplicatesAccounted ==
    ASSUME "db" \notin Faults
    PROVE  Spec => []FewDuplicates
  <1>1. TypeOK /\ DuplicateInv => FewDuplicates
    <2> SUFFICES ASSUME TypeOK, DuplicateInv, NEW e \in DOMAIN outbox,
                        Routable(outbox[e].eventType), NEW topic \in KafkaTopic
                 PROVE  kafka[topic][e] <= Cardinality(Instance) + Excused(e)
      BY DEF FewDuplicates, DuplicateInv
    <2>1. Excused(e) \in Nat /\ kafka[topic][e] \in Nat
      BY ExcusedType DEF TypeOK, IsTable
    <2>2. /\ Cardinality(Sending(e)) \in Nat /\ Cardinality(Settling(e)) \in Nat
          /\ Cardinality(Settling(e)) <= Cardinality(Instance) /\ Cardinality(Instance) \in Nat
      BY AtWorkType, InstancesFinite
    <2>3. Accounted(topic, e)
      BY DEF DuplicateInv
    <2>4. CASE outbox[e].published
      BY <2>1, <2>2, <2>3, <2>4 DEF Accounted
    <2>5. CASE ~outbox[e].published
      BY <2>1, <2>2, <2>3, <2>5 DEF Accounted
    <2>6. QED
      BY <2>4, <2>5
  <1>2. QED
    BY <1>1, TypeCorrect, DuplicateInvariant, PTL

-----------------------------------------------------------------------------
(* Steps of the publisher's own, for those who compose it with a service   *)

\* All of Next but the transactions that save events.
OwnStep ==
    \/ \E r \in Run : RunStep(r)
    \/ \E r \in Run, e \in Event : TaskStep(r, e)
    \/ \E i \in Instance : InstanceStep(i)
    \/ \E e \in Event : PublishedLongAgo(e) \/ ResetFailed(e)

\* What the service wrote into a row is never changed, and a row that goes was
\* published.
LEMMA OwnStepRows ==
    ASSUME TypeOK, OwnStep
    PROVE  /\ DOMAIN outbox' \subseteq DOMAIN outbox
           /\ DOMAIN outbox' \cup deleted' = DOMAIN outbox \cup deleted
           /\ \A x \in DOMAIN outbox \ DOMAIN outbox' : outbox[x].published
           /\ \A x \in DOMAIN outbox' :
                /\ outbox'[x].aggregateId = outbox[x].aggregateId
                /\ outbox'[x].eventType = outbox[x].eventType
                /\ outbox'[x].createdAt = outbox[x].createdAt
                /\ resets' = 0 => outbox'[x].retryCount >= outbox[x].retryCount
           /\ resets' = 0 => resets = 0
  <1>1. \A x \in DOMAIN outbox : outbox[x].retryCount \in Nat /\ outbox[x] \in Row
    BY DEF TypeOK, IsTable, Row
  <1>2. resets \in Nat
    BY LimitsAssumption DEF TypeOK
  <1>3. CASE \E r \in Run : RunStep(r)
    BY <1>1, <1>3 DEF RunStep, StartRun, FetchBatch, FetchFails, FinishBatch
  <1>4. ASSUME NEW r \in Run, NEW e \in Event, TaskStep(r, e)
        PROVE  /\ DOMAIN outbox' = DOMAIN outbox
               /\ UNCHANGED <<deleted, resets>>
               /\ \A x \in DOMAIN outbox :
                    /\ outbox'[x].aggregateId = outbox[x].aggregateId
                    /\ outbox'[x].eventType = outbox[x].eventType
                    /\ outbox'[x].createdAt = outbox[x].createdAt
                    /\ outbox'[x].retryCount >= outbox[x].retryCount
    <2>1. /\ \/ UNCHANGED outbox
             \/ outbox' = MarkAsPublished(outbox, e)
             \/ outbox' = IncrementRetryCount(outbox, e)
          /\ UNCHANGED <<deleted, resets>>
      BY <1>4 DEF TaskStep, SendAcknowledged, SendRejected, MarkSucceeds, MarkFails,
             RetryCounted, RetryNotCounted, SkipCounted, SkipFails
    <2>2. QED
      BY <1>1, <2>1 DEF MarkAsPublished, IncrementRetryCount, Row
  <1>5. ASSUME NEW i \in Instance, InstanceStep(i)
        PROVE  /\ DOMAIN outbox' \subseteq DOMAIN outbox
               /\ DOMAIN outbox' \cup deleted' = DOMAIN outbox \cup deleted
               /\ \A x \in DOMAIN outbox \ DOMAIN outbox' : outbox[x].published
               /\ \A x \in DOMAIN outbox' : outbox'[x] = outbox[x]
               /\ UNCHANGED resets
    BY <1>5, DeleteOldPublishedEventsTable
       DEF TypeOK, InstanceStep, CleanupOldEvents, BeginShutdown, CompleteShutdown, Crash, Restart
  <1>6. ASSUME NEW e \in Event, PublishedLongAgo(e) \/ ResetFailed(e)
        PROVE  /\ DOMAIN outbox' = DOMAIN outbox
               /\ UNCHANGED deleted
               /\ \A x \in DOMAIN outbox :
                    /\ outbox'[x].aggregateId = outbox[x].aggregateId
                    /\ outbox'[x].eventType = outbox[x].eventType
                    /\ outbox'[x].createdAt = outbox[x].createdAt
               /\ \/ /\ UNCHANGED resets
                     /\ \A x \in DOMAIN outbox : outbox'[x].retryCount = outbox[x].retryCount
                  \/ resets' = resets + 1
    BY <1>1, <1>6 DEF PublishedLongAgo, ResetFailed, GrowOld, ResetFailedEvent, Row
  <1>7. QED
    BY <1>1, <1>2, <1>3, <1>4, <1>5, <1>6 DEF OwnStep

\* Messages stay, a new one was on its way, and a new task sends to the topic of
\* its row.
LEMMA OwnStepMessages ==
    ASSUME TypeOK, OwnStep, NEW x \in Event
    PROVE  /\ Delivered(x) => Delivered(x)'
           /\ \A topic \in KafkaTopic : kafka'[topic][x] > 0 =>
                kafka[topic][x] > 0 \/ \E r \in Run : task[r][x] = topic
           /\ \A r \in Run : task'[r][x] \in KafkaTopic =>
                \/ task'[r][x] = task[r][x]
                \/ /\ x \in DOMAIN outbox
                   /\ task'[r][x] = GetTopicForEventType(outbox[x].eventType)
  <1>1. ASSUME NEW r \in Run, RunStep(r)
        PROVE  /\ UNCHANGED kafka
               /\ \A s \in Run : task'[s][x] \in KafkaTopic =>
                    \/ task'[s][x] = task[s][x]
                    \/ /\ x \in DOMAIN outbox
                       /\ task'[s][x] = GetTopicForEventType(outbox[x].eventType)
    <2>1. CASE StartRun(r)
      BY <2>1 DEF StartRun
    <2>2. CASE FetchFails(r) \/ FinishBatch(r)
      BY <2>2 DEF TypeOK, FetchFails, FinishBatch, EndRun, KafkaTopic
    <2>3. CASE FetchBatch(r)
      <3>1. PICK batch \in UnpublishedEvents(outbox, BatchSize, MaxRetries) :
              \/ EndRun(r)
              \/ task' = [task EXCEPT ![r] =
                   [y \in Event |-> IF y \in batch THEN PublishEvent(outbox[y]) ELSE "none"]]
        BY <2>3 DEF FetchBatch
      <3>2. x \in batch => x \in DOMAIN outbox /\ outbox[x] \in Row
        BY BatchIsPending DEF TypeOK, IsTable
      <3>3. x \in batch => PublishEvent(outbox[x]) \in
              {"skip", GetTopicForEventType(outbox[x].eventType)}
        BY <3>2, PublishEventStarts
      <3>4. QED
        BY <2>3, <3>1, <3>2, <3>3 DEF TypeOK, FetchBatch, EndRun, KafkaTopic
    <2>4. QED
      BY <1>1, <2>1, <2>2, <2>3 DEF RunStep
  <1>2. ASSUME NEW r \in Run, NEW e \in Event, TaskStep(r, e)
        PROVE  /\ \A s \in Run : task'[s][x] = task[s][x] \/ task'[s][x] \notin KafkaTopic
               /\ \/ UNCHANGED kafka
                  \/ task[r][e] \in KafkaTopic /\ Produce(task[r][e], e)
    <2>1. /\ \E next \in {"mark", "retry", "settled"} : Advance(r, e, next)
          /\ \/ UNCHANGED kafka
             \/ task[r][e] \in KafkaTopic /\ Produce(task[r][e], e)
      BY <1>2 DEF TaskStep, SendAcknowledged, SendRejected, MarkSucceeds, MarkFails,
             RetryCounted, RetryNotCounted, SkipCounted, SkipFails
    <2>2. QED
      BY <2>1 DEF TypeOK, Advance, KafkaTopic
  <1>3. ASSUME NEW r \in Run, NEW e \in Event, TaskStep(r, e)
        PROVE  /\ Delivered(x) => Delivered(x)'
               /\ \A topic \in KafkaTopic : kafka'[topic][x] > 0 =>
                    kafka[topic][x] > 0 \/ task[r][x] = topic
    <2>1. CASE UNCHANGED kafka
      BY <2>1 DEF Delivered
    <2>2. CASE task[r][e] \in KafkaTopic /\ Produce(task[r][e], e)
      BY <2>2, ProduceDelivers DEF Delivered
    <2>3. QED
      BY <1>2, <1>3, <2>1, <2>2
  <1>4. ASSUME NEW i \in Instance, InstanceStep(i)
        PROVE  /\ UNCHANGED kafka
               /\ \A s \in Run : task'[s][x] = task[s][x] \/ task'[s][x] = "none"
    BY <1>4 DEF TypeOK, InstanceStep, CleanupOldEvents, BeginShutdown, CompleteShutdown,
                Crash, Restart
  <1>5. ASSUME NEW e \in Event, PublishedLongAgo(e) \/ ResetFailed(e)
        PROVE  UNCHANGED <<kafka, task>>
    BY <1>5 DEF PublishedLongAgo, ResetFailed
  <1>6. QED
    BY <1>1, <1>2, <1>3, <1>4, <1>5 DEF OwnStep, Delivered, KafkaTopic

\* Nobody waits for event f any more: it has a message or was given up on.
Over(f) == Delivered(f) \/ (f \in DOMAIN outbox /\ outbox[f].retryCount >= MaxRetries)

\* Without resets, what is over stays over.
LEMMA OverStays ==
    ASSUME TypeOK, DeliveryInv, OwnStep, resets' = 0, NEW f \in Event, Over(f)
    PROVE  Over(f)'
  <1>1. CASE Delivered(f)
    BY <1>1, OwnStepMessages DEF Over
  <1>2. CASE f \in DOMAIN outbox /\ outbox[f].retryCount >= MaxRetries
    <2>1. CASE f \in DOMAIN outbox'
      <3>1. outbox'[f].retryCount >= outbox[f].retryCount
        BY <2>1, OwnStepRows
      <3>2. outbox[f].retryCount \in Nat /\ outbox'[f].retryCount \in Int /\ MaxRetries \in Nat
        <4>1. TypeOK'
          BY TypeStep DEF OwnStep, Next, EventStep
        <4>2. QED
          BY <1>2, <2>1, <4>1, LimitsAssumption DEF TypeOK, IsTable, Row
      <3>3. QED
        BY <1>2, <2>1, <3>1, <3>2 DEF Over
    <2>2. CASE f \notin DOMAIN outbox'
      <3>1. outbox[f].published
        BY <1>2, <2>2, OwnStepRows
      <3>2. Delivered(f)
        BY <1>2, <3>1, RowTopic DEF DeliveryInv, PublishedWasSent, Delivered
      <3>3. QED
        BY <3>2, OwnStepMessages DEF Over
    <2>3. QED
      BY <2>1, <2>2
  <1>3. QED
    BY <1>1, <1>2 DEF Over

\* A batch takes no event and leaves an older one in the queue.
LEMMA BatchSkipsNone ==
    ASSUME TypeOK, DeliveryInv, NEW f \in DOMAIN outbox \cup deleted,
           NEW batch \in UnpublishedEvents(outbox, BatchSize, MaxRetries), NEW e \in batch,
           f \in DOMAIN outbox => outbox[f].createdAt < outbox[e].createdAt
    PROVE  f \in batch \/ Over(f)
  <1>1. CASE f \in deleted
    BY <1>1 DEF DeliveryInv, PublishedWasSent, Over
  <1>2. CASE f \in DOMAIN outbox /\ outbox[f].published
    BY <1>2, RowTopic DEF DeliveryInv, PublishedWasSent, Over, Delivered
  <1>3. CASE f \in DOMAIN outbox /\ ~outbox[f].published
    <2>1. CASE outbox[f].retryCount < MaxRetries
      <3>1. f \in PendingEvents(outbox, MaxRetries)
        BY <1>3, <2>1 DEF PendingEvents
      <3>2. f \notin batch => outbox[e].createdAt <= outbox[f].createdAt
        BY <3>1 DEF UnpublishedEvents
      <3>3. outbox[e].createdAt \in Nat /\ outbox[f].createdAt \in Nat
        BY <1>3, BatchIsPending, TimestampAssumption DEF TypeOK, IsTable, Row
      <3>4. QED
        BY <1>3, <3>2, <3>3
    <2>2. CASE outbox[f].retryCount >= MaxRetries
      BY <1>3, <2>2 DEF Over
    <2>3. outbox[f].retryCount \in Nat /\ MaxRetries \in Nat
      BY <1>3, LimitsAssumption DEF TypeOK, IsTable, Row
    <2>4. QED
      BY <2>1, <2>2, <2>3
  <1>4. QED
    BY <1>1, <1>2, <1>3

\* Where run r is about to send event e, an older event f is over or in its
\* batch; no step of the publisher's changes that.
LEMMA OvertakingStep ==
    ASSUME TypeOK, DeliveryInv, OwnStep, resets' = 0,
           NEW r \in Run, NEW e \in Event, NEW f \in DOMAIN outbox \cup deleted,
           e \in DOMAIN outbox /\ f \in DOMAIN outbox =>
               outbox[f].createdAt < outbox[e].createdAt,
           task[r][e] \in KafkaTopic => Over(f) \/ task[r][f] # "none",
           task'[r][e] \in KafkaTopic
    PROVE  Over(f)' \/ task'[r][f] # "none"
  <1>1. f \in Event
    BY DEF TypeOK, IsTable
  <1>2. CASE Over(f)
    BY <1>1, <1>2, OverStays
  <1>3. CASE ~Over(f)
    <2>1. ASSUME NEW s \in Run, RunStep(s)
          PROVE  task'[r][f] # "none"
      <3>1. CASE s # r \/ StartRun(s)
        <4>1. task'[r] = task[r]
          BY <2>1, <3>1 DEF TypeOK, RunStep, StartRun, FetchBatch, FetchFails, FinishBatch, EndRun
        <4>2. QED
          BY <1>3, <4>1
      <3>2. CASE s = r /\ EndRun(r)
        BY <3>2 DEF TypeOK, EndRun, KafkaTopic
      <3>3. ASSUME s = r, NEW batch \in UnpublishedEvents(outbox, BatchSize, MaxRetries),
                   task' = [task EXCEPT ![r] =
                     [y \in Event |-> IF y \in batch THEN PublishEvent(outbox[y]) ELSE "none"]]
            PROVE  task'[r][f] # "none"
        <4>1. e \in batch
          BY <3>3 DEF TypeOK, KafkaTopic
        <4>2. f \in batch
          BY <1>3, <4>1, BatchIsPending, BatchSkipsNone
        <4>3. outbox[f] \in Row
          BY <4>2, BatchIsPending DEF TypeOK, IsTable
        <4>4. PublishEvent(outbox[f]) # "none"
          BY <4>3 DEF Row, EventType, PublishEvent, GetTopicForEventType
        <4>5. QED
          BY <1>1, <3>3, <4>2, <4>4 DEF TypeOK
      <3>4. QED
        BY <2>1, <3>1, <3>2, <3>3 DEF RunStep, FetchBatch, FetchFails, FinishBatch
    <2>2. ASSUME NEW s \in Run, NEW x \in Event, TaskStep(s, x)
          PROVE  task'[r][f] # "none"
      <3>1. \E next \in {"mark", "retry", "settled"} : Advance(s, x, next)
        BY <2>2 DEF TaskStep, SendAcknowledged, SendRejected, MarkSucceeds, MarkFails,
               RetryCounted, RetryNotCounted, SkipCounted, SkipFails
      <3>2. task'[r][e] = task[r][e]
        BY <3>1 DEF TypeOK, Advance, KafkaTopic
      <3>3. task[r][f] # "none"
        BY <1>3, <3>2
      <3>4. QED
        BY <1>1, <3>1, <3>3 DEF TypeOK, Advance
    <2>3. ASSUME NEW i \in Instance, InstanceStep(i)
          PROVE  task'[r][f] # "none"
      <3>1. task'[r] = task[r] \/ task'[r] = [y \in Event |-> "none"]
        BY <2>3 DEF TypeOK, InstanceStep, CleanupOldEvents, BeginShutdown, CompleteShutdown,
                    Crash, Restart
      <3>2. QED
        BY <1>3, <3>1 DEF KafkaTopic
    <2>4. ASSUME NEW x \in Event, PublishedLongAgo(x) \/ ResetFailed(x)
          PROVE  task'[r][f] # "none"
      BY <1>3, <2>4 DEF PublishedLongAgo, ResetFailed
    <2>5. QED
      BY <2>1, <2>2, <2>3, <2>4 DEF OwnStep
  <1>4. QED
    BY <1>2, <1>3

=============================================================================
