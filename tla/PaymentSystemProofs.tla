------------------------ MODULE PaymentSystemProofs ------------------------
(***************************************************************************)
(* What the deployed service guarantees for any number of payments, events *)
(* and processes, from the theorems about its halves.                      *)
(*                                                                         *)
(* SP and PP are the modules of the halves once more, with their proofs.   *)
(* What PaymentSystem says of Service and Publisher is, definition by      *)
(* definition, what these say.                                             *)
(***************************************************************************)
EXTENDS PaymentSystem, TLAPS

SP == INSTANCE PaymentsProofs WITH outbox <- saved, Faults <- PaymentFaults

PP == INSTANCE OutboxPublisherProofs WITH Faults <- PublisherFaults

-----------------------------------------------------------------------------
(* The two halves, as the modules with their proofs see them               *)

\* The initial states.
LEMMA ServiceInitSame == Service!Init => SP!Init
  BY DEF Service!Init, SP!Init, Service!Idle, SP!Idle

LEMMA PublisherInitSame == Publisher!Init => PP!Init
  BY DEF Publisher!Init, PP!Init, Publisher!KafkaTopic, PP!KafkaTopic

\* Each step of the composition is a step of the service, or leaves it alone.
LEMMA ServiceStep == [SystemNext]_systemVars => [Service!Next]_serviceVars
  BY DEF SystemNext, systemVars, serviceVars, ServeCall, AcceptSettlement, HandlerMoves,
         HandlerQuery, CommitSettlement, HandlerRejects, ServerDies, Elsewhere, PublisherRun,
         PublisherTask, ProcessStep, RowStep, Service!Next, Service!HandlerStep,
         Service!HandlerProgress, OrderCode, Service!OrderCode

\* The steps of the service, the commit apart because it is needed alone.
LEMMA CommitSame == \A h : Service!Commit(h) => SP!Commit(h)
  BY DEF Service!Commit, SP!Commit, Service!StatusAfter, SP!StatusAfter,
         Service!EventTypeOf, SP!EventTypeOf, Service!SaveEvent, SP!SaveEvent, Service!Idle,
         SP!Idle

LEMMA ServiceNextSame == Service!Next => SP!Next
  <1>1. \A key, order :
           Service!ReturnCachedPayment(key, order) => SP!ReturnCachedPayment(key, order)
    BY DEF Service!ReturnCachedPayment, SP!ReturnCachedPayment,
           Service!FindByIdempotencyKey, SP!FindByIdempotencyKey, Service!ToPaymentEntity,
           SP!ToPaymentEntity
  <1>2. \A c, key, order :
           Service!RequestPaymentLink(c, key, order) => SP!RequestPaymentLink(c, key, order)
    BY DEF Service!RequestPaymentLink, SP!RequestPaymentLink, Service!FindByIdempotencyKey,
           SP!FindByIdempotencyKey, Service!ToPaymentEntity, SP!ToPaymentEntity,
           Service!BuildZaloPayAppTransId, SP!BuildZaloPayAppTransId, Service!Idle, SP!Idle
  <1>3. \A c : Service!LinkCreated(c) => SP!LinkCreated(c)
    BY DEF Service!LinkCreated, SP!LinkCreated
  <1>4. \A c : Service!LinkRefused(c) => SP!LinkRefused(c)
    BY DEF Service!LinkRefused, SP!LinkRefused, Service!Idle, SP!Idle
  <1>5. \A c : Service!InsertPayment(c) => SP!InsertPayment(c)
    BY DEF Service!InsertPayment, SP!InsertPayment, Service!UniqueViolation,
           SP!UniqueViolation, Service!InsertRow, SP!InsertRow, Service!Idle, SP!Idle
  <1>6. \A c : Service!InsertFails(c) => SP!InsertFails(c)
    BY DEF Service!InsertFails, SP!InsertFails, Service!UniqueViolation, SP!UniqueViolation,
           Service!InsertRow, SP!InsertRow, Service!Idle, SP!Idle
  <1>7. \A t : Service!Pay(t) => SP!Pay(t)
    BY DEF Service!Pay, SP!Pay, Service!KnownLinks, SP!KnownLinks
  <1>8. \A h, t, kind : Service!HandleCallback(h, t, kind) => SP!HandleCallback(h, t, kind)
    BY DEF Service!HandleCallback, SP!HandleCallback, Service!RoomForEvent, SP!RoomForEvent,
           Service!Busy, SP!Busy, Service!Idle, SP!Idle, Service!Cardinality, SP!Cardinality
  <1>9. \A h, order : Service!CancelPayment(h, order) => SP!CancelPayment(h, order)
    BY DEF Service!CancelPayment, SP!CancelPayment, Service!RoomForEvent, SP!RoomForEvent,
           Service!Busy, SP!Busy, Service!Idle, SP!Idle, Service!Cardinality, SP!Cardinality
  <1>10. \A h : Service!PaymentFound(h) => SP!PaymentFound(h)
    BY DEF Service!PaymentFound, SP!PaymentFound
  <1>11. \A h : Service!PaymentNotFound(h) => SP!PaymentNotFound(h)
    BY DEF Service!PaymentNotFound, SP!PaymentNotFound, Service!Rejects, SP!Rejects,
           Service!ProcessDies, SP!ProcessDies, Service!Idle, SP!Idle
  <1>12. \A h : Service!UpdatePayment(h) => SP!UpdatePayment(h)
    BY DEF Service!UpdatePayment, SP!UpdatePayment, Service!RowLocked, SP!RowLocked
  <1>13. \A h : Service!UpdateFails(h) => SP!UpdateFails(h)
    BY DEF Service!UpdateFails, SP!UpdateFails, Service!Rejects, SP!Rejects,
           Service!ProcessDies, SP!ProcessDies, Service!Idle, SP!Idle
  <1>14. \A h : Service!SaveOutboxEvent(h) => SP!SaveOutboxEvent(h)
    BY DEF Service!SaveOutboxEvent, SP!SaveOutboxEvent
  <1>15. \A h : Service!HandlerFails(h) => SP!HandlerFails(h)
    BY DEF Service!HandlerFails, SP!HandlerFails, Service!Rejects, SP!Rejects,
           Service!ProcessDies, SP!ProcessDies, Service!Idle, SP!Idle
  <1>16. Service!Crash => SP!Crash
    BY DEF Service!Crash, SP!Crash, Service!ProcessDies, SP!ProcessDies, Service!Idle,
           SP!Idle
  <1>17. Service!Midnight => SP!Midnight
    BY DEF Service!Midnight, SP!Midnight
  <1>18. QED
    BY <1>1, <1>2, <1>3, <1>4, <1>5, <1>6, <1>7, <1>8, <1>9, <1>10, <1>11, <1>12, <1>13,
       <1>14, <1>15, <1>16, <1>17, CommitSame
       DEF Service!Next, SP!Next, Service!CallStep, SP!CallStep, Service!HandlerStep,
           SP!HandlerStep, Service!HandlerProgress, SP!HandlerProgress, Service!Txn, SP!Txn,
           Service!OrderCode, SP!OrderCode

\* The steps of the publisher, apart from its half of a commit.
LEMMA SaveSame ==
    \A e, a, type, t :
        Publisher!SavePaymentEvent(e, a, type, t) => PP!SavePaymentEvent(e, a, type, t)
  BY DEF Publisher!SavePaymentEvent, PP!SavePaymentEvent, Publisher!SaveEvent, PP!SaveEvent

\* Publisher!Next but the transactions that save events.
PublisherOwnStep ==
    \/ \E r \in Run : Publisher!RunStep(r)
    \/ \E r \in Run, e \in Event : Publisher!TaskStep(r, e)
    \/ \E i \in Instance : Publisher!InstanceStep(i)
    \/ \E e \in Event : Publisher!PublishedLongAgo(e) \/ Publisher!ResetFailed(e)

LEMMA OwnStepSame == PublisherOwnStep => PP!OwnStep
  <1>1. \A r : Publisher!StartRun(r) => PP!StartRun(r)
    BY DEF Publisher!StartRun, PP!StartRun
  <1>2. \A r : Publisher!FetchBatch(r) => PP!FetchBatch(r)
    BY DEF Publisher!FetchBatch, PP!FetchBatch, Publisher!EndRun, PP!EndRun,
           Publisher!UnpublishedEvents, PP!UnpublishedEvents, Publisher!PendingEvents,
           PP!PendingEvents, Publisher!Cardinality, PP!Cardinality, Publisher!PublishEvent,
           PP!PublishEvent, Publisher!GetTopicForEventType, PP!GetTopicForEventType
  <1>3. \A r : Publisher!FetchFails(r) => PP!FetchFails(r)
    BY DEF Publisher!FetchFails, PP!FetchFails, Publisher!EndRun, PP!EndRun
  <1>4. \A r : Publisher!FinishBatch(r) => PP!FinishBatch(r)
    BY DEF Publisher!FinishBatch, PP!FinishBatch, Publisher!EndRun, PP!EndRun
  <1>5. \A r, e : Publisher!SendAcknowledged(r, e) => PP!SendAcknowledged(r, e)
    BY DEF Publisher!SendAcknowledged, PP!SendAcknowledged, Publisher!KafkaTopic,
           PP!KafkaTopic, Publisher!Produce, PP!Produce, Publisher!Advance, PP!Advance
  <1>6. \A r, e : Publisher!SendRejected(r, e) => PP!SendRejected(r, e)
    BY DEF Publisher!SendRejected, PP!SendRejected, Publisher!KafkaTopic, PP!KafkaTopic,
           Publisher!Produce, PP!Produce, Publisher!Advance, PP!Advance
  <1>7. \A r, e : Publisher!MarkSucceeds(r, e) => PP!MarkSucceeds(r, e)
    BY DEF Publisher!MarkSucceeds, PP!MarkSucceeds, Publisher!MarkAsPublished,
           PP!MarkAsPublished, Publisher!Advance, PP!Advance
  <1>8. \A r, e : Publisher!MarkFails(r, e) => PP!MarkFails(r, e)
    BY DEF Publisher!MarkFails, PP!MarkFails, Publisher!MarkAsPublished, PP!MarkAsPublished,
           Publisher!Advance, PP!Advance
  <1>9. \A r, e : Publisher!RetryCounted(r, e) => PP!RetryCounted(r, e)
    BY DEF Publisher!RetryCounted, PP!RetryCounted, Publisher!IncrementRetryCount,
           PP!IncrementRetryCount, Publisher!Advance, PP!Advance
  <1>10. \A r, e : Publisher!RetryNotCounted(r, e) => PP!RetryNotCounted(r, e)
    BY DEF Publisher!RetryNotCounted, PP!RetryNotCounted, Publisher!Advance, PP!Advance
  <1>11. \A r, e : Publisher!SkipCounted(r, e) => PP!SkipCounted(r, e)
    BY DEF Publisher!SkipCounted, PP!SkipCounted, Publisher!IncrementRetryCount,
           PP!IncrementRetryCount, Publisher!Advance, PP!Advance
  <1>12. \A r, e : Publisher!SkipFails(r, e) => PP!SkipFails(r, e)
    BY DEF Publisher!SkipFails, PP!SkipFails, Publisher!IncrementRetryCount,
           PP!IncrementRetryCount, Publisher!Advance, PP!Advance
  <1>13. \A i : Publisher!CleanupOldEvents(i) => PP!CleanupOldEvents(i)
    BY DEF Publisher!CleanupOldEvents, PP!CleanupOldEvents, Publisher!OldPublishedEvents,
           PP!OldPublishedEvents, Publisher!DeleteOldPublishedEvents,
           PP!DeleteOldPublishedEvents, Publisher!Restrict, PP!Restrict
  <1>14. \A i : Publisher!BeginShutdown(i) => PP!BeginShutdown(i)
    BY DEF Publisher!BeginShutdown, PP!BeginShutdown
  <1>15. \A i : Publisher!CompleteShutdown(i) => PP!CompleteShutdown(i)
    BY DEF Publisher!CompleteShutdown, PP!CompleteShutdown
  <1>16. \A i : Publisher!Crash(i) => PP!Crash(i)
    BY DEF Publisher!Crash, PP!Crash
  <1>17. \A i : Publisher!Restart(i) => PP!Restart(i)
    BY DEF Publisher!Restart, PP!Restart
  <1>18. \A e : Publisher!PublishedLongAgo(e) => PP!PublishedLongAgo(e)
    BY DEF Publisher!PublishedLongAgo, PP!PublishedLongAgo, Publisher!GrowOld, PP!GrowOld
  <1>19. \A e : Publisher!ResetFailed(e) => PP!ResetFailed(e)
    BY DEF Publisher!ResetFailed, PP!ResetFailed, Publisher!FailedEvents, PP!FailedEvents,
           Publisher!ResetFailedEvent, PP!ResetFailedEvent
  <1>20. QED
    BY <1>1, <1>2, <1>3, <1>4, <1>5, <1>6, <1>7, <1>8, <1>9, <1>10, <1>11, <1>12, <1>13,
       <1>14, <1>15, <1>16, <1>17, <1>18, <1>19
       DEF PublisherOwnStep, PP!OwnStep, Publisher!RunStep, PP!RunStep, Publisher!TaskStep,
           PP!TaskStep, Publisher!InstanceStep, PP!InstanceStep

-----------------------------------------------------------------------------
(* Each step of the composition is a step of one half, or a commit of both *)

\* A commit adds one row to either table, with the same contents.
CommitBoth(h, e) ==
    /\ SP!Commit(h)
    /\ e \in DOMAIN saved' \ DOMAIN saved
    /\ PP!SavePaymentEvent(e, saved'[e].aggregateId, saved'[e].eventType, saved'[e].createdAt)

\* Any other step leaves one of the halves alone, as far as the other can see.
PublisherAlone ==
    /\ UNCHANGED saved
    /\ (PP!OwnStep /\ UNCHANGED <<payment, paid>>) \/ UNCHANGED publisherVars

\* What the rest of this module knows about the steps of the composition.
LEMMA SystemSplit ==
    [SystemNext]_systemVars => PublisherAlone \/ \E h \in Handler : \E e : CommitBoth(h, e)
  <1> SUFFICES ASSUME [SystemNext]_systemVars
               PROVE  PublisherAlone \/ \E h \in Handler : \E e : CommitBoth(h, e)
    OBVIOUS
  <1>1. ASSUME NEW h \in Handler, CommitSettlement(h)
        PROVE  \E e : CommitBoth(h, e)
    BY <1>1, CommitSame, SaveSame DEF CommitSettlement, CommitBoth
  <1>2. CASE UNCHANGED systemVars
    BY <1>2 DEF systemVars, serviceVars, PublisherAlone
  <1>3. CASE ServeCall \/ Elsewhere
    BY <1>3 DEF ServeCall, Elsewhere, PublisherAlone, Service!ReturnCachedPayment,
           Service!CallStep, Service!RequestPaymentLink, Service!LinkCreated,
           Service!LinkRefused, Service!InsertPayment, Service!InsertFails, Service!Pay,
           Service!Midnight
  <1>4. ASSUME NEW h \in Handler, AcceptSettlement(h) \/ HandlerQuery(h)
        PROVE  PublisherAlone
    BY <1>4 DEF AcceptSettlement, HandlerQuery, PublisherAlone, Service!HandleCallback,
           Service!CancelPayment, Service!PaymentFound, Service!UpdatePayment,
           Service!SaveOutboxEvent
  <1>5. ASSUME NEW h \in Handler, HandlerRejects(h)
        PROVE  PublisherAlone
    <2>1. UNCHANGED <<saved, payment, paid>>
      BY <1>5 DEF HandlerRejects, Service!PaymentNotFound, Service!UpdateFails,
             Service!HandlerFails
    <2>2. UNCHANGED publisherVars \/ Publisher!Crash(Server)
      BY <1>5 DEF HandlerRejects
    <2>3. QED
      BY <2>1, <2>2, OwnStepSame, ServerAssumption
         DEF PublisherAlone, PublisherOwnStep, Publisher!InstanceStep
  <1>6. CASE ServerDies
    BY <1>6, OwnStepSame, ServerAssumption
       DEF ServerDies, PublisherAlone, PublisherOwnStep, Publisher!InstanceStep, Service!Crash
  <1>7. CASE \/ \E r \in Run : PublisherRun(r)
             \/ \E r \in Run, e \in Event : PublisherTask(r, e)
             \/ \E i \in Instance : ProcessStep(i)
             \/ \E e \in Event : RowStep(e)
    BY <1>7, OwnStepSame
       DEF PublisherRun, PublisherTask, ProcessStep, RowStep, PublisherAlone, PublisherOwnStep,
           Publisher!InstanceStep, serviceVars
  <1>8. QED
    BY <1>1, <1>2, <1>3, <1>4, <1>5, <1>6, <1>7 DEF SystemNext, HandlerMoves

\* The row of a commit is new to either table, and what the publisher reads in
\* it is what the service wrote.
LEMMA CommitRow ==
    ASSUME SP!TypeOK, SP!TypeOK', NEW h \in Handler, NEW e, CommitBoth(h, e)
    PROVE  /\ e \in Event
           /\ e \notin DOMAIN saved /\ e \notin DOMAIN outbox \cup deleted
           /\ DOMAIN saved' = DOMAIN saved \cup {e}
           /\ \A x \in DOMAIN saved : saved'[x] = saved[x]
           /\ saved'[e].aggregateId \in Aggregate
           /\ saved'[e].eventType \in EventType
           /\ saved'[e].createdAt \in Timestamp
           /\ DOMAIN outbox' = DOMAIN outbox \cup {e}
           /\ \A x \in DOMAIN outbox : outbox'[x] = outbox[x]
           /\ outbox'[e].aggregateId = saved'[e].aggregateId
           /\ outbox'[e].eventType = saved'[e].eventType
           /\ outbox'[e].createdAt = saved'[e].createdAt
           /\ UNCHANGED <<deleted, kafka, isProcessing, lifecycle, stage, task, stops, resets>>
  <1>1. PICK new \in Event \ DOMAIN saved :
          saved' = SP!SaveEvent(saved, new, handler[h].order, SP!EventTypeOf(handler[h].kind),
                                handler[h].createdAt)
    BY DEF CommitBoth, SP!Commit
  <1>2. /\ DOMAIN saved' = DOMAIN saved \cup {new}
        /\ \A x \in DOMAIN saved : saved'[x] = saved[x]
    BY <1>1 DEF SP!SaveEvent
  <1>3. e = new
    BY <1>2 DEF CommitBoth
  <1>4. saved'[e] \in SP!Row
    BY <1>2, <1>3 DEF SP!TypeOK, SP!IsTable
  <1>5. /\ e \notin DOMAIN outbox \cup deleted
        /\ outbox' = PP!SaveEvent(outbox, e, saved'[e].aggregateId, saved'[e].eventType,
                                  saved'[e].createdAt)
        /\ UNCHANGED <<deleted, kafka, isProcessing, lifecycle, stage, task, stops, resets>>
    BY DEF CommitBoth, PP!SavePaymentEvent
  <1>6. QED
    BY <1>2, <1>3, <1>4, <1>5 DEF PP!SaveEvent, SP!Row, EventType, SP!EventType

\* Each step is a step of the publisher as well, or leaves it alone.
LEMMA PublisherStep ==
    SP!TypeOK /\ SP!TypeOK' /\ [SystemNext]_systemVars => [PP!Next]_(PP!vars)
  <1>1. PublisherAlone => [PP!Next]_(PP!vars)
    BY DEF PublisherAlone, publisherVars, PP!OwnStep, PP!Next, PP!EventStep, PP!vars
  <1>2. ASSUME SP!TypeOK, SP!TypeOK', NEW h \in Handler, NEW e, CommitBoth(h, e)
        PROVE  PP!Next
    <2>1. /\ e \in Event
          /\ saved'[e].aggregateId \in Aggregate
          /\ saved'[e].eventType \in PP!EventType
          /\ saved'[e].createdAt \in Timestamp
      BY <1>2, CommitRow DEF EventType, PP!EventType
    <2>2. PP!EventStep(e)
      BY <1>2, <2>1 DEF CommitBoth, PP!EventStep
    <2>3. QED
      BY <2>1, <2>2 DEF PP!Next
  <1>3. QED
    BY <1>1, <1>2, SystemSplit

-----------------------------------------------------------------------------
(* The halves keep their promises in the composition                       *)

\* The constants are as the proofs of the halves assume.
LEMMA ServiceConstants ==
    /\ Settlements \subseteq {"success", "failure", "cancel"}
    /\ PaymentFaults \subseteq {"db", "crash"}
    /\ SP!IsFiniteSet(Handler)
    /\ MaxDay \in Nat /\ MaxEvents \in Nat /\ Timestamp = 1..MaxEvents
    /\ Timestamp \subseteq Nat
  BY ServiceAssumption, TimestampAssumption DEF IsFiniteSet, SP!IsFiniteSet

\* A behaviour of the composition is one of the service.
LEMMA ServiceRuns == SystemSpec => SP!Spec
  <1>1. SystemInit => SP!Init
    BY ServiceInitSame DEF SystemInit
  <1>2. [SystemNext]_systemVars => [SP!Next]_(SP!vars)
    BY ServiceStep, ServiceNextSame DEF serviceVars, SP!vars
  <1>3. QED
    BY <1>1, <1>2, PTL DEF SystemSpec, SP!Spec

\* Its invariants hold.
LEMMA ServiceInvariants ==
    SystemSpec => [](/\ SP!TypeOK /\ SP!LockInv /\ SP!NoFalseCompletion /\ SP!SettledAnnounced)
  <1>1. SP!Spec => [](SP!TypeOK /\ SP!LockInv)
    BY SP!LockInvariant, ServiceConstants
  <1>2. SP!Spec => []SP!NoFalseCompletion
    BY SP!CompletedMeansPaid, ServiceConstants
  <1>3. SP!Spec => []SP!SettledAnnounced
    BY SP!SettlementsAnnounced, ServiceConstants
  <1>4. QED
    BY <1>1, <1>2, <1>3, ServiceRuns, PTL

LEMMA PublisherConstants ==
    /\ PP!IsFiniteSet(Instance) /\ Host \in [Run -> Instance]
    /\ BatchSize \in Nat \ {0} /\ MaxRetries \in Nat \ {0} /\ MaxMessages \in Nat \ {0}
    /\ MaxStops \in Nat /\ MaxResets \in Nat
    /\ PublisherFaults \subseteq {"db", "kafka"}
    /\ Timestamp \subseteq Nat
  BY PublisherAssumption, TimestampAssumption DEF IsFiniteSet, PP!IsFiniteSet

\* And one of the publisher.
LEMMA PublisherRuns == SystemSpec => PP!Spec
  <1>1. SystemInit => PP!Init
    BY PublisherInitSame DEF SystemInit
  <1>2. SP!TypeOK /\ SP!TypeOK' /\ [SystemNext]_systemVars => [PP!Next]_(PP!vars)
    BY PublisherStep
  <1>3. QED
    BY <1>1, <1>2, ServiceInvariants, PTL DEF SystemSpec, PP!Spec

LEMMA PublisherInvariants == SystemSpec => [](PP!TypeOK /\ PP!DeliveryInv)
  <1>1. PP!Spec => []PP!TypeOK
    BY PP!TypeCorrect, PublisherConstants
  <1>2. PP!Spec => []PP!DeliveryInv
    BY PP!DeliveryInvariant, PublisherConstants
  <1>3. QED
    BY <1>1, <1>2, PublisherRuns, PTL

\* The rows the service saved are natural-dated and about payments there are.
LEMMA SavedRows ==
    ASSUME SP!TypeOK, SP!LockInv, NEW e \in DOMAIN saved
    PROVE  /\ e \in Event
           /\ saved[e].eventType \in EventType
           /\ saved[e].createdAt \in Nat
           /\ saved[e].aggregateId \in DOMAIN payment
  BY TimestampAssumption
     DEF SP!TypeOK, SP!LockInv, SP!IsTable, SP!Row, SP!EventType, EventType

-----------------------------------------------------------------------------
(* One table                                                               *)

LEMMA OneTableInit == SystemInit => OneTable
  BY DEF SystemInit, Service!Init, Publisher!Init, OneTable

\* Two cases: a commit adds the same row to both, and no step of the publisher
\* touches what the service wrote.
LEMMA OneTableStep ==
    SP!TypeOK /\ SP!TypeOK' /\ PP!TypeOK /\ OneTable /\ [SystemNext]_systemVars => OneTable'
  <1> SUFFICES ASSUME SP!TypeOK, SP!TypeOK', PP!TypeOK, OneTable, [SystemNext]_systemVars
               PROVE  OneTable'
    OBVIOUS
  <1>1. ASSUME NEW h \in Handler, NEW e, CommitBoth(h, e)
        PROVE  OneTable'
    <2>1. DOMAIN saved' = DOMAIN outbox' \cup deleted'
      BY <1>1, CommitRow DEF OneTable
    <2>2. \A x \in DOMAIN outbox : outbox'[x] = outbox[x] /\ saved'[x] = saved[x]
      BY <1>1, CommitRow DEF OneTable
    <2>3. /\ DOMAIN outbox' = DOMAIN outbox \cup {e}
          /\ outbox'[e].aggregateId = saved'[e].aggregateId
          /\ outbox'[e].eventType = saved'[e].eventType
          /\ outbox'[e].createdAt = saved'[e].createdAt
      BY <1>1, CommitRow
    <2>4. QED
      BY <2>1, <2>2, <2>3 DEF OneTable
  <1>2. CASE PublisherAlone
    <2>1. CASE PP!OwnStep
      BY <1>2, <2>1, PP!OwnStepRows, PublisherConstants DEF PublisherAlone, OneTable
    <2>2. CASE UNCHANGED publisherVars
      BY <1>2, <2>2 DEF PublisherAlone, publisherVars, OneTable
    <2>3. QED
      BY <1>2, <2>1, <2>2 DEF PublisherAlone
  <1>3. QED
    BY <1>1, <1>2, SystemSplit

\* The table the publisher works on is the one the service fills: what a
\* transaction saved is there as it was written, or was deleted after its time,
\* whatever the publishers do and whoever dies.
THEOREM HalvesAgree == SystemSpec => []OneTable
  BY OneTableInit, OneTableStep, ServiceInvariants, PublisherInvariants, PTL DEF SystemSpec

-----------------------------------------------------------------------------
(* The messages                                                            *)

\* Event e is in a topic, or on its way to it.
InTopic(topic, e) == kafka[topic][e] > 0 \/ \E r \in Run : task[r][e] = topic

\* Nothing is in a topic, or on its way to it, but saved events of its type.
TopicInv ==
    \A topic \in PP!KafkaTopic, e \in Event : InTopic(topic, e) =>
        e \in DOMAIN saved /\ topic = PP!GetTopicForEventType(saved[e].eventType)

LEMMA TopicInit == SystemInit => TopicInv
  BY PublisherInitSame DEF SystemInit, PP!Init, TopicInv, InTopic, PP!KafkaTopic

\* A message was on its way before, and a new task takes the topic of its row,
\* which is the row the service saved.
LEMMA TopicStep ==
    SP!TypeOK /\ SP!TypeOK' /\ PP!TypeOK /\ OneTable /\ TopicInv /\ [SystemNext]_systemVars
        => TopicInv'
  <1> SUFFICES ASSUME SP!TypeOK, SP!TypeOK', PP!TypeOK, OneTable, TopicInv,
                      [SystemNext]_systemVars
               PROVE  TopicInv'
    OBVIOUS
  <1>1. ASSUME NEW h \in Handler, NEW e, CommitBoth(h, e)
        PROVE  TopicInv'
    <2>1. /\ DOMAIN saved \subseteq DOMAIN saved'
          /\ \A x \in DOMAIN saved : saved'[x] = saved[x]
          /\ UNCHANGED <<kafka, task>>
      BY <1>1, CommitRow
    <2>2. QED
      BY <2>1 DEF TopicInv, InTopic
  <1>2. CASE PublisherAlone
    <2>1. UNCHANGED saved
      BY <1>2 DEF PublisherAlone
    <2>2. ASSUME PP!OwnStep, NEW topic \in PP!KafkaTopic, NEW e \in Event, InTopic(topic, e)'
          PROVE  e \in DOMAIN saved /\ topic = PP!GetTopicForEventType(saved[e].eventType)
      <3>1. /\ kafka'[topic][e] > 0 => InTopic(topic, e)
            /\ \A r \in Run : task'[r][e] \in PP!KafkaTopic =>
                 \/ task'[r][e] = task[r][e]
                 \/ /\ e \in DOMAIN outbox
                    /\ task'[r][e] = PP!GetTopicForEventType(outbox[e].eventType)
        BY <2>2, PP!OwnStepMessages, PublisherConstants DEF InTopic
      <3>2. CASE InTopic(topic, e)
        BY <3>2 DEF TopicInv
      <3>3. CASE e \in DOMAIN outbox /\ topic = PP!GetTopicForEventType(outbox[e].eventType)
        BY <3>3 DEF OneTable
      <3>4. QED
        BY <2>2, <3>1, <3>2, <3>3 DEF InTopic
    <2>3. CASE UNCHANGED publisherVars
      BY <2>1, <2>3 DEF publisherVars, TopicInv, InTopic
    <2>4. QED
      BY <1>2, <2>1, <2>2, <2>3 DEF PublisherAlone, TopicInv
  <1>3. QED
    BY <1>1, <1>2, SystemSplit

LEMMA TopicInvariant == SystemSpec => []TopicInv
  BY TopicInit, TopicStep, HalvesAgree, ServiceInvariants, PublisherInvariants, PTL
     DEF SystemSpec

\* A consumer of payment.completed may ship, for any number of processes,
\* deaths, callbacks and retries between the payer and Kafka.
THEOREM MessagesTrue == SystemSpec => []MessagesAreTrue
  <1>1. SP!TypeOK /\ SP!LockInv /\ SP!NoFalseCompletion /\ TopicInv => MessagesAreTrue
    <2> SUFFICES ASSUME SP!TypeOK, SP!LockInv, SP!NoFalseCompletion, TopicInv, NEW e \in Event
                 PROVE  /\ kafka["payment.completed"][e] > 0 =>
                             /\ e \in DOMAIN saved
                             /\ saved[e].aggregateId \in DOMAIN payment
                             /\ payment[saved[e].aggregateId].providerTransactionId \in paid
                        /\ kafka["payment.failed"][e] > 0 =>
                             e \in DOMAIN saved /\ saved[e].eventType = "PAYMENT_FAILED"
      BY DEF MessagesAreTrue
    <2>1. \A topic \in {"payment.completed", "payment.failed"} : kafka[topic][e] > 0 =>
            e \in DOMAIN saved /\ topic = PP!GetTopicForEventType(saved[e].eventType)
      BY DEF TopicInv, InTopic, PP!KafkaTopic
    <2>2. \A type : /\ PP!GetTopicForEventType(type) = "payment.completed" =>
                         type = "PAYMENT_COMPLETED"
                    /\ PP!GetTopicForEventType(type) = "payment.failed" => type = "PAYMENT_FAILED"
      BY DEF PP!GetTopicForEventType
    <2>3. QED
      BY <2>1, <2>2, SavedRows DEF SP!NoFalseCompletion
  <1>2. QED
    BY <1>1, ServiceInvariants, TopicInvariant, PTL

-----------------------------------------------------------------------------
(* The order of messages                                                   *)

\* The operators of the halves which the properties mention.
LEMMA EventsOfSame == \A o : Service!EventsOf(o) = SP!EventsOf(o)
  BY DEF Service!EventsOf, SP!EventsOf

LEMMA OverSame ==
    \A f : PP!Over(f) <=> Publisher!Delivered(f) \/ GivenUp(f)
  BY DEF PP!Over, PP!Delivered, Publisher!Delivered, PP!KafkaTopic, Publisher!KafkaTopic, GivenUp

\* NoOvertaking, in terms of the publisher's proofs.
OrderInv ==
    resets = 0 =>
        \A r \in Run, e \in Event : task[r][e] \in PP!KafkaTopic =>
            \A f \in OlderEvents(e) : PP!Over(f) \/ task[r][f] # "none"

\* A new event is dated after all others of its payment.
LEMMA CommitIsNewest ==
    ASSUME SP!TypeOK, SP!TypeOK', SP!LockInv, NEW h \in Handler, NEW new, CommitBoth(h, new),
           NEW e \in DOMAIN saved
    PROVE  OlderEvents(e)' = OlderEvents(e)
  <1>1. /\ DOMAIN saved' = DOMAIN saved \cup {new} /\ new \notin DOMAIN saved
        /\ \A x \in DOMAIN saved : saved'[x] = saved[x]
    BY CommitRow
  <1>2. PICK o \in DOMAIN payment, added \in Event \ DOMAIN saved :
          /\ DOMAIN saved' = DOMAIN saved \cup {added}
          /\ saved'[added].createdAt \in Timestamp
          /\ SP!EventsOf(o)' = SP!EventsOf(o) \cup {added}
          /\ \A x \in SP!EventsOf(o) : saved[x].createdAt < saved'[added].createdAt
    BY SP!CommitEvents, ServiceConstants DEF CommitBoth
  <1>3. added = new /\ saved'[new].aggregateId = o
    BY <1>1, <1>2 DEF SP!EventsOf
  <1>4. saved[e].createdAt \in Nat /\ saved'[new].createdAt \in Nat
    BY <1>2, <1>3, SavedRows, TimestampAssumption
  <1>5. new \notin OlderEvents(e)'
    <2>1. CASE saved[e].aggregateId = o
      <3>1. saved[e].createdAt < saved'[new].createdAt
        BY <1>2, <1>3, <2>1 DEF SP!EventsOf
      <3>2. QED
        BY <1>1, <1>4, <3>1 DEF OlderEvents
    <2>2. CASE saved[e].aggregateId # o
      BY <1>1, <1>3, <2>2 DEF OlderEvents
    <2>3. QED
      BY <2>1, <2>2
  <1>6. QED
    BY <1>1, <1>5 DEF OlderEvents

LEMMA OrderInit == SystemInit => OrderInv
  BY PublisherInitSame DEF SystemInit, PP!Init, OrderInv, PP!KafkaTopic

\* A commit adds no older event; a publisher's own step keeps the order by
\* OvertakingStep, since a batch skips none.
LEMMA OrderStep ==
    ASSUME SP!TypeOK, SP!TypeOK', SP!LockInv, PP!TypeOK, PP!DeliveryInv, OneTable, TopicInv,
           OrderInv, [SystemNext]_systemVars
    PROVE  OrderInv'
  <1>1. ASSUME NEW h \in Handler, NEW new, CommitBoth(h, new)
        PROVE  OrderInv'
    <2> SUFFICES ASSUME resets' = 0, NEW r \in Run, NEW e \in Event,
                        task'[r][e] \in PP!KafkaTopic, NEW f \in OlderEvents(e)'
                 PROVE  PP!Over(f)' \/ task'[r][f] # "none"
      BY DEF OrderInv
    <2>1. /\ UNCHANGED <<kafka, task, resets>>
          /\ DOMAIN outbox \subseteq DOMAIN outbox'
          /\ \A x \in DOMAIN outbox : outbox'[x] = outbox[x]
      BY <1>1, CommitRow
    <2>2. e \in DOMAIN saved
      BY <2>1 DEF TopicInv, InTopic
    <2>3. f \in OlderEvents(e)
      BY <1>1, <2>2, CommitIsNewest
    <2>4. PP!Over(f) \/ task[r][f] # "none"
      BY <2>1, <2>3 DEF OrderInv
    <2>5. QED
      BY <2>1, <2>4 DEF PP!Over, PP!Delivered
  <1>2. CASE PublisherAlone
    <2>1. UNCHANGED saved
      BY <1>2 DEF PublisherAlone
    <2>2. ASSUME PP!OwnStep, resets' = 0, NEW r \in Run, NEW e \in Event,
                 task'[r][e] \in PP!KafkaTopic, NEW f \in OlderEvents(e)
          PROVE  PP!Over(f)' \/ task'[r][f] # "none"
      <3>1. resets = 0
        BY <2>2, PP!OwnStepRows, PublisherConstants
      <3>2. f \in DOMAIN outbox \cup deleted
        BY DEF OlderEvents, OneTable
      <3>3. e \in DOMAIN outbox /\ f \in DOMAIN outbox =>
              outbox[f].createdAt < outbox[e].createdAt
        BY DEF OlderEvents, OneTable
      <3>4. task[r][e] \in PP!KafkaTopic => PP!Over(f) \/ task[r][f] # "none"
        BY <3>1 DEF OrderInv
      <3>5. QED
        BY <2>2, <3>2, <3>3, <3>4, PP!OvertakingStep, PublisherConstants
    <2>3. CASE UNCHANGED publisherVars
      BY <2>1, <2>3 DEF publisherVars, OrderInv, OlderEvents, PP!Over, PP!Delivered
    <2>4. CASE PP!OwnStep
      BY <2>1, <2>2, <2>4 DEF OrderInv, OlderEvents
    <2>5. QED
      BY <1>2, <2>3, <2>4 DEF PublisherAlone
  <1>3. QED
    BY <1>1, <1>2, SystemSplit

\* For any number of processes and any batch size: the row lock and the order of
\* the query keep the events of a payment in order up to their batch.
THEOREM NobodyOvertakes == SystemSpec => []NoOvertaking
  <1>1. SP!TypeOK /\ SP!TypeOK' /\ SP!LockInv /\ PP!TypeOK /\ PP!DeliveryInv /\ OneTable
          /\ TopicInv /\ OrderInv /\ [SystemNext]_systemVars => OrderInv'
    BY OrderStep
  <1>2. OrderInv => NoOvertaking
    BY OverSame DEF OrderInv, NoOvertaking, PP!KafkaTopic, Publisher!KafkaTopic
  <1>3. QED
    BY <1>1, <1>2, OrderInit, HalvesAgree, TopicInvariant, ServiceInvariants,
       PublisherInvariants, PTL DEF SystemSpec

-----------------------------------------------------------------------------
(* No settlement is lost                                                   *)

\* A saved event was delivered, was given up on, or is in the queue.
LEMMA SavedEventPlace ==
    ASSUME PP!TypeOK, PP!DeliveryInv, OneTable, NEW e \in DOMAIN saved
    PROVE  \/ Publisher!Delivered(e) \/ GivenUp(e)
           \/ e \in PendingEvents(outbox, MaxRetries)
  <1>1. CASE e \in deleted
    <2>1. PP!Delivered(e)
      BY <1>1 DEF PP!DeliveryInv, PP!PublishedWasSent
    <2>2. QED
      BY <2>1, OverSame DEF PP!Over
  <1>2. CASE e \in DOMAIN outbox /\ outbox[e].published
    <2>1. /\ kafka[PP!GetTopicForEventType(outbox[e].eventType)][e] > 0
          /\ PP!GetTopicForEventType(outbox[e].eventType) # "null"
      BY <1>2 DEF PP!DeliveryInv, PP!PublishedWasSent, PP!Routable
    <2>2. \A type : PP!GetTopicForEventType(type) \in PP!KafkaTopic \cup {"null"}
      BY DEF PP!GetTopicForEventType, PP!KafkaTopic
    <2>3. PP!Delivered(e)
      BY <2>1, <2>2 DEF PP!Delivered
    <2>4. QED
      BY <2>3, OverSame DEF PP!Over
  <1>3. CASE e \in DOMAIN outbox /\ ~outbox[e].published
    <2>1. outbox[e].retryCount \in Nat
      BY <1>3 DEF PP!TypeOK, PP!IsTable, PP!Row
    <2>2. QED
      BY <1>3, <2>1, PublisherConstants DEF PendingEvents, GivenUp
  <1>4. QED
    BY <1>1, <1>2, <1>3 DEF OneTable

\* The newest event of a settled payment is on its way to Kafka, whatever
\* crashed since the payer paid.
THEOREM SettlementsOnTheirWay == SystemSpec => []SettlementOnItsWay
  <1>1. SP!SettledAnnounced /\ PP!TypeOK /\ PP!DeliveryInv /\ OneTable => SettlementOnItsWay
    <2> SUFFICES ASSUME SP!SettledAnnounced, PP!TypeOK, PP!DeliveryInv, OneTable,
                        NEW o \in DOMAIN payment, payment[o].status # "PENDING"
                 PROVE  \E e \in Service!EventsOf(o) :
                          /\ Service!AnnouncedStatus(saved[e].eventType) = payment[o].status
                          /\ \A f \in Service!EventsOf(o) :
                               saved[f].createdAt <= saved[e].createdAt
                          /\ \/ Publisher!Delivered(e)
                             \/ GivenUp(e)
                             \/ e \in PendingEvents(outbox, MaxRetries)
      BY DEF SettlementOnItsWay
    <2>1. PICK e \in SP!EventsOf(o) :
            /\ SP!AnnouncedStatus(saved[e].eventType) = payment[o].status
            /\ \A f \in SP!EventsOf(o) : saved[f].createdAt <= saved[e].createdAt
      BY DEF SP!SettledAnnounced
    <2>2. SP!AnnouncedStatus(saved[e].eventType) = Service!AnnouncedStatus(saved[e].eventType)
      BY DEF SP!AnnouncedStatus, Service!AnnouncedStatus
    <2>3. e \in DOMAIN saved
      BY DEF SP!EventsOf
    <2>4. QED
      BY <2>1, <2>2, <2>3, SavedEventPlace, EventsOfSame
  <1>2. QED
    BY <1>1, HalvesAgree, ServiceInvariants, PublisherInvariants, PTL

-----------------------------------------------------------------------------
(* The halves in the composition                                           *)

LEMMA PublisherStepWhole ==
    SP!TypeOK /\ SP!TypeOK' /\ [SystemNext]_systemVars => [Publisher!Next]_(Publisher!vars)
  <1> SUFFICES ASSUME SP!TypeOK, SP!TypeOK', [SystemNext]_systemVars
               PROVE  [Publisher!Next]_(Publisher!vars)
    OBVIOUS
  <1>1. CASE UNCHANGED publisherVars
    BY <1>1 DEF publisherVars, Publisher!vars
  <1>2. ASSUME NEW h \in Handler, CommitSettlement(h)
        PROVE  Publisher!Next
    <2>1. PICK e \in DOMAIN saved' \ DOMAIN saved :
            Publisher!SavePaymentEvent(e, saved'[e].aggregateId, saved'[e].eventType,
                                       saved'[e].createdAt)
      BY <1>2 DEF CommitSettlement
    <2>2. CommitBoth(h, e)
      BY <1>2, <2>1, CommitSame, SaveSame DEF CommitSettlement, CommitBoth
    <2>3. /\ e \in Event
          /\ saved'[e].aggregateId \in Aggregate
          /\ saved'[e].eventType \in Publisher!EventType
          /\ saved'[e].createdAt \in Timestamp
      BY <2>2, CommitRow DEF EventType, Publisher!EventType
    <2>4. QED
      BY <2>1, <2>3 DEF Publisher!Next, Publisher!EventStep
  <1>3. CASE \/ \E h \in Handler : HandlerRejects(h)
             \/ ServerDies
    BY <1>1, <1>3, ServerAssumption
       DEF HandlerRejects, ServerDies, Publisher!Next, Publisher!InstanceStep
  <1>4. CASE \/ \E r \in Run : PublisherRun(r)
             \/ \E r \in Run, e \in Event : PublisherTask(r, e)
             \/ \E i \in Instance : ProcessStep(i)
             \/ \E e \in Event : RowStep(e)
    BY <1>4 DEF PublisherRun, PublisherTask, ProcessStep, RowStep, Publisher!Next,
             Publisher!InstanceStep, Publisher!EventStep
  <1>5. CASE \/ ServeCall \/ Elsewhere \/ UNCHANGED systemVars
             \/ \E h \in Handler : AcceptSettlement(h) \/ HandlerQuery(h)
    BY <1>1, <1>5 DEF ServeCall, Elsewhere, AcceptSettlement, HandlerQuery, systemVars
  <1>6. QED
    BY <1>2, <1>3, <1>4, <1>5 DEF SystemNext, HandlerMoves

\* Sharing a table and a process costs neither half anything: each behaves in the
\* deployed service as its module says it does alone, so what the runs and the
\* theorems say of the halves, they say of the service.
THEOREM HalvesBehave == SystemSpec => Service!Spec /\ Publisher!Spec
  <1>1. SystemInit => Service!Init /\ Publisher!Init
    BY DEF SystemInit
  <1>2. [SystemNext]_systemVars => [Service!Next]_(Service!vars)
    BY ServiceStep DEF serviceVars, Service!vars
  <1>3. QED
    BY <1>1, <1>2, PublisherStepWhole, ServiceInvariants, PTL
       DEF SystemSpec, Service!Spec, Publisher!Spec

\* What the halves promise of links, of batches and of retries holds in the
\* composition, where a rejected promise of one half kills the other.
THEOREM PromisesKept ==
    SystemSpec => [](/\ Service!KnownLinksHaveRows /\ Service!OneLinkPerOrder
                     /\ Publisher!OneBatchPerInstance /\ Publisher!RetryBudget
                     /\ Publisher!PublishedWasSent)
  <1>1. SP!Spec => [](SP!KnownLinksHaveRows /\ SP!OneLinkPerOrder)
    <2>1. SP!Spec => []SP!KnownLinksHaveRows
      BY SP!LinksAreBacked, ServiceConstants
    <2>2. SP!Spec => []SP!OneLinkPerOrder
      BY SP!LinksAreUnique, ServiceConstants
    <2>3. QED
      BY <2>1, <2>2, PTL
  <1>2. PP!Spec => [](PP!FlagInv /\ PP!RetryBudget)
    <2>1. PP!Spec => []PP!FlagInv
      BY PP!FlagInvariant, PublisherConstants
    <2>2. PP!Spec => []PP!RetryBudget
      BY PP!RetriesBounded, PublisherConstants
    <2>3. QED
      BY <2>1, <2>2, PTL
  <1>3. SP!KnownLinksHaveRows /\ SP!OneLinkPerOrder =>
          Service!KnownLinksHaveRows /\ Service!OneLinkPerOrder
    BY DEF SP!KnownLinksHaveRows, Service!KnownLinksHaveRows, SP!KnownLinks,
           Service!KnownLinks, SP!OneLinkPerOrder, Service!OneLinkPerOrder
  <1>4. PP!FlagInv /\ PP!RetryBudget /\ PP!DeliveryInv =>
          /\ Publisher!OneBatchPerInstance /\ Publisher!RetryBudget
          /\ Publisher!PublishedWasSent
    BY DEF PP!FlagInv, PP!OneBatchPerInstance, Publisher!OneBatchPerInstance, PP!RetryBudget,
           Publisher!RetryBudget, PP!RetriesPerBatch, Publisher!RetriesPerBatch, PP!Cardinality,
           Publisher!Cardinality, PP!DeliveryInv, PP!PublishedWasSent,
           Publisher!PublishedWasSent, PP!Delivered, Publisher!Delivered, PP!Routable,
           Publisher!Routable, PP!GetTopicForEventType, Publisher!GetTopicForEventType,
           PP!KafkaTopic, Publisher!KafkaTopic
  <1>5. QED
    BY <1>1, <1>2, <1>3, <1>4, ServiceRuns, PublisherRuns, PublisherInvariants, PTL

\* The abstract specifications of the halves hold in the composition: the service
\* keeps its ledger and the publisher relays each of its events.
THEOREM AbstractionsHold == SystemSpec => Service!ImplementsLedger /\ Publisher!ImplementsRelay
  <1>1. SP!Spec => SP!ImplementsLedger
    BY SP!LedgerRefinement, ServiceConstants
  <1>2. PP!Spec => PP!ImplementsRelay
    BY PP!RelayRefinement, PublisherConstants
  <1>3. /\ SP!Ledger!LedgerInit => Service!Ledger!LedgerInit
        /\ [SP!Ledger!LedgerNext]_(SP!Ledger!ledgerVars)
             => [Service!Ledger!LedgerNext]_(Service!Ledger!ledgerVars)
    BY DEF SP!Ledger!LedgerInit, Service!Ledger!LedgerInit, SP!Ledger!LedgerNext,
           Service!Ledger!LedgerNext, SP!Ledger!ledgerVars, Service!Ledger!ledgerVars,
           SP!Ledger!Open, Service!Ledger!Open, SP!Ledger!Settle, Service!Ledger!Settle,
           SP!Ledger!FinalStatus, Service!Ledger!FinalStatus, SP!EventsOf, Service!EventsOf,
           SP!AnnouncedStatus, Service!AnnouncedStatus, SP!OrderCode, Service!OrderCode
  <1>4. \A e : /\ PP!Delivered(e) = Publisher!Delivered(e)
               /\ PP!Delivered(e)' = Publisher!Delivered(e)'
    BY DEF PP!Delivered, Publisher!Delivered, PP!KafkaTopic, Publisher!KafkaTopic
  <1>5. /\ PP!Relay!RelayInit => Publisher!Relay!RelayInit
        /\ [PP!Relay!RelayNext]_(PP!Relay!relayVars)
             => [Publisher!Relay!RelayNext]_(Publisher!Relay!relayVars)
    BY <1>4 DEF PP!Relay!RelayInit, Publisher!Relay!RelayInit, PP!Relay!RelayNext,
           Publisher!Relay!RelayNext, PP!Relay!relayVars, Publisher!Relay!relayVars,
           PP!Relay!Accept, Publisher!Relay!Accept, PP!Relay!Deliver, Publisher!Relay!Deliver,
           PP!Relay!Confirm, Publisher!Relay!Confirm, PP!Relay!Forget, Publisher!Relay!Forget
  <1>6. QED
    BY <1>1, <1>2, <1>3, <1>5, ServiceRuns, PublisherRuns, PTL
       DEF SP!ImplementsLedger, Service!ImplementsLedger, SP!Ledger!LedgerSpec,
           Service!Ledger!LedgerSpec, PP!ImplementsRelay, Publisher!ImplementsRelay,
           PP!Relay!RelaySpec, Publisher!Relay!RelaySpec

-----------------------------------------------------------------------------
(* From the payer to the reader of a topic                                 *)

\* More of what the service keeps.
LEMMA LinkInvariants == SystemSpec => [](SP!LinkInv /\ SP!TxnInv)
  <1>1. SP!Spec => []SP!LinkInv
    BY SP!LinkInvariant, ServiceConstants
  <1>2. SP!Spec => []SP!TxnInv
    BY SP!TxnInvariant, ServiceConstants
  <1>3. QED
    BY <1>1, <1>2, ServiceRuns, PTL

\* Kafka holds a message of event e: what EventRelay calls delivered.
DeliveredEvents == {e \in Event : PP!Delivered(e)}

\* What readers find is what the ledger announced of the events delivered.
ToldInv ==
    \A o \in OrderCode :
        {Heard(m[1], m[2]) : m \in MessagesOf(o)} =
            {Announcement(e) : e \in Service!EventsOf(o) \cap DeliveredEvents}

\* By the topic an event is in a reader sees its status.
LEMMA HeardIsAnnounced ==
    ASSUME SP!TypeOK, TopicInv, NEW topic \in PP!KafkaTopic, NEW e \in Event, kafka[topic][e] > 0
    PROVE  e \in DOMAIN saved /\ Heard(topic, e) = Announcement(e)
  <1>1. e \in DOMAIN saved /\ topic = PP!GetTopicForEventType(saved[e].eventType)
    BY DEF TopicInv, InTopic
  <1>2. CASE topic = "payment.completed"
    <2>1. saved[e].eventType = "PAYMENT_COMPLETED"
      BY <1>1, <1>2 DEF PP!GetTopicForEventType
    <2>2. QED
      BY <1>1, <1>2, <2>1 DEF Heard, Announcement, Service!AnnouncedStatus
  <1>3. CASE topic = "payment.failed"
    <2>1. saved[e].eventType = "PAYMENT_FAILED"
      BY <1>1, <1>3 DEF PP!GetTopicForEventType
    <2>2. QED
      BY <1>1, <1>3, <2>1 DEF Heard, Announcement, Service!AnnouncedStatus
  <1>4. topic # "payment.cancelled"
    BY <1>1 DEF PP!GetTopicForEventType
  <1>5. QED
    BY <1>2, <1>3, <1>4 DEF PP!KafkaTopic

LEMMA ToldInvariant == SystemSpec => []ToldInv
  <1>1. SP!TypeOK /\ TopicInv => ToldInv
    <2> SUFFICES ASSUME SP!TypeOK, TopicInv, NEW o \in OrderCode
                 PROVE  {Heard(m[1], m[2]) : m \in MessagesOf(o)} =
                          {Announcement(e) : e \in Service!EventsOf(o) \cap DeliveredEvents}
      BY DEF ToldInv
    <2>1. Service!EventsOf(o) \subseteq Event
      BY DEF Service!EventsOf, SP!TypeOK, SP!IsTable
    <2>2. ASSUME NEW m \in MessagesOf(o)
          PROVE  \E e \in Service!EventsOf(o) \cap DeliveredEvents :
                   Heard(m[1], m[2]) = Announcement(e)
      BY <2>1, <2>2, HeardIsAnnounced
         DEF MessagesOf, DeliveredEvents, PP!Delivered, PP!KafkaTopic, Publisher!KafkaTopic
    <2>3. ASSUME NEW e \in Service!EventsOf(o) \cap DeliveredEvents
          PROVE  \E m \in MessagesOf(o) : Heard(m[1], m[2]) = Announcement(e)
      <3>1. PICK topic \in PP!KafkaTopic : kafka[topic][e] > 0
        BY DEF DeliveredEvents, PP!Delivered
      <3>2. <<topic, e>> \in MessagesOf(o)
        BY <3>1 DEF MessagesOf, PP!KafkaTopic, Publisher!KafkaTopic
      <3>3. Heard(topic, e) = Announcement(e)
        BY <2>1, <3>1, HeardIsAnnounced
      <3>4. QED
        BY <3>2, <3>3
    <2>4. QED
      BY <2>2, <2>3
  <1>2. QED
    BY <1>1, ServiceInvariants, TopicInvariant, PTL

LEMMA AnnouncerInitially == SystemInit => Announcer!AnnouncerInit
  BY DEF SystemInit, Service!Init, Publisher!Init, Announcer!AnnouncerInit,
         Announcer!LedgerInit, Service!EventsOf, MessagesOf, Publisher!KafkaTopic

\* What the announcer is told of what readers find and of what is gone stays when
\* no event is delivered or deleted.
LEMMA ToldKept ==
    ASSUME SP!TypeOK, ToldInv, ToldInv', UNCHANGED <<kafka, deleted>>,
           \A x \in DOMAIN saved : x \in DOMAIN saved' /\ saved'[x] = saved[x],
           \A x \in DOMAIN saved' \ DOMAIN saved : x \notin DeliveredEvents \cup deleted
    PROVE  \A o \in OrderCode :
             /\ {Heard(m[1], m[2]) : m \in MessagesOf(o)}' =
                  {Heard(m[1], m[2]) : m \in MessagesOf(o)}
             /\ {Announcement(e) : e \in Service!EventsOf(o) \cap deleted}' =
                  {Announcement(e) : e \in Service!EventsOf(o) \cap deleted}
  <1>1. DeliveredEvents' = DeliveredEvents
    BY DEF DeliveredEvents, PP!Delivered
  <1>2. \A x \in DOMAIN saved : Announcement(x)' = Announcement(x)
    BY DEF Announcement
  <1>3. \A o \in OrderCode :
          /\ (Service!EventsOf(o) \cap DeliveredEvents)' = Service!EventsOf(o) \cap DeliveredEvents
          /\ (Service!EventsOf(o) \cap deleted)' = Service!EventsOf(o) \cap deleted
          /\ Service!EventsOf(o) \subseteq DOMAIN saved
    BY <1>1 DEF Service!EventsOf
  <1>4. QED
    BY <1>2, <1>3 DEF ToldInv

\* A commit settles in the ledger's terms, as paid, and nobody is told yet.
LEMMA CommitAnnounces ==
    ASSUME SP!TypeOK, SP!TypeOK', SP!LockInv, SP!NoFalseCompletion', PP!TypeOK, PP!DeliveryInv,
           OneTable, TopicInv, ToldInv, ToldInv', NEW h \in Handler, NEW e, CommitBoth(h, e)
    PROVE  Announcer!AnnouncerNext
  <1>1. SP!Commit(h)
    BY DEF CommitBoth
  <1>2. /\ DOMAIN payment' = DOMAIN payment /\ paid' = paid
        /\ \A p \in DOMAIN payment :
             payment'[p].providerTransactionId = payment[p].providerTransactionId
    BY <1>1, SP!HandlerStepRows, ServiceConstants DEF SP!HandlerStep, SP!HandlerProgress
  <1>3. PICK o \in SP!OrderCode :
          \/ SP!Ledger!Open(o)
          \/ \E newStatus \in SP!Ledger!FinalStatus, time \in Timestamp :
               SP!Ledger!Settle(o, newStatus, time)
    BY <1>1, SP!CommitSettles, ServiceConstants DEF SP!Ledger!LedgerNext
  <1>4. ~SP!Ledger!Open(o)
    <2>1. o \in DOMAIN payment => payment[o].status # "NONE"
      BY DEF SP!TypeOK, SP!PaymentRow, SP!PaymentStatus
    <2>2. QED
      BY <1>2, <2>1 DEF SP!Ledger!Open
  <1>5. PICK newStatus \in SP!Ledger!FinalStatus, time \in Timestamp :
          SP!Ledger!Settle(o, newStatus, time)
    BY <1>3, <1>4
  <1>6. Announcer!Settle(o, newStatus, time)
    BY <1>5 DEF SP!Ledger!Settle, Announcer!Settle, SP!EventsOf, Service!EventsOf, Announcement,
           SP!AnnouncedStatus, Service!AnnouncedStatus, OrderCode, SP!OrderCode
  <1>7. newStatus = "COMPLETED" =>
          o \in {p \in DOMAIN payment : payment[p].providerTransactionId \in paid}
    <2>1. newStatus = "COMPLETED" => o \in DOMAIN payment' /\ payment'[o].status = "COMPLETED"
      BY <1>5 DEF SP!Ledger!Settle
    <2>2. QED
      BY <1>2, <2>1 DEF SP!NoFalseCompletion
  <1>8. /\ UNCHANGED <<kafka, deleted>>
        /\ \A x \in DOMAIN saved : x \in DOMAIN saved' /\ saved'[x] = saved[x]
        /\ \A x \in DOMAIN saved' \ DOMAIN saved : x = e
        /\ e \in Event \ DOMAIN saved /\ e \notin deleted
    <2>1. /\ e \in Event /\ e \notin DOMAIN saved /\ e \notin DOMAIN outbox \cup deleted
          /\ DOMAIN saved' = DOMAIN saved \cup {e}
          /\ \A x \in DOMAIN saved : saved'[x] = saved[x]
      BY CommitRow
    <2>2. UNCHANGED <<kafka, deleted>>
      BY CommitRow
    <2>3. QED
      BY <2>1, <2>2
  <1>9. e \notin DeliveredEvents
    BY <1>8 DEF DeliveredEvents, PP!Delivered, TopicInv, InTopic
  <1>10. Announcer!SettleAsPaid(o, newStatus, time)
    BY <1>2, <1>6, <1>7, <1>8, <1>9, ToldKept DEF Announcer!SettleAsPaid
  <1>11. QED
    BY <1>3, <1>10 DEF Announcer!AnnouncerNext, Announcer!FinalStatus, SP!Ledger!FinalStatus,
           OrderCode, SP!OrderCode

\* Where the publisher stands still, a step of the service is one of the
\* announcer: a payment or a new row, or one nobody sees.
LEMMA ServiceAnnounces ==
    ASSUME SP!TypeOK, SP!TypeOK', SP!LockInv, SP!LinkInv, SP!TxnInv, ToldInv, ToldInv',
           [SP!Next]_(SP!vars), UNCHANGED saved, UNCHANGED publisherVars
    PROVE  [Announcer!AnnouncerNext]_(Announcer!announcerVars)
  <1> DEFINE paidOrders == {o \in DOMAIN payment : payment[o].providerTransactionId \in paid}
  <1>1. \A o \in OrderCode :
          /\ {Heard(m[1], m[2]) : m \in MessagesOf(o)}' =
               {Heard(m[1], m[2]) : m \in MessagesOf(o)}
          /\ {Announcement(e) : e \in Service!EventsOf(o) \cap deleted}' =
               {Announcement(e) : e \in Service!EventsOf(o) \cap deleted}
          /\ {Announcement(e) : e \in Service!EventsOf(o)}' =
               {Announcement(e) : e \in Service!EventsOf(o)}
    BY DEF publisherVars, Heard, Announcement, MessagesOf, Service!EventsOf
  <1>2. CASE UNCHANGED payment
    <2>1. \/ paidOrders' = paidOrders
          \/ \E o \in DOMAIN payment : paidOrders' = paidOrders \cup {o}
      BY SP!PaidOrderStep, ServiceConstants
    <2>2. CASE paidOrders' = paidOrders
      BY <1>1, <1>2, <2>2 DEF Announcer!announcerVars, Announcer!ledgerVars
    <2>3. ASSUME NEW o \in DOMAIN payment, paidOrders' = paidOrders \cup {o}
          PROVE  Announcer!AnnouncerNext
      <3>1. o \in OrderCode /\ payment[o].status # "NONE"
        BY DEF SP!TypeOK, SP!PaymentRow, SP!PaymentStatus, OrderCode, SP!OrderCode
      <3>2. Announcer!Pay(o)
        BY <1>1, <1>2, <2>3, <3>1 DEF Announcer!Pay, Announcer!ledgerVars
      <3>3. QED
        BY <3>1, <3>2 DEF Announcer!AnnouncerNext
    <2>4. QED
      BY <2>1, <2>2, <2>3
  <1>3. CASE ~UNCHANGED payment
    <2>1. PICK o \in SP!OrderCode \ DOMAIN payment :
            /\ DOMAIN payment' = DOMAIN payment \cup {o}
            /\ payment'[o].status = "PENDING"
            /\ \A p \in DOMAIN payment : payment'[p] = payment[p]
      BY <1>3, SP!StepOpens, ServiceConstants
    <2>2. paidOrders' = paidOrders /\ o \notin paidOrders
      BY <1>3, <2>1, SP!PaidOrderStep, ServiceConstants
    <2>3. Announcer!Open(o)
      BY <1>1, <2>1 DEF Announcer!Open, OrderCode, SP!OrderCode
    <2>4. Announcer!OpenUnpaid(o)
      BY <1>1, <2>2, <2>3 DEF Announcer!OpenUnpaid
    <2>5. QED
      BY <2>1, <2>4 DEF Announcer!AnnouncerNext, OrderCode, SP!OrderCode
  <1>4. QED
    BY <1>2, <1>3

\* What a step of the publisher's own does to what is delivered and deleted: it
\* delivers one event, or deletes events that were delivered, or neither.
LEMMA OwnStepRelays ==
    ASSUME PP!TypeOK, PP!DeliveryInv, PP!OwnStep
    PROVE  \/ UNCHANGED <<DeliveredEvents, deleted>>
           \/ \E e \in Event : /\ DeliveredEvents' = DeliveredEvents \cup {e}
                               /\ UNCHANGED deleted
           \/ \E E \in SUBSET DeliveredEvents : /\ deleted' = deleted \cup E
                                                /\ UNCHANGED DeliveredEvents
  <1>1. [PP!Next]_(PP!vars)
    BY DEF PP!OwnStep, PP!Next, PP!EventStep
  <1>2. [PP!Relay!RelayNext]_(PP!Relay!relayVars)
    BY <1>1, PP!RelayStep, PublisherConstants
  <1>3. DOMAIN outbox' \cup deleted' = DOMAIN outbox \cup deleted
    BY PP!OwnStepRows, PublisherConstants
  <1>4. {e \in DOMAIN outbox : outbox[e].published} \cup deleted \subseteq DeliveredEvents
    <2>1. deleted \subseteq DeliveredEvents
      BY DEF PP!DeliveryInv, PP!PublishedWasSent, PP!TypeOK, DeliveredEvents
    <2>2. ASSUME NEW e \in DOMAIN outbox, outbox[e].published
          PROVE  e \in Event /\ PP!Delivered(e)
      <3>1. e \in Event /\ outbox[e].eventType \in PP!EventType
        BY DEF PP!TypeOK, PP!IsTable, PP!Row
      <3>2. /\ PP!GetTopicForEventType(outbox[e].eventType) # "null"
            /\ kafka[PP!GetTopicForEventType(outbox[e].eventType)][e] > 0
        BY <2>2 DEF PP!DeliveryInv, PP!PublishedWasSent, PP!Routable
      <3>3. \A type : PP!GetTopicForEventType(type) \in PP!KafkaTopic \cup {"null"}
        BY DEF PP!GetTopicForEventType, PP!KafkaTopic
      <3>4. QED
        BY <3>1, <3>2, <3>3 DEF PP!Delivered
    <2>3. QED
      BY <2>1, <2>2 DEF DeliveredEvents
  <1>5. CASE UNCHANGED PP!Relay!relayVars
    BY <1>5 DEF PP!Relay!relayVars, DeliveredEvents
  <1>6. ASSUME NEW e \in Event, PP!Relay!Accept(e) \/ PP!Relay!Confirm(e)
        PROVE  UNCHANGED <<DeliveredEvents, deleted>>
    BY <1>6 DEF PP!Relay!Accept, PP!Relay!Confirm, DeliveredEvents
  <1>7. ASSUME NEW e \in Event, PP!Relay!Deliver(e)
        PROVE  DeliveredEvents' = DeliveredEvents \cup {e} /\ UNCHANGED deleted
    BY <1>7 DEF PP!Relay!Deliver, DeliveredEvents
  <1>8. ASSUME NEW E \in SUBSET Event, PP!Relay!Forget(E)
        PROVE  /\ E \in SUBSET DeliveredEvents
               /\ deleted' = deleted \cup E
               /\ UNCHANGED DeliveredEvents
    BY <1>4, <1>8 DEF PP!Relay!Forget, DeliveredEvents
  <1>9. QED
    BY <1>2, <1>5, <1>6, <1>7, <1>8 DEF PP!Relay!RelayNext

\* A step of the publisher's own tells readers of one event, or forgets events
\* they were told of.
LEMMA PublisherAnnounces ==
    ASSUME SP!TypeOK, PP!TypeOK, PP!DeliveryInv, TopicInv, TopicInv', ToldInv, ToldInv',
           PP!OwnStep, UNCHANGED <<saved, payment, paid>>
    PROVE  [Announcer!AnnouncerNext]_(Announcer!announcerVars)
  <1> DEFINE Told(o) == {Heard(m[1], m[2]) : m \in MessagesOf(o)}
             Of(o, E) == {Announcement(e) : e \in Service!EventsOf(o) \cap E}
             told == [o \in OrderCode |-> Told(o)]
             announced == [o \in OrderCode |-> {Announcement(e) : e \in Service!EventsOf(o)}]
  <1>1. /\ \A e : Announcement(e)' = Announcement(e)
        /\ \A o : Service!EventsOf(o)' = Service!EventsOf(o)
    BY DEF Announcement, Service!EventsOf
  <1>2. \A o \in OrderCode :
          Told(o) = Of(o, DeliveredEvents) /\ Told(o)' = Of(o, DeliveredEvents')
    BY <1>1 DEF ToldInv
  <1>3. \A o : Of(o, deleted)' = Of(o, deleted')
    BY <1>1
  <1>4. announced' = announced
    BY <1>1
  <1>5. CASE UNCHANGED <<DeliveredEvents, deleted>>
    BY <1>2, <1>3, <1>4, <1>5 DEF Announcer!announcerVars, Announcer!ledgerVars
  <1>6. ASSUME NEW e \in Event, DeliveredEvents' = DeliveredEvents \cup {e}, UNCHANGED deleted
        PROVE  Announcer!AnnouncerNext
    <2>1. PICK topic \in PP!KafkaTopic : kafka'[topic][e] > 0
      BY <1>6 DEF DeliveredEvents, PP!Delivered
    <2>2. e \in DOMAIN saved /\ topic = PP!GetTopicForEventType(saved[e].eventType)
      BY <2>1 DEF TopicInv, InTopic
    <2>3. PICK o \in OrderCode : o = saved[e].aggregateId
      BY <2>2 DEF SP!TypeOK, SP!IsTable, SP!Row, OrderCode
    <2>4. e \in Service!EventsOf(o) /\ \A p \in OrderCode \ {o} : e \notin Service!EventsOf(p)
      BY <2>2, <2>3 DEF Service!EventsOf
    <2>5. Announcement(e) \in announced[o]
      BY <2>4
    <2>6. Announcement(e).status # "CANCELLED"
      <3>1. saved[e].eventType \in {"PAYMENT_COMPLETED", "PAYMENT_FAILED"}
        BY <2>2 DEF PP!GetTopicForEventType, PP!KafkaTopic
      <3>2. QED
        BY <3>1 DEF Announcement, Service!AnnouncedStatus
    <2>7. /\ Of(o, DeliveredEvents') = Of(o, DeliveredEvents) \cup {Announcement(e)}
          /\ \A p \in OrderCode \ {o} : Of(p, DeliveredEvents') = Of(p, DeliveredEvents)
      BY <1>6, <2>4
    <2>8. told' = [told EXCEPT ![o] = told[o] \cup {Announcement(e)}]
      BY <1>2, <2>7
    <2>9. Announcer!Tell(o, Announcement(e))
      BY <1>3, <1>4, <1>6, <2>5, <2>6, <2>8 DEF Announcer!Tell, Announcer!ledgerVars
    <2>10. QED
      BY <2>5, <2>9 DEF Announcer!AnnouncerNext
  <1>7. ASSUME NEW E \in SUBSET DeliveredEvents, deleted' = deleted \cup E,
               UNCHANGED DeliveredEvents
        PROVE  Announcer!AnnouncerNext
    <2> DEFINE gone == [o \in OrderCode |-> Of(o, E)]
    <2>1. \A o \in OrderCode : gone[o] \subseteq told[o]
      BY <1>2
    <2>2. \A o \in OrderCode : Of(o, deleted') = Of(o, deleted) \cup Of(o, E)
      BY <1>7
    <2>3. told' = told
      BY <1>2, <1>7
    <2>4. Announcer!Forget(gone)
      BY <1>3, <1>4, <2>1, <2>2, <2>3 DEF Announcer!Forget, Announcer!ledgerVars
    <2>5. gone \in [OrderCode -> SUBSET UNION {told[o] : o \in OrderCode}]
      BY <2>1
    <2>6. QED
      BY <2>4, <2>5 DEF Announcer!AnnouncerNext
  <1>8. QED
    BY <1>5, <1>6, <1>7, OwnStepRelays

\* Each step of the service is a step of the announcer.
LEMMA AnnouncerStep ==
    ASSUME SP!TypeOK, SP!TypeOK', SP!LockInv, SP!LinkInv, SP!TxnInv, SP!NoFalseCompletion',
           PP!TypeOK, PP!DeliveryInv, OneTable, TopicInv, TopicInv', ToldInv, ToldInv',
           [SystemNext]_systemVars
    PROVE  [Announcer!AnnouncerNext]_(Announcer!announcerVars)
  <1>1. [SP!Next]_(SP!vars)
    BY ServiceStep, ServiceNextSame DEF serviceVars, SP!vars
  <1>2. QED
    BY <1>1, SystemSplit, CommitAnnounces, ServiceAnnounces, PublisherAnnounces
       DEF PublisherAlone

\* End to end, for any number of payments, events, processes and callbacks: what
\* readers of the topics are told is what the ledger announced of what was paid.
THEOREM AnnouncerRefinement == SystemSpec => ImplementsAnnouncer
  <1>1. SP!TypeOK /\ SP!TypeOK' /\ SP!LockInv /\ SP!LinkInv /\ SP!TxnInv
          /\ SP!NoFalseCompletion' /\ PP!TypeOK /\ PP!DeliveryInv /\ OneTable /\ TopicInv
          /\ TopicInv' /\ ToldInv /\ ToldInv' /\ [SystemNext]_systemVars
          => [Announcer!AnnouncerNext]_(Announcer!announcerVars)
    BY AnnouncerStep
  <1>2. QED
    BY <1>1, AnnouncerInitially, ServiceInvariants, LinkInvariants, PublisherInvariants,
       HalvesAgree, TopicInvariant, ToldInvariant, PTL
       DEF SystemSpec, ImplementsAnnouncer, Announcer!AnnouncerSpec

-----------------------------------------------------------------------------
(* Where duplicates come from                                              *)

\* Any number of processes, whatever Kafka does, while the database answers: each
\* message of an event beyond one per process was made up for by a death, also
\* one a webhook handler caused, or by a retry that was counted.
THEOREM DuplicatesExplained ==
    ASSUME "db" \notin PublisherFaults
    PROVE  SystemSpec => []FewDuplicates
  <1>1. PP!Spec => []PP!FewDuplicates
    BY PP!DuplicatesAccounted, PublisherConstants
  <1>2. PP!FewDuplicates => FewDuplicates
    BY DEF FewDuplicates, PP!FewDuplicates, Publisher!FewDuplicates, PP!Routable,
           Publisher!Routable, PP!GetTopicForEventType, Publisher!GetTopicForEventType,
           PP!KafkaTopic, Publisher!KafkaTopic, PP!Excused, Publisher!Excused, PP!Forgiven,
           Publisher!Forgiven, PP!Cardinality, Publisher!Cardinality
  <1>3. QED
    BY <1>1, <1>2, PublisherRuns, PTL

=============================================================================
