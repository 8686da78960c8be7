---------------------------- MODULE OutboxProofs ----------------------------
(***************************************************************************)
(* What the queries of OutboxService do to a table, and keep of it: the    *)
(* lemmas that the proofs about OutboxPublisher and Payments share.        *)
(***************************************************************************)
EXTENDS Outbox, TLAPS

\* saveEvent adds one row, unpublished and untried, and keeps the others.
LEMMA SaveEventTable ==
    ASSUME NEW table, IsTable(table),
           NEW e \in Event, NEW a \in Aggregate, NEW type \in EventType, NEW t \in Timestamp,
           e \notin DOMAIN table
    PROVE  LET next == SaveEvent(table, e, a, type, t)
           IN  /\ IsTable(next)
               /\ DOMAIN next = DOMAIN table \cup {e}
               /\ next[e].aggregateId = a
               /\ next[e].eventType = type
               /\ next[e].createdAt = t
               /\ ~next[e].published
               /\ next[e].retryCount = 0
               /\ \A x \in DOMAIN table : next[x] = table[x]
  BY DEF IsTable, SaveEvent, Row, EventType, PublishedAt

\* An update of a row changes no event type, no domain, and no flag but its own.
LEMMA MarkAsPublishedTable ==
    ASSUME NEW table, IsTable(table), NEW e \in DOMAIN table
    PROVE  LET next == MarkAsPublished(table, e)
           IN  /\ IsTable(next)
               /\ DOMAIN next = DOMAIN table
               /\ next[e].published
               /\ \A x \in DOMAIN table :
                    /\ next[x].eventType = table[x].eventType
                    /\ next[x].retryCount = table[x].retryCount
                    /\ x # e => next[x].published = table[x].published
  BY DEF IsTable, MarkAsPublished, Row, PublishedAt

LEMMA IncrementRetryCountTable ==
    ASSUME NEW table, IsTable(table), NEW e \in DOMAIN table
    PROVE  LET next == IncrementRetryCount(table, e)
           IN  /\ IsTable(next)
               /\ DOMAIN next = DOMAIN table
               /\ next[e].retryCount = table[e].retryCount + 1
               /\ \A x \in DOMAIN table :
                    /\ next[x].eventType = table[x].eventType
                    /\ next[x].published = table[x].published
                    /\ x # e => next[x].retryCount = table[x].retryCount
  BY DEF IsTable, IncrementRetryCount, Row

LEMMA ResetFailedEventTable ==
    ASSUME NEW table, IsTable(table), NEW e \in DOMAIN table
    PROVE  LET next == ResetFailedEvent(table, e)
           IN  /\ IsTable(next)
               /\ DOMAIN next = DOMAIN table
               /\ next[e].retryCount = 0
               /\ \A x \in DOMAIN table :
                    /\ next[x].eventType = table[x].eventType
                    /\ next[x].published = table[x].published
                    /\ x # e => next[x].retryCount = table[x].retryCount
  BY DEF IsTable, ResetFailedEvent, Row

LEMMA GrowOldTable ==
    ASSUME NEW table, IsTable(table), NEW e \in DOMAIN table
    PROVE  LET next == GrowOld(table, e)
           IN  /\ IsTable(next)
               /\ DOMAIN next = DOMAIN table
               /\ \A x \in DOMAIN table :
                    /\ next[x].eventType = table[x].eventType
                    /\ next[x].published = table[x].published
                    /\ next[x].retryCount = table[x].retryCount
  BY DEF IsTable, GrowOld, Row, PublishedAt

\* The cleanup removes published rows only, and touches no other.
LEMMA DeleteOldPublishedEventsTable ==
    ASSUME NEW table, IsTable(table)
    PROVE  LET next == DeleteOldPublishedEvents(table)
           IN  /\ IsTable(next)
               /\ DOMAIN next = DOMAIN table \ OldPublishedEvents(table)
               /\ OldPublishedEvents(table) \subseteq DOMAIN table
               /\ \A x \in OldPublishedEvents(table) : table[x].published
               /\ \A x \in DOMAIN next : next[x] = table[x]
  BY DEF IsTable, DeleteOldPublishedEvents, OldPublishedEvents, Restrict

\* A batch only has events the publisher may still send.
LEMMA BatchIsPending ==
    ASSUME NEW table, NEW limit, NEW maxRetries,
           NEW batch \in UnpublishedEvents(table, limit, maxRetries)
    PROVE  /\ batch \subseteq DOMAIN table
           /\ \A e \in batch : ~table[e].published /\ table[e].retryCount < maxRetries
  BY DEF UnpublishedEvents, PendingEvents

=============================================================================
