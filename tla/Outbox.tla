------------------------------- MODULE Outbox -------------------------------
(***************************************************************************)
(* The outbox table (prisma/schema.prisma, model Outbox) and the queries   *)
(* OutboxService runs on it (src/modules/outbox/outbox.service.ts).        *)
(*                                                                         *)
(* A table is a function from the ids of its rows to the rows.  Ids are    *)
(* random UUIDs: Event is the pool they are drawn from and an id is never  *)
(* used twice.  The operators below are pure: they take a table and return *)
(* the next one, or the answers a query may give.  The modules that own a  *)
(* table variable apply them in the actions that await the service.        *)
(* Prisma's update throws when the row is missing, so an action that       *)
(* updates row e has the guard e \in DOMAIN table.                         *)
(***************************************************************************)
EXTENDS Naturals, FiniteSets, Functions

CONSTANTS
    Event,       \* ids of outbox rows
    Aggregate,   \* what an event is about: the ids of payments
    Timestamp    \* values of createdAt

ASSUME TimestampAssumption == Timestamp \subseteq Nat

\* The two members of the EventType enum, and the literal that
\* PaymentService.cancelPayment writes instead of one.
EventType == {"PAYMENT_COMPLETED", "PAYMENT_FAILED", "PaymentCancelled"}

\* publishedAt only ever meets one question: is it older than seven days?
PublishedAt == {"none", "recent", "old"}

Row == [ aggregateId : Aggregate,
         eventType   : EventType,
         createdAt   : Timestamp,
         published   : BOOLEAN,
         publishedAt : PublishedAt,
         retryCount  : Nat ]

\* The tables that can exist.
IsTable(table) ==
    /\ table \in [DOMAIN table -> Row]
    /\ DOMAIN table \subseteq Event

-----------------------------------------------------------------------------
(* Updates                                                                 *)

\* saveEvent and its two wrappers: a row that is unpublished and never tried.
SaveEvent(table, e, aggregateId, eventType, createdAt) ==
    [ x \in DOMAIN table \cup {e} |->
        IF x = e
        THEN [ aggregateId |-> aggregateId,
               eventType   |-> eventType,
               createdAt   |-> createdAt,
               published   |-> FALSE,
               publishedAt |-> "none",
               retryCount  |-> 0 ]
        ELSE table[x] ]

MarkAsPublished(table, e) ==
    [table EXCEPT ![e].published = TRUE, ![e].publishedAt = "recent"]

\* Mutant: the update forgets the increment.
IncrementForgotten(table, e) == table

IncrementRetryCount(table, e) ==
    [table EXCEPT ![e].retryCount = @ + 1]

ResetFailedEvent(table, e) ==
    [table EXCEPT ![e].retryCount = 0]

\* Mutant: the cleanup does not ask whether a row was published.
OldEvents(table) == DOMAIN table

\* The rows the cleanup deletes, and the table without them.
OldPublishedEvents(table) ==
    {e \in DOMAIN table : table[e].published /\ table[e].publishedAt = "old"}

\* Mutant: the condition of deleteMany is inverted.
KeepOldPublishedEvents(table) == Restrict(table, OldPublishedEvents(table))

DeleteOldPublishedEvents(table) ==
    Restrict(table, DOMAIN table \ OldPublishedEvents(table))

\* Seven days go by since row e was published.
GrowOld(table, e) ==
    [table EXCEPT ![e].publishedAt = "old"]

-----------------------------------------------------------------------------
(* Queries                                                                 *)

\* Mutant: lte instead of lt.
PendingOncePastLimit(table, maxRetries) ==
    {e \in DOMAIN table : ~table[e].published /\ table[e].retryCount <= maxRetries}

\* Mutant: the query does not filter on published.
PendingOrPublished(table, maxRetries) ==
    {e \in DOMAIN table : table[e].retryCount < maxRetries}

\* Rows the publisher may still pick up.
PendingEvents(table, maxRetries) ==
    {e \in DOMAIN table : ~table[e].published /\ table[e].retryCount < maxRetries}

\* What getUnpublishedEvents may return: the `limit` oldest pending rows.
\* Rows of the same createdAt come in an order the query does not fix.
UnpublishedEvents(table, limit, maxRetries) ==
    LET pending == PendingEvents(table, maxRetries)
    IN  { batch \in SUBSET pending :
            /\ Cardinality(batch) =
                 IF Cardinality(pending) < limit THEN Cardinality(pending) ELSE limit
            /\ \A e \in batch, f \in pending \ batch :
                 table[e].createdAt <= table[f].createdAt }

\* getFailedEvents: rows given up on.
FailedEvents(table, maxRetries) ==
    {e \in DOMAIN table : ~table[e].published /\ table[e].retryCount >= maxRetries}

=============================================================================
