------------------------------ MODULE Payments ------------------------------
(***************************************************************************)
(* PaymentService (src/modules/payment/payment.service.ts) with the        *)
(* repository and the ZaloPay gateway it calls: payment intents, provider  *)
(* callbacks and the transactions that settle a payment and save the event *)
(* which announces it.                                                     *)
(*                                                                         *)
(* A call is a createPaymentIntent in progress, a handler a callback or a  *)
(* cancelPayment in progress; both wait at the awaits of their code while  *)
(* others run.  The payments table is a function from order codes to rows. *)
(* A payment's own id is as unique and as immutable as its order code, and *)
(* the model uses the order code for both.  A link is identified with the  *)
(* provider transaction id it was created under.                           *)
(*                                                                         *)
(* As in OutboxPublisher, a request whose answer is lost also stands for a *)
(* crash between its effect and its answer.                                *)
(***************************************************************************)
EXTENDS Outbox

CONSTANTS
    Key,           \* idempotency keys
    Call,          \* createPaymentIntent invocations that may overlap
    Handler,       \* handleCallback and cancelPayment invocations that may overlap
    Settlements,   \* the ways to settle a payment that have a caller
    Faults,        \* which of "db" (a query fails) and "crash" may happen
    Undefined,     \* JavaScript's undefined
    MaxDay,        \* bound: midnights
    MaxEvents      \* bound: events saved

\* "success" and "failure" are what handleCallback makes of a gateway's
\* verdict, "cancel" is cancelPayment.  At this commit ZaloPay is the only
\* gateway PaymentGatewayFactory knows and it reports success or nothing, and
\* cancelPayment has no caller: the deployed service has {"success"}.
ASSUME SettlementsAssumption == Settlements \subseteq {"success", "failure", "cancel"}
ASSUME FaultsAssumption == Faults \subseteq {"db", "crash"}
ASSUME HandlerAssumption == IsFiniteSet(Handler)
ASSUME PaymentBounds ==
    /\ MaxDay \in Nat
    /\ MaxEvents \in Nat
    /\ Timestamp = 1..MaxEvents

VARIABLES
    payment,   \* the table, by order code
    outbox,    \* the outbox table
    links,     \* history: the links the gateway created
    answers,   \* history: the answers createPaymentIntent gave
    paid,      \* history: the links somebody paid
    day,       \* today
    clock,     \* the last createdAt given to an event
    call,      \* where each createPaymentIntent waits
    handler    \* where each callback or cancellation waits

vars == <<payment, outbox, links, answers, paid, day, clock, call, handler>>

OrderCode == Aggregate

\* A provider transaction id: buildZaloPayAppTransId puts the date before the
\* order code.
Txn == [day : 0..MaxDay, order : OrderCode]

PaymentStatus == {"PENDING", "COMPLETED", "FAILED", "CANCELLED"}

PaymentRow == [idempotencyKey : Key, providerTransactionId : Txn, status : PaymentStatus]

CallState ==
    [at : {"idle"}] \cup
    [at : {"createPaymentLink", "insert"}, key : Key, order : OrderCode, txn : Txn]

HandlerState ==
    [at : {"idle"}] \cup
    [at : {"find"}, kind : Settlements \ {"cancel"}, txn : Txn] \cup
    [at : {"update", "saveEvent"}, kind : Settlements, order : OrderCode] \cup
    [at : {"commit"}, kind : Settlements, order : OrderCode, createdAt : Timestamp]

Idle == [at |-> "idle"]

TypeOK ==
    /\ payment \in [DOMAIN payment -> PaymentRow]
    /\ DOMAIN payment \subseteq OrderCode
    /\ IsTable(outbox)
    /\ links \subseteq Txn
    /\ answers \subseteq [key : Key, order : OrderCode, url : Txn \cup {Undefined}]
    /\ paid \subseteq Txn
    /\ day \in 0..MaxDay
    /\ clock \in 0..MaxEvents
    /\ call \in [Call -> CallState]
    /\ handler \in [Handler -> HandlerState]

Init ==
    /\ payment = [o \in {} |-> o]
    /\ outbox = [e \in {} |-> e]
    /\ links = {}
    /\ answers = {}
    /\ paid = {}
    /\ day = 0
    /\ clock = 0
    /\ call = [c \in Call |-> Idle]
    /\ handler = [h \in Handler |-> Idle]

\* The links clients were given.
KnownLinks == {a.url : a \in answers} \ {Undefined}

-----------------------------------------------------------------------------
(* createPaymentIntent                                                     *)

\* toPaymentEntity copies neither paymentUrl nor redirectUrl.
ToPaymentEntity(row) ==
    [ idempotencyKey        |-> row.idempotencyKey,
      providerTransactionId |-> row.providerTransactionId,
      status                |-> row.status,
      paymentUrl            |-> Undefined ]

\* findByIdempotencyKey: the entities of the rows with this key.
FindByIdempotencyKey(key) ==
    {ToPaymentEntity(payment[o]) : o \in {p \in DOMAIN payment : payment[p].idempotencyKey = key}}

\* The key is known: the answer is the payment found, whatever order the
\* request names.
ReturnCachedPayment(key, order) ==
    /\ \E existing \in FindByIdempotencyKey(key) :
         answers' = answers \cup {[key |-> key, order |-> order, url |-> existing.paymentUrl]}
    /\ UNCHANGED <<payment, outbox, links, paid, day, clock, call, handler>>

BuildZaloPayAppTransId(order) == [day |-> day, order |-> order]

\* The key is new: the request to ZaloPay is built and sent.  For any other
\* provider getGateway throws here, and nothing has changed.
RequestPaymentLink(c, key, order) ==
    /\ call[c] = Idle
    /\ FindByIdempotencyKey(key) = {}
    /\ call' = [call EXCEPT ![c] =
         [ at |-> "createPaymentLink", key |-> key, order |-> order,
           txn |-> BuildZaloPayAppTransId(order) ]]
    /\ UNCHANGED <<payment, outbox, links, answers, paid, day, clock, handler>>

\* ZaloPay answers with a link.
LinkCreated(c) ==
    /\ call[c].at = "createPaymentLink"
    /\ links' = links \cup {call[c].txn}
    /\ call' = [call EXCEPT ![c].at = "insert"]
    /\ UNCHANGED <<payment, outbox, answers, paid, day, clock, handler>>

\* ZaloPay refuses (return_code # 1), or the connection fails, and the link may
\* exist for all that.
LinkRefused(c) ==
    /\ call[c].at = "createPaymentLink"
    /\ links' \in {links, links \cup {call[c].txn}}
    /\ call' = [call EXCEPT ![c] = Idle]
    /\ UNCHANGED <<payment, outbox, answers, paid, day, clock, handler>>

\* Mutant: idempotencyKey is not declared unique.
KeyNotUnique(key, order, txn) ==
    \/ order \in DOMAIN payment
    \/ \E o \in DOMAIN payment : payment[o].providerTransactionId = txn

\* The three unique columns of the table.
UniqueViolation(key, order, txn) ==
    \/ order \in DOMAIN payment
    \/ \E o \in DOMAIN payment :
         payment[o].idempotencyKey = key \/ payment[o].providerTransactionId = txn

InsertRow(key, order, txn) ==
    payment' = [ o \in DOMAIN payment \cup {order} |->
        IF o = order
        THEN [idempotencyKey |-> key, providerTransactionId |-> txn, status |-> "PENDING"]
        ELSE payment[o] ]

\* repo.create succeeds and the client gets the link.
InsertPayment(c) ==
    /\ call[c].at = "insert"
    /\ ~UniqueViolation(call[c].key, call[c].order, call[c].txn)
    /\ InsertRow(call[c].key, call[c].order, call[c].txn)
    /\ answers' = answers \cup
         {[key |-> call[c].key, order |-> call[c].order, url |-> call[c].txn]}
    /\ call' = [call EXCEPT ![c] = Idle]
    /\ UNCHANGED <<outbox, links, paid, day, clock, handler>>

\* Mutant: the link is handed out although repo.create threw.
InsertErrorIgnored(c) ==
    /\ call[c].at = "insert"
    /\ UniqueViolation(call[c].key, call[c].order, call[c].txn) \/ "db" \in Faults
    /\ answers' = answers \cup
         {[key |-> call[c].key, order |-> call[c].order, url |-> call[c].txn]}
    /\ call' = [call EXCEPT ![c] = Idle]
    /\ UNCHANGED <<payment, outbox, links, paid, day, clock, handler>>

\* repo.create throws, because a unique column has the value already, because
\* the amount does not fit into its column, or because the database failed, and
\* then the row may be there for all that.
InsertFails(c) ==
    /\ call[c].at = "insert"
    /\ \/ UNCHANGED payment
       \/ /\ "db" \in Faults
          /\ ~UniqueViolation(call[c].key, call[c].order, call[c].txn)
          /\ InsertRow(call[c].key, call[c].order, call[c].txn)
    /\ call' = [call EXCEPT ![c] = Idle]
    /\ UNCHANGED <<outbox, links, answers, paid, day, clock, handler>>

-----------------------------------------------------------------------------
(* Callbacks and cancellation                                              *)

Busy == {h \in Handler : handler[h] # Idle}

\* Bound: no more invocations than there are timestamps left for their events.
RoomForEvent == clock + Cardinality(Busy) < MaxEvents

\* The process dies: its calls, handlers and open transactions are gone.
ProcessDies ==
    /\ call' = [c \in Call |-> Idle]
    /\ handler' = [h \in Handler |-> Idle]

\* The promise of handler h rejects.  Nobody awaits the promise of a callback:
\* the rejection is unhandled, and Node ends the process (since version 15; the
\* image has 20).  A cancellation would reject to its caller.
Rejects(h) ==
    \/ /\ handler[h].kind = "cancel"
       /\ handler' = [handler EXCEPT ![h] = Idle]
       /\ UNCHANGED call
    \/ /\ handler[h].kind # "cancel"
       /\ ProcessDies

\* Somebody pays through a link.
Pay(t) ==
    /\ t \in KnownLinks \ paid
    /\ paid' = paid \cup {t}
    /\ UNCHANGED <<payment, outbox, links, answers, day, clock, call, handler>>

\* Mutant: a callback counts even when its signature is not ZaloPay's.
CallbackUnverified(h, t, kind) ==
    /\ handler[h] = Idle
    /\ RoomForEvent
    /\ kind \in Settlements \ {"cancel"}
    /\ t \in KnownLinks
    /\ handler' = [handler EXCEPT ![h] = [at |-> "find", kind |-> kind, txn |-> t]]
    /\ UNCHANGED <<payment, outbox, links, answers, paid, day, clock, call>>

\* A callback arrives: a success after the payment, as often as the provider
\* likes; the other verdict for any link the provider knows, given to a client
\* or not.  The controller answers 201 at once
\* and does not wait for the handler.  A callback with a bad signature carries
\* no transaction id and changes nothing.
HandleCallback(h, t, kind) ==
    /\ handler[h] = Idle
    /\ RoomForEvent
    /\ kind \in Settlements \ {"cancel"}
    /\ t \in IF kind = "success" THEN paid ELSE links
    /\ handler' = [handler EXCEPT ![h] = [at |-> "find", kind |-> kind, txn |-> t]]
    /\ UNCHANGED <<payment, outbox, links, answers, paid, day, clock, call>>

\* findByProviderTransactionId; the transaction begins with the row found.
PaymentFound(h) ==
    /\ handler[h].at = "find"
    /\ \E o \in DOMAIN payment :
         /\ payment[o].providerTransactionId = handler[h].txn
         /\ handler' = [handler EXCEPT ![h] =
              [at |-> "update", kind |-> handler[h].kind, order |-> o]]
    /\ UNCHANGED <<payment, outbox, links, answers, paid, day, clock, call>>

\* No row: the handler throws.
PaymentNotFound(h) ==
    /\ handler[h].at = "find"
    /\ \A o \in DOMAIN payment : payment[o].providerTransactionId # handler[h].txn
    /\ Rejects(h)
    /\ UNCHANGED <<payment, outbox, links, answers, paid, day, clock>>

\* cancelPayment goes straight to its transaction.
CancelPayment(h, order) ==
    /\ "cancel" \in Settlements
    /\ handler[h] = Idle
    /\ RoomForEvent
    /\ handler' = [handler EXCEPT ![h] = [at |-> "update", kind |-> "cancel", order |-> order]]
    /\ UNCHANGED <<payment, outbox, links, answers, paid, day, clock, call>>

\* Mutant: the status is written outside the transaction.
NeverLocked(order) == FALSE

\* A transaction that updated the row of an order keeps it locked to its end.
RowLocked(order) ==
    \E h \in Handler :
        handler[h].at \in {"saveEvent", "commit"} /\ handler[h].order = order

\* Mutant: only a pending payment is updated.
UpdatePending(h) ==
    /\ handler[h].at = "update"
    /\ handler[h].order \in DOMAIN payment
    /\ payment[handler[h].order].status = "PENDING"
    /\ ~RowLocked(handler[h].order)
    /\ handler' = [handler EXCEPT ![h].at = "saveEvent"]
    /\ UNCHANGED <<payment, outbox, links, answers, paid, day, clock, call>>

\* tx.payment.update has the row's lock.  What it wrote is seen by others
\* when the transaction commits.
UpdatePayment(h) ==
    /\ handler[h].at = "update"
    /\ handler[h].order \in DOMAIN payment
    /\ ~RowLocked(handler[h].order)
    /\ handler' = [handler EXCEPT ![h].at = "saveEvent"]
    /\ UNCHANGED <<payment, outbox, links, answers, paid, day, clock, call>>

\* tx.payment.update throws: there is no such row.
UpdateFails(h) ==
    /\ handler[h].at = "update"
    /\ handler[h].order \notin DOMAIN payment
    /\ Rejects(h)
    /\ UNCHANGED <<payment, outbox, links, answers, paid, day, clock>>

\* Mutant: the event is dated with the timestamp of the one before.
SaveEventStaleTime(h) ==
    /\ handler[h].at = "saveEvent"
    /\ clock' = clock + 1
    /\ handler' = [handler EXCEPT ![h] =
         [ at |-> "commit", kind |-> handler[h].kind, order |-> handler[h].order,
           createdAt |-> clock ]]
    /\ UNCHANGED <<payment, outbox, links, answers, paid, day, call>>

\* tx.outbox.create gives the event its createdAt.
SaveOutboxEvent(h) ==
    /\ handler[h].at = "saveEvent"
    /\ clock' = clock + 1
    /\ handler' = [handler EXCEPT ![h] =
         [ at |-> "commit", kind |-> handler[h].kind, order |-> handler[h].order,
           createdAt |-> clock + 1 ]]
    /\ UNCHANGED <<payment, outbox, links, answers, paid, day, call>>

StatusAfter(kind) ==
    CASE kind = "success" -> "COMPLETED"
      [] kind = "failure" -> "FAILED"
      [] kind = "cancel"  -> "CANCELLED"

EventTypeOf(kind) ==
    CASE kind = "success" -> "PAYMENT_COMPLETED"
      [] kind = "failure" -> "PAYMENT_FAILED"
      [] kind = "cancel"  -> "PaymentCancelled"

\* Mutant: the event is saved without the transaction and lost.
CommitWithoutEvent(h) ==
    /\ handler[h].at = "commit"
    /\ payment' = [payment EXCEPT ![handler[h].order].status = StatusAfter(handler[h].kind)]
    /\ handler' = [handler EXCEPT ![h] = Idle]
    /\ UNCHANGED <<outbox, links, answers, paid, day, clock, call>>

\* The transaction commits the new status and the event together, whatever
\* the status was before.
Commit(h) ==
    /\ handler[h].at = "commit"
    /\ payment' = [payment EXCEPT ![handler[h].order].status = StatusAfter(handler[h].kind)]
    /\ \E e \in Event \ DOMAIN outbox :
         outbox' = SaveEvent(outbox, e, handler[h].order, EventTypeOf(handler[h].kind),
                             handler[h].createdAt)
    /\ handler' = [handler EXCEPT ![h] = Idle]
    /\ UNCHANGED <<links, answers, paid, day, clock, call>>

\* A query of the handler throws or its transaction times out: what was
\* written is rolled back.
HandlerFails(h) ==
    /\ "db" \in Faults
    /\ handler[h] # Idle
    /\ Rejects(h)
    /\ UNCHANGED <<payment, outbox, links, answers, paid, day, clock>>

-----------------------------------------------------------------------------

\* The process dies for a reason of its own and is started again.
Crash ==
    /\ "crash" \in Faults
    /\ ProcessDies
    /\ UNCHANGED <<payment, outbox, links, answers, paid, day, clock>>

Midnight ==
    /\ day < MaxDay
    /\ day' = day + 1
    /\ UNCHANGED <<payment, outbox, links, answers, paid, clock, call, handler>>

CallStep(c) ==
    \/ \E key \in Key, order \in OrderCode : RequestPaymentLink(c, key, order)
    \/ LinkCreated(c) \/ LinkRefused(c) \/ InsertPayment(c) \/ InsertFails(c)

HandlerProgress(h) ==
    \/ PaymentFound(h) \/ PaymentNotFound(h)
    \/ UpdatePayment(h) \/ UpdateFails(h)
    \/ SaveOutboxEvent(h) \/ Commit(h)

HandlerStep(h) ==
    \/ \E t \in Txn, kind \in Settlements : HandleCallback(h, t, kind)
    \/ \E order \in OrderCode : CancelPayment(h, order)
    \/ HandlerProgress(h)
    \/ HandlerFails(h)

Next ==
    \/ \E key \in Key, order \in OrderCode : ReturnCachedPayment(key, order)
    \/ \E c \in Call : CallStep(c)
    \/ \E t \in Txn : Pay(t)
    \/ \E h \in Handler : HandlerStep(h)
    \/ Crash
    \/ Midnight

Spec == Init /\ [][Next]_vars

-----------------------------------------------------------------------------
(* Properties                                                              *)

\* A link reaches a client only after its payment row was committed, so the
\* callback of whoever pays it finds the row, across crashes, lost answers,
\* midnight, and calls that race for the same key or order.
KnownLinksHaveRows ==
    \A t \in KnownLinks : \E o \in DOMAIN payment : payment[o].providerTransactionId = t

\* Clients of the same order, and clients that use the same idempotency key,
\* never hold two different links: nobody can pay twice.
OneLinkPerOrder ==
    \A a, b \in answers :
        (a.key = b.key \/ a.order = b.order) /\ Undefined \notin {a.url, b.url} => a.url = b.url

\* A payment is COMPLETED, and an event says so, only if its own link was paid.
NoFalseCompletion ==
    /\ \A o \in DOMAIN payment :
         payment[o].status = "COMPLETED" => payment[o].providerTransactionId \in paid
    /\ \A e \in DOMAIN outbox :
         outbox[e].eventType = "PAYMENT_COMPLETED" =>
             payment[outbox[e].aggregateId].providerTransactionId \in paid

\* The inductive invariant behind the links: a link a client holds is the one in
\* the row of its order, under its key, and no key is in two rows.
LinkInv ==
    /\ \A a \in answers : a.url # Undefined =>
         /\ a.order \in DOMAIN payment
         /\ payment[a.order].providerTransactionId = a.url
         /\ payment[a.order].idempotencyKey = a.key
    /\ \A o, p \in DOMAIN payment :
         payment[o].idempotencyKey = payment[p].idempotencyKey => o = p

\* The inductive invariant that ties payers to rows: a link is in one row, and a
\* paid one is in a row.
TxnInv ==
    /\ \A o, p \in DOMAIN payment :
         payment[o].providerTransactionId = payment[p].providerTransactionId => o = p
    /\ \A t \in paid : \E o \in DOMAIN payment : payment[o].providerTransactionId = t

\* handleSuccessPayment never comes to its "not found": it would end the process
\* and with it lose the payment, for the provider has its 201.
CallbackFindsRow ==
    \A h \in Handler : handler[h].at = "find" /\ handler[h].kind = "success" =>
        \E o \in DOMAIN payment : payment[o].providerTransactionId = handler[h].txn

EventsOf(o) == {e \in DOMAIN outbox : outbox[e].aggregateId = o}

AnnouncedStatus(eventType) ==
    CASE eventType = "PAYMENT_COMPLETED" -> "COMPLETED"
      [] eventType = "PAYMENT_FAILED"    -> "FAILED"
      [] eventType = "PaymentCancelled"  -> "CANCELLED"

\* The newest event of a payment, in the order the publisher reads them, names
\* its status, and a payment without events is pending: two handlers of one
\* payment cannot commit their statuses in one order and date their events in
\* the other.
NewestEventNamesStatus ==
    \A o \in DOMAIN payment :
        /\ EventsOf(o) = {} => payment[o].status = "PENDING"
        /\ \A e \in EventsOf(o) :
             (\A f \in EventsOf(o) : outbox[f].createdAt <= outbox[e].createdAt)
                 => payment[o].status = AnnouncedStatus(outbox[e].eventType)

\* Handlers whose transaction holds the lock of a row.
Locking == {h \in Handler : handler[h].at \in {"saveEvent", "commit"}}

\* The inductive invariant behind the order of events: one transaction at a time
\* has the lock of a row, and its event is dated after those already there.
LockInv ==
    /\ \A e \in DOMAIN outbox :
         outbox[e].aggregateId \in DOMAIN payment /\ outbox[e].createdAt <= clock
    /\ \A h \in Locking :
         /\ handler[h].order \in DOMAIN payment
         /\ \A g \in Locking : handler[g].order = handler[h].order => g = h
    /\ \A h \in Handler : handler[h].at = "commit" =>
         /\ handler[h].createdAt <= clock
         /\ \A e \in EventsOf(handler[h].order) : outbox[e].createdAt < handler[h].createdAt

\* The inductive invariant behind completions: a handler of a success is about a
\* link that was paid, from the callback to the commit.
PaidInv ==
    /\ NoFalseCompletion
    /\ \A h \in Handler : handler[h] # Idle /\ handler[h].kind = "success" =>
         IF handler[h].at = "find"
         THEN handler[h].txn \in paid
         ELSE /\ handler[h].order \in DOMAIN payment
              /\ payment[handler[h].order].providerTransactionId \in paid

\* Status and announcement change in one step: the two tables implement the
\* ledger.
Ledger == INSTANCE PaymentLedger WITH
    Order     <- OrderCode,
    Time      <- Timestamp,
    status    <- [o \in OrderCode |->
                    IF o \in DOMAIN payment THEN payment[o].status ELSE "NONE"],
    announced <- [o \in OrderCode |->
                    { [ at     |-> outbox[e].createdAt,
                        status |-> AnnouncedStatus(outbox[e].eventType) ] : e \in EventsOf(o) }]

ImplementsLedger == Ledger!LedgerSpec

\* payment.service.ts logs "Returning cached payment for idempotency key" and
\* answers with the payment's URL.
ReplayReturnsLink == \A a \in answers : a.url # Undefined

=============================================================================
