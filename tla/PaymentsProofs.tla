--------------------------- MODULE PaymentsProofs ---------------------------
(***************************************************************************)
(* What Payments guarantees for any number of clients, orders, keys, calls *)
(* and handlers, every way to settle a payment, and any faults.            *)
(***************************************************************************)
EXTENDS Payments, OutboxProofs, FiniteSetTheorems, TLAPS

-----------------------------------------------------------------------------
(* The operators on the tables                                             *)

\* repo.create adds one pending row and keeps the others.
LEMMA InsertRowTable ==
    ASSUME TypeOK, NEW key \in Key, NEW order \in OrderCode, NEW txn \in Txn,
           order \notin DOMAIN payment, InsertRow(key, order, txn)
    PROVE  /\ payment' \in [DOMAIN payment' -> PaymentRow]
           /\ DOMAIN payment' \subseteq OrderCode
           /\ DOMAIN payment' = DOMAIN payment \cup {order}
           /\ payment'[order].idempotencyKey = key
           /\ payment'[order].providerTransactionId = txn
           /\ payment'[order].status = "PENDING"
           /\ \A o \in DOMAIN payment : payment'[o] = payment[o]
  BY DEF TypeOK, InsertRow, PaymentRow, PaymentStatus

\* The commit of a settlement changes the status of one row and nothing else.
LEMMA CommitTable ==
    ASSUME TypeOK, NEW o \in DOMAIN payment, NEW newStatus \in PaymentStatus,
           payment' = [payment EXCEPT ![o].status = newStatus]
    PROVE  /\ payment' \in [DOMAIN payment' -> PaymentRow]
           /\ DOMAIN payment' = DOMAIN payment
           /\ payment'[o].status = newStatus
           /\ \A p \in DOMAIN payment :
                /\ payment'[p].idempotencyKey = payment[p].idempotencyKey
                /\ payment'[p].providerTransactionId = payment[p].providerTransactionId
                /\ p # o => payment'[p].status = payment[p].status
  BY DEF TypeOK, PaymentRow

\* The event of a settlement announces the status the settlement writes.
LEMMA SettlementAnnounced ==
    ASSUME NEW kind \in Settlements
    PROVE  /\ StatusAfter(kind) \in PaymentStatus
           /\ StatusAfter(kind) # "PENDING"
           /\ EventTypeOf(kind) \in EventType
           /\ AnnouncedStatus(EventTypeOf(kind)) = StatusAfter(kind)
           /\ EventTypeOf(kind) = "PAYMENT_COMPLETED" <=> kind = "success"
           /\ StatusAfter(kind) = "COMPLETED" <=> kind = "success"
  BY SettlementsAssumption
     DEF StatusAfter, EventTypeOf, AnnouncedStatus, PaymentStatus, EventType

-----------------------------------------------------------------------------
(* The bound on timestamps                                                 *)

\* Handlers that have not taken their timestamp yet.
Undated == {h \in Handler : handler[h].at \in {"find", "update", "saveEvent"}}

\* The timestamps suffice for them: the guard RoomForEvent bounds the clock.
ClockInv == clock + Cardinality(Undated) <= MaxEvents

\* Undated handlers are finitely many.
LEMMA UndatedFinite ==
    /\ IsFiniteSet(Undated) /\ Cardinality(Undated) \in Nat
    /\ IsFiniteSet(Busy) /\ Cardinality(Busy) \in Nat
    /\ Undated \subseteq Busy
    /\ Cardinality(Undated) <= Cardinality(Busy)
  <1>1. Undated \subseteq Handler /\ Busy \subseteq Handler /\ Undated \subseteq Busy
    BY DEF Undated, Busy, Idle
  <1>2. QED
    BY <1>1, HandlerAssumption, FS_Subset, FS_CardinalityType

\* A step that makes no handler undated, and leaves the clock alone, keeps it.
LEMMA ClockKept ==
    ASSUME TypeOK, ClockInv, clock' = clock, Undated' \subseteq Undated
    PROVE  ClockInv'
  <1>1. /\ Cardinality(Undated') \in Nat
        /\ Cardinality(Undated') <= Cardinality(Undated)
    BY UndatedFinite, FS_Subset, FS_CardinalityType
  <1>2. QED
    BY <1>1, UndatedFinite, PaymentBounds DEF ClockInv, TypeOK

-----------------------------------------------------------------------------
(* Type correctness                                                        *)

\* What a handler holds at each of its awaits.
LEMMA HandlerFields ==
    ASSUME NEW state \in HandlerState
    PROVE  /\ state.at \in {"idle", "find", "update", "saveEvent", "commit"}
           /\ state.at = "idle" <=> state = Idle
           /\ state.at = "find" => state.kind \in Settlements \ {"cancel"} /\ state.txn \in Txn
           /\ state.at \in {"update", "saveEvent", "commit"} =>
                state.kind \in Settlements /\ state.order \in OrderCode
           /\ state.at = "commit" => state.createdAt \in Timestamp
           /\ state.at = "update" =>
                LET next == [state EXCEPT !.at = "saveEvent"]
                IN  /\ next \in HandlerState
                    /\ next.at = "saveEvent"
                    /\ next.kind = state.kind
                    /\ next.order = state.order
  BY DEF HandlerState, Idle

\* What a call holds at each of its awaits.
LEMMA CallFields ==
    ASSUME NEW state \in CallState
    PROVE  /\ state.at \in {"idle", "createPaymentLink", "insert"}
           /\ state.at # "idle" => state.key \in Key /\ state.order \in OrderCode /\ state.txn \in Txn
           /\ state.at = "createPaymentLink" => [state EXCEPT !.at = "insert"] \in CallState
  BY DEF CallState

LEMMA TypeInit == Init => TypeOK /\ ClockInv
  <1> SUFFICES ASSUME Init PROVE TypeOK /\ ClockInv
    OBVIOUS
  <1>1. TypeOK
    BY PaymentBounds DEF Init, TypeOK, IsTable, CallState, HandlerState, Idle
  <1>2. Undated = {}
    BY DEF Init, Undated, Idle
  <1>3. QED
    BY <1>1, <1>2, PaymentBounds, FS_EmptySet DEF Init, ClockInv

\* A step of a call keeps the types, and the timestamps of handlers.
LEMMA CallStepType ==
    ASSUME TypeOK, NEW c \in Call, CallStep(c)
    PROVE  TypeOK' /\ UNCHANGED <<clock, handler>>
  <1>1. CASE \E key \in Key, order \in OrderCode : RequestPaymentLink(c, key, order)
    BY <1>1 DEF TypeOK, RequestPaymentLink, BuildZaloPayAppTransId, CallState, Txn
  <1>2. CASE LinkCreated(c)
    BY <1>2, CallFields DEF TypeOK, LinkCreated
  <1>3. CASE LinkRefused(c)
    BY <1>3, CallFields DEF TypeOK, LinkRefused, Idle, CallState
  <1>4. CASE InsertPayment(c)
    <2>1. call[c] \in CallState /\ call[c].at = "insert"
      BY <1>4 DEF InsertPayment, TypeOK
    <2>2. call[c].key \in Key /\ call[c].order \in OrderCode /\ call[c].txn \in Txn
      BY <2>1, CallFields
    <2>3. payment' \in [DOMAIN payment' -> PaymentRow] /\ DOMAIN payment' \subseteq OrderCode
      <3>1. call[c].order \notin DOMAIN payment /\ InsertRow(call[c].key, call[c].order, call[c].txn)
        BY <1>4 DEF InsertPayment, UniqueViolation
      <3>2. QED
        BY <2>2, <3>1, InsertRowTable
    <2>4. QED
      BY <1>4, <2>2, <2>3 DEF TypeOK, InsertPayment, CallState, Idle
  <1>5. CASE InsertFails(c)
    <2>1. call[c] \in CallState /\ call[c].at = "insert"
      BY <1>5 DEF InsertFails, TypeOK
    <2>2. call[c].key \in Key /\ call[c].order \in OrderCode /\ call[c].txn \in Txn
      BY <2>1, CallFields
    <2>3. payment' \in [DOMAIN payment' -> PaymentRow] /\ DOMAIN payment' \subseteq OrderCode
      <3>1. CASE UNCHANGED payment
        BY <3>1 DEF TypeOK
      <3>2. CASE call[c].order \notin DOMAIN payment /\ InsertRow(call[c].key, call[c].order, call[c].txn)
        BY <2>2, <3>2, InsertRowTable
      <3>3. QED
        BY <1>5, <3>1, <3>2 DEF InsertFails, UniqueViolation
    <2>4. QED
      BY <1>5, <2>3 DEF TypeOK, InsertFails, CallState, Idle
  <1>6. QED
    BY <1>1, <1>2, <1>3, <1>4, <1>5 DEF CallStep

\* A handler takes a new timestamp while there is one.
LEMMA HandlerStepType ==
    ASSUME TypeOK, ClockInv, NEW h \in Handler, HandlerStep(h)
    PROVE  TypeOK'
  <1>. handler[h] \in HandlerState
    BY DEF TypeOK
  <1>1. CASE \E t \in Txn, kind \in Settlements : HandleCallback(h, t, kind)
    BY <1>1 DEF TypeOK, HandleCallback, HandlerState
  <1>2. CASE \E order \in OrderCode : CancelPayment(h, order)
    BY <1>2 DEF TypeOK, CancelPayment, HandlerState
  <1>3. CASE PaymentFound(h)
    <2>1. handler[h].kind \in Settlements
      BY <1>3, HandlerFields DEF PaymentFound
    <2>2. QED
      BY <1>3, <2>1 DEF TypeOK, PaymentFound, HandlerState
  <1>4. CASE PaymentNotFound(h) \/ UpdateFails(h) \/ HandlerFails(h)
    <2>1. UNCHANGED <<payment, outbox, links, answers, paid, day, clock>> /\ Rejects(h)
      BY <1>4 DEF PaymentNotFound, UpdateFails, HandlerFails
    <2>2. QED
      BY <2>1 DEF TypeOK, Rejects, ProcessDies, CallState, HandlerState, Idle
  <1>5. CASE UpdatePayment(h)
    BY <1>5, HandlerFields DEF TypeOK, UpdatePayment
  <1>6. CASE SaveOutboxEvent(h)
    <2>1. clock + 1 \in Timestamp
      <3>1. h \in Undated
        BY <1>6 DEF SaveOutboxEvent, Undated
      <3>2. Cardinality(Undated) # 0
        BY <3>1, UndatedFinite, FS_EmptySet
      <3>3. QED
        BY <3>2, UndatedFinite, PaymentBounds DEF ClockInv, TypeOK
    <2>2. handler[h].kind \in Settlements /\ handler[h].order \in OrderCode
      BY <1>6, HandlerFields DEF SaveOutboxEvent
    <2>3. QED
      BY <1>6, <2>1, <2>2, PaymentBounds DEF TypeOK, SaveOutboxEvent, HandlerState
  <1>7. CASE Commit(h)
    <2>1. /\ handler[h].kind \in Settlements
          /\ handler[h].order \in OrderCode
          /\ handler[h].createdAt \in Timestamp
      BY <1>7, HandlerFields DEF Commit
    <2>2. payment' \in [DOMAIN payment' -> PaymentRow] /\ DOMAIN payment' = DOMAIN payment
      <3>1. CASE handler[h].order \in DOMAIN payment
        BY <1>7, <2>1, <3>1, CommitTable, SettlementAnnounced DEF Commit
      <3>2. CASE handler[h].order \notin DOMAIN payment
        BY <1>7, <3>2 DEF Commit, TypeOK
      <3>3. QED
        BY <3>1, <3>2
    <2>3. IsTable(outbox')
      <3>1. PICK e \in Event \ DOMAIN outbox :
              outbox' = SaveEvent(outbox, e, handler[h].order, EventTypeOf(handler[h].kind),
                                  handler[h].createdAt)
        BY <1>7 DEF Commit
      <3>2. IsTable(outbox)
        BY DEF TypeOK
      <3>3. QED
        BY <2>1, <3>1, <3>2, SaveEventTable, SettlementAnnounced DEF OrderCode
    <2>4. QED
      BY <1>7, <2>2, <2>3 DEF TypeOK, Commit, HandlerState, Idle
  <1>8. QED
    BY <1>1, <1>2, <1>3, <1>4, <1>5, <1>6, <1>7 DEF HandlerStep, HandlerProgress

\* Only SaveOutboxEvent moves the clock, and it dates a handler with it.
LEMMA HandlerStepClock ==
    ASSUME TypeOK, ClockInv, NEW h \in Handler, HandlerStep(h)
    PROVE  ClockInv'
  <1>. handler[h] \in HandlerState /\ handler \in [Handler -> HandlerState]
    BY DEF TypeOK
  <1>1. CASE \/ \E t \in Txn, kind \in Settlements : HandleCallback(h, t, kind)
             \/ \E order \in OrderCode : CancelPayment(h, order)
    <2>1. RoomForEvent /\ clock' = clock
      BY <1>1 DEF HandleCallback, CancelPayment
    <2>2. Undated' \subseteq Undated \cup {h}
      BY <1>1 DEF HandleCallback, CancelPayment, Undated
    <2>3. Cardinality(Undated') <= Cardinality(Undated) + 1 /\ Cardinality(Undated') \in Nat
      <3>1. /\ IsFiniteSet(Undated \cup {h})
            /\ Cardinality(Undated \cup {h}) \in Nat
            /\ Cardinality(Undated \cup {h}) <= Cardinality(Undated) + 1
        <4>1. /\ IsFiniteSet(Undated \cup {h})
              /\ Cardinality(Undated \cup {h}) =
                   IF h \in Undated THEN Cardinality(Undated) ELSE Cardinality(Undated) + 1
          BY UndatedFinite, FS_AddElement
        <4>2. QED
          BY <4>1, UndatedFinite
      <3>2. /\ Cardinality(Undated') \in Nat
            /\ Cardinality(Undated') <= Cardinality(Undated \cup {h})
        BY <2>2, <3>1, FS_Subset, FS_CardinalityType
      <3>3. QED
        BY <3>1, <3>2, UndatedFinite
    <2>4. clock \in Nat
      BY PaymentBounds DEF TypeOK
    <2>5. QED
      BY <2>1, <2>3, <2>4, UndatedFinite, PaymentBounds DEF ClockInv, RoomForEvent
  <1>2. CASE PaymentFound(h) \/ PaymentNotFound(h) \/ UpdatePayment(h) \/ UpdateFails(h)
             \/ Commit(h) \/ HandlerFails(h)
    <2>1. Undated' \subseteq Undated /\ clock' = clock
      <3>1. CASE PaymentFound(h) \/ UpdatePayment(h) \/ Commit(h)
        BY <3>1 DEF PaymentFound, UpdatePayment, Commit, Undated, Idle
      <3>2. CASE PaymentNotFound(h) \/ UpdateFails(h) \/ HandlerFails(h)
        <4>1. Rejects(h) /\ clock' = clock
          BY <3>2 DEF PaymentNotFound, UpdateFails, HandlerFails
        <4>2. QED
          BY <4>1 DEF Rejects, ProcessDies, Undated, Idle
      <3>3. QED
        BY <1>2, <3>1, <3>2
    <2>2. QED
      BY <2>1, ClockKept
  <1>3. CASE SaveOutboxEvent(h)
    <2>1. h \in Undated /\ Undated' = Undated \ {h} /\ clock' = clock + 1
      BY <1>3 DEF SaveOutboxEvent, Undated
    <2>2. Cardinality(Undated') = Cardinality(Undated) - 1
      BY <2>1, UndatedFinite, FS_RemoveElement
    <2>3. clock \in Nat
      BY PaymentBounds DEF TypeOK
    <2>4. QED
      BY <2>1, <2>2, <2>3, UndatedFinite, PaymentBounds DEF ClockInv
  <1>4. QED
    BY <1>1, <1>2, <1>3 DEF HandlerStep, HandlerProgress

LEMMA TypeStep == TypeOK /\ ClockInv /\ [Next]_vars => TypeOK' /\ ClockInv'
  <1> SUFFICES ASSUME TypeOK, ClockInv, [Next]_vars PROVE TypeOK' /\ ClockInv'
    OBVIOUS
  <1>1. CASE \E key \in Key, order \in OrderCode : ReturnCachedPayment(key, order)
    <2>1. PICK key \in Key, order \in OrderCode : ReturnCachedPayment(key, order)
      BY <1>1
    <2>2. TypeOK'
      BY <2>1 DEF ReturnCachedPayment, FindByIdempotencyKey, ToPaymentEntity, TypeOK
    <2>3. ClockInv'
      BY <2>1 DEF ReturnCachedPayment, ClockInv, Undated
    <2>4. QED
      BY <2>2, <2>3
  <1>2. CASE \E c \in Call : CallStep(c)
    <2>1. TypeOK' /\ UNCHANGED <<clock, handler>>
      BY <1>2, CallStepType
    <2>2. QED
      BY <2>1 DEF ClockInv, Undated
  <1>3. CASE \E t \in Txn : Pay(t)
    <2>1. TypeOK'
      BY <1>3 DEF Pay, TypeOK
    <2>2. ClockInv'
      BY <1>3 DEF Pay, ClockInv, Undated
    <2>3. QED
      BY <2>1, <2>2
  <1>4. CASE \E h \in Handler : HandlerStep(h)
    BY <1>4, HandlerStepType, HandlerStepClock
  <1>5. CASE Crash
    <2>1. TypeOK'
      BY <1>5 DEF Crash, ProcessDies, TypeOK, CallState, HandlerState, Idle
    <2>2. Undated' \subseteq Undated /\ clock' = clock
      BY <1>5 DEF Crash, ProcessDies, Undated, Idle
    <2>3. QED
      BY <2>1, <2>2, ClockKept
  <1>6. CASE Midnight
    <2>1. TypeOK'
      BY <1>6, PaymentBounds DEF Midnight, TypeOK
    <2>2. ClockInv'
      BY <1>6 DEF Midnight, ClockInv, Undated
    <2>3. QED
      BY <2>1, <2>2
  <1>7. CASE UNCHANGED vars
    <2>1. TypeOK'
      BY <1>7 DEF vars, TypeOK
    <2>2. ClockInv'
      BY <1>7 DEF vars, ClockInv, Undated
    <2>3. QED
      BY <2>1, <2>2
  <1>8. QED
    BY <1>1, <1>2, <1>3, <1>4, <1>5, <1>6, <1>7 DEF Next

LEMMA ClockInvariant == Spec => [](TypeOK /\ ClockInv)
  BY TypeInit, TypeStep, PTL DEF Spec

\* Every variable keeps its type, for any number of calls and handlers; the
\* timestamps that bound the runs are enough for the handlers they admit.
THEOREM TypeCorrect == Spec => []TypeOK
  BY ClockInvariant, PTL

-----------------------------------------------------------------------------
(* What a step may do to the tables                                        *)

\* What a call may do to the table: nothing, or add a pending payment whose
\* order, key and transaction id are new.
LEMMA CallStepRows ==
    ASSUME TypeOK, NEW c \in Call, CallStep(c)
    PROVE  /\ UNCHANGED <<outbox, paid, day, clock, handler>>
           /\ \/ payment' = payment
              \/ \E o \in OrderCode \ DOMAIN payment :
                   /\ DOMAIN payment' = DOMAIN payment \cup {o}
                   /\ payment'[o].status = "PENDING"
                   /\ \A p \in DOMAIN payment :
                        /\ payment'[p] = payment[p]
                        /\ payment[p].idempotencyKey # payment'[o].idempotencyKey
                        /\ payment[p].providerTransactionId
                             # payment'[o].providerTransactionId
           /\ \/ answers' = answers
              \/ \E a \in [key : Key, order : OrderCode, url : Txn] :
                   /\ answers' = answers \cup {a}
                   /\ a.order \in DOMAIN payment'
                   /\ payment'[a.order].providerTransactionId = a.url
                   /\ payment'[a.order].idempotencyKey = a.key
  <1>1. CASE \/ \E key \in Key, order \in OrderCode : RequestPaymentLink(c, key, order)
             \/ LinkCreated(c)
             \/ LinkRefused(c)
    BY <1>1 DEF RequestPaymentLink, LinkCreated, LinkRefused
  <1>2. CASE InsertPayment(c) \/ (InsertFails(c) /\ payment' # payment)
    <2>1. call[c] \in CallState /\ call[c].at = "insert"
      BY <1>2 DEF InsertPayment, InsertFails, TypeOK
    <2>2. call[c].key \in Key /\ call[c].order \in OrderCode /\ call[c].txn \in Txn
      BY <2>1, CallFields
    <2>3. /\ ~UniqueViolation(call[c].key, call[c].order, call[c].txn)
          /\ InsertRow(call[c].key, call[c].order, call[c].txn)
          /\ UNCHANGED <<outbox, paid, day, clock, handler>>
      BY <1>2 DEF InsertPayment, InsertFails
    <2>4. /\ DOMAIN payment' = DOMAIN payment \cup {call[c].order}
          /\ payment'[call[c].order].idempotencyKey = call[c].key
          /\ payment'[call[c].order].providerTransactionId = call[c].txn
          /\ payment'[call[c].order].status = "PENDING"
          /\ \A o \in DOMAIN payment : payment'[o] = payment[o]
          /\ call[c].order \notin DOMAIN payment
      BY <2>2, <2>3, InsertRowTable DEF UniqueViolation
    <2>5. \A p \in DOMAIN payment : /\ payment[p].idempotencyKey # call[c].key
                                    /\ payment[p].providerTransactionId # call[c].txn
      BY <2>3 DEF UniqueViolation
    <2>6. \/ answers' = answers
          \/ answers' = answers \cup
               {[key |-> call[c].key, order |-> call[c].order, url |-> call[c].txn]}
      BY <1>2 DEF InsertPayment, InsertFails
    <2>7. QED
      BY <2>2, <2>3, <2>4, <2>5, <2>6
  <1>3. CASE InsertFails(c) /\ payment' = payment
    BY <1>3 DEF InsertFails
  <1>4. \/ \/ \E key \in Key, order \in OrderCode : RequestPaymentLink(c, key, order)
           \/ LinkCreated(c)
           \/ LinkRefused(c)
        \/ InsertPayment(c) \/ (InsertFails(c) /\ payment' # payment)
        \/ (InsertFails(c) /\ payment' = payment)
    BY DEF CallStep
  <1>5. QED
    BY <1>1, <1>2, <1>3, <1>4, Zenon

\* Handlers change no key, no transaction id and no set of orders.
LEMMA HandlerStepRows ==
    ASSUME TypeOK, LockInv, NEW h \in Handler, HandlerStep(h)
    PROVE  /\ UNCHANGED <<links, answers, paid, day>>
           /\ DOMAIN payment' = DOMAIN payment
           /\ \A o \in DOMAIN payment :
                /\ payment'[o].idempotencyKey = payment[o].idempotencyKey
                /\ payment'[o].providerTransactionId = payment[o].providerTransactionId
  <1>1. CASE Commit(h)
    <2>1. handler[h] \in HandlerState /\ handler[h].at = "commit"
      BY <1>1 DEF Commit, TypeOK
    <2>2. handler[h].kind \in Settlements /\ handler[h].order \in DOMAIN payment
      BY <2>1, HandlerFields DEF LockInv, Locking
    <2>3. payment' = [payment EXCEPT ![handler[h].order].status = StatusAfter(handler[h].kind)]
      BY <1>1 DEF Commit
    <2>4. QED
      BY <1>1, <2>2, <2>3, CommitTable, SettlementAnnounced DEF Commit
  <1>2. CASE ~Commit(h)
    BY <1>2 DEF HandlerStep, HandlerProgress, HandleCallback, CancelPayment, PaymentFound,
                PaymentNotFound, UpdatePayment, UpdateFails, SaveOutboxEvent, HandlerFails
  <1>3. QED
    BY <1>1, <1>2

-----------------------------------------------------------------------------
(* Locks and timestamps                                                    *)

LEMMA LockInit == Init => LockInv
  BY DEF Init, LockInv, Locking, Idle

\* Handlers that stop disturb no other.
LEMMA HandlersStop ==
    ASSUME TypeOK, LockInv, UNCHANGED <<payment, outbox, clock>>,
           \A h \in Handler : handler'[h] \in {handler[h], Idle}
    PROVE  LockInv'
  <1>1. \A h \in Handler : handler'[h].at \in {"saveEvent", "commit"} => handler'[h] = handler[h]
    BY DEF Idle
  <1>2. \A h \in Locking' : h \in Locking /\ handler'[h] = handler[h]
    BY <1>1 DEF Locking
  <1>3. \A o : EventsOf(o)' = EventsOf(o)
    BY DEF EventsOf
  <1>4. QED
    BY <1>1, <1>2, <1>3 DEF LockInv

\* A handler that does not commit or date its event disturbs no other: what
\* there is to show is that it has the lock alone when it takes it.
LEMMA HandlerMoves ==
    ASSUME TypeOK, LockInv, NEW h \in Handler,
           UNCHANGED <<payment, outbox, clock>>,
           NEW next \in HandlerState, handler' = [handler EXCEPT ![h] = next],
           next.at # "commit",
           next.at = "saveEvent" =>
               /\ next.order \in DOMAIN payment
               /\ ~RowLocked(next.order)
    PROVE  LockInv'
  <1>. handler \in [Handler -> HandlerState]
    BY DEF TypeOK
  <1>1. Locking' \subseteq Locking \cup {h}
    BY DEF Locking
  <1>2. h \in Locking' => next.at = "saveEvent"
    BY DEF Locking
  <1>3. \A g \in Locking \ {h} : handler'[g] = handler[g]
    BY DEF Locking
  <1>4. h \in Locking' => \A g \in Locking : handler[g].order # next.order
    BY <1>2 DEF RowLocked, Locking
  <1>5. \A g \in Handler : handler'[g].at = "commit" => handler'[g] = handler[g]
    OBVIOUS
  <1>6. handler'[h] = next
    OBVIOUS
  <1>7. \A o : EventsOf(o)' = EventsOf(o)
    BY DEF EventsOf
  <1>8. \A g \in Locking' :
          /\ handler'[g].order \in DOMAIN payment
          /\ \A k \in Locking' : handler'[k].order = handler'[g].order => k = g
    BY <1>1, <1>2, <1>3, <1>4, <1>6 DEF LockInv
  <1>9. \A g \in Handler : handler'[g].at = "commit" =>
          /\ handler'[g].createdAt <= clock
          /\ \A e \in EventsOf(handler'[g].order) : outbox[e].createdAt < handler'[g].createdAt
    BY <1>5 DEF LockInv
  <1>10. QED
    BY <1>7, <1>8, <1>9 DEF LockInv

\* The event is dated under the lock and so after all events of its payment.
LEMMA SaveOutboxEventLock ==
    ASSUME TypeOK, LockInv, NEW h \in Handler, SaveOutboxEvent(h)
    PROVE  LockInv'
  <1>. /\ handler \in [Handler -> HandlerState]
       /\ clock \in Nat /\ clock' = clock + 1
       /\ UNCHANGED <<payment, outbox>>
    BY PaymentBounds DEF TypeOK, SaveOutboxEvent
  <1>. DEFINE next == [ at |-> "commit", kind |-> handler[h].kind, order |-> handler[h].order,
                        createdAt |-> clock + 1 ]
  <1>1. handler' = [handler EXCEPT ![h] = next] /\ h \in Locking
    BY DEF SaveOutboxEvent, Locking
  <1>2. Locking' = Locking
    BY <1>1 DEF Locking
  <1>3. \A g \in Locking : handler'[g].order = handler[g].order
    BY <1>1 DEF Locking
  <1>4. \A e \in DOMAIN outbox : outbox[e].createdAt \in Nat /\ outbox[e].createdAt < clock + 1
    BY PaymentBounds DEF LockInv, TypeOK, IsTable, Row
  <1>5. \A o : EventsOf(o)' = EventsOf(o) /\ EventsOf(o) \subseteq DOMAIN outbox
    BY DEF EventsOf
  <1>6. \A g \in Handler : handler'[g].at = "commit" =>
          /\ handler'[g].createdAt <= clock + 1
          /\ \A e \in EventsOf(handler'[g].order) : outbox[e].createdAt < handler'[g].createdAt
    <2>1. handler'[h].createdAt = clock + 1
      BY <1>1
    <2>2. ASSUME NEW g \in Handler \ {h}, handler'[g].at = "commit"
          PROVE  /\ handler'[g].createdAt <= clock + 1
                 /\ \A e \in EventsOf(handler'[g].order) :
                      outbox[e].createdAt < handler'[g].createdAt
      <3>1. handler'[g] = handler[g] /\ handler[g] \in HandlerState
        BY <1>1, <2>2
      <3>2. handler[g].createdAt \in Nat
        BY <2>2, <3>1, HandlerFields, TimestampAssumption
      <3>3. QED
        BY <2>2, <3>1, <3>2 DEF LockInv
    <2>3. QED
      BY <1>4, <1>5, <2>1, <2>2
  <1>7. QED
    BY <1>2, <1>3, <1>4, <1>5, <1>6 DEF LockInv

\* What a commit does: one status, one new event, the lock released.
LEMMA CommitEffect ==
    ASSUME TypeOK, LockInv, NEW h \in Handler, Commit(h)
    PROVE  /\ handler[h].kind \in Settlements
           /\ handler[h].order \in DOMAIN payment
           /\ handler[h].createdAt \in Timestamp
           /\ handler' = [handler EXCEPT ![h] = Idle]
           /\ UNCHANGED <<links, answers, paid, day, clock, call>>
           /\ DOMAIN payment' = DOMAIN payment
           /\ payment'[handler[h].order].status = StatusAfter(handler[h].kind)
           /\ \A o \in DOMAIN payment \ {handler[h].order} :
                payment'[o].status = payment[o].status
           /\ \A o \in DOMAIN payment :
                payment'[o].providerTransactionId = payment[o].providerTransactionId
           /\ \E e \in Event \ DOMAIN outbox :
                /\ DOMAIN outbox' = DOMAIN outbox \cup {e}
                /\ outbox'[e].aggregateId = handler[h].order
                /\ outbox'[e].eventType = EventTypeOf(handler[h].kind)
                /\ outbox'[e].createdAt = handler[h].createdAt
                /\ \A x \in DOMAIN outbox : outbox'[x] = outbox[x]
  <1>1. handler[h] \in HandlerState /\ handler[h].at = "commit" /\ h \in Locking
    BY DEF Commit, TypeOK, Locking
  <1>2. /\ handler[h].kind \in Settlements
        /\ handler[h].order \in DOMAIN payment
        /\ handler[h].order \in OrderCode
        /\ handler[h].createdAt \in Timestamp
    BY <1>1, HandlerFields DEF LockInv
  <1>3. payment' = [payment EXCEPT ![handler[h].order].status = StatusAfter(handler[h].kind)]
    BY DEF Commit
  <1>4. PICK e \in Event \ DOMAIN outbox :
          outbox' = SaveEvent(outbox, e, handler[h].order, EventTypeOf(handler[h].kind),
                              handler[h].createdAt)
    BY DEF Commit
  <1>5. IsTable(outbox)
    BY DEF TypeOK
  <1>6. /\ DOMAIN outbox' = DOMAIN outbox \cup {e}
        /\ outbox'[e].aggregateId = handler[h].order
        /\ outbox'[e].eventType = EventTypeOf(handler[h].kind)
        /\ outbox'[e].createdAt = handler[h].createdAt
        /\ \A x \in DOMAIN outbox : outbox'[x] = outbox[x]
    BY <1>2, <1>4, <1>5, SaveEventTable, SettlementAnnounced DEF OrderCode
  <1>7. /\ DOMAIN payment' = DOMAIN payment
        /\ payment'[handler[h].order].status = StatusAfter(handler[h].kind)
        /\ \A o \in DOMAIN payment \ {handler[h].order} :
             payment'[o].status = payment[o].status
        /\ \A o \in DOMAIN payment :
             payment'[o].providerTransactionId = payment[o].providerTransactionId
    BY <1>2, <1>3, CommitTable, SettlementAnnounced
  <1>8. handler' = [handler EXCEPT ![h] = Idle] /\ UNCHANGED <<links, answers, paid, day, clock, call>>
    BY DEF Commit
  <1>9. QED
    BY <1>2, <1>6, <1>7, <1>8

LEMMA CommitLock ==
    ASSUME TypeOK, LockInv, NEW h \in Handler, Commit(h)
    PROVE  LockInv'
  <1>. handler \in [Handler -> HandlerState]
    BY DEF TypeOK
  <1>1. /\ handler' = [handler EXCEPT ![h] = Idle]
        /\ clock' = clock
        /\ DOMAIN payment' = DOMAIN payment
        /\ handler[h].order \in DOMAIN payment
        /\ handler[h].at = "commit"
        /\ handler[h].createdAt <= clock
    BY CommitEffect DEF Commit, LockInv
  <1>2. PICK e \in Event \ DOMAIN outbox :
          /\ DOMAIN outbox' = DOMAIN outbox \cup {e}
          /\ outbox'[e].aggregateId = handler[h].order
          /\ outbox'[e].createdAt = handler[h].createdAt
          /\ \A x \in DOMAIN outbox : outbox'[x] = outbox[x]
    BY CommitEffect
  <1>3. /\ h \in Locking
        /\ Locking' = Locking \ {h}
        /\ \A g \in Locking' : handler'[g] = handler[g]
    BY <1>1 DEF Locking, Idle
  <1>4. \A g \in Handler : handler'[g].at = "commit" =>
          /\ handler[g].at = "commit" /\ handler'[g] = handler[g]
          /\ handler[g].order # handler[h].order
    <2>1. SUFFICES ASSUME NEW g \in Handler, handler'[g].at = "commit"
                   PROVE  /\ handler[g].at = "commit" /\ handler'[g] = handler[g]
                          /\ handler[g].order # handler[h].order
      OBVIOUS
    <2>2. g # h
      BY <1>1, <2>1 DEF Idle
    <2>3. handler'[g] = handler[g] /\ g \in Locking
      BY <1>1, <2>1, <2>2 DEF Locking
    <2>4. QED
      BY <1>3, <2>1, <2>2, <2>3 DEF LockInv
  <1>5. \A g \in Handler : handler'[g].at = "commit" =>
          /\ handler'[g].createdAt <= clock
          /\ \A x \in EventsOf(handler[g].order)' : outbox'[x].createdAt < handler'[g].createdAt
    <2>1. SUFFICES ASSUME NEW g \in Handler, handler'[g].at = "commit"
                   PROVE  /\ handler'[g].createdAt <= clock
                          /\ \A x \in EventsOf(handler[g].order)' :
                               outbox'[x].createdAt < handler'[g].createdAt
      OBVIOUS
    <2>2. /\ handler[g].at = "commit" /\ handler'[g] = handler[g]
          /\ handler[g].order # handler[h].order
      BY <1>4, <2>1
    <2>3. \A x \in EventsOf(handler[g].order)' :
            x \in EventsOf(handler[g].order) /\ outbox'[x] = outbox[x]
      BY <1>2, <2>2 DEF EventsOf
    <2>4. QED
      BY <2>2, <2>3 DEF LockInv
  <1>6. \A x \in DOMAIN outbox' :
          outbox'[x].aggregateId \in DOMAIN payment /\ outbox'[x].createdAt <= clock
    BY <1>1, <1>2 DEF LockInv
  <1>7. \A g \in Locking' :
          /\ handler'[g].order \in DOMAIN payment
          /\ \A k \in Locking' : handler'[k].order = handler'[g].order => k = g
    BY <1>3 DEF LockInv
  <1>8. QED
    BY <1>1, <1>5, <1>6, <1>7 DEF LockInv

LEMMA HandlerStepLock ==
    ASSUME TypeOK, LockInv, NEW h \in Handler, HandlerStep(h)
    PROVE  LockInv'
  <1>. handler[h] \in HandlerState /\ Idle \in HandlerState
    BY DEF TypeOK, HandlerState, Idle
  <1>1. CASE \E t \in Txn, kind \in Settlements : HandleCallback(h, t, kind)
    <2>1. PICK t \in Txn, kind \in Settlements \ {"cancel"} :
            handler' = [handler EXCEPT ![h] = [at |-> "find", kind |-> kind, txn |-> t]]
      BY <1>1 DEF HandleCallback
    <2>2. [at |-> "find", kind |-> kind, txn |-> t] \in HandlerState
      BY DEF HandlerState
    <2>3. UNCHANGED <<payment, outbox, clock>>
      BY <1>1 DEF HandleCallback
    <2>4. QED
      BY <2>1, <2>2, <2>3, HandlerMoves
  <1>2. CASE \/ \E order \in OrderCode : CancelPayment(h, order)
             \/ PaymentFound(h)
    <2>1. PICK kind \in Settlements, order \in OrderCode :
            handler' = [handler EXCEPT ![h] = [at |-> "update", kind |-> kind, order |-> order]]
      <3>1. CASE \E order \in OrderCode : CancelPayment(h, order)
        BY <3>1 DEF CancelPayment
      <3>2. CASE PaymentFound(h)
        <4>1. handler[h].kind \in Settlements
          BY <3>2, HandlerFields DEF PaymentFound
        <4>2. DOMAIN payment \subseteq OrderCode
          BY DEF TypeOK
        <4>3. QED
          BY <3>2, <4>1, <4>2 DEF PaymentFound
      <3>3. QED
        BY <1>2, <3>1, <3>2
    <2>2. [at |-> "update", kind |-> kind, order |-> order] \in HandlerState
      BY DEF HandlerState
    <2>3. UNCHANGED <<payment, outbox, clock>>
      BY <1>2 DEF CancelPayment, PaymentFound
    <2>4. QED
      BY <2>1, <2>2, <2>3, HandlerMoves
  <1>3. CASE PaymentNotFound(h) \/ UpdateFails(h) \/ HandlerFails(h)
    <2>1. Rejects(h) /\ UNCHANGED <<payment, outbox, clock>>
      BY <1>3 DEF PaymentNotFound, UpdateFails, HandlerFails
    <2>2. \A g \in Handler : handler'[g] \in {handler[g], Idle}
      BY <2>1 DEF Rejects, ProcessDies, TypeOK
    <2>3. QED
      BY <2>1, <2>2, HandlersStop
  <1>4. CASE UpdatePayment(h)
    <2>. DEFINE next == [handler[h] EXCEPT !.at = "saveEvent"]
    <2>1. next \in HandlerState /\ next.at = "saveEvent" /\ next.order = handler[h].order
      BY <1>4, HandlerFields DEF UpdatePayment
    <2>2. /\ handler' = [handler EXCEPT ![h] = next]
          /\ UNCHANGED <<payment, outbox, clock>>
          /\ handler[h].order \in DOMAIN payment
          /\ ~RowLocked(handler[h].order)
      BY <1>4 DEF UpdatePayment, TypeOK
    <2>3. QED
      BY <2>1, <2>2, HandlerMoves
  <1>5. QED
    BY <1>1, <1>2, <1>3, <1>4, SaveOutboxEventLock, CommitLock DEF HandlerStep, HandlerProgress

LEMMA LockStep == TypeOK /\ LockInv /\ [Next]_vars => LockInv'
  <1> SUFFICES ASSUME TypeOK, LockInv, [Next]_vars PROVE LockInv'
    OBVIOUS
  <1>1. ASSUME UNCHANGED <<outbox, clock, handler>>, DOMAIN payment \subseteq DOMAIN payment'
        PROVE  LockInv'
    BY <1>1 DEF LockInv, Locking, EventsOf
  <1>2. CASE \E key \in Key, order \in OrderCode : ReturnCachedPayment(key, order)
    BY <1>1, <1>2 DEF ReturnCachedPayment
  <1>3. CASE \E c \in Call : CallStep(c)
    BY <1>1, <1>3, CallStepRows
  <1>4. CASE \E t \in Txn : Pay(t)
    BY <1>1, <1>4 DEF Pay
  <1>5. CASE \E h \in Handler : HandlerStep(h)
    BY <1>5, HandlerStepLock
  <1>6. CASE Crash
    BY <1>6, HandlersStop DEF Crash, ProcessDies
  <1>7. CASE Midnight \/ UNCHANGED vars
    BY <1>1, <1>7 DEF Midnight, vars
  <1>8. QED
    BY <1>2, <1>3, <1>4, <1>5, <1>6, <1>7 DEF Next

LEMMA LockInvariant == Spec => [](TypeOK /\ LockInv)
  BY TypeCorrect, LockInit, LockStep, PTL DEF Spec

-----------------------------------------------------------------------------
(* The links clients hold                                                  *)

LEMMA LinkInit == Init => LinkInv
  BY DEF Init, LinkInv

\* Rows and answers grow together, and a row's key and transaction id stay.
LEMMA LinkStep == TypeOK /\ LockInv /\ LinkInv /\ [Next]_vars => LinkInv'
  <1> SUFFICES ASSUME TypeOK, LockInv, LinkInv, [Next]_vars PROVE LinkInv'
    OBVIOUS
  <1>1. CASE \E key \in Key, order \in OrderCode : ReturnCachedPayment(key, order)
    <2>1. PICK key \in Key, order \in OrderCode :
            /\ answers' = answers \cup {[key |-> key, order |-> order, url |-> Undefined]}
            /\ payment' = payment
      BY <1>1 DEF ReturnCachedPayment, FindByIdempotencyKey, ToPaymentEntity
    <2>2. QED
      BY <2>1 DEF LinkInv
  <1>2. CASE \E c \in Call : CallStep(c)
    <2>1. PICK c \in Call : CallStep(c)
      BY <1>2
    <2>2. /\ DOMAIN payment \subseteq DOMAIN payment'
          /\ \A o \in DOMAIN payment : payment'[o] = payment[o]
          /\ \A o, p \in DOMAIN payment' :
               payment'[o].idempotencyKey = payment'[p].idempotencyKey => o = p
      <3>1. CASE payment' = payment
        BY <3>1 DEF LinkInv
      <3>2. CASE payment' # payment
        <4>1. PICK new \in OrderCode \ DOMAIN payment :
                /\ DOMAIN payment' = DOMAIN payment \cup {new}
                /\ \A p \in DOMAIN payment :
                     /\ payment'[p] = payment[p]
                     /\ payment[p].idempotencyKey # payment'[new].idempotencyKey
          BY <2>1, <3>2, CallStepRows
        <4>2. QED
          BY <4>1 DEF LinkInv
      <3>3. QED
        BY <3>1, <3>2
    <2>3. \A a \in answers' : a \in answers \/
            /\ a.order \in DOMAIN payment'
            /\ payment'[a.order].providerTransactionId = a.url
            /\ payment'[a.order].idempotencyKey = a.key
      BY <2>1, CallStepRows
    <2>4. QED
      BY <2>2, <2>3 DEF LinkInv
  <1>3. CASE \E h \in Handler : HandlerStep(h)
    <2>1. /\ answers' = answers
          /\ DOMAIN payment' = DOMAIN payment
          /\ \A o \in DOMAIN payment :
               /\ payment'[o].idempotencyKey = payment[o].idempotencyKey
               /\ payment'[o].providerTransactionId = payment[o].providerTransactionId
      BY <1>3, HandlerStepRows
    <2>2. QED
      BY <2>1 DEF LinkInv
  <1>4. CASE (\E t \in Txn : Pay(t)) \/ Crash \/ Midnight \/ UNCHANGED vars
    <2>1. UNCHANGED <<payment, answers>>
      BY <1>4 DEF Pay, Crash, Midnight, vars
    <2>2. QED
      BY <2>1 DEF LinkInv
  <1>5. QED
    BY <1>1, <1>2, <1>3, <1>4 DEF Next

LEMMA LinkInvariant == Spec => []LinkInv
  BY LockInvariant, LinkInit, LinkStep, PTL DEF Spec

\* Whoever holds a link can pay it: the callback will find its row.
THEOREM LinksAreBacked == Spec => []KnownLinksHaveRows
  <1>1. LinkInv => KnownLinksHaveRows
    BY DEF LinkInv, KnownLinksHaveRows, KnownLinks
  <1>2. QED
    BY <1>1, LinkInvariant, PTL

\* Neither an order nor an idempotency key is ever known to clients by two links.
THEOREM LinksAreUnique == Spec => []OneLinkPerOrder
  <1>1. LinkInv => OneLinkPerOrder
    BY DEF LinkInv, OneLinkPerOrder
  <1>2. QED
    BY <1>1, LinkInvariant, PTL

-----------------------------------------------------------------------------
(* Completions                                                             *)

LEMMA PaidInit == Init => PaidInv
  BY DEF Init, PaidInv, NoFalseCompletion, Idle

\* The steps that leave the outbox alone and create or start nothing successful.
LEMMA PaidKept ==
    ASSUME TypeOK, LockInv, PaidInv,
           outbox' = outbox, paid \subseteq paid',
           DOMAIN payment \subseteq DOMAIN payment',
           \A o \in DOMAIN payment : payment'[o] = payment[o],
           \A o \in DOMAIN payment' \ DOMAIN payment : payment'[o].status = "PENDING",
           \A h \in Handler : handler'[h] = handler[h] \/ handler'[h] = Idle
    PROVE  PaidInv'
  <1>1. NoFalseCompletion'
    BY DEF PaidInv, NoFalseCompletion, LockInv
  <1>2. QED
    BY <1>1 DEF PaidInv

LEMMA HandlerStepPaid ==
    ASSUME TypeOK, LockInv, PaidInv, NEW h \in Handler, HandlerStep(h)
    PROVE  PaidInv'
  <1>. handler \in [Handler -> HandlerState]
    BY DEF TypeOK
  <1>1. ASSUME UNCHANGED <<payment, outbox, paid>>,
               NEW next, handler' = [handler EXCEPT ![h] = next],
               next # Idle /\ next.kind = "success" =>
                 IF next.at = "find"
                 THEN next.txn \in paid
                 ELSE /\ next.order \in DOMAIN payment
                      /\ payment[next.order].providerTransactionId \in paid
        PROVE  PaidInv'
    BY <1>1 DEF PaidInv, NoFalseCompletion
  <1>2. CASE \E t \in Txn, kind \in Settlements : HandleCallback(h, t, kind)
    BY <1>1, <1>2 DEF HandleCallback
  <1>3. CASE \E order \in OrderCode : CancelPayment(h, order)
    BY <1>1, <1>3 DEF CancelPayment
  <1>4. CASE PaymentFound(h)
    <2>1. PICK o \in DOMAIN payment :
            /\ payment[o].providerTransactionId = handler[h].txn
            /\ handler' = [handler EXCEPT ![h] =
                 [at |-> "update", kind |-> handler[h].kind, order |-> o]]
      BY <1>4 DEF PaymentFound
    <2>2. /\ handler[h].at = "find" /\ handler[h] # Idle
          /\ UNCHANGED <<payment, outbox, paid>>
      BY <1>4 DEF PaymentFound, Idle
    <2>3. handler[h].kind = "success" => payment[o].providerTransactionId \in paid
      BY <2>1, <2>2 DEF PaidInv
    <2>4. QED
      BY <1>1, <2>1, <2>2, <2>3
  <1>5. CASE UpdatePayment(h)
    <2>. DEFINE next == [handler[h] EXCEPT !.at = "saveEvent"]
    <2>1. /\ handler[h].at = "update" /\ handler[h] # Idle
          /\ UNCHANGED <<payment, outbox, paid>>
          /\ handler' = [handler EXCEPT ![h] = next]
      BY <1>5 DEF UpdatePayment, Idle
    <2>2. next.at = "saveEvent" /\ next.kind = handler[h].kind /\ next.order = handler[h].order
      BY <2>1, HandlerFields
    <2>3. QED
      BY <1>1, <2>1, <2>2 DEF PaidInv
  <1>6. CASE SaveOutboxEvent(h)
    <2>1. handler[h].at = "saveEvent" /\ handler[h] # Idle
      BY <1>6 DEF SaveOutboxEvent, Idle
    <2>2. QED
      BY <1>1, <1>6, <2>1 DEF SaveOutboxEvent, PaidInv
  <1>7. CASE PaymentNotFound(h) \/ UpdateFails(h) \/ HandlerFails(h)
    <2>1. Rejects(h) /\ UNCHANGED <<payment, outbox, paid>>
      BY <1>7 DEF PaymentNotFound, UpdateFails, HandlerFails
    <2>2. \A g \in Handler : handler'[g] = handler[g] \/ handler'[g] = Idle
      BY <2>1 DEF Rejects, ProcessDies
    <2>3. QED
      BY <2>1, <2>2, PaidKept
  <1>8. CASE Commit(h)
    <2>. DEFINE o == handler[h].order
    <2>1. handler[h] # Idle /\ handler[h].at = "commit"
      BY <1>8 DEF Commit, Idle
    <2>2. /\ o \in DOMAIN payment
          /\ handler[h].kind \in Settlements
          /\ handler' = [handler EXCEPT ![h] = Idle]
          /\ paid' = paid
          /\ DOMAIN payment' = DOMAIN payment
          /\ payment'[o].status = StatusAfter(handler[h].kind)
          /\ \A p \in DOMAIN payment \ {o} : payment'[p].status = payment[p].status
          /\ \A p \in DOMAIN payment :
               payment'[p].providerTransactionId = payment[p].providerTransactionId
      BY <1>8, CommitEffect
    <2>3. handler[h].kind = "success" => payment[o].providerTransactionId \in paid
      BY <2>1 DEF PaidInv
    <2>4. \A p \in DOMAIN payment' :
            payment'[p].status = "COMPLETED" => payment'[p].providerTransactionId \in paid
      BY <2>2, <2>3, SettlementAnnounced DEF PaidInv, NoFalseCompletion
    <2>5. PICK e \in Event \ DOMAIN outbox :
            /\ DOMAIN outbox' = DOMAIN outbox \cup {e}
            /\ outbox'[e].aggregateId = o
            /\ outbox'[e].eventType = EventTypeOf(handler[h].kind)
            /\ \A x \in DOMAIN outbox : outbox'[x] = outbox[x]
      BY <1>8, CommitEffect
    <2>6. \A x \in DOMAIN outbox' : outbox'[x].eventType = "PAYMENT_COMPLETED" =>
            payment'[outbox'[x].aggregateId].providerTransactionId \in paid
      BY <2>2, <2>3, <2>5, SettlementAnnounced DEF PaidInv, NoFalseCompletion, LockInv
    <2>7. QED
      BY <2>2, <2>4, <2>6 DEF PaidInv, NoFalseCompletion
  <1>9. QED
    BY <1>2, <1>3, <1>4, <1>5, <1>6, <1>7, <1>8 DEF HandlerStep, HandlerProgress

LEMMA PaidStep == TypeOK /\ LockInv /\ PaidInv /\ [Next]_vars => PaidInv'
  <1> SUFFICES ASSUME TypeOK, LockInv, PaidInv, [Next]_vars PROVE PaidInv'
    OBVIOUS
  <1>1. CASE \E key \in Key, order \in OrderCode : ReturnCachedPayment(key, order)
    BY <1>1, PaidKept DEF ReturnCachedPayment
  <1>2. CASE \E c \in Call : CallStep(c)
    BY <1>2, CallStepRows, PaidKept
  <1>3. CASE \E t \in Txn : Pay(t)
    BY <1>3, PaidKept DEF Pay
  <1>4. CASE \E h \in Handler : HandlerStep(h)
    BY <1>4, HandlerStepPaid
  <1>5. CASE Crash
    BY <1>5, PaidKept DEF Crash, ProcessDies
  <1>6. CASE Midnight \/ UNCHANGED vars
    BY <1>6, PaidKept DEF Midnight, vars
  <1>7. QED
    BY <1>1, <1>2, <1>3, <1>4, <1>5, <1>6 DEF Next

LEMMA PaidInvariant == Spec => []PaidInv
  BY LockInvariant, PaidInit, PaidStep, PTL DEF Spec

\* A payment that is completed, in its row or in an event, was paid.
THEOREM CompletedMeansPaid == Spec => []NoFalseCompletion
  <1>1. PaidInv => NoFalseCompletion
    BY DEF PaidInv
  <1>2. QED
    BY <1>1, PaidInvariant, PTL

-----------------------------------------------------------------------------
(* The order of announcements, and the ledger                              *)

LEMMA NewestInit == Init => NewestEventNamesStatus
  BY DEF Init, NewestEventNamesStatus

\* What a commit does to the events of its payment, dated after all of them.
LEMMA CommitEvents ==
    ASSUME TypeOK, LockInv, NEW h \in Handler, Commit(h)
    PROVE  \E o \in DOMAIN payment, kind \in Settlements, new \in Event \ DOMAIN outbox :
             /\ DOMAIN payment' = DOMAIN payment
             /\ payment'[o].status = StatusAfter(kind)
             /\ \A p \in DOMAIN payment \ {o} : payment'[p].status = payment[p].status
             /\ DOMAIN outbox' = DOMAIN outbox \cup {new}
             /\ outbox'[new].eventType = EventTypeOf(kind)
             /\ outbox'[new].createdAt \in Timestamp
             /\ \A x \in DOMAIN outbox : outbox'[x] = outbox[x]
             /\ EventsOf(o)' = EventsOf(o) \cup {new}
             /\ \A p : p # o => EventsOf(p)' = EventsOf(p)
             /\ \A e \in EventsOf(o) : outbox[e].createdAt < outbox'[new].createdAt
  <1>1. PICK o \in DOMAIN payment, kind \in Settlements :
          /\ o = handler[h].order
          /\ kind = handler[h].kind
          /\ handler[h].createdAt \in Timestamp
          /\ DOMAIN payment' = DOMAIN payment
          /\ payment'[o].status = StatusAfter(kind)
          /\ \A p \in DOMAIN payment \ {o} : payment'[p].status = payment[p].status
    BY CommitEffect
  <1>2. PICK new \in Event \ DOMAIN outbox :
          /\ DOMAIN outbox' = DOMAIN outbox \cup {new}
          /\ outbox'[new].aggregateId = o
          /\ outbox'[new].eventType = EventTypeOf(kind)
          /\ outbox'[new].createdAt = handler[h].createdAt
          /\ \A x \in DOMAIN outbox : outbox'[x] = outbox[x]
    BY <1>1, CommitEffect
  <1>3. \A e \in EventsOf(o) : outbox[e].createdAt < outbox'[new].createdAt
    BY <1>1, <1>2 DEF Commit, LockInv
  <1>4. EventsOf(o)' = EventsOf(o) \cup {new} /\ \A p : p # o => EventsOf(p)' = EventsOf(p)
    BY <1>2 DEF EventsOf
  <1>5. QED
    BY <1>1, <1>2, <1>3, <1>4

\* The event of a commit is the newest of its payment and names its status.
LEMMA CommitNewest ==
    ASSUME TypeOK, LockInv, NewestEventNamesStatus, NEW h \in Handler, Commit(h)
    PROVE  NewestEventNamesStatus'
  <1>1. PICK o \in DOMAIN payment, kind \in Settlements, new \in Event \ DOMAIN outbox :
          /\ DOMAIN payment' = DOMAIN payment
          /\ payment'[o].status = StatusAfter(kind)
          /\ \A p \in DOMAIN payment \ {o} : payment'[p].status = payment[p].status
          /\ DOMAIN outbox' = DOMAIN outbox \cup {new}
          /\ outbox'[new].eventType = EventTypeOf(kind)
          /\ outbox'[new].createdAt \in Timestamp
          /\ \A x \in DOMAIN outbox : outbox'[x] = outbox[x]
          /\ EventsOf(o)' = EventsOf(o) \cup {new}
          /\ \A p : p # o => EventsOf(p)' = EventsOf(p)
          /\ \A e \in EventsOf(o) : outbox[e].createdAt < outbox'[new].createdAt
    BY CommitEvents
  <1>2. \A e \in DOMAIN outbox : outbox[e].createdAt \in Nat
    BY TimestampAssumption DEF TypeOK, IsTable, Row
  <1>3. outbox'[new].createdAt \in Nat
    BY <1>1, TimestampAssumption
  <1>4. \A p : EventsOf(p) \subseteq DOMAIN outbox
    BY DEF EventsOf
  <1>5. ASSUME NEW e \in EventsOf(o)',
               \A f \in EventsOf(o)' : outbox'[f].createdAt <= outbox'[e].createdAt
        PROVE  payment'[o].status = AnnouncedStatus(outbox'[e].eventType)
    <2>1. new \in EventsOf(o)'
      BY <1>1
    <2>2. outbox'[new].createdAt <= outbox'[e].createdAt
      BY <1>5, <2>1
    <2>3. e \in EventsOf(o) => outbox'[e].createdAt < outbox'[new].createdAt
      BY <1>1, <1>4
    <2>4. e = new
      BY <1>1, <1>2, <1>3, <1>4, <2>2, <2>3
    <2>5. QED
      BY <1>1, <2>4, SettlementAnnounced
  <1>6. ASSUME NEW p \in DOMAIN payment, p # o
        PROVE  /\ EventsOf(p)' = {} => payment'[p].status = "PENDING"
               /\ \A e \in EventsOf(p)' :
                    (\A f \in EventsOf(p)' : outbox'[f].createdAt <= outbox'[e].createdAt)
                        => payment'[p].status = AnnouncedStatus(outbox'[e].eventType)
    <2>1. /\ EventsOf(p)' = EventsOf(p)
          /\ payment'[p].status = payment[p].status
          /\ \A e \in EventsOf(p) : outbox'[e] = outbox[e]
      BY <1>1, <1>4, <1>6
    <2>2. QED
      BY <2>1 DEF NewestEventNamesStatus
  <1>7. EventsOf(o)' # {}
    BY <1>1
  <1>8. QED
    BY <1>1, <1>5, <1>6, <1>7 DEF NewestEventNamesStatus

LEMMA NewestStep == TypeOK /\ LockInv /\ NewestEventNamesStatus /\ [Next]_vars => NewestEventNamesStatus'
  <1> SUFFICES ASSUME TypeOK, LockInv, NewestEventNamesStatus, [Next]_vars
               PROVE  NewestEventNamesStatus'
    OBVIOUS
  <1>1. ASSUME outbox' = outbox,
               DOMAIN payment \subseteq DOMAIN payment',
               \A o \in DOMAIN payment : payment'[o] = payment[o],
               \A o \in DOMAIN payment' \ DOMAIN payment : payment'[o].status = "PENDING"
        PROVE  NewestEventNamesStatus'
    <2>1. \A o : EventsOf(o)' = EventsOf(o)
      BY <1>1 DEF EventsOf
    <2>2. \A o \in DOMAIN payment' \ DOMAIN payment : EventsOf(o) = {}
      BY DEF EventsOf, LockInv
    <2>3. QED
      BY <1>1, <2>1, <2>2 DEF NewestEventNamesStatus
  <1>2. CASE \E c \in Call : CallStep(c)
    BY <1>1, <1>2, CallStepRows
  <1>3. CASE \E h \in Handler : HandlerStep(h)
    <2>1. PICK h \in Handler : HandlerStep(h)
      BY <1>3
    <2>2. CASE Commit(h)
      BY <2>2, CommitNewest
    <2>3. CASE ~Commit(h)
      <3>1. UNCHANGED <<payment, outbox>>
        BY <2>1, <2>3 DEF HandlerStep, HandlerProgress, HandleCallback, CancelPayment,
              PaymentFound, PaymentNotFound, UpdatePayment, UpdateFails, SaveOutboxEvent, HandlerFails
      <3>2. QED
        BY <1>1, <3>1
    <2>4. QED
      BY <2>2, <2>3
  <1>4. CASE \/ \E key \in Key, order \in OrderCode : ReturnCachedPayment(key, order)
             \/ \E t \in Txn : Pay(t)
             \/ Crash \/ Midnight \/ UNCHANGED vars
    <2>1. UNCHANGED <<payment, outbox>>
      BY <1>4 DEF ReturnCachedPayment, Pay, Crash, Midnight, vars
    <2>2. QED
      BY <1>1, <2>1
  <1>5. QED
    BY <1>2, <1>3, <1>4 DEF Next

\* Handlers of one payment never commit their statuses in one order and date
\* their events in the other.
THEOREM AnnouncementsInOrder == Spec => []NewestEventNamesStatus
  BY LockInvariant, NewestInit, NewestStep, PTL DEF Spec

LEMMA LedgerInitially == Init => Ledger!LedgerInit
  BY DEF Init, Ledger!LedgerInit, EventsOf

\* The announcements a commit adds to, in the ledger's terms.
LEMMA CommitSettles ==
    ASSUME TypeOK, LockInv, NEW h \in Handler, Commit(h)
    PROVE  Ledger!LedgerNext
  <1>1. PICK o \in DOMAIN payment, kind \in Settlements, new \in Event \ DOMAIN outbox :
          /\ DOMAIN payment' = DOMAIN payment
          /\ payment'[o].status = StatusAfter(kind)
          /\ \A p \in DOMAIN payment \ {o} : payment'[p].status = payment[p].status
          /\ DOMAIN outbox' = DOMAIN outbox \cup {new}
          /\ outbox'[new].eventType = EventTypeOf(kind)
          /\ outbox'[new].createdAt \in Timestamp
          /\ \A x \in DOMAIN outbox : outbox'[x] = outbox[x]
          /\ EventsOf(o)' = EventsOf(o) \cup {new}
          /\ \A p : p # o => EventsOf(p)' = EventsOf(p)
          /\ \A e \in EventsOf(o) : outbox[e].createdAt < outbox'[new].createdAt
    BY CommitEvents
  <1>. DEFINE status == [p \in OrderCode |-> IF p \in DOMAIN payment THEN payment[p].status ELSE "NONE"]
              Announcements(p) ==
                { [ at     |-> outbox[e].createdAt,
                    status |-> AnnouncedStatus(outbox[e].eventType) ] : e \in EventsOf(p) }
              announced == [p \in OrderCode |-> Announcements(p)]
  <1>2. PICK time \in Timestamp, newStatus \in Ledger!FinalStatus :
          time = outbox'[new].createdAt /\ newStatus = StatusAfter(kind)
    BY <1>1, SettlementAnnounced DEF Ledger!FinalStatus, PaymentStatus
  <1>3. /\ o \in OrderCode
        /\ DOMAIN payment \subseteq OrderCode
        /\ payment \in [DOMAIN payment -> PaymentRow]
    BY DEF TypeOK
  <1>4. \A p : EventsOf(p) \subseteq DOMAIN outbox
    BY DEF EventsOf
  <1>5. status[o] # "NONE"
    BY <1>3 DEF PaymentRow, PaymentStatus
  <1>6. \A a \in announced[o] : a.at < time
    BY <1>1, <1>2, <1>3
  <1>7. status' = [status EXCEPT ![o] = newStatus]
    BY <1>1, <1>2, <1>3
  <1>8. Announcements(o)' = Announcements(o) \cup {[at |-> time, status |-> newStatus]}
    BY <1>1, <1>2, <1>4, SettlementAnnounced
  <1>9. \A p : p # o => Announcements(p)' = Announcements(p)
    BY <1>1, <1>4
  <1>10. announced' =
           [announced EXCEPT ![o] = announced[o] \cup {[at |-> time, status |-> newStatus]}]
    BY <1>3, <1>8, <1>9
  <1>11. Ledger!Settle(o, newStatus, time)
    BY <1>5, <1>6, <1>7, <1>10 DEF Ledger!Settle
  <1>12. QED
    BY <1>2, <1>3, <1>11 DEF Ledger!LedgerNext

\* A new row opens a payment, which has no announcement yet.
LEMMA CallStepOpens ==
    ASSUME TypeOK, NEW c \in Call, CallStep(c)
    PROVE  [Ledger!LedgerNext]_(Ledger!ledgerVars)
  <1>1. outbox' = outbox
    BY CallStepRows
  <1>2. CASE payment' = payment
    BY <1>1, <1>2 DEF Ledger!ledgerVars, EventsOf
  <1>3. CASE payment' # payment
    <2>1. PICK o \in OrderCode \ DOMAIN payment :
            /\ DOMAIN payment' = DOMAIN payment \cup {o}
            /\ payment'[o].status = "PENDING"
            /\ \A p \in DOMAIN payment : payment'[p] = payment[p]
      BY <1>3, CallStepRows
    <2>2. Ledger!Open(o)
      BY <1>1, <2>1 DEF Ledger!Open, EventsOf
    <2>3. QED
      BY <2>1, <2>2 DEF Ledger!LedgerNext
  <1>4. QED
    BY <1>2, <1>3

LEMMA LedgerStep == TypeOK /\ LockInv /\ [Next]_vars => [Ledger!LedgerNext]_(Ledger!ledgerVars)
  <1> SUFFICES ASSUME TypeOK, LockInv, [Next]_vars
               PROVE  [Ledger!LedgerNext]_(Ledger!ledgerVars)
    OBVIOUS
  <1>1. ASSUME UNCHANGED <<payment, outbox>>
        PROVE  UNCHANGED Ledger!ledgerVars
    BY <1>1 DEF Ledger!ledgerVars, EventsOf
  <1>2. CASE \E h \in Handler : HandlerStep(h)
    <2>1. PICK h \in Handler : HandlerStep(h)
      BY <1>2
    <2>2. CASE Commit(h)
      BY <2>2, CommitSettles
    <2>3. CASE ~Commit(h)
      BY <1>1, <2>1, <2>3 DEF HandlerStep, HandlerProgress, HandleCallback, CancelPayment,
            PaymentFound, PaymentNotFound, UpdatePayment, UpdateFails, SaveOutboxEvent, HandlerFails
    <2>4. QED
      BY <2>2, <2>3
  <1>3. CASE \/ \E key \in Key, order \in OrderCode : ReturnCachedPayment(key, order)
             \/ \E t \in Txn : Pay(t)
             \/ Crash \/ Midnight \/ UNCHANGED vars
    BY <1>1, <1>3 DEF ReturnCachedPayment, Pay, Crash, Midnight, vars
  <1>4. QED
    BY <1>2, <1>3, CallStepOpens DEF Next

\* The two tables implement the ledger: a status and its announcement change in
\* one step, in the order of the announcements' dates.
THEOREM LedgerRefinement == Spec => ImplementsLedger
  BY LockInvariant, LedgerInitially, LedgerStep, PTL
     DEF Spec, ImplementsLedger, Ledger!LedgerSpec

-----------------------------------------------------------------------------
(* Steps of the service, for those who compose it with a publisher         *)

\* A settled payment has an event that names its status and is its newest.
SettledAnnounced ==
    \A o \in DOMAIN payment : payment[o].status # "PENDING" =>
        \E e \in EventsOf(o) :
            /\ AnnouncedStatus(outbox[e].eventType) = payment[o].status
            /\ \A f \in EventsOf(o) : outbox[f].createdAt <= outbox[e].createdAt

\* Every step but a commit leaves the events alone, and adds no payment but a
\* pending one.
LEMMA StepRows ==
    ASSUME TypeOK, [Next]_vars, ~\E h \in Handler : Commit(h)
    PROVE  /\ outbox' = outbox
           /\ DOMAIN payment \subseteq DOMAIN payment'
           /\ \A o \in DOMAIN payment : payment'[o] = payment[o]
           /\ \A o \in DOMAIN payment' \ DOMAIN payment : payment'[o].status = "PENDING"
  <1>1. CASE \E c \in Call : CallStep(c)
    BY <1>1, CallStepRows
  <1>2. CASE ~\E c \in Call : CallStep(c)
    <2>1. UNCHANGED <<payment, outbox>>
      BY <1>2 DEF Next, vars, HandlerStep, HandlerProgress, HandleCallback, CancelPayment,
            PaymentFound, PaymentNotFound, UpdatePayment, UpdateFails, SaveOutboxEvent,
            HandlerFails, ReturnCachedPayment, Pay, Crash, Midnight
    <2>2. QED
      BY <2>1
  <1>3. QED
    BY <1>1, <1>2

\* A step that changes the payments but no event adds one pending payment.
LEMMA StepOpens ==
    ASSUME TypeOK, LockInv, [Next]_vars, outbox' = outbox, payment' # payment
    PROVE  \E o \in OrderCode \ DOMAIN payment :
             /\ DOMAIN payment' = DOMAIN payment \cup {o}
             /\ payment'[o].status = "PENDING"
             /\ \A p \in DOMAIN payment : payment'[p] = payment[p]
  <1>1. ASSUME NEW h \in Handler, Commit(h)
        PROVE  FALSE
    <2>1. \E new \in Event \ DOMAIN outbox : DOMAIN outbox' = DOMAIN outbox \cup {new}
      BY <1>1, CommitEvents
    <2>2. QED
      BY <2>1
  <1>2. \E c \in Call : CallStep(c)
    BY <1>1 DEF Next, vars, HandlerStep, HandlerProgress, HandleCallback, CancelPayment,
            PaymentFound, PaymentNotFound, UpdatePayment, UpdateFails, SaveOutboxEvent,
            HandlerFails, ReturnCachedPayment, Pay, Crash, Midnight
  <1>3. QED
    BY <1>2, CallStepRows

LEMMA SettledStep == TypeOK /\ LockInv /\ SettledAnnounced /\ [Next]_vars => SettledAnnounced'
  <1> SUFFICES ASSUME TypeOK, LockInv, SettledAnnounced, [Next]_vars
               PROVE  SettledAnnounced'
    OBVIOUS
  <1>1. ASSUME NEW h \in Handler, Commit(h)
        PROVE  SettledAnnounced'
    <2>1. PICK o \in DOMAIN payment, kind \in Settlements, new \in Event \ DOMAIN outbox :
            /\ DOMAIN payment' = DOMAIN payment
            /\ payment'[o].status = StatusAfter(kind)
            /\ \A p \in DOMAIN payment \ {o} : payment'[p].status = payment[p].status
            /\ outbox'[new].eventType = EventTypeOf(kind)
            /\ outbox'[new].createdAt \in Timestamp
            /\ \A x \in DOMAIN outbox : outbox'[x] = outbox[x]
            /\ EventsOf(o)' = EventsOf(o) \cup {new}
            /\ \A p : p # o => EventsOf(p)' = EventsOf(p)
            /\ \A e \in EventsOf(o) : outbox[e].createdAt < outbox'[new].createdAt
      BY <1>1, CommitEvents
    <2>2. \A p : EventsOf(p) \subseteq DOMAIN outbox
      BY DEF EventsOf
    <2>3. \A e \in DOMAIN outbox : outbox[e].createdAt \in Nat
      BY TimestampAssumption DEF TypeOK, IsTable, Row
    <2>4. outbox'[new].createdAt \in Nat
      BY <2>1, TimestampAssumption
    <2>5. AnnouncedStatus(outbox'[new].eventType) = payment'[o].status
      BY <2>1, SettlementAnnounced
    <2>6. \A f \in EventsOf(o)' : outbox'[f].createdAt <= outbox'[new].createdAt
      BY <2>1, <2>2, <2>3, <2>4
    <2>7. ASSUME NEW p \in DOMAIN payment, p # o, payment'[p].status # "PENDING"
          PROVE  \E e \in EventsOf(p)' :
                   /\ AnnouncedStatus(outbox'[e].eventType) = payment'[p].status
                   /\ \A f \in EventsOf(p)' : outbox'[f].createdAt <= outbox'[e].createdAt
      <3>1. payment'[p].status = payment[p].status /\ EventsOf(p)' = EventsOf(p)
        BY <2>1, <2>7
      <3>2. \A f \in EventsOf(p) : outbox'[f] = outbox[f]
        BY <2>1, <2>2
      <3>3. QED
        BY <2>7, <3>1, <3>2 DEF SettledAnnounced
    <2>8. new \in EventsOf(o)'
      BY <2>1
    <2>9. QED
      BY <2>1, <2>5, <2>6, <2>7, <2>8 DEF SettledAnnounced
  <1>2. CASE ~\E h \in Handler : Commit(h)
    <2>1. /\ outbox' = outbox
          /\ \A o \in DOMAIN payment : payment'[o] = payment[o]
          /\ \A o \in DOMAIN payment' \ DOMAIN payment : payment'[o].status = "PENDING"
      BY <1>2, StepRows
    <2>2. \A o : EventsOf(o)' = EventsOf(o)
      BY <2>1 DEF EventsOf
    <2>3. QED
      BY <2>1, <2>2 DEF SettledAnnounced
  <1>3. QED
    BY <1>1, <1>2

\* What became of a payment can be read off its newest event, from the moment it
\* is settled.
THEOREM SettlementsAnnounced == Spec => []SettledAnnounced
  <1>1. Init => SettledAnnounced
    BY DEF Init, SettledAnnounced
  <1>2. QED
    BY <1>1, LockInvariant, SettledStep, PTL DEF Spec

LEMMA TxnStep == TypeOK /\ LockInv /\ LinkInv /\ TxnInv /\ [Next]_vars => TxnInv'
  <1> SUFFICES ASSUME TypeOK, LockInv, LinkInv, TxnInv, [Next]_vars PROVE TxnInv'
    OBVIOUS
  <1>1. CASE \E c \in Call : CallStep(c)
    <2>1. PICK c \in Call : CallStep(c)
      BY <1>1
    <2>2. CASE payment' = payment
      BY <2>1, <2>2, CallStepRows DEF TxnInv
    <2>3. CASE payment' # payment
      <3>1. PICK new \in OrderCode \ DOMAIN payment :
              /\ DOMAIN payment' = DOMAIN payment \cup {new}
              /\ \A p \in DOMAIN payment :
                   /\ payment'[p] = payment[p]
                   /\ payment[p].providerTransactionId # payment'[new].providerTransactionId
        BY <2>1, <2>3, CallStepRows
      <3>2. paid' = paid
        BY <2>1, CallStepRows
      <3>3. QED
        BY <3>1, <3>2 DEF TxnInv
    <2>4. QED
      BY <2>2, <2>3
  <1>2. CASE \E t \in Txn : Pay(t)
    BY <1>2 DEF Pay, KnownLinks, LinkInv, TxnInv
  <1>3. CASE \E h \in Handler : HandlerStep(h)
    BY <1>3, HandlerStepRows DEF TxnInv
  <1>4. CASE \/ \E key \in Key, order \in OrderCode : ReturnCachedPayment(key, order)
             \/ Crash \/ Midnight \/ UNCHANGED vars
    BY <1>4 DEF ReturnCachedPayment, Crash, Midnight, vars, TxnInv
  <1>5. QED
    BY <1>1, <1>2, <1>3, <1>4 DEF Next

LEMMA TxnInvariant == Spec => []TxnInv
  <1>1. Init => TxnInv
    BY DEF Init, TxnInv
  <1>2. QED
    BY <1>1, TxnStep, LockInvariant, LinkInvariant, PTL DEF Spec

\* The callback of whoever paid finds the row of his payment, whatever calls,
\* crashes and midnights came between the link and the callback.
THEOREM PaidCallbacksFindRows == Spec => []CallbackFindsRow
  <1>1. PaidInv /\ TxnInv => CallbackFindsRow
    BY DEF PaidInv, TxnInv, CallbackFindsRow, Idle
  <1>2. QED
    BY <1>1, PaidInvariant, TxnInvariant, PTL

\* What the steps of the service do to the orders that were paid: a payment of
\* one order, or a new row that nobody paid, or nothing.
LEMMA PaidOrderStep ==
    ASSUME TypeOK, TypeOK', LockInv, LinkInv, TxnInv, [Next]_vars
    PROVE  LET paidOrders == {o \in DOMAIN payment : payment[o].providerTransactionId \in paid}
           IN  \/ paidOrders' = paidOrders
               \/ \E o \in DOMAIN payment :
                    /\ paidOrders' = paidOrders \cup {o}
                    /\ UNCHANGED <<payment, outbox>>
  <1> DEFINE paidOrders == {o \in DOMAIN payment : payment[o].providerTransactionId \in paid}
  <1>1. ASSUME NEW c \in Call, CallStep(c)
        PROVE  paidOrders' = paidOrders
    <2>1. paid' = paid
      BY <1>1, CallStepRows
    <2>2. CASE payment' = payment
      BY <2>1, <2>2
    <2>3. CASE payment' # payment
      <3>1. PICK new \in OrderCode \ DOMAIN payment :
              /\ DOMAIN payment' = DOMAIN payment \cup {new}
              /\ \A p \in DOMAIN payment :
                   /\ payment'[p] = payment[p]
                   /\ payment[p].providerTransactionId # payment'[new].providerTransactionId
        BY <1>1, <2>3, CallStepRows
      <3>2. payment'[new].providerTransactionId \notin paid
        BY <3>1 DEF TxnInv
      <3>3. QED
        BY <2>1, <3>1, <3>2
    <2>4. QED
      BY <2>2, <2>3
  <1>2. ASSUME NEW t \in Txn, Pay(t)
        PROVE  \E o \in DOMAIN payment :
                 paidOrders' = paidOrders \cup {o} /\ UNCHANGED <<payment, outbox>>
    <2>1. PICK o \in DOMAIN payment : payment[o].providerTransactionId = t
      BY <1>2 DEF Pay, KnownLinks, LinkInv
    <2>2. \A p \in DOMAIN payment : payment[p].providerTransactionId = t => p = o
      BY <2>1 DEF TxnInv
    <2>3. paid' = paid \cup {t} /\ UNCHANGED <<payment, outbox>>
      BY <1>2 DEF Pay
    <2>4. QED
      BY <2>1, <2>2, <2>3
  <1>3. ASSUME NEW h \in Handler, HandlerStep(h)
        PROVE  paidOrders' = paidOrders
    BY <1>3, HandlerStepRows
  <1>4. CASE \/ \E key \in Key, order \in OrderCode : ReturnCachedPayment(key, order)
             \/ Crash \/ Midnight \/ UNCHANGED vars
    BY <1>4 DEF ReturnCachedPayment, Crash, Midnight, vars
  <1>5. QED
    BY <1>1, <1>2, <1>3, <1>4 DEF Next

=============================================================================
