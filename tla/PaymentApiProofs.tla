-------------------------- MODULE PaymentApiProofs --------------------------
(***************************************************************************)
(* What holds of PaymentApi for any sets of clients' requests, calls and   *)
(* handlers: it implements Payments, and the amount a payment is recorded  *)
(* with is the one its link charges.                                       *)
(***************************************************************************)
EXTENDS PaymentApi, PaymentsProofs

\* A call in progress has an amount, and if it has its link, the link charges it.
AmountInv ==
    /\ ApiTypeOK
    /\ RecordedAmountIsCharged
    /\ \A c \in Call : call[c] # Idle => asked[c] \in Amount
    /\ \A c \in Call : call[c].at = "insert" =>
         /\ call[c].txn \in links
         /\ charge[call[c].txn] = asked[c]

\* A step of the surface is a step of Payments or leaves its variables alone.
LEMMA ApiStep ==
    ASSUME [ApiNext]_apiVars
    PROVE  [Next]_vars
  <1>1. CASE UNCHANGED apiVars
    BY <1>1 DEF apiVars
  <1>2. ASSUME NEW c \in Call, ApiCallStep(c)
        PROVE  CallStep(c)
    <2>1. CASE \E r \in Request : CreateIntent(c, r)
      BY <2>1 DEF CreateIntent, Request, CallStep
    <2>2. CASE LinkCreatedFor(c) \/ LinkRefusedFor(c) \/ InsertPaymentFor(c) \/ InsertFailsFor(c)
      BY <2>2 DEF LinkCreatedFor, LinkRefusedFor, InsertPaymentFor, InsertFailsFor, CallStep
    <2>3. QED
      BY <1>2, <2>1, <2>2 DEF ApiCallStep
  <1>3. CASE \E r \in Request : CreateIntentAgain(r)
    BY <1>3 DEF CreateIntentAgain, Request, Next
  <1>4. CASE \E key \in Key : GetPaymentUrl(key)
    BY <1>4 DEF GetPaymentUrl
  <1>5. CASE OtherStep
    BY <1>5 DEF OtherStep, Next
  <1>6. QED
    BY <1>1, <1>2, <1>3, <1>4, <1>5 DEF ApiNext, Next

\* The surface does nothing that Payments does not: what holds of Payments holds
\* of the service with its requests, whatever they ask for.
THEOREM ImplementsPayments == ApiSpec => Spec
  <1>1. ApiInit => Init
    BY DEF ApiInit
  <1>2. [ApiNext]_apiVars => [Next]_vars
    BY ApiStep
  <1>3. QED
    BY <1>1, <1>2, PTL DEF ApiSpec, Spec

-----------------------------------------------------------------------------
(* Amounts                                                                 *)

LEMMA AmountInit == ApiInit => AmountInv
  BY DEF ApiInit, Init, AmountInv, ApiTypeOK, RecordedAmountIsCharged, Idle, QueryResult

\* A step that leaves links, rows and amounts alone, and puts no call at its
\* insert, disturbs nothing.
LEMMA AmountUntouched ==
    ASSUME TypeOK, AmountInv,
           UNCHANGED <<links, amountVars>>, reply' \in QueryResult,
           DOMAIN payment' = DOMAIN payment,
           \A o \in DOMAIN payment :
               payment'[o].providerTransactionId = payment[o].providerTransactionId,
           \A c \in Call : call'[c] \in {call[c], Idle}
    PROVE  AmountInv'
  BY DEF AmountInv, ApiTypeOK, RecordedAmountIsCharged, amountVars, Idle

\* A step of a handler settles a payment or rejects; the links stay.
LEMMA HandlerKeepsLinks ==
    ASSUME TypeOK, NEW h \in Handler, HandlerStep(h)
    PROVE  /\ links' = links
           /\ DOMAIN payment' = DOMAIN payment
           /\ \A o \in DOMAIN payment :
                payment'[o].providerTransactionId = payment[o].providerTransactionId
           /\ \A c \in Call : call'[c] \in {call[c], Idle}
  <1>1. CASE Commit(h)
    BY <1>1 DEF Commit, TypeOK, PaymentRow
  <1>2. CASE PaymentNotFound(h) \/ UpdateFails(h) \/ HandlerFails(h)
    BY <1>2 DEF PaymentNotFound, UpdateFails, HandlerFails, Rejects, ProcessDies, Idle
  <1>3. CASE \/ \E t \in Txn, kind \in Settlements : HandleCallback(h, t, kind)
             \/ \E order \in OrderCode : CancelPayment(h, order)
             \/ PaymentFound(h) \/ UpdatePayment(h) \/ SaveOutboxEvent(h)
    BY <1>3 DEF HandleCallback, CancelPayment, PaymentFound, UpdatePayment, SaveOutboxEvent
  <1>4. QED
    BY <1>1, <1>2, <1>3 DEF HandlerStep, HandlerProgress

\* The row a call inserts has the amount that its link charges.
LEMMA InsertKeepsAmounts ==
    ASSUME TypeOK, AmountInv, NEW c \in Call,
           InsertPaymentFor(c) \/ InsertFailsFor(c)
    PROVE  AmountInv'
  <1>1. call[c] \in CallState /\ call[c].at = "insert"
    BY DEF InsertPaymentFor, InsertPayment, InsertFailsFor, InsertFails, TypeOK
  <1>2. asked[c] \in Amount /\ call[c].txn \in links /\ charge[call[c].txn] = asked[c]
    BY <1>1 DEF AmountInv, ApiTypeOK
  <1>3. UNCHANGED <<asked, charge, links, reply>>
    BY DEF InsertPaymentFor, InsertPayment, InsertFailsFor, InsertFails
  <1>4. call' = [call EXCEPT ![c] = Idle]
    BY DEF InsertPaymentFor, InsertPayment, InsertFailsFor, InsertFails
  <1>5. \A d \in Call : call'[d] \in {call[d], Idle}
    BY <1>4 DEF TypeOK, Idle
  <1>6. CASE UNCHANGED payment
    <2>1. amountCents' = amountCents
      BY <1>6 DEF InsertPaymentFor, InsertFailsFor, StoreAmount, AmountInv, ApiTypeOK
    <2>2. QED
      BY <1>3, <1>5, <1>6, <2>1, AmountUntouched DEF amountVars, AmountInv, ApiTypeOK
  <1>7. CASE /\ Fits(asked[c])
             /\ ~UniqueViolation(call[c].key, call[c].order, call[c].txn)
             /\ InsertRow(call[c].key, call[c].order, call[c].txn)
    <2>1. call[c].order \notin DOMAIN payment
      BY <1>7 DEF UniqueViolation
    <2>2. /\ DOMAIN payment' = DOMAIN payment \cup {call[c].order}
          /\ payment'[call[c].order].providerTransactionId = call[c].txn
          /\ \A o \in DOMAIN payment : payment'[o] = payment[o]
      BY <1>7, <2>1 DEF InsertRow
    <2>3. /\ amountCents' \in [DOMAIN payment' -> Amount \cap Column]
          /\ amountCents'[call[c].order] = asked[c]
          /\ \A o \in DOMAIN payment : amountCents'[o] = amountCents[o]
      BY <1>2, <1>7, <2>1, <2>2
         DEF InsertPaymentFor, InsertFailsFor, StoreAmount, Fits, AmountInv, ApiTypeOK
    <2>4. ApiTypeOK'
      BY <1>2, <1>3, <2>3 DEF AmountInv, ApiTypeOK
    <2>5. RecordedAmountIsCharged'
      BY <1>2, <1>3, <2>2, <2>3 DEF AmountInv, RecordedAmountIsCharged
    <2>6. QED
      BY <1>3, <1>5, <2>4, <2>5 DEF AmountInv, Idle
  <1>8. QED
    BY <1>6, <1>7 DEF InsertPaymentFor, InsertPayment, InsertFailsFor, InsertFails

\* A new link charges what its call asked for, and no link changes its charge.
LEMMA LinkKeepsAmounts ==
    ASSUME TypeOK, AmountInv, NEW c \in Call,
           LinkCreatedFor(c) \/ LinkRefusedFor(c)
    PROVE  AmountInv'
  <1>1. call[c].at = "createPaymentLink" /\ asked[c] \in Amount
    BY DEF LinkCreatedFor, LinkCreated, LinkRefusedFor, LinkRefused, AmountInv, Idle
  <1>2. UNCHANGED <<asked, amountCents, reply, payment>>
    BY DEF LinkCreatedFor, LinkCreated, LinkRefusedFor, LinkRefused
  <1>3. /\ links \subseteq links' /\ links' \subseteq links \cup {call[c].txn}
        /\ charge' \in [links' -> Amount]
        /\ \A t \in links : charge'[t] = charge[t]
    <2>1. CASE LinkCreatedFor(c)
      BY <1>1, <2>1 DEF LinkCreatedFor, LinkCreated, AmountInv, ApiTypeOK
    <2>2. CASE LinkRefusedFor(c)
      BY <1>1, <2>2 DEF LinkRefusedFor, LinkRefused, AmountInv, ApiTypeOK
    <2>3. QED
      BY <2>1, <2>2
  <1>4. ApiTypeOK' /\ RecordedAmountIsCharged'
    BY <1>2, <1>3 DEF AmountInv, ApiTypeOK, RecordedAmountIsCharged
  <1>5. \A d \in Call \ {c} : call'[d] = call[d]
    BY DEF LinkCreatedFor, LinkCreated, LinkRefusedFor, LinkRefused, TypeOK
  <1>6. call'[c] = Idle \/ /\ call'[c].txn \in links'
                           /\ charge'[call'[c].txn] = asked'[c]
    <2>1. CASE LinkCreatedFor(c)
      <3>1. call'[c] = [call[c] EXCEPT !.at = "insert"]
        BY <2>1 DEF LinkCreatedFor, LinkCreated, TypeOK
      <3>2. call'[c].txn = call[c].txn
        BY <1>1, <3>1 DEF TypeOK, CallState
      <3>3. QED
        BY <1>2, <2>1, <3>2 DEF LinkCreatedFor, LinkCreated
    <2>2. CASE LinkRefusedFor(c)
      BY <2>2 DEF LinkRefusedFor, LinkRefused, TypeOK
    <2>3. QED
      BY <2>1, <2>2
  <1>7. QED
    BY <1>1, <1>2, <1>3, <1>4, <1>5, <1>6 DEF AmountInv, Idle

LEMMA AmountStep ==
    ASSUME TypeOK, AmountInv, [ApiNext]_apiVars
    PROVE  AmountInv'
  <1>1. CASE UNCHANGED apiVars
    BY <1>1, AmountUntouched DEF apiVars, vars, amountVars, AmountInv, ApiTypeOK
  <1>2. ASSUME NEW c \in Call, NEW r \in Request, CreateIntent(c, r)
        PROVE  AmountInv'
    <2>1. /\ UNCHANGED <<payment, links, charge, amountCents, reply>>
          /\ asked' = [asked EXCEPT ![c] = r.amountCents]
          /\ \A d \in Call \ {c} : call'[d] = call[d]
          /\ call'[c].at = "createPaymentLink"
          /\ call[c] = Idle
      BY <1>2 DEF CreateIntent, RequestPaymentLink, TypeOK
    <2>2. r.amountCents \in Amount
      BY DEF Request
    <2>3. ApiTypeOK' /\ RecordedAmountIsCharged'
      BY <2>1, <2>2 DEF AmountInv, ApiTypeOK, RecordedAmountIsCharged
    <2>4. asked'[c] \in Amount /\ \A d \in Call \ {c} : asked'[d] = asked[d]
      BY <2>1, <2>2 DEF AmountInv, ApiTypeOK
    <2>5. QED
      BY <2>1, <2>3, <2>4 DEF AmountInv, Idle
  <1>3. ASSUME NEW r \in Request, CreateIntentAgain(r)
        PROVE  AmountInv'
    BY <1>3, AmountUntouched DEF CreateIntentAgain, ReturnCachedPayment, amountVars, AmountInv, ApiTypeOK
  <1>4. ASSUME NEW key \in Key, GetPaymentUrl(key)
        PROVE  AmountInv'
    <2>1. reply' \in QueryResult
      BY <1>4 DEF GetPaymentUrl, QueryAnswer, QueryResult
    <2>2. QED
      BY <1>4, <2>1, AmountUntouched DEF GetPaymentUrl, vars, amountVars
  <1>5. CASE OtherStep
    <2>1. reply' \in QueryResult /\ UNCHANGED amountVars
      BY <1>5 DEF OtherStep, AmountInv, ApiTypeOK
    <2>2. CASE (\E t \in Txn : Pay(t)) \/ Crash \/ Midnight
      BY <2>1, <2>2, AmountUntouched DEF Pay, Crash, Midnight, ProcessDies, amountVars
    <2>3. ASSUME NEW h \in Handler, HandlerStep(h)
          PROVE  AmountInv'
      BY <2>1, <2>3, HandlerKeepsLinks, AmountUntouched DEF amountVars
    <2>4. QED
      BY <1>5, <2>2, <2>3 DEF OtherStep
  <1>6. QED
    BY <1>1, <1>2, <1>3, <1>4, <1>5, LinkKeepsAmounts, InsertKeepsAmounts DEF ApiNext, ApiCallStep

LEMMA AmountInvariant == ApiSpec => []AmountInv
  <1>1. ApiSpec => []TypeOK
    BY ImplementsPayments, TypeCorrect, PTL
  <1>2. QED
    BY <1>1, AmountInit, AmountStep, PTL DEF ApiSpec

\* The variables of the API keep their types.
THEOREM ApiTypeCorrect == ApiSpec => []ApiTypeOK
  <1>1. AmountInv => ApiTypeOK
    BY DEF AmountInv
  <1>2. QED
    BY <1>1, AmountInvariant, PTL

\* A payment is recorded with the amount its link charges.
THEOREM AmountsAgree == ApiSpec => []RecordedAmountIsCharged
  <1>1. AmountInv => RecordedAmountIsCharged
    BY DEF AmountInv
  <1>2. QED
    BY <1>1, AmountInvariant, PTL

=============================================================================
