----------------------------- MODULE PaymentApi -----------------------------
(***************************************************************************)
(* The gRPC surface of the service over Payments: what the validation pipe *)
(* and the mappers make of a request, the amount a payment is for on its   *)
(* way from the request to ZaloPay and to the table, and the query         *)
(* getPaymentUrlByIdempotencyKey.                                          *)
(*                                                                         *)
(* Payments leaves amounts out.  Here each call carries one, and so do     *)
(* ZaloPay's links and the rows.  Nothing in the code compares the amount  *)
(* a callback reports with the row's.                                      *)
(*                                                                         *)
(* A request that is refused changes nothing and is no step of the model.  *)
(***************************************************************************)
EXTENDS Payments, Integers

CONSTANTS
    Amount,   \* the amounts requests name; no validator wants them positive
    MaxInt    \* the largest amount the column amountCents can hold

ASSUME AmountAssumption == Amount \subseteq Int /\ MaxInt \in Nat

\* The integers of the column, in two's complement.
Column == (-MaxInt - 1)..MaxInt

VARIABLES
    asked,         \* the amount of each createPaymentIntent in progress
    charge,        \* what the payer of each link is charged
    amountCents,   \* the column of the payments table, by order code
    reply          \* the last answer of the query

amountVars == <<asked, charge, amountCents>>

apiVars == <<vars, amountVars, reply>>

ProtoProvider == {"UNKNOWN", "ZALOPAY", "PAYOS", "VNPAY"}

\* "wellFormed" sums up the validators of the strings and of timeoutSeconds.
Request ==
    [ key : Key, order : OrderCode, amountCents : Amount, currency : {"VND", "USD"},
      provider : ProtoProvider, wellFormed : BOOLEAN ]

QueryResult == {"none", "OK", "INVALID_ARGUMENT", "UNKNOWN"}

ApiTypeOK ==
    /\ asked \in [Call -> Amount \cup {0}]
    /\ charge \in [links -> Amount]
    /\ amountCents \in [DOMAIN payment -> Amount \cap Column]
    /\ reply \in QueryResult

ApiInit ==
    /\ Init
    /\ asked = [c \in Call |-> 0]
    /\ charge = [t \in {} |-> 0]
    /\ amountCents = [o \in {} |-> 0]
    /\ reply = "none"

-----------------------------------------------------------------------------
(* createPaymentIntent                                                     *)

\* What CurrencyMapper.toPrisma and PaymentProviderMapper.toPrisma know: they
\* throw for everything else.
MappedCurrency == {"VND"}

MappedProvider == {"ZALOPAY", "PAYOS", "VNPAY"}

\* The request passes the ValidationPipe and toServiceDto.  IsNotEmpty and
\* IsEnum let UNKNOWN = 0 pass.
Accepted(r) ==
    r.wellFormed /\ r.currency \in MappedCurrency /\ r.provider \in MappedProvider

\* The key is looked up before the provider is.
CreateIntentAgain(r) ==
    /\ Accepted(r)
    /\ ReturnCachedPayment(r.key, r.order)
    /\ UNCHANGED <<amountVars, reply>>

\* getGateway knows no other provider.
CreateIntent(c, r) ==
    /\ Accepted(r)
    /\ r.provider = "ZALOPAY"
    /\ RequestPaymentLink(c, r.key, r.order)
    /\ asked' = [asked EXCEPT ![c] = r.amountCents]
    /\ UNCHANGED <<charge, amountCents, reply>>

\* Mutant: a second link under one app_trans_id takes the place of the first.
LinkCreatedAnew(c) ==
    /\ LinkCreated(c)
    /\ charge' = [t \in links' |-> IF t = call[c].txn THEN asked[c] ELSE charge[t]]
    /\ UNCHANGED <<asked, amountCents, reply>>

\* ZaloPay refuses an app_trans_id it knows, and may refuse any other request.
LinkCreatedFor(c) ==
    /\ LinkCreated(c)
    /\ call[c].txn \notin links
    /\ charge' = [t \in links' |-> IF t = call[c].txn THEN asked[c] ELSE charge[t]]
    /\ UNCHANGED <<asked, amountCents, reply>>

LinkRefusedFor(c) ==
    /\ LinkRefused(c)
    /\ charge' = [t \in links' |-> IF t \in links THEN charge[t] ELSE asked[c]]
    /\ UNCHANGED <<asked, amountCents, reply>>

\* Mutant: nothing checks the amount against the width of its column.
FitsAlways(amount) == TRUE

\* Both the client library and the database refuse a value that does not fit into
\* an Int column.
Fits(amount) == amount \in Column

\* The new row, if the step adds one, has the amount of call c.
StoreAmount(c) ==
    amountCents' = [ o \in DOMAIN payment' |->
        IF o \in DOMAIN payment THEN amountCents[o] ELSE asked[c] ]

InsertPaymentFor(c) ==
    /\ Fits(asked[c])
    /\ InsertPayment(c)
    /\ StoreAmount(c)
    /\ UNCHANGED <<asked, charge, reply>>

InsertFailsFor(c) ==
    /\ InsertFails(c)
    /\ Fits(asked[c]) \/ UNCHANGED payment
    /\ StoreAmount(c)
    /\ UNCHANGED <<asked, charge, reply>>

-----------------------------------------------------------------------------
(* getPaymentUrlByIdempotencyKey                                           *)

\* The pipe's whitelist keeps the properties that have a decorator.  The one of
\* GetUrlDto has none.
Whitelisted(key) == Undefined

\* PaymentStatusMapper.toProto throws when !protoStatus, and PENDING is 0.
ReportedStatus == {"COMPLETED", "FAILED"}

\* findUnique throws when it gets no value to look for, findByIdempotencyKey
\* when it finds nothing, the mapper for a status it does not report.
QueryAnswer(key) ==
    CASE Whitelisted(key) = Undefined -> "UNKNOWN"
      [] FindByIdempotencyKey(Whitelisted(key)) = {} -> "INVALID_ARGUMENT"
      [] OTHER ->
           IF \E p \in FindByIdempotencyKey(Whitelisted(key)) : p.status \in ReportedStatus
           THEN "OK"
           ELSE "UNKNOWN"

GetPaymentUrl(key) ==
    /\ reply' = QueryAnswer(key)
    /\ UNCHANGED <<vars, amountVars>>

-----------------------------------------------------------------------------

ApiCallStep(c) ==
    \/ \E r \in Request : CreateIntent(c, r)
    \/ LinkCreatedFor(c) \/ LinkRefusedFor(c) \/ InsertPaymentFor(c) \/ InsertFailsFor(c)

\* Everything that is not a call of a client: payers, callbacks, crashes, time.
OtherStep ==
    /\ \/ \E t \in Txn : Pay(t)
       \/ \E h \in Handler : HandlerStep(h)
       \/ Crash
       \/ Midnight
    /\ UNCHANGED <<amountVars, reply>>

ApiNext ==
    \/ \E c \in Call : ApiCallStep(c)
    \/ \E r \in Request : CreateIntentAgain(r)
    \/ \E key \in Key : GetPaymentUrl(key)
    \/ OtherStep

ApiSpec == ApiInit /\ [][ApiNext]_apiVars

-----------------------------------------------------------------------------
(* Properties                                                              *)

\* A payment is recorded with the amount its link charges: callbacks may ignore
\* the amount they report.  Calls for one order race for the transaction id with
\* different amounts, midnight gives the loser another, answers are lost between
\* the link and the row, and an amount may not fit into the column.
RecordedAmountIsCharged ==
    \A o \in DOMAIN payment :
        /\ payment[o].providerTransactionId \in links
        /\ amountCents[o] = charge[payment[o].providerTransactionId]

\* rpc GetPaymentUrlByIdempotencyKey answers for a payment that exists.
QueryFindsPayment ==
    [][\A key \in Key :
         GetPaymentUrl(key) /\ FindByIdempotencyKey(key) # {} => reply' = "OK"]_apiVars

=============================================================================
