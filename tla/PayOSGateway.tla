---------------------------- MODULE PayOSGateway ----------------------------
(***************************************************************************)
(* PayOSGateway (src/modules/payment/gateways/payos/payos.gateway.ts) and  *)
(* the payments its calls make at PayOS, which is external.                *)
(*                                                                         *)
(* PayOS numbers payments, so buildPayOSOrderCode makes a number of an     *)
(* order code: eight decimal digits found in it, then the last five        *)
(* characters as a base-36 number.  What else the code says, the event and *)
(* three characters, is lost.  The gateway keeps no state and each of its  *)
(* calls makes one request: a call is one step, and an answer that is lost *)
(* is one of its outcomes.  A call that throws changes nothing and is no   *)
(* step.  At this commit the factory does not know this gateway.           *)
(***************************************************************************)
EXTENDS Naturals

CONSTANTS
    Order,     \* order codes, as the parts buildPayOSOrderCode looks at
    Rest,      \* what else may stand in an order code
    Base,      \* 36: characters parseInt reads as digits
    Shift,     \* 100000000
    MaxSafe,   \* 2^53 - 1: up to here a JavaScript number is exact
    None,      \* a part that is missing
    NaN        \* no number: parseInt's answer, and what the callers throw on

\* A character that parseInt reads is a digit, all others are the number Base.
Digit == 0..(Base - 1)

Last5 == [1..5 -> 0..Base]

\* digits: the first eight decimal digits in a row, wherever they stand; last5:
\* the end of the part after the last hyphen.
ASSUME OrderAssumption ==
    Order \subseteq [digits : Nat \cup {None}, last5 : Last5 \cup {None}, rest : Rest]
ASSUME NoNumbers == NaN \notin Nat /\ None \notin Nat /\ None \notin Last5
ASSUME NumbersAssumption ==
    /\ Base \in Nat \ {0}
    /\ Shift \in Nat
    /\ Base * Base * Base * Base * Base <= Shift
    /\ MaxSafe \in Nat

VARIABLES
    links,      \* PayOS: the payment links, by PayOS order code
    given,      \* the transactionId createPaymentLink returned for an order
    webhooks,   \* PayOS: the signed webhooks, each sent any number of times
    verdicts    \* history: what handleCallback said, and of which link

vars == <<links, given, webhooks, verdicts>>

-----------------------------------------------------------------------------
(* buildPayOSOrderCode                                                     *)

\* parseInt reads on at character k while everything so far is a digit.
Read(last5, k, number) ==
    IF \A j \in 1..k : last5[j] \in Digit THEN number * Base + last5[k] ELSE number

ParseInt(last5) ==
    IF last5[1] \notin Digit THEN NaN
    ELSE Read(last5, 5, Read(last5, 4, Read(last5, 3, Read(last5, 2, last5[1]))))

\* A JavaScript number: beyond MaxSafe + 1 = 2^53 it is even, and a tie goes to
\* the multiple of four.  Eight digits stay below 2^54.
Double(n) ==
    IF n <= MaxSafe + 1 \/ n % 2 = 0 THEN n
    ELSE IF n % 4 = 1 THEN n - 1 ELSE n + 1

\* The parts are there and parseInt finds a number: the gateway does not throw.
HasOrderCode(o) == o.digits # None /\ o.last5 # None /\ o.last5[1] \in Digit

\* Mutant: one zero too few.
ShiftTooSmall(o) ==
    IF HasOrderCode(o) THEN Double(o.digits * (Shift \div 10) + ParseInt(o.last5)) ELSE NaN

BuildPayOSOrderCode(o) ==
    IF HasOrderCode(o) THEN Double(o.digits * Shift + ParseInt(o.last5)) ELSE NaN

-----------------------------------------------------------------------------

\* PayOS knows a link by an id of its own.
PaymentLinkId(code) == [kind |-> "paymentLinkId", of |-> code]

LinkStatus == {"open", "paid", "cancelled"}

TypeOK ==
    /\ links \in [DOMAIN links -> [order : Order, status : LinkStatus]]
    /\ DOMAIN links \subseteq Nat
    /\ DOMAIN given \subseteq Order
    /\ webhooks \subseteq [about : DOMAIN links, code : {"00", "other"}]
    /\ verdicts \subseteq [ about : DOMAIN links, success : BOOLEAN,
                            providerTransactionId : [kind : {"paymentLinkId"}, of : DOMAIN links] ]

Init ==
    /\ links = [code \in {} |-> code]
    /\ given = [o \in {} |-> o]
    /\ webhooks = {}
    /\ verdicts = {}

\* Mutant: the transaction id is what prisma/schema.prisma says, PayOS's order
\* code.
TransactionIdIsCode(code) == [kind |-> "orderCode", of |-> code]

TransactionId(code) == PaymentLinkId(code)

\* createPaymentLink.  PayOS refuses an order code it has.  The answer is lost,
\* or has no checkoutUrl, or the caller gets the link.
CreatePaymentLink(o) ==
    LET code == BuildPayOSOrderCode(o)
    IN  /\ code # NaN
        /\ code \notin DOMAIN links
        /\ links' = [ c \in DOMAIN links \cup {code} |->
             IF c = code THEN [order |-> o, status |-> "open"] ELSE links[c] ]
        /\ \/ UNCHANGED given
           \/ given' = [p \in DOMAIN given \cup {o} |->
                IF p = o THEN TransactionId(code) ELSE given[p]]
        /\ UNCHANGED <<webhooks, verdicts>>

\* cancelPayment: the answer may be lost.
CancelPayment(o) ==
    LET code == BuildPayOSOrderCode(o)
    IN  /\ code \in DOMAIN links
        /\ links[code].status = "open"
        /\ links' = [links EXCEPT ![code].status = "cancelled"]
        /\ UNCHANGED <<given, webhooks, verdicts>>

\* getPaymentInfo
PaymentInfo(o) == links[BuildPayOSOrderCode(o)]

\* Somebody pays, and PayOS says so.
Pay(code) ==
    /\ links[code].status = "open"
    /\ links' = [links EXCEPT ![code].status = "paid"]
    /\ webhooks' = webhooks \cup {[about |-> code, code |-> "00"]}
    /\ UNCHANGED <<given, verdicts>>

\* An attempt to pay fails; the link stays as it is.
PayFails(code) ==
    /\ links[code].status = "open"
    /\ webhooks' = webhooks \cup {[about |-> code, code |-> "other"]}
    /\ UNCHANGED <<links, given, verdicts>>

\* handleCallback.  A webhook without PayOS's signature yields no transaction id,
\* and its caller does nothing.
HandleCallback(w) ==
    /\ w \in webhooks
    /\ verdicts' = verdicts \cup
         {[ about |-> w.about, success |-> w.code = "00",
            providerTransactionId |-> PaymentLinkId(w.about) ]}
    /\ UNCHANGED <<links, given, webhooks>>

Next ==
    \/ \E o \in Order : CreatePaymentLink(o) \/ CancelPayment(o)
    \/ \E code \in DOMAIN links : Pay(code) \/ PayFails(code)
    \/ \E w \in webhooks : HandleCallback(w)

Spec == Init /\ [][Next]_vars

-----------------------------------------------------------------------------
(* Properties                                                              *)

\* Order codes that should have different numbers: eight digits that keep the
\* number exact, and five characters that are all digits in base 36.
Proper(o) ==
    /\ HasOrderCode(o)
    /\ \A j \in 1..5 : o.last5[j] \in Digit
    /\ o.digits * Shift + Shift <= MaxSafe + 1

\* A proper order and one with the same date, which ends in the same five
\* characters unless it has one that parseInt does not read.
Alike(o, p) ==
    /\ o.digits = p.digits
    /\ (\A j \in 1..5 : p.last5[j] \in Digit) => o.last5 = p.last5

\* The number of a proper order is taken by no order but those alike: getPaymentInfo
\* tells of no other, and PayOS refuses a link for the sake of no other, however
\* improper the orders are that were given numbers.  Digits of one part never run
\* into the other, and what is rounded never lands on what is exact.
InfoIsAlike ==
    \A o \in Order : Proper(o) /\ BuildPayOSOrderCode(o) \in DOMAIN links =>
        Alike(o, PaymentInfo(o).order)

\* Nor does a cancellation by a proper order code hit another order.
CancelsAlike ==
    [][\A o \in Order : CancelPayment(o) /\ Proper(o) =>
         \A code \in DOMAIN links :
             links'[code] # links[code] => Alike(o, links[code].order)]_vars

\* The id in a callback is the one under which the service stored the payment,
\* and one that reports success is of an order whose link was paid.
CallbackFindsPayment ==
    \A v \in verdicts :
        /\ v.success => links[v.about].status = "paid"
        /\ links[v.about].order \in DOMAIN given =>
             given[links[v.about].order] = v.providerTransactionId

=============================================================================
