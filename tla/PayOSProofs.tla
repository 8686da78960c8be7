---------------------------- MODULE PayOSProofs ----------------------------
(***************************************************************************)
(* PayOS order codes: which orders can share one, for every set of orders  *)
(* and every base and shift that leave room for five digits, and what      *)
(* follows for the calls that name a payment by its order.                 *)
(***************************************************************************)
EXTENDS PayOSGateway, TLAPS

-----------------------------------------------------------------------------
(* Numbers                                                                 *)

\* A number determines its last digit and the rest.
LEMMA LastDigit ==
    ASSUME NEW B \in Nat, NEW v \in Nat, NEW w \in Nat, NEW d \in Nat, NEW e \in Nat,
           d < B, e < B, v * B + d = w * B + e
    PROVE  v = w /\ d = e
<1>1. ASSUME NEW x \in Nat, NEW y \in Nat, x < y PROVE x * B + B <= y * B
  <2>1. PICK k \in Nat : y = x + 1 + k
    <3>1. y - x - 1 \in Nat /\ y = x + 1 + (y - x - 1)
      BY <1>1
    <3> QED
      BY <3>1
  <2>2. y * B = x * B + B + k * B
    BY <2>1
  <2>3. k * B \in Nat /\ x * B \in Nat
    OBVIOUS
  <2> QED
    BY <2>2, <2>3
<1>2. v * B \in Nat /\ w * B \in Nat
  OBVIOUS
<1>3. ~(v < w)
  BY <1>1, <1>2
<1>4. ~(w < v)
  BY <1>1, <1>2
<1>5. v = w
  BY <1>3, <1>4
<1> QED
  BY <1>5, <1>2

\* One digit more.
AddDigit(n, d) == n * Base + d

LEMMA AddDigitIsInjective ==
    ASSUME NEW v \in Nat, NEW w \in Nat, NEW d \in Digit, NEW e \in Digit,
           AddDigit(v, d) = AddDigit(w, e)
    PROVE  v = w /\ d = e
<1>1. Base \in Nat /\ d \in Nat /\ e \in Nat /\ d < Base /\ e < Base
  BY NumbersAssumption DEF Digit
<1>2. v * Base + d = w * Base + e
  BY DEF AddDigit
<1> QED
  BY <1>1, <1>2, LastDigit

\* One digit more is one factor more in the bound.
LEMMA AddDigitBound ==
    ASSUME NEW M \in Nat, NEW v \in Nat, NEW d \in Digit, v < M
    PROVE  AddDigit(v, d) \in Nat /\ AddDigit(v, d) < M * Base
<1>1. Base \in Nat /\ d \in Nat /\ d < Base
  BY NumbersAssumption DEF Digit
<1>2. PICK k \in Nat : M = v + 1 + k
  <2>1. M - v - 1 \in Nat /\ M = v + 1 + (M - v - 1)
    OBVIOUS
  <2> QED
    BY <2>1
<1>3. M * Base = v * Base + Base + k * Base
  BY <1>1, <1>2
<1>4. k * Base \in Nat /\ v * Base \in Nat
  BY <1>1
<1> QED
  BY <1>1, <1>3, <1>4 DEF AddDigit

\* Five characters that are digits, as parseInt reads them.
Number(t) == AddDigit(AddDigit(AddDigit(AddDigit(t[1], t[2]), t[3]), t[4]), t[5])

AllDigits(t) == \A j \in 1..5 : t[j] \in Digit

LEMMA TheDigits ==
    ASSUME NEW t, AllDigits(t)
    PROVE  /\ t[1] \in Digit /\ t[2] \in Digit /\ t[3] \in Digit
           /\ t[4] \in Digit /\ t[5] \in Digit
           /\ t[1] \in Nat /\ t[1] < Base
<1>1. \A d \in Digit : d \in Nat /\ d < Base
  BY NumbersAssumption DEF Digit
<1>2. 1 \in 1..5 /\ 2 \in 1..5 /\ 3 \in 1..5 /\ 4 \in 1..5 /\ 5 \in 1..5
  OBVIOUS
<1> QED
  BY <1>1, <1>2 DEF AllDigits

\* The numbers on the way, each below its power of the base.
LEMMA NumberInRange ==
    ASSUME NEW t, AllDigits(t)
    PROVE  /\ AddDigit(t[1], t[2]) \in Nat
           /\ AddDigit(AddDigit(t[1], t[2]), t[3]) \in Nat
           /\ AddDigit(AddDigit(AddDigit(t[1], t[2]), t[3]), t[4]) \in Nat
           /\ Number(t) \in Nat
           /\ Number(t) < Shift
<1>1. Base \in Nat /\ Base * Base \in Nat /\ Base * Base * Base \in Nat
      /\ Base * Base * Base * Base \in Nat /\ Base * Base * Base * Base * Base \in Nat
  BY NumbersAssumption
<1>2. AddDigit(t[1], t[2]) \in Nat /\ AddDigit(t[1], t[2]) < Base * Base
  BY <1>1, TheDigits, AddDigitBound
<1>3. /\ AddDigit(AddDigit(t[1], t[2]), t[3]) \in Nat
      /\ AddDigit(AddDigit(t[1], t[2]), t[3]) < Base * Base * Base
  BY <1>1, <1>2, TheDigits, AddDigitBound
<1>4. /\ AddDigit(AddDigit(AddDigit(t[1], t[2]), t[3]), t[4]) \in Nat
      /\ AddDigit(AddDigit(AddDigit(t[1], t[2]), t[3]), t[4]) < Base * Base * Base * Base
  BY <1>1, <1>3, TheDigits, AddDigitBound
<1>5. Number(t) \in Nat /\ Number(t) < Base * Base * Base * Base * Base
  BY <1>1, <1>4, TheDigits, AddDigitBound DEF Number
<1>6. Base * Base * Base * Base * Base <= Shift /\ Shift \in Nat
  BY NumbersAssumption
<1> QED
  BY <1>1, <1>2, <1>3, <1>4, <1>5, <1>6

LEMMA NumberIsInjective ==
    ASSUME NEW s, NEW t, AllDigits(s), AllDigits(t), Number(s) = Number(t)
    PROVE  \A j \in 1..5 : s[j] = t[j]
<1>1. /\ AddDigit(AddDigit(AddDigit(s[1], s[2]), s[3]), s[4])
           = AddDigit(AddDigit(AddDigit(t[1], t[2]), t[3]), t[4])
      /\ s[5] = t[5]
  BY TheDigits, NumberInRange, AddDigitIsInjective DEF Number
<1>2. /\ AddDigit(AddDigit(s[1], s[2]), s[3]) = AddDigit(AddDigit(t[1], t[2]), t[3])
      /\ s[4] = t[4]
  BY <1>1, TheDigits, NumberInRange, AddDigitIsInjective
<1>3. AddDigit(s[1], s[2]) = AddDigit(t[1], t[2]) /\ s[3] = t[3]
  BY <1>2, TheDigits, NumberInRange, AddDigitIsInjective
<1>4. s[1] = t[1] /\ s[2] = t[2]
  BY <1>3, TheDigits, AddDigitIsInjective
<1>5. \A j \in 1..5 : j = 1 \/ j = 2 \/ j = 3 \/ j = 4 \/ j = 5
  OBVIOUS
<1> QED
  BY <1>1, <1>2, <1>3, <1>4, <1>5

-----------------------------------------------------------------------------
(* Order codes                                                             *)

LEMMA ParseIntOfDigits == ASSUME NEW t, AllDigits(t) PROVE ParseInt(t) = Number(t)
<1>1. \A k \in 1..5 : \A n : Read(t, k, n) = AddDigit(n, t[k])
  BY DEF Read, AllDigits, AddDigit
<1>2. t[1] \in Digit
  BY DEF AllDigits
<1> QED
  BY <1>1, <1>2 DEF ParseInt, Number

\* The number of a proper order is exact.
LEMMA ProperCode ==
    ASSUME NEW o \in Order, Proper(o)
    PROVE  /\ o.digits \in Nat /\ AllDigits(o.last5) /\ o.last5 \in Last5
           /\ BuildPayOSOrderCode(o) = o.digits * Shift + Number(o.last5)
<1>1. o.digits \in Nat /\ o.last5 \in Last5 /\ AllDigits(o.last5) /\ HasOrderCode(o)
  BY OrderAssumption DEF Proper, HasOrderCode, AllDigits
<1>2. Number(o.last5) \in Nat /\ Number(o.last5) < Shift
  BY <1>1, NumberInRange
<1>3. Shift \in Nat /\ MaxSafe \in Nat
  BY NumbersAssumption
<1>4. o.digits * Shift \in Nat
  BY <1>1, <1>3
<1>5. o.digits * Shift + Number(o.last5) <= MaxSafe + 1
  BY <1>2, <1>3, <1>4 DEF Proper
<1>6. Double(o.digits * Shift + Number(o.last5)) = o.digits * Shift + Number(o.last5)
  BY <1>5 DEF Double
<1> QED
  BY <1>1, <1>6, ParseIntOfDigits DEF BuildPayOSOrderCode

\* However early parseInt stops, what it has read so far leaves room below Shift.
LEMMA ParseIntInRange ==
    ASSUME NEW t \in Last5, t[1] \in Digit
    PROVE  ParseInt(t) \in Nat /\ ParseInt(t) < Shift
<1> DEFINE n2 == Read(t, 2, t[1])
           n3 == Read(t, 3, n2)
           n4 == Read(t, 4, n3)
           n5 == Read(t, 5, n4)
<1>1. /\ Base \in Nat \ {0}
      /\ Base * Base \in Nat /\ Base * Base * Base \in Nat
      /\ Base * Base * Base * Base \in Nat /\ Base * Base * Base * Base * Base \in Nat
      /\ Shift \in Nat /\ Base * Base * Base * Base * Base <= Shift
  BY NumbersAssumption
<1>2. ASSUME NEW M \in Nat, NEW k \in 1..5, NEW n \in Nat, n < M
      PROVE  Read(t, k, n) \in Nat /\ Read(t, k, n) < M * Base
  <2>1. Read(t, k, n) = n \/ (t[k] \in Digit /\ Read(t, k, n) = AddDigit(n, t[k]))
    BY DEF Read, AddDigit
  <2>2. CASE Read(t, k, n) = n
    <3>1. 0 \in Digit
      BY <1>1 DEF Digit
    <3>2. AddDigit(n, 0) \in Nat /\ AddDigit(n, 0) < M * Base
      BY <1>2, <3>1, AddDigitBound
    <3>3. n <= AddDigit(n, 0)
      <4>1. PICK b \in Nat : Base = b + 1
        <5>1. Base - 1 \in Nat /\ Base = (Base - 1) + 1
          BY <1>1
        <5>2. QED
          BY <5>1
      <4>2. n * Base = n * b + n /\ n * b \in Nat
        BY <4>1
      <4>3. QED
        BY <4>2 DEF AddDigit
    <3>4. M * Base \in Nat
      BY <1>1
    <3> QED
      BY <2>2, <3>2, <3>3, <3>4
  <2>3. CASE t[k] \in Digit /\ Read(t, k, n) = AddDigit(n, t[k])
    BY <1>2, <2>3, AddDigitBound
  <2> QED
    BY <2>1, <2>2, <2>3
<1>3. t[1] \in Nat /\ t[1] < Base
  BY NumbersAssumption DEF Digit
<1>4. n2 \in Nat /\ n2 < Base * Base
  BY <1>1, <1>2, <1>3
<1>5. n3 \in Nat /\ n3 < Base * Base * Base
  <2> HIDE DEF n2
  <2> QED
    BY <1>1, <1>2, <1>4
<1>6. n4 \in Nat /\ n4 < Base * Base * Base * Base
  <2> DEFINE M == Base * Base * Base
  <2>1. M \in Nat /\ n3 \in Nat /\ n3 < M
    BY <1>1, <1>5
  <2> HIDE DEF n3, M
  <2>2. n4 \in Nat /\ n4 < M * Base
    BY <1>2, <2>1
  <2> QED
    BY <2>2 DEF M
<1>7. n5 \in Nat /\ n5 < Base * Base * Base * Base * Base
  <2> DEFINE M == Base * Base * Base * Base
  <2>1. M \in Nat /\ n4 \in Nat /\ n4 < M
    BY <1>1, <1>6
  <2> HIDE DEF n4, M
  <2>2. n5 \in Nat /\ n5 < M * Base
    BY <1>2, <2>1
  <2> QED
    BY <2>2 DEF M
<1>8. ParseInt(t) = n5
  BY DEF ParseInt
<1> QED
  <2> HIDE DEF n5
  <2> QED
    BY <1>1, <1>7, <1>8

\* What is rounded stays beyond the exact numbers.
LEMMA RoundedIsLarge ==
    ASSUME NEW n \in Nat, Double(n) <= MaxSafe
    PROVE  Double(n) = n
<1>1. MaxSafe \in Nat
  BY NumbersAssumption
<1>2. Double(n) = n \/ (~(n <= MaxSafe + 1) /\ (Double(n) = n - 1 \/ Double(n) = n + 1))
  BY Zenon DEF Double
<1> QED
  BY <1>1, <1>2

\* The number of a proper order is that of no order but those alike, whatever
\* characters and dates the other has.
THEOREM CodesTellOrdersApart ==
    ASSUME NEW o \in Order, NEW p \in Order, Proper(o), HasOrderCode(p),
           BuildPayOSOrderCode(o) = BuildPayOSOrderCode(p)
    PROVE  Alike(o, p)
<1> DEFINE number == p.digits * Shift + ParseInt(p.last5)
<1>1. /\ o.digits \in Nat /\ AllDigits(o.last5) /\ o.last5 \in Last5
      /\ BuildPayOSOrderCode(o) = o.digits * Shift + Number(o.last5)
  BY ProperCode
<1>2. p.digits \in Nat /\ p.last5 \in Last5 /\ p.last5[1] \in Digit
  BY OrderAssumption DEF HasOrderCode
<1>3. /\ Number(o.last5) \in Nat /\ Number(o.last5) < Shift
      /\ ParseInt(p.last5) \in Nat /\ ParseInt(p.last5) < Shift
      /\ Shift \in Nat /\ MaxSafe \in Nat
  BY <1>1, <1>2, NumberInRange, ParseIntInRange, NumbersAssumption
<1>4. o.digits * Shift \in Nat /\ p.digits * Shift \in Nat
  BY <1>1, <1>2, <1>3
<1>5. number \in Nat /\ BuildPayOSOrderCode(p) = Double(number)
  BY <1>3, <1>4 DEF BuildPayOSOrderCode
<1>6. BuildPayOSOrderCode(o) <= MaxSafe
  BY <1>1, <1>3, <1>4 DEF Proper
<1>7. Double(number) = number
  <2> HIDE DEF number
  <2> QED
    BY <1>5, <1>6, RoundedIsLarge
<1>8. o.digits * Shift + Number(o.last5) = p.digits * Shift + ParseInt(p.last5)
  BY <1>1, <1>5, <1>7
<1>9. o.digits = p.digits /\ Number(o.last5) = ParseInt(p.last5)
  BY <1>1, <1>2, <1>3, <1>8, LastDigit
<1>10. ASSUME AllDigits(p.last5) PROVE o.last5 = p.last5
  <2>1. \A j \in 1..5 : o.last5[j] = p.last5[j]
    BY <1>1, <1>9, <1>10, ParseIntOfDigits, NumberIsInjective
  <2> QED
    BY <1>1, <1>2, <2>1 DEF Last5
<1> QED
  BY <1>9, <1>10 DEF Alike, AllDigits

-----------------------------------------------------------------------------
(* Links                                                                   *)

\* A link is filed under the number of its order, and whoever was given one was
\* given the one filed under the number of his.
LinkInv ==
    /\ links \in [DOMAIN links -> [order : Order, status : LinkStatus]]
    /\ \A code \in DOMAIN links :
         links[code].order \in Order /\ BuildPayOSOrderCode(links[code].order) = code
    /\ \A o \in DOMAIN given :
         /\ o \in Order
         /\ BuildPayOSOrderCode(o) \in DOMAIN links
         /\ links[BuildPayOSOrderCode(o)].order = o
         /\ given[o] = TransactionId(BuildPayOSOrderCode(o))
    /\ \A w \in webhooks :
         w.about \in DOMAIN links /\ (w.code = "00" => links[w.about].status = "paid")
    /\ \A v \in verdicts :
         /\ v.about \in DOMAIN links
         /\ v.success => links[v.about].status = "paid"
         /\ v.providerTransactionId = PaymentLinkId(v.about)

LEMMA LinkInvInit == Init => LinkInv
BY DEF Init, LinkInv

LEMMA LinkInvStep == LinkInv /\ [Next]_vars => LinkInv'
<1> SUFFICES ASSUME LinkInv, [Next]_vars PROVE LinkInv'
  OBVIOUS
<1>1. ASSUME NEW o \in Order, CreatePaymentLink(o) PROVE LinkInv'
  <2> DEFINE code == BuildPayOSOrderCode(o)
  <2>1. /\ code \notin DOMAIN links
        /\ links' = [ c \in DOMAIN links \cup {code} |->
             IF c = code THEN [order |-> o, status |-> "open"] ELSE links[c] ]
        /\ \/ UNCHANGED given
           \/ given' = [p \in DOMAIN given \cup {o} |->
                IF p = o THEN TransactionId(code) ELSE given[p]]
        /\ UNCHANGED <<webhooks, verdicts>>
    BY <1>1 DEF CreatePaymentLink
  <2>2. /\ DOMAIN links' = DOMAIN links \cup {code}
        /\ links'[code] = [order |-> o, status |-> "open"]
        /\ \A c \in DOMAIN links : links'[c] = links[c]
    BY <2>1
  <2>3. /\ DOMAIN given' \subseteq DOMAIN given \cup {o}
        /\ o \in DOMAIN given' => o \in DOMAIN given \/ given'[o] = TransactionId(code)
        /\ \A p \in DOMAIN given : p # o => given'[p] = given[p]
    BY <2>1
  <2>4. o \notin DOMAIN given
    BY <2>1 DEF LinkInv
  <2>5. \A c \in DOMAIN links' :
          links'[c].order \in Order /\ BuildPayOSOrderCode(links'[c].order) = c
    BY <2>2 DEF LinkInv
  <2>6. \A p \in DOMAIN given' :
          /\ p \in Order
          /\ BuildPayOSOrderCode(p) \in DOMAIN links'
          /\ links'[BuildPayOSOrderCode(p)].order = p
          /\ given'[p] = TransactionId(BuildPayOSOrderCode(p))
    BY <2>2, <2>3, <2>4 DEF LinkInv
  <2> HIDE DEF code
  <2>9. links' \in [DOMAIN links' -> [order : Order, status : LinkStatus]]
    <3>1. [order |-> o, status |-> "open"] \in [order : Order, status : LinkStatus]
      BY DEF LinkStatus
    <3> QED
      BY <2>1, <3>1 DEF LinkInv
  <2>7. \A w \in webhooks' :
          w.about \in DOMAIN links' /\ (w.code = "00" => links'[w.about].status = "paid")
    BY <2>1, <2>2 DEF LinkInv
  <2>8. \A v \in verdicts' :
          /\ v.about \in DOMAIN links'
          /\ v.success => links'[v.about].status = "paid"
          /\ v.providerTransactionId = PaymentLinkId(v.about)
    BY <2>1, <2>2 DEF LinkInv
  <2> QED
    BY <2>5, <2>6, <2>7, <2>8, <2>9 DEF LinkInv
<1>2. ASSUME NEW code \in DOMAIN links,
             links[code].status = "open",
             links' = [links EXCEPT ![code].status = "cancelled"]
                \/ links' = [links EXCEPT ![code].status = "paid"],
             UNCHANGED <<given, verdicts>>,
             webhooks' \in {webhooks, webhooks \cup {[about |-> code, code |-> "00"]}},
             webhooks' # webhooks => links'[code].status = "paid"
      PROVE  LinkInv'
  <2>1. /\ DOMAIN links' = DOMAIN links
        /\ \A c \in DOMAIN links : links'[c].order = links[c].order
        /\ \A c \in DOMAIN links : c # code => links'[c] = links[c]
        /\ links' \in [DOMAIN links' -> [order : Order, status : LinkStatus]]
    <3>1. links \in [DOMAIN links -> [order : Order, status : LinkStatus]]
      BY DEF LinkInv
    <3> QED
      BY <1>2, <3>1 DEF LinkStatus
  <2>2. \A c \in DOMAIN links : links[c].status = "paid" => links'[c].status = "paid"
    BY <1>2, <2>1
  <2>3. \A w \in webhooks' :
          w.about \in DOMAIN links' /\ (w.code = "00" => links'[w.about].status = "paid")
    BY <1>2, <2>1, <2>2 DEF LinkInv
  <2>4. \A v \in verdicts' :
          /\ v.about \in DOMAIN links'
          /\ v.success => links'[v.about].status = "paid"
          /\ v.providerTransactionId = PaymentLinkId(v.about)
    BY <1>2, <2>1, <2>2 DEF LinkInv
  <2>5. \A o \in DOMAIN given' :
          /\ o \in Order
          /\ BuildPayOSOrderCode(o) \in DOMAIN links'
          /\ links'[BuildPayOSOrderCode(o)].order = o
          /\ given'[o] = TransactionId(BuildPayOSOrderCode(o))
    BY <1>2, <2>1 DEF LinkInv
  <2>6. \A c \in DOMAIN links' :
          links'[c].order \in Order /\ BuildPayOSOrderCode(links'[c].order) = c
    BY <2>1 DEF LinkInv
  <2> QED
    BY <2>1, <2>3, <2>4, <2>5, <2>6 DEF LinkInv
<1>3. ASSUME NEW o \in Order, CancelPayment(o) PROVE LinkInv'
  BY <1>2, <1>3 DEF CancelPayment
<1>4. ASSUME NEW code \in DOMAIN links, Pay(code) PROVE LinkInv'
  <2>1. links'[code].status = "paid"
    BY <1>4 DEF Pay, LinkInv
  <2> QED
    BY <1>2, <1>4, <2>1 DEF Pay
<1>5. ASSUME NEW code \in DOMAIN links, PayFails(code) PROVE LinkInv'
  BY <1>5 DEF PayFails, LinkInv
<1>6. ASSUME NEW w \in webhooks, HandleCallback(w) PROVE LinkInv'
  <2>1. \A v \in verdicts' :
          /\ v.about \in DOMAIN links
          /\ v.success => links[v.about].status = "paid"
          /\ v.providerTransactionId = PaymentLinkId(v.about)
    <3> DEFINE new == [ about |-> w.about, success |-> w.code = "00",
                        providerTransactionId |-> PaymentLinkId(w.about) ]
    <3>1. \A v \in verdicts' : v \in verdicts \/ v = new
      BY <1>6 DEF HandleCallback
    <3>2. /\ new.about = w.about /\ (new.success <=> w.code = "00")
          /\ new.providerTransactionId = PaymentLinkId(w.about)
      OBVIOUS
    <3> HIDE DEF new
    <3> QED
      BY <3>1, <3>2 DEF LinkInv
  <2> QED
    BY <1>6, <2>1 DEF HandleCallback, LinkInv
<1>7. CASE UNCHANGED vars
  BY <1>7 DEF vars, LinkInv
<1> QED
  BY <1>1, <1>3, <1>4, <1>5, <1>6, <1>7 DEF Next

LEMMA LinkInvHolds == Spec => []LinkInv
BY LinkInvInit, LinkInvStep, PTL DEF Spec

\* A link is filed under a number that was made of its order.
LEMMA LinksHaveCodes ==
    ASSUME LinkInv, NEW o \in Order, Proper(o), BuildPayOSOrderCode(o) \in DOMAIN links
    PROVE  Alike(o, links[BuildPayOSOrderCode(o)].order)
<1> DEFINE p == links[BuildPayOSOrderCode(o)].order
<1>1. p \in Order /\ BuildPayOSOrderCode(p) = BuildPayOSOrderCode(o)
  BY DEF LinkInv
<1>2. BuildPayOSOrderCode(p) # NaN
  <2>1. o.digits * Shift + Number(o.last5) \in Nat
    BY ProperCode, NumberInRange, NumbersAssumption
  <2> QED
    BY <1>1, <2>1, ProperCode, NoNumbers
<1>3. HasOrderCode(p)
  BY <1>2 DEF BuildPayOSOrderCode
<1> QED
  BY <1>1, <1>3, CodesTellOrdersApart

\* getPaymentInfo of a proper order tells of no order but those alike, and PayOS
\* refuses it a link for the sake of no other.
THEOREM InfoOfAlike == Spec => []InfoIsAlike
<1>1. LinkInv => InfoIsAlike
  BY LinksHaveCodes DEF InfoIsAlike, PaymentInfo
<1> QED
  BY <1>1, LinkInvHolds, PTL

\* A cancellation by a proper order code hits only orders alike.
THEOREM CancellationHitsAlike == Spec => CancelsAlike
<1>1. ASSUME LinkInv, NEW o \in Order, CancelPayment(o), Proper(o),
             NEW code \in DOMAIN links, links'[code] # links[code]
      PROVE  Alike(o, links[code].order)
  <2>1. code = BuildPayOSOrderCode(o)
    BY <1>1 DEF CancelPayment
  <2> QED
    BY <1>1, <2>1, LinksHaveCodes
<1>2. LinkInv /\ [Next]_vars =>
        [\A o \in Order : CancelPayment(o) /\ Proper(o) =>
           \A code \in DOMAIN links :
             links'[code] # links[code] => Alike(o, links[code].order)]_vars
  BY <1>1
<1> QED
  BY <1>2, LinkInvHolds, PTL DEF Spec, CancelsAlike

\* Callbacks name stored payments, and report success of paid ones.
THEOREM CallbacksNamePayments == Spec => []CallbackFindsPayment
<1>1. LinkInv => CallbackFindsPayment
  BY DEF LinkInv, CallbackFindsPayment, TransactionId
<1> QED
  BY <1>1, LinkInvHolds, PTL

=============================================================================
