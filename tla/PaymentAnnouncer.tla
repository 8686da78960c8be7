-------------------------- MODULE PaymentAnnouncer --------------------------
(***************************************************************************)
(* What the deployed service promises to those who read its topics,        *)
(* whatever its two halves do to keep the promise: the ledger, with the    *)
(* payers before it and the readers behind it.  Only what was paid is      *)
(* completed; readers are told nothing but what the ledger announced; and  *)
(* an announcement is forgotten only after they could read it.             *)
(***************************************************************************)
EXTENDS PaymentLedger

VARIABLES
    paid,        \* orders somebody paid
    told,        \* of each order: the announcements readers can find
    forgotten    \* of each order: the announcements whose record is gone

announcerVars == <<ledgerVars, paid, told, forgotten>>

AnnouncerInit ==
    /\ LedgerInit
    /\ paid = {}
    /\ told = [o \in Order |-> {}]
    /\ forgotten = [o \in Order |-> {}]

OpenUnpaid(o) ==
    /\ Open(o)
    /\ o \notin paid
    /\ UNCHANGED <<paid, told, forgotten>>

Pay(o) ==
    /\ status[o] # "NONE"
    /\ paid' = paid \cup {o}
    /\ UNCHANGED <<ledgerVars, told, forgotten>>

SettleAsPaid(o, newStatus, time) ==
    /\ Settle(o, newStatus, time)
    /\ newStatus = "COMPLETED" => o \in paid
    /\ UNCHANGED <<paid, told, forgotten>>

\* A reader may be told again, and told of what a later announcement replaced.
\* No topic is for cancellations.
Tell(o, a) ==
    /\ a \in announced[o]
    /\ a.status # "CANCELLED"
    /\ told' = [told EXCEPT ![o] = @ \cup {a}]
    /\ UNCHANGED <<ledgerVars, paid, forgotten>>

\* Announcements of any number of orders are forgotten at a time.
Forget(gone) ==
    /\ \A o \in Order : gone[o] \subseteq told[o]
    /\ forgotten' = [o \in Order |-> forgotten[o] \cup gone[o]]
    /\ UNCHANGED <<ledgerVars, paid, told>>

AnnouncerNext ==
    \/ \E o \in Order :
         \/ OpenUnpaid(o)
         \/ Pay(o)
         \/ \E newStatus \in FinalStatus, time \in Time : SettleAsPaid(o, newStatus, time)
         \/ \E a \in announced[o] : Tell(o, a)
    \/ \E gone \in [Order -> SUBSET UNION {told[o] : o \in Order}] : Forget(gone)

AnnouncerSpec == AnnouncerInit /\ [][AnnouncerNext]_announcerVars

=============================================================================
