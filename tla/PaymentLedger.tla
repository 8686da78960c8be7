---------------------------- MODULE PaymentLedger ----------------------------
(***************************************************************************)
(* What the payment service promises about its two tables, seen from their *)
(* committed contents: the status of a payment and the event that          *)
(* announces it change together, in one step, and the announcements of a   *)
(* payment carry the order of the changes in their timestamps, so that the *)
(* latest one names the status.                                            *)
(***************************************************************************)
EXTENDS Naturals

CONSTANTS
    Order,
    Time     \* timestamps of announcements

VARIABLES
    status,      \* of each order: "NONE" before its payment exists
    announced    \* of each order: its announcements, with their timestamps

ledgerVars == <<status, announced>>

FinalStatus == {"COMPLETED", "FAILED", "CANCELLED"}

LedgerInit ==
    /\ status = [o \in Order |-> "NONE"]
    /\ announced = [o \in Order |-> {}]

Open(o) ==
    /\ status[o] = "NONE"
    /\ status' = [status EXCEPT ![o] = "PENDING"]
    /\ UNCHANGED announced

\* Any final status may follow any other: the service does not look at the
\* status it replaces.
Settle(o, newStatus, time) ==
    /\ status[o] # "NONE"
    /\ \A a \in announced[o] : a.at < time
    /\ status' = [status EXCEPT ![o] = newStatus]
    /\ announced' = [announced EXCEPT ![o] = @ \cup {[at |-> time, status |-> newStatus]}]

LedgerNext ==
    \E o \in Order :
        \/ Open(o)
        \/ \E newStatus \in FinalStatus, time \in Time : Settle(o, newStatus, time)

LedgerSpec == LedgerInit /\ [][LedgerNext]_ledgerVars

=============================================================================
