----------------------------- MODULE EventRelay -----------------------------
(***************************************************************************)
(* What the outbox promises to those who save events and to those who      *)
(* consume them, whatever the publisher does to keep the promise: an event *)
(* is delivered at least once before it is confirmed, a confirmation is    *)
(* never taken back, and only confirmed events are forgotten.  A second    *)
(* delivery of an event changes nothing here.                              *)
(***************************************************************************)

CONSTANT Event

VARIABLES
    accepted,    \* events some committed transaction saved
    delivered,   \* events Kafka holds at least one message of
    confirmed,   \* events known to be delivered
    forgotten    \* events whose record is gone

relayVars == <<accepted, delivered, confirmed, forgotten>>

RelayInit ==
    /\ accepted = {}
    /\ delivered = {}
    /\ confirmed = {}
    /\ forgotten = {}

Accept(e) ==
    /\ e \notin accepted
    /\ accepted' = accepted \cup {e}
    /\ UNCHANGED <<delivered, confirmed, forgotten>>

Deliver(e) ==
    /\ e \in accepted
    /\ delivered' = delivered \cup {e}
    /\ UNCHANGED <<accepted, confirmed, forgotten>>

Confirm(e) ==
    /\ e \in delivered
    /\ confirmed' = confirmed \cup {e}
    /\ UNCHANGED <<accepted, delivered, forgotten>>

Forget(E) ==
    /\ E \subseteq confirmed
    /\ forgotten' = forgotten \cup E
    /\ UNCHANGED <<accepted, delivered, confirmed>>

RelayNext ==
    \/ \E e \in Event : Accept(e) \/ Deliver(e) \/ Confirm(e)
    \/ \E E \in SUBSET Event : Forget(E)

RelaySpec == RelayInit /\ [][RelayNext]_relayVars

=============================================================================
