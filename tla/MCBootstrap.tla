---------------------------- MODULE MCBootstrap -----------------------------
(***************************************************************************)
(* An instance of Bootstrap for TLC.                                       *)
(***************************************************************************)
EXTENDS Bootstrap

MCBrokerUp == 0..(Deadline + 2 * MaxAttempt)

=============================================================================
