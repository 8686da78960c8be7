----------------------------- MODULE MCPayments -----------------------------
(***************************************************************************)
(* Instances of Payments for TLC.                                          *)
(***************************************************************************)
EXTENDS Payments, TLC

CONSTANTS o1, o2, k1, k2, e1, e2, e3, c1, c2, h1, h2

\* Nothing tells one outbox row, handler, key or order from another.
PaymentSymmetry ==
    Permutations({e1, e2, e3}) \cup Permutations({h1, h2}) \cup
    Permutations({k1, k2}) \cup Permutations({o1, o2})

=============================================================================
