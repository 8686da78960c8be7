---------------------------- MODULE MCPaymentApi ----------------------------
(***************************************************************************)
(* Instances of PaymentApi for TLC.                                        *)
(***************************************************************************)
EXTENDS PaymentApi, TLC

CONSTANTS o1, o2, k1, k2, e1, c1, c2, h1

\* An amount that fits, although negative, and one too large.
MCAmount == {-1, 3}

\* Calls, keys and orders are interchangeable.
RequestSymmetry ==
    Permutations({c1, c2}) \cup Permutations({k1, k2}) \cup Permutations({o1, o2})

=============================================================================
