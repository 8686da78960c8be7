-------------------------- MODULE MCPaymentSystem --------------------------
(***************************************************************************)
(* Instances of PaymentSystem for TLC.                                     *)
(***************************************************************************)
EXTENDS PaymentSystem, TLC

CONSTANTS o1, k1, e1, e2, c1, h1, h2, i1, i2, r1, r2

OneRun == [r \in {r1} |-> i1]
RunOfEach == [r \in {r1, r2} |-> IF r = r1 THEN i1 ELSE i2]

\* Outbox rows and handlers are interchangeable.
SystemSymmetry == Permutations({e1, e2}) \cup Permutations({h1, h2})

=============================================================================
