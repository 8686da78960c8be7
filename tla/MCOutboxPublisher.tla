------------------------- MODULE MCOutboxPublisher -------------------------
(***************************************************************************)
(* Instances of OutboxPublisher for TLC.                                   *)
(***************************************************************************)
EXTENDS OutboxPublisher, TLC

CONSTANTS e1, e2, i1, i2, r1, r2, p1

OneInstance == {i1}
TwoInstances == {i1, i2}

\* Two invocations that overlap in one process; one invocation in each of two.
TwoRunsOneHost == [r \in {r1, r2} |-> i1]
TwoHosts == [r \in {r1, r2} |-> IF r = r1 THEN i1 ELSE i2]
OneRunOneHost == [r \in {r1} |-> i1]

EventSymmetry == Permutations({e1, e2})

=============================================================================
