--------------------------- MODULE MCPayOSGateway ---------------------------
(***************************************************************************)
(* An instance of PayOSGateway for TLC, with characters 0 and 1 instead of *)
(* the 36, which leaves 32 numbers to the five of them.                    *)
(***************************************************************************)
EXTENDS PayOSGateway, Sequences

CONSTANTS a, b

MCRest == {a, b}

\* Two orders that share a number because they differ only in what is lost; one
\* that would share it if its six stood one place further right; two that share a
\* number too large to be exact, and one with a character that is no digit; three
\* that have no number.
MCOrder ==
    { [digits |-> 1, last5 |-> <<1, 1, 0, 1, 0>>, rest |-> a],
      [digits |-> 1, last5 |-> <<1, 1, 0, 1, 0>>, rest |-> b],
      [digits |-> 6, last5 |-> <<1, 2, 0, 0, 1>>, rest |-> a],
      [digits |-> 9, last5 |-> <<0, 0, 0, 1, 1>>, rest |-> a],
      [digits |-> 9, last5 |-> <<0, 0, 0, 1, 0>>, rest |-> a],
      [digits |-> 6, last5 |-> <<0, 0, 0, 0, 1>>, rest |-> a],
      [digits |-> None, last5 |-> <<1, 1, 0, 1, 0>>, rest |-> a],
      [digits |-> 1, last5 |-> None, rest |-> a],
      [digits |-> 1, last5 |-> <<2, 1, 1, 1, 1>>, rest |-> a] }

=============================================================================
