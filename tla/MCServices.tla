------------------------------ MODULE MCServices ------------------------------
(* Values for the constants of Services                                       *)
EXTENDS Services

TwoStarts == {1, 2}
ShorterDigits == [i \in Starts |-> 6 - i]
=============================================================================
