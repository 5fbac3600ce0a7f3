------------------------------ MODULE MCHistory ------------------------------
(***************************************************************************)
(* An instance of TicketHistory for TLC.                                   *)
(***************************************************************************)
EXTENDS TicketHistory

CONSTANTS w1, w2, q1, c1

TwoByOne == [x \in Writers |-> IF x = w1 THEN 2 ELSE 1]
=============================================================================
