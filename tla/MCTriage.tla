------------------------------ MODULE MCTriage ------------------------------
(***************************************************************************)
(* Instances of TicketTriage for TLC.                                      *)
(***************************************************************************)
EXTENDS TicketTriage

CONSTANTS w1, w2, r1, r2

TargetFirst == [r \in Requests |-> 1]
TargetSpread == [r \in Requests |-> IF r = r1 THEN 1 ELSE NumTickets]
=============================================================================
