------------------------------ MODULE MCIntake ------------------------------
(***************************************************************************)
(* An instance of TicketIntake for TLC.                                    *)
(***************************************************************************)
EXTENDS TicketIntake

CONSTANTS p1, p2, p3, p4, r1, mail

FirstThreeAlike == [p \in Posts |-> IF p \in {p1, p2, p3} THEN mail ELSE NoKey]
=============================================================================
