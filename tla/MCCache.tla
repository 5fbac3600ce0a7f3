------------------------------ MODULE MCCache -------------------------------
(***************************************************************************)
(* Instances of ReadModelCache for TLC.                                    *)
(***************************************************************************)
EXTENDS ReadModelCache

CONSTANTS w1, q1, c1
=============================================================================
