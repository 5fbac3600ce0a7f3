---------------------------- MODULE MCProviders ----------------------------
(***************************************************************************)
(* The default settings of ProviderCalls, with confidences in percent at   *)
(* and around the thresholds.                                              *)
(***************************************************************************)
EXTENDS ProviderCalls

ScoresAroundThresholds == {0, 59, 60, 79, 80, 100}
Categories == {"unknown", "billing"}
Teams == {"triage", "billing_support"}
Priorities == {"normal", "urgent"}
EscalationsWritten == {"none", "manager"}
=============================================================================
