----------------------------- MODULE MCBenchmark -----------------------------
(***************************************************************************)
(* An instance of BenchmarkRunner for TLC.                                 *)
(***************************************************************************)
EXTENDS BenchmarkRunner

(* Bound: nothing is looked at after the last run.                          *)
LastRunIsNotOver == Running \/ runs < MaxRuns
=============================================================================
