---------------------------- MODULE MCBenchmarks ----------------------------
(* A small instance of Benchmarks: two lowest-latency groups and a source. *)
EXTENDS Benchmarks, TLC

CONSTANTS g1, g2, s1, n1

MCOrder == <<g1, g2>>
=============================================================================
