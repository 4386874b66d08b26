---------------------------- MODULE MCBenchmark ----------------------------
(* A small instance of BenchmarkProperties for TLC. *)
EXTENDS BenchmarkProperties

CONSTANTS small, large, yes, no

Measure(op, a) == [operation |-> op, artifact |-> a]

\* Every operation, and two cases that share an artifact or do not.
MCWorks ==
    {<<Measure("resource-verify", small), Measure("generate", small)>>,
     <<Measure("inspect", small), Measure("inspect", large)>>}
=============================================================================
