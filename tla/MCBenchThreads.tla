--------------------------- MODULE MCBenchThreads ---------------------------
(***************************************************************************)
(* Instances of bench_mt for TLC: fewer, as many and more processors than  *)
(* there is room for, shares that come out even and that do not.           *)
(***************************************************************************)
EXTENDS BenchThreads
MCProcessors == 0..4
MCReps       == 0..5
=============================================================================
