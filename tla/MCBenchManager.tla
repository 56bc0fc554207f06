---------------------------- MODULE MCBenchManager ----------------------------
(* BenchManager with sets of interchangeable model values.                 *)
EXTENDS BenchManager, TLC

\* The ids are only compared with each other.
IdSymmetry == Permutations(Sessions) \cup Permutations(Handlers) \cup Permutations(Jobs)
==============================================================================
