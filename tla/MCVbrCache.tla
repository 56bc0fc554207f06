------------------------------ MODULE MCVbrCache ------------------------------
(***************************************************************************)
(* A small session for TLC: interchangeable callers, two cacheable paths,  *)
(* one of which is malformed, and one that is not cached.                  *)
(***************************************************************************)
EXTENDS VbrCache, TLC

CallerSymmetry == Permutations(Callers)
==============================================================================
