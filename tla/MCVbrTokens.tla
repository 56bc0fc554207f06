------------------------------ MODULE MCVbrTokens ------------------------------
(***************************************************************************)
(* A small session for TLC.                                                *)
(***************************************************************************)
EXTENDS VbrTokens, TLC

CallerSymmetry == Permutations(Callers)
==============================================================================
