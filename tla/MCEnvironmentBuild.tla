-------------------------- MODULE MCEnvironmentBuild --------------------------
(* EnvironmentBuild for TLC; its cfg files hold the sizes.                 *)
EXTENDS EnvironmentBuild, TLC
==============================================================================
