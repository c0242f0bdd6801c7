---------------------------- MODULE MCGvsocBuild ----------------------------
(* Two flows and a build by hand on one install of two files.              *)
EXTENDS GvsocBuild, TLC

Symmetric == Permutations(Flows)
=============================================================================
