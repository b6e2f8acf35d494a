------------------------------ MODULE MCRollup ------------------------------
(* Instance of Rollup for TLC: the constants are given in the cfg files. *)
EXTENDS Rollup
=============================================================================
