------------------------------ MODULE MC_RouterNF ------------------------------
(* The router NF for TLC: the constants are given in the .cfg files.       *)
EXTENDS RouterNF
=============================================================================
