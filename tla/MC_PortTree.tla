---------------------------- MODULE MC_PortTree ----------------------------
(* Model-checking instance of PortTree (MC_PortTree.cfg): seven rules     *)
(* with ports 0..2 in an arena of 8 nodes.  Rule 0 is parked in node 0,  *)
(* and the other six build a tree of six nodes, enough for the recolour  *)
(* and rotation cases of color_src_tree.                                  *)
EXTENDS PortTree

MCPorts == 0..2
=============================================================================
