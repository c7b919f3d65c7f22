---------------------------- MODULE MC_Classifier ----------------------------
(* Classifier with 2-bit addresses, ports 0..2, four rules of which the    *)
(* fourth falls in the second mask word, drawn from a rule set covering    *)
(* the zero rule a short rules.in leaves, nested and disjoint prefixes,    *)
(* full-length prefixes, shared and overlapping port ranges and every      *)
(* protocol value rand() % 4 yields.                                       *)
EXTENDS Classifier

Rule(sa, sm, da, dm, sps, spe, dps, dpe, pr) ==
  [srcAddr |-> sa, srcMask |-> sm, desAddr |-> da, desMask |-> dm,
   srcPortStart |-> sps, srcPortEnd |-> spe,
   desPortStart |-> dps, desPortEnd |-> dpe, protocol |-> pr]

MCPorts == 0..2

MCRuleSpace ==
  { Rule(0, 0, 0, 0, 0, 0, 0, 0, 1),   \* zero rule of an unread line
    Rule(2, 1, 0, 0, 0, 2, 1, 1, 1),
    Rule(2, 1, 0, 0, 0, 2, 1, 1, 2),
    Rule(0, 0, 1, 2, 1, 2, 0, 2, 2),
    Rule(0, 1, 2, 1, 0, 1, 1, 2, 1),
    Rule(3, 2, 0, 0, 2, 2, 0, 1, 3),
    Rule(2, 1, 2, 1, 0, 2, 0, 2, 1),
    Rule(0, 0, 0, 1, 1, 1, 2, 2, 0),
    Rule(0, 1, 0, 1, 1, 2, 0, 1, 1),
    Rule(0, 0, 0, 0, 0, 2, 0, 2, 1) }

MCProtoIds == {1, 2}
=============================================================================
