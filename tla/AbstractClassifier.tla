------------------------- MODULE AbstractClassifier -------------------------
(***************************************************************************)
(* What the classification core promises, independent of tries and trees: *)
(* build takes the rule list once and fixes classify, a pure function of  *)
(* the 5-tuple: the rules whose five fields all match it.  The caller sees *)
(* the returned int only, i.e. the low word of the mask: rules             *)
(* 0..WordBits-1.                                                          *)
(***************************************************************************)
EXTENDS Integers, Sequences

CONSTANTS
  Width,      \* address bits
  Ports,      \* port values
  NumRules,   \* rules in the list handed to build
  WordBits,   \* rules per mask word (32)
  RuleSpace,  \* the rule records a rule file may produce
  ProtoIds    \* protocol ids a caller may pass

VARIABLES
  rules,   \* the rule list, by index + 1
  built,   \* build has run
  classify \* classify[t]: the rules reported for tuple t

vars == <<rules, built, classify>>

RuleIdx == 0..(NumRules - 1)
Addr    == 0..(2^Width - 1)
Tuples  == Addr \X Addr \X ProtoIds \X Ports \X Ports

\* Address a lies in the m-bit prefix of pa.
PrefixCovers(a, pa, m) == a \div 2^(Width - m) = pa \div 2^(Width - m)

\* The four geometric fields of rule r hold for tuple t.
HitsFields(r, t) ==
  /\ PrefixCovers(t[1], r.srcAddr, r.srcMask)
  /\ PrefixCovers(t[2], r.desAddr, r.desMask)
  /\ r.srcPortStart <= t[4] /\ t[4] <= r.srcPortEnd
  /\ r.desPortStart <= t[5] /\ t[5] <= r.desPortEnd

Matches(r, t) == HitsFields(r, t) /\ r.protocol = t[3]

Classification(rs, t) ==
  {i \in RuleIdx : i < WordBits /\ Matches(rs[i + 1], t)}

Init ==
  /\ rules = <<>>
  /\ built = FALSE
  /\ classify = [t \in Tuples |-> {}]

Build(rs) ==
  /\ ~built
  /\ rules' = rs
  /\ built' = TRUE
  /\ classify' = [t \in Tuples |-> Classification(rs, t)]

Next == \E rs \in [1..NumRules -> RuleSpace] : Build(rs)

Spec == Init /\ [][Next]_vars
=============================================================================
