----------------------------- MODULE Classifier -----------------------------
(***************************************************************************)
(* The firewall's classification core composed: firewall_rule_construct   *)
(* (src/examples/firewall/firewall_rules.c) builds the source and         *)
(* destination address tries, the source and destination port trees and   *)
(* protocolHash from one rule list; firewall_5tuple_handler               *)
(* (firewall_process.c) ANDs the five per-dimension masks and returns the  *)
(* low word; it changes nothing, so it is an operator over every tuple,    *)
(* not an action.  The per-dimension code is the operators of AddrTrie and *)
(* PortTree; the _des_ copies in the code differ from the _src_ ones only  *)
(* in names and braces, so one instance serves each.                      *)
(***************************************************************************)
EXTENDS Integers, Sequences, FiniteSets

CONSTANTS
  Width,      \* address bits (32)
  Ports,      \* port values rules and packets carry
  NumRules,   \* rule_num: construct_rules always passes RULESIZE
  WordBits,   \* rules per matchRules word (32)
  TrieCap,    \* SRC_ADDR_TRIE_SIZE / DES_ADDR_TRIE_SIZE
  TreeCap,    \* SRC_PORT_TREE_SIZE / DES_PORT_TREE_SIZE
  QueueSize,  \* srcPortQueue / desPortQueue length (RULESIZE)
  RuleSpace,  \* rule records construct_rules may produce
  ProtoIds    \* proto_id values a caller passes

TYPE_TCP           == 1
PROTOCOL_HASH_SIZE == 4
Slots   == 0..(PROTOCOL_HASH_SIZE * 4 - 1)
RuleIdx == 0..(NumRules - 1)
Addr    == 0..(2^Width - 1)

ASSUME ProtoIds \subseteq Slots /\ NumRules <= 4 * WordBits

VARIABLES
  srcAddrTrie, desAddrTrie,  \* the trie arenas
  srcPortTree, desPortTree,  \* the port-tree arenas
  protocolHash,              \* protocolHash[k]: rules whose bit is set there
  rules,                     \* the fwRule array, as the build leaves it
  parsedProtocol,            \* protocol each rule had before the build
  built                      \* firewall_rule_construct has returned

vars == <<srcAddrTrie, desAddrTrie, srcPortTree, desPortTree, protocolHash,
          rules, parsedProtocol, built>>

\* The per-dimension code.  The counters and roots are locals of
\* firewall_rule_construct, so they are arguments, never state.
SrcTrie == INSTANCE AddrTrie WITH Cap <- TrieCap, trie <- srcAddrTrie,
                                  count <- 0, rules <- <<>>, answer <- <<>>
DesTrie == INSTANCE AddrTrie WITH Cap <- TrieCap, trie <- desAddrTrie,
                                  count <- 0, rules <- <<>>, answer <- <<>>
SrcTree == INSTANCE PortTree WITH Cap <- TreeCap, InitStart <- 0,
             tree <- srcPortTree, root <- 0, count <- 0, rules <- <<>>,
             built <- built, answer <- <<>>
DesTree == INSTANCE PortTree WITH Cap <- TreeCap, InitStart <- 3,
             tree <- desPortTree, root <- 0, count <- 0, rules <- <<>>,
             built <- built, answer <- <<>>

EmptyHash == [k \in Slots |-> {}]

\* init(): every arena and protocolHash zeroed, desPortTree[0].startPort 3.
Init ==
  /\ srcAddrTrie = SrcTrie!EmptyTrie
  /\ desAddrTrie = DesTrie!EmptyTrie
  /\ srcPortTree = SrcTree!EmptyTree
  /\ desPortTree = DesTree!EmptyTree
  /\ protocolHash = EmptyHash
  /\ rules = <<>>
  /\ parsedProtocol = <<>>
  /\ built = FALSE

\* Seeded fault: the rule's bit one position off.
BuildSrcTrieNodeBitOffByOne(t, cnt, r, i) ==
  SrcTrie!TrieInsert(t, cnt, r.srcAddr, r.srcMask, i + 1)

BuildSrcTrieNode(t, cnt, r, i) ==
  SrcTrie!TrieInsert(t, cnt, r.srcAddr, r.srcMask, i)

\* Seeded fault: the destination trie walked with the source mask.
BuildDesTrieNodeSrcMask(t, cnt, r, i) ==
  DesTrie!TrieInsert(t, cnt, r.desAddr, r.srcMask, i)

BuildDesTrieNode(t, cnt, r, i) ==
  DesTrie!TrieInsert(t, cnt, r.desAddr, r.desMask, i)

InsertSrcTreeNode(t, rt, cnt, r, i) ==
  SrcTree!TreeInsert(t, rt, cnt, r.srcPortStart, r.srcPortEnd, i)

InsertDesTreeNode(t, rt, cnt, r, i) ==
  DesTree!TreeInsert(t, rt, cnt, r.desPortStart, r.desPortEnd, i)

\* The protocolHash entry rule i's bit goes to: protocol + 4 * word, the
\* fourth word taking every i >= 96.
ProtocolSlot(proto, i) ==
  proto + 4 * (IF i < 3 * WordBits THEN i \div WordBits ELSE 3)

(***************************************************************************)
(* The for loop of firewall_rule_construct.  An iteration inserts rule i   *)
(* into the two tries, protocolHash and the two trees; each insert touches *)
(* only its own arena and counter, so the loop's final tables are those of *)
(* five loops, one per structure, over the rules in index order.  Each     *)
(* loop returns the singleton set of its result: binding an iteration's    *)
(* state by \in makes TLC evaluate it once.                                *)
(***************************************************************************)
RECURSIVE SrcTrieLoop(_, _, _, _)
SrcTrieLoop(t, cnt, rs, i) ==
  IF i >= Len(rs) THEN {t}
  ELSE UNION {SrcTrieLoop(x.trie, x.count, rs, i + 1) :
                x \in {BuildSrcTrieNode(t, cnt, rs[i + 1], i)}}

RECURSIVE DesTrieLoop(_, _, _, _)
DesTrieLoop(t, cnt, rs, i) ==
  IF i >= Len(rs) THEN {t}
  ELSE UNION {DesTrieLoop(x.trie, x.count, rs, i + 1) :
                x \in {BuildDesTrieNode(t, cnt, rs[i + 1], i)}}

\* protocolHash after the loop: rule i's bit in its slot for TYPE_TCP.
ProtocolLoop(rs) ==
  [k \in Slots |-> {i \in 0..(Len(rs) - 1) : ProtocolSlot(TYPE_TCP, i) = k}]

\* A tree loop's result: the arena, its root and its counter.
RECURSIVE SrcTreeLoop(_, _, _, _, _)
SrcTreeLoop(t, rt, cnt, rs, i) ==
  IF i >= Len(rs) THEN {[tree |-> t, root |-> rt, count |-> cnt]}
  ELSE UNION {SrcTreeLoop(x.tree, x.root, x.count, rs, i + 1) :
                x \in {InsertSrcTreeNode(t, rt, cnt, rs[i + 1], i)}}

RECURSIVE DesTreeLoop(_, _, _, _, _)
DesTreeLoop(t, rt, cnt, rs, i) ==
  IF i >= Len(rs) THEN {[tree |-> t, root |-> rt, count |-> cnt]}
  ELSE UNION {DesTreeLoop(x.tree, x.root, x.count, rs, i + 1) :
                x \in {InsertDesTreeNode(t, rt, cnt, rs[i + 1], i)}}

CalculateSrcTreeMax(t, rt, n) == SrcTree!TreeMax(t, rt, n)

CalculateDesTreeMax(t, rt, n) == DesTree!TreeMax(t, rt, n)

\* firewall_rule_construct(rules, rule_num): init(), the loop (which also
\* overwrites every rule's protocol with TYPE_TCP), then both max sweeps.
FirewallRuleConstruct(rs) ==
  /\ ~built
  /\ srcAddrTrie' \in SrcTrieLoop(SrcTrie!EmptyTrie, 0, rs, 0)
  /\ desAddrTrie' \in DesTrieLoop(DesTrie!EmptyTrie, 0, rs, 0)
  /\ protocolHash' = ProtocolLoop(rs)
  /\ \E st \in SrcTreeLoop(SrcTree!EmptyTree, 0, 0, rs, 0) :
       srcPortTree' = CalculateSrcTreeMax(st.tree, st.root, st.count)
  /\ \E st \in DesTreeLoop(DesTree!EmptyTree, 0, 0, rs, 0) :
       desPortTree' = CalculateDesTreeMax(st.tree, st.root, st.count)
  /\ rules' = [k \in DOMAIN rs |-> [rs[k] EXCEPT !.protocol = TYPE_TCP]]
  /\ parsedProtocol' = [k \in DOMAIN rs |-> rs[k].protocol]
  /\ built' = TRUE

\* The five per-dimension loops of firewall_5tuple_handler.
SrcAddrLookup(a) == SrcTrie!AddrLookup(srcAddrTrie, a)

DesAddrLookup(a) == DesTrie!AddrLookup(desAddrTrie, a)

\* Word 0 of the protocol mask: protocolHash[proto_id].
ProtocolLookup(proto) == protocolHash[proto]

SrcPortLookup(p) == SrcTree!PortQuery(srcPortTree, p).matched

DesPortLookup(p) == DesTree!PortQuery(desPortTree, p).matched

\* firewall_5tuple_handler: the AND of the five masks, word 0 returned.
Firewall5TupleHandler(sa, da, proto, sp, dp) ==
  LET res == SrcAddrLookup(sa) \cap DesAddrLookup(da) \cap ProtocolLookup(proto)
             \cap SrcPortLookup(sp) \cap DesPortLookup(dp)
  IN {i \in res : i < WordBits}

Tuples == Addr \X Addr \X ProtoIds \X Ports \X Ports

\* The handler's answer for each tuple a caller may pass.
Classification ==
  [t \in Tuples |-> Firewall5TupleHandler(t[1], t[2], t[3], t[4], t[5])]

\* main calls setup_rules_5tuple once; the tables are read-only afterwards.
Next == \E rs \in [1..NumRules -> RuleSpace] : FirewallRuleConstruct(rs)

Spec == Init /\ [][Next]_vars

TypeOK ==
  /\ \A t \in {srcAddrTrie, desAddrTrie} :
       t \in [0..(TrieCap - 1) -> [matchRules : SUBSET RuleIdx,
                                  leftChild : 0..(TrieCap - 1),
                                  rightChild : 0..(TrieCap - 1)]]
  /\ \A t \in {srcPortTree, desPortTree} :
       \A n \in 0..(TreeCap - 1) : t[n].matchRules \subseteq RuleIdx
  /\ protocolHash \in [Slots -> SUBSET RuleIdx]
  /\ rules \in Seq(RuleSpace \cup {[r EXCEPT !.protocol = TYPE_TCP] : r \in RuleSpace})
  /\ Len(rules) \in {0, NumRules}
  /\ parsedProtocol \in Seq(Int)
  /\ built \in BOOLEAN

(***************************************************************************)
(* Properties.                                                             *)
(***************************************************************************)

\* The rules as the caller handed them, protocol included.
ParsedRules == [k \in DOMAIN rules |-> [rules[k] EXCEPT !.protocol = parsedProtocol[k]]]

Abs == INSTANCE AbstractClassifier
         WITH rules <- ParsedRules,
              classify <- IF built THEN Classification
                                   ELSE [t \in Tuples |-> {}]

\* The classifier implements the abstract classification: every answer of
\* firewall_5tuple_handler, for every tuple, is the set of (low-word) rules
\* matching all five fields of the tuple, as parsed.
AbstractClassification == Abs!Spec

\* The first rule of a dimension whose prefix needs a trie node.
FirstAllocOf(mask(_)) ==
  LET nz == {i \in RuleIdx : mask(rules[i + 1]) > 0}
  IN IF nz = {} THEN NumRules ELSE CHOOSE i \in nz : \A k \in nz : i <= k

\* The rules a known slip of one dimension affects: rule 0 (left in the
\* port trees' sentinel node), the first allocating rule of each trie
\* (counter starting at 0), and full-length prefixes (never walked to).
Damaged(i) ==
  \/ i = 0
  \/ i = FirstAllocOf(LAMBDA r : r.srcMask)
  \/ i = FirstAllocOf(LAMBDA r : r.desMask)
  \/ rules[i + 1].srcMask = Width
  \/ rules[i + 1].desMask = Width

\* Composed over the five structures, the slips stay confined to the rules
\* they hit: every other rule is reported exactly when the tuple's protocol
\* is TYPE_TCP, the rule is in the low word, and its four geometric fields
\* hold -- no interaction of tries, trees and protocolHash (shared nodes,
\* rotations, the max sweep, the word split) adds or loses a match.
ExactBesidesDamaged ==
  built =>
    \A t \in Tuples :
      LET matched == Firewall5TupleHandler(t[1], t[2], t[3], t[4], t[5])
      IN \A i \in RuleIdx : ~Damaged(i) =>
           (i \in matched <=>
              /\ t[3] = TYPE_TCP
              /\ i < WordBits
              /\ Abs!HitsFields(rules[i + 1], t))
=============================================================================
