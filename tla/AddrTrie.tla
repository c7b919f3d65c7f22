------------------------------ MODULE AddrTrie ------------------------------
(***************************************************************************)
(* The address dimension of the firewall classifier: the binary trie of    *)
(* trieAddrNode records built by build_src_trie_node                       *)
(* (src/examples/firewall/firewall_rules.c) and walked by the address loop *)
(* of firewall_5tuple_handler (firewall_process.c).  Source and            *)
(* destination tries run the same code on separate arrays.                 *)
(*                                                                         *)
(* Addresses are Width bits wide (32 in the code), read MSB first; a       *)
(* matchRules bitset is the set of rule indices it holds.                  *)
(***************************************************************************)
EXTENDS Integers, Sequences, FiniteSets

CONSTANTS
  Width,     \* address bits (32)
  NumRules,  \* rules inserted (RULESIZE)
  Cap        \* arena size (SRC_ADDR_TRIE_SIZE)

ASSUME Width \in Nat \ {0} /\ NumRules \in Nat \ {0} /\ Cap \in Nat \ {0}

Nil     == 0             \* node 0 is the root; child 0 means "no child"
NodeId  == 0..(Cap - 1)
RuleIdx == 0..(NumRules - 1)
Addr    == 0..(2^Width - 1)
MaskLen == 0..Width

\* Bit j (1 = most significant) of address a: (a >> (32 - j)) % 2.
Bit(a, j) == (a \div 2^(Width - j)) % 2

\* The rule prefixes: an address with its bits past the mask cleared.
Prefixes == {pm \in Addr \X MaskLen : pm[1] % 2^(Width - pm[2]) = 0}

VARIABLES
  trie,    \* trie[n]: the trieAddrNode at arena index n
  count,   \* srcAddrTrieCount: the arena's bump counter
  rules,   \* <<address, mask>> of the rules inserted so far, by index
  answer   \* the last lookup: the address and the rules it matched

vars == <<trie, count, rules, answer>>

NoAnswer == [addr |-> -1, matched |-> {}]

\* The arena as init() leaves it.
EmptyTrie == [n \in NodeId |-> [matchRules |-> {}, leftChild |-> Nil,
                                rightChild |-> Nil]]

Init ==
  /\ trie = EmptyTrie
  /\ count = 0
  /\ rules = <<>>
  /\ answer = NoAnswer

\* The for loop of build_src_trie_node from level j on: follow the child
\* for bit j, creating it from the bump counter when absent.  Returns the
\* node reached after mask bits and the counter.
RECURSIVE Descend(_, _, _, _, _, _)
Descend(t, cnt, idx, a, mask, j) ==
  IF j > mask THEN [trie |-> t, count |-> cnt, node |-> idx]
  ELSE LET side == IF Bit(a, j) = 0 THEN "leftChild" ELSE "rightChild"
       IN IF t[idx][side] = Nil
          THEN Descend([t EXCEPT ![idx][side] = cnt], cnt + 1, cnt,
                       a, mask, j + 1)
          ELSE Descend(t, cnt, t[idx][side], a, mask, j + 1)

\* Seeded fault: the rule's bit set one position off (1 << (32 - i)).
TrieInsertBitOffByOne(t, cnt, a, mask, i) ==
  LET d == Descend(t, cnt, 0, a, mask, 1)
  IN [trie |-> [d.trie EXCEPT ![d.node].matchRules = @ \cup {i + 1}],
      count |-> d.count]

\* build_src_trie_node for rule i: walk/extend the path of its prefix,
\* then set its bit in the node the path ends at.
TrieInsert(t, cnt, a, mask, i) ==
  LET d == Descend(t, cnt, 0, a, mask, 1)
  IN [trie |-> [d.trie EXCEPT ![d.node].matchRules = @ \cup {i}],
      count |-> d.count]

\* The call for the next rule, i = Len(rules).
Insert(a, mask) ==
  /\ Len(rules) < NumRules
  /\ LET r == TrieInsert(trie, count, a, mask, Len(rules))
     IN /\ trie' = r.trie
        /\ count' = r.count
  /\ rules' = Append(rules, <<a, mask>>)
  /\ UNCHANGED answer

\* Seeded fault: the loop breaks on a missing child before OR-ing in the
\* node it stands on.
RECURSIVE WalkShort(_, _, _, _, _)
WalkShort(t, a, idx, i, acc) ==
  IF i > Width THEN acc
  ELSE LET next == IF Bit(a, i) = 0 THEN t[idx].leftChild
                                    ELSE t[idx].rightChild
       IN IF next = Nil THEN acc
          ELSE WalkShort(t, a, next, i + 1, acc \cup t[idx].matchRules)

\* The srcAddr loop of firewall_5tuple_handler: for i in 1..Width, OR in
\* the node's rules, then step to the child for bit i or stop if absent.
RECURSIVE Walk(_, _, _, _, _)
Walk(t, a, idx, i, acc) ==
  IF i > Width THEN acc
  ELSE LET acc2 == acc \cup t[idx].matchRules
           next == IF Bit(a, i) = 0 THEN t[idx].leftChild
                                    ELSE t[idx].rightChild
       IN IF next = Nil THEN acc2 ELSE Walk(t, a, next, i + 1, acc2)

AddrLookup(t, a) == Walk(t, a, 0, 1, {})

\* A packet address looked up once every rule is in.
Lookup(a) ==
  /\ Len(rules) = NumRules
  /\ answer' = [addr |-> a, matched |-> AddrLookup(trie, a)]
  /\ UNCHANGED <<trie, count, rules>>

Next ==
  \/ \E pm \in Prefixes : Insert(pm[1], pm[2])
  \/ \E a \in Addr : Lookup(a)

Spec == Init /\ [][Next]_vars

TypeOK ==
  /\ trie \in [NodeId -> [matchRules : SUBSET RuleIdx,
                          leftChild : NodeId, rightChild : NodeId]]
  /\ count \in 0..Cap
  /\ rules \in Seq(Prefixes) /\ Len(rules) <= NumRules
  /\ answer \in [addr : Addr \cup {-1}, matched : SUBSET RuleIdx]

(***************************************************************************)
(* Properties.                                                             *)
(***************************************************************************)

\* Rule i's prefix covers address a.
Covers(i, a) ==
  LET pm == rules[i + 1]
  IN \A j \in 1..pm[2] : Bit(a, j) = Bit(pm[1], j)

\* The rule whose insertion makes the arena's first allocation: the first
\* with a non-empty prefix (none: NumRules).
FirstAlloc ==
  LET nz == {i \in RuleIdx : rules[i + 1][2] > 0}
  IN IF nz = {} THEN NumRules ELSE CHOOSE i \in nz : \A k \in nz : i <= k

\* The spec's prefix containment: a lookup of an address returns exactly
\* the rules whose prefix covers it.
PrefixContainment ==
  answer # NoAnswer =>
    answer.matched = {i \in RuleIdx : Covers(i, answer.addr)}

\* What the trie does deliver: every rule but the one that made the first
\* allocation, with a prefix shorter than Width, is matched by exactly the
\* addresses it covers -- the trie shares nodes between rules, yet the
\* first rule's misplaced path never leaks into another rule's matches.
PrefixMatchBesidesFirstAlloc ==
  answer # NoAnswer =>
    \A i \in RuleIdx :
      i # FirstAlloc /\ rules[i + 1][2] < Width =>
        (i \in answer.matched <=> Covers(i, answer.addr))
=============================================================================
