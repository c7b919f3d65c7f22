------------------------------ MODULE PortTree ------------------------------
(***************************************************************************)
(* The port dimension of the firewall classifier                           *)
(* (src/examples/firewall/firewall_rules.c, firewall_process.c): an arena  *)
(* of portTreeNode records forming a red-black tree keyed by               *)
(* (startPort, endPort), built by insert_src_tree_node + color_src_tree,   *)
(* augmented by calculate_src_tree_max, and searched breadth-first by      *)
(* firewall_5tuple_handler.  The source and destination trees run the same *)
(* code on separate arrays; this module is one of them.                    *)
(*                                                                         *)
(* Data abstraction: a matchRules bitset (four 32-bit words, rule i at bit *)
(* 31-i of word i \div 32) is the set of rule indices it holds.            *)
(***************************************************************************)
EXTENDS Integers, Sequences, FiniteSetsExt

CONSTANTS
  Cap,        \* arena size (SRC_PORT_TREE_SIZE); node ids 0..Cap-1
  Ports,      \* port values rules and packets may carry
  NumRules,   \* rules inserted before the max sweep (RULESIZE)
  QueueSize,  \* length of the query's srcPortQueue array (RULESIZE)
  InitStart   \* startPort init() leaves in node 0 (0 for src, 3 for des)

ASSUME Cap \in Nat \ {0} /\ NumRules \in 1..(Cap - 1) /\ QueueSize \in Nat

Nil   == 0                \* node 0: the nil sentinel
WHITE == 0
RED   == 1
BLACK == 2
NodeId  == 0..(Cap - 1)
RuleIdx == 0..(NumRules - 1)

VARIABLES
  tree,    \* tree[n]: the portTreeNode at arena index n
  root,    \* rootSrc of firewall_rule_construct
  count,   \* srcPortTreeCount: next arena index to hand out
  rules,   \* the port ranges of the rules inserted so far, in index order
  built,   \* calculate_src_tree_max has run: the tree is read-only now
  answer   \* the last port query: the port, the matched rules, overflow

vars == <<tree, root, count, rules, built, answer>>

NoAnswer == [port |-> -1, matched |-> {}, overflow |-> FALSE]

EmptyNode == [parent |-> Nil, leftChild |-> Nil, rightChild |-> Nil,
              color |-> WHITE, matchRules |-> {},
              startPort |-> 0, endPort |-> 0, max |-> 0]

\* The arena as init() leaves it.
EmptyTree == [n \in NodeId |->
                IF n = 0 THEN [EmptyNode EXCEPT !.startPort = InitStart]
                         ELSE EmptyNode]

Init ==
  /\ tree = EmptyTree
  /\ root = Nil
  /\ count = 0
  /\ rules = <<>>
  /\ built = FALSE
  /\ answer = NoAnswer

(***************************************************************************)
(* Building.  Every helper takes the arena and returns the new one, so an  *)
(* action applies a whole C function, loops included.                      *)
(***************************************************************************)

\* Seeded fault: the rule bit shifted one position too far (1 << (32 - i)).
PutRuleOffByOne(t, idx, s, e, i, c) ==
  [t EXCEPT ![idx].color = c, ![idx].startPort = s, ![idx].endPort = e,
            ![idx].matchRules = @ \cup {i + 1}, ![idx].max = e]

\* The fields written into a node when rule i is put in it.
PutRule(t, idx, s, e, i, c) ==
  [t EXCEPT ![idx].color = c, ![idx].startPort = s, ![idx].endPort = e,
            ![idx].matchRules = @ \cup {i}, ![idx].max = e]

\* The descent loop: from idx, the node holding (s, e) or the parent and
\* side a new node for (s, e) hangs from.  Start first, end on ties.
RECURSIVE FindSlot(_, _, _, _)
FindSlot(t, idx, s, e) ==
  IF s = t[idx].startPort /\ e = t[idx].endPort
  THEN [dup |-> TRUE, node |-> idx, goLeft |-> FALSE]
  ELSE LET goLeft == \/ s < t[idx].startPort
                     \/ s = t[idx].startPort /\ e < t[idx].endPort
           next   == IF goLeft THEN t[idx].leftChild ELSE t[idx].rightChild
       IN IF next = Nil THEN [dup |-> FALSE, node |-> idx, goLeft |-> goLeft]
                        ELSE FindSlot(t, next, s, e)

\* Seeded fault: left_rotate relinks x's parent through leftChild whichever
\* side x hangs on (the mirror test of right_rotate pasted in unchanged).
LeftRotateOneSided(t, rt, x) ==
  LET y  == t[x].rightChild
      t1 == [t EXCEPT ![x].rightChild = t[y].leftChild]
      t2 == IF t1[y].leftChild # Nil
            THEN [t1 EXCEPT ![t1[y].leftChild].parent = x] ELSE t1
      t3 == [t2 EXCEPT ![y].parent = t2[x].parent]
      xp == t3[x].parent
      t4 == IF rt = x THEN t3 ELSE [t3 EXCEPT ![xp].leftChild = y]
  IN [tree |-> [t4 EXCEPT ![y].leftChild = x, ![x].parent = y],
      root |-> IF rt = x THEN y ELSE rt]

\* The inlined left_rotate(x) of color_src_tree, statement by statement.
LeftRotate(t, rt, x) ==
  LET y  == t[x].rightChild
      t1 == [t EXCEPT ![x].rightChild = t[y].leftChild]
      t2 == IF t1[y].leftChild # Nil
            THEN [t1 EXCEPT ![t1[y].leftChild].parent = x] ELSE t1
      t3 == [t2 EXCEPT ![y].parent = t2[x].parent]
      xp == t3[x].parent
      t4 == IF rt = x THEN t3
            ELSE IF x = t3[xp].leftChild THEN [t3 EXCEPT ![xp].leftChild = y]
            ELSE [t3 EXCEPT ![xp].rightChild = y]
  IN [tree |-> [t4 EXCEPT ![y].leftChild = x, ![x].parent = y],
      root |-> IF rt = x THEN y ELSE rt]

\* The inlined right_rotate(x), the mirror image.
RightRotate(t, rt, x) ==
  LET y  == t[x].leftChild
      t1 == [t EXCEPT ![x].leftChild = t[y].rightChild]
      t2 == IF t1[y].rightChild # Nil
            THEN [t1 EXCEPT ![t1[y].rightChild].parent = x] ELSE t1
      t3 == [t2 EXCEPT ![y].parent = t2[x].parent]
      xp == t3[x].parent
      t4 == IF rt = x THEN t3
            ELSE IF x = t3[xp].rightChild THEN [t3 EXCEPT ![xp].rightChild = y]
            ELSE [t3 EXCEPT ![xp].leftChild = y]
  IN [tree |-> [t4 EXCEPT ![y].rightChild = x, ![x].parent = y],
      root |-> IF rt = x THEN y ELSE rt]

\* Seeded fault: the red-uncle case forgets to turn the grandparent RED.
FixupStepNoGrandpaRed(t, rt, idx, uncle) ==
  LET parent  == t[idx].parent
      grandpa == t[parent].parent
      u == IF parent = t[grandpa].leftChild THEN t[grandpa].rightChild
           ELSE IF parent = t[grandpa].rightChild THEN t[grandpa].leftChild
           ELSE uncle
      isL(c, p) == c = t[p].leftChild
      isR(c, p) == c = t[p].rightChild
      recol == [t EXCEPT ![parent].color = BLACK, ![grandpa].color = RED]
  IN CASE t[u].color = RED ->
            [tree |-> [t EXCEPT ![parent].color = BLACK, ![u].color = BLACK],
             root |-> rt, idx |-> grandpa, uncle |-> u]
       [] isR(idx, parent) /\ isL(parent, grandpa) ->
            LET r == LeftRotate(t, rt, parent)
            IN [tree |-> r.tree, root |-> r.root,
                idx |-> r.tree[idx].leftChild, uncle |-> u]
       [] isL(idx, parent) /\ isR(parent, grandpa) ->
            LET r == RightRotate(t, rt, parent)
            IN [tree |-> r.tree, root |-> r.root,
                idx |-> r.tree[idx].rightChild, uncle |-> u]
       [] isL(idx, parent) /\ isL(parent, grandpa) ->
            LET r == RightRotate(recol, rt, grandpa)
            IN [tree |-> r.tree, root |-> r.root, idx |-> idx, uncle |-> u]
       [] isR(idx, parent) /\ isR(parent, grandpa) ->
            LET r == LeftRotate(recol, rt, grandpa)
            IN [tree |-> r.tree, root |-> r.root, idx |-> idx, uncle |-> u]
       [] OTHER -> [tree |-> t, root |-> rt, idx |-> idx, uncle |-> u]

\* One pass of the while loop of color_src_tree, without the final
\* root recolouring.  uncle is the C variable, kept across passes.
FixupStep(t, rt, idx, uncle) ==
  LET parent  == t[idx].parent
      grandpa == t[parent].parent
      u == IF parent = t[grandpa].leftChild THEN t[grandpa].rightChild
           ELSE IF parent = t[grandpa].rightChild THEN t[grandpa].leftChild
           ELSE uncle
      isL(c, p) == c = t[p].leftChild
      isR(c, p) == c = t[p].rightChild
      recol == [t EXCEPT ![parent].color = BLACK, ![grandpa].color = RED]
  IN CASE t[u].color = RED ->
            [tree |-> [recol EXCEPT ![u].color = BLACK], root |-> rt,
             idx |-> grandpa, uncle |-> u]
       [] isR(idx, parent) /\ isL(parent, grandpa) ->
            LET r == LeftRotate(t, rt, parent)
            IN [tree |-> r.tree, root |-> r.root,
                idx |-> r.tree[idx].leftChild, uncle |-> u]
       [] isL(idx, parent) /\ isR(parent, grandpa) ->
            LET r == RightRotate(t, rt, parent)
            IN [tree |-> r.tree, root |-> r.root,
                idx |-> r.tree[idx].rightChild, uncle |-> u]
       [] isL(idx, parent) /\ isL(parent, grandpa) ->
            LET r == RightRotate(recol, rt, grandpa)
            IN [tree |-> r.tree, root |-> r.root, idx |-> idx, uncle |-> u]
       [] isR(idx, parent) /\ isR(parent, grandpa) ->
            LET r == LeftRotate(recol, rt, grandpa)
            IN [tree |-> r.tree, root |-> r.root, idx |-> idx, uncle |-> u]
       [] OTHER -> [tree |-> t, root |-> rt, idx |-> idx, uncle |-> u]

\* color_src_tree: loop while the parent of idx is RED, forcing the root
\* BLACK after every pass.  fuel bounds the loop at the arena size, which
\* a well-formed tree never reaches (each pass moves idx up or rotates).
RECURSIVE Fixup(_, _, _, _, _)
Fixup(t, rt, idx, uncle, fuel) ==
  IF t[t[idx].parent].color # RED \/ fuel = 0
  THEN [tree |-> t, root |-> rt]
  ELSE LET s == FixupStep(t, rt, idx, uncle)
       IN Fixup([s.tree EXCEPT ![s.root].color = BLACK], s.root, s.idx,
                s.uncle, fuel - 1)

\* insert_src_tree_node: rule i with ports [s, e] into arena t with root rt
\* and counter cnt; the new arena, root and counter.
TreeInsert(t, rt, cnt, s, e, i) ==
  LET t0 == [t EXCEPT ![0].color = BLACK]
  IN IF rt = Nil
     THEN [tree |-> PutRule(t0, cnt, s, e, i, BLACK), root |-> cnt,
           count |-> cnt + 1]
     ELSE LET slot == FindSlot(t0, rt, s, e)
              p    == slot.node
          IN IF slot.dup
             THEN [tree |-> [t0 EXCEPT ![p].matchRules = @ \cup {i}],
                   root |-> rt, count |-> cnt]
             ELSE LET t1 == [PutRule(t0, cnt, s, e, i, RED)
                               EXCEPT ![cnt].parent = p]
                      t2 == IF slot.goLeft
                            THEN [t1 EXCEPT ![p].leftChild = cnt]
                            ELSE [t1 EXCEPT ![p].rightChild = cnt]
                      f  == Fixup(t2, rt, cnt, Nil, Cap)
                  IN [tree |-> f.tree, root |-> f.root, count |-> cnt + 1]

\* The call for the next rule, i = Len(rules).
Insert(s, e) ==
  /\ ~built
  /\ Len(rules) < NumRules
  /\ LET r == TreeInsert(tree, root, count, s, e, Len(rules))
     IN /\ tree' = r.tree
        /\ root' = r.root
        /\ count' = r.count
  /\ rules' = Append(rules, <<s, e>>)
  /\ UNCHANGED <<built, answer>>

\* Seeded fault: the walk stops one level short, below the root.
RECURSIVE WalkUpShort(_, _, _, _)
WalkUpShort(t, rt, idx, fuel) ==
  IF idx = rt \/ t[idx].parent = rt \/ fuel = 0 THEN t
  ELSE LET p  == t[idx].parent
           t1 == IF t[p].max < t[idx].max
                 THEN [t EXCEPT ![p].max = t[idx].max] ELSE t
       IN WalkUpShort(t1, rt, p, fuel - 1)

\* The inner while of calculate_src_tree_max: from a leaf up to the root,
\* raising each parent's max to its child's.
RECURSIVE WalkUp(_, _, _, _)
WalkUp(t, rt, idx, fuel) ==
  IF idx = rt \/ fuel = 0 THEN t
  ELSE LET p  == t[idx].parent
           t1 == IF t[p].max < t[idx].max
                 THEN [t EXCEPT ![p].max = t[idx].max] ELSE t
       IN WalkUp(t1, rt, p, fuel - 1)

\* The outer for loop: every leaf among nodes i..n-1, in index order.
RECURSIVE MaxSweep(_, _, _, _)
MaxSweep(t, rt, i, n) ==
  IF i >= n THEN t
  ELSE MaxSweep(IF t[i].leftChild = Nil /\ t[i].rightChild = Nil
                THEN WalkUp(t, rt, i, Cap) ELSE t, rt, i + 1, n)

\* calculate_src_tree_max over an arena of n nodes with root rt; it also
\* parks the root index in node 0's endPort, where the query looks for it.
TreeMax(t, rt, n) == [MaxSweep(t, rt, 1, n) EXCEPT ![0].endPort = rt]

\* The call, once all rules are in.
CalculateMax ==
  /\ ~built
  /\ Len(rules) = NumRules
  /\ tree' = TreeMax(tree, root, count)
  /\ built' = TRUE
  /\ UNCHANGED <<root, count, rules, answer>>

(***************************************************************************)
(* Query: the srcPortQueue breadth-first search of firewall_5tuple_handler.*)
(* queue holds the node ids enqueued so far, head the next to process.     *)
(* An enqueue past QueueSize entries would write outside the array: the    *)
(* search stops there and reports overflow.                                *)
(***************************************************************************)
NonNil(s) == SelectSeq(s, LAMBDA c : c # Nil)

\* Seeded fault: the subtree is pruned when port >= max instead of > max.
RECURSIVE BfsPruneEq(_, _, _, _, _)
BfsPruneEq(t, p, queue, head, acc) ==
  IF Len(queue) > QueueSize
  THEN [matched |-> acc, overflow |-> TRUE]
  ELSE IF head > Len(queue)
  THEN [matched |-> acc, overflow |-> FALSE]
  ELSE LET n    == t[queue[head]]
           both == NonNil(<<n.leftChild, n.rightChild>>)
       IN CASE p >= n.max ->
                 BfsPruneEq(t, p, queue, head + 1, acc)
            [] p < n.startPort ->
                 BfsPruneEq(t, p, queue \o NonNil(<<n.leftChild>>), head + 1, acc)
            [] p <= n.endPort ->
                 BfsPruneEq(t, p, queue \o both, head + 1, acc \cup n.matchRules)
            [] OTHER ->
                 BfsPruneEq(t, p, queue \o both, head + 1, acc)

RECURSIVE Bfs(_, _, _, _, _)
Bfs(t, p, queue, head, acc) ==
  IF Len(queue) > QueueSize
  THEN [matched |-> acc, overflow |-> TRUE]
  ELSE IF head > Len(queue)
  THEN [matched |-> acc, overflow |-> FALSE]
  ELSE LET n    == t[queue[head]]
           both == NonNil(<<n.leftChild, n.rightChild>>)
       IN CASE p > n.max ->
                 Bfs(t, p, queue, head + 1, acc)
            [] p < n.startPort ->
                 Bfs(t, p, queue \o NonNil(<<n.leftChild>>), head + 1, acc)
            [] p <= n.endPort ->
                 Bfs(t, p, queue \o both, head + 1, acc \cup n.matchRules)
            [] OTHER ->
                 Bfs(t, p, queue \o both, head + 1, acc)

PortQuery(t, p) == Bfs(t, p, <<t[0].endPort>>, 1, {})

\* A packet's port looked up in the built tree.
Classify(p) ==
  /\ built
  /\ LET q == PortQuery(tree, p)
     IN answer' = [port |-> p, matched |-> q.matched, overflow |-> q.overflow]
  /\ UNCHANGED <<tree, root, count, rules, built>>

Next ==
  \/ \E s, e \in Ports : s <= e /\ Insert(s, e)
  \/ CalculateMax
  \/ \E p \in Ports : Classify(p)

Spec == Init /\ [][Next]_vars

(***************************************************************************)
(* The shape the build leaves behind.                                      *)
(***************************************************************************)

\* The nodes of the subtree under n (fuel guards against cycles).
RECURSIVE Subtree(_, _, _)
Subtree(t, n, fuel) ==
  IF n = Nil \/ fuel = 0 THEN {}
  ELSE {n} \cup Subtree(t, t[n].leftChild, fuel - 1)
           \cup Subtree(t, t[n].rightChild, fuel - 1)

Reach(t, rt) == Subtree(t, rt, Cap)

KeyLess(a, b) ==
  \/ a.startPort < b.startPort
  \/ a.startPort = b.startPort /\ a.endPort < b.endPort

\* The black nodes on every path from n down to nil, or -1 if paths differ.
RECURSIVE BlackHeight(_, _, _)
BlackHeight(t, n, fuel) ==
  IF n = Nil \/ fuel = 0 THEN 1
  ELSE LET l == BlackHeight(t, t[n].leftChild, fuel - 1)
           r == BlackHeight(t, t[n].rightChild, fuel - 1)
       IN IF l = -1 \/ l # r THEN -1
          ELSE l + (IF t[n].color = BLACK THEN 1 ELSE 0)

TypeOK ==
  /\ tree \in [NodeId -> [parent : NodeId, leftChild : NodeId,
                          rightChild : NodeId, color : {WHITE, RED, BLACK},
                          matchRules : SUBSET RuleIdx,
                          startPort : Ports \cup {InitStart} \cup NodeId,
                          endPort : Ports \cup NodeId,
                          max : Ports]]
  /\ root \in NodeId
  /\ count \in 0..Cap
  /\ rules \in Seq(Ports \X Ports) /\ Len(rules) <= NumRules
  /\ built \in BOOLEAN
  /\ answer \in [port : Ports \cup {-1}, matched : SUBSET RuleIdx,
                 overflow : BOOLEAN]

(***************************************************************************)
(* Properties.                                                             *)
(***************************************************************************)

\* After every insert_src_tree_node (descent, allocation and the rotations
\* of color_src_tree), the nodes reachable from rootSrc form a binary
\* search tree on (startPort, endPort) whose parent links agree with the
\* child links, and no allocated node other than node 0 is cut off.
SearchTreeShape ==
  root # Nil =>
    LET R == Reach(tree, root)
    IN /\ R = 1..(count - 1)
       /\ tree[root].parent = Nil
       /\ \A n \in R :
            /\ \A c \in {tree[n].leftChild, tree[n].rightChild} \ {Nil} :
                 tree[c].parent = n
            /\ \A m \in Subtree(tree, tree[n].leftChild, Cap) :
                 KeyLess(tree[m], tree[n])
            /\ \A m \in Subtree(tree, tree[n].rightChild, Cap) :
                 KeyLess(tree[n], tree[m])

\* color_src_tree restores the red-black rules after every insertion: the
\* root is BLACK, no RED node has a RED child, and every path from the
\* root to nil crosses the same number of BLACK nodes.
RedBlackBalance ==
  root # Nil =>
    /\ tree[root].color = BLACK
    /\ BlackHeight(tree, root, Cap) # -1
    /\ \A n \in Reach(tree, root) :
         tree[n].color = RED =>
           \A c \in {tree[n].leftChild, tree[n].rightChild} \ {Nil} :
             tree[c].color = BLACK

\* Once calculate_src_tree_max has run, each node's max is the largest
\* endPort in its subtree, though rotations moved nodes after insertion.
MaxAugmented ==
  built /\ root # Nil =>
    \A n \in Reach(tree, root) :
      tree[n].max = Max({tree[m].endPort : m \in Subtree(tree, n, Cap)})

\* The pruned breadth-first query (skip when port > max, go only left when
\* port < startPort) returns exactly the rules of the tree nodes whose
\* range contains the port, without outgrowing its queue array.
QueryComplete ==
  answer # NoAnswer =>
    /\ ~answer.overflow
    /\ answer.matched =
         UNION {tree[n].matchRules :
                  n \in {m \in Reach(tree, root) :
                           tree[m].startPort <= answer.port
                           /\ answer.port <= tree[m].endPort}}

=============================================================================
