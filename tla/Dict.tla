-------------------------------- MODULE Dict --------------------------------
(***************************************************************************)
(* The AA tree of dict.c.  A node is a record, a subtree the node at its   *)
(* root; the recursive C functions that return the new root of a subtree   *)
(* are operators on subtrees.  A value is the address of a string that the *)
(* dictionary owns (OD_DUP_ALL); keys are ordered as their comparison      *)
(* orders them.                                                            *)
(***************************************************************************)
EXTENDS Naturals, Sequences, FiniteSetsExt

CONSTANTS
  Keys,       \* naturals, for strings and their order
  Addresses,  \* naturals, of the values
  Duplicates, \* callers add a key again without OD_REPLACE
  Nil

ASSUME DictAssumption ==
  /\ Keys \subseteq Nat /\ Addresses \subseteq Nat /\ Nil \notin Addresses
  /\ Duplicates \in BOOLEAN

VARIABLES
  root,      \* dict->root
  allocated  \* values that have not been freed

vars == <<root, allocated>>
-----------------------------------------------------------------------------
(* Nodes *)

Node(k, v) ==
  [key |-> k, value |-> v, owned |-> TRUE, level |-> 1, left |-> Nil, right |-> Nil]

Level(node) == IF node = Nil THEN 0 ELSE node.level

\* What onion_dict_node_data_free frees.
Freed(node) == IF node.owned THEN {node.value} ELSE {}

Take(node, from) ==
  [node EXCEPT !.key = from.key, !.value = from.value, !.owned = from.owned]

\* skew and split
Skew(node) ==
  IF node # Nil /\ Level(node.left) = Level(node)
    THEN [node.left EXCEPT !.right = [node EXCEPT !.left = node.left.right]]
    ELSE node

RightOf(node) == IF node = Nil THEN Nil ELSE node.right

Split(node) ==
  IF node # Nil /\ Level(RightOf(RightOf(node))) = Level(node)
    THEN [node.right EXCEPT !.left = [node EXCEPT !.right = node.right.left], !.level = @ + 1]
    ELSE node

\* A bug: the right child keeps its level.
DecreaseLevelAlone(node) ==
  LET shouldBe == 1 + Min({Level(node.left), Level(node.right)})
  IN IF shouldBe < node.level THEN [node EXCEPT !.level = shouldBe] ELSE node

DecreaseLevel(node) ==
  LET shouldBe == 1 + Min({Level(node.left), Level(node.right)})
  IN CASE shouldBe >= node.level -> node
       [] shouldBe < node.level /\ shouldBe >= Level(node.right) ->
            [node EXCEPT !.level = shouldBe]
       [] OTHER -> [node EXCEPT !.level = shouldBe, !.right.level = shouldBe]
-----------------------------------------------------------------------------
(* onion_dict_node_add *)

\* The tree, and the values that were freed.
Result(tree, freed) == [tree |-> tree, freed |-> freed]

RECURSIVE Insert(_, _, _)
Insert(node, new, replace) ==
  CASE node = Nil -> Result(new, {})
    [] node # Nil /\ new.key = node.key /\ replace ->
         Result(Take(node, new), Freed(node))
    [] node # Nil /\ new.key < node.key ->
         LET left == Insert(node.left, new, replace)
         IN Result(Split(Skew([node EXCEPT !.left = left.tree])), left.freed)
    [] OTHER ->
         LET right == Insert(node.right, new, replace)
         IN Result(Split(Skew([node EXCEPT !.right = right.tree])), right.freed)

(* onion_dict_node_remove *)

Rebalance(node) ==
  LET low == Skew(DecreaseLevel(node))
      skewed == IF low.right = Nil
                  THEN low
                  ELSE LET right == Skew(low.right)
                       IN [low EXCEPT !.right = [right EXCEPT !.right = Skew(@)]]
      top == Split(skewed)
  IN [top EXCEPT !.right = Split(@)]

RECURSIVE Leftmost(_), Rightmost(_)
Leftmost(node) == IF node.left = Nil THEN node ELSE Leftmost(node.left)
Rightmost(node) == IF node.right = Nil THEN node ELSE Rightmost(node.right)

\* A bug: both nodes free the data.
DisownRightmostNot(node) == node

\* The data moves up: t->data.flags = 0, "no double free later".
RECURSIVE DisownLeftmost(_), DisownRightmost(_)
DisownLeftmost(node) ==
  IF node.left = Nil THEN [node EXCEPT !.owned = FALSE]
                     ELSE [node EXCEPT !.left = DisownLeftmost(@)]
DisownRightmost(node) ==
  IF node.right = Nil THEN [node EXCEPT !.owned = FALSE]
                      ELSE [node EXCEPT !.right = DisownRightmost(@)]

\* A node that is found takes the data of its neighbour, whose key is then removed
\* from the subtree it came from.
RECURSIVE Remove(_, _)
Remove(node, k) ==
  CASE node = Nil -> Result(Nil, {})
    [] node # Nil /\ k < node.key ->
         LET left == Remove(node.left, k)
         IN Result(Rebalance([node EXCEPT !.left = left.tree]), left.freed)
    [] node # Nil /\ k > node.key ->
         LET right == Remove(node.right, k)
         IN Result(Rebalance([node EXCEPT !.right = right.tree]), right.freed)
    [] node # Nil /\ k = node.key /\ node.left = Nil /\ node.right = Nil ->
         Result(Nil, Freed(node))
    [] node # Nil /\ k = node.key /\ node.left = Nil /\ node.right # Nil ->
         LET next == Leftmost(node.right)
             right == Remove(DisownLeftmost(node.right), next.key)
         IN Result(Rebalance([Take(node, next) EXCEPT !.right = right.tree]),
                   Freed(node) \cup right.freed)
    [] OTHER ->
         LET prev == Rightmost(node.left)
             left == Remove(DisownRightmost(node.left), prev.key)
         IN Result(Rebalance([Take(node, prev) EXCEPT !.left = left.tree]),
                   Freed(node) \cup left.freed)

(* onion_dict_find_node *)

RECURSIVE Find(_, _)
Find(node, k) ==
  CASE node = Nil -> Nil
    [] node # Nil /\ k = node.key -> node.value
    [] node # Nil /\ k < node.key -> Find(node.left, k)
    [] OTHER -> Find(node.right, k)

(* onion_dict_node_preorder: every node, from left to right *)

RECURSIVE InOrder(_)
InOrder(node) ==
  IF node = Nil THEN <<>> ELSE InOrder(node.left) \o <<node>> \o InOrder(node.right)
-----------------------------------------------------------------------------
Init == root = Nil /\ allocated = {}

\* The allocator may put a value anywhere free; one place in reach of the key will do.
Free(k) == {a \in Addresses \ allocated : a >= 2 * k}

\* A bug: a key that is there is not looked for.
AddBlind(k, replace) ==
  /\ Free(k) # {}
  /\ LET v == Min(Free(k))
         result == Insert(root, Node(k, v), FALSE)
     IN /\ root' = result.tree
        /\ allocated' = (allocated \cup {v}) \ result.freed

\* onion_dict_add with a copy of the value.
Add(k, replace) ==
  /\ Free(k) # {}
  /\ Duplicates \/ replace \/ Find(root, k) = Nil
  /\ LET v == Min(Free(k))
         result == Insert(root, Node(k, v), replace)
     IN /\ root' = result.tree
        /\ allocated' = (allocated \cup {v}) \ result.freed

\* onion_dict_remove, of a key that need not be there.
Delete(k) ==
  LET result == Remove(root, k)
  IN /\ root' = result.tree
     /\ allocated' = allocated \ result.freed

Next == \E k \in Keys : Delete(k) \/ \E replace \in BOOLEAN : Add(k, replace)

Spec == Init /\ [][Next]_vars
-----------------------------------------------------------------------------
Nodes == InOrder(root)

TypeOK ==
  /\ allocated \subseteq Addresses
  /\ \A i \in 1..Len(Nodes) :
       /\ Nodes[i].key \in Keys /\ Nodes[i].value \in Addresses
       /\ Nodes[i].owned \in BOOLEAN /\ Nodes[i].level \in 1..Len(Nodes)

\* An AA tree after every operation, also after those that rotate several levels:
\* a left child is one level below, a right child at most one, a right grandchild
\* at least one, and a node above the first level has both children.
AATree ==
  /\ TypeOK
  /\ \A i \in 1..Len(Nodes) :
       LET node == Nodes[i]
       IN /\ Level(node.left) = node.level - 1
          /\ Level(node.right) \in {node.level - 1, node.level}
          /\ Level(RightOf(node.right)) < node.level

\* Every node owns its value and no other node has it; nothing that was freed is
\* in the tree, and nothing that is not in the tree is left unfreed: "No double free
\* later, please" (dict.c:417).
ValuesOwned ==
  /\ \A i, j \in 1..Len(Nodes) : Nodes[i].value = Nodes[j].value => i = j
  /\ \A i \in 1..Len(Nodes) : Nodes[i].owned
  /\ {Nodes[i].value : i \in 1..Len(Nodes)} = allocated

\* The tree, as onion_dict_get reads it, is a map.
Map == INSTANCE DictMap WITH Values <- Addresses, content <- [k \in Keys |-> Find(root, k)]

ImplementsMap == Map!Spec
=============================================================================
