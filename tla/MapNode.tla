------------------------------- MODULE MapNode -------------------------------
(***************************************************************************)
(* The nodes of the AVL tree behind vial_map (src/src/collections/map.c)   *)
(* and the static functions that keep them balanced.  A node is a record;  *)
(* its subtrees are values, so a function that takes a struct              *)
(* vial_map_node ** returns here what it leaves in *p_node.  The height    *)
(* field is data, stale if the code leaves it stale.                       *)
(***************************************************************************)
EXTENDS Integers

\* The NULL pointer, and the outcome of following it.
Nil == <<>>
Crash == [crash |-> TRUE]

\* A freshly allocated node, once vial_map_put has stored the key and the value in it.
Leaf(k, v) == [key |-> k, value |-> v, left |-> Nil, right |-> Nil, height |-> 1]

Larger(a, b) == IF a > b THEN a ELSE b

\* "n != NULL ? n->height : 0"
Height(n) == IF n = Nil THEN 0 ELSE n.height

node_height(n) == IF n = Nil THEN 0 ELSE 1 + Larger(Height(n.left), Height(n.right))

WithHeight(n) == [n EXCEPT !.height = node_height(n)]

\* node_rotate for ROTATION_RIGHT and for ROTATION_LEFT: old_top->height is recomputed
\* before new_top->height.
RotateRight(n) ==
  IF n.left \in {Nil, Crash} THEN Crash
  ELSE WithHeight([n.left EXCEPT !.right = WithHeight([n EXCEPT !.left = n.left.right])])

RotateLeft(n) ==
  IF n.right \in {Nil, Crash} THEN Crash
  ELSE WithHeight([n.right EXCEPT !.left = WithHeight([n EXCEPT !.right = n.right.left])])

\* Mutant: the child is rotated the wrong way, and when it should not be.
StraightenLeftSwapped(c) == IF Height(c.left) > Height(c.right) THEN RotateLeft(c) ELSE c

\* The first, inner rotation: of the higher child, when its inner subtree is the higher one.
\* The tie goes to a rotation on the left side and to none on the right side.
StraightenLeft(c) == IF Height(c.left) > Height(c.right) THEN c ELSE RotateLeft(c)
StraightenRight(c) == IF Height(c.left) > Height(c.right) THEN RotateRight(c) ELSE c

\* Mutant: rebalancing starts one too late
RebalanceLate(n) ==
  IF n = Nil THEN Nil
  ELSE LET l == Height(n.left)
           r == Height(n.right)
           m == [n EXCEPT !.height = 1 + Larger(l, r)]
       IN CASE l > r + 2 -> RotateRight([m EXCEPT !.left = StraightenLeft(n.left)])
            [] r > l + 2 -> RotateLeft([m EXCEPT !.right = StraightenRight(n.right)])
            [] OTHER -> m

node_rebalance(n) ==
  IF n = Nil THEN Nil
  ELSE LET l == Height(n.left)
           r == Height(n.right)
           m == [n EXCEPT !.height = 1 + Larger(l, r)]
       IN CASE l > r + 1 -> RotateRight([m EXCEPT !.left = StraightenLeft(n.left)])
            [] r > l + 1 -> RotateLeft([m EXCEPT !.right = StraightenRight(n.right)])
            [] OTHER -> m

-----------------------------------------------------------------------------
\* What the height fields of one node promise: its own is right for those of its
\* children, and those differ by one at most.
Exact(n) == n # Nil => n.height = node_height(n)
Even(n) == n # Nil => Height(n.left) - Height(n.right) \in -1..1

\* A left child that is even while its right subtree is heavier on the right.
Leaning(n) ==
  /\ n # Nil
  /\ n.left # Nil
  /\ Height(n.left.left) = Height(n.left.right)
  /\ n.left.right # Nil
  /\ Height(n.left.right.left) < Height(n.left.right.right)

=============================================================================
