--------------------------------- MODULE Map ---------------------------------
(***************************************************************************)
(* vial_map: the AVL tree of src/src/collections/map.c and the macros of   *)
(* src/include/vial/collections/map.h that call it.  One operation is one  *)
(* action (a map is used by one thread).  Keys are integers under the      *)
(* order of comp, entries are released with dispose_key and dispose_value. *)
(***************************************************************************)
EXTENDS MapNode, FiniteSets, Sequences, Functions

CONSTANTS Key, Val

ASSUME KeyAssumption == Key \subseteq Int /\ IsFiniteSet(Key)

VARIABLES
  live,      \* between vial_map_init and vial_map_dispose
  root,      \* self->root
  size,      \* self->size
  released,  \* the entries disposed of by the last operation, in order
  crashed    \* the program has followed a NULL pointer

vars == <<live, root, size, released, crashed>>

Entry(n) == <<n.key, n.value>>

\* A tree and the trees inside it.  A search tree has no more levels than there are keys.
Trees(tree) ==
  LET within[d \in 0..Cardinality(Key)] ==
        IF d = 0 THEN {tree}
        ELSE {tree} \cup UNION {{n.left, n.right} : n \in within[d - 1] \ {Nil}}
  IN within[Cardinality(Key)]

\* _vial_map_get
Lookup(tree, k) ==
  LET get[n \in Trees(tree)] ==
        IF n = Nil THEN Nil
        ELSE IF k < n.key THEN get[n.left]
        ELSE IF k > n.key THEN get[n.right]
        ELSE n
  IN get[tree]

\* The order of _vial_map_foreach, and that of _vial_map_dispose.
InOrder(tree) ==
  LET foreach[n \in Trees(tree)] ==
        IF n = Nil THEN <<>> ELSE foreach[n.left] \o <<Entry(n)>> \o foreach[n.right]
  IN foreach[tree]

PostOrder(tree) ==
  LET dispose[n \in Trees(tree)] ==
        IF n = Nil THEN <<>> ELSE dispose[n.left] \o dispose[n.right] \o <<Entry(n)>>
  IN dispose[tree]

\* A crash below is a crash; otherwise the node is rebalanced on the way up.
Rebuilt(n) == IF Crash \in {n.left, n.right} THEN Crash ELSE node_rebalance(n)

\* _vial_map_put, and the two assignments of the macro to the node it returns.
TreePut(tree, k, v) ==
  LET put[n \in Trees(tree)] ==
        IF n = Nil THEN Leaf(k, v)
        ELSE IF k < n.key THEN Rebuilt([n EXCEPT !.left = put[n.left]])
        ELSE IF k > n.key THEN Rebuilt([n EXCEPT !.right = put[n.right]])
        ELSE [n EXCEPT !.key = k, !.value = v]
  IN put[tree]

\* The successor node_remove unlinks, and what is left of the subtree it comes from: the
\* nodes above it keep the height they had.
Leftmost(tree) ==
  LET leftmost[n \in Trees(tree)] == IF n = Nil \/ n.left = Nil THEN n ELSE leftmost[n.left]
  IN leftmost[tree]

\* Mutant: the right subtree of the successor is not linked in its place.
DropLeftmost(tree) ==
  LET rest[n \in Trees(tree)] ==
        IF n = Nil \/ n.left = Nil THEN Nil ELSE [n EXCEPT !.left = rest[n.left]]
  IN rest[tree]

WithoutLeftmost(tree) ==
  LET rest[n \in Trees(tree)] ==
        IF n = Nil THEN Nil ELSE IF n.left = Nil THEN n.right ELSE [n EXCEPT !.left = rest[n.left]]
  IN rest[tree]

node_remove(n) ==
  IF n.left = Nil THEN n.right
  ELSE IF n.right = Nil THEN n.left
  ELSE [Leftmost(n.right) EXCEPT !.left = n.left, !.right = WithoutLeftmost(n.right)]

\* Mutant: nothing is rebalanced after a removal.
TreeRemoveUnbalanced(tree, k) ==
  LET remove[n \in Trees(tree)] ==
        IF n = Nil THEN Nil
        ELSE IF k < n.key THEN [n EXCEPT !.left = remove[n.left]]
        ELSE IF k > n.key THEN [n EXCEPT !.right = remove[n.right]]
        ELSE node_remove(n)
  IN remove[tree]

\* _vial_map_remove: every node on the way back up is rebalanced, and so is the one that
\* took the place of the removed node.
TreeRemove(tree, k) ==
  LET remove[n \in Trees(tree)] ==
        IF n = Nil THEN Nil
        ELSE IF k < n.key THEN Rebuilt([n EXCEPT !.left = remove[n.left]])
        ELSE IF k > n.key THEN Rebuilt([n EXCEPT !.right = remove[n.right]])
        ELSE node_rebalance(node_remove(n))
  IN remove[tree]

-----------------------------------------------------------------------------
Init ==
  /\ live = TRUE
  /\ root = Nil
  /\ size = 0
  /\ released = <<>>
  /\ crashed = FALSE

\* Stores a tree unless building it crashed.
SetRoot(t) ==
  /\ crashed' = (t = Crash)
  /\ root' = IF t = Crash THEN root ELSE t
  /\ UNCHANGED live

Usable == live /\ ~crashed

\* The entry under k, as a sequence of at most one element.
Found(k) == LET n == Lookup(root, k) IN IF n = Nil THEN <<>> ELSE <<Entry(n)>>

Put(k, v) ==
  /\ Usable
  /\ SetRoot(TreePut(root, k, v))
  /\ released' = Found(k)
  /\ size' = size + 1 - Len(Found(k))

Remove(k) ==
  /\ Usable
  /\ SetRoot(TreeRemove(root, k))
  /\ released' = Found(k)
  /\ size' = size - Len(Found(k))

\* vial_map_dispose leaves root and size as they are; the map is usable again only after
\* another vial_map_init.
Dispose ==
  /\ Usable
  /\ live' = FALSE
  /\ released' = PostOrder(root)
  /\ UNCHANGED <<root, size, crashed>>

Reinit ==
  /\ ~live
  /\ live' = TRUE
  /\ root' = Nil
  /\ size' = 0
  /\ released' = <<>>
  /\ UNCHANGED crashed

Next ==
  \/ \E k \in Key, v \in Val : Put(k, v)
  \/ \E k \in Key : Remove(k)
  \/ Dispose
  \/ Reinit

Spec == Init /\ [][Next]_vars

-----------------------------------------------------------------------------
\* vial_map_foreach visits every entry once, in the order of the keys, whatever the
\* sequence of puts and removes and however unbalanced the tree has become; size counts
\* what it visits.  And no operation disposes of an entry twice.
VisitsInOrder ==
  LET entries == InOrder(root)
  IN /\ Usable => /\ Len(entries) = size
                  /\ \A i \in 2..size : entries[i - 1][1] < entries[i][1]
     /\ IsInjective(released)

\* The AVL condition: every height field is right, and the heights of the two subtrees of
\* a node differ by one at most.
Balanced(tree) == \A n \in Trees(tree) : Exact(n) /\ Even(n)

SomeLeaning(tree) == \E n \in Trees(tree) : Leaning(n)

\* Removing k unlinks its successor from below the right child of k's node.
DeepSuccessor(k) ==
  LET n == Lookup(root, k)
  IN n # Nil /\ n.left # Nil /\ n.right # Nil /\ n.right.left # Nil

\* A put never unbalances a balanced tree.
PutKeepsBalance ==
  [][Balanced(root) /\ ~Balanced(root') => \A k \in Key, v \in Val : ~Put(k, v)]_vars

\* Nor does a remove, but for the two cases node_remove and node_rebalance mishandle: a
\* successor that is not the right child, and a tie on the left side.
RemoveKeepsBalance ==
  [][Balanced(root) /\ ~Balanced(root') =>
       \A k \in Key : Remove(k) => DeepSuccessor(k) \/ SomeLeaning(root)]_vars

\* The rotations follow no NULL pointer as long as the tree they start from is balanced.
BalancedNeverCrashes == [][Balanced(root) => ~crashed']_vars

\* Refinement: looking a key up finds what was put last, every entry is disposed of
\* exactly when it leaves the map, and no entry is lost by a rotation or an unlink.
Dict ==
  INSTANCE Dictionary WITH
    dict <- [k \in Key |-> {n.value : n \in IF live THEN {Lookup(root, k)} \ {Nil} ELSE {}}],
    released <- Range(released)
ImplementsDictionary == Dict!Spec

-----------------------------------------------------------------------------
\* What the code does not keep.

\* A removal whose successor is the right child, or that has no successor to move, keeps
\* the tree an AVL tree.
ShallowRemoveKeepsBalance ==
  [][\A k \in Key : Remove(k) /\ Balanced(root) /\ ~DeepSuccessor(k) => Balanced(root')]_vars

\* Removing keys one after the other never follows a NULL pointer (test/map.c).
NeverCrashes == ~crashed

=============================================================================
