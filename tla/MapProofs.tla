------------------------------- MODULE MapProofs -------------------------------
(***************************************************************************)
(* vial_map holds what a dictionary would, visits it in the order of the   *)
(* keys and keeps its tree balanced, for any keys, values and trees.       *)
(***************************************************************************)
EXTENDS Map, OperatorProofs, SequenceTheorems

Node(k, v, l, r, h) == [key |-> k, value |-> v, left |-> l, right |-> r, height |-> h]
IsNode(n) == n = Node(n.key, n.value, n.left, n.right, n.height)

\* A subtree whose own node is as the AVL condition demands.
Good(n) ==
  n # Nil => /\ IsNode(n)
             /\ Height(n.left) \in Nat
             /\ Height(n.right) \in Nat
             /\ Exact(n)
             /\ Even(n)

\* A node is neither NULL nor the outcome of following NULL.
LEMMA NodeNotNil == \A k, v, l, r, h : Node(k, v, l, r, h) \notin {Nil, Crash}
  <1> SUFFICES ASSUME NEW k, NEW v, NEW l, NEW r, NEW h
               PROVE  Node(k, v, l, r, h) # Nil /\ Node(k, v, l, r, h) # Crash
    OBVIOUS
  <1>1. DOMAIN Node(k, v, l, r, h) = {"key", "value", "left", "right", "height"}
    BY DEF Node
  <1>2. DOMAIN Nil = {}
    BY DEF Nil
  <1>3. DOMAIN Crash = {"crash"}
    BY DEF Crash
  <1>4. QED
    BY <1>1, <1>2, <1>3

LEMMA HeightOfNode ==
  ASSUME NEW k, NEW v, NEW l, NEW r, NEW h
  PROVE  Height(Node(k, v, l, r, h)) = h
  BY NodeNotNil DEF Height, Node

LEMMA GoodHeight ==
  ASSUME NEW n, Good(n)
  PROVE  /\ Height(n) \in Nat
         /\ n # Nil => Height(n) = 1 + Larger(Height(n.left), Height(n.right))
         /\ n # Nil => Height(n) > 0
  BY DEF Good, Height, Exact, node_height, Larger

\* A node with exact and even heights, built from its fields, is good.
LEMMA GoodNode ==
  ASSUME NEW k, NEW v, NEW l, NEW r, Height(l) \in Nat, Height(r) \in Nat,
         Height(l) - Height(r) \in -1..1
  PROVE  Good(Node(k, v, l, r, 1 + Larger(Height(l), Height(r))))
  <1> DEFINE n == Node(k, v, l, r, 1 + Larger(Height(l), Height(r)))
  <1>1. n.left = l /\ n.right = r /\ n.height = 1 + Larger(Height(l), Height(r)) /\ IsNode(n)
    BY DEF Node, IsNode
  <1>2. n # Nil
    BY NodeNotNil
  <1> HIDE DEF n
  <1>3. Good(n)
    BY <1>1, <1>2 DEF Good, Exact, Even, node_height
  <1>4. QED
    BY <1>3 DEF n

\* Recomputing the height of a node leaves its other fields alone.
LEMMA WithHeightOfNode ==
  ASSUME NEW k, NEW v, NEW l, NEW r, NEW h
  PROVE  WithHeight(Node(k, v, l, r, h)) = Node(k, v, l, r, 1 + Larger(Height(l), Height(r)))
  <1> DEFINE n == Node(k, v, l, r, h)
  <1>1. node_height(n) = 1 + Larger(Height(l), Height(r))
    BY NodeNotNil DEF node_height, Node
  <1>2. [n EXCEPT !.height = node_height(n)] = Node(k, v, l, r, node_height(n))
    BY DEF Node
  <1>3. QED
    BY <1>1, <1>2 DEF WithHeight

\* What node_rotate makes of a node and its left child: the child on top, the node with
\* the child's right subtree below it, both heights recomputed.
LEMMA RotateRightNode ==
  ASSUME NEW n, IsNode(n), IsNode(n.left)
  PROVE  LET c   == n.left
             old == Node(n.key, n.value, c.right, n.right,
                         1 + Larger(Height(c.right), Height(n.right)))
         IN  RotateRight(n) = Node(c.key, c.value, c.left, old,
                                   1 + Larger(Height(c.left), Height(old)))
  <1> DEFINE c == n.left
             old == Node(n.key, n.value, c.right, n.right,
                         1 + Larger(Height(c.right), Height(n.right)))
  <1>1. c \notin {Nil, Crash}
    BY NodeNotNil DEF IsNode
  <1>2. [n EXCEPT !.left = c.right] = Node(n.key, n.value, c.right, n.right, n.height)
    BY DEF IsNode, Node
  <1>3. WithHeight([n EXCEPT !.left = c.right]) = old
    BY <1>2, WithHeightOfNode
  <1> HIDE DEF old
  <1>4. [c EXCEPT !.right = old] = Node(c.key, c.value, c.left, old, c.height)
    BY DEF IsNode, Node
  <1>5. QED
    BY <1>1, <1>3, <1>4, WithHeightOfNode DEF RotateRight, old

\* Its mirror image.
LEMMA RotateLeftNode ==
  ASSUME NEW n, IsNode(n), IsNode(n.right)
  PROVE  LET c   == n.right
             old == Node(n.key, n.value, n.left, c.left,
                         1 + Larger(Height(n.left), Height(c.left)))
         IN  RotateLeft(n) = Node(c.key, c.value, old, c.right,
                                  1 + Larger(Height(old), Height(c.right)))
  <1> DEFINE c == n.right
             old == Node(n.key, n.value, n.left, c.left,
                         1 + Larger(Height(n.left), Height(c.left)))
  <1>1. c \notin {Nil, Crash}
    BY NodeNotNil DEF IsNode
  <1>2. [n EXCEPT !.right = c.left] = Node(n.key, n.value, n.left, c.left, n.height)
    BY DEF IsNode, Node
  <1>3. WithHeight([n EXCEPT !.right = c.left]) = old
    BY <1>2, WithHeightOfNode
  <1> HIDE DEF old
  <1>4. [c EXCEPT !.left = old] = Node(c.key, c.value, old, c.right, c.height)
    BY DEF IsNode, Node
  <1>5. QED
    BY <1>1, <1>3, <1>4, WithHeightOfNode DEF RotateLeft, old

\* The branches of node_rebalance that rotate.
LEMMA RebalanceHeavy ==
  ASSUME NEW n, IsNode(n), Height(n.left) \in Nat, Height(n.right) \in Nat
  PROVE  LET h == 1 + Larger(Height(n.left), Height(n.right))
         IN  /\ Height(n.left) > Height(n.right) + 1 =>
                  node_rebalance(n) =
                    RotateRight(Node(n.key, n.value, StraightenLeft(n.left), n.right, h))
             /\ Height(n.right) > Height(n.left) + 1 =>
                  node_rebalance(n) =
                    RotateLeft(Node(n.key, n.value, n.left, StraightenRight(n.right), h))
  <1> DEFINE h == 1 + Larger(Height(n.left), Height(n.right))
             m == [n EXCEPT !.height = h]
  <1>1. n # Nil
    BY NodeNotNil DEF IsNode
  <1>2. m = Node(n.key, n.value, n.left, n.right, h)
    BY DEF IsNode, Node
  <1>3. ASSUME NEW x
        PROVE  /\ [m EXCEPT !.left = x] = Node(n.key, n.value, x, n.right, h)
               /\ [m EXCEPT !.right = x] = Node(n.key, n.value, n.left, x, h)
    <2> HIDE DEF m, h
    <2>1. QED
      BY <1>2 DEF Node
  <1>4. ASSUME Height(n.left) > Height(n.right) + 1
        PROVE  node_rebalance(n) = RotateRight([m EXCEPT !.left = StraightenLeft(n.left)])
    BY <1>1, <1>4 DEF node_rebalance
  <1>5. ASSUME Height(n.right) > Height(n.left) + 1
        PROVE  node_rebalance(n) = RotateLeft([m EXCEPT !.right = StraightenRight(n.right)])
    BY <1>1, <1>5 DEF node_rebalance
  <1>6. QED
    BY <1>3, <1>4, <1>5

-----------------------------------------------------------------------------
\* Search trees.  A tree holds the entries E in the order of their keys when some set L of
\* trees, each with the entries it holds, vouches for it and for every tree inside it.

Below(E, k) == {e \in E : e[1] < k}
Above(E, k) == {e \in E : e[1] > k}

Entries(E) == E \subseteq Key \X Val /\ IsFiniteSet(E)

\* A node whose entry is the only one with its key.
Tops(t, E) ==
  /\ IsNode(t)
  /\ t.height \in Nat
  /\ Entry(t) \in E
  /\ \A e \in E : e[1] = t.key => e = Entry(t)

Sits(t, E, L) ==
  IF t = Nil THEN E = {}
  ELSE /\ Tops(t, E)
       /\ <<t.left, Below(E, t.key)>> \in L
       /\ <<t.right, Above(E, t.key)>> \in L

Vouches(L) == \A t, E : <<t, E>> \in L => Sits(t, E, L)

Search(t, E) == Entries(E) /\ \E L : Vouches(L) /\ <<t, E>> \in L

Split(t, E) ==
  /\ Tops(t, E)
  /\ Search(t.left, Below(E, t.key))
  /\ Search(t.right, Above(E, t.key))

LEMMA SearchEntries ==
  ASSUME NEW t, NEW E, Search(t, E)
  PROVE  Entries(E)
BY DEF Search

LEMMA EntriesPart ==
  ASSUME NEW E, Entries(E), NEW F \in SUBSET E
  PROVE  Entries(F)
BY FS_Subset DEF Entries

LEMMA EntriesKeys ==
  ASSUME NEW E, Entries(E), NEW e \in E
  PROVE  e[1] \in Key /\ e[1] \in Int /\ e[2] \in Val /\ e = <<e[1], e[2]>>
<1>1. e \in Key \X Val
  BY DEF Entries
<1>2. PICK k \in Key, v \in Val : e = <<k, v>>
  BY <1>1
<1>3. Key \subseteq Int
  BY KeyAssumption
<1>4. QED
  BY <1>2, <1>3

LEMMA SearchNil ==
  ASSUME NEW E
  PROVE  Search(Nil, E) <=> E = {}
<1>1. ASSUME E = {} PROVE Search(Nil, E)
  <2> DEFINE L == {<<Nil, E>>}
  <2>1. Entries(E)
    BY <1>1, FS_EmptySet DEF Entries
  <2>2. \A t, F : <<t, F>> \in L => t = Nil /\ F = E
    OBVIOUS
  <2>3. <<Nil, E>> \in L
    OBVIOUS
  <2> HIDE DEF L
  <2>4. Vouches(L)
    BY <1>1, <2>2 DEF Vouches, Sits
  <2>5. QED
    BY <2>1, <2>3, <2>4 DEF Search
<1>2. ASSUME Search(Nil, E) PROVE E = {}
  BY <1>2 DEF Search, Vouches, Sits
<1>3. QED
  BY <1>1, <1>2

LEMMA SearchSplit ==
  ASSUME NEW t, NEW E, Search(t, E), t # Nil
  PROVE  Split(t, E)
<1>1. PICK L : Vouches(L) /\ <<t, E>> \in L
  BY DEF Search
<1>2. Sits(t, E, L)
  BY <1>1 DEF Vouches
<1>3. /\ Tops(t, E)
      /\ <<t.left, Below(E, t.key)>> \in L
      /\ <<t.right, Above(E, t.key)>> \in L
  BY <1>2 DEF Sits
<1>4. Entries(Below(E, t.key)) /\ Entries(Above(E, t.key))
  BY SearchEntries, EntriesPart DEF Below, Above
<1>5. QED
  BY <1>1, <1>3, <1>4 DEF Split, Search

LEMMA SearchJoin ==
  ASSUME NEW t, NEW E, Entries(E), t # Nil, Split(t, E)
  PROVE  Search(t, E)
<1>1. PICK L : Vouches(L) /\ <<t.left, Below(E, t.key)>> \in L
  BY DEF Split, Search
<1>2. PICK R : Vouches(R) /\ <<t.right, Above(E, t.key)>> \in R
  BY DEF Split, Search
<1> DEFINE M == L \cup R \cup {<<t, E>>}
<1>3. L \subseteq M /\ R \subseteq M /\ <<t, E>> \in M
  OBVIOUS
<1>4. ASSUME NEW u, NEW F, <<u, F>> \in M PROVE Sits(u, F, M)
  <2>1. CASE <<u, F>> \in L
    <3>1. Sits(u, F, L)
      BY <1>1, <2>1 DEF Vouches
    <3>2. QED
      BY <1>3, <3>1 DEF Sits
  <2>2. CASE <<u, F>> \in R
    <3>1. Sits(u, F, R)
      BY <1>2, <2>2 DEF Vouches
    <3>2. QED
      BY <1>3, <3>1 DEF Sits
  <2>3. CASE <<u, F>> = <<t, E>>
    <3>1. u = t /\ F = E
      BY <2>3
    <3>2. Sits(t, E, M)
      BY <1>1, <1>2, <1>3 DEF Sits, Split
    <3>3. QED
      BY <3>1, <3>2
  <2>4. QED
    BY <1>4, <2>1, <2>2, <2>3
<1> HIDE DEF M
<1>5. Vouches(M)
  BY <1>4 DEF Vouches
<1>6. QED
  BY <1>3, <1>5 DEF Search

\* The keys below and above that of the root are fewer than those of the tree.
Keys(E) == {e[1] : e \in E}
Levels(E) == Cardinality(Keys(E))

LEMMA LevelsType ==
  ASSUME NEW E, Entries(E)
  PROVE  /\ IsFiniteSet(Keys(E))
         /\ Levels(E) \in Nat
         /\ Levels(E) <= Cardinality(Key)
         /\ Cardinality(Key) \in Nat
         /\ Levels(E) = 0 => E = {}
<1>1. Keys(E) \subseteq Key
  BY EntriesKeys DEF Keys
<1>2. IsFiniteSet(Keys(E)) /\ Levels(E) <= Cardinality(Key) /\ Cardinality(Key) \in Nat
  BY <1>1, KeyAssumption, FS_Subset, FS_CardinalityType DEF Levels
<1>3. Levels(E) \in Nat
  BY <1>2, FS_CardinalityType DEF Levels
<1>4. Levels(E) = 0 => Keys(E) = {}
  BY <1>2, FS_EmptySet DEF Levels
<1>5. Keys(E) = {} => E = {}
  BY DEF Keys
<1>6. QED
  BY <1>2, <1>3, <1>4, <1>5

LEMMA FewerLevels ==
  ASSUME NEW E, Entries(E), NEW F \in SUBSET E, NEW e \in E, \A f \in F : f[1] # e[1]
  PROVE  Levels(F) < Levels(E)
<1>1. Keys(F) \subseteq Keys(E) /\ e[1] \in Keys(E) /\ e[1] \notin Keys(F)
  BY DEF Keys
<1>2. Keys(F) # Keys(E)
  BY <1>1
<1>3. Entries(F) /\ IsFiniteSet(Keys(E))
  BY EntriesPart, LevelsType
<1>4. Levels(F) <= Levels(E) /\ Levels(E) # Levels(F)
  BY <1>1, <1>2, <1>3, FS_Subset DEF Levels
<1>5. Levels(F) \in Nat /\ Levels(E) \in Nat
  BY <1>3, LevelsType
<1>6. QED
  BY <1>4, <1>5

\* The parts of a search tree.
Smaller(F, E) == F \subseteq E /\ F # E /\ Levels(F) < Levels(E)

LEMMA SplitSmaller ==
  ASSUME NEW t, NEW E, Entries(E), Split(t, E)
  PROVE  /\ Smaller(Below(E, t.key), E)
         /\ Smaller(Above(E, t.key), E)
<1>1. Entry(t) \in E /\ Entry(t)[1] = t.key
  BY DEF Split, Tops, Entry
<1>2. t.key \in Int
  BY <1>1, EntriesKeys
<1>3. Below(E, t.key) \subseteq E /\ Above(E, t.key) \subseteq E
  BY DEF Below, Above
<1>4. /\ \A f \in Below(E, t.key) : f[1] # Entry(t)[1]
      /\ \A f \in Above(E, t.key) : f[1] # Entry(t)[1]
  BY <1>1, <1>2, EntriesKeys DEF Below, Above
<1>5. Levels(Below(E, t.key)) < Levels(E) /\ Levels(Above(E, t.key)) < Levels(E)
  BY <1>1, <1>3, <1>4, FewerLevels
<1>6. Below(E, t.key) # E /\ Above(E, t.key) # E
  BY <1>1, <1>4
<1>7. QED
  BY <1>3, <1>5, <1>6 DEF Smaller

-----------------------------------------------------------------------------
\* The trees inside a tree.  Level d of Trees is a function of the level before it.

Sprout(t, T) == {t} \cup UNION {{n.left, n.right} : n \in T \ {Nil}}
Level(t, w, d) == IF d = 0 THEN {t} ELSE Sprout(t, w[d - 1])
Grows(t, m, w) == w = [d \in 0..m |-> Level(t, w, d)]
Growth(t) == CHOOSE w : Grows(t, Cardinality(Key), w)

LEMMA TreesIs ==
  ASSUME NEW t
  PROVE  Trees(t) = Growth(t)[Cardinality(Key)]
BY DEF Trees, Growth, Grows, Level, Sprout

LEMMA GrowsAt ==
  ASSUME NEW t, NEW m \in Nat, NEW w, Grows(t, m, w), NEW d \in 0..m
  PROVE  w[d] = Level(t, w, d)
BY DEF Grows

LEMMA GrowthExists ==
  ASSUME NEW t, NEW m \in Nat
  PROVE  \E w : Grows(t, m, w)
<1> DEFINE Bad == {j \in 0..m : ~\E w : Grows(t, j, w)}
<1>1. SUFFICES ASSUME Bad # {} PROVE FALSE
  OBVIOUS
<1>2. PICK j \in Bad : \A i \in Bad : j <= i
  BY <1>1, SmallestNumber
<1>3. j \in 0..m /\ ~\E w : Grows(t, j, w)
  OBVIOUS
<1>4. \A i \in 0..m : i < j => \E w : Grows(t, i, w)
  BY <1>2
<1> HIDE DEF Bad
<1>5. PICK w : \A d \in 0..j - 1 : w[d] = Level(t, w, d)
  <2>1. CASE j = 0
    BY <2>1
  <2>2. CASE j # 0
    <3>1. PICK i \in 0..m : i = j - 1 /\ i < j
      BY <1>3, <2>2
    <3>2. PICK w : Grows(t, i, w)
      BY <1>4, <3>1
    <3>3. \A d \in 0..i : w[d] = Level(t, w, d)
      BY <3>2, GrowsAt
    <3>4. QED
      BY <3>1, <3>3
  <2>3. QED
    BY <2>1, <2>2
<1> DEFINE u == [d \in 0..j |-> Level(t, w, d)]
<1>6. \A d \in 0..j : u[d] = Level(t, w, d)
  OBVIOUS
<1>7. \A d \in 0..j : d = 0 \/ (d - 1 \in 0..j - 1 /\ d - 1 \in 0..j)
  BY <1>3
<1>8. u = [d \in 0..j |-> u[d]]
  OBVIOUS
<1> HIDE DEF u
<1>9. \A d \in 0..j : u[d] = Level(t, u, d)
  <2> TAKE d \in 0..j
  <2>1. CASE d = 0
    BY <1>6, <2>1 DEF Level
  <2>2. CASE d # 0
    <3>1. u[d - 1] = w[d - 1]
      BY <1>5, <1>6, <1>7, <2>2
    <3>2. QED
      BY <1>6, <3>1 DEF Level
  <2>3. QED
    BY <2>1, <2>2
<1>10. u = [d \in 0..j |-> Level(t, u, d)]
  BY <1>8, <1>9
<1>11. QED
  BY <1>3, <1>10, Zenon DEF Grows

LEMMA GrowthGrows ==
  ASSUME NEW t
  PROVE  Grows(t, Cardinality(Key), Growth(t))
<1>1. Cardinality(Key) \in Nat
  BY KeyAssumption, FS_CardinalityType
<1>2. QED
  BY <1>1, GrowthExists, Zenon DEF Growth

\* A set of trees that has the two subtrees of every tree in it.
Closed(T) == \A n \in T : n # Nil => n.left \in T /\ n.right \in T

LEMMA RootAtLevel ==
  ASSUME NEW t, NEW w, NEW d
  PROVE  t \in Level(t, w, d)
BY DEF Level, Sprout

\* Nothing but what has to be is in Trees.
LEMMA TreesLeast ==
  ASSUME NEW t, NEW T, Closed(T), t \in T
  PROVE  Trees(t) \subseteq T
<1> DEFINE N == Cardinality(Key)
           w == Growth(t)
           Bad == {d \in 0..N : ~(w[d] \subseteq T)}
<1>1. N \in Nat
  BY KeyAssumption, FS_CardinalityType
<1>2. \A d \in 0..N : w[d] = Level(t, w, d)
  BY <1>1, GrowthGrows, GrowsAt, Zenon
<1>3. ASSUME NEW n \in Trees(t) \ T PROVE FALSE
  <2>1. Trees(t) = w[N] /\ N \in 0..N
    BY <1>1, TreesIs
  <2>2. N \in Bad
    BY <2>1
  <2>3. Bad # {} /\ Bad \subseteq 0..N
    BY <2>2
  <2> HIDE DEF Bad, N, w
  <2>4. PICK d \in Bad : \A i \in Bad : d <= i
    BY <1>1, <2>3, SmallestNumber
  <2>5. CASE d = 0
    BY <1>2, <2>4, <2>5 DEF Level, Bad
  <2>6. CASE d # 0
    <3>1. d \in 0..N /\ d - 1 \in 0..N /\ d - 1 < d
      BY <1>1, <2>6 DEF Bad
    <3>2. d - 1 \notin Bad
      BY <2>4, <3>1
    <3>3. w[d - 1] \subseteq T
      BY <3>1, <3>2 DEF Bad
    <3>4. w[d] = Sprout(t, w[d - 1])
      BY <1>2, <2>6, <3>1 DEF Level
    <3>5. Sprout(t, w[d - 1]) \subseteq T
      BY <3>3 DEF Sprout, Closed
    <3>6. QED
      BY <3>4, <3>5 DEF Bad
  <2>7. QED
    BY <2>5, <2>6
<1>4. QED
  BY <1>3

LEMMA SelfInTrees ==
  ASSUME NEW t
  PROVE  t \in Trees(t)
<1> DEFINE N == Cardinality(Key)
<1>1. N \in Nat /\ N \in 0..N
  BY KeyAssumption, FS_CardinalityType
<1>2. Growth(t)[N] = Level(t, Growth(t), N)
  BY <1>1, GrowthGrows, GrowsAt, Zenon
<1>3. QED
  BY <1>2, TreesIs DEF Level, Sprout

\* A tree at level d of a search tree is a search tree, and new there only when it is at least d
\* levels lower.
Lower(n, d) == \E F \in SUBSET (Key \X Val) : Search(n, F) /\ Levels(F) <= Cardinality(Key) - d
Fresh(w, d) ==
  \A n \in w[d] : /\ Lower(n, 0)
                  /\ Lower(n, d) \/ (d # 0 /\ n \in w[d - 1])

LEMMA LowerParts ==
  ASSUME NEW n, n # Nil, NEW d \in Nat, Lower(n, d)
  PROVE  Lower(n.left, d + 1) /\ Lower(n.right, d + 1)
<1>1. PICK F \in SUBSET (Key \X Val) : Search(n, F) /\ Levels(F) <= Cardinality(Key) - d
  BY DEF Lower
<1>2. Entries(F) /\ Split(n, F)
  BY <1>1, SearchEntries, SearchSplit
<1>3. /\ Smaller(Below(F, n.key), F) /\ Search(n.left, Below(F, n.key))
      /\ Smaller(Above(F, n.key), F) /\ Search(n.right, Above(F, n.key))
  BY <1>2, SplitSmaller DEF Split
<1>4. ASSUME NEW G, Smaller(G, F), NEW c, Search(c, G) PROVE Lower(c, d + 1)
  <2>1. Entries(G)
    BY <1>4, SearchEntries
  <2>2. Levels(G) \in Nat /\ Levels(F) \in Nat /\ Cardinality(Key) \in Nat /\ Levels(G) < Levels(F)
    BY <1>2, <1>4, <2>1, LevelsType DEF Smaller
  <2>3. Levels(G) <= Cardinality(Key) - (d + 1)
    BY <1>1, <2>2
  <2>4. G \in SUBSET (Key \X Val)
    BY <2>1 DEF Entries
  <2>5. QED
    BY <1>4, <2>3, <2>4 DEF Lower
<1>5. QED
  BY <1>3, <1>4

LEMMA LowerAnyway ==
  ASSUME NEW n, NEW d \in Nat, Lower(n, d)
  PROVE  Lower(n, 0)
<1>1. PICK F \in SUBSET (Key \X Val) : Search(n, F) /\ Levels(F) <= Cardinality(Key) - d
  BY DEF Lower
<1>2. Levels(F) \in Nat /\ Cardinality(Key) \in Nat
  BY <1>1, SearchEntries, LevelsType
<1>3. QED
  BY <1>1, <1>2 DEF Lower

LEMMA LevelsFresh ==
  ASSUME NEW t, NEW E, Search(t, E), NEW N \in Nat, NEW w, Grows(t, N, w), NEW d \in 0..N
  PROVE  Fresh(w, d)
<1> DEFINE Bad == {i \in 0..N : ~Fresh(w, i)}
<1>1. SUFFICES ASSUME Bad # {} PROVE FALSE
  OBVIOUS
<1>2. PICK j \in Bad : \A i \in Bad : j <= i
  BY <1>1, SmallestNumber
<1>3. j \in 0..N /\ ~Fresh(w, j)
  OBVIOUS
<1>4. \A i \in 0..N : i < j => Fresh(w, i)
  BY <1>2
<1> HIDE DEF Bad
<1>5. \A i \in 0..N : w[i] = Level(t, w, i)
  BY GrowsAt
<1>6. Lower(t, 0)
  <2>1. Levels(E) \in Nat /\ Levels(E) <= Cardinality(Key) /\ Cardinality(Key) \in Nat
    BY SearchEntries, LevelsType
  <2>2. E \in SUBSET (Key \X Val)
    BY SearchEntries DEF Entries
  <2>3. QED
    BY <2>1, <2>2 DEF Lower
<1>7. \A i \in 0..N : t \in w[i]
  BY <1>5, RootAtLevel
<1>8. CASE j = 0
  BY <1>3, <1>5, <1>6, <1>8 DEF Fresh, Level
<1>9. CASE j # 0
  <2>1. j - 1 \in 0..N /\ j - 1 < j /\ j - 1 \in Nat /\ (j - 1) + 1 = j
    BY <1>3, <1>9
  <2>2. Fresh(w, j - 1) /\ w[j] = Sprout(t, w[j - 1])
    BY <1>3, <1>4, <1>5, <1>9, <2>1 DEF Level
  <2>3. t \in w[j - 1]
    BY <1>7, <2>1
  <2>4. ASSUME NEW n \in w[j - 1], n # Nil, NEW c \in {n.left, n.right}
        PROVE  Lower(c, 0) /\ (Lower(c, j) \/ c \in w[j - 1])
    <3>1. CASE Lower(n, j - 1)
      <4>1. Lower(c, j)
        BY <2>1, <2>4, <3>1, LowerParts
      <4>2. QED
        BY <1>3, <4>1, LowerAnyway
    <3>2. CASE j - 1 # 0 /\ n \in w[(j - 1) - 1]
      <4>1. Lower(c, 0 + 1)
        BY <2>2, <2>4, LowerParts DEF Fresh
      <4>2. w[j - 1] = Sprout(t, w[(j - 1) - 1])
        BY <1>5, <2>1, <3>2 DEF Level
      <4>3. c \in w[j - 1]
        BY <2>4, <3>2, <4>2 DEF Sprout
      <4>4. QED
        BY <4>1, <4>3, LowerAnyway
    <3>3. QED
      BY <2>2, <3>1, <3>2 DEF Fresh
  <2>5. \A c \in w[j] : Lower(c, 0) /\ (Lower(c, j) \/ c \in w[j - 1])
    BY <1>6, <2>2, <2>3, <2>4 DEF Sprout
  <2>6. QED
    BY <1>3, <1>9, <2>5 DEF Fresh
<1>10. QED
  BY <1>8, <1>9

\* The trees inside a search tree are search trees, and the parts of each are among them.
LEMMA SearchTrees ==
  ASSUME NEW t, NEW E, Search(t, E)
  PROVE  /\ Closed(Trees(t))
         /\ \A n \in Trees(t) : \E F \in SUBSET (Key \X Val) : Search(n, F)
<1> DEFINE N == Cardinality(Key)
           w == Growth(t)
<1>1. N \in Nat /\ N \in 0..N
  BY KeyAssumption, FS_CardinalityType
<1>2. Trees(t) = w[N] /\ Grows(t, N, w) /\ w[N] = Level(t, w, N)
  BY <1>1, TreesIs, GrowthGrows, GrowsAt, Zenon
<1>3. Fresh(w, N)
  BY <1>1, <1>2, LevelsFresh
<1> HIDE DEF w
<1>4. ASSUME NEW n \in w[N] PROVE \E F \in SUBSET (Key \X Val) : Search(n, F)
  BY <1>3 DEF Fresh, Lower
<1>5. ASSUME NEW n \in w[N], n # Nil PROVE N # 0 /\ n \in w[N - 1]
  <2>1. ~Lower(n, N)
    <3>1. SUFFICES ASSUME NEW F \in SUBSET (Key \X Val), Search(n, F), Levels(F) <= N - N PROVE FALSE
      BY DEF Lower
    <3>2. Levels(F) = 0
      BY <1>1, <3>1, SearchEntries, LevelsType
    <3>3. F = {}
      BY <3>1, <3>2, SearchEntries, LevelsType
    <3>4. Entry(n) \in F
      BY <1>5, <3>1, SearchSplit DEF Split, Tops
    <3>5. QED
      BY <3>3, <3>4
  <2>2. QED
    BY <1>3, <2>1 DEF Fresh
<1>6. ASSUME NEW n \in w[N], n # Nil PROVE n.left \in w[N] /\ n.right \in w[N]
  BY <1>2, <1>5, <1>6 DEF Level, Sprout
<1>7. QED
  BY <1>2, <1>4, <1>6 DEF Closed

\* Induction over the trees inside a tree: of a set that has NULL, and a tree when it has the two
\* subtrees.
Inherits(t, Q) ==
  /\ Nil \in Q
  /\ \A n \in Trees(t) : n # Nil /\ n.left \in Q /\ n.right \in Q => n \in Q

LEMMA TreeInduction ==
  ASSUME NEW t, NEW E, Search(t, E), NEW Q, Inherits(t, Q)
  PROVE  t \in Q
<1> DEFINE Bad == {F \in SUBSET E : \E n \in Trees(t) : Search(n, F) /\ n \notin Q}
<1>1. SUFFICES ASSUME t \notin Q PROVE FALSE
  OBVIOUS
<1>2. E \in Bad
  BY <1>1, SelfInTrees
<1>3. PICK F \in Bad : \A G \in Bad : G \subseteq F => G = F
  <2>1. Bad # {} /\ Bad \subseteq SUBSET E
    BY <1>2
  <2>2. IsFiniteSet(E)
    BY SearchEntries DEF Entries
  <2> HIDE DEF Bad
  <2>3. QED
    BY <2>1, <2>2, SmallestSet
<1>4. PICK n \in Trees(t) : Search(n, F) /\ n \notin Q
  OBVIOUS
<1>5. n # Nil
  BY <1>4 DEF Inherits
<1>6. Entries(F) /\ Split(n, F)
  BY <1>4, <1>5, SearchEntries, SearchSplit
<1>7. n.left \in Trees(t) /\ n.right \in Trees(t)
  BY <1>5, SearchTrees DEF Closed
<1>8. ASSUME NEW c \in Trees(t), NEW G, Smaller(G, F), Search(c, G) PROVE c \in Q
  <2>1. G \notin Bad
    BY <1>3, <1>8 DEF Smaller
  <2>2. G \in SUBSET E
    BY <1>8 DEF Smaller
  <2>3. QED
    BY <1>8, <2>1, <2>2
<1> HIDE DEF Bad
<1>9. n.left \in Q /\ n.right \in Q
  BY <1>6, <1>7, <1>8, SplitSmaller DEF Split
<1>10. QED
  BY <1>4, <1>5, <1>9 DEF Inherits

-----------------------------------------------------------------------------
\* The recursive functions on trees.  Each is made of what it has for NULL and of what it makes
\* of a node and its results for the two subtrees; g names one, and the key and the value it
\* is called with.

Base(g) ==
  CASE g.op = "put" -> Leaf(g.key, g.value)
    [] g.op = "visit" \/ g.op = "dispose" -> <<>>
    [] OTHER -> Nil

\* A step to the left or to the right by the key, or a stop.
Walk(g, n, l, r, stop) == IF g.key < n.key THEN l ELSE IF g.key > n.key THEN r ELSE stop

Comb(g, n, l, r) ==
  CASE g.op = "get" -> Walk(g, n, l, r, n)
    [] g.op = "visit" -> l \o <<Entry(n)>> \o r
    [] g.op = "dispose" -> l \o r \o <<Entry(n)>>
    [] g.op = "put" -> Walk(g, n, Rebuilt([n EXCEPT !.left = l]), Rebuilt([n EXCEPT !.right = r]),
                            [n EXCEPT !.key = g.key, !.value = g.value])
    [] g.op = "remove" -> Walk(g, n, Rebuilt([n EXCEPT !.left = l]), Rebuilt([n EXCEPT !.right = r]),
                               node_rebalance(node_remove(n)))
    [] g.op = "leftmost" -> IF n.left = Nil THEN n ELSE l
    [] OTHER -> IF n.left = Nil THEN n.right ELSE [n EXCEPT !.left = l]

Result(g, n, l, r) == IF n = Nil THEN Base(g) ELSE Comb(g, n, l, r)
Solves(g, T, f) == f = [n \in T |-> Result(g, n, f[n.left], f[n.right])]
Solved(g, T) == CHOOSE f : Solves(g, T, f)
Value(g, t) == Solved(g, Trees(t))[t]

\* Two functions that solve the same recursion agree on a search tree.
LEMMA SolutionsAgree ==
  ASSUME NEW g, NEW t, NEW E, Search(t, E),
         NEW S, Closed(S), t \in S, NEW f, Solves(g, S, f),
         NEW T, Closed(T), t \in T, NEW h, Solves(g, T, h)
  PROVE  f[t] = h[t]
<1> DEFINE Q == {n \in Trees(t) : f[n] = h[n]}
<1>1. Closed(Trees(t)) /\ Trees(t) \subseteq S /\ Trees(t) \subseteq T /\ t \in Trees(t)
  BY SearchTrees, TreesLeast, SelfInTrees
<1>2. \A n \in Trees(t) : /\ f[n] = Result(g, n, f[n.left], f[n.right])
                          /\ h[n] = Result(g, n, h[n.left], h[n.right])
  BY <1>1 DEF Solves
<1>3. ASSUME NEW n \in Trees(t), n # Nil, n.left \in Q, n.right \in Q PROVE n \in Q
  BY <1>2, <1>3
<1>4. ASSUME Nil \in Trees(t) PROVE Nil \in Q
  <2>1. f[Nil] = Base(g) /\ h[Nil] = Base(g)
    BY <1>2, <1>4 DEF Result
  <2>2. QED
    BY <1>4, <2>1
<1>5. t \in Q \cup {Nil}
  <2> HIDE DEF Q
  <2> DEFINE R == Q \cup {Nil}
  <2>1. ASSUME NEW n \in Trees(t), n # Nil, n.left \in R, n.right \in R PROVE n \in R
    <3>1. n.left \in Trees(t) /\ n.right \in Trees(t)
      BY <1>1, <2>1 DEF Closed
    <3>2. n.left \in Q /\ n.right \in Q
      BY <1>4, <2>1, <3>1
    <3>3. QED
      BY <1>3, <2>1, <3>2
  <2>2. Nil \in R
    OBVIOUS
  <2> HIDE DEF R
  <2>3. Inherits(t, R)
    BY <2>1, <2>2 DEF Inherits
  <2>4. t \in R
    BY <2>3, TreeInduction
  <2>5. QED
    BY <2>4 DEF R
<1>6. t \in Q
  BY <1>1, <1>4, <1>5
<1>7. QED
  BY <1>6

\* There is one on the trees inside every search tree.
Solvable(g, n) == \E f : Solves(g, Trees(n), f)

LEMMA SolvedSolves ==
  ASSUME NEW g, NEW n, Solvable(g, n)
  PROVE  Solves(g, Trees(n), Solved(g, Trees(n)))
BY Zenon DEF Solvable, Solved

\* The trees inside a subtree are inside the tree.
LEMMA TreesInside ==
  ASSUME NEW t, NEW E, Search(t, E), NEW n \in Trees(t)
  PROVE  /\ Trees(n) \subseteq Trees(t)
         /\ Closed(Trees(n))
         /\ \E F \in SUBSET (Key \X Val) : Search(n, F)
<1>1. Closed(Trees(t)) /\ \E F \in SUBSET (Key \X Val) : Search(n, F)
  BY SearchTrees
<1>2. Trees(n) \subseteq Trees(t)
  BY <1>1, TreesLeast
<1>3. Closed(Trees(n))
  BY <1>1, SearchTrees
<1>4. QED
  BY <1>1, <1>2, <1>3

LEMMA TreesOf ==
  ASSUME NEW t, NEW E, Search(t, E)
  PROVE  Trees(t) = {t} \cup IF t = Nil THEN {} ELSE Trees(t.left) \cup Trees(t.right)
<1> DEFINE T == {t} \cup IF t = Nil THEN {} ELSE Trees(t.left) \cup Trees(t.right)
<1>1. Closed(Trees(t)) /\ t \in Trees(t)
  BY SearchTrees, SelfInTrees
<1>2. CASE t = Nil
  <2>1. Closed({Nil})
    BY DEF Closed
  <2>2. Trees(t) \subseteq {Nil}
    BY <1>2, <2>1, TreesLeast
  <2>3. QED
    BY <1>1, <1>2, <2>2
<1>3. CASE t # Nil
  <2>1. t.left \in Trees(t) /\ t.right \in Trees(t)
    BY <1>1, <1>3 DEF Closed
  <2>2. /\ Trees(t.left) \subseteq Trees(t) /\ Trees(t.right) \subseteq Trees(t)
        /\ Closed(Trees(t.left)) /\ Closed(Trees(t.right))
        /\ t.left \in Trees(t.left) /\ t.right \in Trees(t.right)
    BY <2>1, TreesInside, SelfInTrees
  <2>3. T \subseteq Trees(t)
    BY <1>1, <1>3, <2>2
  <2>4. Closed(T) /\ t \in T
    BY <1>3, <2>2 DEF Closed
  <2> HIDE DEF T
  <2>5. Trees(t) \subseteq T
    BY <2>4, TreesLeast
  <2>6. QED
    BY <2>3, <2>5 DEF T
<1>4. QED
  BY <1>2, <1>3

\* The value of a solution at a tree is the value of the recursion there.
LEMMA ValueIs ==
  ASSUME NEW g, NEW n, NEW F, Search(n, F), Solvable(g, n),
         NEW T, Closed(T), n \in T, NEW f, Solves(g, T, f)
  PROVE  f[n] = Value(g, n)
<1>1. Solves(g, Trees(n), Solved(g, Trees(n))) /\ Closed(Trees(n)) /\ n \in Trees(n)
  BY SolvedSolves, SearchTrees, SelfInTrees
<1> DEFINE h == Solved(g, Trees(n))
<1> HIDE DEF h
<1>2. Solves(g, Trees(n), h)
  BY <1>1 DEF h
<1>3. f[n] = h[n]
  BY <1>1, <1>2, SolutionsAgree
<1>4. QED
  BY <1>3 DEF Value, h

LEMMA ValueTurn ==
  ASSUME NEW g, NEW n, NEW F, Search(n, F), Solvable(g, n),
         n # Nil => Solvable(g, n.left) /\ Solvable(g, n.right)
  PROVE  Value(g, n) = Result(g, n, Value(g, n.left), Value(g, n.right))
<1> DEFINE h == Solved(g, Trees(n))
<1>1. Solves(g, Trees(n), h) /\ Closed(Trees(n)) /\ n \in Trees(n)
  BY SolvedSolves, SearchTrees, SelfInTrees
<1> HIDE DEF h
<1>2. Value(g, n) = Result(g, n, h[n.left], h[n.right])
  BY <1>1 DEF Value, Solves, h
<1>3. CASE n = Nil
  BY <1>2, <1>3 DEF Result
<1>4. CASE n # Nil
  <2>1. n.left \in Trees(n) /\ n.right \in Trees(n) /\ Split(n, F)
    BY <1>1, <1>4, SearchSplit DEF Closed
  <2>2. h[n.left] = Value(g, n.left)
    BY <1>1, <1>4, <2>1, ValueIs DEF Split
  <2>3. h[n.right] = Value(g, n.right)
    BY <1>1, <1>4, <2>1, ValueIs DEF Split
  <2>4. QED
    BY <1>2, <2>2, <2>3
<1>5. QED
  BY <1>3, <1>4

LEMMA AllSolvable ==
  ASSUME NEW g, NEW t, NEW E, Search(t, E)
  PROVE  Solvable(g, t)
<1> DEFINE Q == {n \in Trees(t) : \A m \in Trees(n) : Solvable(g, m)}
<1>1. Solvable(g, Nil)
  <2> DEFINE f == [n \in {Nil} |-> Base(g)]
  <2>1. Trees(Nil) = {Nil}
    <3>1. Search(Nil, {})
      BY SearchNil
    <3>2. QED
      BY <3>1, TreesOf
  <2>2. f = [n \in {Nil} |-> Result(g, n, f[n.left], f[n.right])]
    BY DEF Result
  <2> HIDE DEF f
  <2>3. Solves(g, Trees(Nil), f)
    BY <2>1, <2>2, Zenon DEF Solves
  <2>4. QED
    BY <2>3 DEF Solvable
<1>2. ASSUME NEW n \in Trees(t), n # Nil,
             \A m \in Trees(n.left) \cup Trees(n.right) : Solvable(g, m)
      PROVE  Solvable(g, n)
  <2> DEFINE V(m) == Result(g, m, Value(g, m.left), Value(g, m.right))
             f == [m \in Trees(n) |-> V(m)]
  <2>1. PICK F : Search(n, F)
    BY TreesInside
  <2>2. /\ Closed(Trees(n))
        /\ Trees(n) = {n} \cup Trees(n.left) \cup Trees(n.right)
    BY <1>2, <2>1, TreesOf, SearchTrees
  <2>3. Split(n, F)
    BY <1>2, <2>1, SearchSplit
  <2>4. ASSUME NEW c \in {n.left, n.right}, NEW m \in Trees(c) PROVE f[m] = Value(g, m)
    <3>1. PICK G : Search(c, G)
      BY <2>3, <2>4 DEF Split
    <3>2. Closed(Trees(c)) /\ \E H : Search(m, H)
      BY <2>4, <3>1, SearchTrees, TreesInside
    <3>3. Solvable(g, m) /\ (m # Nil => Solvable(g, m.left) /\ Solvable(g, m.right))
      BY <1>2, <2>4, <3>2 DEF Closed
    <3>4. Value(g, m) = V(m)
      BY <3>2, <3>3, ValueTurn
    <3>5. m \in Trees(n)
      BY <2>2, <2>4
    <3>6. QED
      BY <3>4, <3>5
  <2>5. ASSUME NEW m \in Trees(n), m # Nil
        PROVE  f[m.left] = Value(g, m.left) /\ f[m.right] = Value(g, m.right)
    <3>1. CASE m = n
      <4>1. m.left \in Trees(n.left) /\ m.right \in Trees(n.right)
        BY <3>1, SelfInTrees
      <4>2. QED
        BY <2>4, <4>1
    <3>2. CASE m # n
      <4>1. PICK c \in {n.left, n.right} : m \in Trees(c)
        BY <2>2, <3>2
      <4>2. Closed(Trees(c))
        BY <2>3, SearchTrees DEF Split
      <4>3. m.left \in Trees(c) /\ m.right \in Trees(c)
        BY <2>5, <4>1, <4>2 DEF Closed
      <4>4. QED
        BY <2>4, <4>3
    <3>3. QED
      BY <3>1, <3>2
  <2>6. \A m \in Trees(n) : f[m] = V(m)
    OBVIOUS
  <2>7. f = [m \in Trees(n) |-> f[m]]
    OBVIOUS
  <2> HIDE DEF f
  <2>8. \A m \in Trees(n) : f[m] = Result(g, m, f[m.left], f[m.right])
    <3> TAKE m \in Trees(n)
    <3>1. CASE m = Nil
      BY <2>6, <3>1 DEF Result
    <3>2. CASE m # Nil
      BY <2>5, <2>6, <3>2
    <3>3. QED
      BY <3>1, <3>2
  <2>9. f = [m \in Trees(n) |-> Result(g, m, f[m.left], f[m.right])]
    BY <2>7, <2>8
  <2>10. QED
    BY <2>9, Zenon DEF Solves, Solvable
<1>3. t \in Q \cup {Nil}
  <2> DEFINE R == Q \cup {Nil}
  <2>1. ASSUME NEW n \in Trees(t), n # Nil, n.left \in R, n.right \in R PROVE n \in R
    <3>1. Trees(Nil) = {Nil}
      <4>1. Search(Nil, {})
        BY SearchNil
      <4>2. QED
        BY <4>1, TreesOf
    <3>2. \A m \in Trees(n.left) \cup Trees(n.right) : Solvable(g, m)
      BY <1>1, <2>1, <3>1
    <3>3. Trees(n) = {n} \cup Trees(n.left) \cup Trees(n.right)
      BY <2>1, TreesInside, TreesOf
    <3>4. Solvable(g, n)
      BY <1>2, <2>1, <3>2
    <3>5. QED
      BY <3>2, <3>3, <3>4
  <2>2. Nil \in R
    OBVIOUS
  <2> HIDE DEF R, Q
  <2>3. Inherits(t, R)
    BY <2>1, <2>2 DEF Inherits
  <2>4. t \in R
    BY <2>3, TreeInduction
  <2>5. QED
    BY <2>4 DEF R
<1>4. QED
  BY <1>1, <1>3, SelfInTrees

\* The recursion, one turn of it.
LEMMA Unwound ==
  ASSUME NEW g, NEW t, NEW E, Search(t, E)
  PROVE  Value(g, t) = IF t = Nil THEN Base(g) ELSE Comb(g, t, Value(g, t.left), Value(g, t.right))
<1>1. t # Nil => Solvable(g, t.left) /\ Solvable(g, t.right)
  BY SearchSplit, AllSolvable DEF Split
<1>2. Value(g, t) = Result(g, t, Value(g, t.left), Value(g, t.right))
  BY <1>1, AllSolvable, ValueTurn
<1>3. QED
  BY <1>2 DEF Result

-----------------------------------------------------------------------------
\* What each of the functions of Map makes of a tree and of its subtrees.

Named(op, k, v) == [op |-> op, key |-> k, value |-> v]

LEMMA Chosen ==
  ASSUME NEW g, NEW t, NEW E, Search(t, E), NEW f, Solves(g, Trees(t), f)
  PROVE  f[t] = Value(g, t)
BY AllSolvable, SearchTrees, SelfInTrees, ValueIs

LookupStep(n, l, r, k) == IF n = Nil THEN Nil ELSE IF k < n.key THEN l ELSE IF k > n.key THEN r ELSE n
LookupTurns(T, f, k) == f = [n \in T |-> LookupStep(n, f[n.left], f[n.right], k)]

LEMMA LookupTurn ==
  ASSUME NEW t, NEW E, Search(t, E), NEW k
  PROVE  Lookup(t, k) = LookupStep(t, Lookup(t.left, k), Lookup(t.right, k), k)
<1> DEFINE g == Named("get", k, k)
<1>1. ASSUME NEW n, NEW l, NEW r PROVE Result(g, n, l, r) = LookupStep(n, l, r, k)
  <2>1. CASE n = Nil
    BY <2>1 DEF Named, Result, Base, LookupStep
  <2>2. CASE n # Nil
    BY <2>2 DEF Named, Result, Comb, Walk, LookupStep
  <2>3. QED
    BY <2>1, <2>2
<1>2. ASSUME NEW n, NEW F, Search(n, F) PROVE Lookup(n, k) = Value(g, n)
  <2> DEFINE T == Trees(n)
  <2>1. Lookup(n, k) = (CHOOSE f : LookupTurns(T, f, k))[n]
    BY DEF Lookup, LookupTurns, LookupStep
  <2> HIDE DEF g, T
  <2>2. ASSUME NEW f PROVE LookupTurns(T, f, k) <=> Solves(g, T, f)
    BY <1>1 DEF LookupTurns, Solves
  <2>3. \E f : LookupTurns(T, f, k)
    BY <1>2, <2>2, AllSolvable DEF Solvable, T
  <2> DEFINE c == CHOOSE f : LookupTurns(T, f, k)
  <2>4. Solves(g, T, c)
    BY <2>2, <2>3
  <2> HIDE DEF c
  <2>5. c[n] = Value(g, n)
    BY <1>2, <2>4, Chosen DEF T
  <2>6. QED
    BY <2>1, <2>5 DEF c
<1> HIDE DEF g
<1>3. Value(g, t) = Result(g, t, Value(g, t.left), Value(g, t.right))
  BY Unwound DEF Result
<1>4. CASE t = Nil
  <2>1. \A l, r : LookupStep(Nil, l, r, k) = Result(g, Nil, l, r)
    BY <1>1, Zenon
  <2>2. \A l, r : Result(g, Nil, l, r) = Base(g)
    BY DEF Result
  <2>3. QED
    BY <1>1, <1>2, <1>3, <1>4, <2>1, <2>2
<1>5. CASE t # Nil
  <2>1. Lookup(t.left, k) = Value(g, t.left) /\ Lookup(t.right, k) = Value(g, t.right)
    BY <1>2, <1>5, SearchSplit DEF Split
  <2>2. QED
    BY <1>1, <1>2, <1>3, <2>1
<1>6. QED
  BY <1>4, <1>5

InOrderStep(n, l, r) == IF n = Nil THEN <<>> ELSE l \o <<Entry(n)>> \o r
InOrderTurns(T, f) == f = [n \in T |-> InOrderStep(n, f[n.left], f[n.right])]

LEMMA InOrderTurn ==
  ASSUME NEW t, NEW E, Search(t, E)
  PROVE  InOrder(t) = InOrderStep(t, InOrder(t.left), InOrder(t.right))
<1> DEFINE g == Named("visit", 0, 0)
<1>1. ASSUME NEW n, NEW l, NEW r PROVE Result(g, n, l, r) = InOrderStep(n, l, r)
  <2>1. CASE n = Nil
    BY <2>1 DEF Named, Result, Base, InOrderStep
  <2>2. CASE n # Nil
    BY <2>2 DEF Named, Result, Comb, Walk, InOrderStep
  <2>3. QED
    BY <2>1, <2>2
<1>2. ASSUME NEW n, NEW F, Search(n, F) PROVE InOrder(n) = Value(g, n)
  <2> DEFINE T == Trees(n)
  <2>1. InOrder(n) = (CHOOSE f : InOrderTurns(T, f))[n]
    BY DEF InOrder, InOrderTurns, InOrderStep
  <2> HIDE DEF g, T
  <2>2. ASSUME NEW f PROVE InOrderTurns(T, f) <=> Solves(g, T, f)
    BY <1>1 DEF InOrderTurns, Solves
  <2>3. \E f : InOrderTurns(T, f)
    BY <1>2, <2>2, AllSolvable DEF Solvable, T
  <2> DEFINE c == CHOOSE f : InOrderTurns(T, f)
  <2>4. Solves(g, T, c)
    BY <2>2, <2>3
  <2> HIDE DEF c
  <2>5. c[n] = Value(g, n)
    BY <1>2, <2>4, Chosen DEF T
  <2>6. QED
    BY <2>1, <2>5 DEF c
<1> HIDE DEF g
<1>3. Value(g, t) = Result(g, t, Value(g, t.left), Value(g, t.right))
  BY Unwound DEF Result
<1>4. CASE t = Nil
  <2>1. \A l, r : InOrderStep(Nil, l, r) = Result(g, Nil, l, r)
    BY <1>1, Zenon
  <2>2. \A l, r : Result(g, Nil, l, r) = Base(g)
    BY DEF Result
  <2>3. QED
    BY <1>1, <1>2, <1>3, <1>4, <2>1, <2>2
<1>5. CASE t # Nil
  <2>1. InOrder(t.left) = Value(g, t.left) /\ InOrder(t.right) = Value(g, t.right)
    BY <1>2, <1>5, SearchSplit DEF Split
  <2>2. QED
    BY <1>1, <1>2, <1>3, <2>1
<1>6. QED
  BY <1>4, <1>5

PostOrderStep(n, l, r) == IF n = Nil THEN <<>> ELSE l \o r \o <<Entry(n)>>
PostOrderTurns(T, f) == f = [n \in T |-> PostOrderStep(n, f[n.left], f[n.right])]

LEMMA PostOrderTurn ==
  ASSUME NEW t, NEW E, Search(t, E)
  PROVE  PostOrder(t) = PostOrderStep(t, PostOrder(t.left), PostOrder(t.right))
<1> DEFINE g == Named("dispose", 0, 0)
<1>1. ASSUME NEW n, NEW l, NEW r PROVE Result(g, n, l, r) = PostOrderStep(n, l, r)
  <2>1. CASE n = Nil
    BY <2>1 DEF Named, Result, Base, PostOrderStep
  <2>2. CASE n # Nil
    BY <2>2 DEF Named, Result, Comb, Walk, PostOrderStep
  <2>3. QED
    BY <2>1, <2>2
<1>2. ASSUME NEW n, NEW F, Search(n, F) PROVE PostOrder(n) = Value(g, n)
  <2> DEFINE T == Trees(n)
  <2>1. PostOrder(n) = (CHOOSE f : PostOrderTurns(T, f))[n]
    BY DEF PostOrder, PostOrderTurns, PostOrderStep
  <2> HIDE DEF g, T
  <2>2. ASSUME NEW f PROVE PostOrderTurns(T, f) <=> Solves(g, T, f)
    BY <1>1 DEF PostOrderTurns, Solves
  <2>3. \E f : PostOrderTurns(T, f)
    BY <1>2, <2>2, AllSolvable DEF Solvable, T
  <2> DEFINE c == CHOOSE f : PostOrderTurns(T, f)
  <2>4. Solves(g, T, c)
    BY <2>2, <2>3
  <2> HIDE DEF c
  <2>5. c[n] = Value(g, n)
    BY <1>2, <2>4, Chosen DEF T
  <2>6. QED
    BY <2>1, <2>5 DEF c
<1> HIDE DEF g
<1>3. Value(g, t) = Result(g, t, Value(g, t.left), Value(g, t.right))
  BY Unwound DEF Result
<1>4. CASE t = Nil
  <2>1. \A l, r : PostOrderStep(Nil, l, r) = Result(g, Nil, l, r)
    BY <1>1, Zenon
  <2>2. \A l, r : Result(g, Nil, l, r) = Base(g)
    BY DEF Result
  <2>3. QED
    BY <1>1, <1>2, <1>3, <1>4, <2>1, <2>2
<1>5. CASE t # Nil
  <2>1. PostOrder(t.left) = Value(g, t.left) /\ PostOrder(t.right) = Value(g, t.right)
    BY <1>2, <1>5, SearchSplit DEF Split
  <2>2. QED
    BY <1>1, <1>2, <1>3, <2>1
<1>6. QED
  BY <1>4, <1>5

TreePutStep(n, l, r, k, v) == 
  IF n = Nil THEN Leaf(k, v)
  ELSE IF k < n.key THEN Rebuilt([n EXCEPT !.left = l])
  ELSE IF k > n.key THEN Rebuilt([n EXCEPT !.right = r])
  ELSE [n EXCEPT !.key = k, !.value = v]
TreePutTurns(T, f, k, v) == f = [n \in T |-> TreePutStep(n, f[n.left], f[n.right], k, v)]

LEMMA TreePutTurn ==
  ASSUME NEW t, NEW E, Search(t, E), NEW k, NEW v
  PROVE  TreePut(t, k, v) = TreePutStep(t, TreePut(t.left, k, v), TreePut(t.right, k, v), k, v)
<1> DEFINE g == Named("put", k, v)
<1>1. ASSUME NEW n, NEW l, NEW r PROVE Result(g, n, l, r) = TreePutStep(n, l, r, k, v)
  <2>1. CASE n = Nil
    BY <2>1 DEF Named, Result, Base, TreePutStep
  <2>2. CASE n # Nil
    BY <2>2 DEF Named, Result, Comb, Walk, TreePutStep
  <2>3. QED
    BY <2>1, <2>2
<1>2. ASSUME NEW n, NEW F, Search(n, F) PROVE TreePut(n, k, v) = Value(g, n)
  <2> DEFINE T == Trees(n)
  <2>1. TreePut(n, k, v) = (CHOOSE f : TreePutTurns(T, f, k, v))[n]
    BY DEF TreePut, TreePutTurns, TreePutStep
  <2> HIDE DEF g, T
  <2>2. ASSUME NEW f PROVE TreePutTurns(T, f, k, v) <=> Solves(g, T, f)
    BY <1>1 DEF TreePutTurns, Solves
  <2>3. \E f : TreePutTurns(T, f, k, v)
    BY <1>2, <2>2, AllSolvable DEF Solvable, T
  <2> DEFINE c == CHOOSE f : TreePutTurns(T, f, k, v)
  <2>4. Solves(g, T, c)
    BY <2>2, <2>3
  <2> HIDE DEF c
  <2>5. c[n] = Value(g, n)
    BY <1>2, <2>4, Chosen DEF T
  <2>6. QED
    BY <2>1, <2>5 DEF c
<1> HIDE DEF g
<1>3. Value(g, t) = Result(g, t, Value(g, t.left), Value(g, t.right))
  BY Unwound DEF Result
<1>4. CASE t = Nil
  <2>1. \A l, r : TreePutStep(Nil, l, r, k, v) = Result(g, Nil, l, r)
    BY <1>1, Zenon
  <2>2. \A l, r : Result(g, Nil, l, r) = Base(g)
    BY DEF Result
  <2>3. QED
    BY <1>1, <1>2, <1>3, <1>4, <2>1, <2>2
<1>5. CASE t # Nil
  <2>1. TreePut(t.left, k, v) = Value(g, t.left) /\ TreePut(t.right, k, v) = Value(g, t.right)
    BY <1>2, <1>5, SearchSplit DEF Split
  <2>2. QED
    BY <1>1, <1>2, <1>3, <2>1
<1>6. QED
  BY <1>4, <1>5

LeftmostStep(n, l, r) == IF n = Nil \/ n.left = Nil THEN n ELSE l
LeftmostTurns(T, f) == f = [n \in T |-> LeftmostStep(n, f[n.left], f[n.right])]

LEMMA LeftmostTurn ==
  ASSUME NEW t, NEW E, Search(t, E)
  PROVE  Leftmost(t) = LeftmostStep(t, Leftmost(t.left), Leftmost(t.right))
<1> DEFINE g == Named("leftmost", 0, 0)
<1>1. ASSUME NEW n, NEW l, NEW r PROVE Result(g, n, l, r) = LeftmostStep(n, l, r)
  <2>1. CASE n = Nil
    BY <2>1 DEF Named, Result, Base, LeftmostStep
  <2>2. CASE n # Nil
    BY <2>2 DEF Named, Result, Comb, Walk, LeftmostStep
  <2>3. QED
    BY <2>1, <2>2
<1>2. ASSUME NEW n, NEW F, Search(n, F) PROVE Leftmost(n) = Value(g, n)
  <2> DEFINE T == Trees(n)
  <2>1. Leftmost(n) = (CHOOSE f : LeftmostTurns(T, f))[n]
    BY DEF Leftmost, LeftmostTurns, LeftmostStep
  <2> HIDE DEF g, T
  <2>2. ASSUME NEW f PROVE LeftmostTurns(T, f) <=> Solves(g, T, f)
    BY <1>1 DEF LeftmostTurns, Solves
  <2>3. \E f : LeftmostTurns(T, f)
    BY <1>2, <2>2, AllSolvable DEF Solvable, T
  <2> DEFINE c == CHOOSE f : LeftmostTurns(T, f)
  <2>4. Solves(g, T, c)
    BY <2>2, <2>3
  <2> HIDE DEF c
  <2>5. c[n] = Value(g, n)
    BY <1>2, <2>4, Chosen DEF T
  <2>6. QED
    BY <2>1, <2>5 DEF c
<1> HIDE DEF g
<1>3. Value(g, t) = Result(g, t, Value(g, t.left), Value(g, t.right))
  BY Unwound DEF Result
<1>4. CASE t = Nil
  <2>1. \A l, r : LeftmostStep(Nil, l, r) = Result(g, Nil, l, r)
    BY <1>1, Zenon
  <2>2. \A l, r : Result(g, Nil, l, r) = Base(g)
    BY DEF Result
  <2>3. QED
    BY <1>1, <1>2, <1>3, <1>4, <2>1, <2>2
<1>5. CASE t # Nil
  <2>1. Leftmost(t.left) = Value(g, t.left) /\ Leftmost(t.right) = Value(g, t.right)
    BY <1>2, <1>5, SearchSplit DEF Split
  <2>2. QED
    BY <1>1, <1>2, <1>3, <2>1
<1>6. QED
  BY <1>4, <1>5

WithoutLeftmostStep(n, l, r) == IF n = Nil THEN Nil ELSE IF n.left = Nil THEN n.right ELSE [n EXCEPT !.left = l]
WithoutLeftmostTurns(T, f) == f = [n \in T |-> WithoutLeftmostStep(n, f[n.left], f[n.right])]

LEMMA WithoutLeftmostTurn ==
  ASSUME NEW t, NEW E, Search(t, E)
  PROVE  WithoutLeftmost(t) = WithoutLeftmostStep(t, WithoutLeftmost(t.left), WithoutLeftmost(t.right))
<1> DEFINE g == Named("rest", 0, 0)
<1>1. ASSUME NEW n, NEW l, NEW r PROVE Result(g, n, l, r) = WithoutLeftmostStep(n, l, r)
  <2>1. CASE n = Nil
    BY <2>1 DEF Named, Result, Base, WithoutLeftmostStep
  <2>2. CASE n # Nil
    BY <2>2 DEF Named, Result, Comb, Walk, WithoutLeftmostStep
  <2>3. QED
    BY <2>1, <2>2
<1>2. ASSUME NEW n, NEW F, Search(n, F) PROVE WithoutLeftmost(n) = Value(g, n)
  <2> DEFINE T == Trees(n)
  <2>1. WithoutLeftmost(n) = (CHOOSE f : WithoutLeftmostTurns(T, f))[n]
    BY DEF WithoutLeftmost, WithoutLeftmostTurns, WithoutLeftmostStep
  <2> HIDE DEF g, T
  <2>2. ASSUME NEW f PROVE WithoutLeftmostTurns(T, f) <=> Solves(g, T, f)
    BY <1>1 DEF WithoutLeftmostTurns, Solves
  <2>3. \E f : WithoutLeftmostTurns(T, f)
    BY <1>2, <2>2, AllSolvable DEF Solvable, T
  <2> DEFINE c == CHOOSE f : WithoutLeftmostTurns(T, f)
  <2>4. Solves(g, T, c)
    BY <2>2, <2>3
  <2> HIDE DEF c
  <2>5. c[n] = Value(g, n)
    BY <1>2, <2>4, Chosen DEF T
  <2>6. QED
    BY <2>1, <2>5 DEF c
<1> HIDE DEF g
<1>3. Value(g, t) = Result(g, t, Value(g, t.left), Value(g, t.right))
  BY Unwound DEF Result
<1>4. CASE t = Nil
  <2>1. \A l, r : WithoutLeftmostStep(Nil, l, r) = Result(g, Nil, l, r)
    BY <1>1, Zenon
  <2>2. \A l, r : Result(g, Nil, l, r) = Base(g)
    BY DEF Result
  <2>3. QED
    BY <1>1, <1>2, <1>3, <1>4, <2>1, <2>2
<1>5. CASE t # Nil
  <2>1. WithoutLeftmost(t.left) = Value(g, t.left) /\ WithoutLeftmost(t.right) = Value(g, t.right)
    BY <1>2, <1>5, SearchSplit DEF Split
  <2>2. QED
    BY <1>1, <1>2, <1>3, <2>1
<1>6. QED
  BY <1>4, <1>5

TreeRemoveStep(n, l, r, k) == 
  IF n = Nil THEN Nil
  ELSE IF k < n.key THEN Rebuilt([n EXCEPT !.left = l])
  ELSE IF k > n.key THEN Rebuilt([n EXCEPT !.right = r])
  ELSE node_rebalance(node_remove(n))
TreeRemoveTurns(T, f, k) == f = [n \in T |-> TreeRemoveStep(n, f[n.left], f[n.right], k)]

LEMMA TreeRemoveTurn ==
  ASSUME NEW t, NEW E, Search(t, E), NEW k
  PROVE  TreeRemove(t, k) = TreeRemoveStep(t, TreeRemove(t.left, k), TreeRemove(t.right, k), k)
<1> DEFINE g == Named("remove", k, k)
<1>1. ASSUME NEW n, NEW l, NEW r PROVE Result(g, n, l, r) = TreeRemoveStep(n, l, r, k)
  <2>1. CASE n = Nil
    BY <2>1 DEF Named, Result, Base, TreeRemoveStep
  <2>2. CASE n # Nil
    BY <2>2 DEF Named, Result, Comb, Walk, TreeRemoveStep
  <2>3. QED
    BY <2>1, <2>2
<1>2. ASSUME NEW n, NEW F, Search(n, F) PROVE TreeRemove(n, k) = Value(g, n)
  <2> DEFINE T == Trees(n)
  <2>1. TreeRemove(n, k) = (CHOOSE f : TreeRemoveTurns(T, f, k))[n]
    BY DEF TreeRemove, TreeRemoveTurns, TreeRemoveStep
  <2> HIDE DEF g, T
  <2>2. ASSUME NEW f PROVE TreeRemoveTurns(T, f, k) <=> Solves(g, T, f)
    BY <1>1 DEF TreeRemoveTurns, Solves
  <2>3. \E f : TreeRemoveTurns(T, f, k)
    BY <1>2, <2>2, AllSolvable DEF Solvable, T
  <2> DEFINE c == CHOOSE f : TreeRemoveTurns(T, f, k)
  <2>4. Solves(g, T, c)
    BY <2>2, <2>3
  <2> HIDE DEF c
  <2>5. c[n] = Value(g, n)
    BY <1>2, <2>4, Chosen DEF T
  <2>6. QED
    BY <2>1, <2>5 DEF c
<1> HIDE DEF g
<1>3. Value(g, t) = Result(g, t, Value(g, t.left), Value(g, t.right))
  BY Unwound DEF Result
<1>4. CASE t = Nil
  <2>1. \A l, r : TreeRemoveStep(Nil, l, r, k) = Result(g, Nil, l, r)
    BY <1>1, Zenon
  <2>2. \A l, r : Result(g, Nil, l, r) = Base(g)
    BY DEF Result
  <2>3. QED
    BY <1>1, <1>2, <1>3, <1>4, <2>1, <2>2
<1>5. CASE t # Nil
  <2>1. TreeRemove(t.left, k) = Value(g, t.left) /\ TreeRemove(t.right, k) = Value(g, t.right)
    BY <1>2, <1>5, SearchSplit DEF Split
  <2>2. QED
    BY <1>1, <1>2, <1>3, <2>1
<1>6. QED
  BY <1>4, <1>5

-----------------------------------------------------------------------------
\* What the reading functions make of a search tree.

LEMMA Halves ==
  ASSUME NEW n, NEW F, Entries(F), Split(n, F)
  PROVE  /\ F = Below(F, n.key) \cup {Entry(n)} \cup Above(F, n.key)
         /\ \A e \in Below(F, n.key) : e[1] < n.key
         /\ \A e \in Above(F, n.key) : e[1] > n.key
         /\ Cardinality(F) = Cardinality(Below(F, n.key)) + 1 + Cardinality(Above(F, n.key))
         /\ Cardinality(Below(F, n.key)) \in Nat
         /\ Cardinality(Above(F, n.key)) \in Nat
<1> DEFINE L == Below(F, n.key)
           R == Above(F, n.key)
<1>1. Entry(n) \in F /\ Entry(n)[1] = n.key /\ \A e \in F : e[1] = n.key => e = Entry(n)
  BY DEF Split, Tops, Entry
<1>2. n.key \in Int /\ \A e \in F : e[1] \in Int
  BY <1>1, EntriesKeys
<1>3. (\A e \in L : e[1] < n.key) /\ (\A e \in R : e[1] > n.key)
  BY DEF Below, Above
<1>4. F = L \cup {Entry(n)} \cup R
  BY <1>1, <1>2 DEF Below, Above
<1>5. Entry(n) \notin L /\ Entry(n) \notin R /\ L \cap R = {}
  BY <1>1, <1>2, <1>3 DEF Below, Above
<1>6. L \subseteq F /\ R \subseteq F /\ IsFiniteSet(F)
  BY DEF Below, Above, Entries
<1> HIDE DEF L, R
<1>7. IsFiniteSet(L) /\ IsFiniteSet(R) /\ Cardinality(L) \in Nat /\ Cardinality(R) \in Nat
  BY <1>6, FS_Subset, FS_CardinalityType
<1>8. IsFiniteSet(L \cup R) /\ Cardinality(L \cup R) = Cardinality(L) + Cardinality(R) - Cardinality({})
  BY <1>5, <1>7, FS_Union
<1>9. Cardinality((L \cup R) \cup {Entry(n)}) = Cardinality(L \cup R) + 1
  BY <1>5, <1>8, FS_AddElement
<1>10. (L \cup R) \cup {Entry(n)} = F
  BY <1>4
<1>11. Cardinality(F) = Cardinality(L) + 1 + Cardinality(R)
  BY <1>7, <1>8, <1>9, <1>10, FS_EmptySet
<1>12. QED
  BY <1>3, <1>4, <1>7, <1>11 DEF L, R

\* _vial_map_get finds the one entry with the key, when there is one.
Finds(t, E, k) ==
  LET n == Lookup(t, k)
  IN  IF n = Nil THEN \A e \in E : e[1] # k
      ELSE Entry(n) \in E /\ n.key = k /\ \A e \in E : e[1] = k => e = Entry(n)

LEMMA LookupFindsNil ==
  ASSUME NEW k \in Int
  PROVE  \A F : Search(Nil, F) => Finds(Nil, F, k)
BY LookupTurn, SearchNil DEF Finds, LookupStep

LEMMA LookupFindsStep ==
  ASSUME NEW k \in Int, NEW n, NEW F, n # Nil, Search(n, F), Entries(F), Split(n, F),
         Finds(n.left, Below(F, n.key), k), Finds(n.right, Above(F, n.key), k)
  PROVE  Finds(n, F, k)
<1>1. Lookup(n, k) = IF k < n.key THEN Lookup(n.left, k)
                     ELSE IF k > n.key THEN Lookup(n.right, k) ELSE n
  BY LookupTurn DEF LookupStep
<1>2. Entry(n) \in F /\ Entry(n)[1] = n.key /\ \A e \in F : e[1] = n.key => e = Entry(n)
  BY DEF Split, Tops, Entry
<1>3. n.key \in Int /\ \A e \in F : e[1] \in Int
  BY <1>2, EntriesKeys
<1>4. CASE k < n.key
  <2>1. \A e \in F : e[1] = k => e \in Below(F, n.key)
    BY <1>4 DEF Below
  <2>2. Below(F, n.key) \subseteq F
    BY DEF Below
  <2>3. Lookup(n, k) = Lookup(n.left, k)
    BY <1>1, <1>4
  <2>4. QED
    BY <2>1, <2>2, <2>3 DEF Finds
<1>5. CASE k > n.key
  <2>1. \A e \in F : e[1] = k => e \in Above(F, n.key)
    BY <1>5 DEF Above
  <2>2. Above(F, n.key) \subseteq F
    BY DEF Above
  <2>3. Lookup(n, k) = Lookup(n.right, k)
    BY <1>1, <1>3, <1>5
  <2>4. QED
    BY <2>1, <2>2, <2>3 DEF Finds
<1>6. CASE k = n.key
  BY <1>1, <1>2, <1>3, <1>6 DEF Finds
<1>7. QED
  BY <1>3, <1>4, <1>5, <1>6

\* A get finds the entry of the key in every search tree that has one.
LEMMA LookupFinds ==
  ASSUME NEW t, NEW E, Search(t, E), NEW k \in Int
  PROVE  Finds(t, E, k)
<1> DEFINE Q == {n \in Trees(t) \cup {Nil} : \A F : Search(n, F) => Finds(n, F, k)}
<1>1. Nil \in Q
  BY LookupFindsNil, SearchNil
<1>2. ASSUME NEW n \in Trees(t), n # Nil, n.left \in Q, n.right \in Q PROVE n \in Q
  <2>1. SUFFICES ASSUME NEW F, Search(n, F) PROVE Finds(n, F, k)
    OBVIOUS
  <2>2. Split(n, F) /\ Entries(F)
    BY <1>2, <2>1, SearchSplit, SearchEntries
  <2>3. Finds(n.left, Below(F, n.key), k) /\ Finds(n.right, Above(F, n.key), k)
    BY <1>2, <2>2 DEF Split
  <2>4. QED
    BY <1>2, <2>1, <2>2, <2>3, LookupFindsStep
<1> HIDE DEF Q
<1>3. Inherits(t, Q)
  BY <1>1, <1>2 DEF Inherits
<1>4. t \in Q
  BY <1>3, TreeInduction
<1>5. QED
  BY <1>4 DEF Q

\* The order of _vial_map_foreach.
Sorted(s) == \A i, j \in 1..Len(s) : i < j => s[i][1] < s[j][1]
Lists(t, E) ==
  /\ InOrder(t) \in Seq(E)
  /\ Len(InOrder(t)) = Cardinality(E)
  /\ Sorted(InOrder(t))

LEMMA InOrderListsNil == \A F : Search(Nil, F) => Lists(Nil, F)
<1>1. Search(Nil, {}) /\ \A F : Search(Nil, F) => F = {}
  BY SearchNil
<1>2. InOrder(Nil) = <<>>
  BY <1>1, InOrderTurn DEF InOrderStep
<1>3. QED
  BY <1>1, <1>2, FS_EmptySet DEF Lists, Sorted

LEMMA Joint ==
  ASSUME NEW S, NEW l \in Seq(S), NEW r \in Seq(S), NEW e \in S
  PROVE  LET s == l \o <<e>> \o r
         IN  /\ s \in Seq(S)
             /\ Len(s) = Len(l) + 1 + Len(r)
             /\ \A i \in 1..Len(s) :
                  s[i] = IF i <= Len(l) THEN l[i] ELSE IF i = Len(l) + 1 THEN e ELSE r[i - (Len(l) + 1)]
<1> DEFINE m == l \o <<e>>
<1>1. m \in Seq(S) /\ Len(m) = Len(l) + 1
  OBVIOUS
<1>2. \A i \in 1..Len(m) : m[i] = IF i <= Len(l) THEN l[i] ELSE e
  OBVIOUS
<1> HIDE DEF m
<1>3. /\ m \o r \in Seq(S)
      /\ Len(m \o r) = Len(m) + Len(r)
      /\ \A i \in 1..Len(m \o r) : (m \o r)[i] = IF i <= Len(m) THEN m[i] ELSE r[i - Len(m)]
  BY <1>1, ConcatProperties, ZenonT(60)
<1>4. Len(l) \in Nat /\ Len(r) \in Nat
  OBVIOUS
<1>5. \A i \in 1..Len(m \o r) :
        (m \o r)[i] = IF i <= Len(l) THEN l[i] ELSE IF i = Len(l) + 1 THEN e ELSE r[i - (Len(l) + 1)]
  BY <1>1, <1>2, <1>3, <1>4
<1>6. QED
  BY <1>1, <1>3, <1>5 DEF m

LEMMA InOrderListsStep ==
  ASSUME NEW n, NEW F, n # Nil, Search(n, F), Entries(F), Split(n, F),
         Lists(n.left, Below(F, n.key)), Lists(n.right, Above(F, n.key))
  PROVE  Lists(n, F)
<1> DEFINE l == InOrder(n.left)
           r == InOrder(n.right)
           e == Entry(n)
           s == l \o <<e>> \o r
<1>1. InOrder(n) = s
  BY InOrderTurn DEF InOrderStep
<1>2. l \in Seq(Below(F, n.key)) /\ r \in Seq(Above(F, n.key))
  BY DEF Lists
<1>3. e \in F /\ e[1] = n.key /\ n.key \in Int
  BY EntriesKeys DEF Split, Tops, Entry
<1>4. Below(F, n.key) \subseteq F /\ Above(F, n.key) \subseteq F /\ \A f \in F : f[1] \in Int
  BY EntriesKeys DEF Below, Above
<1>5. (\A i \in 1..Len(l) : l[i] \in Below(F, n.key)) /\ (\A i \in 1..Len(r) : r[i] \in Above(F, n.key))
  BY <1>2
<1>6. /\ Len(l) = Cardinality(Below(F, n.key)) /\ Sorted(l)
      /\ Len(r) = Cardinality(Above(F, n.key)) /\ Sorted(r)
  BY DEF Lists
<1> HIDE DEF l, r
<1>7. l \in Seq(F) /\ r \in Seq(F)
  BY <1>2, <1>4
<1> HIDE DEF e
<1>8. /\ s \in Seq(F)
      /\ Len(s) = Len(l) + 1 + Len(r)
      /\ \A i \in 1..Len(s) :
           s[i] = IF i <= Len(l) THEN l[i] ELSE IF i = Len(l) + 1 THEN e ELSE r[i - (Len(l) + 1)]
  BY <1>3, <1>7, Joint
<1>9. Len(s) = Cardinality(F)
  BY <1>6, <1>8, Halves
<1> HIDE DEF s
<1>10. Len(l) \in Nat /\ Len(r) \in Nat
  BY <1>7
<1>11. \A i \in 1..Len(s) : /\ i <= Len(l) => s[i][1] < n.key /\ s[i] = l[i] /\ i \in 1..Len(l)
                            /\ i = Len(l) + 1 => s[i][1] = n.key
                            /\ i > Len(l) + 1 => /\ s[i][1] > n.key /\ s[i] = r[i - (Len(l) + 1)]
                                                 /\ i - (Len(l) + 1) \in 1..Len(r)
  <2> TAKE i \in 1..Len(s)
  <2>1. CASE i <= Len(l)
    BY <1>5, <1>8, <1>10, <2>1 DEF Below
  <2>2. CASE i = Len(l) + 1
    BY <1>3, <1>8, <1>10, <2>2
  <2>3. CASE i > Len(l) + 1
    <3>1. i - (Len(l) + 1) \in 1..Len(r) /\ s[i] = r[i - (Len(l) + 1)]
      BY <1>8, <1>10, <2>3
    <3>2. r[i - (Len(l) + 1)] \in Above(F, n.key)
      BY <1>5, <3>1
    <3>3. QED
      BY <1>10, <2>3, <3>1, <3>2 DEF Above
  <2>4. QED
    BY <1>10, <2>1, <2>2, <2>3
<1>12. \A i \in 1..Len(s) : s[i][1] \in Int
  BY <1>4, <1>8
<1>13. ASSUME NEW i \in 1..Len(s), NEW j \in 1..Len(s), i < j PROVE s[i][1] < s[j][1]
  <2>1. CASE j <= Len(l)
    BY <1>6, <1>10, <1>11, <1>13, <2>1 DEF Sorted
  <2>2. CASE i > Len(l) + 1
    <3>1. /\ i - (Len(l) + 1) \in 1..Len(r) /\ j - (Len(l) + 1) \in 1..Len(r)
          /\ i - (Len(l) + 1) < j - (Len(l) + 1)
          /\ s[i] = r[i - (Len(l) + 1)] /\ s[j] = r[j - (Len(l) + 1)]
      BY <1>10, <1>11, <1>13, <2>2
    <3>2. QED
      BY <1>6, <3>1 DEF Sorted
  <2>3. CASE i <= Len(l) + 1 /\ j > Len(l)
    <3>1. i <= Len(l) \/ i = Len(l) + 1
      BY <1>10, <2>3
    <3>2. s[i][1] <= n.key /\ (i <= Len(l) => s[i][1] < n.key)
      BY <1>3, <1>11, <1>12, <3>1
    <3>3. j = Len(l) + 1 \/ j > Len(l) + 1
      BY <1>10, <2>3
    <3>4. s[j][1] >= n.key /\ (j > Len(l) + 1 => s[j][1] > n.key)
      BY <1>3, <1>11, <1>12, <3>3
    <3>5. i <= Len(l) \/ j > Len(l) + 1
      BY <1>10, <1>13, <3>1, <3>3
    <3>6. PICK x \in Int, y \in Int : x = s[i][1] /\ y = s[j][1]
      BY <1>12
    <3>7. CASE i <= Len(l)
      BY <1>3, <3>2, <3>4, <3>6, <3>7
    <3>8. CASE j > Len(l) + 1
      BY <1>3, <3>2, <3>4, <3>6, <3>8
    <3>9. QED
      BY <3>5, <3>7, <3>8
  <2>4. QED
    BY <1>10, <2>1, <2>2, <2>3
<1>14. QED
  BY <1>1, <1>8, <1>9, <1>13 DEF Lists, Sorted

\* foreach lists the entries of every search tree in order.
LEMMA InOrderLists ==
  ASSUME NEW t, NEW E, Search(t, E)
  PROVE  Lists(t, E)
<1> DEFINE Q == {n \in Trees(t) \cup {Nil} : \A F : Search(n, F) => Lists(n, F)}
<1>1. Nil \in Q
  BY InOrderListsNil, SearchNil
<1>2. ASSUME NEW n \in Trees(t), n # Nil, n.left \in Q, n.right \in Q PROVE n \in Q
  <2>1. SUFFICES ASSUME NEW F, Search(n, F) PROVE Lists(n, F)
    OBVIOUS
  <2>2. Split(n, F) /\ Entries(F)
    BY <1>2, <2>1, SearchSplit, SearchEntries
  <2>3. Lists(n.left, Below(F, n.key)) /\ Lists(n.right, Above(F, n.key))
    BY <1>2, <2>2 DEF Split
  <2>4. QED
    BY <1>2, <2>1, <2>2, <2>3, InOrderListsStep
<1> HIDE DEF Q
<1>3. Inherits(t, Q)
  BY <1>1, <1>2 DEF Inherits
<1>4. t \in Q
  BY <1>3, TreeInduction
<1>5. QED
  BY <1>4 DEF Q

\* The order of _vial_map_dispose: every entry once.
Drains(t, E) ==
  /\ PostOrder(t) \in Seq(E)
  /\ \A e \in E : \E i \in 1..Len(PostOrder(t)) : PostOrder(t)[i] = e
  /\ \A i, j \in 1..Len(PostOrder(t)) : PostOrder(t)[i] = PostOrder(t)[j] => i = j

LEMMA PostOrderDrainsNil == \A F : Search(Nil, F) => Drains(Nil, F)
<1>1. Search(Nil, {}) /\ \A F : Search(Nil, F) => F = {}
  BY SearchNil
<1>2. PostOrder(Nil) = <<>>
  BY <1>1, PostOrderTurn DEF PostOrderStep
<1>3. QED
  BY <1>1, <1>2 DEF Drains

LEMMA PostOrderDrainsStep ==
  ASSUME NEW n, NEW F, n # Nil, Search(n, F), Entries(F), Split(n, F),
         Drains(n.left, Below(F, n.key)), Drains(n.right, Above(F, n.key))
  PROVE  Drains(n, F)
<1> DEFINE l == PostOrder(n.left)
           r == PostOrder(n.right)
           e == Entry(n)
           s == l \o r \o <<e>>
           B == Below(F, n.key)
           A == Above(F, n.key)
<1>1. PostOrder(n) = s
  BY PostOrderTurn DEF PostOrderStep
<1>2. l \in Seq(B) /\ r \in Seq(A)
  BY DEF Drains
<1>3. /\ \A f \in B : \E i \in 1..Len(l) : l[i] = f
      /\ \A f \in A : \E i \in 1..Len(r) : r[i] = f
      /\ \A i, j \in 1..Len(l) : l[i] = l[j] => i = j
      /\ \A i, j \in 1..Len(r) : r[i] = r[j] => i = j
  BY DEF Drains
<1>4. e \in F /\ e[1] = n.key /\ n.key \in Int
  BY EntriesKeys DEF Split, Tops, Entry
<1>5. F = B \cup {e} \cup A
  BY Halves
<1>6. B \cap A = {} /\ e \notin B /\ e \notin A
  BY <1>4, EntriesKeys DEF Below, Above
<1> HIDE DEF l, r, e, B, A
<1>7. B \subseteq F /\ A \subseteq F
  BY <1>5
<1>8. l \in Seq(F) /\ r \in Seq(F) /\ Len(l) \in Nat /\ Len(r) \in Nat
  BY <1>2, <1>7
<1> DEFINE m == l \o r
<1>9. /\ m \in Seq(F) /\ Len(m) = Len(l) + Len(r)
      /\ \A i \in 1..Len(m) : m[i] = IF i <= Len(l) THEN l[i] ELSE r[i - Len(l)]
  BY <1>8
<1> HIDE DEF m
<1>10. /\ s \in Seq(F) /\ Len(s) = Len(l) + Len(r) + 1
       /\ \A i \in 1..Len(s) : s[i] = IF i <= Len(m) THEN m[i] ELSE e
  BY <1>4, <1>8, <1>9 DEF m
<1> HIDE DEF s
<1>11. \A i \in 1..Len(s) : /\ i <= Len(l) => s[i] \in B /\ s[i] = l[i] /\ i \in 1..Len(l)
                            /\ i > Len(l) /\ i <= Len(l) + Len(r) =>
                                 /\ s[i] \in A /\ s[i] = r[i - Len(l)] /\ i - Len(l) \in 1..Len(r)
                            /\ i > Len(l) + Len(r) => s[i] = e /\ i = Len(l) + Len(r) + 1
  <2> TAKE i \in 1..Len(s)
  <2>1. (\A j \in 1..Len(l) : l[j] \in B) /\ (\A j \in 1..Len(r) : r[j] \in A)
    BY <1>2
  <2>2. CASE i <= Len(l)
    <3>1. i \in 1..Len(l) /\ i \in 1..Len(m)
      BY <1>8, <1>9, <2>2
    <3>2. s[i] = l[i]
      BY <1>9, <1>10, <2>2, <3>1
    <3>3. QED
      BY <1>8, <2>1, <2>2, <3>1, <3>2
  <2>3. CASE i > Len(l) /\ i <= Len(l) + Len(r)
    <3>1. i - Len(l) \in 1..Len(r) /\ i \in 1..Len(m)
      BY <1>8, <1>9, <2>3
    <3>2. s[i] = r[i - Len(l)]
      BY <1>8, <1>9, <1>10, <2>3, <3>1
    <3>3. QED
      BY <1>8, <2>1, <2>3, <3>1, <3>2
  <2>4. CASE i > Len(l) + Len(r)
    <3>1. ~(i <= Len(m)) /\ i = Len(l) + Len(r) + 1 /\ ~(i <= Len(l)) /\ ~(i <= Len(l) + Len(r))
      BY <1>8, <1>9, <1>10, <2>4
    <3>2. s[i] = e
      BY <1>10, <3>1
    <3>3. QED
      BY <3>1, <3>2
  <2>5. QED
    BY <1>8, <2>2, <2>3, <2>4
<1>12. ASSUME NEW f \in F PROVE \E i \in 1..Len(s) : s[i] = f
  <2>1. CASE f \in B
    <3>1. PICK i \in 1..Len(l) : l[i] = f
      BY <1>3, <2>1
    <3>2. i \in 1..Len(s) /\ s[i] = f
      BY <1>8, <1>10, <1>11, <3>1
    <3>3. QED
      BY <3>2
  <2>2. CASE f \in A
    <3>1. PICK i \in 1..Len(r) : r[i] = f
      BY <1>3, <2>2
    <3>2. i + Len(l) \in 1..Len(s) /\ i + Len(l) > Len(l) /\ i + Len(l) <= Len(l) + Len(r)
          /\ (i + Len(l)) - Len(l) = i
      BY <1>8, <1>10
    <3>3. s[i + Len(l)] = f
      BY <1>11, <3>1, <3>2
    <3>4. QED
      BY <3>2, <3>3
  <2>3. CASE f = e
    <3>1. Len(s) \in 1..Len(s) /\ Len(s) > Len(l) + Len(r)
      BY <1>8, <1>10
    <3>2. QED
      BY <1>11, <2>3, <3>1
  <2>4. QED
    BY <1>5, <2>1, <2>2, <2>3
<1>13. ASSUME NEW i \in 1..Len(s), NEW j \in 1..Len(s), s[i] = s[j] PROVE i = j
  <2>1. CASE i <= Len(l)
    <3>1. j <= Len(l)
      BY <1>6, <1>8, <1>11, <1>13, <2>1
    <3>2. QED
      BY <1>3, <1>11, <1>13, <2>1, <3>1, SMTT(60)
  <2>2. CASE i > Len(l) /\ i <= Len(l) + Len(r)
    <3>1. j > Len(l) /\ j <= Len(l) + Len(r)
      BY <1>6, <1>8, <1>11, <1>13, <2>2
    <3>2. i - Len(l) = j - Len(l)
      BY <1>3, <1>11, <1>13, <2>2, <3>1, SMTT(60)
    <3>3. QED
      BY <1>8, <3>2
  <2>3. CASE i > Len(l) + Len(r)
    <3>1. j > Len(l) + Len(r)
      BY <1>6, <1>8, <1>11, <1>13, <2>3
    <3>2. QED
      BY <1>11, <2>3, <3>1
  <2>4. QED
    BY <1>8, <2>1, <2>2, <2>3
<1>14. QED
  BY <1>1, <1>10, <1>12, <1>13 DEF Drains

\* dispose drains every search tree, each entry once.
LEMMA PostOrderDrains ==
  ASSUME NEW t, NEW E, Search(t, E)
  PROVE  Drains(t, E)
<1> DEFINE Q == {n \in Trees(t) \cup {Nil} : \A F : Search(n, F) => Drains(n, F)}
<1>1. Nil \in Q
  BY PostOrderDrainsNil, SearchNil
<1>2. ASSUME NEW n \in Trees(t), n # Nil, n.left \in Q, n.right \in Q PROVE n \in Q
  <2>1. SUFFICES ASSUME NEW F, Search(n, F) PROVE Drains(n, F)
    OBVIOUS
  <2>2. Split(n, F) /\ Entries(F)
    BY <1>2, <2>1, SearchSplit, SearchEntries
  <2>3. Drains(n.left, Below(F, n.key)) /\ Drains(n.right, Above(F, n.key))
    BY <1>2, <2>2 DEF Split
  <2>4. QED
    BY <1>2, <2>1, <2>2, <2>3, PostOrderDrainsStep
<1> HIDE DEF Q
<1>3. Inherits(t, Q)
  BY <1>1, <1>2 DEF Inherits
<1>4. t \in Q
  BY <1>3, TreeInduction
<1>5. QED
  BY <1>4 DEF Q

-----------------------------------------------------------------------------
\* What is built of a search tree is a search tree, or the outcome of following NULL.

Fits(t, E) == t = Crash \/ Search(t, E)

LEMMA NilNotCrash == Nil # Crash
<1>1. DOMAIN Nil = {} /\ DOMAIN Crash = {"crash"}
  BY DEF Nil, Crash
<1>2. QED
  BY <1>1

LEMMA SearchHeight ==
  ASSUME NEW t, NEW E, Search(t, E)
  PROVE  /\ Height(t) \in Nat
         /\ t # Crash
         /\ Height(t) > 0 => t # Nil
<1>1. t # Nil => IsNode(t) /\ t.height \in Nat
  BY SearchSplit DEF Split, Tops
<1>2. t # Crash
  BY <1>1, NodeNotNil, NilNotCrash DEF IsNode
<1>3. QED
  BY <1>1, <1>2 DEF Height

LEMMA LargerType ==
  ASSUME NEW a \in Nat, NEW b \in Nat
  PROVE  Larger(a, b) \in Nat
BY DEF Larger

\* A node over two search trees.
Over(k, v, l, r, E) ==
  /\ <<k, v>> \in E
  /\ \A e \in E : e[1] = k => e = <<k, v>>
  /\ Search(l, Below(E, k))
  /\ Search(r, Above(E, k))

LEMMA SearchNode ==
  ASSUME NEW k, NEW v, NEW l, NEW r, NEW E, Entries(E), NEW h \in Nat, Over(k, v, l, r, E)
  PROVE  Search(Node(k, v, l, r, h), E)
<1> DEFINE n == Node(k, v, l, r, h)
<1>1. n.key = k /\ n.value = v /\ n.left = l /\ n.right = r /\ n.height = h /\ IsNode(n)
  BY DEF Node, IsNode
<1>2. n # Nil
  BY NodeNotNil
<1> HIDE DEF n
<1>3. Entry(n) = <<k, v>>
  BY <1>1 DEF Entry
<1>4. Split(n, E)
  BY <1>1, <1>3 DEF Split, Tops, Over
<1>5. Search(n, E)
  BY <1>2, <1>4, SearchJoin
<1>6. QED
  BY <1>5 DEF n

LEMMA SplitOver ==
  ASSUME NEW n, NEW E, Split(n, E)
  PROVE  Over(n.key, n.value, n.left, n.right, E) /\ IsNode(n)
BY DEF Split, Tops, Over, Entry

\* The height node_rotate and node_rebalance store.
NewHeight(l, r) == 1 + Larger(Height(l), Height(r))

LEMMA NewHeightType ==
  ASSUME NEW l, NEW r, NEW E, NEW F, Search(l, E), Search(r, F)
  PROVE  NewHeight(l, r) \in Nat
<1>1. Larger(Height(l), Height(r)) \in Nat
  BY SearchHeight, LargerType
<1>2. QED
  BY <1>1 DEF NewHeight

\* Cutting a set of entries twice.
LEMMA Cuts ==
  ASSUME NEW E, Entries(E), NEW a \in Int, NEW b \in Int, a < b
  PROVE  /\ Below(Below(E, b), a) = Below(E, a)
         /\ Above(Above(E, a), b) = Above(E, b)
         /\ Above(Below(E, b), a) = Below(Above(E, a), b)
<1>1. \A e \in E : e[1] \in Int
  BY EntriesKeys
<1>2. \A e \in E : e[1] < a => e[1] < b
  BY <1>1
<1>3. \A e \in E : e[1] > b => e[1] > a
  BY <1>1
<1>4. QED
  BY <1>2, <1>3 DEF Below, Above

LEMMA RotateRightFits ==
  ASSUME NEW n, NEW E, Entries(E), IsNode(n),
         Over(n.key, n.value, n.left, n.right, E)
  PROVE  Fits(RotateRight(n), E)
<1> DEFINE c == n.left
           B == Below(E, n.key)
           A == Above(E, n.key)
<1>1. Search(c, B) /\ Search(n.right, A)
  BY DEF Over
<1>2. CASE c = Nil
  BY <1>2 DEF RotateRight, Fits
<1>3. CASE c # Nil
  <2>1. Entries(B) /\ Split(c, B)
    BY <1>1, <1>3, SearchEntries, SearchSplit
  <2>2. Over(c.key, c.value, c.left, c.right, B) /\ IsNode(c)
    BY <2>1, SplitOver
  <2>3. /\ <<n.key, n.value>> \in E /\ \A e \in E : e[1] = n.key => e = <<n.key, n.value>>
        /\ <<c.key, c.value>> \in B /\ \A e \in B : e[1] = c.key => e = <<c.key, c.value>>
    BY <2>2 DEF Over
  <2>4. /\ n.key \in Int /\ c.key \in Int /\ c.key < n.key /\ <<c.key, c.value>> \in E
        /\ \A e \in E : e[1] < n.key => e \in B
    BY <2>3, EntriesKeys DEF Below
  <2>5. Below(B, c.key) = Below(E, c.key) /\ Above(B, c.key) = Below(Above(E, c.key), n.key)
        /\ Above(Above(E, c.key), n.key) = A
    BY <2>4, Cuts
  <2> DEFINE G == Above(E, c.key)
  <2>6. Entries(G)
    BY EntriesPart DEF Above
  <2>7. Over(n.key, n.value, c.right, n.right, G)
    <3>1. <<n.key, n.value>> \in G /\ G \subseteq E
      BY <2>3, <2>4 DEF Above
    <3>2. Search(c.right, Below(G, n.key)) /\ Search(n.right, Above(G, n.key))
      BY <1>1, <2>2, <2>5 DEF Over
    <3>3. QED
      BY <2>3, <3>1, <3>2 DEF Over
  <2> DEFINE old == Node(n.key, n.value, c.right, n.right, NewHeight(c.right, n.right))
  <2>8. NewHeight(c.right, n.right) \in Nat
    BY <2>7, NewHeightType DEF Over
  <2>9. Search(old, G)
    BY <2>6, <2>7, <2>8, SearchNode
  <2>10. RotateRight(n) = Node(c.key, c.value, c.left, old, NewHeight(c.left, old))
    BY <2>2, RotateRightNode DEF NewHeight
  <2> HIDE DEF old
  <2>11. Over(c.key, c.value, c.left, old, E)
    <3>1. Search(c.left, Below(E, c.key))
      BY <2>2, <2>5 DEF Over
    <3>2. \A e \in E : e[1] = c.key => e \in B
      BY <2>4
    <3>3. QED
      BY <2>3, <2>4, <2>9, <3>1, <3>2 DEF Over
  <2>12. NewHeight(c.left, old) \in Nat
    BY <2>11, NewHeightType DEF Over
  <2>13. QED
    BY <2>10, <2>11, <2>12, SearchNode DEF Fits
<1>4. QED
  BY <1>2, <1>3

LEMMA RotateLeftFits ==
  ASSUME NEW n, NEW E, Entries(E), IsNode(n),
         Over(n.key, n.value, n.left, n.right, E)
  PROVE  Fits(RotateLeft(n), E)
<1> DEFINE c == n.right
           B == Below(E, n.key)
           A == Above(E, n.key)
<1>1. Search(n.left, B) /\ Search(c, A)
  BY DEF Over
<1>2. CASE c = Nil
  BY <1>2 DEF RotateLeft, Fits
<1>3. CASE c # Nil
  <2>1. Entries(A) /\ Split(c, A)
    BY <1>1, <1>3, SearchEntries, SearchSplit
  <2>2. Over(c.key, c.value, c.left, c.right, A) /\ IsNode(c)
    BY <2>1, SplitOver
  <2>3. /\ <<n.key, n.value>> \in E /\ \A e \in E : e[1] = n.key => e = <<n.key, n.value>>
        /\ <<c.key, c.value>> \in A /\ \A e \in A : e[1] = c.key => e = <<c.key, c.value>>
    BY <2>2 DEF Over
  <2>4. /\ n.key \in Int /\ c.key \in Int /\ n.key < c.key /\ <<c.key, c.value>> \in E
        /\ \A e \in E : e[1] > n.key => e \in A
    BY <2>3, EntriesKeys DEF Above
  <2>5. Above(A, c.key) = Above(E, c.key) /\ Below(A, c.key) = Above(Below(E, c.key), n.key)
        /\ Below(Below(E, c.key), n.key) = B
    BY <2>4, Cuts
  <2> DEFINE G == Below(E, c.key)
  <2>6. Entries(G)
    BY EntriesPart DEF Below
  <2>7. Over(n.key, n.value, n.left, c.left, G)
    <3>1. <<n.key, n.value>> \in G /\ G \subseteq E
      BY <2>3, <2>4 DEF Below
    <3>2. Search(c.left, Above(G, n.key)) /\ Search(n.left, Below(G, n.key))
      BY <1>1, <2>2, <2>5 DEF Over
    <3>3. QED
      BY <2>3, <3>1, <3>2 DEF Over
  <2> DEFINE old == Node(n.key, n.value, n.left, c.left, NewHeight(n.left, c.left))
  <2>8. NewHeight(n.left, c.left) \in Nat
    BY <2>7, NewHeightType DEF Over
  <2>9. Search(old, G)
    BY <2>6, <2>7, <2>8, SearchNode
  <2>10. RotateLeft(n) = Node(c.key, c.value, old, c.right, NewHeight(old, c.right))
    BY <2>2, RotateLeftNode DEF NewHeight
  <2> HIDE DEF old
  <2>11. Over(c.key, c.value, old, c.right, E)
    <3>1. Search(c.right, Above(E, c.key))
      BY <2>2, <2>5 DEF Over
    <3>2. \A e \in E : e[1] = c.key => e \in A
      BY <2>4
    <3>3. QED
      BY <2>3, <2>4, <2>9, <3>1, <3>2 DEF Over
  <2>12. NewHeight(old, c.right) \in Nat
    BY <2>11, NewHeightType DEF Over
  <2>13. QED
    BY <2>10, <2>11, <2>12, SearchNode DEF Fits
<1>4. QED
  BY <1>2, <1>3

LEMMA StraightenFits ==
  ASSUME NEW c, NEW E, Search(c, E), c # Nil
  PROVE  Fits(StraightenLeft(c), E) /\ Fits(StraightenRight(c), E)
<1>1. Entries(E) /\ Over(c.key, c.value, c.left, c.right, E) /\ IsNode(c)
  BY SearchEntries, SearchSplit, SplitOver
<1>2. Fits(RotateLeft(c), E) /\ Fits(RotateRight(c), E) /\ Fits(c, E)
  BY <1>1, RotateLeftFits, RotateRightFits DEF Fits
<1>3. QED
  BY <1>2 DEF StraightenLeft, StraightenRight

\* The outcomes of node_rebalance, whatever the heights of the subtrees.
LEMMA RebalanceCases ==
  ASSUME NEW n, IsNode(n), Height(n.left) \in Nat, Height(n.right) \in Nat
  PROVE  LET h == NewHeight(n.left, n.right)
         IN  node_rebalance(n) =
               IF Height(n.left) > Height(n.right) + 1
               THEN RotateRight(Node(n.key, n.value, StraightenLeft(n.left), n.right, h))
               ELSE IF Height(n.right) > Height(n.left) + 1
               THEN RotateLeft(Node(n.key, n.value, n.left, StraightenRight(n.right), h))
               ELSE Node(n.key, n.value, n.left, n.right, h)
<1> DEFINE h == NewHeight(n.left, n.right)
<1>1. CASE Height(n.left) > Height(n.right) + 1 \/ Height(n.right) > Height(n.left) + 1
  BY <1>1, RebalanceHeavy DEF NewHeight
<1>2. CASE ~(Height(n.left) > Height(n.right) + 1) /\ ~(Height(n.right) > Height(n.left) + 1)
  <2>1. n # Nil
    BY NodeNotNil DEF IsNode
  <2>2. node_rebalance(n) = [n EXCEPT !.height = h]
    BY <1>2, <2>1 DEF node_rebalance, NewHeight
  <2>3. [n EXCEPT !.height = h] = Node(n.key, n.value, n.left, n.right, h)
    BY DEF IsNode, Node
  <2>4. QED
    BY <1>2, <2>2, <2>3
<1>3. QED
  BY <1>1, <1>2

LEMMA NodeFields ==
  ASSUME NEW k, NEW v, NEW l, NEW r, NEW h
  PROVE  LET n == Node(k, v, l, r, h)
         IN  n.key = k /\ n.value = v /\ n.left = l /\ n.right = r /\ n.height = h /\ IsNode(n)
BY DEF Node, IsNode

LEMMA RebalanceFits ==
  ASSUME NEW n, NEW E, Entries(E), IsNode(n), Over(n.key, n.value, n.left, n.right, E)
  PROVE  Fits(node_rebalance(n), E)
<1> DEFINE h == NewHeight(n.left, n.right)
           sl == StraightenLeft(n.left)
           sr == StraightenRight(n.right)
<1>1. Search(n.left, Below(E, n.key)) /\ Search(n.right, Above(E, n.key))
  BY DEF Over
<1>2. Height(n.left) \in Nat /\ Height(n.right) \in Nat /\ h \in Nat
  BY <1>1, SearchHeight, NewHeightType
<1>3. CASE Height(n.left) > Height(n.right) + 1
  <2> DEFINE m == Node(n.key, n.value, sl, n.right, h)
  <2>1. node_rebalance(n) = RotateRight(m)
    BY <1>2, <1>3, RebalanceCases
  <2>2. n.left # Nil
    BY <1>1, <1>2, <1>3, SearchHeight
  <2>3. Fits(sl, Below(E, n.key))
    BY <1>1, <2>2, StraightenFits
  <2>4. m.key = n.key /\ m.value = n.value /\ m.left = sl /\ m.right = n.right /\ IsNode(m)
    BY NodeFields
  <2> HIDE DEF m, sl
  <2>5. CASE sl = Crash
    BY <2>1, <2>4, <2>5 DEF RotateRight, Fits
  <2>6. CASE Search(sl, Below(E, n.key))
    <3>1. Over(m.key, m.value, m.left, m.right, E)
      BY <1>1, <2>4, <2>6 DEF Over
    <3>2. QED
      BY <2>1, <2>4, <3>1, RotateRightFits
  <2>7. QED
    BY <2>3, <2>5, <2>6 DEF Fits
<1>4. CASE ~(Height(n.left) > Height(n.right) + 1) /\ Height(n.right) > Height(n.left) + 1
  <2> DEFINE m == Node(n.key, n.value, n.left, sr, h)
  <2>1. node_rebalance(n) = RotateLeft(m)
    BY <1>2, <1>4, RebalanceCases
  <2>2. n.right # Nil
    BY <1>1, <1>2, <1>4, SearchHeight
  <2>3. Fits(sr, Above(E, n.key))
    BY <1>1, <2>2, StraightenFits
  <2>4. m.key = n.key /\ m.value = n.value /\ m.left = n.left /\ m.right = sr /\ IsNode(m)
    BY NodeFields
  <2> HIDE DEF m, sr
  <2>5. CASE sr = Crash
    BY <2>1, <2>4, <2>5 DEF RotateLeft, Fits
  <2>6. CASE Search(sr, Above(E, n.key))
    <3>1. Over(m.key, m.value, m.left, m.right, E)
      BY <1>1, <2>4, <2>6 DEF Over
    <3>2. QED
      BY <2>1, <2>4, <3>1, RotateLeftFits
  <2>7. QED
    BY <2>3, <2>5, <2>6 DEF Fits
<1>5. CASE ~(Height(n.left) > Height(n.right) + 1) /\ ~(Height(n.right) > Height(n.left) + 1)
  <2>1. node_rebalance(n) = Node(n.key, n.value, n.left, n.right, h)
    BY <1>2, <1>5, RebalanceCases
  <2>2. QED
    BY <1>2, <2>1, SearchNode DEF Fits
<1>6. QED
  BY <1>3, <1>4, <1>5

\* A subtree rebuilt and linked again.
LEMMA RebuiltLeft ==
  ASSUME NEW n, NEW E, Entries(E), IsNode(n), NEW l, Fits(l, Below(E, n.key)),
         \A x : Search(x, Below(E, n.key)) => Over(n.key, n.value, x, n.right, E)
  PROVE  Fits(Rebuilt([n EXCEPT !.left = l]), E)
<1> DEFINE m == [n EXCEPT !.left = l]
<1>1. m = Node(n.key, n.value, l, n.right, n.height)
  BY DEF IsNode, Node
<1>2. m.key = n.key /\ m.value = n.value /\ m.left = l /\ m.right = n.right /\ IsNode(m)
  BY <1>1, NodeFields
<1> HIDE DEF m
<1>3. CASE Crash \in {m.left, m.right}
  BY <1>3 DEF Rebuilt, Fits, m
<1>4. CASE Crash \notin {m.left, m.right}
  <2>1. Over(m.key, m.value, m.left, m.right, E)
    BY <1>2, <1>4 DEF Fits
  <2>2. Rebuilt(m) = node_rebalance(m)
    BY <1>4 DEF Rebuilt
  <2>3. Fits(Rebuilt(m), E)
    BY <1>2, <2>1, <2>2, RebalanceFits
  <2>4. QED
    BY <2>3 DEF m
<1>5. QED
  BY <1>3, <1>4

LEMMA RebuiltRight ==
  ASSUME NEW n, NEW E, Entries(E), IsNode(n), NEW r, Fits(r, Above(E, n.key)),
         \A x : Search(x, Above(E, n.key)) => Over(n.key, n.value, n.left, x, E)
  PROVE  Fits(Rebuilt([n EXCEPT !.right = r]), E)
<1> DEFINE m == [n EXCEPT !.right = r]
<1>1. m = Node(n.key, n.value, n.left, r, n.height)
  BY DEF IsNode, Node
<1>2. m.key = n.key /\ m.value = n.value /\ m.left = n.left /\ m.right = r /\ IsNode(m)
  BY <1>1, NodeFields
<1> HIDE DEF m
<1>3. CASE Crash \in {m.left, m.right}
  BY <1>3 DEF Rebuilt, Fits, m
<1>4. CASE Crash \notin {m.left, m.right}
  <2>1. Over(m.key, m.value, m.left, m.right, E)
    BY <1>2, <1>4 DEF Fits
  <2>2. Rebuilt(m) = node_rebalance(m)
    BY <1>4 DEF Rebuilt
  <2>3. Fits(Rebuilt(m), E)
    BY <1>2, <2>1, <2>2, RebalanceFits
  <2>4. QED
    BY <2>3 DEF m
<1>5. QED
  BY <1>3, <1>4

-----------------------------------------------------------------------------
\* The entries after a put and after a removal.

Dropped(E, k) == {e \in E : e[1] # k}
Updated(E, k, v) == Dropped(E, k) \cup {<<k, v>>}

LEMMA ChangedEntries ==
  ASSUME NEW E, Entries(E), NEW k
  PROVE  /\ Entries(Dropped(E, k))
         /\ k \in Key => \A v \in Val : Entries(Updated(E, k, v))
<1>1. Entries(Dropped(E, k))
  BY EntriesPart DEF Dropped
<1>2. ASSUME k \in Key, NEW v \in Val PROVE Entries(Updated(E, k, v))
  <2>1. IsFiniteSet(Dropped(E, k) \cup {<<k, v>>})
    BY <1>1, FS_AddElement DEF Entries
  <2>2. QED
    BY <1>1, <1>2, <2>1 DEF Entries, Updated
<1>3. QED
  BY <1>1, <1>2

LEMMA ChangedCuts ==
  ASSUME NEW E, Entries(E), NEW a \in Int, NEW k \in Int
  PROVE  /\ Below(Dropped(E, k), a) = Dropped(Below(E, a), k)
         /\ Above(Dropped(E, k), a) = Dropped(Above(E, a), k)
         /\ k <= a => Dropped(Above(E, a), k) = Above(E, a)
         /\ k >= a => Dropped(Below(E, a), k) = Below(E, a)
         /\ \A v : k < a => Below(Updated(E, k, v), a) = Updated(Below(E, a), k, v)
         /\ \A v : k > a => Above(Updated(E, k, v), a) = Updated(Above(E, a), k, v)
         /\ \A v : k <= a => Above(Updated(E, k, v), a) = Above(E, a)
         /\ \A v : k >= a => Below(Updated(E, k, v), a) = Below(E, a)
<1>1. \A e \in E : e[1] \in Int
  BY EntriesKeys
<1>2. Below(Dropped(E, k), a) = Dropped(Below(E, a), k) /\ Above(Dropped(E, k), a) = Dropped(Above(E, a), k)
  BY DEF Below, Above, Dropped
<1>3. (k <= a => Dropped(Above(E, a), k) = Above(E, a)) /\ (k >= a => Dropped(Below(E, a), k) = Below(E, a))
  BY <1>1 DEF Below, Above, Dropped
<1>4. ASSUME NEW v PROVE /\ k < a => Below(Updated(E, k, v), a) = Updated(Below(E, a), k, v)
                         /\ k > a => Above(Updated(E, k, v), a) = Updated(Above(E, a), k, v)
  BY <1>1 DEF Below, Above, Dropped, Updated
<1>5. ASSUME NEW v PROVE k <= a => Above(Updated(E, k, v), a) = Above(E, a)
  BY <1>1 DEF Above, Dropped, Updated
<1>6. ASSUME NEW v PROVE k >= a => Below(Updated(E, k, v), a) = Below(E, a)
  BY <1>1 DEF Below, Dropped, Updated
<1>7. QED
  BY <1>2, <1>3, <1>4, <1>5, <1>6

\* A node keeps its entry when another key is put or removed.
Sole(a, b, E) == <<a, b>> \in E /\ \A e \in E : e[1] = a => e = <<a, b>>

LEMMA OverDropped ==
  ASSUME NEW E, NEW k, NEW a, NEW b, k # a, Sole(a, b, E)
  PROVE  Sole(a, b, Dropped(E, k))
BY DEF Dropped, Sole

LEMMA OverUpdated ==
  ASSUME NEW E, NEW k, NEW v, NEW a, NEW b, k # a, Sole(a, b, E)
  PROVE  Sole(a, b, Updated(E, k, v))
BY DEF Dropped, Updated, Sole

\* Two fields of a node assigned at once.
WithEntry(n, x, y) == [n EXCEPT !.key = x, !.value = y]
WithSubtrees(n, x, y) == [n EXCEPT !.left = x, !.right = y]

LEMMA TwoFields ==
  ASSUME NEW n, IsNode(n), NEW x, NEW y
  PROVE  /\ WithEntry(n, x, y) = Node(x, y, n.left, n.right, n.height)
         /\ WithSubtrees(n, x, y) = Node(n.key, n.value, x, y, n.height)
<1>1. [n EXCEPT !.key = x] = Node(x, n.value, n.left, n.right, n.height)
  BY DEF IsNode, Node
<1>2. [n EXCEPT !.left = x] = Node(n.key, n.value, x, n.right, n.height)
  BY DEF IsNode, Node
<1>3. [Node(x, n.value, n.left, n.right, n.height) EXCEPT !.value = y] = Node(x, y, n.left, n.right, n.height)
  BY DEF Node
<1>4. [Node(n.key, n.value, x, n.right, n.height) EXCEPT !.right = y] = Node(n.key, n.value, x, y, n.height)
  BY DEF Node
<1>5. QED
  BY <1>1, <1>2, <1>3, <1>4 DEF WithEntry, WithSubtrees

\* _vial_map_put.
PutFits(t, E, k, v) == Fits(TreePut(t, k, v), Updated(E, k, v))

LEMMA TreePutFitsNil ==
  ASSUME NEW k \in Key, NEW v \in Val
  PROVE  \A F : Search(Nil, F) => PutFits(Nil, F, k, v)
<1>1. Search(Nil, {}) /\ \A F : Search(Nil, F) => F = {}
  BY SearchNil
<1>2. TreePut(Nil, k, v) = Leaf(k, v)
  <2>1. \A l, r : TreePutStep(Nil, l, r, k, v) = Leaf(k, v)
    BY DEF TreePutStep
  <2>2. QED
    BY <1>1, <2>1, TreePutTurn
<1>3. Leaf(k, v) = Node(k, v, Nil, Nil, 1)
  BY DEF Leaf, Node
<1> DEFINE U == Updated({}, k, v)
<1>4. Entries(U)
  BY <1>1, SearchEntries, ChangedEntries
<1>5. U = {<<k, v>>} /\ k \in Int
  BY KeyAssumption DEF Updated, Dropped
<1>6. Below(U, k) = {} /\ Above(U, k) = {}
  BY <1>5 DEF Below, Above
<1>7. Over(k, v, Nil, Nil, U)
  BY <1>1, <1>5, <1>6 DEF Over
<1> HIDE DEF U
<1>8. Search(Leaf(k, v), U)
  BY <1>3, <1>4, <1>7, SearchNode
<1>9. QED
  BY <1>1, <1>2, <1>8 DEF PutFits, Fits, U

LEMMA TreePutFitsStep ==
  ASSUME NEW k \in Key, NEW v \in Val, NEW n, NEW F, n # Nil, Search(n, F), Entries(F), Split(n, F),
         PutFits(n.left, Below(F, n.key), k, v), PutFits(n.right, Above(F, n.key), k, v)
  PROVE  PutFits(n, F, k, v)
<1> DEFINE U == Updated(F, k, v)
<1>1. Entries(U) /\ Over(n.key, n.value, n.left, n.right, F) /\ IsNode(n) /\ n.height \in Nat
  BY ChangedEntries, SplitOver DEF Split, Tops
<1>2. /\ <<n.key, n.value>> \in F /\ \A e \in F : e[1] = n.key => e = <<n.key, n.value>>
      /\ Search(n.left, Below(F, n.key)) /\ Search(n.right, Above(F, n.key))
  BY <1>1 DEF Over
<1>3. n.key \in Int /\ k \in Int
  BY <1>2, EntriesKeys, KeyAssumption
<1>4. TreePut(n, k, v) = TreePutStep(n, TreePut(n.left, k, v), TreePut(n.right, k, v), k, v)
  BY TreePutTurn
<1>5. CASE k < n.key
  <2> DEFINE l == TreePut(n.left, k, v)
  <2>1. TreePut(n, k, v) = Rebuilt([n EXCEPT !.left = l])
    BY <1>4, <1>5 DEF TreePutStep
  <2>2. Below(U, n.key) = Updated(Below(F, n.key), k, v) /\ Above(U, n.key) = Above(F, n.key)
    BY <1>3, <1>5, ChangedCuts
  <2>3. Fits(l, Below(U, n.key))
    BY <2>2 DEF PutFits
  <2>4. <<n.key, n.value>> \in U /\ \A e \in U : e[1] = n.key => e = <<n.key, n.value>>
    <3>1. Sole(n.key, n.value, F)
      BY <1>2 DEF Sole
    <3>2. k # n.key
      BY <1>3, <1>5
    <3>3. Sole(n.key, n.value, U)
      BY <3>1, <3>2, OverUpdated
    <3>4. QED
      BY <3>3 DEF Sole
  <2> HIDE DEF l, U
  <2>5. \A x : Search(x, Below(U, n.key)) => Over(n.key, n.value, x, n.right, U)
    BY <1>2, <2>2, <2>4 DEF Over
  <2>6. Fits(Rebuilt([n EXCEPT !.left = l]), U)
    BY <1>1, <2>3, <2>5, RebuiltLeft
  <2>7. QED
    BY <2>1, <2>6 DEF PutFits, U
<1>6. CASE k > n.key
  <2> DEFINE r == TreePut(n.right, k, v)
  <2>1. TreePut(n, k, v) = Rebuilt([n EXCEPT !.right = r])
    BY <1>3, <1>4, <1>6 DEF TreePutStep
  <2>2. Above(U, n.key) = Updated(Above(F, n.key), k, v) /\ Below(U, n.key) = Below(F, n.key)
    BY <1>3, <1>6, ChangedCuts
  <2>3. Fits(r, Above(U, n.key))
    BY <2>2 DEF PutFits
  <2>4. <<n.key, n.value>> \in U /\ \A e \in U : e[1] = n.key => e = <<n.key, n.value>>
    <3>1. Sole(n.key, n.value, F)
      BY <1>2 DEF Sole
    <3>2. k # n.key
      BY <1>3, <1>6
    <3>3. Sole(n.key, n.value, U)
      BY <3>1, <3>2, OverUpdated
    <3>4. QED
      BY <3>3 DEF Sole
  <2> HIDE DEF r, U
  <2>5. \A x : Search(x, Above(U, n.key)) => Over(n.key, n.value, n.left, x, U)
    BY <1>2, <2>2, <2>4 DEF Over
  <2>6. Fits(Rebuilt([n EXCEPT !.right = r]), U)
    BY <1>1, <2>3, <2>5, RebuiltRight
  <2>7. QED
    BY <2>1, <2>6 DEF PutFits, U
<1>7. CASE k = n.key
  <2>1. TreePut(n, k, v) = [n EXCEPT !.key = k, !.value = v]
    BY <1>3, <1>4, <1>7 DEF TreePutStep
  <2>2. [n EXCEPT !.key = k, !.value = v] = Node(k, v, n.left, n.right, n.height)
    <3>1. WithEntry(n, k, v) = Node(k, v, n.left, n.right, n.height)
      BY <1>1, TwoFields
    <3>2. QED
      BY <3>1, Zenon DEF WithEntry
  <2>3. Below(U, k) = Below(F, k) /\ Above(U, k) = Above(F, k)
    BY <1>3, ChangedCuts
  <2>4. <<k, v>> \in U /\ \A e \in U : e[1] = k => e = <<k, v>>
    BY DEF Updated, Dropped
  <2>5. Over(k, v, n.left, n.right, U)
    BY <1>2, <1>7, <2>3, <2>4 DEF Over
  <2> HIDE DEF U
  <2>6. Search(Node(k, v, n.left, n.right, n.height), U)
    BY <1>1, <2>5, SearchNode
  <2>7. QED
    BY <2>1, <2>2, <2>6 DEF PutFits, Fits, U
<1>8. QED
  BY <1>3, <1>5, <1>6, <1>7

\* A put of an entry makes a search tree of the updated entries, or crashes.
LEMMA TreePutFits ==
  ASSUME NEW t, NEW E, Search(t, E), NEW k \in Key, NEW v \in Val
  PROVE  PutFits(t, E, k, v)
<1> DEFINE Q == {n \in Trees(t) \cup {Nil} : \A F : Search(n, F) => PutFits(n, F, k, v)}
<1>1. Nil \in Q
  BY TreePutFitsNil, SearchNil
<1>2. ASSUME NEW n \in Trees(t), n # Nil, n.left \in Q, n.right \in Q PROVE n \in Q
  <2>1. SUFFICES ASSUME NEW F, Search(n, F) PROVE PutFits(n, F, k, v)
    OBVIOUS
  <2>2. Split(n, F) /\ Entries(F)
    BY <1>2, <2>1, SearchSplit, SearchEntries
  <2>3. PutFits(n.left, Below(F, n.key), k, v) /\ PutFits(n.right, Above(F, n.key), k, v)
    BY <1>2, <2>2 DEF Split
  <2>4. QED
    BY <1>2, <2>1, <2>2, <2>3, TreePutFitsStep
<1> HIDE DEF Q
<1>3. Inherits(t, Q)
  BY <1>1, <1>2 DEF Inherits
<1>4. t \in Q
  BY <1>3, TreeInduction
<1>5. QED
  BY <1>4 DEF Q

\* The successor that node_remove unlinks has the lowest key, and the rest is a search tree.
First(t, E) ==
  t # Nil => LET s == Leftmost(t)
             IN  /\ IsNode(s) /\ s.height \in Nat
                 /\ Entry(s) \in E
                 /\ \A e \in E : e[1] # s.key => e[1] > s.key
                 /\ \A e \in E : e[1] = s.key => e = Entry(s)
                 /\ Search(WithoutLeftmost(t), Dropped(E, s.key))

LEMMA LeftmostFirstNil == \A F : Search(Nil, F) => First(Nil, F)
BY DEF First

LEMMA LeftmostFirstStep ==
  ASSUME NEW n, NEW F, n # Nil, Search(n, F), Entries(F), Split(n, F),
         First(n.left, Below(F, n.key)), First(n.right, Above(F, n.key))
  PROVE  First(n, F)
<1>1. Over(n.key, n.value, n.left, n.right, F) /\ IsNode(n) /\ n.height \in Nat
  BY SplitOver DEF Split, Tops
<1>2. /\ <<n.key, n.value>> \in F /\ \A e \in F : e[1] = n.key => e = <<n.key, n.value>>
      /\ Search(n.left, Below(F, n.key)) /\ Search(n.right, Above(F, n.key))
  BY <1>1 DEF Over
<1>3. n.key \in Int /\ \A e \in F : e[1] \in Int
  BY <1>2, EntriesKeys
<1>4. CASE n.left = Nil
  <2>1. Leftmost(n) = n /\ WithoutLeftmost(n) = n.right
    BY <1>4, LeftmostTurn, WithoutLeftmostTurn DEF LeftmostStep, WithoutLeftmostStep
  <2>2. Below(F, n.key) = {}
    BY <1>2, <1>4, SearchNil
  <2>3. \A e \in F : e[1] # n.key => e[1] > n.key
    BY <1>3, <2>2 DEF Below
  <2>4. Dropped(F, n.key) = Above(F, n.key)
    BY <1>3, <2>3 DEF Dropped, Above
  <2>5. Entry(n) = <<n.key, n.value>>
    BY DEF Entry
  <2>6. QED
    BY <1>1, <1>2, <2>1, <2>3, <2>4, <2>5 DEF First
<1>5. CASE n.left # Nil
  <2> DEFINE s == Leftmost(n.left)
             w == WithoutLeftmost(n.left)
             G == Dropped(F, s.key)
  <2>1. Leftmost(n) = s /\ WithoutLeftmost(n) = [n EXCEPT !.left = w]
    BY <1>5, LeftmostTurn, WithoutLeftmostTurn DEF LeftmostStep, WithoutLeftmostStep
  <2>2. /\ IsNode(s) /\ s.height \in Nat
        /\ Entry(s) \in Below(F, n.key)
        /\ \A e \in Below(F, n.key) : e[1] # s.key => e[1] > s.key
        /\ \A e \in Below(F, n.key) : e[1] = s.key => e = Entry(s)
        /\ Search(w, Dropped(Below(F, n.key), s.key))
    BY <1>5 DEF First
  <2> HIDE DEF s, w
  <2>3. Entry(s) \in F /\ s.key < n.key /\ s.key \in Int
    BY <1>3, <2>2 DEF Below, Entry
  <2>4. ASSUME NEW e \in F PROVE e \in Below(F, n.key) \/ e[1] > s.key
    BY <1>3, <2>3 DEF Below
  <2>5. /\ \A e \in F : e[1] # s.key => e[1] > s.key
        /\ \A e \in F : e[1] = s.key => e = Entry(s)
    BY <2>2, <2>3, <2>4
  <2>6. Below(G, n.key) = Dropped(Below(F, n.key), s.key) /\ Above(G, n.key) = Above(F, n.key)
    BY <1>3, <2>3, ChangedCuts
  <2>7. <<n.key, n.value>> \in G /\ \A e \in G : e[1] = n.key => e = <<n.key, n.value>>
    <3>1. Sole(n.key, n.value, F)
      BY <1>2 DEF Sole
    <3>2. s.key # n.key
      BY <1>3, <2>3
    <3>3. Sole(n.key, n.value, G)
      BY <3>1, <3>2, OverDropped
    <3>4. QED
      BY <3>3 DEF Sole
  <2>8. Over(n.key, n.value, w, n.right, G)
    BY <1>2, <2>2, <2>6, <2>7 DEF Over
  <2>9. Entries(G)
    BY ChangedEntries
  <2> HIDE DEF G
  <2>10. Search(Node(n.key, n.value, w, n.right, n.height), G)
    BY <1>1, <2>8, <2>9, SearchNode
  <2>11. [n EXCEPT !.left = w] = Node(n.key, n.value, w, n.right, n.height)
    BY <1>1 DEF IsNode, Node
  <2>12. Search(WithoutLeftmost(n), G)
    BY <2>1, <2>10, <2>11
  <2>13. QED
    BY <2>1, <2>2, <2>3, <2>5, <2>12 DEF First, G
<1>6. QED
  BY <1>4, <1>5

\* Every search tree comes apart into its first entry and the rest.
LEMMA LeftmostFirst ==
  ASSUME NEW t, NEW E, Search(t, E)
  PROVE  First(t, E)
<1> DEFINE Q == {n \in Trees(t) \cup {Nil} : \A F : Search(n, F) => First(n, F)}
<1>1. Nil \in Q
  BY LeftmostFirstNil, SearchNil
<1>2. ASSUME NEW n \in Trees(t), n # Nil, n.left \in Q, n.right \in Q PROVE n \in Q
  <2>1. SUFFICES ASSUME NEW F, Search(n, F) PROVE First(n, F)
    OBVIOUS
  <2>2. Split(n, F) /\ Entries(F)
    BY <1>2, <2>1, SearchSplit, SearchEntries
  <2>3. First(n.left, Below(F, n.key)) /\ First(n.right, Above(F, n.key))
    BY <1>2, <2>2 DEF Split
  <2>4. QED
    BY <1>2, <2>1, <2>2, <2>3, LeftmostFirstStep
<1> HIDE DEF Q
<1>3. Inherits(t, Q)
  BY <1>1, <1>2 DEF Inherits
<1>4. t \in Q
  BY <1>3, TreeInduction
<1>5. QED
  BY <1>4 DEF Q

LEMMA NodeRemoved ==
  ASSUME NEW n, NEW F, n # Nil, Search(n, F)
  PROVE  Search(node_remove(n), Dropped(F, n.key))
<1> DEFINE B == Below(F, n.key)
           A == Above(F, n.key)
           D == Dropped(F, n.key)
<1>1. Entries(F) /\ Split(n, F)
  BY SearchEntries, SearchSplit
<1>2. Over(n.key, n.value, n.left, n.right, F) /\ IsNode(n)
  BY <1>1, SplitOver
<1>3. /\ <<n.key, n.value>> \in F /\ \A e \in F : e[1] = n.key => e = <<n.key, n.value>>
      /\ Search(n.left, B) /\ Search(n.right, A)
  BY <1>2 DEF Over
<1>4. n.key \in Int /\ \A e \in F : e[1] \in Int
  BY <1>1, <1>3, EntriesKeys
<1>5. D = B \cup A /\ A \subseteq F /\ \A e \in A : e[1] > n.key
  BY <1>4 DEF Dropped, Below, Above
<1>6. Entries(D)
  BY <1>1, ChangedEntries
<1>7. CASE n.left = Nil
  <2>1. B = {}
    BY <1>3, <1>7, SearchNil
  <2>2. QED
    BY <1>3, <1>5, <1>7, <2>1 DEF node_remove
<1>8. CASE n.left # Nil /\ n.right = Nil
  <2>1. A = {}
    BY <1>3, <1>8, SearchNil
  <2>2. QED
    BY <1>3, <1>5, <1>8, <2>1 DEF node_remove
<1>9. CASE n.left # Nil /\ n.right # Nil
  <2> DEFINE s == Leftmost(n.right)
             w == WithoutLeftmost(n.right)
  <2>1. First(n.right, A)
    BY <1>3, LeftmostFirst
  <2>2. /\ IsNode(s) /\ s.height \in Nat /\ Entry(s) \in A
        /\ \A e \in A : e[1] # s.key => e[1] > s.key
        /\ \A e \in A : e[1] = s.key => e = Entry(s)
        /\ Search(w, Dropped(A, s.key))
    BY <1>9, <2>1 DEF First
  <2>3. node_remove(n) = [s EXCEPT !.left = n.left, !.right = w]
    BY <1>9 DEF node_remove
  <2> HIDE DEF s, w
  <2>4. [s EXCEPT !.left = n.left, !.right = w] = Node(s.key, s.value, n.left, w, s.height)
    <3>1. WithSubtrees(s, n.left, w) = Node(s.key, s.value, n.left, w, s.height)
      BY <2>2, TwoFields
    <3>2. QED
      BY <3>1, Zenon DEF WithSubtrees
  <2>5. s.key > n.key /\ s.key \in Int /\ Entry(s) = <<s.key, s.value>>
    BY <1>4, <1>5, <2>2 DEF Entry
  <2>6. \A e \in B : e[1] < n.key /\ e[1] \in Int
    BY <1>4 DEF Below
  <2>7. \A e \in A : e[1] \in Int
    BY <1>4, <1>5
  <2> HIDE DEF A, B, D
  <2>8. Below(D, s.key) = B /\ Above(D, s.key) = Dropped(A, s.key)
    <3>1. \A e \in B : e[1] < s.key
      BY <1>4, <2>5, <2>6
    <3>2. \A e \in A : ~(e[1] < s.key) /\ (e[1] > s.key <=> e[1] # s.key)
      BY <2>2, <2>5, <2>7
    <3>3. \A e \in B : ~(e[1] > s.key)
      BY <2>5, <2>6, <3>1
    <3>4. QED
      BY <1>5, <3>1, <3>2, <3>3 DEF Below, Above, Dropped
  <2>9. <<s.key, s.value>> \in D /\ \A e \in D : e[1] = s.key => e = <<s.key, s.value>>
    BY <1>4, <1>5, <2>2, <2>5, <2>6
  <2>10. Over(s.key, s.value, n.left, w, D)
    BY <1>3, <2>2, <2>8, <2>9 DEF Over
  <2>11. Search(Node(s.key, s.value, n.left, w, s.height), D)
    BY <1>6, <2>2, <2>10, SearchNode
  <2>12. QED
    BY <2>3, <2>4, <2>11 DEF D
<1>10. QED
  BY <1>7, <1>8, <1>9

LEMMA RebalanceSearch ==
  ASSUME NEW t, NEW E, Search(t, E)
  PROVE  Fits(node_rebalance(t), E)
<1>1. CASE t = Nil
  BY <1>1 DEF node_rebalance, Fits
<1>2. CASE t # Nil
  BY <1>2, SearchEntries, SearchSplit, SplitOver, RebalanceFits
<1>3. QED
  BY <1>1, <1>2

\* _vial_map_remove.
RemoveFits(t, E, k) == Fits(TreeRemove(t, k), Dropped(E, k))

LEMMA TreeRemoveFitsNil ==
  ASSUME NEW k \in Int
  PROVE  \A F : Search(Nil, F) => RemoveFits(Nil, F, k)
<1>1. Search(Nil, {}) /\ \A F : Search(Nil, F) => F = {}
  BY SearchNil
<1>2. TreeRemove(Nil, k) = Nil
  BY <1>1, TreeRemoveTurn DEF TreeRemoveStep
<1>3. Dropped({}, k) = {}
  BY DEF Dropped
<1>4. QED
  BY <1>1, <1>2, <1>3 DEF RemoveFits, Fits

LEMMA TreeRemoveFitsStep ==
  ASSUME NEW k \in Int, NEW n, NEW F, n # Nil, Search(n, F), Entries(F), Split(n, F),
         RemoveFits(n.left, Below(F, n.key), k), RemoveFits(n.right, Above(F, n.key), k)
  PROVE  RemoveFits(n, F, k)
<1> DEFINE U == Dropped(F, k)
<1>1. Entries(U) /\ Over(n.key, n.value, n.left, n.right, F) /\ IsNode(n)
  BY ChangedEntries, SplitOver
<1>2. /\ <<n.key, n.value>> \in F /\ \A e \in F : e[1] = n.key => e = <<n.key, n.value>>
      /\ Search(n.left, Below(F, n.key)) /\ Search(n.right, Above(F, n.key))
  BY <1>1 DEF Over
<1>3. n.key \in Int
  BY <1>2, EntriesKeys
<1>4. TreeRemove(n, k) = TreeRemoveStep(n, TreeRemove(n.left, k), TreeRemove(n.right, k), k)
  BY TreeRemoveTurn
<1>5. CASE k < n.key
  <2> DEFINE l == TreeRemove(n.left, k)
  <2>1. TreeRemove(n, k) = Rebuilt([n EXCEPT !.left = l])
    BY <1>4, <1>5 DEF TreeRemoveStep
  <2>2. Below(U, n.key) = Dropped(Below(F, n.key), k) /\ Above(U, n.key) = Above(F, n.key)
    BY <1>3, <1>5, ChangedCuts
  <2>3. Fits(l, Below(U, n.key))
    BY <2>2 DEF RemoveFits
  <2>4. <<n.key, n.value>> \in U /\ \A e \in U : e[1] = n.key => e = <<n.key, n.value>>
    <3>1. Sole(n.key, n.value, F)
      BY <1>2 DEF Sole
    <3>2. k # n.key
      BY <1>3, <1>5
    <3>3. Sole(n.key, n.value, U)
      BY <3>1, <3>2, OverDropped
    <3>4. QED
      BY <3>3 DEF Sole
  <2> HIDE DEF l, U
  <2>5. \A x : Search(x, Below(U, n.key)) => Over(n.key, n.value, x, n.right, U)
    BY <1>2, <2>2, <2>4 DEF Over
  <2>6. Fits(Rebuilt([n EXCEPT !.left = l]), U)
    BY <1>1, <2>3, <2>5, RebuiltLeft
  <2>7. QED
    BY <2>1, <2>6 DEF RemoveFits, U
<1>6. CASE k > n.key
  <2> DEFINE r == TreeRemove(n.right, k)
  <2>1. TreeRemove(n, k) = Rebuilt([n EXCEPT !.right = r])
    BY <1>3, <1>4, <1>6 DEF TreeRemoveStep
  <2>2. Above(U, n.key) = Dropped(Above(F, n.key), k) /\ Below(U, n.key) = Below(F, n.key)
    BY <1>3, <1>6, ChangedCuts
  <2>3. Fits(r, Above(U, n.key))
    BY <2>2 DEF RemoveFits
  <2>4. <<n.key, n.value>> \in U /\ \A e \in U : e[1] = n.key => e = <<n.key, n.value>>
    <3>1. Sole(n.key, n.value, F)
      BY <1>2 DEF Sole
    <3>2. k # n.key
      BY <1>3, <1>6
    <3>3. Sole(n.key, n.value, U)
      BY <3>1, <3>2, OverDropped
    <3>4. QED
      BY <3>3 DEF Sole
  <2> HIDE DEF r, U
  <2>5. \A x : Search(x, Above(U, n.key)) => Over(n.key, n.value, n.left, x, U)
    BY <1>2, <2>2, <2>4 DEF Over
  <2>6. Fits(Rebuilt([n EXCEPT !.right = r]), U)
    BY <1>1, <2>3, <2>5, RebuiltRight
  <2>7. QED
    BY <2>1, <2>6 DEF RemoveFits, U
<1>7. CASE k = n.key
  <2>1. TreeRemove(n, k) = node_rebalance(node_remove(n))
    BY <1>3, <1>4, <1>7 DEF TreeRemoveStep
  <2>2. QED
    BY <1>7, <2>1, NodeRemoved, RebalanceSearch DEF RemoveFits
<1>8. QED
  BY <1>3, <1>5, <1>6, <1>7

\* A removal makes a search tree of the entries without those of the key, or crashes.
LEMMA TreeRemoveFits ==
  ASSUME NEW t, NEW E, Search(t, E), NEW k \in Int
  PROVE  RemoveFits(t, E, k)
<1> DEFINE Q == {n \in Trees(t) \cup {Nil} : \A F : Search(n, F) => RemoveFits(n, F, k)}
<1>1. Nil \in Q
  BY TreeRemoveFitsNil, SearchNil
<1>2. ASSUME NEW n \in Trees(t), n # Nil, n.left \in Q, n.right \in Q PROVE n \in Q
  <2>1. SUFFICES ASSUME NEW F, Search(n, F) PROVE RemoveFits(n, F, k)
    OBVIOUS
  <2>2. Split(n, F) /\ Entries(F)
    BY <1>2, <2>1, SearchSplit, SearchEntries
  <2>3. RemoveFits(n.left, Below(F, n.key), k) /\ RemoveFits(n.right, Above(F, n.key), k)
    BY <1>2, <2>2 DEF Split
  <2>4. QED
    BY <1>2, <2>1, <2>2, <2>3, TreeRemoveFitsStep
<1> HIDE DEF Q
<1>3. Inherits(t, Q)
  BY <1>1, <1>2 DEF Inherits
<1>4. t \in Q
  BY <1>3, TreeInduction
<1>5. QED
  BY <1>4 DEF Q

-----------------------------------------------------------------------------
\* The map as a state machine.

\* Found, of any tree.
FoundIn(t, k) == IF Lookup(t, k) = Nil THEN <<>> ELSE <<Entry(Lookup(t, k))>>

EntriesOf(E, k) == {e \in E : e[1] = k}
ValuesOf(E, k) == {e[2] : e \in EntriesOf(E, k)}

LEMMA FoundIs == \A k : Found(k) = FoundIn(root, k)
BY DEF Found, FoundIn

\* What is found under a key, and how many entries there are without it.
Counts(E, k, s) ==
  /\ Cardinality(E) \in Nat
  /\ Len(s) \in {0, 1}
  /\ Cardinality(Dropped(E, k)) = Cardinality(E) - Len(s)
  /\ \A v : Cardinality(Updated(E, k, v)) = Cardinality(E) + 1 - Len(s)

Holds(E, k, s) ==
  /\ s \in Seq(E)
  /\ IsInjective(s)
  /\ Range(s) = EntriesOf(E, k)
  /\ EntriesOf(E, k) = {k} \X ValuesOf(E, k)

LEMMA FoundHolds ==
  ASSUME NEW t, NEW E, Search(t, E), NEW k \in Key
  PROVE  /\ Counts(E, k, FoundIn(t, k))
         /\ Holds(E, k, FoundIn(t, k))
         /\ {n.value : n \in {Lookup(t, k)} \ {Nil}} = ValuesOf(E, k)
<1> DEFINE n == Lookup(t, k)
           s == FoundIn(t, k)
           D == Dropped(E, k)
<1>1. Entries(E) /\ IsFiniteSet(E) /\ Cardinality(E) \in Nat /\ IsFiniteSet(D)
  BY SearchEntries, ChangedEntries, FS_CardinalityType DEF Entries
<1>2. k \in Int
  BY KeyAssumption
<1>3. Finds(t, E, k)
  BY <1>2, LookupFinds
<1>4. \A v : Cardinality(Updated(E, k, v)) = Cardinality(D) + 1
  <2> TAKE v
  <2>1. <<k, v>> \notin D
    BY DEF Dropped
  <2> HIDE DEF D
  <2>2. Cardinality(D \cup {<<k, v>>}) = Cardinality(D) + 1
    BY <1>1, <2>1, FS_AddElement
  <2>3. QED
    BY <2>2 DEF Updated, D
<1>5. EntriesOf(E, k) = {k} \X ValuesOf(E, k)
  <2>1. \A e \in EntriesOf(E, k) : e = <<k, e[2]>>
    BY <1>1, EntriesKeys DEF EntriesOf
  <2>2. \A x : x \in {k} \X ValuesOf(E, k) <=> x \in EntriesOf(E, k)
    <3>1. ASSUME NEW x \in EntriesOf(E, k) PROVE x \in {k} \X ValuesOf(E, k)
      BY <2>1 DEF ValuesOf
    <3>2. ASSUME NEW x \in {k} \X ValuesOf(E, k) PROVE x \in EntriesOf(E, k)
      <4>1. PICK v \in ValuesOf(E, k) : x = <<k, v>>
        OBVIOUS
      <4>2. PICK e \in EntriesOf(E, k) : v = e[2]
        BY DEF ValuesOf
      <4>3. QED
        BY <2>1, <4>1, <4>2
    <3>3. QED
      BY <3>1, <3>2
  <2>3. QED
    BY <2>2
<1>6. CASE n = Nil
  <2>1. s = <<>>
    BY <1>6 DEF FoundIn
  <2>2. \A e \in E : e[1] # k
    BY <1>3, <1>6 DEF Finds
  <2>3. D = E /\ EntriesOf(E, k) = {} /\ ValuesOf(E, k) = {}
    BY <2>2 DEF Dropped, EntriesOf, ValuesOf
  <2>4. Counts(E, k, s)
    BY <1>1, <1>4, <2>1, <2>3 DEF Counts
  <2>5. Holds(E, k, s)
    BY <1>5, <2>1, <2>3 DEF Holds, IsInjective, Range
  <2>6. QED
    BY <1>6, <2>3, <2>4, <2>5
<1>7. CASE n # Nil
  <2> DEFINE e == Entry(n)
  <2>1. s = <<e>>
    BY <1>7 DEF FoundIn
  <2>2. e \in E /\ n.key = k /\ \A f \in E : f[1] = k => f = e
    BY <1>3, <1>7 DEF Finds
  <2>3. e[1] = k /\ e[2] = n.value
    BY <2>2 DEF Entry
  <2>4. D = E \ {e} /\ EntriesOf(E, k) = {e}
    BY <2>2, <2>3 DEF Dropped, EntriesOf
  <2>5. ValuesOf(E, k) = {n.value}
    BY <2>3, <2>4 DEF ValuesOf
  <2> HIDE DEF e, n, D
  <2>6. Cardinality(D) = Cardinality(E) - 1
    BY <1>1, <2>2, <2>4, FS_RemoveElement
  <2>7. Counts(E, k, s)
    BY <1>1, <1>4, <2>1, <2>6 DEF Counts, D
  <2>8. Holds(E, k, s)
    <3>1. Range(<<e>>) = {e} /\ IsInjective(<<e>>)
      BY DEF Range, IsInjective
    <3>2. QED
      BY <1>5, <2>1, <2>2, <2>4, <3>1 DEF Holds
  <2>9. {m.value : m \in {n} \ {Nil}} = ValuesOf(E, k)
    BY <1>7, <2>5
  <2>10. QED
    BY <2>7, <2>8, <2>9 DEF n
<1>8. QED
  BY <1>6, <1>7

\* The root is a search tree, of as many entries as size says while the map has not crashed.
Rooted(t, c, n) == \E E \in SUBSET (Key \X Val) : Search(t, E) /\ (~c => n = Cardinality(E))
OnlyOnce(s) == s \in Seq(Key \X Val) /\ IsInjective(s)

MapInv ==
  /\ crashed \in BOOLEAN
  /\ crashed => live
  /\ Rooted(root, crashed, size)
  /\ OnlyOnce(released)

LEMMA OnceInside ==
  ASSUME NEW E, Entries(E), NEW s \in Seq(E), IsInjective(s)
  PROVE  OnlyOnce(s)
<1>1. E \subseteq Key \X Val
  BY DEF Entries
<1>2. s \in Seq(Key \X Val)
  BY <1>1
<1>3. QED
  BY <1>2 DEF OnlyOnce

LEMMA EmptyRooted == \A c : Rooted(Nil, c, 0) /\ OnlyOnce(<<>>)
<1>1. Search(Nil, {})
  BY SearchNil
<1>2. OnlyOnce(<<>>)
  BY DEF OnlyOnce, IsInjective
<1>3. QED
  BY <1>1, <1>2, FS_EmptySet DEF Rooted

\* A tree built of the root, or the crash, becomes the root.
LEMMA StoreRooted ==
  ASSUME NEW t, NEW E, Search(t, E), NEW u, NEW F, Fits(u, F), NEW n, n = Cardinality(F)
  PROVE  Rooted(IF u = Crash THEN t ELSE u, u = Crash, n)
<1>1. E \in SUBSET (Key \X Val)
  BY SearchEntries DEF Entries
<1>2. CASE u = Crash
  BY <1>1, <1>2 DEF Rooted
<1>3. CASE u # Crash
  <2>1. Search(u, F) /\ F \in SUBSET (Key \X Val)
    BY <1>3, SearchEntries DEF Fits, Entries
  <2>2. QED
    BY <1>3, <2>1 DEF Rooted
<1>4. QED
  BY <1>2, <1>3

\* What is true of the root and of the values the two macros store.
LEMMA PutRoot ==
  ASSUME NEW k \in Key, NEW v \in Val, Put(k, v), MapInv
  PROVE  \E E \in SUBSET (Key \X Val) :
           /\ Search(root, E) /\ Fits(TreePut(root, k, v), Updated(E, k, v))
           /\ size' = Cardinality(Updated(E, k, v))
           /\ Holds(E, k, released')
<1>1. ~crashed
  BY DEF Put, Usable
<1>2. PICK E \in SUBSET (Key \X Val) : Search(root, E) /\ size = Cardinality(E)
  BY <1>1 DEF MapInv, Rooted
<1>3. Fits(TreePut(root, k, v), Updated(E, k, v))
  BY <1>2, TreePutFits DEF PutFits
<1>4. Counts(E, k, FoundIn(root, k)) /\ Holds(E, k, FoundIn(root, k))
  BY <1>2, FoundHolds
<1>5. released' = FoundIn(root, k) /\ size' = size + 1 - Len(FoundIn(root, k))
  BY FoundIs DEF Put
<1>6. QED
  BY <1>2, <1>3, <1>4, <1>5 DEF Counts

LEMMA RemoveRoot ==
  ASSUME NEW k \in Key, Remove(k), MapInv
  PROVE  \E E \in SUBSET (Key \X Val) :
           /\ Search(root, E) /\ Fits(TreeRemove(root, k), Dropped(E, k))
           /\ size' = Cardinality(Dropped(E, k))
           /\ Holds(E, k, released')
<1>1. ~crashed
  BY DEF Remove, Usable
<1>2. PICK E \in SUBSET (Key \X Val) : Search(root, E) /\ size = Cardinality(E)
  BY <1>1 DEF MapInv, Rooted
<1>3. k \in Int
  BY KeyAssumption
<1>4. Fits(TreeRemove(root, k), Dropped(E, k))
  BY <1>2, <1>3, TreeRemoveFits DEF RemoveFits
<1>5. Counts(E, k, FoundIn(root, k)) /\ Holds(E, k, FoundIn(root, k))
  BY <1>2, FoundHolds
<1>6. released' = FoundIn(root, k) /\ size' = size - Len(FoundIn(root, k))
  BY FoundIs DEF Remove
<1>7. QED
  BY <1>2, <1>4, <1>5, <1>6 DEF Counts

LEMMA MapInvInit == Init => MapInv
<1>1. SUFFICES ASSUME Init PROVE MapInv
  OBVIOUS
<1>2. root = Nil /\ size = 0 /\ released = <<>> /\ crashed = FALSE
  BY <1>1 DEF Init
<1>3. Rooted(root, crashed, size) /\ OnlyOnce(released)
  BY <1>2, EmptyRooted
<1>4. QED
  BY <1>2, <1>3 DEF MapInv

\* What SetRoot stores.
LEMMA SetRootInv ==
  ASSUME NEW u, NEW E, Search(root, E), NEW F, Fits(u, F), SetRoot(u), Usable,
         size' = Cardinality(F), NEW k, Holds(E, k, released')
  PROVE  MapInv'
<1>1. crashed' = (u = Crash) /\ root' = (IF u = Crash THEN root ELSE u) /\ live' = live /\ live
  BY DEF SetRoot, Usable
<1>2. Rooted(root', crashed', size')
  BY <1>1, StoreRooted
<1>3. OnlyOnce(released')
  BY SearchEntries, OnceInside DEF Holds
<1>4. crashed' \in BOOLEAN /\ (crashed' => live')
  BY <1>1
<1>5. QED
  BY <1>2, <1>3, <1>4 DEF MapInv

LEMMA MapInvNext == MapInv /\ [Next]_vars => MapInv'
<1>1. SUFFICES ASSUME MapInv, [Next]_vars PROVE MapInv'
  OBVIOUS
<1>2. ASSUME NEW k \in Key, NEW v \in Val, Put(k, v) PROVE MapInv'
  <2>1. PICK E \in SUBSET (Key \X Val) :
           /\ Search(root, E) /\ Fits(TreePut(root, k, v), Updated(E, k, v))
           /\ size' = Cardinality(Updated(E, k, v))
           /\ Holds(E, k, released')
    BY <1>1, <1>2, PutRoot
  <2>2. SetRoot(TreePut(root, k, v)) /\ Usable
    BY <1>2 DEF Put
  <2>3. QED
    BY <2>1, <2>2, SetRootInv
<1>3. ASSUME NEW k \in Key, Remove(k) PROVE MapInv'
  <2>1. PICK E \in SUBSET (Key \X Val) :
           /\ Search(root, E) /\ Fits(TreeRemove(root, k), Dropped(E, k))
           /\ size' = Cardinality(Dropped(E, k))
           /\ Holds(E, k, released')
    BY <1>1, <1>3, RemoveRoot
  <2>2. SetRoot(TreeRemove(root, k)) /\ Usable
    BY <1>3 DEF Remove
  <2>3. QED
    BY <2>1, <2>2, SetRootInv
<1>4. ASSUME Dispose PROVE MapInv'
  <2>1. /\ released' = PostOrder(root) /\ root' = root /\ size' = size /\ crashed' = crashed
        /\ ~crashed
    BY <1>4 DEF Dispose, Usable
  <2>2. PICK E : Search(root, E)
    BY <1>1 DEF MapInv, Rooted
  <2>3. Drains(root, E) /\ Entries(E)
    BY <2>2, PostOrderDrains, SearchEntries
  <2>4. PostOrder(root) \in Seq(E) /\ IsInjective(PostOrder(root))
    BY <2>3, SMTT(60) DEF Drains, IsInjective
  <2>5. OnlyOnce(PostOrder(root))
    BY <2>3, <2>4, OnceInside
  <2>6. QED
    BY <1>1, <2>1, <2>5 DEF MapInv
<1>5. ASSUME Reinit PROVE MapInv'
  <2>1. /\ released' = <<>> /\ root' = Nil /\ size' = 0 /\ crashed' = crashed /\ live'
    BY <1>5 DEF Reinit
  <2>2. Rooted(root', crashed', size') /\ OnlyOnce(released')
    BY <2>1, EmptyRooted
  <2>3. QED
    BY <1>1, <2>1, <2>2 DEF MapInv
<1>6. CASE UNCHANGED vars
  BY <1>1, <1>6 DEF MapInv, vars
<1>7. QED
  BY <1>1, <1>2, <1>3, <1>4, <1>5, <1>6 DEF Next

\* The tree is a search tree whatever is put and removed: size counts its entries, and nothing is
\* disposed of twice.
THEOREM MapInvHolds == Spec => []MapInv
BY MapInvInit, MapInvNext, PTL DEF Spec

LEMMA MapInvVisits == MapInv => VisitsInOrder
<1>1. SUFFICES ASSUME MapInv PROVE VisitsInOrder
  OBVIOUS
<1>2. IsInjective(released)
  BY <1>1 DEF MapInv, OnlyOnce
<1>3. ASSUME Usable PROVE /\ Len(InOrder(root)) = size
                          /\ \A i \in 2..size : InOrder(root)[i - 1][1] < InOrder(root)[i][1]
  <2>1. PICK E : Search(root, E) /\ size = Cardinality(E)
    BY <1>1, <1>3 DEF MapInv, Rooted, Usable
  <2>2. Lists(root, E)
    BY <2>1, InOrderLists
  <2>3. Len(InOrder(root)) = size /\ size \in Nat /\ Sorted(InOrder(root))
    BY <2>1, <2>2 DEF Lists
  <2>4. QED
    BY <2>3 DEF Sorted
<1>4. QED
  BY <1>2, <1>3, Zenon DEF VisitsInOrder

\* vial_map_foreach visits the entries in the order of the keys, each once and as many as size
\* says; no operation disposes of an entry twice.
THEOREM VisitsInOrderHolds == Spec => []VisitsInOrder
BY MapInvHolds, MapInvVisits, PTL

-----------------------------------------------------------------------------
\* The refinement: the dictionary a tree stands for.

DictOf(l, t) == [k \in Key |-> {n.value : n \in IF l THEN {Lookup(t, k)} \ {Nil} ELSE {}}]

LEMMA DictHolds ==
  ASSUME NEW t, NEW E, Search(t, E), NEW l, l
  PROVE  DictOf(l, t) = [k \in Key |-> ValuesOf(E, k)]
<1>1. \A k \in Key : {n.value : n \in {Lookup(t, k)} \ {Nil}} = ValuesOf(E, k)
  BY FoundHolds
<1>2. QED
  BY <1>1 DEF DictOf

LEMMA DictNone ==
  ASSUME NEW t, NEW l, ~l
  PROVE  DictOf(l, t) = [k \in Key |-> {}]
BY DEF DictOf

\* A put and a removal change the values under one key.
LEMMA ValuesDropped ==
  ASSUME NEW E, NEW k, NEW j
  PROVE  ValuesOf(Dropped(E, k), j) = IF j = k THEN {} ELSE ValuesOf(E, j)
<1>1. EntriesOf(Dropped(E, k), j) = IF j = k THEN {} ELSE EntriesOf(E, j)
  BY DEF EntriesOf, Dropped
<1>2. QED
  BY <1>1 DEF ValuesOf

LEMMA ValuesUpdated ==
  ASSUME NEW E, NEW k, NEW v, NEW j
  PROVE  ValuesOf(Updated(E, k, v), j) = IF j = k THEN {v} ELSE ValuesOf(E, j)
<1>1. EntriesOf(Updated(E, k, v), j) = IF j = k THEN {<<k, v>>} ELSE EntriesOf(E, j)
  BY DEF EntriesOf, Dropped, Updated
<1>2. {e[2] : e \in {<<k, v>>}} = {v}
  OBVIOUS
<1>3. QED
  BY <1>1, <1>2 DEF ValuesOf

\* The steps of the abstract specification, on the dictionaries before and after.
Puts(d, r, e, k, v) == r = {k} \X d[k] /\ e = [d EXCEPT ![k] = {v}]
Removes(d, r, e, k) == r = {k} \X d[k] /\ e = [d EXCEPT ![k] = {}]
Clears(d, r, e) == r = UNION {{k} \X d[k] : k \in Key} /\ e = [k \in Key |-> {}]

Steps(d, r, e) ==
  \/ \E k \in Key, v \in Val : Puts(d, r, e, k, v)
  \/ \E k \in Key : Removes(d, r, e, k)
  \/ Clears(d, r, e)

LEMMA StepsNext ==
  ASSUME Steps(DictOf(live, root), Range(released'), DictOf(live', root'))
  PROVE  Dict!Next
BY Zenon DEF Steps, Puts, Removes, Clears, DictOf, Dict!Next, Dict!Put, Dict!Remove, Dict!Clear

\* A call that crashes has disposed of what it found, and the map has it still.
LEMMA CrashSteps ==
  ASSUME NEW E, Entries(E), NEW k \in Key, NEW d, d = [j \in Key |-> ValuesOf(E, j)],
         NEW s, Holds(E, k, s), \A e \in EntriesOf(E, k) : EntriesOf(E, k) = {e}
  PROVE  Steps(d, Range(s), d)
<1>1. Range(s) = {k} \X d[k] /\ d[k] = ValuesOf(E, k)
  BY DEF Holds
<1>2. \A x : x = d[k] => d = [d EXCEPT ![k] = x]
  OBVIOUS
<1>3. CASE EntriesOf(E, k) = {}
  <2>1. d[k] = {}
    BY <1>1, <1>3 DEF ValuesOf
  <2>2. Removes(d, Range(s), d, k)
    BY <1>1, <1>2, <2>1 DEF Removes
  <2>3. QED
    BY <2>2 DEF Steps
<1>4. CASE EntriesOf(E, k) # {}
  <2>1. PICK e \in EntriesOf(E, k) : EntriesOf(E, k) = {e}
    BY <1>4
  <2>2. d[k] = {e[2]}
    BY <1>1, <2>1 DEF ValuesOf
  <2>3. e[2] \in Val
    BY EntriesKeys DEF EntriesOf
  <2>4. Puts(d, Range(s), d, k, e[2])
    BY <1>1, <1>2, <2>2 DEF Puts
  <2>5. QED
    BY <2>3, <2>4 DEF Steps
<1>5. QED
  BY <1>3, <1>4

\* Storing what was built of the root is a step of the dictionary.
LEMMA StoreSteps ==
  ASSUME NEW E, Search(root, E), NEW u, NEW F, Fits(u, F), SetRoot(u), Usable, NEW k \in Key,
         Holds(E, k, released'),
         Steps([j \in Key |-> ValuesOf(E, j)], Range(released'), [j \in Key |-> ValuesOf(F, j)])
  PROVE  Dict!Next
<1> DEFINE d == [j \in Key |-> ValuesOf(E, j)]
<1>1. crashed' = (u = Crash) /\ root' = (IF u = Crash THEN root ELSE u) /\ live' = live /\ live
  BY DEF SetRoot, Usable
<1>2. DictOf(live, root) = d
  BY <1>1, DictHolds
<1>3. CASE u = Crash
  <2>1. DictOf(live', root') = d
    BY <1>1, <1>2, <1>3
  <2>2. Finds(root, E, k) /\ Entries(E)
    BY KeyAssumption, LookupFinds, SearchEntries
  <2>3. \A e \in EntriesOf(E, k) : EntriesOf(E, k) = {e}
    BY <2>2 DEF EntriesOf, Finds
  <2> HIDE DEF d
  <2>4. Steps(d, Range(released'), d)
    BY <2>2, <2>3, CrashSteps DEF d
  <2>5. QED
    BY <1>2, <2>1, <2>4, StepsNext
<1>4. CASE u # Crash
  <2>1. Search(u, F) /\ root' = u
    BY <1>1, <1>4 DEF Fits
  <2>2. DictOf(live', root') = [j \in Key |-> ValuesOf(F, j)]
    BY <1>1, <2>1, DictHolds, ZenonT(60)
  <2>3. QED
    BY <1>2, <2>2, StepsNext
<1>5. QED
  BY <1>3, <1>4

LEMMA PutImplements ==
  ASSUME NEW k \in Key, NEW v \in Val, Put(k, v), MapInv
  PROVE  Dict!Next
<1>1. PICK E \in SUBSET (Key \X Val) :
         /\ Search(root, E) /\ Fits(TreePut(root, k, v), Updated(E, k, v))
         /\ size' = Cardinality(Updated(E, k, v))
         /\ Holds(E, k, released')
  BY PutRoot
<1> DEFINE d == [j \in Key |-> ValuesOf(E, j)]
           e == [j \in Key |-> ValuesOf(Updated(E, k, v), j)]
<1>2. Range(released') = {k} \X d[k]
  BY <1>1 DEF Holds
<1>3. e = [d EXCEPT ![k] = {v}]
  <2>1. \A j \in Key : ValuesOf(Updated(E, k, v), j) = IF j = k THEN {v} ELSE ValuesOf(E, j)
    BY ValuesUpdated
  <2>2. QED
    BY <2>1
<1> HIDE DEF d, e
<1>4. Steps(d, Range(released'), e)
  BY <1>2, <1>3 DEF Steps, Puts
<1>5. SetRoot(TreePut(root, k, v)) /\ Usable
  BY DEF Put
<1>6. QED
  BY <1>1, <1>4, <1>5, StoreSteps DEF d, e

LEMMA RemoveImplements ==
  ASSUME NEW k \in Key, Remove(k), MapInv
  PROVE  Dict!Next
<1>1. PICK E \in SUBSET (Key \X Val) :
         /\ Search(root, E) /\ Fits(TreeRemove(root, k), Dropped(E, k))
         /\ size' = Cardinality(Dropped(E, k))
         /\ Holds(E, k, released')
  BY RemoveRoot
<1> DEFINE d == [j \in Key |-> ValuesOf(E, j)]
           e == [j \in Key |-> ValuesOf(Dropped(E, k), j)]
<1>2. Range(released') = {k} \X d[k]
  BY <1>1 DEF Holds
<1>3. e = [d EXCEPT ![k] = {}]
  <2>1. \A j \in Key : ValuesOf(Dropped(E, k), j) = IF j = k THEN {} ELSE ValuesOf(E, j)
    BY ValuesDropped
  <2>2. QED
    BY <2>1
<1> HIDE DEF d, e
<1>4. Steps(d, Range(released'), e)
  BY <1>2, <1>3 DEF Steps, Removes
<1>5. SetRoot(TreeRemove(root, k)) /\ Usable
  BY DEF Remove
<1>6. QED
  BY <1>1, <1>4, <1>5, StoreSteps DEF d, e

\* All entries, as those of every key.
LEMMA AllEntries ==
  ASSUME NEW E, Entries(E)
  PROVE  E = UNION {{k} \X ValuesOf(E, k) : k \in Key}
<1>1. ASSUME NEW e \in E PROVE e \in UNION {{k} \X ValuesOf(E, k) : k \in Key}
  <2>1. e[1] \in Key /\ e = <<e[1], e[2]>>
    BY EntriesKeys
  <2>2. e[2] \in ValuesOf(E, e[1])
    BY DEF ValuesOf, EntriesOf
  <2>3. <<e[1], e[2]>> \in {e[1]} \X ValuesOf(E, e[1])
    BY <2>2
  <2>4. QED
    BY <2>1, <2>3
<1>2. ASSUME NEW k \in Key, NEW x \in {k} \X ValuesOf(E, k) PROVE x \in E
  <2>1. PICK v \in ValuesOf(E, k) : x = <<k, v>>
    OBVIOUS
  <2>2. PICK e \in E : e[1] = k /\ v = e[2]
    BY DEF ValuesOf, EntriesOf
  <2>3. e = <<e[1], e[2]>>
    BY EntriesKeys
  <2>4. QED
    BY <2>1, <2>2, <2>3
<1>3. QED
  BY <1>1, <1>2

LEMMA DisposeImplements ==
  ASSUME Dispose, MapInv
  PROVE  Dict!Next
<1>1. released' = PostOrder(root) /\ root' = root /\ live /\ ~live'
  BY DEF Dispose, Usable
<1>2. PICK E : Search(root, E)
  BY DEF MapInv, Rooted
<1> DEFINE d == [j \in Key |-> ValuesOf(E, j)]
<1>3. DictOf(live, root) = d
  BY <1>1, <1>2, DictHolds
<1>4. DictOf(live', root') = [j \in Key |-> {}]
  BY <1>1, DictNone
<1>5. Range(released') = E
  <2>1. Drains(root, E)
    BY <1>2, PostOrderDrains
  <2>2. Range(PostOrder(root)) = E
    BY <2>1 DEF Drains, Range
  <2>3. QED
    BY <1>1, <2>2
<1>6. UNION {{k} \X d[k] : k \in Key} = UNION {{k} \X ValuesOf(E, k) : k \in Key}
  OBVIOUS
<1>7. Range(released') = UNION {{k} \X d[k] : k \in Key}
  BY <1>2, <1>5, <1>6, SearchEntries, AllEntries
<1> HIDE DEF d
<1>8. Steps(d, Range(released'), [j \in Key |-> {}])
  BY <1>7 DEF Steps, Clears
<1>9. QED
  BY <1>3, <1>4, <1>8, StepsNext

\* An empty dictionary cleared.
LEMMA EmptyDict ==
  ASSUME NEW l
  PROVE  DictOf(l, Nil) = [j \in Key |-> {}]
<1>1. Search(Nil, {})
  BY SearchNil
<1>2. \A j : Lookup(Nil, j) = Nil
  BY <1>1, LookupTurn DEF LookupStep
<1>3. QED
  BY <1>2 DEF DictOf

LEMMA ReinitImplements ==
  ASSUME Reinit, MapInv
  PROVE  Dict!Next
<1> DEFINE d == [j \in Key |-> {}]
<1>1. released' = <<>> /\ root' = Nil /\ ~live
  BY DEF Reinit
<1>2. DictOf(live, root) = d
  BY <1>1, DictNone
<1>3. DictOf(live', root') = d
  BY <1>1, EmptyDict
<1>4. Range(released') = {}
  BY <1>1 DEF Range
<1>5. UNION {{k} \X d[k] : k \in Key} = {}
  OBVIOUS
<1>6. Steps(d, Range(released'), d)
  BY <1>4, <1>5, Zenon DEF Steps, Clears
<1> HIDE DEF d
<1>7. QED
  BY <1>2, <1>3, <1>6, StepsNext

LEMMA MapImplementsInit == Init => Dict!Init
<1>1. SUFFICES ASSUME Init PROVE Dict!Init
  OBVIOUS
<1>2. root = Nil /\ released = <<>>
  BY <1>1 DEF Init
<1>3. DictOf(live, root) = [j \in Key |-> {}] /\ Range(released) = {}
  BY <1>2, EmptyDict DEF Range
<1>4. QED
  BY <1>3, Zenon DEF Dict!Init, DictOf

LEMMA MapImplementsNext == MapInv /\ [Next]_vars => [Dict!Next]_Dict!dictVars
<1>1. SUFFICES ASSUME MapInv, [Next]_vars PROVE [Dict!Next]_Dict!dictVars
  OBVIOUS
<1>2. CASE Next
  <2>1. Dict!Next
    BY <1>1, <1>2, PutImplements, RemoveImplements, DisposeImplements, ReinitImplements DEF Next
  <2>2. QED
    BY <2>1
<1>3. CASE UNCHANGED vars
  <2>1. live' = live /\ root' = root /\ released' = released
    BY <1>3 DEF vars
  <2>2. UNCHANGED Dict!dictVars
    BY <2>1 DEF Dict!dictVars
  <2>3. QED
    BY <2>2
<1>4. QED
  BY <1>1, <1>2, <1>3

\* vial_map is a dictionary: looking a key up finds what was put last under it, and an entry is
\* disposed of exactly when it leaves the map - even by a call that crashes.
THEOREM ImplementsDictionaryHolds == Spec => ImplementsDictionary
BY MapInvHolds, MapImplementsInit, MapImplementsNext, PTL DEF Spec, ImplementsDictionary, Dict!Spec

-----------------------------------------------------------------------------
\* node_rebalance and the heights.  The node it makes of x and y has a height field that is right.
Joins(m, x, y) == \E k, v : m = Node(k, v, x, y, NewHeight(x, y))

\* The trees x and y differ by one at most.
Level2(x, y) == Height(x) - Height(y) \in -1..1

LEMMA JoinsFields ==
  ASSUME NEW m, NEW x, NEW y, Joins(m, x, y)
  PROVE  /\ m \notin {Nil, Crash} /\ IsNode(m)
         /\ m.left = x /\ m.right = y
         /\ Height(m) = 1 + Larger(Height(x), Height(y))
<1>1. PICK k, v : m = Node(k, v, x, y, NewHeight(x, y))
  BY DEF Joins
<1>2. QED
  BY <1>1, NodeNotNil, NodeFields, HeightOfNode DEF NewHeight

LEMMA JoinsGood ==
  ASSUME NEW m, NEW x, NEW y, Joins(m, x, y), Height(x) \in Nat, Height(y) \in Nat, Level2(x, y)
  PROVE  Good(m)
BY GoodNode DEF Joins, NewHeight, Level2

\* A tree c is inside n, below the root: it is in any closed set that has the two subtrees.
Inside(c, n) == \A T : Closed(T) /\ n.left \in T /\ n.right \in T => c \in T

LEMMA InsideParts ==
  ASSUME NEW c, NEW n, Inside(c, n), c # Nil
  PROVE  Inside(c.left, n) /\ Inside(c.right, n)
BY DEF Inside, Closed

LEMMA InsideSides ==
  ASSUME NEW n
  PROVE  Inside(n.left, n) /\ Inside(n.right, n)
BY DEF Inside

\* A tree inside n, or a good node on two trees inside n.
Sound(c, n) ==
  \/ Inside(c, n) /\ Good(c)
  \/ c # Nil /\ Good(c) /\ Inside(c.left, n) /\ Inside(c.right, n)

\* The node m that takes n's place and the two below it are good, and what is below them was
\* inside n.
Restored(m, n) == Good(m) /\ Sound(m.left, n) /\ Sound(m.right, n)

\* The subtree is as high as the higher side of n was, or one higher.  It is no higher when a side
\* was too heavy and leaned one way.
Settled(m, n) ==
  /\ m \notin {Nil, Crash}
  /\ Height(m) \in Nat
  /\ Height(m) - Larger(Height(n.left), Height(n.right)) \in {0, 1}
  /\ Level2(n.left, n.right) => Height(m) = 1 + Larger(Height(n.left), Height(n.right))
  /\ Height(n.left) > Height(n.right) + 1 /\ Height(n.left.left) # Height(n.left.right)
       => Height(m) = Height(n.left)
  /\ Height(n.right) > Height(n.left) + 1 /\ Height(n.right.left) # Height(n.right.right)
       => Height(m) = Height(n.right)

\* The subtree c and the two below it are good.
GoodTwo(c) == Good(c) /\ (c # Nil => Good(c.left) /\ Good(c.right))

LEMMA GoodTwoHeights ==
  ASSUME NEW c, GoodTwo(c), Height(c) > 0
  PROVE  /\ c # Nil /\ IsNode(c)
         /\ Height(c.left) \in Nat /\ Height(c.right) \in Nat
         /\ Height(c) = 1 + Larger(Height(c.left), Height(c.right))
         /\ Height(c.left) - Height(c.right) \in -1..1
  BY GoodHeight DEF GoodTwo, Good, Even, Height

\* A node whose sides differ by one at most needs no rotation.
LEMMA NoRotation ==
  ASSUME NEW n, IsNode(n), Height(n.left) \in Nat, Height(n.right) \in Nat, Level2(n.left, n.right)
  PROVE  /\ Joins(node_rebalance(n), n.left, n.right)
         /\ Settled(node_rebalance(n), n)
         /\ Good(n.left) /\ Good(n.right) => Restored(node_rebalance(n), n)
<1> DEFINE m == node_rebalance(n)
<1>1. ~(Height(n.left) > Height(n.right) + 1) /\ ~(Height(n.right) > Height(n.left) + 1)
  BY DEF Level2
<1>2. m = Node(n.key, n.value, n.left, n.right, NewHeight(n.left, n.right))
  BY <1>1, RebalanceCases
<1>3. Joins(m, n.left, n.right)
  BY <1>2, Zenon DEF Joins
<1> HIDE DEF m
<1>4. /\ m \notin {Nil, Crash} /\ m.left = n.left /\ m.right = n.right
      /\ Height(m) = 1 + Larger(Height(n.left), Height(n.right))
  BY <1>3, JoinsFields
<1>5. Good(m)
  BY <1>3, JoinsGood
<1>6. Settled(m, n)
  BY <1>1, <1>4 DEF Settled, Larger
<1>7. Good(n.left) /\ Good(n.right) => Restored(m, n)
  BY <1>4, <1>5, InsideSides DEF Restored, Sound
<1>8. QED
  BY <1>3, <1>6, <1>7 DEF m

\* Left-heavy, the outer side of the child being the higher: one rotation.
LEMMA SingleRight ==
  ASSUME NEW n, IsNode(n), GoodTwo(n.left), Height(n.right) \in Nat,
         Height(n.left) = Height(n.right) + 2,
         Height(n.left.left) > Height(n.left.right)
  PROVE  /\ Settled(node_rebalance(n), n)
         /\ Good(n.right) => Restored(node_rebalance(n), n)
<1> DEFINE c == n.left
           m == node_rebalance(n)
           top == Node(n.key, n.value, c, n.right, NewHeight(c, n.right))
           old == Node(n.key, n.value, c.right, n.right, NewHeight(c.right, n.right))
<1>1. /\ c # Nil /\ IsNode(c) /\ Good(c.left) /\ Good(c.right)
      /\ Height(c.left) = Height(n.right) + 1
      /\ Height(c.right) = Height(n.right)
  BY GoodTwoHeights DEF Larger, GoodTwo
<1>2. m = RotateRight(top)
  BY RebalanceCases DEF StraightenLeft
<1>3. IsNode(top) /\ top.key = n.key /\ top.value = n.value /\ top.left = c /\ top.right = n.right
  BY NodeFields
<1> HIDE DEF top
<1>4. m = Node(c.key, c.value, c.left, old, NewHeight(c.left, old))
  BY <1>1, <1>2, <1>3, RotateRightNode DEF NewHeight
<1>5. Joins(m, c.left, old) /\ Joins(old, c.right, n.right)
  BY <1>4, Zenon DEF Joins
<1> HIDE DEF old, m
<1>6. Height(old) = Height(n.right) + 1 /\ old # Nil /\ old.left = c.right /\ old.right = n.right
  BY <1>1, <1>5, JoinsFields DEF Larger
<1>7. m \notin {Nil, Crash} /\ m.left = c.left /\ m.right = old /\ Height(m) = Height(n.right) + 2
  BY <1>1, <1>5, <1>6, JoinsFields DEF Larger
<1>8. Settled(m, n)
  BY <1>7 DEF Settled, Larger, Level2
<1>9. ASSUME Good(n.right) PROVE Restored(m, n)
  <2>1. Good(old)
    BY <1>1, <1>5, JoinsGood DEF Level2
  <2>2. Good(m)
    BY <1>1, <1>5, <1>6, JoinsGood DEF Level2
  <2>3. Inside(c.left, n) /\ Inside(c.right, n) /\ Inside(n.right, n)
    BY <1>1, InsideSides, InsideParts
  <2>4. QED
    BY <1>1, <1>6, <1>7, <2>1, <2>2, <2>3 DEF Restored, Sound
<1>10. QED
  BY <1>8, <1>9 DEF m

\* Left-heavy, the inner side of the child being as high or higher: the child is rotated
\* first.  This is where the tie matters: with Leaning(n) the child comes out uneven.
LEMMA DoubleRight ==
  ASSUME NEW n, IsNode(n), GoodTwo(n.left), Height(n.right) \in Nat,
         Height(n.left) = Height(n.right) + 2,
         ~(Height(n.left.left) > Height(n.left.right))
  PROVE  /\ Settled(node_rebalance(n), n)
         /\ Good(n.right) /\ ~Leaning(n) => Restored(node_rebalance(n), n)
<1> DEFINE c == n.left
           g == c.right
           m == node_rebalance(n)
           lower == Node(c.key, c.value, c.left, g.left, NewHeight(c.left, g.left))
           c2 == Node(g.key, g.value, lower, g.right, NewHeight(lower, g.right))
           top == Node(n.key, n.value, c2, n.right, NewHeight(c, n.right))
           old == Node(n.key, n.value, g.right, n.right, NewHeight(g.right, n.right))
<1>1. /\ c # Nil /\ IsNode(c)
      /\ Height(c.left) \in {Height(n.right), Height(n.right) + 1}
      /\ Height(g) = Height(n.right) + 1
      /\ Good(g) /\ Good(c.left)
  BY GoodTwoHeights DEF Larger, GoodTwo
<1>2. g # Nil /\ IsNode(g)
  BY <1>1 DEF Good, Height
<1>3. /\ Height(g.left) \in Nat /\ Height(g.right) \in Nat
      /\ Height(g.left) - Height(g.right) \in -1..1
      /\ 1 + Larger(Height(g.left), Height(g.right)) = Height(n.right) + 1
  BY <1>1, <1>2, GoodHeight DEF Good, Even
<1>4. StraightenLeft(c) = c2
  BY <1>1, <1>2, RotateLeftNode DEF StraightenLeft, NewHeight
<1>5. m = RotateRight(top)
  <2>1. Height(c) > Height(n.right) + 1 /\ Height(c) \in Nat
    OBVIOUS
  <2> HIDE DEF c2
  <2>2. QED
    BY <1>4, <2>1, RebalanceCases
<1>6. /\ IsNode(top) /\ top.key = n.key /\ top.value = n.value /\ top.left = c2 /\ top.right = n.right
      /\ IsNode(c2) /\ c2.key = g.key /\ c2.value = g.value /\ c2.left = lower /\ c2.right = g.right
  <2>1. IsNode(top) /\ top.key = n.key /\ top.value = n.value /\ top.left = c2 /\ top.right = n.right
    BY NodeFields
  <2>2. IsNode(c2) /\ c2.key = g.key /\ c2.value = g.value /\ c2.left = lower /\ c2.right = g.right
    BY NodeFields
  <2> HIDE DEF top, c2
  <2>3. QED
    BY <2>1, <2>2
<1> HIDE DEF top, c2
<1>7. m = Node(g.key, g.value, lower, old, NewHeight(lower, old))
  BY <1>5, <1>6, RotateRightNode DEF NewHeight
<1>8. Joins(m, lower, old) /\ Joins(lower, c.left, g.left) /\ Joins(old, g.right, n.right)
  BY <1>7, Zenon DEF Joins
<1> HIDE DEF old, lower, m
<1>9. Height(g.left) \in {Height(n.right), Height(n.right) - 1}
      /\ Height(g.right) \in {Height(n.right), Height(n.right) - 1}
  BY <1>3 DEF Larger
<1>10. /\ Height(lower) = Height(c.left) + 1
       /\ lower # Nil /\ lower.left = c.left /\ lower.right = g.left
  BY <1>1, <1>8, <1>9, JoinsFields DEF Larger
<1>11. /\ Height(old) = Height(n.right) + 1
       /\ old # Nil /\ old.left = g.right /\ old.right = n.right
  BY <1>8, <1>9, JoinsFields DEF Larger
<1>12. m \notin {Nil, Crash} /\ m.left = lower /\ m.right = old /\ Height(m) = Height(c.left) + 2
  BY <1>1, <1>8, <1>10, <1>11, JoinsFields DEF Larger
<1>13. Settled(m, n)
  BY <1>1, <1>12 DEF Settled, Larger, Level2
<1>14. ASSUME Good(n.right), ~Leaning(n) PROVE Restored(m, n)
  <2>1. Height(c.left) = Height(n.right) + 1 => Height(g.left) = Height(n.right)
    <3>1. n # Nil
      BY NodeNotNil DEF IsNode
    <3>2. Height(c.left) = Height(g) => ~(Height(g.left) < Height(g.right))
      BY <1>1, <1>2, <1>14, <3>1 DEF Leaning
    <3>3. QED
      BY <1>1, <1>3, <3>2 DEF Larger
  <2>2. Good(lower)
    <3>1. Height(c.left) \in Nat /\ Level2(c.left, g.left)
      BY <1>1, <1>9, <2>1 DEF Level2
    <3>2. QED
      BY <1>3, <1>8, <3>1, JoinsGood
  <2>3. Good(old)
    <3>1. Level2(g.right, n.right)
      BY <1>9 DEF Level2
    <3>2. QED
      BY <1>3, <1>8, <3>1, JoinsGood
  <2>4. Good(m)
    <3>1. Height(lower) \in Nat /\ Height(old) \in Nat /\ Level2(lower, old)
      BY <1>1, <1>10, <1>11 DEF Level2
    <3>2. QED
      BY <1>8, <3>1, JoinsGood
  <2>5. Inside(c.left, n) /\ Inside(g.left, n) /\ Inside(g.right, n) /\ Inside(n.right, n)
    BY <1>1, <1>2, InsideSides, InsideParts
  <2>6. QED
    BY <1>10, <1>11, <1>12, <2>2, <2>3, <2>4, <2>5 DEF Restored, Sound
<1>15. QED
  BY <1>13, <1>14 DEF m

\* Right-heavy, the outer side of the child being as high or higher: one rotation.
LEMMA SingleLeft ==
  ASSUME NEW n, IsNode(n), GoodTwo(n.right), Height(n.left) \in Nat,
         Height(n.right) = Height(n.left) + 2,
         ~(Height(n.right.left) > Height(n.right.right))
  PROVE  /\ Settled(node_rebalance(n), n)
         /\ Good(n.left) => Restored(node_rebalance(n), n)
<1> DEFINE c == n.right
           m == node_rebalance(n)
           top == Node(n.key, n.value, n.left, c, NewHeight(n.left, c))
           old == Node(n.key, n.value, n.left, c.left, NewHeight(n.left, c.left))
<1>1. /\ c # Nil /\ IsNode(c) /\ Good(c.left) /\ Good(c.right)
      /\ Height(c.right) = Height(n.left) + 1
      /\ Height(c.left) \in {Height(n.left), Height(n.left) + 1}
  BY GoodTwoHeights DEF Larger, GoodTwo
<1>2. m = RotateLeft(top)
  BY RebalanceCases DEF StraightenRight
<1>3. IsNode(top) /\ top.key = n.key /\ top.value = n.value /\ top.left = n.left /\ top.right = c
  BY NodeFields
<1> HIDE DEF top
<1>4. m = Node(c.key, c.value, old, c.right, NewHeight(old, c.right))
  BY <1>1, <1>2, <1>3, RotateLeftNode DEF NewHeight
<1>5. Joins(m, old, c.right) /\ Joins(old, n.left, c.left)
  BY <1>4, Zenon DEF Joins
<1> HIDE DEF old, m
<1>6. Height(old) = Height(c.left) + 1 /\ old # Nil /\ old.left = n.left /\ old.right = c.left
  BY <1>1, <1>5, JoinsFields DEF Larger
<1>7. m \notin {Nil, Crash} /\ m.left = old /\ m.right = c.right /\ Height(m) = Height(c.left) + 2
  BY <1>1, <1>5, <1>6, JoinsFields DEF Larger
<1>8. Settled(m, n)
  BY <1>1, <1>7 DEF Settled, Larger, Level2
<1>9. ASSUME Good(n.left) PROVE Restored(m, n)
  <2>1. Good(old)
    BY <1>1, <1>5, JoinsGood DEF Level2
  <2>2. Good(m)
    BY <1>1, <1>5, <1>6, JoinsGood DEF Level2
  <2>3. Inside(c.left, n) /\ Inside(c.right, n) /\ Inside(n.left, n)
    BY <1>1, InsideSides, InsideParts
  <2>4. QED
    BY <1>1, <1>6, <1>7, <2>1, <2>2, <2>3 DEF Restored, Sound
<1>10. QED
  BY <1>8, <1>9 DEF m

\* Right-heavy, the inner side of the child being the higher: the child is rotated first.
LEMMA DoubleLeft ==
  ASSUME NEW n, IsNode(n), GoodTwo(n.right), Height(n.left) \in Nat,
         Height(n.right) = Height(n.left) + 2,
         Height(n.right.left) > Height(n.right.right)
  PROVE  /\ Settled(node_rebalance(n), n)
         /\ Good(n.left) => Restored(node_rebalance(n), n)
<1> DEFINE c == n.right
           g == c.left
           m == node_rebalance(n)
           lower == Node(c.key, c.value, g.right, c.right, NewHeight(g.right, c.right))
           c2 == Node(g.key, g.value, g.left, lower, NewHeight(g.left, lower))
           top == Node(n.key, n.value, n.left, c2, NewHeight(n.left, c))
           old == Node(n.key, n.value, n.left, g.left, NewHeight(n.left, g.left))
<1>1. /\ c # Nil /\ IsNode(c)
      /\ Height(c.right) = Height(n.left)
      /\ Height(g) = Height(n.left) + 1
      /\ Good(g) /\ Good(c.right)
  BY GoodTwoHeights DEF Larger, GoodTwo
<1>2. g # Nil /\ IsNode(g)
  BY <1>1 DEF Good, Height
<1>3. /\ Height(g.left) \in Nat /\ Height(g.right) \in Nat
      /\ Height(g.left) - Height(g.right) \in -1..1
      /\ 1 + Larger(Height(g.left), Height(g.right)) = Height(n.left) + 1
  BY <1>1, <1>2, GoodHeight DEF Good, Even
<1>4. StraightenRight(c) = c2
  BY <1>1, <1>2, RotateRightNode DEF StraightenRight, NewHeight
<1>5. m = RotateLeft(top)
  <2>1. Height(c) > Height(n.left) + 1 /\ ~(Height(n.left) > Height(c) + 1) /\ Height(c) \in Nat
    OBVIOUS
  <2> HIDE DEF c2
  <2>2. QED
    BY <1>4, <2>1, RebalanceCases
<1>6. /\ IsNode(top) /\ top.key = n.key /\ top.value = n.value /\ top.left = n.left /\ top.right = c2
      /\ IsNode(c2) /\ c2.key = g.key /\ c2.value = g.value /\ c2.left = g.left /\ c2.right = lower
  <2>1. IsNode(top) /\ top.key = n.key /\ top.value = n.value /\ top.left = n.left /\ top.right = c2
    BY NodeFields
  <2>2. IsNode(c2) /\ c2.key = g.key /\ c2.value = g.value /\ c2.left = g.left /\ c2.right = lower
    BY NodeFields
  <2> HIDE DEF top, c2
  <2>3. QED
    BY <2>1, <2>2
<1> HIDE DEF top, c2
<1>7. m = Node(g.key, g.value, old, lower, NewHeight(old, lower))
  BY <1>5, <1>6, RotateLeftNode DEF NewHeight
<1>8. Joins(m, old, lower) /\ Joins(lower, g.right, c.right) /\ Joins(old, n.left, g.left)
  BY <1>7, Zenon DEF Joins
<1> HIDE DEF old, lower, m
<1>9. Height(g.left) \in {Height(n.left), Height(n.left) - 1}
      /\ Height(g.right) \in {Height(n.left), Height(n.left) - 1}
  BY <1>3 DEF Larger
<1>10. /\ Height(lower) = Height(n.left) + 1
       /\ lower # Nil /\ lower.left = g.right /\ lower.right = c.right
  BY <1>1, <1>8, <1>9, JoinsFields DEF Larger
<1>11. /\ Height(old) = Height(n.left) + 1
       /\ old # Nil /\ old.left = n.left /\ old.right = g.left
  BY <1>8, <1>9, JoinsFields DEF Larger
<1>12. m \notin {Nil, Crash} /\ m.left = old /\ m.right = lower /\ Height(m) = Height(n.left) + 2
  BY <1>8, <1>10, <1>11, JoinsFields DEF Larger
<1>13. Settled(m, n)
  BY <1>12 DEF Settled, Larger, Level2
<1>14. ASSUME Good(n.left) PROVE Restored(m, n)
  <2>1. Good(lower)
    <3>1. Height(c.right) \in Nat /\ Level2(g.right, c.right)
      BY <1>1, <1>9 DEF Level2
    <3>2. QED
      BY <1>3, <1>8, <3>1, JoinsGood
  <2>2. Good(old)
    <3>1. Level2(n.left, g.left)
      BY <1>9 DEF Level2
    <3>2. QED
      BY <1>3, <1>8, <3>1, JoinsGood
  <2>3. Good(m)
    <3>1. Height(lower) \in Nat /\ Height(old) \in Nat /\ Level2(old, lower)
      BY <1>10, <1>11 DEF Level2
    <3>2. QED
      BY <1>8, <3>1, JoinsGood
  <2>4. Inside(c.right, n) /\ Inside(g.left, n) /\ Inside(g.right, n) /\ Inside(n.left, n)
    BY <1>1, <1>2, InsideSides, InsideParts
  <2>5. QED
    BY <1>10, <1>11, <1>12, <2>1, <2>2, <2>3, <2>4 DEF Restored, Sound
<1>15. QED
  BY <1>13, <1>14 DEF m

\* A node with a side too heavy has it good and its children too; the other side may be anything
\* with a height.
Askew(n) ==
  /\ IsNode(n)
  /\ Height(n.left) \in Nat /\ Height(n.right) \in Nat
  /\ Height(n.left) - Height(n.right) \in -2..2
  /\ Height(n.left) > Height(n.right) + 1 => GoodTwo(n.left)
  /\ Height(n.right) > Height(n.left) + 1 => GoodTwo(n.right)

LEMMA RebalanceSettles ==
  ASSUME NEW n, Askew(n)
  PROVE  /\ Settled(node_rebalance(n), n)
         /\ /\ Good(n.left) /\ Good(n.right)
            /\ Height(n.left) > Height(n.right) + 1 => ~Leaning(n)
            => Restored(node_rebalance(n), n)
<1>1. IsNode(n) /\ Height(n.left) \in Nat /\ Height(n.right) \in Nat
  BY DEF Askew
<1>2. CASE Level2(n.left, n.right)
  BY <1>1, <1>2, NoRotation
<1>3. CASE Height(n.left) = Height(n.right) + 2
  <2>1. GoodTwo(n.left) /\ Height(n.left) > Height(n.right) + 1
    BY <1>1, <1>3 DEF Askew
  <2>2. QED
    BY <1>1, <1>3, <2>1, SingleRight, DoubleRight
<1>4. CASE Height(n.right) = Height(n.left) + 2
  <2>1. GoodTwo(n.right)
    BY <1>1, <1>4 DEF Askew
  <2>2. QED
    BY <1>1, <1>4, <2>1, SingleLeft, DoubleLeft
<1>5. QED
  BY <1>1, <1>2, <1>3, <1>4 DEF Askew, Level2

\* node_rebalance restores the AVL condition around a node whose subtrees satisfy it and
\* differ by two at most, and follows no NULL pointer - unless the node leans: left-heavy,
\* with an even left child whose right subtree is heavier on the right.  A put never leads
\* there, a remove may.
THEOREM RebalanceRestores ==
  ASSUME NEW n, IsNode(n), GoodTwo(n.left), GoodTwo(n.right),
         Height(n.left) - Height(n.right) \in -2..2,
         Height(n.left) > Height(n.right) + 1 => ~Leaning(n)
  PROVE  Restored(node_rebalance(n), n) /\ Settled(node_rebalance(n), n)
<1>1. Height(n.left) \in Nat /\ Height(n.right) \in Nat /\ Good(n.left) /\ Good(n.right)
  BY GoodHeight DEF GoodTwo
<1>2. Askew(n)
  BY <1>1 DEF Askew
<1>3. QED
  BY <1>1, <1>2, RebalanceSettles

-----------------------------------------------------------------------------
\* Whole trees.  A tree is balanced when its own node is good and its two subtrees are balanced.

LEMMA BalancedNil == Balanced(Nil)
<1>1. Trees(Nil) = {Nil}
  BY SearchNil, TreesOf
<1>2. QED
  BY <1>1 DEF Balanced, Exact, Even

LEMMA BalancedParts ==
  ASSUME NEW t, NEW E, Search(t, E), t # Nil
  PROVE  Balanced(t) <=> Good(t) /\ Balanced(t.left) /\ Balanced(t.right)
<1>1. Trees(t) = {t} \cup (Trees(t.left) \cup Trees(t.right))
  BY TreesOf
<1>2. Split(t, E)
  BY SearchSplit
<1>3. IsNode(t) /\ Height(t.left) \in Nat /\ Height(t.right) \in Nat
  BY <1>2, SearchHeight DEF Split, Tops
<1>4. Good(t) <=> Exact(t) /\ Even(t)
  BY <1>3 DEF Good, Exact, Even
<1>5. QED
  BY <1>1, <1>4, Zenon DEF Balanced

LEMMA BalancedGood ==
  ASSUME NEW t, NEW E, Search(t, E), Balanced(t)
  PROVE  Good(t)
<1>1. CASE t = Nil
  BY <1>1 DEF Good
<1>2. CASE t # Nil
  BY <1>2, BalancedParts
<1>3. QED
  BY <1>1, <1>2

LEMMA BalancedTwo ==
  ASSUME NEW t, NEW E, Search(t, E), Balanced(t)
  PROVE  GoodTwo(t)
<1>1. CASE t = Nil
  BY <1>1 DEF GoodTwo, Good
<1>2. CASE t # Nil
  <2>1. Good(t) /\ Balanced(t.left) /\ Balanced(t.right)
    BY <1>2, BalancedParts
  <2>2. Search(t.left, Below(E, t.key)) /\ Search(t.right, Above(E, t.key))
    BY <1>2, SearchSplit DEF Split
  <2>3. Good(t.left) /\ Good(t.right)
    BY <2>1, <2>2, BalancedGood
  <2>4. QED
    BY <2>1, <2>3 DEF GoodTwo
<1>3. QED
  BY <1>1, <1>2

LEMMA BalancedInside ==
  ASSUME NEW n, NEW E, Search(n.left, E), NEW F, Search(n.right, F),
         Balanced(n.left), Balanced(n.right), NEW c, Inside(c, n)
  PROVE  Balanced(c)
<1>1. Closed(Trees(n.left)) /\ Closed(Trees(n.right)) /\ n.left \in Trees(n.left) /\ n.right \in Trees(n.right)
  BY SearchTrees, SelfInTrees
<1> DEFINE T == Trees(n.left) \cup Trees(n.right)
<1>2. Closed(T) /\ n.left \in T /\ n.right \in T
  BY <1>1 DEF Closed
<1>3. c \in T
  <2> HIDE DEF T
  <2>1. QED
    BY <1>2 DEF Inside
<1>4. Trees(c) \subseteq Trees(n.left) \/ Trees(c) \subseteq Trees(n.right)
  BY <1>3, TreesInside
<1>5. QED
  BY <1>4 DEF Balanced

LEMMA SoundBalanced ==
  ASSUME NEW n, NEW E, Search(n.left, E), NEW F, Search(n.right, F),
         Balanced(n.left), Balanced(n.right), NEW c, NEW G, Search(c, G), Sound(c, n)
  PROVE  Balanced(c)
<1>1. CASE Inside(c, n)
  BY <1>1, BalancedInside
<1>2. CASE c # Nil /\ Good(c) /\ Inside(c.left, n) /\ Inside(c.right, n)
  <2>1. Balanced(c.left) /\ Balanced(c.right)
    BY <1>2, BalancedInside
  <2>2. QED
    BY <1>2, <2>1, BalancedParts
<1>3. QED
  BY <1>1, <1>2 DEF Sound

\* What node_rebalance restores is balanced when it is made of balanced trees.
LEMMA RestoredBalanced ==
  ASSUME NEW n, NEW E, Search(n.left, E), NEW F, Search(n.right, F),
         Balanced(n.left), Balanced(n.right), NEW m, NEW G, Search(m, G), m # Nil, Restored(m, n)
  PROVE  Balanced(m)
<1>1. Search(m.left, Below(G, m.key)) /\ Search(m.right, Above(G, m.key))
  BY SearchSplit DEF Split
<1>2. Good(m) /\ Sound(m.left, n) /\ Sound(m.right, n)
  BY DEF Restored
<1>3. Balanced(m.left) /\ Balanced(m.right)
  BY <1>1, <1>2, SoundBalanced
<1>4. QED
  BY <1>2, <1>3, BalancedParts

LEMMA LeaningParts ==
  ASSUME NEW t, NEW E, Search(t, E), t # Nil,
         Leaning(t) \/ SomeLeaning(t.left) \/ SomeLeaning(t.right)
  PROVE  SomeLeaning(t)
BY TreesOf, Zenon DEF SomeLeaning

\* Rebalancing a tree that is balanced already changes nothing that matters.
LEMMA RebalanceIdle ==
  ASSUME NEW t, NEW E, Search(t, E), Balanced(t)
  PROVE  /\ node_rebalance(t) # Crash
         /\ Height(node_rebalance(t)) = Height(t)
         /\ Balanced(node_rebalance(t))
<1> DEFINE m == node_rebalance(t)
<1>1. CASE t = Nil
  BY <1>1, NilNotCrash DEF node_rebalance
<1>2. CASE t # Nil
  <2>1. Good(t) /\ Balanced(t.left) /\ Balanced(t.right)
    BY <1>2, BalancedParts
  <2>2. Search(t.left, Below(E, t.key)) /\ Search(t.right, Above(E, t.key))
    BY <1>2, SearchSplit DEF Split
  <2>3. Good(t.left) /\ Good(t.right)
    BY <2>1, <2>2, BalancedGood
  <2>4. /\ IsNode(t) /\ Height(t.left) \in Nat /\ Height(t.right) \in Nat /\ Level2(t.left, t.right)
        /\ Height(t) = 1 + Larger(Height(t.left), Height(t.right))
    BY <1>2, <2>1, GoodHeight DEF Good, Even, Level2
  <2>5. Settled(m, t) /\ Restored(m, t)
    BY <2>3, <2>4, NoRotation
  <2> HIDE DEF m
  <2>6. m \notin {Nil, Crash} /\ Height(m) = Height(t)
    BY <2>4, <2>5 DEF Settled
  <2>7. Search(m, E)
    BY <2>6, RebalanceSearch DEF Fits, m
  <2>8. Balanced(m)
    BY <2>1, <2>2, <2>5, <2>6, <2>7, RestoredBalanced
  <2>9. QED
    BY <2>6, <2>8 DEF m
<1>3. QED
  BY <1>1, <1>2

-----------------------------------------------------------------------------
\* _vial_map_put and the balance.  A subtree grows by one level at most, and is uneven when it has
\* grown, so that the node above never has to be rotated twice, nor leans.

Grown(r, t) ==
  \/ Height(r) = Height(t)
  \/ /\ Height(r) = Height(t) + 1
     /\ t # Nil => Height(r.left) # Height(r.right)

\* A node c has l in the place of the left subtree of n, or of the right one.
LeftOf(c, n, l) == IsNode(c) /\ c.left = l /\ c.right = n.right
RightOf(c, n, r) == IsNode(c) /\ c.left = n.left /\ c.right = r

LEMMA SubtreeLinked ==
  ASSUME NEW n, IsNode(n), NEW x, x # Crash
  PROVE  /\ n.right # Crash => /\ Rebuilt([n EXCEPT !.left = x]) = node_rebalance([n EXCEPT !.left = x])
                               /\ LeftOf([n EXCEPT !.left = x], n, x)
         /\ n.left # Crash => /\ Rebuilt([n EXCEPT !.right = x]) = node_rebalance([n EXCEPT !.right = x])
                              /\ RightOf([n EXCEPT !.right = x], n, x)
<1> DEFINE c == [n EXCEPT !.left = x]
           d == [n EXCEPT !.right = x]
<1>1. c = Node(n.key, n.value, x, n.right, n.height) /\ d = Node(n.key, n.value, n.left, x, n.height)
  BY DEF IsNode, Node
<1>2. LeftOf(c, n, x) /\ RightOf(d, n, x)
  BY <1>1, NodeFields DEF LeftOf, RightOf
<1> HIDE DEF c, d
<1>3. /\ n.right # Crash => Rebuilt(c) = node_rebalance(c)
      /\ n.left # Crash => Rebuilt(d) = node_rebalance(d)
  BY <1>2 DEF Rebuilt, LeftOf, RightOf
<1>4. QED
  BY <1>2, <1>3 DEF c, d

LEMMA GrownLeft ==
  ASSUME NEW n, n # Nil, Good(n), GoodTwo(n.right), NEW l, GoodTwo(l), Grown(l, n.left),
         NEW c, LeftOf(c, n, l)
  PROVE  Settled(node_rebalance(c), c) /\ Restored(node_rebalance(c), c) /\ Grown(node_rebalance(c), n)
<1> DEFINE m == node_rebalance(c)
<1>1. /\ Height(n.left) \in Nat /\ Height(n.right) \in Nat
      /\ Height(n.left) - Height(n.right) \in -1..1
      /\ Height(n) = 1 + Larger(Height(n.left), Height(n.right))
      /\ Height(l) \in {Height(n.left), Height(n.left) + 1}
  BY GoodHeight DEF Good, Even, Grown
<1>2. IsNode(c) /\ c.left = l /\ c.right = n.right /\ Good(l) /\ Good(n.right)
  BY DEF LeftOf, GoodTwo
<1>3. Height(l) > Height(n.right) + 1 => Height(l.left) # Height(l.right)
  <2>1. Height(l) > Height(n.right) + 1 => Height(l) = Height(n.left) + 1 /\ Height(n.left) > 0
    BY <1>1
  <2>2. Height(n.left) > 0 => n.left # Nil
    BY DEF Height
  <2>3. Height(l) = Height(n.left) + 1 => Height(l) # Height(n.left)
    BY <1>1
  <2>4. QED
    BY <2>1, <2>2, <2>3 DEF Grown
<1>4. Askew(c) /\ (Height(c.left) > Height(c.right) + 1 => ~Leaning(c))
  BY <1>1, <1>2, <1>3 DEF Askew, Leaning
<1>5. Settled(m, c) /\ Restored(m, c)
  BY <1>2, <1>4, RebalanceSettles
<1>6. Grown(m, n)
  <2>1. CASE Level2(l, n.right)
    <3>1. Joins(m, l, n.right)
      BY <1>1, <1>2, <2>1, NoRotation
    <3> HIDE DEF m
    <3>2. m.left = l /\ m.right = n.right /\ Height(m) = 1 + Larger(Height(l), Height(n.right))
      BY <3>1, JoinsFields
    <3>3. \/ Height(m) = Height(n)
          \/ Height(m) = Height(n) + 1 /\ Height(l) # Height(n.right)
      BY <1>1, <3>2 DEF Larger
    <3>4. QED
      BY <3>2, <3>3 DEF Grown
  <2>2. CASE ~Level2(l, n.right)
    <3>1. Height(l) = Height(n.right) + 2 /\ Height(l) = Height(n)
      BY <1>1, <2>2 DEF Level2, Larger
    <3>2. Height(l) > Height(n.right) + 1
      BY <1>1, <3>1
    <3> HIDE DEF m
    <3>3. Height(m) = Height(l)
      BY <1>2, <1>3, <1>5, <3>2 DEF Settled
    <3>4. QED
      BY <3>1, <3>3 DEF Grown
  <2>3. QED
    BY <2>1, <2>2
<1>7. QED
  BY <1>5, <1>6

LEMMA GrownRight ==
  ASSUME NEW n, n # Nil, Good(n), GoodTwo(n.left), NEW r, GoodTwo(r), Grown(r, n.right),
         NEW c, RightOf(c, n, r)
  PROVE  Settled(node_rebalance(c), c) /\ Restored(node_rebalance(c), c) /\ Grown(node_rebalance(c), n)
<1> DEFINE m == node_rebalance(c)
<1>1. /\ Height(n.left) \in Nat /\ Height(n.right) \in Nat
      /\ Height(n.left) - Height(n.right) \in -1..1
      /\ Height(n) = 1 + Larger(Height(n.left), Height(n.right))
      /\ Height(r) \in {Height(n.right), Height(n.right) + 1}
  BY GoodHeight DEF Good, Even, Grown
<1>2. IsNode(c) /\ c.left = n.left /\ c.right = r /\ Good(r) /\ Good(n.left)
  BY DEF RightOf, GoodTwo
<1>3. Height(r) > Height(n.left) + 1 => Height(r.left) # Height(r.right)
  <2>1. Height(r) > Height(n.left) + 1 => Height(r) = Height(n.right) + 1 /\ Height(n.right) > 0
    BY <1>1
  <2>2. Height(n.right) > 0 => n.right # Nil
    BY DEF Height
  <2>3. Height(r) = Height(n.right) + 1 => Height(r) # Height(n.right)
    BY <1>1
  <2>4. QED
    BY <2>1, <2>2, <2>3 DEF Grown
<1>4. Askew(c) /\ ~(Height(c.left) > Height(c.right) + 1)
  BY <1>1, <1>2 DEF Askew
<1>5. Settled(m, c) /\ Restored(m, c)
  BY <1>2, <1>4, RebalanceSettles
<1>6. Grown(m, n)
  <2>1. CASE Level2(n.left, r)
    <3>1. Joins(m, n.left, r)
      BY <1>1, <1>2, <2>1, NoRotation
    <3> HIDE DEF m
    <3>2. m.left = n.left /\ m.right = r /\ Height(m) = 1 + Larger(Height(n.left), Height(r))
      BY <3>1, JoinsFields
    <3>3. \/ Height(m) = Height(n)
          \/ Height(m) = Height(n) + 1 /\ Height(n.left) # Height(r)
      BY <1>1, <3>2 DEF Larger
    <3>4. QED
      BY <3>2, <3>3 DEF Grown
  <2>2. CASE ~Level2(n.left, r)
    <3>1. Height(r) = Height(n.left) + 2 /\ Height(r) = Height(n)
      BY <1>1, <2>2 DEF Level2, Larger
    <3>2. Height(r) > Height(n.left) + 1
      BY <1>1, <3>1
    <3> HIDE DEF m
    <3>3. Height(m) = Height(r)
      BY <1>2, <1>3, <1>5, <3>2 DEF Settled
    <3>4. QED
      BY <3>1, <3>3 DEF Grown
  <2>3. QED
    BY <2>1, <2>2
<1>7. QED
  BY <1>5, <1>6

\* What a put makes of a balanced tree.
PutLevels(t, k, v) ==
  Balanced(t) => /\ TreePut(t, k, v) \notin {Nil, Crash}
                 /\ Balanced(TreePut(t, k, v))
                 /\ Grown(TreePut(t, k, v), t)

LEMMA TreePutLevelsNil ==
  ASSUME NEW k \in Key, NEW v \in Val
  PROVE  \A F : Search(Nil, F) => PutLevels(Nil, k, v)
<1> DEFINE m == Leaf(k, v)
<1>1. Search(Nil, {})
  BY SearchNil
<1>2. TreePut(Nil, k, v) = m
  <2>1. \A l, r : TreePutStep(Nil, l, r, k, v) = m
    BY DEF TreePutStep
  <2>2. QED
    BY <1>1, <2>1, TreePutTurn
<1>3. m = Node(k, v, Nil, Nil, 1) /\ Height(Nil) = 0
  BY DEF Leaf, Node, Height
<1> HIDE DEF m
<1>4. m \notin {Nil, Crash} /\ Height(m) = 1 /\ m.left = Nil /\ m.right = Nil
  BY <1>3, NodeNotNil, HeightOfNode, NodeFields
<1>5. Good(m)
  <2>1. 1 + Larger(Height(Nil), Height(Nil)) = 1 /\ Height(Nil) - Height(Nil) \in -1..1 /\ Height(Nil) \in Nat
    BY <1>3 DEF Larger
  <2>2. QED
    BY <1>3, <2>1, GoodNode
<1>6. PICK F : Search(m, F)
  BY <1>1, <1>2, <1>4, TreePutFits DEF PutFits, Fits
<1>7. Balanced(m)
  BY <1>4, <1>5, <1>6, BalancedNil, BalancedParts
<1>8. Grown(m, Nil)
  BY <1>3, <1>4 DEF Grown
<1>9. QED
  BY <1>2, <1>4, <1>7, <1>8 DEF PutLevels

LEMMA TreePutLevelsStep ==
  ASSUME NEW k \in Key, NEW v \in Val, NEW n, NEW F, n # Nil, Search(n, F), Entries(F), Split(n, F),
         PutLevels(n.left, k, v), PutLevels(n.right, k, v)
  PROVE  PutLevels(n, k, v)
<1>1. SUFFICES ASSUME Balanced(n)
               PROVE  /\ TreePut(n, k, v) \notin {Nil, Crash}
                      /\ Balanced(TreePut(n, k, v))
                      /\ Grown(TreePut(n, k, v), n)
  BY DEF PutLevels
<1>2. /\ IsNode(n) /\ <<n.key, n.value>> \in F
      /\ Search(n.left, Below(F, n.key)) /\ Search(n.right, Above(F, n.key))
  BY SplitOver DEF Over
<1>3. n.key \in Int /\ k \in Int
  BY <1>2, EntriesKeys, KeyAssumption
<1>4. Good(n) /\ Balanced(n.left) /\ Balanced(n.right)
  BY <1>1, BalancedParts
<1>5. GoodTwo(n.left) /\ GoodTwo(n.right) /\ n.left # Crash /\ n.right # Crash
  BY <1>2, <1>4, BalancedTwo, SearchHeight
<1>6. TreePut(n, k, v) = TreePutStep(n, TreePut(n.left, k, v), TreePut(n.right, k, v), k, v)
  BY TreePutTurn
<1>7. TreePut(n, k, v) # Crash => \E U : Search(TreePut(n, k, v), U)
  BY TreePutFits DEF PutFits, Fits
<1>8. CASE k < n.key
  <2> DEFINE l == TreePut(n.left, k, v)
             c == [n EXCEPT !.left = l]
             m == TreePut(n, k, v)
  <2>1. m = Rebuilt(c)
    BY <1>6, <1>8 DEF TreePutStep
  <2>2. l # Crash /\ Balanced(l) /\ Grown(l, n.left)
    BY <1>4 DEF PutLevels
  <2>3. PICK U : Search(l, U)
    BY <1>2, <2>2, TreePutFits DEF PutFits, Fits
  <2> HIDE DEF l
  <2>4. m = node_rebalance(c) /\ LeftOf(c, n, l)
    BY <1>2, <1>5, <2>1, <2>2, SubtreeLinked
  <2>5. GoodTwo(l)
    BY <2>2, <2>3, BalancedTwo
  <2> HIDE DEF c, m
  <2>6. Settled(m, c) /\ Restored(m, c) /\ Grown(m, n)
    BY <1>4, <1>5, <2>2, <2>4, <2>5, GrownLeft
  <2>7. m \notin {Nil, Crash}
    BY <2>6 DEF Settled
  <2>8. PICK G : Search(m, G)
    BY <1>7, <2>7 DEF m
  <2>9. c.left = l /\ c.right = n.right
    BY <2>4 DEF LeftOf
  <2>10. Balanced(m)
    BY <1>2, <1>4, <2>2, <2>3, <2>6, <2>7, <2>8, <2>9, RestoredBalanced
  <2>11. QED
    BY <2>6, <2>7, <2>10 DEF m
<1>9. CASE k > n.key
  <2> DEFINE r == TreePut(n.right, k, v)
             c == [n EXCEPT !.right = r]
             m == TreePut(n, k, v)
  <2>1. m = Rebuilt(c)
    BY <1>3, <1>6, <1>9 DEF TreePutStep
  <2>2. r # Crash /\ Balanced(r) /\ Grown(r, n.right)
    BY <1>4 DEF PutLevels
  <2>3. PICK U : Search(r, U)
    BY <1>2, <2>2, TreePutFits DEF PutFits, Fits
  <2> HIDE DEF r
  <2>4. m = node_rebalance(c) /\ RightOf(c, n, r)
    BY <1>2, <1>5, <2>1, <2>2, SubtreeLinked
  <2>5. GoodTwo(r)
    BY <2>2, <2>3, BalancedTwo
  <2> HIDE DEF c, m
  <2>6. Settled(m, c) /\ Restored(m, c) /\ Grown(m, n)
    BY <1>4, <1>5, <2>2, <2>4, <2>5, GrownRight
  <2>7. m \notin {Nil, Crash}
    BY <2>6 DEF Settled
  <2>8. PICK G : Search(m, G)
    BY <1>7, <2>7 DEF m
  <2>9. c.left = n.left /\ c.right = r
    BY <2>4 DEF RightOf
  <2>10. Balanced(m)
    BY <1>2, <1>4, <2>2, <2>3, <2>6, <2>7, <2>8, <2>9, RestoredBalanced
  <2>11. QED
    BY <2>6, <2>7, <2>10 DEF m
<1>10. CASE k = n.key
  <2> DEFINE m == TreePut(n, k, v)
  <2>1. m = WithEntry(n, k, v)
    BY <1>3, <1>6, <1>10 DEF TreePutStep, WithEntry
  <2>2. m = Node(k, v, n.left, n.right, n.height)
    BY <1>2, <2>1, TwoFields
  <2> HIDE DEF m
  <2>3. m \notin {Nil, Crash} /\ m.left = n.left /\ m.right = n.right /\ m.height = n.height /\ IsNode(m)
    BY <2>2, NodeNotNil, NodeFields
  <2>4. Good(m) /\ Height(m) = Height(n)
    BY <1>4, <2>3 DEF Good, Exact, Even, node_height, Height
  <2>5. PICK G : Search(m, G)
    BY <1>7, <2>3 DEF m
  <2>6. Balanced(m) /\ Grown(m, n)
    BY <1>4, <2>3, <2>4, <2>5, BalancedParts DEF Grown
  <2>7. QED
    BY <2>3, <2>6 DEF m
<1>11. QED
  BY <1>3, <1>8, <1>9, <1>10

\* A put keeps every balanced search tree balanced.
LEMMA TreePutLevels ==
  ASSUME NEW t, NEW E, Search(t, E), NEW k \in Key, NEW v \in Val
  PROVE  PutLevels(t, k, v)
<1> DEFINE Q == {n \in Trees(t) \cup {Nil} : \A F : Search(n, F) => PutLevels(n, k, v)}
<1>1. Nil \in Q
  BY TreePutLevelsNil, SearchNil
<1>2. ASSUME NEW n \in Trees(t), n # Nil, n.left \in Q, n.right \in Q PROVE n \in Q
  <2>1. SUFFICES ASSUME NEW F, Search(n, F) PROVE PutLevels(n, k, v)
    OBVIOUS
  <2>2. Split(n, F) /\ Entries(F)
    BY <1>2, <2>1, SearchSplit, SearchEntries
  <2>3. PutLevels(n.left, k, v) /\ PutLevels(n.right, k, v)
    BY <1>2, <2>2 DEF Split
  <2>4. QED
    BY <1>2, <2>1, <2>2, <2>3, TreePutLevelsStep
<1> HIDE DEF Q
<1>3. Inherits(t, Q)
  BY <1>1, <1>2 DEF Inherits
<1>4. t \in Q
  BY <1>3, TreeInduction
<1>5. QED
  BY <1>4 DEF Q

-----------------------------------------------------------------------------
\* _vial_map_remove and the balance.  A subtree loses one level at most.  It may come out unbalanced
\* when the successor is not the right child, or when a node leans.

Shrunk(r, t) == Height(t) - Height(r) \in {0, 1}

LEMMA ShrunkLeft ==
  ASSUME NEW n, n # Nil, Good(n), GoodTwo(n.right), NEW l, Height(l) \in Nat, Shrunk(l, n.left),
         NEW c, LeftOf(c, n, l)
  PROVE  /\ Settled(node_rebalance(c), c) /\ Shrunk(node_rebalance(c), n)
         /\ Good(l) => Restored(node_rebalance(c), c)
<1> DEFINE m == node_rebalance(c)
<1>1. /\ Height(n.left) \in Nat /\ Height(n.right) \in Nat
      /\ Height(n.left) - Height(n.right) \in -1..1
      /\ Height(n) = 1 + Larger(Height(n.left), Height(n.right))
      /\ Height(l) \in {Height(n.left), Height(n.left) - 1}
  BY GoodHeight DEF Good, Even, Shrunk
<1>2. IsNode(c) /\ c.left = l /\ c.right = n.right /\ Good(n.right)
  BY DEF LeftOf, GoodTwo
<1>3. Askew(c) /\ ~(Height(c.left) > Height(c.right) + 1)
  BY <1>1, <1>2 DEF Askew
<1>4. Settled(m, c) /\ (Good(l) => Restored(m, c))
  BY <1>2, <1>3, RebalanceSettles
<1>5. /\ Height(m) - Larger(Height(l), Height(n.right)) \in {0, 1}
      /\ Height(l) - Height(n.right) \in -1..1 => Height(m) = 1 + Larger(Height(l), Height(n.right))
  BY <1>2, <1>4 DEF Settled, Level2
<1> HIDE DEF m
<1>6. Shrunk(m, n)
  <2>1. Larger(Height(l), Height(n.right)) \in Int
    BY <1>1 DEF Larger
  <2>2. Height(m) \in Int
    BY <1>4, <2>1 DEF Settled
  <2>3. QED
    BY <1>1, <1>5, <2>2 DEF Larger, Shrunk
<1>7. QED
  BY <1>4, <1>6 DEF m

LEMMA ShrunkRight ==
  ASSUME NEW n, n # Nil, Good(n), GoodTwo(n.left), NEW r, Height(r) \in Nat, Shrunk(r, n.right),
         NEW c, RightOf(c, n, r)
  PROVE  /\ Settled(node_rebalance(c), c) /\ Shrunk(node_rebalance(c), n)
         /\ Good(r) /\ ~Leaning(n) => Restored(node_rebalance(c), c)
<1> DEFINE m == node_rebalance(c)
<1>1. /\ Height(n.left) \in Nat /\ Height(n.right) \in Nat
      /\ Height(n.left) - Height(n.right) \in -1..1
      /\ Height(n) = 1 + Larger(Height(n.left), Height(n.right))
      /\ Height(r) \in {Height(n.right), Height(n.right) - 1}
  BY GoodHeight DEF Good, Even, Shrunk
<1>2. IsNode(c) /\ c.left = n.left /\ c.right = r /\ Good(n.left)
  BY DEF RightOf, GoodTwo
<1>3. Askew(c)
  BY <1>1, <1>2 DEF Askew
<1>4. ~Leaning(n) => ~Leaning(c)
  BY <1>2 DEF Leaning
<1>5. Settled(m, c) /\ (Good(r) /\ ~Leaning(n) => Restored(m, c))
  BY <1>2, <1>3, <1>4, RebalanceSettles
<1>6. /\ Height(m) - Larger(Height(n.left), Height(r)) \in {0, 1}
      /\ Height(n.left) - Height(r) \in -1..1 => Height(m) = 1 + Larger(Height(n.left), Height(r))
  BY <1>2, <1>5 DEF Settled, Level2
<1> HIDE DEF m
<1>7. Shrunk(m, n)
  <2>1. Larger(Height(n.left), Height(r)) \in Int
    BY <1>1 DEF Larger
  <2>2. Height(m) \in Int
    BY <1>5, <2>1 DEF Settled
  <2>3. QED
    BY <1>1, <1>6, <2>2 DEF Larger, Shrunk
<1>8. QED
  BY <1>5, <1>7 DEF m

\* What is left of a right subtree when its first node is unlinked: as high as before, unless the
\* subtree's own node is the one.
LEMMA RestShrunk ==
  ASSUME NEW t, NEW E, Search(t, E), t # Nil, Balanced(t)
  PROVE  /\ Height(WithoutLeftmost(t)) \in Nat /\ Shrunk(WithoutLeftmost(t), t)
         /\ t.left = Nil => WithoutLeftmost(t) = t.right
<1>1. WithoutLeftmost(t) = IF t.left = Nil THEN t.right ELSE [t EXCEPT !.left = WithoutLeftmost(t.left)]
  BY WithoutLeftmostTurn DEF WithoutLeftmostStep
<1>2. Good(t) /\ IsNode(t)
  BY BalancedParts DEF Good
<1>3. /\ Height(t.left) \in Nat /\ Height(t.right) \in Nat /\ Height(t.left) - Height(t.right) \in -1..1
      /\ Height(t) = 1 + Larger(Height(t.left), Height(t.right))
  BY <1>2, GoodHeight DEF Good, Even
<1>4. CASE t.left = Nil
  <2>1. Height(t.left) = 0 /\ WithoutLeftmost(t) = t.right
    BY <1>1, <1>4 DEF Height
  <2>2. QED
    BY <1>3, <2>1 DEF Larger, Shrunk
<1>5. CASE t.left # Nil
  <2> DEFINE x == WithoutLeftmost(t.left)
             w == WithoutLeftmost(t)
  <2>1. w = [t EXCEPT !.left = x]
    BY <1>1, <1>5
  <2> HIDE DEF x, w
  <2>2. w = Node(t.key, t.value, x, t.right, t.height)
    BY <1>2, <2>1 DEF IsNode, Node
  <2>3. Height(w) = t.height /\ Height(t) = t.height
    BY <2>2, HeightOfNode DEF Height
  <2>4. Height(t) \in Nat
    BY <1>2, GoodHeight
  <2>5. Height(w) \in Nat /\ Shrunk(w, t)
    BY <2>3, <2>4 DEF Shrunk
  <2>6. QED
    BY <1>5, <2>5 DEF w
<1>6. QED
  BY <1>4, <1>5

\* DeepSuccessor, of any tree.
Deep(t, k) ==
  LET n == Lookup(t, k) IN n # Nil /\ n.left # Nil /\ n.right # Nil /\ n.right.left # Nil

LEMMA DeepParts ==
  ASSUME NEW n, NEW F, Search(n, F), n # Nil, n.key \in Int, NEW k \in Int
  PROVE  /\ k < n.key => (Deep(n, k) <=> Deep(n.left, k))
         /\ k > n.key => (Deep(n, k) <=> Deep(n.right, k))
         /\ k = n.key => (Deep(n, k) <=> n.left # Nil /\ n.right # Nil /\ n.right.left # Nil)
<1>1. Lookup(n, k) = IF k < n.key THEN Lookup(n.left, k) ELSE IF k > n.key THEN Lookup(n.right, k) ELSE n
  BY LookupTurn DEF LookupStep
<1>2. CASE k < n.key
  BY <1>1, <1>2 DEF Deep
<1>3. CASE k > n.key
  BY <1>1, <1>3 DEF Deep
<1>4. CASE k = n.key
  BY <1>1, <1>4 DEF Deep
<1>5. QED
  BY <1>2, <1>3, <1>4

\* What a removal makes of a balanced tree.
RemoveLevels(t, k) ==
  Balanced(t) => /\ TreeRemove(t, k) # Crash
                 /\ Shrunk(TreeRemove(t, k), t)
                 /\ Deep(t, k) \/ SomeLeaning(t) \/ Balanced(TreeRemove(t, k))

LEMMA TreeRemoveLevelsNil ==
  ASSUME NEW k \in Int
  PROVE  \A F : Search(Nil, F) => RemoveLevels(Nil, k)
<1>1. Search(Nil, {})
  BY SearchNil
<1>2. TreeRemove(Nil, k) = Nil
  BY <1>1, TreeRemoveTurn DEF TreeRemoveStep
<1>3. Shrunk(Nil, Nil)
  BY DEF Shrunk, Height
<1>4. QED
  BY <1>2, <1>3, BalancedNil, NilNotCrash DEF RemoveLevels

\* The node itself is removed: its successor, without the entries of the node, takes its place.
LEMMA RemovedLevels ==
  ASSUME NEW n, NEW F, n # Nil, Search(n, F), Balanced(n)
  PROVE  /\ node_rebalance(node_remove(n)) # Crash
         /\ Shrunk(node_rebalance(node_remove(n)), n)
         /\ \/ n.left # Nil /\ n.right # Nil /\ n.right.left # Nil
            \/ SomeLeaning(n)
            \/ Balanced(node_rebalance(node_remove(n)))
<1> DEFINE c == node_remove(n)
           m == node_rebalance(c)
<1>1. Search(n.left, Below(F, n.key)) /\ Search(n.right, Above(F, n.key))
  BY SearchSplit DEF Split
<1>2. Good(n) /\ Balanced(n.left) /\ Balanced(n.right)
  BY BalancedParts
<1>3. /\ Height(n.left) \in Nat /\ Height(n.right) \in Nat /\ Height(n.left) - Height(n.right) \in -1..1
      /\ Height(n) = 1 + Larger(Height(n.left), Height(n.right))
  BY <1>2, GoodHeight DEF Good, Even
<1>4. CASE n.left = Nil
  <2>1. c = n.right /\ Height(n.left) = 0
    BY <1>4 DEF node_remove, Height
  <2>2. m # Crash /\ Height(m) = Height(n.right) /\ Balanced(m)
    BY <1>1, <1>2, <2>1, RebalanceIdle
  <2> HIDE DEF c, m
  <2>3. Shrunk(m, n)
    BY <1>3, <2>1, <2>2 DEF Shrunk, Larger
  <2>4. QED
    BY <2>2, <2>3 DEF m, c
<1>5. CASE n.left # Nil /\ n.right = Nil
  <2>1. c = n.left /\ Height(n.right) = 0
    BY <1>5 DEF node_remove, Height
  <2>2. m # Crash /\ Height(m) = Height(n.left) /\ Balanced(m)
    BY <1>1, <1>2, <2>1, RebalanceIdle
  <2> HIDE DEF c, m
  <2>3. Shrunk(m, n)
    BY <1>3, <2>1, <2>2 DEF Shrunk, Larger
  <2>4. QED
    BY <2>2, <2>3 DEF m, c
<1>6. CASE n.left # Nil /\ n.right # Nil
  <2> DEFINE s == Leftmost(n.right)
             w == WithoutLeftmost(n.right)
  <2>1. c = WithSubtrees(s, n.left, w)
    BY <1>6 DEF node_remove, WithSubtrees
  <2>2. IsNode(s)
    BY <1>1, <1>6, LeftmostFirst DEF First
  <2>3. Height(w) \in Nat /\ Shrunk(w, n.right) /\ (n.right.left = Nil => w = n.right.right)
    BY <1>1, <1>2, <1>6, RestShrunk
  <2> HIDE DEF c, s, w
  <2>4. c = Node(s.key, s.value, n.left, w, s.height)
    BY <2>1, <2>2, TwoFields
  <2>5. RightOf(c, n, w) /\ c.left = n.left /\ c.right = w
    BY <2>4, NodeFields DEF RightOf
  <2>6. GoodTwo(n.left)
    BY <1>1, <1>2, BalancedTwo
  <2>7. Settled(m, c) /\ Shrunk(m, n) /\ (Good(w) /\ ~Leaning(n) => Restored(m, c))
    BY <1>2, <2>3, <2>5, <2>6, ShrunkRight
  <2> HIDE DEF m
  <2>8. m \notin {Nil, Crash}
    BY <2>7 DEF Settled
  <2>9. ASSUME n.right.left = Nil, ~SomeLeaning(n) PROVE Balanced(m)
    <3>1. ~Leaning(n)
      BY <2>9, LeaningParts
    <3>2. PICK G : Search(w, G)
      BY <1>1, <1>6, <2>3, <2>9, SearchSplit DEF Split
    <3>3. Balanced(w) /\ Good(w)
      BY <1>1, <1>2, <1>6, <2>3, <2>9, <3>2, BalancedParts, BalancedGood
    <3>4. Search(c, Dropped(F, n.key))
      BY NodeRemoved DEF c
    <3>5. Search(m, Dropped(F, n.key))
      BY <2>8, <3>4, RebalanceSearch DEF Fits, m
    <3>6. Restored(m, c)
      BY <2>7, <3>1, <3>3
    <3>7. Search(c.left, Below(F, n.key)) /\ Search(c.right, G) /\ Balanced(c.left) /\ Balanced(c.right)
      BY <1>1, <1>2, <2>5, <3>2, <3>3
    <3>8. QED
      BY <2>8, <3>5, <3>6, <3>7, RestoredBalanced
  <2>10. QED
    BY <1>6, <2>7, <2>8, <2>9 DEF m, c
<1>7. QED
  BY <1>4, <1>5, <1>6

LEMMA TreeRemoveLevelsStep ==
  ASSUME NEW k \in Int, NEW n, NEW F, n # Nil, Search(n, F), Entries(F), Split(n, F),
         RemoveLevels(n.left, k), RemoveLevels(n.right, k)
  PROVE  RemoveLevels(n, k)
<1>1. SUFFICES ASSUME Balanced(n)
               PROVE  /\ TreeRemove(n, k) # Crash
                      /\ Shrunk(TreeRemove(n, k), n)
                      /\ Deep(n, k) \/ SomeLeaning(n) \/ Balanced(TreeRemove(n, k))
  BY DEF RemoveLevels
<1>2. /\ IsNode(n) /\ <<n.key, n.value>> \in F
      /\ Search(n.left, Below(F, n.key)) /\ Search(n.right, Above(F, n.key))
  BY SplitOver DEF Over
<1>3. n.key \in Int
  BY <1>2, EntriesKeys
<1>4. Good(n) /\ Balanced(n.left) /\ Balanced(n.right)
  BY <1>1, BalancedParts
<1>5. GoodTwo(n.left) /\ GoodTwo(n.right) /\ n.left # Crash /\ n.right # Crash
  BY <1>2, <1>4, BalancedTwo, SearchHeight
<1>6. TreeRemove(n, k) = TreeRemoveStep(n, TreeRemove(n.left, k), TreeRemove(n.right, k), k)
  BY TreeRemoveTurn
<1>7. TreeRemove(n, k) # Crash => \E U : Search(TreeRemove(n, k), U)
  BY TreeRemoveFits DEF RemoveFits, Fits
<1>8. /\ SomeLeaning(n.left) \/ SomeLeaning(n.right) => SomeLeaning(n)
      /\ Leaning(n) => SomeLeaning(n)
  BY LeaningParts
<1>9. CASE k < n.key
  <2> DEFINE l == TreeRemove(n.left, k)
             c == [n EXCEPT !.left = l]
             m == TreeRemove(n, k)
  <2>1. m = Rebuilt(c)
    BY <1>6, <1>9 DEF TreeRemoveStep
  <2>2. l # Crash /\ Shrunk(l, n.left) /\ (Deep(n.left, k) \/ SomeLeaning(n.left) \/ Balanced(l))
    BY <1>4 DEF RemoveLevels
  <2>3. PICK U : Search(l, U)
    BY <1>2, <2>2, TreeRemoveFits DEF RemoveFits, Fits
  <2> HIDE DEF l
  <2>4. m = node_rebalance(c) /\ LeftOf(c, n, l)
    BY <1>2, <1>5, <2>1, <2>2, SubtreeLinked
  <2>5. Height(l) \in Nat
    BY <2>3, SearchHeight
  <2> HIDE DEF c, m
  <2>6. Settled(m, c) /\ Shrunk(m, n) /\ (Good(l) => Restored(m, c))
    BY <1>4, <1>5, <2>2, <2>4, <2>5, ShrunkLeft
  <2>7. m \notin {Nil, Crash}
    BY <2>6 DEF Settled
  <2>8. PICK G : Search(m, G)
    BY <1>7, <2>7 DEF m
  <2>9. c.left = l /\ c.right = n.right
    BY <2>4 DEF LeftOf
  <2>10. Balanced(l) => Balanced(m)
    <3>1. Balanced(l) => Restored(m, c)
      BY <2>3, <2>6, BalancedGood
    <3>2. QED
      BY <1>2, <1>4, <2>3, <2>7, <2>8, <2>9, <3>1, RestoredBalanced
  <2>11. Deep(n.left, k) => Deep(n, k)
    BY <1>3, <1>9, DeepParts
  <2>12. QED
    BY <1>8, <2>2, <2>6, <2>7, <2>10, <2>11 DEF m
<1>10. CASE k > n.key
  <2> DEFINE r == TreeRemove(n.right, k)
             c == [n EXCEPT !.right = r]
             m == TreeRemove(n, k)
  <2>1. m = Rebuilt(c)
    BY <1>3, <1>6, <1>10 DEF TreeRemoveStep
  <2>2. r # Crash /\ Shrunk(r, n.right) /\ (Deep(n.right, k) \/ SomeLeaning(n.right) \/ Balanced(r))
    BY <1>4 DEF RemoveLevels
  <2>3. PICK U : Search(r, U)
    BY <1>2, <2>2, TreeRemoveFits DEF RemoveFits, Fits
  <2> HIDE DEF r
  <2>4. m = node_rebalance(c) /\ RightOf(c, n, r)
    BY <1>2, <1>5, <2>1, <2>2, SubtreeLinked
  <2>5. Height(r) \in Nat
    BY <2>3, SearchHeight
  <2> HIDE DEF c, m
  <2>6. Settled(m, c) /\ Shrunk(m, n) /\ (Good(r) /\ ~Leaning(n) => Restored(m, c))
    BY <1>4, <1>5, <2>2, <2>4, <2>5, ShrunkRight
  <2>7. m \notin {Nil, Crash}
    BY <2>6 DEF Settled
  <2>8. PICK G : Search(m, G)
    BY <1>7, <2>7 DEF m
  <2>9. c.left = n.left /\ c.right = r
    BY <2>4 DEF RightOf
  <2>10. Balanced(r) /\ ~Leaning(n) => Balanced(m)
    <3>1. Balanced(r) /\ ~Leaning(n) => Restored(m, c)
      BY <2>3, <2>6, BalancedGood
    <3>2. QED
      BY <1>2, <1>4, <2>3, <2>7, <2>8, <2>9, <3>1, RestoredBalanced
  <2>11. Deep(n.right, k) => Deep(n, k)
    BY <1>3, <1>10, DeepParts
  <2>12. QED
    BY <1>8, <2>2, <2>6, <2>7, <2>10, <2>11 DEF m
<1>11. CASE k = n.key
  <2>1. TreeRemove(n, k) = node_rebalance(node_remove(n))
    BY <1>3, <1>6, <1>11 DEF TreeRemoveStep
  <2>2. Deep(n, k) <=> n.left # Nil /\ n.right # Nil /\ n.right.left # Nil
    BY <1>3, <1>11, DeepParts
  <2>3. QED
    BY <1>1, <2>1, <2>2, RemovedLevels
<1>12. QED
  BY <1>3, <1>9, <1>10, <1>11

\* A removal keeps every balanced search tree balanced, but for the two cases.
LEMMA TreeRemoveLevels ==
  ASSUME NEW t, NEW E, Search(t, E), NEW k \in Int
  PROVE  RemoveLevels(t, k)
<1> DEFINE Q == {n \in Trees(t) \cup {Nil} : \A F : Search(n, F) => RemoveLevels(n, k)}
<1>1. Nil \in Q
  BY TreeRemoveLevelsNil, SearchNil
<1>2. ASSUME NEW n \in Trees(t), n # Nil, n.left \in Q, n.right \in Q PROVE n \in Q
  <2>1. SUFFICES ASSUME NEW F, Search(n, F) PROVE RemoveLevels(n, k)
    OBVIOUS
  <2>2. Split(n, F) /\ Entries(F)
    BY <1>2, <2>1, SearchSplit, SearchEntries
  <2>3. RemoveLevels(n.left, k) /\ RemoveLevels(n.right, k)
    BY <1>2, <2>2 DEF Split
  <2>4. QED
    BY <1>2, <2>1, <2>2, <2>3, TreeRemoveLevelsStep
<1> HIDE DEF Q
<1>3. Inherits(t, Q)
  BY <1>1, <1>2 DEF Inherits
<1>4. t \in Q
  BY <1>3, TreeInduction
<1>5. QED
  BY <1>4 DEF Q

-----------------------------------------------------------------------------
\* The three action properties.

LEMMA PutBalances ==
  ASSUME MapInv, Balanced(root), NEW k \in Key, NEW v \in Val, Put(k, v)
  PROVE  Balanced(root') /\ ~crashed'
<1>1. ~crashed /\ SetRoot(TreePut(root, k, v))
  BY DEF Put, Usable
<1>2. PICK E : Search(root, E)
  BY <1>1 DEF MapInv, Rooted
<1>3. TreePut(root, k, v) # Crash /\ Balanced(TreePut(root, k, v))
  BY <1>2, TreePutLevels DEF PutLevels
<1>4. root' = TreePut(root, k, v) /\ ~crashed'
  BY <1>1, <1>3 DEF SetRoot
<1>5. QED
  BY <1>3, <1>4

LEMMA RemoveBalances ==
  ASSUME MapInv, Balanced(root), NEW k \in Key, Remove(k)
  PROVE  ~crashed' /\ (DeepSuccessor(k) \/ SomeLeaning(root) \/ Balanced(root'))
<1>1. ~crashed /\ SetRoot(TreeRemove(root, k))
  BY DEF Remove, Usable
<1>2. PICK E : Search(root, E)
  BY <1>1 DEF MapInv, Rooted
<1>3. k \in Int
  BY KeyAssumption
<1>4. /\ TreeRemove(root, k) # Crash
      /\ Deep(root, k) \/ SomeLeaning(root) \/ Balanced(TreeRemove(root, k))
  BY <1>2, <1>3, TreeRemoveLevels DEF RemoveLevels
<1>5. root' = TreeRemove(root, k) /\ ~crashed'
  BY <1>1, <1>4 DEF SetRoot
<1>6. DeepSuccessor(k) <=> Deep(root, k)
  BY DEF DeepSuccessor, Deep
<1>7. QED
  BY <1>4, <1>5, <1>6

\* vial_map_put leaves a balanced tree balanced, whatever the key.
THEOREM PutKeepsBalanceHolds == Spec => PutKeepsBalance
<1>1. MapInv /\ [Next]_vars =>
        [Balanced(root) /\ ~Balanced(root') => \A k \in Key, v \in Val : ~Put(k, v)]_vars
  BY PutBalances
<1>2. QED
  BY <1>1, MapInvHolds, PTL DEF Spec, PutKeepsBalance

\* vial_map_remove leaves a balanced tree balanced unless it unlinks a successor from below the
\* right child, or a node leans.
THEOREM RemoveKeepsBalanceHolds == Spec => RemoveKeepsBalance
<1>1. MapInv /\ [Next]_vars =>
        [Balanced(root) /\ ~Balanced(root') =>
           \A k \in Key : Remove(k) => DeepSuccessor(k) \/ SomeLeaning(root)]_vars
  BY RemoveBalances
<1>2. QED
  BY <1>1, MapInvHolds, PTL DEF Spec, RemoveKeepsBalance

\* No rotation of a balanced tree follows a NULL pointer.
THEOREM BalancedNeverCrashesHolds == Spec => BalancedNeverCrashes
<1>1. MapInv /\ [Next]_vars => [Balanced(root) => ~crashed']_vars
  <2>1. SUFFICES ASSUME MapInv, Next, Balanced(root) PROVE ~crashed'
    OBVIOUS
  <2>2. ASSUME NEW k \in Key, NEW v \in Val, Put(k, v) PROVE ~crashed'
    BY <2>1, <2>2, PutBalances
  <2>3. ASSUME NEW k \in Key, Remove(k) PROVE ~crashed'
    BY <2>1, <2>3, RemoveBalances
  <2>4. ASSUME Dispose PROVE ~crashed'
    BY <2>4 DEF Dispose, Usable
  <2>5. ASSUME Reinit PROVE ~crashed'
    BY <2>1, <2>5 DEF Reinit, MapInv
  <2>6. QED
    BY <2>1, <2>2, <2>3, <2>4, <2>5 DEF Next
<1>2. QED
  BY <1>1, MapInvHolds, PTL DEF Spec, BalancedNeverCrashes

=============================================================================
