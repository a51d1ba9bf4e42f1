----------------------------- MODULE JsonProofs -----------------------------
(***************************************************************************)
(* Proofs about JSON.  Of its values (JsonHeap), for any number of         *)
(* threads, addresses and references: the counts are exact in the middle   *)
(* of every cascade, every block is disposed of once, and nothing leaks.   *)
(* Of its decoder (JsonParser), for any text and any deepest level: what   *)
(* it has allocated belongs to the containers it is in or to its result.   *)
(***************************************************************************)
EXTENDS JsonHeap, JsonParser, OperatorProofs

-----------------------------------------------------------------------------
\* Places.  A store is a finite number of tables, each with a finite number of values.

Only(v, n, x) == IF x = v THEN n ELSE 0
IsTable(values) == IsFiniteSet(DOMAIN values)
IsStore(store) == IsFiniteSet(DOMAIN store) /\ \A o \in DOMAIN store : IsTable(store[o])

\* How often x is in a table.
InTable(values, x) == Cardinality(Places(values, x))

\* The places of x in the tables of a store, and how many there are.
Of(o, values, x) == {<<o, i>> : i \in Places(values, x)}
Spots(store, x) == UNION {Of(o, store[o], x) : o \in DOMAIN store}
InStore(store, x) == Cardinality(Spots(store, x))

\* How often x is in the table that a store has for o, if it has one.
At(store, o, x) == IF o \in DOMAIN store THEN InTable(store[o], x) ELSE 0

LEMMA Tagging ==
  ASSUME NEW P, IsFiniteSet(P), NEW o
  PROVE  LET T == {<<o, i>> : i \in P}
         IN  IsFiniteSet(T) /\ Cardinality(T) = Cardinality(P)
<1> DEFINE T == {<<o, i>> : i \in P}
           tag == [i \in P |-> <<o, i>>]
<1>1. tag \in Bijection(P, T)
  <2>1. tag \in [P -> T]
    OBVIOUS
  <2>2. \A i, j \in P : tag[i] = tag[j] => i = j
    OBVIOUS
  <2>3. \A e \in T : \E i \in P : tag[i] = e
    OBVIOUS
  <2> HIDE DEF T, tag
  <2>4. QED
    BY <2>1, <2>2, <2>3 DEF Bijection, Injection, Surjection, IsInjective
<1>2. ExistsBijection(P, T)
  BY <1>1 DEF ExistsBijection
<1> HIDE DEF T
<1>3. IsFiniteSet(T) /\ Cardinality(T) = Cardinality(P)
  BY <1>2, FS_Bijection
<1>4. QED
  BY <1>3 DEF T

LEMMA TableCount ==
  ASSUME NEW values, IsTable(values), NEW x, NEW o
  PROVE  /\ IsFiniteSet(Places(values, x))
         /\ InTable(values, x) \in Nat
         /\ IsFiniteSet(Of(o, values, x))
         /\ Cardinality(Of(o, values, x)) = InTable(values, x)
<1>1. IsFiniteSet(Places(values, x))
  BY FS_Subset DEF Places, IsTable
<1>2. QED
  BY <1>1, Tagging, FS_CardinalityType DEF Of, InTable

\* One place of a table changes, or comes, or goes.
Slot(values, k, x) == IF k \in DOMAIN values /\ values[k] = x THEN 1 ELSE 0

LEMMA TableChange ==
  ASSUME NEW values, IsTable(values), NEW new, IsTable(new), NEW k,
         \A j : j # k => /\ j \in DOMAIN values <=> j \in DOMAIN new
                         /\ j \in DOMAIN values => new[j] = values[j],
         NEW x
  PROVE  InTable(new, x) = InTable(values, x) - Slot(values, k, x) + Slot(new, k, x)
<1>1. IsFiniteSet(Places(values, x)) /\ IsFiniteSet(Places(new, x))
  BY TableCount
<1>2. Cardinality(Places(values, x) \ {k}) = Cardinality(Places(new, x) \ {k})
  <2>1. Places(values, x) \ {k} = Places(new, x) \ {k}
    BY DEF Places
  <2>2. QED
    BY <2>1, Zenon
<1>3. ASSUME NEW v, IsTable(v)
      PROVE  /\ InTable(v, x) = Cardinality(Places(v, x) \ {k}) + Slot(v, k, x)
             /\ Cardinality(Places(v, x) \ {k}) \in Nat
  <2>1. IsFiniteSet(Places(v, x)) /\ InTable(v, x) \in Nat
    BY <1>3, TableCount
  <2>2. /\ Cardinality(Places(v, x) \ {k}) =
             IF k \in Places(v, x) THEN Cardinality(Places(v, x)) - 1 ELSE Cardinality(Places(v, x))
        /\ IsFiniteSet(Places(v, x) \ {k})
    BY <2>1, FS_RemoveElement
  <2>3. k \in Places(v, x) <=> k \in DOMAIN v /\ v[k] = x
    BY DEF Places
  <2>4. Cardinality(Places(v, x) \ {k}) \in Nat
    BY <2>2, FS_CardinalityType
  <2>5. QED
    BY <2>1, <2>2, <2>3, <2>4 DEF InTable, Slot
<1>4. Slot(values, k, x) \in Nat /\ Slot(new, k, x) \in Nat
  BY DEF Slot
<1>5. /\ InTable(values, x) = Cardinality(Places(values, x) \ {k}) + Slot(values, k, x)
      /\ InTable(new, x) = Cardinality(Places(new, x) \ {k}) + Slot(new, k, x)
      /\ Cardinality(Places(values, x) \ {k}) \in Nat
  BY <1>3
<1>6. QED
  BY <1>2, <1>4, <1>5

LEMMA DisjointUnion ==
  ASSUME NEW S, NEW T, IsFiniteSet(S), IsFiniteSet(T), S \cap T = {}
  PROVE  /\ Cardinality(S \cup T) = Cardinality(S) + Cardinality(T)
         /\ Cardinality(S) \in Nat /\ Cardinality(T) \in Nat
<1>1. Cardinality(S \cap T) = 0
  BY FS_EmptySet
<1>2. Cardinality(S) \in Nat /\ Cardinality(T) \in Nat
  BY FS_CardinalityType
<1>3. Cardinality(S \cup T) = Cardinality(S) + Cardinality(T) - Cardinality(S \cap T)
  BY FS_Union
<1>4. QED
  BY <1>1, <1>2, <1>3

LEMMA StoreCount ==
  ASSUME NEW store, IsStore(store), NEW x
  PROVE  IsFiniteSet(Spots(store, x)) /\ InStore(store, x) \in Nat
<1> DEFINE D == DOMAIN store
           sets == {Of(o, store[o], x) : o \in D}
           of == [o \in D |-> Of(o, store[o], x)]
<1>1. of \in Surjection(D, sets)
  BY DEF Surjection
<1>2. IsFiniteSet(sets)
  <2> HIDE DEF D, sets, of
  <2>1. IsFiniteSet(D)
    BY DEF IsStore, D
  <2>2. QED
    BY <1>1, <2>1, FS_Surjection
<1>3. \A s \in sets : IsFiniteSet(s)
  BY TableCount DEF IsStore
<1>4. IsFiniteSet(UNION sets)
  BY <1>2, <1>3, FS_UNION
<1>5. QED
  BY <1>4, FS_CardinalityType DEF Spots, InStore

\* One table of a store changes, or comes, or goes.
LEMMA StoreChange ==
  ASSUME NEW store, IsStore(store), NEW new, IsStore(new), NEW o,
         \A p : p # o => /\ p \in DOMAIN store <=> p \in DOMAIN new
                         /\ p \in DOMAIN store => new[p] = store[p],
         NEW x
  PROVE  /\ InStore(new, x) = InStore(store, x) - At(store, o, x) + At(new, o, x)
         /\ InStore(store, x) \in Nat /\ At(store, o, x) \in Nat /\ At(new, o, x) \in Nat
<1> DEFINE Own(s) == IF o \in DOMAIN s THEN Of(o, s[o], x) ELSE {}
           Rest(s) == {e \in Spots(s, x) : e[1] # o}
<1>1. ASSUME NEW s, IsStore(s)
      PROVE  /\ InStore(s, x) = Cardinality(Rest(s)) + At(s, o, x)
             /\ Cardinality(Rest(s)) \in Nat /\ At(s, o, x) \in Nat
  <2>1. Spots(s, x) = Rest(s) \cup Own(s)
    BY DEF Spots, Of
  <2>2. Rest(s) \cap Own(s) = {}
    BY DEF Of
  <2>3. IsFiniteSet(Rest(s))
    BY <1>1, StoreCount, FS_Subset
  <2>4. IsFiniteSet(Own(s)) /\ Cardinality(Own(s)) = At(s, o, x) /\ At(s, o, x) \in Nat
    BY <1>1, TableCount, FS_EmptySet DEF IsStore, At
  <2> HIDE DEF Own, Rest
  <2>5. /\ Cardinality(Rest(s) \cup Own(s)) = Cardinality(Rest(s)) + Cardinality(Own(s))
        /\ Cardinality(Rest(s)) \in Nat
    BY <2>2, <2>3, <2>4, DisjointUnion
  <2>6. QED
    BY <2>1, <2>4, <2>5 DEF InStore
<1>2. Rest(store) = Rest(new)
  <2>1. ASSUME NEW e PROVE e \in Rest(store) <=> e \in Rest(new)
    <3>1. ASSUME NEW s
          PROVE  e \in Rest(s) <=>
                   \E p \in DOMAIN s : p # o /\ \E i \in Places(s[p], x) : e = <<p, i>>
      BY DEF Spots, Of
    <3> HIDE DEF Rest
    <3>2. QED
      BY <3>1
  <2>2. QED
    BY <2>1
<1> HIDE DEF Rest
<1>3. QED
  BY <1>1, <1>2

-----------------------------------------------------------------------------
\* The invariant, said of a heap bl, what h clients hold, stacks st and lost references lo, so
\* that the lemmas speak of the state before a step as of the one after it.

Keyed == UNION {[K -> Value] : K \in {K \in SUBSET Key : IsFiniteSet(K)}}

\* What a frame has still to leave.
Rests == UNION {[D -> Value] : D \in {D \in SUBSET (Nat \cup Key) : IsFiniteSet(D)}}
Frame == [block : Value, rest : Rests]

LiveIn(bl) == {a \in Addr : bl[a] # Free}
Shaped(bl) ==
  \A a \in LiveIn(bl) :
    /\ bl[a].type = "array" => bl[a].values \in Seq(Value)
    /\ bl[a].type = "object" => bl[a].values \in Keyed
Heap == {bl \in [Addr -> Content \cup {Free}] : Shaped(bl)}
Counts == [Addr -> Nat]

\* The frames of the stacks, the blocks they dispose of and what they have to leave.
FramesIn(st) == UNION {{<<t, i>> : i \in 1..Len(st[t])} : t \in Thread}
BlockIn(st, f) == st[f[1]][f[2]].block
DyingIn(st) == {BlockIn(st, f) : f \in FramesIn(st)} \ {Scalar}
RestsIn(st) == [f \in FramesIn(st) |-> st[f[1]][f[2]].rest]

\* The blocks nobody is disposing of, and what is in them.
BlocksIn(bl, st) == LiveIn(bl) \ DyingIn(st)
ValuesIn(bl, B) == [b \in B |-> bl[b].values]
HeldIn(h, x) == SumFunctionOnSet([t \in Thread |-> h[t][x]], Thread)

Typed(bl, h, st, lo) ==
  bl \in Heap /\ h \in [Thread -> Counts] /\ st \in [Thread -> Seq(Frame)] /\ lo \in Counts

Total(bl, h, st, lo, x) ==
  HeldIn(h, x) + InStore(ValuesIn(bl, BlocksIn(bl, st)), x) + InStore(RestsIn(st), x) + lo[x]

Exact(bl, h, st, lo) ==
  \A x \in Addr :
    /\ Total(bl, h, st, lo, x) = IF x \in BlocksIn(bl, st) THEN bl[x].count ELSE 0
    /\ x \in LiveIn(bl) => bl[x].count > 0

\* Every frame disposes of a block of its own, which is allocated.
Distinct(st) ==
  \A f, g \in FramesIn(st) : BlockIn(st, f) = BlockIn(st, g) /\ BlockIn(st, f) # Scalar => f = g
OwnFrames(bl, st) == Distinct(st) /\ DyingIn(st) \subseteq LiveIn(bl)

Good(bl, h, st, lo) == Typed(bl, h, st, lo) /\ Exact(bl, h, st, lo) /\ OwnFrames(bl, st)
Inv == Good(block, held, stack, lost)

LEMMA StateIs ==
  /\ Live = LiveIn(block) /\ Frames = FramesIn(stack) /\ Dying = DyingIn(stack)
  /\ \A f : FrameOf(f).block = BlockIn(stack, f)
BY DEF Live, LiveIn, Frames, FramesIn, Dying, DyingIn, FrameOf, BlockIn

LEMMA ReferencesCounted ==
  \A x : References(x) = Total(block, held, stack, lost, x)
<1> SUFFICES ASSUME NEW x
             PROVE  References(x) = Total(block, held, stack, lost, x)
  OBVIOUS
<1>1. Spots(ValuesIn(block, BlocksIn(block, stack)), x) =
        UNION {{<<b, i>> : i \in Places(block[b].values, x)} : b \in Live \ Dying}
  BY StateIs DEF Spots, Of, ValuesIn, BlocksIn
<1>2. Spots(RestsIn(stack), x) =
        UNION {{<<f, i>> : i \in Places(FrameOf(f).rest, x)} : f \in Frames}
  <2>1. DOMAIN RestsIn(stack) = Frames /\ \A f \in Frames : RestsIn(stack)[f] = FrameOf(f).rest
    BY StateIs, Zenon DEF RestsIn, FrameOf
  <2>2. QED
    BY <2>1 DEF Spots, Of
<1>3. QED
  BY <1>1, <1>2 DEF References, Total, InStore, HeldIn

LEMMA InvIsExact == Inv => CountsExact
BY ReferencesCounted, StateIs DEF Inv, Good, Exact, CountsExact, BlocksIn

-----------------------------------------------------------------------------
\* The tables of blocks and frames.
LEMMA RestIsTable ==
  ASSUME NEW r \in Rests
  PROVE  /\ IsTable(r) /\ DOMAIN r \subseteq Nat \cup Key
         /\ \A i \in DOMAIN r : r[i] \in Value
BY DEF Rests, IsTable

LEMMA TableIsRest ==
  ASSUME NEW D, IsFiniteSet(D), D \subseteq Nat \cup Key, NEW r \in [D -> Value]
  PROVE  r \in Rests
BY DEF Rests

LEMMA TablesAreRests == Tables \subseteq Rests
<1>1. ASSUME NEW s \in Seq(Value) PROVE s \in Rests
  <2>1. s \in [1..Len(s) -> Value] /\ Len(s) \in Nat
    OBVIOUS
  <2>2. IsFiniteSet(1..Len(s)) /\ 1..Len(s) \subseteq Nat \cup Key
    BY <2>1, FS_Interval
  <2>3. QED
    BY <2>1, <2>2, TableIsRest
<1>2. ASSUME NEW K \in SUBSET Key, IsFiniteSet(K), NEW r \in [K -> Value] PROVE r \in Rests
  BY <1>2, TableIsRest
<1>3. QED
  BY <1>1, <1>2 DEF Tables

LEMMA HeapContent ==
  ASSUME NEW bl \in Heap, NEW a \in LiveIn(bl)
  PROVE  /\ a \in Addr /\ bl[a] \in Content /\ bl[a] # Free
         /\ bl[a].count \in Nat /\ bl[a].type \in Kind /\ bl[a].values \in Tables
         /\ bl[a].type = "array" => bl[a].values \in Seq(Value)
         /\ bl[a].type = "object" => bl[a].values \in Keyed
         /\ bl[a].values \in Rests /\ IsTable(bl[a].values)
         /\ \A i \in DOMAIN bl[a].values : bl[a].values[i] \in Value
<1>1. a \in Addr /\ bl[a] \in Content /\ bl[a] # Free
  BY DEF Heap, LiveIn
<1>2. bl[a].count \in Nat /\ bl[a].type \in Kind /\ bl[a].values \in Tables
  BY <1>1 DEF Content
<1>3. /\ bl[a].type = "array" => bl[a].values \in Seq(Value)
      /\ bl[a].type = "object" => bl[a].values \in Keyed
  <2>1. Shaped(bl)
    BY DEF Heap
  <2>2. QED
    BY <2>1, Zenon DEF Shaped
<1>4. QED
  BY <1>1, <1>2, <1>3, TablesAreRests, RestIsTable

-----------------------------------------------------------------------------
\* Stacks.

LEMMA FramesAre ==
  ASSUME NEW st
  PROVE  \A f : f \in FramesIn(st) <=> \E t \in Thread : \E i \in 1..Len(st[t]) : f = <<t, i>>
BY DEF FramesIn

LEMMA FrameTypes ==
  ASSUME NEW st \in [Thread -> Seq(Frame)], NEW t \in Thread, NEW i \in 1..Len(st[t])
  PROVE  /\ <<t, i>> \in FramesIn(st)
         /\ st[t][i].block \in Value /\ st[t][i].rest \in Rests
         /\ IsTable(st[t][i].rest)
         /\ \A j \in DOMAIN st[t][i].rest : st[t][i].rest[j] \in Value
<1>1. st[t][i] \in Frame
  OBVIOUS
<1>2. st[t][i].block \in Value /\ st[t][i].rest \in Rests
  BY <1>1 DEF Frame
<1>3. QED
  BY <1>2, RestIsTable, FramesAre

LEMMA RestsAreStore ==
  ASSUME NEW st \in [Thread -> Seq(Frame)]
  PROVE  IsStore(RestsIn(st)) /\ IsFiniteSet(FramesIn(st))
<1>1. IsFiniteSet(FramesIn(st))
  <2> DEFINE Own(t) == {<<t, i>> : i \in 1..Len(st[t])}
  <2>1. \A t \in Thread : IsFiniteSet(Own(t))
    <3>1. \A t \in Thread : IsFiniteSet(1..Len(st[t]))
      BY FS_Interval
    <3>2. QED
      BY <3>1, Tagging
  <2>2. FramesIn(st) = UNION {Own(t) : t \in Thread}
    BY DEF FramesIn
  <2> HIDE DEF Own
  <2> DEFINE sets == {Own(t) : t \in Thread}
             of == [t \in Thread |-> Own(t)]
  <2>3. of \in Surjection(Thread, sets)
    BY DEF Surjection
  <2>4. \A s \in sets : IsFiniteSet(s)
    BY <2>1
  <2>5. FramesIn(st) = UNION sets
    BY <2>2
  <2> HIDE DEF sets, of
  <2>6. IsFiniteSet(sets)
    BY <2>3, FiniteAssumption, FS_Surjection
  <2>7. QED
    BY <2>4, <2>5, <2>6, FS_UNION
<1>2. \A f \in FramesIn(st) : IsTable(st[f[1]][f[2]].rest)
  BY FramesAre, FrameTypes
<1>3. QED
  BY <1>1, <1>2 DEF IsStore, RestsIn

LEMMA FrontOf ==
  ASSUME NEW S, NEW s \in Seq(S), NEW m \in Nat, m <= Len(s)
  PROVE  LET f == SubSeq(s, 1, m)
         IN  f \in Seq(S) /\ Len(f) = m /\ \A i \in 1..m : f[i] = s[i]
OBVIOUS

\* The frame o changes, or comes, or goes, and no other.
OnlyFrame(st, nx, o) ==
  /\ \A p : p # o => /\ p \in FramesIn(st) <=> p \in FramesIn(nx)
                     /\ p \in FramesIn(st) => nx[p[1]][p[2]] = st[p[1]][p[2]]
  /\ \A x : /\ InStore(RestsIn(nx), x) =
                 InStore(RestsIn(st), x) - At(RestsIn(st), o, x) + At(RestsIn(nx), o, x)
            /\ InStore(RestsIn(st), x) \in Nat
            /\ At(RestsIn(st), o, x) \in Nat /\ At(RestsIn(nx), o, x) \in Nat

LEMMA StackChange ==
  ASSUME NEW st \in [Thread -> Seq(Frame)], NEW nx \in [Thread -> Seq(Frame)],
         NEW t \in Thread, NEW n \in Nat,
         \A u \in Thread \ {t} : nx[u] = st[u],
         \A i \in Nat \ {n} : /\ i \in 1..Len(st[t]) <=> i \in 1..Len(nx[t])
                              /\ i \in 1..Len(st[t]) => nx[t][i] = st[t][i]
  PROVE  /\ <<t, n>> \in FramesIn(st) <=> n \in 1..Len(st[t])
         /\ <<t, n>> \in FramesIn(nx) <=> n \in 1..Len(nx[t])
         /\ OnlyFrame(st, nx, <<t, n>>)
<1> DEFINE o == <<t, n>>
<1>1. IsStore(RestsIn(st)) /\ IsStore(RestsIn(nx))
  BY RestsAreStore
<1>2. ASSUME NEW p, p # o
      PROVE  /\ p \in FramesIn(st) <=> p \in FramesIn(nx)
             /\ p \in FramesIn(st) => nx[p[1]][p[2]] = st[p[1]][p[2]]
  <2>1. ASSUME NEW u \in Thread, NEW i \in Nat, p = <<u, i>>
        PROVE  /\ i \in 1..Len(st[u]) <=> i \in 1..Len(nx[u])
               /\ i \in 1..Len(st[u]) => nx[u][i] = st[u][i]
    <3>1. CASE u # t
      BY <3>1
    <3>2. CASE u = t
      BY <1>2, <2>1, <3>2
    <3>3. QED
      BY <3>1, <3>2
  <2>2. \A u \in Thread : Len(st[u]) \in Nat /\ Len(nx[u]) \in Nat
    OBVIOUS
  <2>3. QED
    BY <2>1, <2>2, FramesAre
<1>3. \A p : p # o => /\ p \in DOMAIN RestsIn(st) <=> p \in DOMAIN RestsIn(nx)
                      /\ p \in DOMAIN RestsIn(st) => RestsIn(nx)[p] = RestsIn(st)[p]
  BY <1>2 DEF RestsIn
<1>4. ASSUME NEW s \in [Thread -> Seq(Frame)]
      PROVE  o \in FramesIn(s) <=> n \in 1..Len(s[t])
  BY FramesAre
<1>5. o \in FramesIn(st) <=> n \in 1..Len(st[t])
  BY <1>4
<1>6. o \in FramesIn(nx) <=> n \in 1..Len(nx[t])
  BY <1>4
<1> HIDE DEF o
<1>7. ASSUME NEW x
      PROVE  /\ InStore(RestsIn(nx), x) =
                  InStore(RestsIn(st), x) - At(RestsIn(st), o, x) + At(RestsIn(nx), o, x)
             /\ InStore(RestsIn(st), x) \in Nat
             /\ At(RestsIn(st), o, x) \in Nat /\ At(RestsIn(nx), o, x) \in Nat
  BY <1>1, <1>3, StoreChange
<1>8. QED
  BY <1>2, <1>5, <1>6, <1>7 DEF o, OnlyFrame

\* A call begins: a frame is pushed.  It returns: the frame on top goes.
Pushed(st, nx, fr) ==
  /\ nx \in [Thread -> Seq(Frame)]
  /\ DyingIn(nx) = DyingIn(st) \cup ({fr.block} \ {Scalar})
  /\ Distinct(st) /\ fr.block \notin DyingIn(st) => Distinct(nx)
  /\ \A x : InStore(RestsIn(nx), x) = InStore(RestsIn(st), x) + InTable(fr.rest, x)

Dropped(st, nx, fr) ==
  /\ nx \in [Thread -> Seq(Frame)] /\ fr \in Frame
  /\ DyingIn(nx) = DyingIn(st) \ {fr.block}
  /\ fr.block # Scalar => fr.block \in DyingIn(st)
  /\ Distinct(nx)
  /\ \A x : /\ InStore(RestsIn(st), x) = InStore(RestsIn(nx), x) + InTable(fr.rest, x)
            /\ InStore(RestsIn(st), x) \in Nat /\ InTable(fr.rest, x) \in Nat

LEMMA StackPush ==
  ASSUME NEW st \in [Thread -> Seq(Frame)], NEW t \in Thread, NEW fr \in Frame,
         NEW nx, nx = [st EXCEPT ![t] = Append(st[t], fr)]
  PROVE  Pushed(st, nx, fr)
<1> DEFINE n == Len(st[t]) + 1
           o == <<t, n>>
<1>1. /\ nx \in [Thread -> Seq(Frame)] /\ n \in Nat
      /\ nx[t] = Append(st[t], fr) /\ \A u \in Thread \ {t} : nx[u] = st[u]
      /\ Len(nx[t]) = n /\ nx[t][n] = fr /\ Len(st[t]) \in Nat
      /\ \A i \in 1..Len(st[t]) : nx[t][i] = st[t][i]
  OBVIOUS
<1>2. n \in 1..Len(nx[t]) /\ n \notin 1..Len(st[t])
  BY <1>1
<1>3. \A i \in Nat \ {n} : /\ i \in 1..Len(st[t]) <=> i \in 1..Len(nx[t])
                           /\ i \in 1..Len(st[t]) => nx[t][i] = st[t][i]
  BY <1>1
<1> HIDE DEF n
<1>4. /\ o \notin FramesIn(st) /\ o \in FramesIn(nx) /\ OnlyFrame(st, nx, o)
  BY <1>1, <1>2, <1>3, StackChange
<1>5. nx[o[1]][o[2]] = fr
  BY <1>1
<1> HIDE DEF o
<1>6. /\ BlockIn(nx, o) = fr.block
      /\ \A p \in FramesIn(st) : BlockIn(nx, p) = BlockIn(st, p)
      /\ \A p : p \in FramesIn(nx) <=> p \in FramesIn(st) \/ p = o
  BY <1>4, <1>5 DEF BlockIn, OnlyFrame
<1>7. DyingIn(nx) = DyingIn(st) \cup ({fr.block} \ {Scalar})
  BY <1>6 DEF DyingIn
<1>8. ASSUME Distinct(st), fr.block \notin DyingIn(st) PROVE Distinct(nx)
  <2>1. ASSUME NEW p \in FramesIn(st), BlockIn(st, p) # Scalar PROVE BlockIn(st, p) # fr.block
    BY <1>8, <2>1 DEF DyingIn
  <2>2. SUFFICES ASSUME NEW f \in FramesIn(nx), NEW g \in FramesIn(nx),
                        BlockIn(nx, f) = BlockIn(nx, g), BlockIn(nx, f) # Scalar
                 PROVE  f = g
    BY DEF Distinct
  <2>3. CASE f = o /\ g = o
    BY <2>3
  <2>4. CASE f # o /\ g # o
    BY <1>6, <1>8, <2>2, <2>4 DEF Distinct
  <2>5. CASE f # o /\ g = o
    BY <1>6, <2>1, <2>2, <2>5
  <2>6. CASE f = o /\ g # o
    BY <1>6, <2>1, <2>2, <2>6
  <2>7. QED
    BY <2>3, <2>4, <2>5, <2>6
<1>9. ASSUME NEW x
      PROVE  InStore(RestsIn(nx), x) = InStore(RestsIn(st), x) + InTable(fr.rest, x)
  <2>1. At(RestsIn(st), o, x) = 0 /\ At(RestsIn(nx), o, x) = InTable(fr.rest, x)
    BY <1>4, <1>5 DEF At, RestsIn
  <2>2. /\ InStore(RestsIn(nx), x) =
             InStore(RestsIn(st), x) - At(RestsIn(st), o, x) + At(RestsIn(nx), o, x)
        /\ InStore(RestsIn(st), x) \in Nat /\ At(RestsIn(nx), o, x) \in Nat
    BY <1>4 DEF OnlyFrame
  <2>3. QED
    BY <2>1, <2>2
<1>10. QED
  BY <1>1, <1>7, <1>8, <1>9 DEF Pushed

LEMMA StackDrop ==
  ASSUME NEW st \in [Thread -> Seq(Frame)], NEW t \in Thread, st[t] # <<>>, Distinct(st),
         NEW fr, fr = st[t][Len(st[t])],
         NEW nx, nx = [st EXCEPT ![t] = SubSeq(st[t], 1, Len(st[t]) - 1)]
  PROVE  Dropped(st, nx, fr)
<1> DEFINE n == Len(st[t])
           o == <<t, n>>
<1>1. n \in Nat \ {0} /\ fr \in Frame /\ st[t] \in Seq(Frame)
  OBVIOUS
<1>2. /\ SubSeq(st[t], 1, n - 1) \in Seq(Frame) /\ Len(SubSeq(st[t], 1, n - 1)) = n - 1
      /\ \A i \in 1..(n - 1) : SubSeq(st[t], 1, n - 1)[i] = st[t][i]
  <2>1. n - 1 \in Nat /\ n - 1 <= Len(st[t])
    BY <1>1
  <2> DEFINE m == n - 1
  <2> HIDE DEF n, m
  <2>2. m \in Nat /\ m <= Len(st[t])
    BY <2>1 DEF m
  <2>3. QED
    BY <1>1, <2>2, FrontOf DEF m
<1>3. /\ nx \in [Thread -> Seq(Frame)]
      /\ nx[t] = SubSeq(st[t], 1, n - 1) /\ \A u \in Thread \ {t} : nx[u] = st[u]
  BY <1>2
<1>4. n \in 1..Len(st[t]) /\ n \notin 1..Len(nx[t])
  BY <1>1, <1>2, <1>3
<1>5. \A i \in Nat \ {n} : /\ i \in 1..Len(st[t]) <=> i \in 1..Len(nx[t])
                           /\ i \in 1..Len(st[t]) => nx[t][i] = st[t][i]
  BY <1>1, <1>2, <1>3
<1>6. st[o[1]][o[2]] = fr
  OBVIOUS
<1> HIDE DEF n
<1>7. /\ o \in FramesIn(st) /\ o \notin FramesIn(nx) /\ OnlyFrame(st, nx, o)
  BY <1>1, <1>3, <1>4, <1>5, StackChange, ZenonT(60)
<1> HIDE DEF o
<1>8. /\ BlockIn(st, o) = fr.block
      /\ \A p \in FramesIn(nx) : BlockIn(nx, p) = BlockIn(st, p) /\ p # o
      /\ \A p : p \in FramesIn(nx) \/ p = o <=> p \in FramesIn(st)
  BY <1>6, <1>7 DEF BlockIn, OnlyFrame
<1>9. \A p \in FramesIn(nx) : BlockIn(st, p) = fr.block => fr.block = Scalar
  BY <1>8 DEF Distinct
<1>10. DyingIn(nx) = DyingIn(st) \ {fr.block} /\ (fr.block # Scalar => fr.block \in DyingIn(st))
  BY <1>8, <1>9 DEF DyingIn
<1>11. Distinct(nx)
  <2>1. SUFFICES ASSUME NEW f \in FramesIn(nx), NEW g \in FramesIn(nx),
                        BlockIn(nx, f) = BlockIn(nx, g), BlockIn(nx, f) # Scalar
                 PROVE  f = g
    BY DEF Distinct
  <2>2. QED
    BY <1>8, <2>1 DEF Distinct
<1>12. ASSUME NEW x
       PROVE  /\ InStore(RestsIn(st), x) = InStore(RestsIn(nx), x) + InTable(fr.rest, x)
              /\ InStore(RestsIn(st), x) \in Nat /\ InTable(fr.rest, x) \in Nat
  <2>1. At(RestsIn(nx), o, x) = 0 /\ At(RestsIn(st), o, x) = InTable(fr.rest, x)
    BY <1>6, <1>7 DEF At, RestsIn
  <2>2. /\ InStore(RestsIn(nx), x) =
             InStore(RestsIn(st), x) - At(RestsIn(st), o, x) + At(RestsIn(nx), o, x)
        /\ InStore(RestsIn(st), x) \in Nat /\ At(RestsIn(st), o, x) \in Nat
    BY <1>7 DEF OnlyFrame
  <2>3. QED
    BY <2>1, <2>2
<1>13. QED
  BY <1>1, <1>3, <1>10, <1>11, <1>12 DEF Dropped

\* The frame on top changes what it has left.
Replaced(st, nx, old, new) ==
  /\ nx \in [Thread -> Seq(Frame)]
  /\ DyingIn(nx) = DyingIn(st) /\ Distinct(nx)
  /\ \A x : InStore(RestsIn(nx), x) = InStore(RestsIn(st), x) - InTable(old.rest, x) + InTable(new.rest, x)

LEMMA StackTop ==
  ASSUME NEW st \in [Thread -> Seq(Frame)], NEW t \in Thread, st[t] # <<>>, Distinct(st),
         NEW fr \in Frame, fr.block = st[t][Len(st[t])].block,
         NEW nx, nx = [st EXCEPT ![t] = Append(SubSeq(st[t], 1, Len(st[t]) - 1), fr)]
  PROVE  Replaced(st, nx, st[t][Len(st[t])], fr)
<1> DEFINE below == SubSeq(st[t], 1, Len(st[t]) - 1)
           top == st[t][Len(st[t])]
           mid == [st EXCEPT ![t] = below]
<1>1. Dropped(st, mid, top)
  BY StackDrop
<1>2. mid[t] = below /\ nx = [mid EXCEPT ![t] = Append(mid[t], fr)]
  OBVIOUS
<1>3. Scalar \notin DyingIn(st)
  BY DEF DyingIn
<1>4. fr.block = top.block
  OBVIOUS
<1> HIDE DEF mid, below, top
<1>5. Pushed(mid, nx, fr)
  BY <1>1, <1>2, StackPush DEF Dropped
<1>6. DyingIn(nx) = DyingIn(st) /\ Distinct(nx)
  BY <1>1, <1>3, <1>4, <1>5 DEF Dropped, Pushed
<1>7. ASSUME NEW x
      PROVE  InStore(RestsIn(nx), x) = InStore(RestsIn(st), x) - InTable(top.rest, x) + InTable(fr.rest, x)
  <2>1. InTable(fr.rest, x) \in Nat /\ InStore(RestsIn(mid), x) \in Nat
    BY <1>1, RestsAreStore, StoreCount, RestIsTable, TableCount DEF Frame, Dropped
  <2>2. /\ InStore(RestsIn(st), x) = InStore(RestsIn(mid), x) + InTable(top.rest, x)
        /\ InTable(top.rest, x) \in Nat
        /\ InStore(RestsIn(nx), x) = InStore(RestsIn(mid), x) + InTable(fr.rest, x)
    BY <1>1, <1>5 DEF Dropped, Pushed
  <2>3. QED
    BY <2>1, <2>2
<1>8. QED
  BY <1>5, <1>6, <1>7 DEF top, Pushed, Replaced

-----------------------------------------------------------------------------
\* Heaps.

LEMMA HeapIsStore ==
  ASSUME NEW bl \in Heap, NEW B \in SUBSET LiveIn(bl)
  PROVE  IsStore(ValuesIn(bl, B))
<1>1. IsFiniteSet(B)
  BY FiniteAssumption, FS_Subset DEF LiveIn
<1>2. QED
  BY <1>1, HeapContent DEF IsStore, ValuesIn

\* What is in a store is there at least once.
LEMMA InStoreSomewhere ==
  ASSUME NEW store, IsStore(store), NEW o \in DOMAIN store, NEW i \in DOMAIN store[o],
         NEW x, x = store[o][i]
  PROVE  InStore(store, x) \in Nat /\ InStore(store, x) > 0
<1>1. <<o, i>> \in Spots(store, x)
  BY DEF Spots, Of, Places
<1>2. IsFiniteSet(Spots(store, x)) /\ InStore(store, x) \in Nat
  BY StoreCount
<1>3. InStore(store, x) # 0
  BY <1>1, <1>2, FS_EmptySet DEF InStore
<1>4. QED
  BY <1>2, <1>3

LEMMA EmptyTable ==
  ASSUME NEW values, DOMAIN values = {}
  PROVE  IsTable(values) /\ \A x : InTable(values, x) = 0
BY FS_EmptySet DEF IsTable, InTable, Places

LEMMA SingleTable ==
  ASSUME NEW v \in Value
  PROVE  <<v>> \in Rests /\ \A x : InTable(<<v>>, x) = Only(v, 1, x)
<1>1. <<v>> \in Rests /\ IsTable(<<v>>)
  <2>1. <<v>> \in Seq(Value)
    OBVIOUS
  <2>2. <<v>> \in Tables
    BY <2>1 DEF Tables
  <2>3. QED
    BY <2>2, TablesAreRests, RestIsTable
<1>2. DOMAIN <<>> = {}
  OBVIOUS
<1>3. IsTable(<<>>) /\ \A x : InTable(<<>>, x) = 0
  BY <1>2, EmptyTable
<1>4. ASSUME NEW x PROVE InTable(<<v>>, x) = Only(v, 1, x)
  <2>1. InTable(<<v>>, x) = InTable(<<>>, x) - Slot(<<>>, 1, x) + Slot(<<v>>, 1, x)
    BY <1>1, <1>3, TableChange
  <2>2. Slot(<<>>, 1, x) = 0 /\ Slot(<<v>>, 1, x) = Only(v, 1, x) /\ Only(v, 1, x) \in Nat
    BY DEF Slot, Only
  <2>3. QED
    BY <1>3, <2>1, <2>2
<1>5. QED
  BY <1>1, <1>4

\* The parts of a count are numbers, and one client's references no more than all.
LEMMA PartsAreNumbers ==
  ASSUME NEW bl, NEW h, NEW st, NEW lo, Typed(bl, h, st, lo), NEW x \in Addr
  PROVE  /\ HeldIn(h, x) \in Nat /\ \A t \in Thread : h[t][x] \in Nat /\ h[t][x] <= HeldIn(h, x)
         /\ InStore(ValuesIn(bl, BlocksIn(bl, st)), x) \in Nat
         /\ InStore(RestsIn(st), x) \in Nat
         /\ lo[x] \in Nat
<1> DEFINE f == [t \in Thread |-> h[t][x]]
<1>1. \A t \in Thread : f[t] \in Nat
  BY DEF Typed, Counts
<1>2. SumFunctionOnSet(f, Thread) \in Nat
  BY <1>1, FiniteAssumption, SumType
<1>3. ASSUME NEW t \in Thread PROVE f[t] <= SumFunctionOnSet(f, Thread)
  <2>1. IsFiniteSet(Thread \ {t})
    BY FiniteAssumption, FS_Subset
  <2> HIDE DEF f
  <2>2. SumFunctionOnSet(f, Thread) = f[t] + SumFunctionOnSet(f, Thread \ {t}) /\ SumFunctionOnSet(f, Thread \ {t}) \in Nat /\ f[t] \in Nat
    BY <1>1, <2>1, FiniteAssumption, SumWithout, SumType
  <2>3. QED
    BY <2>2
<1>4. InStore(ValuesIn(bl, BlocksIn(bl, st)), x) \in Nat
  BY HeapIsStore, StoreCount DEF Typed, BlocksIn
<1>5. InStore(RestsIn(st), x) \in Nat
  BY RestsAreStore, StoreCount DEF Typed
<1>6. lo[x] \in Nat
  BY DEF Typed, Counts
<1>7. QED
  BY <1>1, <1>2, <1>3, <1>4, <1>5, <1>6 DEF HeldIn

-----------------------------------------------------------------------------
\* Changes to a heap and to what clients hold; a scalar has no count.

CountedIn(bl, v, n) == IF v = Scalar THEN bl ELSE [bl EXCEPT ![v].count = @ + n]
OwnedIn(h, t, v, n) == IF v = Scalar THEN h ELSE [h EXCEPT ![t][v] = @ + n]

HeldMoved(h, hx, v, n) ==
  /\ hx \in [Thread -> Counts]
  /\ \A x \in Addr : /\ HeldIn(hx, x) = HeldIn(h, x) + Only(v, n, x)
                     /\ HeldIn(h, x) \in Nat /\ Only(v, n, x) \in Int

CountsAre(bl, bx, v, n) ==
  LiveIn(bx) = LiveIn(bl) /\ \A x \in LiveIn(bl) : bx[x].count = bl[x].count + Only(v, n, x)

CountMoved(bl, bx, v, n) ==
  /\ bx \in Heap /\ LiveIn(bx) = LiveIn(bl)
  /\ \A a \in LiveIn(bl) : /\ bx[a].type = bl[a].type /\ bx[a].values = bl[a].values
                           /\ bx[a].count = bl[a].count + Only(v, n, a)
                           /\ bl[a].count \in Nat /\ Only(v, n, a) \in Int

ValuesMoved(bl, bx, a, new) ==
  /\ bx \in Heap /\ LiveIn(bx) = LiveIn(bl)
  /\ \A b \in LiveIn(bl) : bx[b].type = bl[b].type /\ bx[b].count = bl[b].count
  /\ bx[a].values = new
  /\ \A b \in LiveIn(bl) \ {a} : bx[b].values = bl[b].values

LEMMA HeldChange ==
  ASSUME NEW h \in [Thread -> Counts], NEW t \in Thread, NEW v \in Value, NEW n \in Int,
         v \in Addr => h[t][v] + n \in Nat
  PROVE  HeldMoved(h, OwnedIn(h, t, v, n), v, n)
<1>1. ASSUME NEW x \in Addr PROVE HeldIn(h, x) \in Nat
  <2>1. \A u \in Thread : h[u][x] \in Nat
    BY DEF Counts
  <2>2. QED
    BY <2>1, FiniteAssumption, SumType DEF HeldIn
<1>2. ASSUME NEW x \in Addr PROVE Only(v, n, x) \in Int
  BY DEF Only
<1>3. CASE v = Scalar
  <2>1. \A x \in Addr : Only(v, n, x) = 0
    BY <1>3, ScalarAssumption DEF Only
  <2>2. OwnedIn(h, t, v, n) = h
    BY <1>3 DEF OwnedIn
  <2>3. QED
    BY <1>1, <1>2, <2>1, <2>2 DEF HeldMoved
<1>4. CASE v # Scalar
  <2> DEFINE hx == OwnedIn(h, t, v, n)
  <2>1. v \in Addr /\ hx = [h EXCEPT ![t][v] = @ + n]
    BY <1>4 DEF Value, OwnedIn
  <2>2. h[t] \in [Addr -> Nat] /\ h[t][v] \in Nat /\ h[t][v] + n \in Nat
    BY <2>1 DEF Counts
  <2>3. hx \in [Thread -> Counts]
    BY <2>1, <2>2 DEF Counts
  <2>4. \A u \in Thread : \A x \in Addr :
          hx[u][x] = h[u][x] + (IF u = t THEN Only(v, n, x) ELSE 0) /\ h[u][x] \in Nat /\ hx[u][x] \in Nat
    BY <2>1, <2>2, <2>3 DEF Counts, Only
  <2> HIDE DEF hx, HeldMoved
  <2>5. ASSUME NEW x \in Addr PROVE HeldIn(hx, x) = HeldIn(h, x) + Only(v, n, x)
    <3> DEFINE f == [u \in Thread |-> h[u][x]]
               g == [u \in Thread |-> hx[u][x]]
    <3>1. /\ \A u \in Thread : f[u] \in Nat /\ g[u] \in Nat
          /\ \A u \in Thread \ {t} : g[u] = f[u]
          /\ g[t] = f[t] + Only(v, n, x)
      BY <2>4 DEF Only
    <3> HIDE DEF f, g
    <3>2. SumFunctionOnSet(g, Thread) = SumFunctionOnSet(f, Thread) - f[t] + g[t] /\ SumFunctionOnSet(f, Thread) \in Nat
      BY <3>1, FiniteAssumption, SumChange
    <3>3. SumFunctionOnSet(g, Thread) = SumFunctionOnSet(f, Thread) + Only(v, n, x)
      BY <1>2, <3>1, <3>2
    <3>4. QED
      BY <3>3 DEF HeldIn, f, g
  <2>6. QED
    BY <1>1, <1>2, <2>3, <2>5 DEF hx, HeldMoved
<1>5. QED
  BY <1>3, <1>4

LEMMA CountChange ==
  ASSUME NEW bl \in Heap, NEW v \in LiveIn(bl) \cup {Scalar}, NEW n \in Int,
         v \in Addr => bl[v].count + n \in Nat
  PROVE  CountMoved(bl, CountedIn(bl, v, n), v, n)
<1>1. CASE v = Scalar
  <2>1. CountedIn(bl, v, n) = bl /\ \A a \in Addr : Only(v, n, a) = 0
    BY <1>1, ScalarAssumption DEF CountedIn, Only
  <2>2. QED
    BY <2>1, HeapContent DEF CountMoved
<1>2. CASE v # Scalar
  <2> DEFINE bx == CountedIn(bl, v, n)
  <2>1. v \in LiveIn(bl) /\ bx = [bl EXCEPT ![v].count = @ + n]
    BY <1>2 DEF CountedIn
  <2>2. /\ v \in Addr /\ bl[v] \in Content /\ bl[v].count + n \in Nat
        /\ bl \in [Addr -> Content \cup {Free}] /\ bl[v] # Free
    BY <2>1, HeapContent DEF Heap
  <2>3. bx = [bl EXCEPT ![v] = [bl[v] EXCEPT !.count = bl[v].count + n]]
    BY <2>1
  <2> DEFINE new == [bl[v] EXCEPT !.count = bl[v].count + n]
  <2>4. /\ new \in Content /\ new # Free /\ new.count = bl[v].count + n
        /\ new.type = bl[v].type /\ new.values = bl[v].values
    BY <2>2, FreeAssumption DEF Content
  <2> HIDE DEF new
  <2>5. bx \in [Addr -> Content \cup {Free}] /\ bx[v] = new /\ \A a \in Addr \ {v} : bx[a] = bl[a]
    BY <2>2, <2>3, <2>4 DEF new
  <2> HIDE DEF bx, CountMoved
  <2>6. LiveIn(bx) = LiveIn(bl)
    BY <2>2, <2>4, <2>5 DEF LiveIn
  <2>7. ASSUME NEW a \in LiveIn(bl)
        PROVE  /\ bx[a].type = bl[a].type /\ bx[a].values = bl[a].values
               /\ bx[a].count = bl[a].count + Only(v, n, a)
               /\ bl[a].count \in Nat /\ Only(v, n, a) \in Int
    BY <2>4, <2>5, HeapContent DEF Only
  <2>8. bx \in Heap
    BY <2>5, <2>6, <2>7, HeapContent DEF Heap, Shaped
  <2>9. QED
    BY <2>6, <2>7, <2>8 DEF bx, CountMoved
<1>3. QED
  BY <1>1, <1>2

LEMMA ValuesChange ==
  ASSUME NEW bl \in Heap, NEW a \in LiveIn(bl), NEW new \in Tables,
         bl[a].type = "array" => new \in Seq(Value),
         bl[a].type = "object" => new \in Keyed,
         NEW bx, bx = [bl EXCEPT ![a].values = new]
  PROVE  ValuesMoved(bl, bx, a, new)
<1> DEFINE cell == [bl[a] EXCEPT !.values = new]
<1>1. a \in Addr /\ bl[a] \in Content /\ bl \in [Addr -> Content \cup {Free}] /\ bl[a] # Free
  BY HeapContent DEF Heap
<1>2. /\ cell \in Content /\ cell # Free /\ cell.values = new
      /\ cell.type = bl[a].type /\ cell.count = bl[a].count
  BY <1>1, FreeAssumption DEF Content
<1>3. bx = [bl EXCEPT ![a] = cell]
  OBVIOUS
<1> HIDE DEF cell
<1>4. bx \in [Addr -> Content \cup {Free}] /\ bx[a] = cell /\ \A b \in Addr \ {a} : bx[b] = bl[b]
  BY <1>1, <1>2, <1>3
<1>5. LiveIn(bx) = LiveIn(bl)
  BY <1>1, <1>2, <1>4 DEF LiveIn
<1>6. \A b \in LiveIn(bl) : bx[b].type = bl[b].type /\ bx[b].count = bl[b].count
  BY <1>2, <1>4, HeapContent
<1>7. \A b \in LiveIn(bl) \ {a} : bx[b].values = bl[b].values
  BY <1>4, HeapContent
<1>8. bx \in Heap
  BY <1>2, <1>4, <1>5, <1>6, <1>7, HeapContent DEF Heap, Shaped
<1>9. QED
  BY <1>2, <1>4, <1>5, <1>6, <1>7, <1>8 DEF ValuesMoved

\* What a change of the heap does to the values of the blocks B.
LEMMA SameValues ==
  ASSUME NEW bl, NEW bx, NEW B, \A b \in B : bx[b].values = bl[b].values
  PROVE  ValuesIn(bx, B) = ValuesIn(bl, B)
BY DEF ValuesIn

TableMoved(bl, bx, B, a) ==
  \A x : /\ InStore(ValuesIn(bx, B), x) =
              InStore(ValuesIn(bl, B), x) - InTable(bl[a].values, x) + InTable(bx[a].values, x)
         /\ InStore(ValuesIn(bl, B), x) \in Nat
         /\ InTable(bl[a].values, x) \in Nat /\ InTable(bx[a].values, x) \in Nat

LEMMA TableChanges ==
  ASSUME NEW bl \in Heap, NEW bx \in Heap, NEW B \in SUBSET LiveIn(bl), B \subseteq LiveIn(bx),
         NEW a \in B, \A b \in B \ {a} : bx[b].values = bl[b].values
  PROVE  TableMoved(bl, bx, B, a)
<1>1. IsStore(ValuesIn(bl, B)) /\ IsStore(ValuesIn(bx, B))
  BY HeapIsStore
<1>2. \A p : p # a => /\ p \in DOMAIN ValuesIn(bl, B) <=> p \in DOMAIN ValuesIn(bx, B)
                      /\ p \in DOMAIN ValuesIn(bl, B) => ValuesIn(bx, B)[p] = ValuesIn(bl, B)[p]
  BY DEF ValuesIn
<1>3. \A x : At(ValuesIn(bl, B), a, x) = InTable(bl[a].values, x) /\ At(ValuesIn(bx, B), a, x) = InTable(bx[a].values, x)
  BY DEF At, ValuesIn
<1>4. ASSUME NEW x
      PROVE  /\ InStore(ValuesIn(bx, B), x) =
                  InStore(ValuesIn(bl, B), x) - At(ValuesIn(bl, B), a, x) + At(ValuesIn(bx, B), a, x)
             /\ InStore(ValuesIn(bl, B), x) \in Nat
             /\ At(ValuesIn(bl, B), a, x) \in Nat /\ At(ValuesIn(bx, B), a, x) \in Nat
  BY <1>1, <1>2, StoreChange
<1>5. QED
  BY <1>3, <1>4 DEF TableMoved

\* A block leaves the set, or joins it.
LEMMA BlockLeaves ==
  ASSUME NEW bl \in Heap, NEW B \in SUBSET LiveIn(bl), NEW a \in B
  PROVE  \A x : /\ InStore(ValuesIn(bl, B), x) =
                     InStore(ValuesIn(bl, B \ {a}), x) + InTable(bl[a].values, x)
                /\ InStore(ValuesIn(bl, B \ {a}), x) \in Nat /\ InTable(bl[a].values, x) \in Nat
<1> DEFINE C == B \ {a}
<1>1. IsStore(ValuesIn(bl, B)) /\ IsStore(ValuesIn(bl, C))
  BY HeapIsStore
<1>2. \A p : p # a => /\ p \in DOMAIN ValuesIn(bl, C) <=> p \in DOMAIN ValuesIn(bl, B)
                      /\ p \in DOMAIN ValuesIn(bl, C) => ValuesIn(bl, B)[p] = ValuesIn(bl, C)[p]
  BY DEF ValuesIn
<1>3. \A x : At(ValuesIn(bl, C), a, x) = 0 /\ At(ValuesIn(bl, B), a, x) = InTable(bl[a].values, x)
  BY DEF At, ValuesIn
<1> HIDE DEF C
<1>4. ASSUME NEW x
      PROVE  /\ InStore(ValuesIn(bl, B), x) =
                  InStore(ValuesIn(bl, C), x) - At(ValuesIn(bl, C), a, x) + At(ValuesIn(bl, B), a, x)
             /\ InStore(ValuesIn(bl, C), x) \in Nat
             /\ At(ValuesIn(bl, C), a, x) \in Nat /\ At(ValuesIn(bl, B), a, x) \in Nat
  BY <1>1, <1>2, StoreChange
<1>5. ASSUME NEW x
      PROVE  /\ InStore(ValuesIn(bl, B), x) = InStore(ValuesIn(bl, C), x) + InTable(bl[a].values, x)
             /\ InStore(ValuesIn(bl, C), x) \in Nat /\ InTable(bl[a].values, x) \in Nat
  BY <1>3, <1>4
<1>6. QED
  BY <1>5, Zenon DEF C

\* A reference a client owns, or the one a table or a frame holds, is to a block that nobody
\* disposes of.
LEMMA ReferencedBlocks ==
  ASSUME NEW bl, NEW h, NEW st, NEW lo, Typed(bl, h, st, lo), Exact(bl, h, st, lo), NEW x \in Addr
  PROVE  /\ (\E t \in Thread : h[t][x] > 0) => x \in BlocksIn(bl, st)
         /\ \A b \in BlocksIn(bl, st) : \A i \in DOMAIN bl[b].values :
              bl[b].values[i] = x => x \in BlocksIn(bl, st)
         /\ \A f \in FramesIn(st) : \A i \in DOMAIN st[f[1]][f[2]].rest :
              st[f[1]][f[2]].rest[i] = x => x \in BlocksIn(bl, st)
<1> DEFINE B == BlocksIn(bl, st)
           H == HeldIn(h, x)
           S == InStore(ValuesIn(bl, B), x)
           R == InStore(RestsIn(st), x)
<1>1. H \in Nat /\ S \in Nat /\ R \in Nat /\ lo[x] \in Nat /\ \A t \in Thread : h[t][x] \in Nat /\ h[t][x] <= H
  BY PartsAreNumbers
<1>2. x \notin B => H + S + R + lo[x] = 0
  BY DEF Exact, Total
<1>3. ASSUME NEW b \in B, NEW i \in DOMAIN bl[b].values, bl[b].values[i] = x
      PROVE  S > 0
  <2>1. IsStore(ValuesIn(bl, B))
    BY HeapIsStore DEF BlocksIn, Typed
  <2>2. b \in DOMAIN ValuesIn(bl, B) /\ ValuesIn(bl, B)[b] = bl[b].values
    BY DEF ValuesIn
  <2>3. QED
    BY <1>3, <2>1, <2>2, InStoreSomewhere
<1>4. ASSUME NEW f \in FramesIn(st), NEW i \in DOMAIN st[f[1]][f[2]].rest, st[f[1]][f[2]].rest[i] = x
      PROVE  R > 0
  <2>1. IsStore(RestsIn(st))
    BY RestsAreStore DEF Typed
  <2>2. f \in DOMAIN RestsIn(st) /\ RestsIn(st)[f] = st[f[1]][f[2]].rest
    BY DEF RestsIn
  <2>3. QED
    BY <1>4, <2>1, <2>2, InStoreSomewhere
<1> HIDE DEF B, H, S, R
<1>5. H > 0 \/ S > 0 \/ R > 0 => x \in B
  BY <1>1, <1>2
<1>6. ASSUME NEW t \in Thread, h[t][x] > 0 PROVE x \in B
  BY <1>1, <1>5, <1>6
<1>7. QED
  BY <1>3, <1>4, <1>5, <1>6 DEF B

-----------------------------------------------------------------------------
\* The operations.

\* What a step does to the containers: they lose links, or a new one has none, or a links to v.
Shrinks ==
  \A b \in BlocksIn(block', stack') :
    b \in BlocksIn(block, stack) /\ block'[b].values = block[b].values
Creates(a) ==
  /\ BlocksIn(block', stack') = BlocksIn(block, stack) \cup {a}
  /\ a \notin BlocksIn(block, stack) /\ DOMAIN block'[a].values = {}
  /\ \A b \in BlocksIn(block, stack) : block'[b].values = block[b].values
Gives(a, v) ==
  /\ BlocksIn(block', stack') = BlocksIn(block, stack)
  /\ \A b \in BlocksIn(block, stack) : \A x :
       Places(block'[b].values, x) # {} => Places(block[b].values, x) # {} \/ (b = a /\ x = v)

LEMMA Initially == Init => Inv
<1> SUFFICES ASSUME Init PROVE Inv
  OBVIOUS
<1>1. LiveIn(block) = {} /\ BlocksIn(block, stack) = {}
  BY DEF Init, LiveIn, BlocksIn
<1>2. FramesIn(stack) = {}
  BY FramesAre DEF Init
<1>3. OwnFrames(block, stack)
  BY <1>2 DEF OwnFrames, Distinct, DyingIn
<1>4. Typed(block, held, stack, lost)
  BY <1>1 DEF Init, Typed, Heap, Shaped, Counts
<1>5. ASSUME NEW x \in Addr
      PROVE  HeldIn(held, x) + InStore(ValuesIn(block, {}), x) + InStore(RestsIn(stack), x) + lost[x] = 0
  <2>1. HeldIn(held, x) = 0
    <3> DEFINE f == [t \in Thread |-> held[t][x]]
    <3>1. \A t \in Thread : f[t] = 0
      BY DEF Init
    <3> HIDE DEF f
    <3>2. SumFunctionOnSet(f, Thread) = 0
      BY <3>1, FiniteAssumption, SumZero
    <3>3. QED
      BY <3>2 DEF HeldIn, f
  <2>2. \A store : DOMAIN store = {} => InStore(store, x) = 0
    BY FS_EmptySet DEF InStore, Spots
  <2>3. DOMAIN ValuesIn(block, {}) = {} /\ DOMAIN RestsIn(stack) = {}
    BY <1>2 DEF ValuesIn, RestsIn
  <2>4. InStore(ValuesIn(block, {}), x) = 0 /\ InStore(RestsIn(stack), x) = 0
    BY <2>2, <2>3
  <2>5. QED
    BY <2>1, <2>4 DEF Init
<1>6. Exact(block, held, stack, lost)
  BY <1>1, <1>5 DEF Exact, Total
<1>7. QED
  BY <1>3, <1>4, <1>6 DEF Inv, Good

\* While the blocks stay, the count of one of them may change with the references to it.
TotalsMoved(bl, h, st, lo, bx, hx, sx, lx, v, n) ==
  \A x \in Addr : Total(bx, hx, sx, lx, x) = Total(bl, h, st, lo, x) + Only(v, n, x)

LEMMA CountFollows ==
  ASSUME NEW bl, NEW h, NEW st, NEW lo, Good(bl, h, st, lo),
         NEW bx, NEW hx, NEW sx, NEW lx,
         BlocksIn(bx, sx) = BlocksIn(bl, st), NEW v \in BlocksIn(bl, st) \cup {Scalar},
         NEW n \in Int, v \in Addr => bl[v].count + n > 0,
         CountsAre(bl, bx, v, n),
         TotalsMoved(bl, h, st, lo, bx, hx, sx, lx, v, n)
  PROVE  Exact(bx, hx, sx, lx)
<1> SUFFICES ASSUME NEW x \in Addr
             PROVE  /\ Total(bx, hx, sx, lx, x) = IF x \in BlocksIn(bl, st) THEN bx[x].count ELSE 0
                    /\ x \in LiveIn(bl) => bx[x].count > 0
  BY DEF Exact, CountsAre
<1>1. /\ Total(bl, h, st, lo, x) = IF x \in BlocksIn(bl, st) THEN bl[x].count ELSE 0
      /\ x \in LiveIn(bl) => bl[x].count > 0
  BY DEF Good, Exact
<1>2. x \in LiveIn(bl) => bl[x].count \in Nat
  BY HeapContent DEF Good, Typed
<1>3. x \in BlocksIn(bl, st) => x \in LiveIn(bl)
  BY DEF BlocksIn
<1>4. Total(bx, hx, sx, lx, x) = Total(bl, h, st, lo, x) + Only(v, n, x)
  BY DEF TotalsMoved
<1>5. x \in LiveIn(bl) => bx[x].count = bl[x].count + Only(v, n, x)
  BY DEF CountsAre
<1>6. CASE x = v
  BY <1>1, <1>2, <1>3, <1>4, <1>5, <1>6, ScalarAssumption DEF Only
<1>7. CASE x # v
  BY <1>1, <1>2, <1>3, <1>4, <1>5, <1>7 DEF Only
<1>8. QED
  BY <1>6, <1>7

\* create_str, create_array and create_object: a block with one reference, the client's.
LEMMA CreateKeepsInv ==
  ASSUME Inv, NEW t \in Thread, NEW a \in Addr, NEW type \in Kind, Create(t, a, type)
  PROVE  Inv' /\ Creates(a)
<1> DEFINE new == [type |-> type, count |-> 1, values |-> <<>>]
           B == BlocksIn(block, stack)
<1>1. /\ block \in Heap /\ held \in [Thread -> Counts]
      /\ stack \in [Thread -> Seq(Frame)] /\ lost \in Counts
      /\ DyingIn(stack) \subseteq LiveIn(block) /\ Distinct(stack)
  BY DEF Inv, Good, Typed, OwnFrames
<1>2. /\ block[a] = Free /\ block' = [block EXCEPT ![a] = new]
      /\ held' = OwnedIn(held, t, a, 1) /\ stack' = stack /\ lost' = lost
  BY DEF Create, Owned, OwnedIn
<1>3. new \in Content /\ new # Free /\ new.values = <<>> /\ new.count = 1 /\ new.values \in Seq(Value) \cap Keyed
  <2>1. <<>> \in Seq(Value)
    OBVIOUS
  <2>2. <<>> \in [{} -> Value] /\ IsFiniteSet({})
    BY FS_EmptySet
  <2>3. <<>> \in Keyed
    BY <2>2 DEF Keyed
  <2>4. <<>> \in Tables
    BY <2>1 DEF Tables
  <2>5. new \in Content
    BY <2>4 DEF Content
  <2>6. QED
    BY <2>1, <2>3, <2>5, FreeAssumption
<1> HIDE DEF new
<1>4. /\ block' \in [Addr -> Content \cup {Free}] /\ block'[a] = new
      /\ \A b \in Addr \ {a} : block'[b] = block[b]
  BY <1>1, <1>2, <1>3 DEF Heap
<1>5. LiveIn(block') = LiveIn(block) \cup {a} /\ a \notin LiveIn(block)
  BY <1>2, <1>3, <1>4 DEF LiveIn
<1>6. block' \in Heap
  BY <1>1, <1>3, <1>4, <1>5, HeapContent DEF Heap, Shaped
<1>7. BlocksIn(block', stack) = B \cup {a} /\ a \notin B /\ (B \cup {a}) \ {a} = B
  BY <1>1, <1>5 DEF BlocksIn
<1>8. HeldMoved(held, held', a, 1)
  <2>1. a \in Value /\ held[t][a] + 1 \in Nat
    BY <1>1 DEF Value, Counts
  <2>2. QED
    BY <1>1, <1>2, <2>1, HeldChange
<1>9. ASSUME NEW x \in Addr
      PROVE  /\ InStore(ValuesIn(block', B \cup {a}), x) = InStore(ValuesIn(block, B), x)
             /\ InStore(ValuesIn(block, B), x) \in Nat
  <2>1. ValuesIn(block', B) = ValuesIn(block, B)
    BY <1>4, <1>7 DEF ValuesIn, BlocksIn, LiveIn
  <2>2. DOMAIN new.values = {}
    BY <1>3
  <2>3. InTable(block'[a].values, x) = 0
    BY <1>4, <2>2, EmptyTable
  <2> DEFINE C == B \cup {a}
  <2>4. C \in SUBSET LiveIn(block') /\ a \in C /\ C \ {a} = B
    BY <1>5, <1>7 DEF BlocksIn
  <2> HIDE DEF B, C
  <2>5. /\ InStore(ValuesIn(block', C), x) = InStore(ValuesIn(block', C \ {a}), x) + InTable(block'[a].values, x)
        /\ InStore(ValuesIn(block', C \ {a}), x) \in Nat
    BY <1>6, <2>4, BlockLeaves
  <2>6. QED
    BY <2>1, <2>3, <2>4, <2>5 DEF C
<1>10. Exact(block', held', stack', lost')
  <2>1. SUFFICES ASSUME NEW x \in Addr
                 PROVE  /\ HeldIn(held', x) + InStore(ValuesIn(block', B \cup {a}), x)
                             + InStore(RestsIn(stack), x) + lost[x]
                             = IF x \in B \cup {a} THEN block'[x].count ELSE 0
                        /\ x \in LiveIn(block') => block'[x].count > 0
    BY <1>2, <1>7 DEF Exact, Total
  <2>2. /\ HeldIn(held, x) + InStore(ValuesIn(block, B), x) + InStore(RestsIn(stack), x) + lost[x]
             = IF x \in B THEN block[x].count ELSE 0
        /\ x \in LiveIn(block) => block[x].count > 0
    BY DEF Inv, Good, Exact, Total
  <2>3. InStore(RestsIn(stack), x) \in Nat /\ lost[x] \in Nat
    BY PartsAreNumbers DEF Inv, Good
  <2> HIDE DEF B
  <2>4. CASE x = a
    <3>1. HeldIn(held', x) = HeldIn(held, x) + 1 /\ HeldIn(held, x) \in Nat
      BY <1>8, <2>4 DEF Only, HeldMoved
    <3>2. /\ InStore(ValuesIn(block', B \cup {a}), x) = InStore(ValuesIn(block, B), x)
          /\ InStore(ValuesIn(block, B), x) \in Nat
      BY <1>9
    <3>3. x \notin B /\ block'[x].count = 1
      BY <1>3, <1>4, <1>7, <2>4
    <3>4. QED
      BY <2>2, <2>3, <2>4, <3>1, <3>2, <3>3
  <2>5. CASE x # a
    <3>1. block'[x] = block[x] /\ (x \in LiveIn(block') => x \in LiveIn(block))
      BY <1>4, <1>5, <2>5
    <3>2. HeldIn(held', x) = HeldIn(held, x)
      BY <1>8, <2>5 DEF Only, HeldMoved
    <3>3. InStore(ValuesIn(block', B \cup {a}), x) = InStore(ValuesIn(block, B), x)
      BY <1>9
    <3>4. QED
      BY <2>2, <2>5, <3>1, <3>2, <3>3
  <2>6. QED
    BY <2>4, <2>5
<1>11. Inv'
  BY <1>1, <1>2, <1>5, <1>6, <1>8, <1>10 DEF Inv, Good, Typed, OwnFrames, HeldMoved
<1>12. Creates(a)
  <2>1. DOMAIN block'[a].values = {}
    BY <1>3, <1>4
  <2>2. \A b \in B : block'[b].values = block[b].values
    BY <1>4, <1>7 DEF BlocksIn, LiveIn
  <2>3. QED
    BY <1>2, <1>7, <2>1, <2>2 DEF Creates
<1>13. QED
  BY <1>11, <1>12

\* The parts of the state, and that clients only use blocks nobody disposes of.
LEMMA InvParts ==
  ASSUME Inv
  PROVE  /\ block \in Heap /\ held \in [Thread -> Counts]
         /\ stack \in [Thread -> Seq(Frame)] /\ lost \in Counts
         /\ Distinct(stack) /\ DyingIn(stack) \subseteq LiveIn(block)
         /\ Good(block, held, stack, lost)
         /\ BlocksIn(block, stack) \in SUBSET LiveIn(block)
         /\ \A t \in Thread : \A x \in Addr : held[t][x] \in Nat
         /\ \A t \in Thread : HeldBy(t) \subseteq BlocksIn(block, stack)
         /\ \A t \in Thread : \A v \in Value : Mine(t, v) => v \in BlocksIn(block, stack) \cup {Scalar}
<1>1. Good(block, held, stack, lost)
  BY DEF Inv
<1>2. /\ block \in Heap /\ held \in [Thread -> Counts]
      /\ stack \in [Thread -> Seq(Frame)] /\ lost \in Counts
      /\ Distinct(stack) /\ DyingIn(stack) \subseteq LiveIn(block)
      /\ BlocksIn(block, stack) \in SUBSET LiveIn(block)
  BY <1>1 DEF Good, Typed, OwnFrames, BlocksIn
<1>3. \A t \in Thread : \A x \in Addr : held[t][x] \in Nat
  BY <1>2 DEF Counts
<1>4. \A t \in Thread : HeldBy(t) \subseteq BlocksIn(block, stack)
  BY <1>1, ReferencedBlocks DEF Good, HeldBy
<1>5. QED
  BY <1>1, <1>2, <1>3, <1>4 DEF Mine

\* A client takes one more reference.
LEMMA TakeOne ==
  ASSUME Inv, NEW t \in Thread, NEW v \in BlocksIn(block, stack) \cup {Scalar},
         block' = CountedIn(block, v, 1), held' = OwnedIn(held, t, v, 1),
         stack' = stack, lost' = lost
  PROVE  Inv' /\ Shrinks
<1> DEFINE B == BlocksIn(block, stack)
<1>1. v \in Value /\ v \in LiveIn(block) \cup {Scalar}
  BY DEF Value, BlocksIn, LiveIn
<1>2. CountMoved(block, block', v, 1)
  <2>1. v \in Addr => block[v].count + 1 \in Nat
    BY <1>1, InvParts, HeapContent, ScalarAssumption
  <2>2. QED
    BY <1>1, <2>1, InvParts, CountChange
<1>3. HeldMoved(held, held', v, 1)
  <2>1. v \in Addr => held[t][v] + 1 \in Nat
    BY InvParts
  <2>2. QED
    BY <1>1, <2>1, InvParts, HeldChange
<1>4. BlocksIn(block', stack') = B /\ ValuesIn(block', B) = ValuesIn(block, B)
  BY <1>2, SameValues DEF BlocksIn, CountMoved
<1>5. TotalsMoved(block, held, stack, lost, block', held', stack', lost', v, 1)
  <2>1. SUFFICES ASSUME NEW x \in Addr
                 PROVE  Total(block', held', stack', lost', x) =
                          Total(block, held, stack, lost, x) + Only(v, 1, x)
    BY DEF TotalsMoved
  <2>2. /\ InStore(ValuesIn(block, B), x) \in Nat
        /\ InStore(RestsIn(stack), x) \in Nat /\ lost[x] \in Nat
    BY PartsAreNumbers DEF Inv, Good
  <2>3. HeldIn(held', x) = HeldIn(held, x) + Only(v, 1, x) /\ HeldIn(held, x) \in Nat /\ Only(v, 1, x) \in Int
    BY <1>3 DEF HeldMoved
  <2>4. QED
    BY <1>4, <2>2, <2>3 DEF Total
<1>6. Exact(block', held', stack', lost')
  <2>1. v \in Addr => block[v].count + 1 > 0
    BY <1>1, <1>2, ScalarAssumption DEF CountMoved
  <2>2. CountsAre(block, block', v, 1)
    BY <1>2 DEF CountMoved, CountsAre
  <2>3. QED
    BY <1>4, <1>5, <2>1, <2>2, InvParts, CountFollows
<1>7. Inv'
  BY <1>2, <1>3, <1>6, InvParts DEF Inv, Good, Typed, OwnFrames, CountMoved, HeldMoved
<1>8. Shrinks
  BY <1>2, <1>4, InvParts DEF Shrinks, CountMoved
<1>9. QED
  BY <1>7, <1>8

LEMMA TakeKeepsInv ==
  ASSUME Inv, NEW t \in Thread, NEW a \in Addr, Take(t, a)
  PROVE  Inv' /\ Shrinks
<1>1. a \in BlocksIn(block, stack)
  BY InvParts DEF Take
<1>2. QED
  BY <1>1, TakeOne DEF Take, Counted, CountedIn, Owned, OwnedIn

LEMMA TakeFromKeepsInv ==
  ASSUME Inv, NEW t \in Thread, NEW a \in Addr, NEW i \in DOMAIN block[a].values, TakeFrom(t, a, i)
  PROVE  Inv' /\ Shrinks
<1> DEFINE v == block[a].values[i]
<1>1. a \in BlocksIn(block, stack) /\ a \in LiveIn(block)
  BY InvParts DEF TakeFrom
<1>2. v \in Value
  BY <1>1, InvParts, HeapContent
<1>3. v \in BlocksIn(block, stack) \cup {Scalar}
  BY <1>1, <1>2, InvParts, ReferencedBlocks DEF Good, Value
<1>4. /\ block' = CountedIn(block, v, 1) /\ held' = OwnedIn(held, t, v, 1)
      /\ stack' = stack /\ lost' = lost
  BY DEF TakeFrom, Counted, CountedIn, Owned, OwnedIn
<1> HIDE DEF v
<1>5. QED
  BY <1>3, <1>4, TakeOne

\* Handing a reference to another thread: what the one loses the other gets.
LEMMA SendKeepsInv ==
  ASSUME Inv, NEW t \in Thread, NEW u \in Thread \ {t}, NEW a \in Addr, Send(t, u, a)
  PROVE  Inv' /\ Shrinks
<1> DEFINE mid == OwnedIn(held, t, a, -1)
<1>1. a \in Value /\ a # Scalar /\ held[t][a] \in Nat /\ held[t][a] > 0 /\ held[u][a] \in Nat
  BY ScalarAssumption, InvParts DEF Value, Send, HeldBy
<1>2. HeldMoved(held, mid, a, -1)
  <2>1. -1 \in Int /\ (a \in Addr => held[t][a] + (-1) \in Nat)
    BY <1>1
  <2>2. QED
    BY <1>1, <2>1, InvParts, HeldChange
<1>3. mid \in [Thread -> Counts] /\ mid[u][a] + 1 \in Nat
  <2>1. mid \in [Thread -> Counts]
    BY <1>2 DEF HeldMoved
  <2>2. mid[u][a] \in Nat
    BY <2>1 DEF Counts
  <2>3. QED
    BY <2>1, <2>2
<1>4. held' = OwnedIn(mid, u, a, 1)
  <2>1. mid = [held EXCEPT ![t][a] = @ - 1]
    BY <1>1 DEF OwnedIn
  <2>2. held' = [held EXCEPT ![t][a] = @ - 1, ![u][a] = @ + 1]
    BY DEF Send
  <2> HIDE DEF mid
  <2>3. held' = [mid EXCEPT ![u][a] = @ + 1]
    BY <2>1, <2>2, Zenon
  <2>4. QED
    BY <1>1, <2>3 DEF OwnedIn
<1> HIDE DEF mid
<1>5. HeldMoved(mid, held', a, 1)
  BY <1>1, <1>3, <1>4, HeldChange
<1>6. block' = block /\ stack' = stack /\ lost' = lost
  BY DEF Send
<1>7. \A x \in Addr : Total(block', held', stack', lost', x) = Total(block, held, stack, lost, x)
  <2>1. SUFFICES ASSUME NEW x \in Addr
                 PROVE  HeldIn(held', x) = HeldIn(held, x)
    BY <1>6 DEF Total
  <2>2. /\ HeldIn(mid, x) = HeldIn(held, x) + Only(a, -1, x) /\ HeldIn(held, x) \in Nat
        /\ HeldIn(held', x) = HeldIn(mid, x) + Only(a, 1, x)
    BY <1>2, <1>5 DEF HeldMoved
  <2>3. QED
    BY <2>2 DEF Only
<1>8. Exact(block', held', stack', lost')
  BY <1>6, <1>7, InvParts DEF Good, Exact
<1>9. Inv'
  BY <1>5, <1>6, <1>8, InvParts DEF Inv, Good, Typed, OwnFrames, HeldMoved
<1>10. Shrinks
  BY <1>6 DEF Shrinks
<1>11. QED
  BY <1>9, <1>10

\* vial_json_leave begins: a frame with the value, by a client that was in no call.
LEMMA LeaveBegins ==
  ASSUME Inv, NEW t \in Thread, Idle(t), NEW v \in Value,
         stack' = [stack EXCEPT ![t] = <<[block |-> Scalar, rest |-> <<v>>]>>]
  PROVE  /\ stack' \in [Thread -> Seq(Frame)]
         /\ DyingIn(stack') = DyingIn(stack) /\ Distinct(stack')
         /\ \A x : InStore(RestsIn(stack'), x) = InStore(RestsIn(stack), x) + Only(v, 1, x)
<1> DEFINE fr == [block |-> Scalar, rest |-> <<v>>]
<1>1. fr \in Frame /\ fr.block = Scalar /\ fr.rest = <<v>>
  BY SingleTable DEF Frame, Value
<1> HIDE DEF fr
<1>2. stack' = [stack EXCEPT ![t] = Append(stack[t], fr)]
  BY DEF Idle, fr
<1>3. Pushed(stack, stack', fr)
  BY <1>1, <1>2, InvParts, StackPush
<1>4. Scalar \notin DyingIn(stack)
  BY DEF DyingIn
<1>5. \A x : InStore(RestsIn(stack'), x) = InStore(RestsIn(stack), x) + Only(v, 1, x)
  <2>1. ASSUME NEW x PROVE InStore(RestsIn(stack'), x) = InStore(RestsIn(stack), x) + InTable(fr.rest, x)
    BY <1>3 DEF Pushed
  <2>2. ASSUME NEW x PROVE InTable(fr.rest, x) = Only(v, 1, x)
    BY <1>1, SingleTable
  <2>3. QED
    BY <2>1, <2>2
<1>6. /\ stack' \in [Thread -> Seq(Frame)]
      /\ DyingIn(stack') = DyingIn(stack) /\ Distinct(stack')
  BY <1>1, <1>3, <1>4, InvParts DEF Pushed
<1>7. QED
  BY <1>5, <1>6

LEMMA LeaveKeepsInv ==
  ASSUME Inv, NEW t \in Thread, NEW a \in Addr, Leave(t, a)
  PROVE  Inv' /\ Shrinks
<1>1. a \in Value /\ held[t][a] \in Nat /\ held[t][a] > 0
  BY InvParts DEF Value, Leave, HeldBy
<1>2. HeldMoved(held, held', a, -1)
  <2>1. held' = OwnedIn(held, t, a, -1)
    BY DEF Leave, Owned, OwnedIn
  <2>2. -1 \in Int /\ (a \in Addr => held[t][a] + (-1) \in Nat)
    BY <1>1
  <2>3. QED
    BY <1>1, <2>1, <2>2, InvParts, HeldChange
<1>3. block' = block /\ lost' = lost
  BY DEF Leave
<1>4. /\ stack' \in [Thread -> Seq(Frame)]
      /\ DyingIn(stack') = DyingIn(stack) /\ Distinct(stack')
      /\ \A x : InStore(RestsIn(stack'), x) = InStore(RestsIn(stack), x) + Only(a, 1, x)
  BY <1>1, LeaveBegins DEF Leave
<1>5. BlocksIn(block', stack') = BlocksIn(block, stack)
  BY <1>3, <1>4 DEF BlocksIn
<1>6. \A x \in Addr : Total(block', held', stack', lost', x) = Total(block, held, stack, lost, x)
  <2>1. SUFFICES ASSUME NEW x \in Addr
                 PROVE  Total(block', held', stack', lost', x) = Total(block, held, stack, lost, x)
    OBVIOUS
  <2>2. /\ InStore(ValuesIn(block, BlocksIn(block, stack)), x) \in Nat
        /\ InStore(RestsIn(stack), x) \in Nat /\ lost[x] \in Nat
    BY PartsAreNumbers DEF Inv, Good
  <2>3. HeldIn(held', x) = HeldIn(held, x) + Only(a, -1, x) /\ HeldIn(held, x) \in Nat
    BY <1>2 DEF HeldMoved
  <2>4. InStore(RestsIn(stack'), x) = InStore(RestsIn(stack), x) + Only(a, 1, x)
    BY <1>4
  <2>5. QED
    BY <1>3, <1>5, <2>2, <2>3, <2>4 DEF Total, Only
<1>7. Exact(block', held', stack', lost')
  BY <1>3, <1>5, <1>6, InvParts DEF Good, Exact
<1>8. Inv'
  BY <1>2, <1>3, <1>4, <1>7, InvParts DEF Inv, Good, Typed, OwnFrames, HeldMoved
<1>9. Shrinks
  BY <1>3, <1>5 DEF Shrinks
<1>10. QED
  BY <1>8, <1>9

\* A container gets a reference to v at its place k, the client's or one that is taken, and what
\* was at k goes to a frame.
LEMMA GiveKeepsInv ==
  ASSUME Inv, NEW t \in Thread, NEW a \in BlocksIn(block, stack),
         NEW v \in Value, Mine(t, v), NEW taken \in 0..1,
         NEW k, NEW new \in Tables,
         block[a].type = "array" => new \in Seq(Value),
         block[a].type = "object" => new \in Keyed,
         \A j : j # k => /\ j \in DOMAIN block[a].values <=> j \in DOMAIN new
                         /\ j \in DOMAIN block[a].values => new[j] = block[a].values[j],
         k \in DOMAIN new, new[k] = v,
         block' = [CountedIn(block, v, taken) EXCEPT ![a].values = new],
         held' = OwnedIn(held, t, v, taken - 1), lost' = lost,
         stack' \in [Thread -> Seq(Frame)], DyingIn(stack') = DyingIn(stack), Distinct(stack'),
         \A x : InStore(RestsIn(stack'), x) = InStore(RestsIn(stack), x) + Slot(block[a].values, k, x)
  PROVE  Inv' /\ Gives(a, v)
<1> DEFINE B == BlocksIn(block, stack)
           mid == CountedIn(block, v, taken)
           old == block[a].values
<1>1. /\ v \in B \cup {Scalar} /\ v \in LiveIn(block) \cup {Scalar} /\ a \in LiveIn(block)
      /\ taken \in Int /\ taken - 1 \in Int
  BY InvParts DEF BlocksIn
<1>2. CountMoved(block, mid, v, taken)
  <2>1. v \in Addr => block[v].count + taken \in Nat
    BY <1>1, InvParts, HeapContent, ScalarAssumption
  <2>2. QED
    BY <1>1, <2>1, InvParts, CountChange
<1>3. ValuesMoved(mid, block', a, new)
  <2> HIDE DEF mid
  <2>1. mid \in Heap /\ a \in LiveIn(mid) /\ mid[a].type = block[a].type
    BY <1>1, <1>2 DEF CountMoved
  <2>2. block' = [mid EXCEPT ![a].values = new]
    BY DEF mid
  <2>3. /\ mid[a].type = "array" => new \in Seq(Value)
        /\ mid[a].type = "object" => new \in Keyed
    BY <2>1
  <2>4. QED
    BY <2>1, <2>2, <2>3, ValuesChange
<1> HIDE DEF mid
<1>4. /\ block' \in Heap /\ LiveIn(block') = LiveIn(block)
      /\ \A x \in LiveIn(block) : block'[x].count = block[x].count + Only(v, taken, x)
      /\ block'[a].values = new
      /\ \A b \in LiveIn(block) \ {a} : block'[b].values = block[b].values
  BY <1>2, <1>3 DEF CountMoved, ValuesMoved
<1>5. HeldMoved(held, held', v, taken - 1)
  <2>1. v \in Addr => held[t][v] + (taken - 1) \in Nat
    BY InvParts, ScalarAssumption DEF Mine, HeldBy
  <2>2. QED
    BY <1>1, <2>1, InvParts, HeldChange
<1>6. BlocksIn(block', stack') = B
  BY <1>4 DEF BlocksIn
<1>7. ASSUME NEW x \in Addr
      PROVE  /\ InStore(ValuesIn(block', B), x) = InStore(ValuesIn(block, B), x) - Slot(old, k, x) + Only(v, 1, x)
             /\ Slot(old, k, x) \in Nat /\ InStore(ValuesIn(block, B), x) \in Nat
  <2>1. /\ InStore(ValuesIn(block', B), x) =
              InStore(ValuesIn(block, B), x) - InTable(old, x) + InTable(new, x)
        /\ InStore(ValuesIn(block, B), x) \in Nat
        /\ InTable(old, x) \in Nat /\ InTable(new, x) \in Nat
    <3>1. B \in SUBSET LiveIn(block) /\ B \subseteq LiveIn(block') /\ a \in B
      BY <1>4, InvParts
    <3>2. \A b \in B \ {a} : block'[b].values = block[b].values
      BY <1>4, <3>1
    <3> HIDE DEF B
    <3>3. TableMoved(block, block', B, a)
      BY <1>4, <3>1, <3>2, InvParts, TableChanges
    <3>4. QED
      BY <1>4, <3>3 DEF TableMoved
  <2>2. IsTable(old) /\ IsTable(new)
    BY <1>1, InvParts, HeapContent, TablesAreRests, RestIsTable
  <2>3. InTable(new, x) = InTable(old, x) - Slot(old, k, x) + Slot(new, k, x)
    BY <2>2, TableChange
  <2>4. Slot(old, k, x) \in Nat /\ Slot(new, k, x) = Only(v, 1, x) /\ Only(v, 1, x) \in Nat
    BY DEF Slot, Only
  <2>5. QED
    BY <2>1, <2>3, <2>4
<1>8. TotalsMoved(block, held, stack, lost, block', held', stack', lost', v, taken)
  <2>1. SUFFICES ASSUME NEW x \in Addr
                 PROVE  Total(block', held', stack', lost', x) =
                          Total(block, held, stack, lost, x) + Only(v, taken, x)
    BY DEF TotalsMoved
  <2>2. InStore(RestsIn(stack), x) \in Nat /\ lost[x] \in Nat
    BY PartsAreNumbers DEF Inv, Good
  <2>3. HeldIn(held', x) = HeldIn(held, x) + Only(v, taken - 1, x) /\ HeldIn(held, x) \in Nat
    BY <1>5 DEF HeldMoved
  <2>4. InStore(RestsIn(stack'), x) = InStore(RestsIn(stack), x) + Slot(old, k, x)
    OBVIOUS
  <2>5. /\ InStore(ValuesIn(block', B), x) = InStore(ValuesIn(block, B), x) - Slot(old, k, x) + Only(v, 1, x)
        /\ Slot(old, k, x) \in Nat /\ InStore(ValuesIn(block, B), x) \in Nat
    BY <1>7
  <2>6. Only(v, taken, x) = Only(v, taken - 1, x) + Only(v, 1, x) /\ Only(v, taken - 1, x) \in Int /\ Only(v, 1, x) \in Int
    BY DEF Only
  <2> HIDE DEF old, B
  <2>7. QED
    BY <1>6, <2>2, <2>3, <2>4, <2>5, <2>6, SMTT(60) DEF Total, B
<1>9. Exact(block', held', stack', lost')
  <2>1. v \in Addr => block[v].count + taken > 0
    BY <1>1, InvParts, ScalarAssumption, HeapContent DEF Good, Exact
  <2>2. CountsAre(block, block', v, taken)
    BY <1>4 DEF CountsAre
  <2>3. v \in BlocksIn(block, stack) \cup {Scalar} /\ BlocksIn(block', stack') = BlocksIn(block, stack)
    BY <1>1, <1>6
  <2>4. Good(block, held, stack, lost) /\ taken \in Int
    BY InvParts
  <2> HIDE DEF old, B
  <2>5. QED
    BY <1>8, <2>1, <2>2, <2>3, <2>4, CountFollows
<1>10. Inv'
  BY <1>4, <1>5, <1>9, InvParts DEF Inv, Good, Typed, OwnFrames, HeldMoved
<1>11. Gives(a, v)
  <2>1. ASSUME NEW b \in B, NEW x, Places(block'[b].values, x) # {}
        PROVE  Places(block[b].values, x) # {} \/ (b = a /\ x = v)
    <3>1. CASE b # a
      BY <1>4, <2>1, <3>1, InvParts
    <3>2. CASE b = a
      <4>1. PICK j \in DOMAIN new : new[j] = x
        BY <1>4, <2>1, <3>2 DEF Places
      <4>2. CASE j = k
        BY <3>2, <4>1, <4>2
      <4>3. CASE j # k
        BY <3>2, <4>1, <4>3 DEF Places
      <4>4. QED
        BY <4>2, <4>3
    <3>3. QED
      BY <3>1, <3>2
  <2>2. QED
    BY <1>6, <2>1 DEF Gives
<1>12. QED
  BY <1>10, <1>11

\* A push or put to a value of another type: the client's reference, or the one that was taken,
\* is lost.
LEMMA MismatchKeepsInv ==
  ASSUME Inv, NEW t \in Thread, NEW v \in Value, Mine(t, v), NEW taken \in 0..1,
         held' = OwnedIn(held, t, v, taken - 1), Mismatch(t, v, taken)
  PROVE  Inv' /\ Shrinks
<1> DEFINE B == BlocksIn(block, stack)
<1>1. /\ v \in B \cup {Scalar} /\ v \in LiveIn(block) \cup {Scalar} /\ taken \in Int /\ taken - 1 \in Int
      /\ stack' = stack
  BY InvParts DEF BlocksIn, Mismatch
<1>2. CountMoved(block, block', v, taken)
  <2>1. v \in Addr => block[v].count + taken \in Nat
    BY <1>1, InvParts, HeapContent, ScalarAssumption
  <2>2. block' = CountedIn(block, v, taken)
    BY DEF Mismatch, Counted, CountedIn
  <2>3. QED
    BY <1>1, <2>1, <2>2, InvParts, CountChange
<1>3. HeldMoved(held, held', v, taken - 1)
  <2>1. v \in Addr => held[t][v] + (taken - 1) \in Nat
    BY InvParts, ScalarAssumption DEF Mine, HeldBy
  <2>2. QED
    BY <1>1, <2>1, InvParts, HeldChange
<1>4. lost' \in Counts /\ \A x \in Addr : lost'[x] = lost[x] + Only(v, 1, x) /\ lost[x] \in Nat
  <2>1. lost' = IF v = Scalar THEN lost ELSE [lost EXCEPT ![v] = @ + 1]
    BY DEF Mismatch
  <2>2. CASE v = Scalar
    BY <2>1, <2>2, InvParts, ScalarAssumption DEF Only, Counts
  <2>3. CASE v # Scalar
    <3>1. v \in Addr /\ lost \in [Addr -> Nat] /\ lost' = [lost EXCEPT ![v] = @ + 1]
      BY <2>1, <2>3, InvParts DEF Value, Counts
    <3>2. QED
      BY <3>1 DEF Only, Counts
  <2>4. QED
    BY <2>2, <2>3
<1>5. BlocksIn(block', stack') = B /\ ValuesIn(block', B) = ValuesIn(block, B)
  BY <1>1, <1>2, SameValues DEF BlocksIn, CountMoved
<1>6. TotalsMoved(block, held, stack, lost, block', held', stack', lost', v, taken)
  <2>1. SUFFICES ASSUME NEW x \in Addr
                 PROVE  Total(block', held', stack', lost', x) =
                          Total(block, held, stack, lost, x) + Only(v, taken, x)
    BY DEF TotalsMoved
  <2>2. InStore(ValuesIn(block, B), x) \in Nat /\ InStore(RestsIn(stack), x) \in Nat
    BY PartsAreNumbers DEF Inv, Good
  <2>3. HeldIn(held', x) = HeldIn(held, x) + Only(v, taken - 1, x) /\ HeldIn(held, x) \in Nat
    BY <1>3 DEF HeldMoved
  <2>4. lost'[x] = lost[x] + Only(v, 1, x) /\ lost[x] \in Nat
    BY <1>4
  <2>5. Only(v, taken, x) = Only(v, taken - 1, x) + Only(v, 1, x) /\ Only(v, taken - 1, x) \in Int /\ Only(v, 1, x) \in Int
    BY DEF Only
  <2>6. QED
    BY <1>1, <1>5, <2>2, <2>3, <2>4, <2>5 DEF Total
<1>7. Exact(block', held', stack', lost')
  <2>1. v \in Addr => block[v].count + taken > 0
    BY <1>1, InvParts, ScalarAssumption, HeapContent DEF Good, Exact
  <2>2. CountsAre(block, block', v, taken)
    BY <1>2 DEF CountMoved, CountsAre
  <2>3. Good(block, held, stack, lost) /\ BlocksIn(block', stack') = BlocksIn(block, stack)
    BY <1>5, InvParts
  <2>4. QED
    BY <1>1, <1>6, <2>1, <2>2, <2>3, CountFollows
<1>8. Inv'
  BY <1>1, <1>2, <1>3, <1>4, <1>7, InvParts DEF Inv, Good, Typed, OwnFrames, CountMoved, HeldMoved
<1>9. Shrinks
  BY <1>2, <1>5, InvParts DEF Shrinks, CountMoved
<1>10. QED
  BY <1>8, <1>9

\* What counting a value does not change.
LEMMA CountedKeepsValues ==
  ASSUME Inv, NEW t \in Thread, NEW v \in Value, Mine(t, v), NEW n \in 0..1, NEW a \in LiveIn(block)
  PROVE  CountedIn(block, v, n)[a].values = block[a].values
<1>1. v \in LiveIn(block) \cup {Scalar} /\ n \in Int
  BY InvParts DEF BlocksIn
<1>2. v \in Addr => block[v].count + n \in Nat
  BY <1>1, InvParts, HeapContent, ScalarAssumption
<1>3. CountMoved(block, CountedIn(block, v, n), v, n)
  BY <1>1, <1>2, InvParts, CountChange
<1>4. QED
  BY <1>3 DEF CountMoved

LEMMA PushKeepsInv ==
  ASSUME Inv, NEW t \in Thread, NEW a \in Addr, a \in HeldBy(t),
         NEW v \in Value, Mine(t, v), NEW taken \in 0..1, Push(t, a, v, taken)
  PROVE  Inv' /\ (Shrinks \/ Gives(a, v))
<1> DEFINE old == block[a].values
           new == Append(old, v)
           k == Len(old) + 1
<1>1. a \in BlocksIn(block, stack) /\ a \in LiveIn(block)
  BY InvParts
<1>2. held' = OwnedIn(held, t, v, taken - 1)
  BY DEF Push, Given, Owned, OwnedIn
<1>3. CASE block[a].type # "array" /\ Mismatch(t, v, taken)
  BY <1>2, <1>3, MismatchKeepsInv
<1>4. CASE /\ block[a].type = "array"
           /\ block' = [Counted(v, taken) EXCEPT ![a].values = Append(@, v)]
           /\ stack' = stack /\ lost' = lost
  <2>1. old \in Seq(Value) /\ Len(old) \in Nat
    BY <1>1, <1>4, InvParts, HeapContent
  <2>2. new \in Seq(Value) /\ DOMAIN new = 1..k /\ new[k] = v /\ DOMAIN old = 1..Len(old)
    BY <2>1
  <2>3. \A j \in 1..Len(old) : new[j] = old[j]
    BY <2>1
  <2>4. \A j : j # k => /\ j \in DOMAIN old <=> j \in DOMAIN new
                        /\ j \in DOMAIN old => new[j] = old[j]
    BY <2>1, <2>2, <2>3
  <2>5. k \in DOMAIN new /\ \A x : Slot(old, k, x) = 0
    BY <2>1, <2>2 DEF Slot
  <2>6. new \in Tables
    BY <2>2 DEF Tables
  <2> DEFINE mid == CountedIn(block, v, taken)
  <2>7. block' = [mid EXCEPT ![a].values = new]
    <3>1. mid[a].values = old
      BY <1>1, CountedKeepsValues
    <3>2. Counted(v, taken) = mid
      BY DEF Counted, CountedIn
    <3> HIDE DEF mid
    <3>3. block' = [mid EXCEPT ![a].values = Append(mid[a].values, v)]
      BY <1>4, <3>2
    <3>4. QED
      BY <3>1, <3>3
  <2>8. \A x : InStore(RestsIn(stack), x) + 0 = InStore(RestsIn(stack), x)
    BY RestsAreStore, StoreCount, InvParts
  <2>9. \A x : InStore(RestsIn(stack'), x) = InStore(RestsIn(stack), x) + Slot(old, k, x)
    BY <1>4, <2>5, <2>8
  <2>10. /\ stack' \in [Thread -> Seq(Frame)] /\ DyingIn(stack') = DyingIn(stack) /\ Distinct(stack')
         /\ lost' = lost /\ block[a].type # "object"
    BY <1>4, InvParts
  <2> HIDE DEF k, new
  <2>11. QED
    BY <1>1, <1>2, <2>2, <2>4, <2>5, <2>6, <2>7, <2>9, <2>10, GiveKeepsInv
<1>5. QED
  BY <1>3, <1>4 DEF Push

LEMMA PutKeepsInv ==
  ASSUME Inv, NEW t \in Thread, NEW a \in Addr, a \in HeldBy(t),
         NEW v \in Value, Mine(t, v), NEW taken \in 0..1, NEW k \in Key, Put(t, a, k, v, taken)
  PROVE  Inv' /\ (Shrinks \/ Gives(a, v))
<1> DEFINE old == block[a].values
           new == [i \in DOMAIN old \cup {k} |-> IF i = k THEN v ELSE old[i]]
<1>1. a \in BlocksIn(block, stack) /\ a \in LiveIn(block)
  BY InvParts
<1>2. held' = OwnedIn(held, t, v, taken - 1)
  BY DEF Put, Given, Owned, OwnedIn
<1>3. CASE block[a].type # "object" /\ Mismatch(t, v, taken)
  BY <1>2, <1>3, MismatchKeepsInv
<1>4. CASE /\ block[a].type = "object"
           /\ block' = [Counted(v, taken) EXCEPT ![a].values =
                          [i \in DOMAIN old \cup {k} |-> IF i = k THEN v ELSE old[i]]]
           /\ stack' = IF k \notin DOMAIN old THEN stack
                       ELSE [stack EXCEPT ![t] = <<[block |-> Scalar, rest |-> <<old[k]>>]>>]
           /\ lost' = lost
  <2>1. PICK K \in SUBSET Key : IsFiniteSet(K) /\ old \in [K -> Value]
    <3>1. old \in Keyed
      BY <1>1, <1>4, InvParts, HeapContent
    <3>2. QED
      BY <3>1 DEF Keyed
  <2>2. new \in [K \cup {k} -> Value] /\ IsFiniteSet(K \cup {k}) /\ K \cup {k} \in SUBSET Key
    BY <2>1, FS_AddElement
  <2>3. new \in Keyed /\ new \in Tables
    BY <2>2 DEF Keyed, Tables
  <2>4. /\ \A j : j # k => /\ j \in DOMAIN old <=> j \in DOMAIN new
                           /\ j \in DOMAIN old => new[j] = old[j]
        /\ k \in DOMAIN new /\ new[k] = v
    OBVIOUS
  <2>5. block' = [CountedIn(block, v, taken) EXCEPT ![a].values = new]
    BY <1>4, Zenon DEF Counted, CountedIn
  <2> HIDE DEF new
  <2>6. /\ stack' \in [Thread -> Seq(Frame)] /\ DyingIn(stack') = DyingIn(stack) /\ Distinct(stack')
        /\ \A x : InStore(RestsIn(stack'), x) = InStore(RestsIn(stack), x) + Slot(old, k, x)
    <3>1. CASE k \notin DOMAIN old
      <4>1. \A x : InStore(RestsIn(stack), x) + 0 = InStore(RestsIn(stack), x)
        BY RestsAreStore, StoreCount, InvParts
      <4>2. \A x : Slot(old, k, x) = 0
        BY <3>1 DEF Slot
      <4>3. stack' = stack
        BY <1>4, <3>1
      <4>4. QED
        BY <4>1, <4>2, <4>3, InvParts
    <3>2. CASE k \in DOMAIN old
      <4> DEFINE w == old[k]
      <4>1. w \in Value /\ stack' = [stack EXCEPT ![t] = <<[block |-> Scalar, rest |-> <<w>>]>>]
        BY <1>4, <2>1, <3>2
      <4>2. \A x : Slot(old, k, x) = Only(w, 1, x)
        BY <3>2 DEF Slot, Only
      <4> HIDE DEF w
      <4>3. Idle(t)
        BY DEF Put
      <4>4. /\ stack' \in [Thread -> Seq(Frame)] /\ DyingIn(stack') = DyingIn(stack) /\ Distinct(stack')
            /\ \A x : InStore(RestsIn(stack'), x) = InStore(RestsIn(stack), x) + Only(w, 1, x)
        BY <4>1, <4>3, LeaveBegins
      <4>5. QED
        BY <4>2, <4>4
    <3>3. QED
      BY <3>1, <3>2
  <2>7. block[a].type # "array" /\ lost' = lost
    BY <1>4
  <2>8. QED
    BY <1>1, <1>2, <2>3, <2>4, <2>5, <2>6, <2>7, GiveKeepsInv
<1>5. QED
  BY <1>3, <1>4 DEF Put

\* The frame on top, and what is left in it without the value that is left next.
LEMMA TopFrame ==
  ASSUME Inv, NEW t \in Thread, ~Idle(t)
  PROVE  /\ stack[t] # <<>> /\ Len(stack[t]) \in Nat /\ <<t, Len(stack[t])>> \in FramesIn(stack)
         /\ Top(t) \in Frame /\ Top(t).block \in Value /\ Top(t).rest \in Rests
         /\ \A i \in DOMAIN Top(t).rest : Top(t).rest[i] \in BlocksIn(block, stack) \cup {Scalar}
<1>1. stack[t] # <<>> /\ stack[t] \in Seq(Frame)
  BY InvParts DEF Idle
<1>2. Len(stack[t]) \in Nat /\ Len(stack[t]) \in 1..Len(stack[t])
  BY <1>1
<1>3. /\ <<t, Len(stack[t])>> \in FramesIn(stack)
      /\ Top(t).block \in Value /\ Top(t).rest \in Rests
      /\ \A i \in DOMAIN Top(t).rest : Top(t).rest[i] \in Value
  BY <1>2, InvParts, FrameTypes DEF Top
<1>4. Top(t) \in Frame
  BY <1>1, <1>2 DEF Top
<1> DEFINE f == <<t, Len(stack[t])>>
<1>5. stack[f[1]][f[2]] = Top(t)
  BY DEF Top
<1> HIDE DEF f
<1>6. ASSUME NEW i \in DOMAIN Top(t).rest, Top(t).rest[i] \in Addr
      PROVE  Top(t).rest[i] \in BlocksIn(block, stack)
  BY <1>3, <1>5, <1>6, InvParts, ReferencedBlocks DEF Good, f
<1>7. QED
  BY <1>1, <1>2, <1>3, <1>4, <1>6 DEF Value

LEMMA PoppedFrame ==
  ASSUME NEW top \in Frame, NEW i \in DOMAIN top.rest
  PROVE  LET popped == [top EXCEPT !.rest = Without(@, i)]
         IN  /\ popped \in Frame /\ popped.block = top.block
             /\ \A x : /\ InTable(popped.rest, x) = InTable(top.rest, x) - Only(top.rest[i], 1, x)
                       /\ InTable(top.rest, x) \in Nat /\ Only(top.rest[i], 1, x) \in Nat
<1> DEFINE rest == Without(top.rest, i)
<1>1. top.rest \in Rests /\ top.block \in Value
  BY DEF Frame
<1>2. PICK D \in SUBSET (Nat \cup Key) : IsFiniteSet(D) /\ top.rest \in [D -> Value]
  BY <1>1 DEF Rests
<1>3. rest \in [D \ {i} -> Value] /\ IsFiniteSet(D \ {i}) /\ D \ {i} \subseteq Nat \cup Key
  BY <1>2, FS_Subset DEF Without
<1>4. rest \in Rests
  BY <1>3, TableIsRest
<1>5. /\ \A j : j # i => /\ j \in DOMAIN top.rest <=> j \in DOMAIN rest
                         /\ j \in DOMAIN top.rest => rest[j] = top.rest[j]
      /\ i \notin DOMAIN rest
  BY DEF Without
<1>6. [top EXCEPT !.rest = rest] \in Frame
  BY <1>1, <1>4 DEF Frame
<1> HIDE DEF rest
<1>7. ASSUME NEW x
      PROVE  /\ InTable(rest, x) = InTable(top.rest, x) - Only(top.rest[i], 1, x)
             /\ InTable(top.rest, x) \in Nat /\ Only(top.rest[i], 1, x) \in Nat
  <2>1. IsTable(top.rest) /\ IsTable(rest)
    BY <1>1, <1>4, RestIsTable
  <2>2. InTable(rest, x) = InTable(top.rest, x) - Slot(top.rest, i, x) + Slot(rest, i, x)
    BY <1>5, <2>1, TableChange
  <2>3. Slot(rest, i, x) = 0 /\ Slot(top.rest, i, x) = Only(top.rest[i], 1, x) /\ Only(top.rest[i], 1, x) \in Nat
    BY <1>5 DEF Slot, Only
  <2>4. InTable(top.rest, x) \in Nat
    BY <2>1, TableCount
  <2>5. QED
    BY <2>2, <2>3, <2>4
<1>8. [top EXCEPT !.rest = rest].rest = rest /\ [top EXCEPT !.rest = rest].block = top.block
  BY DEF Frame
<1>9. QED
  BY <1>6, <1>7, <1>8, Zenon DEF rest

\* One step of a cascade: a value is left, with one reference less, or its block starts to be
\* disposed of.
LEMMA LeaveNextKeepsInv ==
  ASSUME Inv, NEW t \in Thread, ~Idle(t), NEW i \in DOMAIN Top(t).rest, LeaveNext(t, i)
  PROVE  Inv' /\ Shrinks
<1> DEFINE v == Top(t).rest[i]
           popped == [Top(t) EXCEPT !.rest = Without(@, i)]
           mid == [stack EXCEPT ![t] = Append(Below(t), popped)]
           B == BlocksIn(block, stack)
<1>1. /\ stack[t] # <<>> /\ Top(t) \in Frame /\ v \in B \cup {Scalar}
      /\ v \in Value /\ v \in LiveIn(block) \cup {Scalar}
  BY TopFrame, InvParts DEF Value, LiveIn
<1>2. /\ popped \in Frame /\ popped.block = Top(t).block
      /\ \A x : /\ InTable(popped.rest, x) = InTable(Top(t).rest, x) - Only(v, 1, x)
                /\ InTable(Top(t).rest, x) \in Nat /\ Only(v, 1, x) \in Nat
  BY <1>1, PoppedFrame
<1> HIDE DEF popped
<1>3. Replaced(stack, mid, Top(t), popped)
  BY <1>1, <1>2, InvParts, StackTop DEF Top, Below
<1> HIDE DEF mid, v
<1>4. /\ mid \in [Thread -> Seq(Frame)] /\ DyingIn(mid) = DyingIn(stack) /\ Distinct(mid)
  BY <1>3 DEF Replaced
<1>5. ASSUME NEW x
      PROVE  /\ InStore(RestsIn(mid), x) = InStore(RestsIn(stack), x) - Only(v, 1, x)
             /\ InStore(RestsIn(stack), x) \in Nat /\ Only(v, 1, x) \in Nat
  <2>1. InStore(RestsIn(mid), x) = InStore(RestsIn(stack), x) - InTable(Top(t).rest, x) + InTable(popped.rest, x)
    BY <1>3 DEF Replaced
  <2>2. /\ InTable(popped.rest, x) = InTable(Top(t).rest, x) - Only(v, 1, x)
        /\ InTable(Top(t).rest, x) \in Nat /\ Only(v, 1, x) \in Nat
    BY <1>2
  <2>3. InStore(RestsIn(stack), x) \in Nat
    BY InvParts, RestsAreStore, StoreCount
  <2>4. QED
    BY <2>1, <2>2, <2>3
<1>6. held' = held /\ lost' = lost
  BY DEF LeaveNext
<1>7. CASE /\ ~(v \in Addr /\ block[v].count = 1)
           /\ stack' = mid /\ block' = Counted(v, -1)
  <2>1. -1 \in Int /\ (v \in Addr => block[v].count + (-1) \in Nat /\ block[v].count + (-1) > 0)
    BY <1>1, <1>7, InvParts, HeapContent, ScalarAssumption DEF Good, Exact
  <2>2. CountMoved(block, block', v, -1)
    <3>1. block' = CountedIn(block, v, -1)
      BY <1>7 DEF Counted, CountedIn
    <3>2. QED
      BY <1>1, <2>1, <3>1, InvParts, CountChange
  <2>3. BlocksIn(block', stack') = B /\ ValuesIn(block', B) = ValuesIn(block, B)
    BY <1>4, <1>7, <2>2, SameValues DEF BlocksIn, CountMoved
  <2>4. TotalsMoved(block, held, stack, lost, block', held', stack', lost', v, -1)
    <3>1. SUFFICES ASSUME NEW x \in Addr
                   PROVE  Total(block', held', stack', lost', x) =
                            Total(block, held, stack, lost, x) + Only(v, -1, x)
      BY DEF TotalsMoved
    <3>2. HeldIn(held, x) \in Nat /\ InStore(ValuesIn(block, B), x) \in Nat /\ lost[x] \in Nat
      BY PartsAreNumbers DEF Inv, Good
    <3>3. /\ InStore(RestsIn(stack'), x) = InStore(RestsIn(stack), x) - Only(v, 1, x)
          /\ InStore(RestsIn(stack), x) \in Nat
      BY <1>5, <1>7
    <3>4. Only(v, -1, x) = 0 - Only(v, 1, x) /\ Only(v, 1, x) \in Nat
      BY DEF Only
    <3>5. QED
      BY <1>6, <2>3, <3>2, <3>3, <3>4 DEF Total
  <2>5. Exact(block', held', stack', lost')
    <3>1. CountsAre(block, block', v, -1)
      BY <2>2 DEF CountMoved, CountsAre
    <3>2. /\ Good(block, held, stack, lost) /\ BlocksIn(block', stack') = BlocksIn(block, stack)
          /\ v \in BlocksIn(block, stack) \cup {Scalar}
      BY <1>1, <2>3, InvParts
    <3>3. QED
      BY <2>1, <2>4, <3>1, <3>2, CountFollows
  <2>6. Inv'
    BY <1>4, <1>6, <1>7, <2>2, <2>5, InvParts DEF Inv, Good, Typed, OwnFrames, CountMoved
  <2>7. Shrinks
    BY <2>2, <2>3, InvParts DEF Shrinks, CountMoved
  <2>8. QED
    BY <2>6, <2>7
<1>8. CASE /\ v \in Addr /\ block[v].count = 1 /\ block' = block
           /\ stack' = [stack EXCEPT ![t] =
                Below(t) \o <<popped, [block |-> v, rest |-> block[v].values]>>]
  <2> DEFINE fr == [block |-> v, rest |-> block[v].values]
  <2>1. v \in B /\ v \in LiveIn(block) /\ v # Scalar /\ v \notin DyingIn(stack)
    BY <1>1, <1>8, ScalarAssumption DEF BlocksIn
  <2>2. fr \in Frame /\ fr.block = v /\ fr.rest = block[v].values
    BY <1>1, <2>1, InvParts, HeapContent DEF Frame
  <2> HIDE DEF fr
  <2>3. stack' = [mid EXCEPT ![t] = Append(mid[t], fr)]
    <3>1. Below(t) \in Seq(Frame)
      <4>1. Len(stack[t]) - 1 \in Nat /\ Len(stack[t]) - 1 <= Len(stack[t]) /\ stack[t] \in Seq(Frame)
        BY <1>1, InvParts
      <4>2. QED
        BY <4>1, FrontOf DEF Below
    <3>2. Below(t) \o <<popped, fr>> = Append(Append(Below(t), popped), fr)
      BY <1>2, <2>2, <3>1
    <3>3. mid[t] = Append(Below(t), popped) /\ mid = [stack EXCEPT ![t] = Append(Below(t), popped)]
      BY InvParts DEF mid
    <3>4. stack' = [stack EXCEPT ![t] = Append(mid[t], fr)]
      BY <1>8, <3>2, <3>3 DEF fr
    <3>5. QED
      BY <3>3, <3>4
  <2>4. Pushed(mid, stack', fr)
    BY <1>4, <2>2, <2>3, StackPush
  <2>5. /\ stack' \in [Thread -> Seq(Frame)] /\ Distinct(stack')
        /\ DyingIn(stack') = DyingIn(stack) \cup {v}
    BY <1>4, <2>1, <2>2, <2>4 DEF Pushed
  <2>6. BlocksIn(block', stack') = B \ {v}
    BY <1>8, <2>5 DEF BlocksIn
  <2>7. ASSUME NEW x \in Addr
        PROVE  Total(block', held', stack', lost', x) = Total(block, held, stack, lost, x) - Only(v, 1, x)
    <3>1. HeldIn(held, x) \in Nat /\ lost[x] \in Nat
      BY PartsAreNumbers DEF Inv, Good
    <3>2. /\ InStore(ValuesIn(block, B), x) = InStore(ValuesIn(block, B \ {v}), x) + InTable(block[v].values, x)
          /\ InStore(ValuesIn(block, B \ {v}), x) \in Nat /\ InTable(block[v].values, x) \in Nat
      BY <2>1, InvParts, BlockLeaves
    <3>3. InStore(RestsIn(stack'), x) = InStore(RestsIn(mid), x) + InTable(block[v].values, x)
      BY <2>2, <2>4 DEF Pushed
    <3>4. /\ InStore(RestsIn(mid), x) = InStore(RestsIn(stack), x) - Only(v, 1, x)
          /\ InStore(RestsIn(stack), x) \in Nat /\ Only(v, 1, x) \in Nat
      BY <1>5
    <3>5. Total(block', held', stack', lost', x) =
            HeldIn(held, x) + InStore(ValuesIn(block, B \ {v}), x) + InStore(RestsIn(stack'), x) + lost[x]
      BY <1>6, <1>8, <2>6, Zenon DEF Total
    <3>6. Total(block, held, stack, lost, x) =
            HeldIn(held, x) + InStore(ValuesIn(block, B), x) + InStore(RestsIn(stack), x) + lost[x]
      BY DEF Total
    <3> HIDE DEF B
    <3>7. QED
      BY <3>1, <3>2, <3>3, <3>4, <3>5, <3>6
  <2>8. Exact(block', held', stack', lost')
    <3>1. SUFFICES ASSUME NEW x \in Addr
                   PROVE  /\ Total(block', held', stack', lost', x) = IF x \in B \ {v} THEN block[x].count ELSE 0
                          /\ x \in LiveIn(block) => block[x].count > 0
      BY <1>8, <2>6 DEF Exact
    <3>2. /\ Total(block, held, stack, lost, x) = IF x \in B THEN block[x].count ELSE 0
          /\ x \in LiveIn(block) => block[x].count > 0
      BY InvParts DEF Good, Exact
    <3>3. x \in B => block[x].count \in Nat
      BY InvParts, HeapContent
    <3>4. Total(block', held', stack', lost', x) = Total(block, held, stack, lost, x) - Only(v, 1, x)
      BY <2>7
    <3> HIDE DEF B
    <3>5. QED
      BY <1>8, <2>1, <3>2, <3>3, <3>4 DEF Only
  <2>9. Inv'
    BY <1>6, <1>8, <2>1, <2>5, <2>8, InvParts DEF Inv, Good, Typed, OwnFrames
  <2>10. Shrinks
    BY <1>8, <2>6 DEF Shrinks
  <2>11. QED
    BY <2>9, <2>10
<1>9. QED
  BY <1>7, <1>8 DEF LeaveNext, mid, v, popped

\* The disposal returns: the block it was of is freed.
LEMMA FinishKeepsInv ==
  ASSUME Inv, NEW t \in Thread, ~Idle(t), Finish(t)
  PROVE  Inv' /\ Shrinks
<1> DEFINE fr == Top(t)
           b == fr.block
           B == BlocksIn(block, stack)
<1>1. stack[t] # <<>> /\ fr \in Frame /\ b \in Value /\ DOMAIN fr.rest = {}
  BY TopFrame DEF Finish
<1>2. Dropped(stack, stack', fr)
  BY <1>1, InvParts, StackDrop DEF Finish, Below, Top
<1>3. /\ block' = (IF b = Scalar THEN block ELSE [block EXCEPT ![b] = Free])
      /\ held' = held /\ lost' = lost
  BY DEF Finish
<1>4. \A x : InTable(fr.rest, x) = 0
  BY <1>1, EmptyTable
<1> HIDE DEF fr
<1>5. /\ stack' \in [Thread -> Seq(Frame)] /\ Distinct(stack')
      /\ DyingIn(stack') = DyingIn(stack) \ {b} /\ (b # Scalar => b \in DyingIn(stack))
  BY <1>2 DEF Dropped
<1>6. ASSUME NEW x PROVE InStore(RestsIn(stack'), x) = InStore(RestsIn(stack), x)
  <2>1. /\ InStore(RestsIn(stack), x) = InStore(RestsIn(stack'), x) + InTable(fr.rest, x)
        /\ InStore(RestsIn(stack), x) \in Nat
    BY <1>2 DEF Dropped
  <2>2. InStore(RestsIn(stack'), x) \in Nat
    BY <1>5, RestsAreStore, StoreCount
  <2>3. QED
    BY <1>4, <2>1, <2>2
<1> HIDE DEF b
<1>7. /\ block' \in [Addr -> Content \cup {Free}] /\ LiveIn(block') = LiveIn(block) \ {b}
      /\ \A a \in Addr \ {b} : block'[a] = block[a]
  BY <1>1, <1>3, InvParts, ScalarAssumption DEF Heap, LiveIn, Value
<1>8. block' \in Heap
  BY <1>7, InvParts, HeapContent DEF Heap, Shaped, LiveIn
<1>9. BlocksIn(block', stack') = B /\ b \notin B
  <2>1. b = Scalar => b \notin LiveIn(block) /\ b \notin DyingIn(stack)
    BY ScalarAssumption DEF LiveIn, DyingIn
  <2>2. QED
    BY <1>5, <1>7, <2>1 DEF BlocksIn
<1>10. \A a \in B : block'[a] = block[a]
  BY <1>7, <1>9 DEF BlocksIn, LiveIn
<1>11. ValuesIn(block', B) = ValuesIn(block, B)
  BY <1>10, SameValues
<1>12. Exact(block', held', stack', lost')
  <2>1. SUFFICES ASSUME NEW x \in Addr
                 PROVE  /\ Total(block', held', stack', lost', x) = IF x \in B THEN block'[x].count ELSE 0
                        /\ x \in LiveIn(block') => block'[x].count > 0
    BY <1>9 DEF Exact
  <2>2. Total(block', held', stack', lost', x) = Total(block, held, stack, lost, x)
    BY <1>3, <1>6, <1>9, <1>11 DEF Total
  <2>3. /\ Total(block, held, stack, lost, x) = IF x \in B THEN block[x].count ELSE 0
        /\ x \in LiveIn(block) => block[x].count > 0
    BY InvParts DEF Good, Exact
  <2>4. QED
    BY <1>7, <1>10, <2>2, <2>3
<1>13. DyingIn(stack') \subseteq LiveIn(block')
  BY <1>5, <1>7, InvParts
<1>14. Inv'
  BY <1>3, <1>5, <1>8, <1>12, <1>13, InvParts DEF Inv, Good, Typed, OwnFrames
<1>15. Shrinks
  BY <1>9, <1>10 DEF Shrinks
<1>16. QED
  BY <1>14, <1>15

LEMMA StepKeepsInv ==
  ASSUME Inv, Next
  PROVE  Inv' /\ (\/ Shrinks
                  \/ \E a \in Addr : Creates(a)
                  \/ \E a \in Addr : \E v \in Value : Acyclic(a, v) /\ Gives(a, v))
<1> DEFINE Changes == \/ Shrinks
                      \/ \E a \in Addr : Creates(a)
                      \/ \E a \in Addr : \E v \in Value : Acyclic(a, v) /\ Gives(a, v)
<1>2. ASSUME NEW t \in Thread, Leaving(t) PROVE Inv' /\ Changes
  BY <1>2, LeaveNextKeepsInv, FinishKeepsInv DEF Leaving
<1>3. ASSUME NEW t \in Thread, NEW a \in Addr, NEW type \in Kind, Create(t, a, type) PROVE Inv' /\ Changes
  BY <1>3, CreateKeepsInv
<1>4. ASSUME NEW t \in Thread, NEW a \in Addr, Take(t, a) PROVE Inv' /\ Changes
  BY <1>4, TakeKeepsInv
<1>5. ASSUME NEW t \in Thread, NEW a \in Addr, Leave(t, a) PROVE Inv' /\ Changes
  BY <1>5, LeaveKeepsInv
<1>6. ASSUME NEW t \in Thread, NEW a \in Addr, NEW u \in Thread \ {t}, Send(t, u, a) PROVE Inv' /\ Changes
  BY <1>6, SendKeepsInv
<1>7. ASSUME NEW t \in Thread, NEW a \in Addr, NEW i \in DOMAIN block[a].values, TakeFrom(t, a, i)
      PROVE  Inv' /\ Changes
  BY <1>7, TakeFromKeepsInv
<1>8. ASSUME NEW t \in Thread, NEW a \in Addr, Private(t, a), NEW v \in Value, Mine(t, v), Acyclic(a, v),
             NEW taken \in 0..1, Push(t, a, v, taken) \/ \E k \in Key : Put(t, a, k, v, taken)
      PROVE  Inv' /\ Changes
  <2>1. a \in HeldBy(t)
    BY <1>8 DEF Private
  <2>2. Inv' /\ (Shrinks \/ Gives(a, v))
    BY <1>8, <2>1, PushKeepsInv, PutKeepsInv
  <2>3. QED
    BY <1>8, <2>2
<1> HIDE DEF Changes
<1>9. Inv' /\ Changes
  BY <1>2, <1>3, <1>4, <1>5, <1>6, <1>7, <1>8 DEF Next
<1>10. QED
  BY <1>9 DEF Changes

LEMMA NextKeepsInv == Inv /\ [Next]_vars => Inv'
<1>1. Inv /\ UNCHANGED vars => Inv'
  BY DEF vars, Inv
<1>2. QED
  BY <1>1, StepKeepsInv

LEMMA AlwaysInv == Spec => []Inv
BY Initially, NextKeepsInv, PTL DEF Spec

-----------------------------------------------------------------------------
\* The count of a block is the number of references to it, in every state of every cascade of
\* leaves, whatever the threads do meanwhile.
THEOREM CountsAreExact == Spec => []CountsExact
BY AlwaysInv, InvIsExact, PTL

LEMMA InvIsOnce == Inv => DisposedOnce
<1> SUFFICES ASSUME Inv PROVE DisposedOnce
  OBVIOUS
<1>1. \A f, g \in Frames : FrameOf(f).block = FrameOf(g).block /\ FrameOf(f).block # Scalar => f = g
  BY StateIs, InvParts DEF Distinct
<1>2. ASSUME NEW t \in Thread PROVE HeldBy(t) \subseteq Live
  BY <1>2, StateIs, InvParts
<1>3. ASSUME NEW t \in Thread, NEW a \in InStack(t) PROVE a \in Live
  <2>1. PICK i \in 1..Len(stack[t]) : stack[t][i].block = a \/ Places(stack[t][i].rest, a) # {}
    BY DEF InStack
  <2>2. a \in Addr
    BY DEF InStack
  <2> DEFINE f == <<t, i>>
  <2>3. f \in FramesIn(stack) /\ stack[f[1]][f[2]] = stack[t][i]
    BY FramesAre
  <2> HIDE DEF f
  <2>4. CASE stack[t][i].block = a
    <3>1. BlockIn(stack, f) = a /\ a # Scalar
      BY <2>2, <2>3, <2>4, ScalarAssumption DEF BlockIn
    <3>2. a \in DyingIn(stack)
      BY <2>3, <3>1 DEF DyingIn
    <3>3. QED
      BY <3>2, StateIs, InvParts
  <2>5. CASE Places(stack[t][i].rest, a) # {}
    <3>1. PICK j \in DOMAIN stack[f[1]][f[2]].rest : stack[f[1]][f[2]].rest[j] = a
      BY <2>3, <2>5 DEF Places
    <3>2. a \in BlocksIn(block, stack)
      BY <2>2, <2>3, <3>1, InvParts, ReferencedBlocks DEF Good
    <3>3. QED
      BY <3>2, StateIs DEF BlocksIn
  <2>6. QED
    BY <2>1, <2>4, <2>5
<1>4. ASSUME NEW b \in Live \ Dying PROVE Range(block[b].values) \subseteq Live \cup {Scalar}
  <2>1. b \in BlocksIn(block, stack) /\ b \in LiveIn(block)
    BY StateIs DEF BlocksIn
  <2>2. \A i \in DOMAIN block[b].values : block[b].values[i] \in Value
    BY <2>1, InvParts, HeapContent
  <2>3. ASSUME NEW i \in DOMAIN block[b].values, block[b].values[i] \in Addr
        PROVE  block[b].values[i] \in BlocksIn(block, stack)
    BY <2>1, <2>3, InvParts, ReferencedBlocks DEF Good
  <2>4. QED
    BY <2>2, <2>3, StateIs DEF Range, BlocksIn, Value
<1>5. QED
  BY <1>1, <1>2, <1>3, <1>4 DEF DisposedOnce

\* A block is disposed of by one thread, once, and is not freed while anybody refers to it.
THEOREM OnceDisposed == Spec => []DisposedOnce
BY AlwaysInv, InvIsOnce, PTL

-----------------------------------------------------------------------------
\* What can be reached.  The definition goes as many steps as there are addresses; that is
\* enough for the set to be closed, since every step that is not the last finds an address.

Near(near) == near \cup {a \in Addr : \E b \in near : block[b] # Free /\ Places(block[b].values, a) # {}}
Steps(from, k, g) == g = [n \in 0..k |-> IF n = 0 THEN from ELSE Near(g[n - 1])]

LEMMA ReachableIsSteps ==
  ASSUME NEW from
  PROVE  Reachable(from) = (CHOOSE g : Steps(from, Cardinality(Addr), g))[Cardinality(Addr)]
BY DEF Reachable, Steps, Near

LEMMA StepsExist ==
  ASSUME NEW from, NEW N \in Nat
  PROVE  \E g : Steps(from, N, g)
<1> DEFINE Bad == {k \in 0..N : ~\E g : Steps(from, k, g)}
<1>1. SUFFICES ASSUME Bad # {} PROVE FALSE
  OBVIOUS
<1>2. PICK m \in Bad : \A k \in Bad : m <= k
  <2>1. Bad \subseteq 0..N
    OBVIOUS
  <2> HIDE DEF Bad
  <2>2. QED
    BY <1>1, <2>1, SmallestNumber
<1>3. CASE m = 0
  <2> DEFINE g == [n \in 0..0 |-> from]
  <2>1. g = [n \in 0..0 |-> IF n = 0 THEN from ELSE Near(g[n - 1])]
    OBVIOUS
  <2>2. Steps(from, 0, g)
    BY <2>1 DEF Steps
  <2>3. QED
    BY <1>3, <2>2
<1>4. CASE m # 0
  <2>1. m \in 0..N /\ m - 1 \in 0..N /\ m \in Nat /\ ~(m <= m - 1)
    BY <1>4
  <2>2. PICK g : Steps(from, m - 1, g)
    BY <1>2, <2>1
  <2> DEFINE last == Near(g[m - 1])
             h == [n \in 0..m |-> IF n = m THEN last ELSE g[n]]
  <2>3. \A n \in 0..(m - 1) : g[n] = IF n = 0 THEN from ELSE Near(g[n - 1])
    BY <2>2 DEF Steps
  <2>4. \A n \in 0..m : h[n] = IF n = 0 THEN from ELSE Near(h[n - 1])
    <3>1. ASSUME NEW n \in 0..m PROVE h[n] = IF n = 0 THEN from ELSE Near(h[n - 1])
      <4>1. CASE n = m
        <5>1. h[n - 1] = g[n - 1] /\ h[n] = last /\ n # 0
          BY <1>4, <2>1, <4>1
        <5>2. QED
          BY <4>1, <5>1
      <4>2. CASE n # m
        <5>1. n \in 0..(m - 1) /\ h[n] = g[n]
          BY <2>1, <4>2
        <5>2. n # 0 => h[n - 1] = g[n - 1]
          BY <2>1, <4>2
        <5>3. QED
          BY <2>3, <5>1, <5>2
      <4>3. QED
        BY <4>1, <4>2
    <3>2. QED
      BY <3>1
  <2>5. Steps(from, m, h)
    <3>1. h = [n \in 0..m |-> h[n]]
      OBVIOUS
    <3> HIDE DEF h
    <3>2. h = [n \in 0..m |-> IF n = 0 THEN from ELSE Near(h[n - 1])]
      BY <2>4, <3>1
    <3>3. QED
      BY <3>2 DEF Steps
  <2>6. QED
    BY <2>5
<1>5. QED
  BY <1>3, <1>4

\* A set of addresses that reaches whatever it refers to.
Closed(s) == Near(s) = s

LEMMA ReachableIsClosed ==
  ASSUME NEW from \in SUBSET Addr
  PROVE  /\ from \subseteq Reachable(from) /\ Reachable(from) \subseteq Addr
         /\ Closed(Reachable(from))
<1> DEFINE N == Cardinality(Addr)
           g == CHOOSE g : Steps(from, N, g)
<1>1. N \in Nat
  BY FiniteAssumption, FS_CardinalityType
<1>2. Steps(from, N, g)
  BY <1>1, StepsExist
<1>3. Reachable(from) = g[N]
  BY ReachableIsSteps
<1> HIDE DEF g, N
<1>4. g[0] = from /\ \A n \in 0..N : n # 0 => g[n] = Near(g[n - 1])
  BY <1>1, <1>2 DEF Steps
\* It only grows.
<1>5. \A n \in 0..N : from \subseteq g[n] /\ g[n] \subseteq Addr
  <2> DEFINE Bad == {n \in 0..N : ~(from \subseteq g[n] /\ g[n] \subseteq Addr)}
  <2>1. SUFFICES ASSUME Bad # {} PROVE FALSE
    OBVIOUS
  <2>2. PICK m \in Bad : \A k \in Bad : m <= k
    <3>1. Bad \subseteq 0..N
      OBVIOUS
    <3> HIDE DEF Bad
    <3>2. QED
      BY <1>1, <2>1, <3>1, SmallestNumber
  <2>3. m # 0
    BY <1>4
  <2>4. m - 1 \in 0..N /\ m - 1 \notin Bad
    BY <1>1, <2>2, <2>3
  <2>5. g[m] = Near(g[m - 1])
    BY <1>4, <2>3
  <2>6. QED
    BY <2>4, <2>5 DEF Near
\* Unless it is closed it has more addresses than steps.
<1>6. ASSUME from # {}, ~Closed(g[N]) PROVE FALSE
  <2>1. \A n \in 0..N : ~Closed(g[n])
    <3> DEFINE Bad == {k \in 0..N : Closed(g[N - k])}
    <3>1. SUFFICES ASSUME Bad # {} PROVE FALSE
      <4>1. ASSUME NEW n \in 0..N, Closed(g[n]) PROVE N - n \in Bad
        <5>1. N - n \in 0..N /\ N - (N - n) = n
          BY <1>1
        <5>2. QED
          BY <4>1, <5>1
      <4>2. QED
        BY <4>1
    <3>2. PICK m \in Bad : \A k \in Bad : m <= k
      <4>1. Bad \subseteq 0..N
        OBVIOUS
      <4> HIDE DEF Bad
      <4>2. QED
        BY <1>1, <3>1, <4>1, SmallestNumber
    <3>3. m # 0 /\ m \in 0..N
      BY <1>1, <1>6
    <3>4. m - 1 \in 0..N /\ m - 1 \notin Bad
      BY <1>1, <3>2, <3>3
    <3> DEFINE n == N - (m - 1)
    <3>5. n \in 0..N /\ n # 0 /\ n - 1 = N - m
      BY <1>1, <3>3
    <3>6. g[n] = Near(g[n - 1])
      BY <1>4, <3>5
    <3>7. Closed(g[N - m])
      OBVIOUS
    <3>8. g[n] = g[n - 1]
      BY <3>5, <3>6, <3>7 DEF Closed
    <3>9. Closed(g[n])
      BY <3>5, <3>7, <3>8
    <3>10. QED
      BY <3>4, <3>9
  <2>2. \A n \in 0..N : IsFiniteSet(g[n]) /\ Cardinality(g[n]) > n /\ Cardinality(g[n]) \in Nat
    <3> DEFINE Bad == {n \in 0..N : ~(Cardinality(g[n]) > n)}
    <3>0. \A n \in 0..N : IsFiniteSet(g[n]) /\ Cardinality(g[n]) \in Nat
      BY <1>5, FiniteAssumption, FS_Subset, FS_CardinalityType
    <3>1. SUFFICES ASSUME Bad # {} PROVE FALSE
      BY <3>0
    <3>2. PICK m \in Bad : \A k \in Bad : m <= k
      <4>1. Bad \subseteq 0..N
        OBVIOUS
      <4> HIDE DEF Bad
      <4>2. QED
        BY <1>1, <3>1, <4>1, SmallestNumber
    <3>3. CASE m = 0
      <4>1. Cardinality(from) # 0 /\ Cardinality(from) \in Nat
        BY <1>4, <1>6, <3>0, <3>3, FS_EmptySet
      <4>2. QED
        BY <1>4, <3>3, <4>1
    <3>4. CASE m # 0
      <4>1. m - 1 \in 0..N /\ m - 1 \notin Bad /\ m \in 0..N
        BY <1>1, <3>2, <3>4
      <4>2. g[m] = Near(g[m - 1]) /\ g[m] # g[m - 1]
        BY <1>4, <2>1, <3>4, <4>1 DEF Closed
      <4>3. g[m - 1] \subseteq g[m]
        BY <4>2 DEF Near
      <4>4. Cardinality(g[m - 1]) < Cardinality(g[m])
        <5> DEFINE s == g[m - 1]
                   u == g[m]
        <5>1. IsFiniteSet(u) /\ s \subseteq u /\ s # u
          BY <3>0, <4>1, <4>2, <4>3
        <5> HIDE DEF s, u
        <5>2. Cardinality(s) <= Cardinality(u) /\ Cardinality(s) # Cardinality(u)
          BY <5>1, FS_Subset
        <5>3. Cardinality(s) \in Nat /\ Cardinality(u) \in Nat
          BY <3>0, <4>1 DEF s, u
        <5>4. Cardinality(s) < Cardinality(u)
          BY <5>2, <5>3
        <5>5. QED
          BY <5>4 DEF s, u
      <4>5. Cardinality(g[m - 1]) > m - 1 /\ Cardinality(g[m - 1]) \in Nat /\ Cardinality(g[m]) \in Nat
        BY <3>0, <4>1
      <4>6. Cardinality(g[m]) > m
        BY <4>1, <4>4, <4>5
      <4>7. QED
        BY <4>6
    <3>5. QED
      BY <3>3, <3>4
  <2>3. Cardinality(g[N]) > N /\ Cardinality(g[N]) \in Nat /\ N \in 0..N
    BY <1>1, <2>2
  <2>4. Cardinality(g[N]) <= N
    BY <1>5, <2>3, FiniteAssumption, FS_Subset DEF N
  <2>5. QED
    BY <1>1, <2>3, <2>4
<1>7. CASE from = {}
  <2> DEFINE Bad == {n \in 0..N : g[n] # {}}
  <2>1. SUFFICES ASSUME Bad # {} PROVE FALSE
    <3>1. g[N] = {}
      BY <1>1, <2>1
    <3>2. QED
      BY <1>3, <1>7, <3>1 DEF Closed, Near
  <2>2. PICK m \in Bad : \A k \in Bad : m <= k
    <3>1. Bad \subseteq 0..N
      OBVIOUS
    <3> HIDE DEF Bad
    <3>2. QED
      BY <1>1, <2>1, <3>1, SmallestNumber
  <2>3. m # 0
    BY <1>4, <1>7
  <2>4. m - 1 \in 0..N /\ m - 1 \notin Bad
    BY <1>1, <2>2, <2>3
  <2>5. g[m] = Near(g[m - 1])
    BY <1>4, <2>3
  <2>6. QED
    BY <2>4, <2>5 DEF Near
<1>8. CASE from # {}
  BY <1>1, <1>3, <1>5, <1>6, <1>8
<1>9. QED
  BY <1>7, <1>8

-----------------------------------------------------------------------------
\* Containers without cycles: every set of blocks has one that no other of the set refers to.

NoCycle(bl, B) ==
  \A L \in SUBSET B : L # {} => \E x \in L : \A b \in L : Places(bl[b].values, x) = {}

HeapInv == Inv /\ NoCycle(block, BlocksIn(block, stack))

LEMMA ShrinksKeeps ==
  ASSUME NoCycle(block, BlocksIn(block, stack)), Shrinks
  PROVE  NoCycle(block', BlocksIn(block', stack'))
<1> SUFFICES ASSUME NEW L \in SUBSET BlocksIn(block', stack'), L # {}
             PROVE  \E x \in L : \A b \in L : Places(block'[b].values, x) = {}
  BY DEF NoCycle
<1>1. L \in SUBSET BlocksIn(block, stack) /\ \A b \in L : block'[b].values = block[b].values
  BY DEF Shrinks
<1>2. PICK x \in L : \A b \in L : Places(block[b].values, x) = {}
  BY <1>1 DEF NoCycle
<1>3. QED
  BY <1>1, <1>2

\* Nobody refers to a block that is new, and it refers to nobody.
LEMMA CreatesKeeps ==
  ASSUME NoCycle(block, BlocksIn(block, stack)), NEW a \in Addr, Creates(a)
  PROVE  NoCycle(block', BlocksIn(block', stack'))
<1> SUFFICES ASSUME NEW L \in SUBSET BlocksIn(block', stack'), L # {}
             PROVE  \E x \in L : \A b \in L : Places(block'[b].values, x) = {}
  BY DEF NoCycle
<1>1. \A x : Places(block'[a].values, x) = {}
  BY DEF Creates, Places
<1>2. CASE L = {a}
  BY <1>1, <1>2
<1>3. CASE L # {a}
  <2> DEFINE M == L \ {a}
  <2>1. M # {} /\ M \in SUBSET BlocksIn(block, stack) /\ \A b \in M : block'[b].values = block[b].values
    BY <1>3 DEF Creates
  <2>2. PICK x \in M : \A b \in M : Places(block[b].values, x) = {}
    BY <2>1 DEF NoCycle
  <2>3. QED
    BY <1>1, <2>1, <2>2
<1>4. QED
  BY <1>2, <1>3

\* A link from a to v closes no cycle when a cannot be reached from v: of a set with both, take
\* what v does not reach.
LEMMA GivesKeeps ==
  ASSUME NoCycle(block, BlocksIn(block, stack)),
         NEW a \in Addr, NEW v \in Value, Acyclic(a, v), Gives(a, v)
  PROVE  NoCycle(block', BlocksIn(block', stack'))
<1> SUFFICES ASSUME NEW L \in SUBSET BlocksIn(block', stack'), L # {}
             PROVE  \E x \in L : \A b \in L : Places(block'[b].values, x) = {}
  BY DEF NoCycle
<1>1. /\ L \in SUBSET BlocksIn(block, stack)
      /\ \A b \in L : \A x : Places(block'[b].values, x) # {} =>
           Places(block[b].values, x) # {} \/ (b = a /\ x = v)
  BY DEF Gives
<1>2. CASE a \notin L \/ v \notin L
  <2>1. PICK x \in L : \A b \in L : Places(block[b].values, x) = {}
    BY <1>1 DEF NoCycle
  <2>2. QED
    BY <1>1, <1>2, <2>1
<1>3. CASE a \in L /\ v \in L
  <2> DEFINE R == Reachable({v} \cap Addr)
             M == L \ R
  <2>1. /\ {v} \cap Addr \subseteq R /\ Near(R) = R /\ a \notin R
    BY ReachableIsClosed DEF Closed, Acyclic
  <2>2. v \in R
    BY <1>1, <1>3, <2>1 DEF BlocksIn, LiveIn
  <2> HIDE DEF R
  <2>3. M # {} /\ M \in SUBSET BlocksIn(block, stack)
    BY <1>1, <1>3, <2>1
  <2>4. PICK x \in M : \A b \in M : Places(block[b].values, x) = {}
    BY <2>3 DEF NoCycle
  <2>5. \A b \in L : Places(block[b].values, x) = {}
    <3>1. ASSUME NEW b \in L, b \in R, Places(block[b].values, x) # {} PROVE FALSE
      <4>1. block[b] # Free /\ x \in Addr
        BY <1>1, <2>3 DEF BlocksIn, LiveIn
      <4>2. x \in Near(R)
        BY <3>1, <4>1 DEF Near
      <4>3. QED
        BY <2>1, <4>2
    <3>2. QED
      BY <2>4, <3>1
  <2>6. x # v /\ x \in L
    BY <2>2
  <2>7. QED
    BY <1>1, <2>5, <2>6
<1>4. QED
  BY <1>2, <1>3

LEMMA AlwaysHeapInv == Spec => []HeapInv
<1>1. Init => HeapInv
  <2>1. Init => BlocksIn(block, stack) = {}
    BY DEF Init, BlocksIn, LiveIn
  <2>2. QED
    BY <2>1, Initially DEF HeapInv, NoCycle
<1>2. HeapInv /\ [Next]_vars => HeapInv'
  <2>1. HeapInv /\ UNCHANGED vars => HeapInv'
    BY DEF vars, HeapInv, Inv
  <2>2. HeapInv /\ Next => HeapInv'
    BY StepKeepsInv, ShrinksKeeps, CreatesKeeps, GivesKeeps DEF HeapInv
  <2>3. QED
    BY <2>1, <2>2
<1>3. QED
  BY <1>1, <1>2, PTL DEF Spec

\* Of the blocks that cannot be reached one has no reference in another.  It has a count, so a
\* client, a disposal, the lost references or a block that can be reached refers to it.
LEMMA InvLeaksNothing == HeapInv => NothingLeaks
<1> SUFFICES ASSUME HeapInv PROVE NothingLeaks
  OBVIOUS
<1> DEFINE used == UNION {HeldBy(t) \cup InStack(t) : t \in Thread}
           gone == {a \in Addr : lost[a] > 0}
           roots == used \cup gone
           R == Reachable(roots)
           L == LiveIn(block) \ R
           B == BlocksIn(block, stack)
<1>1. Inv /\ NoCycle(block, B)
  BY DEF HeapInv
<1>2. roots \subseteq R /\ Near(R) = R
  <2>1. \A t \in Thread : HeldBy(t) \cup InStack(t) \subseteq Addr
    BY DEF HeldBy, InStack
  <2>2. used \subseteq Addr /\ gone \subseteq Addr
    BY <2>1
  <2>3. roots \in SUBSET Addr
    BY <2>2
  <2> HIDE DEF roots
  <2>4. QED
    BY <2>3, ReachableIsClosed DEF Closed
<1>3. /\ \A t \in Thread : HeldBy(t) \subseteq R /\ InStack(t) \subseteq R
      /\ \A a \in Addr : lost[a] > 0 => a \in R
  <2> HIDE DEF R
  <2>1. used \subseteq R /\ gone \subseteq R
    <3> HIDE DEF used, gone
    <3>1. QED
      BY <1>2
  <2>2. \A t \in Thread : HeldBy(t) \subseteq used /\ InStack(t) \subseteq used
    OBVIOUS
  <2>3. \A a \in Addr : lost[a] > 0 => a \in gone
    OBVIOUS
  <2> HIDE DEF used, gone
  <2>4. QED
    BY <2>1, <2>2, <2>3
<1> HIDE DEF roots, R
<1>4. L \subseteq B
  <2>1. ASSUME NEW b \in DyingIn(stack) PROVE b \in R
    <3>1. PICK f \in FramesIn(stack) : b = BlockIn(stack, f)
      BY DEF DyingIn
    <3>2. PICK t \in Thread : \E i \in 1..Len(stack[t]) : f = <<t, i>>
      BY <3>1, FramesAre
    <3>3. PICK i \in 1..Len(stack[t]) : f = <<t, i>>
      BY <3>2
    <3>4. b = stack[t][i].block /\ b \in Addr
      BY <1>1, <3>1, <3>3, InvParts DEF BlockIn, LiveIn
    <3>5. b \in InStack(t)
      BY <3>4 DEF InStack
    <3>6. QED
      BY <1>3, <3>5
  <2>2. QED
    BY <2>1 DEF BlocksIn
<1>5. SUFFICES ASSUME L # {} PROVE FALSE
  <2>1. Live \subseteq R => NothingLeaks
    BY Zenon DEF NothingLeaks, R, roots, used, gone
  <2> HIDE DEF used, gone
  <2>2. L = {} => Live \subseteq R
    BY StateIs
  <2>3. QED
    BY <2>1, <2>2
<1>6. PICK x \in L : \A b \in L : Places(block[b].values, x) = {}
  BY <1>1, <1>4, <1>5 DEF NoCycle
<1>7. x \in Addr /\ x \notin R /\ x \in B
  BY <1>4 DEF LiveIn
<1>8. HeldIn(held, x) = 0
  <2> DEFINE f == [t \in Thread |-> held[t][x]]
  <2>1. \A t \in Thread : f[t] = 0
    BY <1>1, <1>3, <1>7, InvParts DEF HeldBy
  <2> HIDE DEF f
  <2>2. SumFunctionOnSet(f, Thread) = 0
    BY <2>1, FiniteAssumption, SumZero
  <2>3. QED
    BY <2>2 DEF HeldIn, f
<1>9. lost[x] = 0
  BY <1>1, <1>3, <1>7, InvParts DEF Counts
<1>10. InStore(ValuesIn(block, B), x) = 0
  <2>1. \A b \in B : Places(block[b].values, x) = {}
    <3>1. ASSUME NEW b \in B, Places(block[b].values, x) # {} PROVE FALSE
      <4>1. block[b] # Free /\ b \in R
        BY <1>6, <3>1 DEF BlocksIn, LiveIn
      <4>2. x \in Near(R)
        BY <1>7, <3>1, <4>1 DEF Near
      <4>3. QED
        BY <1>2, <1>7, <4>2
    <3>2. QED
      BY <3>1
  <2>2. Spots(ValuesIn(block, B), x) = {}
    BY <2>1 DEF Spots, Of, ValuesIn
  <2>3. QED
    BY <2>2, FS_EmptySet DEF InStore
<1>11. InStore(RestsIn(stack), x) = 0
  <2>1. ASSUME NEW f \in FramesIn(stack), Places(stack[f[1]][f[2]].rest, x) # {} PROVE FALSE
    <3>1. PICK t \in Thread : \E i \in 1..Len(stack[t]) : f = <<t, i>>
      BY <2>1, FramesAre
    <3>2. PICK i \in 1..Len(stack[t]) : f = <<t, i>>
      BY <3>1
    <3>3. x \in InStack(t)
      BY <1>7, <2>1, <3>2 DEF InStack
    <3>4. QED
      BY <1>3, <1>7, <3>3
  <2>2. Spots(RestsIn(stack), x) = {}
    BY <2>1 DEF Spots, Of, RestsIn
  <2>3. QED
    BY <2>2, FS_EmptySet DEF InStore
<1>12. /\ Total(block, held, stack, lost, x) = block[x].count /\ block[x].count > 0
  BY <1>1, <1>7, InvParts DEF Good, Exact, BlocksIn
<1>13. QED
  BY <1>8, <1>9, <1>10, <1>11, <1>12 DEF Total

\* Nothing leaks: every block that is allocated can still be reached, whatever the threads do, as
\* long as no client builds a cycle.
THEOREM LeaksNothing == Spec => []NothingLeaks
BY AlwaysHeapInv, InvLeaksNothing, PTL

-----------------------------------------------------------------------------
\* The blocks of a value.  A value is at most so deep when a set of values with depths vouches for
\* it, in which what is inside a value is less deep.

Finite(v) == v[1] \in {"array", "object"} => IsFiniteSet(DOMAIN v[2])
Vouches(R) ==
  \A v, n : <<v, n>> \in R =>
    /\ n \in Nat /\ Finite(v)
    /\ \A w \in Parts(v) : \E m \in 0..n - 1 : <<w, m>> \in R
Deep(v, n) == \E R : <<v, n>> \in R /\ Vouches(R)

LEMMA DeepIs ==
  ASSUME NEW v, NEW n, Deep(v, n)
  PROVE  /\ n \in Nat /\ Finite(v)
         /\ \A w \in Parts(v) : \E m \in 0..n - 1 : Deep(w, m)
<1>1. PICK R : <<v, n>> \in R /\ Vouches(R)
  BY DEF Deep
<1>2. /\ n \in Nat /\ Finite(v)
      /\ \A w \in Parts(v) : \E m \in 0..n - 1 : <<w, m>> \in R
  BY <1>1, Zenon DEF Vouches
<1>3. QED
  BY <1>1, <1>2, Zenon DEF Deep

LEMMA DeepJoin ==
  ASSUME NEW v, NEW n \in Nat, Finite(v), \A w \in Parts(v) : \E m \in 0..n - 1 : Deep(w, m)
  PROVE  Deep(v, n)
<1> DEFINE Proof(w, m) == CHOOSE R : <<w, m>> \in R /\ Vouches(R)
           Proofs == {R \in {Proof(w, m) : w \in Parts(v), m \in 0..n - 1} : Vouches(R)}
           All == {<<v, n>>} \cup UNION Proofs
<1>1. \A w \in Parts(v) : \E m \in 0..n - 1 : <<w, m>> \in All
  <2> TAKE w \in Parts(v)
  <2>1. PICK m \in 0..n - 1 : Deep(w, m)
    OBVIOUS
  <2>2. <<w, m>> \in Proof(w, m) /\ Vouches(Proof(w, m))
    BY <2>1, Zenon DEF Deep
  <2> HIDE DEF Proof
  <2>3. Proof(w, m) \in Proofs
    BY <2>2
  <2>4. QED
    BY <2>2, <2>3
<1>2. ASSUME NEW u, NEW k, <<u, k>> \in All
      PROVE  \/ u = v /\ k = n
             \/ \E R : <<u, k>> \in R /\ Vouches(R) /\ R \subseteq All
  <2>1. CASE <<u, k>> = <<v, n>>
    BY <2>1
  <2>2. CASE <<u, k>> \in UNION Proofs
    <3>1. PICK R \in Proofs : <<u, k>> \in R
      BY <2>2
    <3>2. Vouches(R)
      OBVIOUS
    <3> HIDE DEF Proofs
    <3>3. R \subseteq All
      OBVIOUS
    <3>4. QED
      BY <3>1, <3>2, <3>3, Zenon
  <2>3. QED
    BY <1>2, <2>1, <2>2
<1>3. <<v, n>> \in All
  OBVIOUS
<1> HIDE DEF All
<1>4. Vouches(All)
  <2>1. ASSUME NEW u, NEW k, <<u, k>> \in All
        PROVE  /\ k \in Nat /\ Finite(u)
               /\ \A w \in Parts(u) : \E m \in 0..k - 1 : <<w, m>> \in All
    <3>1. CASE u = v /\ k = n
      BY <1>1, <3>1
    <3>2. CASE \E R : <<u, k>> \in R /\ Vouches(R) /\ R \subseteq All
      <4>1. PICK R : <<u, k>> \in R /\ Vouches(R) /\ R \subseteq All
        BY <3>2
      <4>2. QED
        BY <4>1, Zenon DEF Vouches
    <3>3. QED
      BY <1>2, <2>1, <3>1, <3>2, Zenon
  <2>2. QED
    BY <2>1, Zenon DEF Vouches
<1>5. QED
  BY <1>3, <1>4, Zenon DEF Deep

LEMMA DeepMore ==
  ASSUME NEW v, NEW n, Deep(v, n), NEW m \in Nat, n <= m
  PROVE  Deep(v, m)
<1>1. n \in Nat /\ Finite(v) /\ \A w \in Parts(v) : \E k \in 0..n - 1 : Deep(w, k)
  BY DeepIs
<1>2. \A k \in 0..n - 1 : k \in 0..m - 1
  BY <1>1
<1>3. \A w \in Parts(v) : \E k \in 0..m - 1 : Deep(w, k)
  BY <1>1, <1>2, Zenon
<1>4. QED
  BY <1>1, <1>3, DeepJoin, Zenon

\* What is inside a value is one level less deep.
LEMMA DeepInside ==
  ASSUME NEW v, NEW n, Deep(v, n), NEW w \in Parts(v)
  PROVE  n \in Nat /\ n > 0 /\ n - 1 \in Nat /\ Deep(w, n - 1)
<1>1. PICK k \in 0..n - 1 : n \in Nat /\ Deep(w, k)
  BY DeepIs
<1>2. n > 0 /\ n - 1 \in Nat /\ k <= n - 1
  BY <1>1
<1>3. QED
  BY <1>1, <1>2, DeepMore

LEMMA DeepOutside ==
  ASSUME NEW v, NEW n \in Nat, Finite(v), n > 0, \A w \in Parts(v) : Deep(w, n - 1)
  PROVE  Deep(v, n)
<1>1. n - 1 \in 0..n - 1
  OBVIOUS
<1>2. QED
  BY <1>1, DeepJoin, Zenon

-----------------------------------------------------------------------------
\* Inside has everything inside a value that is not too deep for it.

Enough == MaxLevel + 1
Layer(v, w, n) == IF n = 0 THEN {v} ELSE w[n - 1] \cup UNION {Parts(u) : u \in w[n - 1]}
Layers(v, m, w) == w = [n \in 0..m |-> Layer(v, w, n)]
LayersOf(v) == CHOOSE w : Layers(v, Enough, w)

LEMMA InsideIs ==
  ASSUME NEW v
  PROVE  Inside(v) = LayersOf(v)[Enough]
BY DEF Inside, LayersOf, Layers, Layer, Enough

LEMMA LayersAt ==
  ASSUME NEW v, NEW m \in Nat, NEW w, Layers(v, m, w), NEW n \in 0..m
  PROVE  w[n] = Layer(v, w, n)
BY DEF Layers

LEMMA LayersExist ==
  ASSUME NEW v, NEW m \in Nat
  PROVE  \E w : Layers(v, m, w)
<1> DEFINE Bad == {j \in 0..m : ~\E w : Layers(v, j, w)}
<1>1. SUFFICES ASSUME Bad # {} PROVE FALSE
  OBVIOUS
<1>2. PICK j \in Bad : \A i \in Bad : j <= i
  BY <1>1, SmallestNumber
<1>3. j \in 0..m /\ ~\E w : Layers(v, j, w)
  OBVIOUS
<1>4. \A i \in 0..m : i < j => \E w : Layers(v, i, w)
  BY <1>2
<1> HIDE DEF Bad
<1>5. PICK w : \A n \in 0..j - 1 : w[n] = Layer(v, w, n)
  <2>1. CASE j = 0
    BY <2>1
  <2>2. CASE j # 0
    <3>1. PICK i \in 0..m : i = j - 1 /\ i < j
      BY <1>3, <2>2
    <3>2. PICK w : Layers(v, i, w)
      BY <1>4, <3>1
    <3>3. \A n \in 0..i : w[n] = Layer(v, w, n)
      BY <3>2, LayersAt
    <3>4. QED
      BY <3>1, <3>3
  <2>3. QED
    BY <2>1, <2>2
<1> DEFINE u == [n \in 0..j |-> Layer(v, w, n)]
<1>6. \A n \in 0..j : u[n] = Layer(v, w, n)
  OBVIOUS
<1>7. \A n \in 0..j : n = 0 \/ (n - 1 \in 0..j - 1 /\ n - 1 \in 0..j)
  BY <1>3
<1>8. u = [n \in 0..j |-> u[n]]
  OBVIOUS
<1> HIDE DEF u
<1>9. \A n \in 0..j : u[n] = Layer(v, u, n)
  <2> TAKE n \in 0..j
  <2>1. CASE n = 0
    BY <1>6, <2>1 DEF Layer
  <2>2. CASE n # 0
    <3>1. u[n - 1] = w[n - 1]
      BY <1>5, <1>6, <1>7, <2>2
    <3>2. QED
      BY <1>6, <3>1 DEF Layer
  <2>3. QED
    BY <2>1, <2>2
<1>10. u = [n \in 0..j |-> Layer(v, u, n)]
  BY <1>8, <1>9
<1>11. QED
  BY <1>3, <1>10, Zenon DEF Layers

LEMMA LayersTurn ==
  ASSUME NEW v
  PROVE  /\ Enough \in Nat /\ Inside(v) = LayersOf(v)[Enough]
         /\ LayersOf(v)[0] = {v}
         /\ \A n \in 1..Enough :
              LayersOf(v)[n] = LayersOf(v)[n - 1] \cup UNION {Parts(u) : u \in LayersOf(v)[n - 1]}
<1>1. Enough \in Nat
  BY LevelAssumption DEF Enough
<1>2. Layers(v, Enough, LayersOf(v))
  BY <1>1, LayersExist, Zenon DEF LayersOf
<1>3. \A n \in 0..Enough : LayersOf(v)[n] = Layer(v, LayersOf(v), n)
  BY <1>1, <1>2, LayersAt
<1>4. 0 \in 0..Enough /\ \A n \in 1..Enough : n \in 0..Enough /\ n # 0
  BY <1>1
<1>5. QED
  BY <1>1, <1>3, <1>4, InsideIs, Zenon DEF Layer

\* A set that has what is inside each of its values.
Whole(S) == \A v \in S : Parts(v) \subseteq S

LEMMA InsideWhole ==
  ASSUME NEW v, Deep(v, Enough)
  PROVE  v \in Inside(v) /\ Whole(Inside(v)) /\ \A w \in Inside(v) : Deep(w, Enough)
<1> DEFINE L == LayersOf(v)
           Fits(n) == /\ v \in L[n]
                      /\ \A w \in L[n] : Deep(w, Enough) /\ (Parts(w) \subseteq L[n] \/ Deep(w, Enough - n))
           Bad == {n \in 0..Enough : ~Fits(n)}
<1>1. /\ Enough \in Nat /\ Inside(v) = L[Enough] /\ L[0] = {v}
      /\ \A n \in 1..Enough : L[n] = L[n - 1] \cup UNION {Parts(u) : u \in L[n - 1]}
  BY LayersTurn, Zenon
<1> HIDE DEF L
<1>2. Fits(0)
  <2>1. Enough - 0 = Enough
    BY <1>1
  <2>2. QED
    BY <1>1, <2>1
<1>3. ASSUME NEW n \in 1..Enough, Fits(n - 1) PROVE Fits(n)
  <2>1. L[n] = L[n - 1] \cup UNION {Parts(u) : u \in L[n - 1]}
    BY <1>1
  <2>2. v \in L[n]
    BY <1>3, <2>1
  <2>3. ASSUME NEW w \in L[n - 1] PROVE Deep(w, Enough) /\ Parts(w) \subseteq L[n]
    BY <1>3, <2>1
  <2>4. ASSUME NEW u \in L[n - 1], NEW w \in Parts(u)
        PROVE  Deep(w, Enough) /\ (Parts(w) \subseteq L[n] \/ Deep(w, Enough - n))
    <3>1. Deep(u, Enough) /\ (Parts(u) \subseteq L[n - 1] \/ Deep(u, Enough - (n - 1)))
      BY <1>3
    <3>2. Deep(w, Enough)
      <4>1. Deep(w, Enough - 1) /\ Enough - 1 \in Nat
        BY <3>1, DeepInside
      <4>2. Enough - 1 <= Enough
        BY <1>1
      <4>3. QED
        BY <1>1, <4>1, <4>2, DeepMore
    <3>3. CASE Parts(u) \subseteq L[n - 1]
      BY <2>3, <3>2, <3>3
    <3>4. CASE Deep(u, Enough - (n - 1))
      <4>1. Deep(w, Enough - (n - 1) - 1)
        BY <3>4, DeepInside
      <4>2. Enough - (n - 1) - 1 = Enough - n
        BY <1>1
      <4>3. QED
        BY <3>2, <4>1, <4>2
    <3>5. QED
      BY <3>1, <3>3, <3>4
  <2>5. QED
    BY <2>1, <2>2, <2>3, <2>4
<1>4. Bad = {}
  <2>1. SUFFICES ASSUME Bad # {} PROVE FALSE
    OBVIOUS
  <2>2. PICK n \in Bad : \A m \in Bad : n <= m
    BY <1>1, <2>1, SmallestNumber
  <2>3. n \in 0..Enough /\ ~Fits(n) /\ \A m \in 0..Enough : m < n => Fits(m)
    BY <2>2
  <2> HIDE DEF Bad, Fits
  <2>4. n # 0
    BY <1>2, <2>3
  <2>5. n \in 1..Enough /\ n - 1 \in 0..Enough /\ n - 1 < n
    BY <1>1, <2>3, <2>4
  <2>6. QED
    BY <1>3, <2>3, <2>5
<1>5. Fits(Enough)
  BY <1>1, <1>4
<1>6. \A w : Deep(w, Enough - Enough) => Parts(w) = {}
  <2>1. ASSUME NEW w, Deep(w, Enough - Enough), NEW u \in Parts(w) PROVE FALSE
    <3>1. Enough - Enough = 0
      BY <1>1
    <3>2. QED
      BY <2>1, <3>1, DeepInside
  <2>2. QED
    BY <2>1
<1>7. QED
  BY <1>1, <1>5, <1>6 DEF Whole

-----------------------------------------------------------------------------
\* Blocks is what its definition says at every level of a value.

Counting(f, S) == f = [v \in S |-> WithParts(f, v)]
CountingOf(v) == CHOOSE f : Counting(f, Inside(v))

LEMMA BlocksAre ==
  ASSUME NEW v
  PROVE  Blocks(v) = CountingOf(v)[v]
BY DEF Blocks, CountingOf, Counting

LEMMA CountsAt ==
  ASSUME NEW S, NEW f, Counting(f, S), NEW v \in S
  PROVE  f[v] = WithParts(f, v)
BY DEF Counting

\* A sum over a table.
LEMMA TableSum ==
  ASSUME NEW D, IsFiniteSet(D), NEW f, DOMAIN f = D, \A i \in D : f[i] \in Nat
  PROVE  SumFunction(f) \in Nat
BY SumType DEF SumFunction

LEMMA BodySame ==
  ASSUME NEW v, NEW f, NEW g, \A w \in Parts(v) : f[w] = g[w]
  PROVE  WithParts(f, v) = WithParts(g, v)
<1>1. CASE v[1] \in {"array", "object"}
  <2>1. \A i \in DOMAIN v[2] : f[v[2][i]] = g[v[2][i]]
    BY <1>1 DEF Parts
  <2>2. [i \in DOMAIN v[2] |-> f[v[2][i]]] = [i \in DOMAIN v[2] |-> g[v[2][i]]]
    BY <2>1
  <2>3. [k \in DOMAIN v[2] |-> 1 + f[v[2][k]]] = [k \in DOMAIN v[2] |-> 1 + g[v[2][k]]]
    BY <2>1
  <2>4. QED
    BY <2>2, <2>3, Zenon DEF WithParts
<1>2. CASE v[1] \notin {"array", "object"}
  BY <1>2 DEF WithParts
<1>3. QED
  BY <1>1, <1>2

LEMMA BodyCounts ==
  ASSUME NEW v, Finite(v), NEW f, \A w \in Parts(v) : f[w] \in Nat
  PROVE  WithParts(f, v) \in Nat
<1>1. CASE v[1] \in {"array", "object"}
  <2>1. IsFiniteSet(DOMAIN v[2]) /\ \A i \in DOMAIN v[2] : f[v[2][i]] \in Nat /\ 1 + f[v[2][i]] \in Nat
    BY <1>1 DEF Parts, Finite
  <2>2. SumFunction([i \in DOMAIN v[2] |-> f[v[2][i]]]) \in Nat
    BY <2>1, TableSum
  <2>3. SumFunction([k \in DOMAIN v[2] |-> 1 + f[v[2][k]]]) \in Nat
    BY <2>1, TableSum
  <2>4. QED
    BY <1>1, <2>2, <2>3 DEF WithParts
<1>2. CASE v[1] \notin {"array", "object"}
  BY <1>2 DEF WithParts
<1>3. QED
  BY <1>1, <1>2

LEMMA CountsAgree ==
  ASSUME NEW S, NEW T, Whole(S), Whole(T), NEW f, Counting(f, S), NEW g, Counting(g, T),
         NEW n, NEW v \in S \cap T, Deep(v, n)
  PROVE  f[v] = g[v] /\ f[v] \in Nat
<1> DEFINE Right(w) == f[w] = g[w] /\ f[w] \in Nat
           Bad == {k \in 0..n : \E w \in S \cap T : Deep(w, k) /\ ~Right(w)}
<1>1. n \in Nat
  BY DeepIs
<1>2. SUFFICES Bad = {}
  <2>1. n \in 0..n
    BY <1>1
  <2>2. QED
    BY <1>2, <2>1
<1>3. SUFFICES ASSUME Bad # {} PROVE FALSE
  OBVIOUS
<1>4. PICK k \in Bad : \A m \in Bad : k <= m
  BY <1>1, <1>3, SmallestNumber
<1>5. PICK w \in S \cap T : Deep(w, k) /\ ~Right(w)
  OBVIOUS
<1>6. \A m \in 0..n : m < k => \A u \in S \cap T : Deep(u, m) => Right(u)
  BY <1>4
<1>7. k \in 0..n
  OBVIOUS
<1> HIDE DEF Bad
<1>8. \A u \in Parts(w) : Right(u)
  <2> TAKE u \in Parts(w)
  <2>1. Deep(u, k - 1) /\ k - 1 \in 0..n /\ k - 1 < k
    BY <1>1, <1>5, <1>7, DeepInside
  <2>2. u \in S \cap T
    BY <1>5 DEF Whole
  <2>3. QED
    BY <1>6, <2>1, <2>2
<1>9. f[w] = WithParts(f, w) /\ g[w] = WithParts(g, w)
  BY CountsAt
<1>10. WithParts(f, w) = WithParts(g, w)
  BY <1>8, BodySame
<1>11. WithParts(f, w) \in Nat
  <2>1. Finite(w)
    BY <1>5, DeepIs
  <2>2. QED
    BY <1>8, <2>1, BodyCounts
<1>12. QED
  BY <1>5, <1>9, <1>10, <1>11

LEMMA CountsExist ==
  ASSUME NEW S, Whole(S), NEW n \in Nat, \A v \in S : Deep(v, n)
  PROVE  \E f : Counting(f, S)
<1> DEFINE Low(k) == {v \in S : Deep(v, k)}
           Bad == {k \in 0..n : ~\E f : Counting(f, Low(k))}
<1>1. Bad = {}
  <2>1. SUFFICES ASSUME Bad # {} PROVE FALSE
    OBVIOUS
  <2>2. PICK k \in Bad : \A m \in Bad : k <= m
    BY <2>1, SmallestNumber
  <2>3. k \in 0..n /\ ~\E f : Counting(f, Low(k))
    OBVIOUS
  <2>4. \A m \in 0..n : m < k => \E f : Counting(f, Low(m))
    BY <2>2
  <2> HIDE DEF Bad, Low
  <2>5. PICK f : \A v \in Low(k) : \A w \in Parts(v) : w \in Low(k) /\ f[w] = WithParts(f, w)
    <3>1. ASSUME NEW v \in Low(k), NEW w \in Parts(v)
          PROVE  /\ k > 0 /\ k - 1 \in 0..n /\ k - 1 < k
                 /\ w \in Low(k - 1) /\ w \in Low(k)
      <4>1. v \in S /\ Deep(v, k)
        BY DEF Low
      <4>2. k \in Nat /\ k > 0 /\ k - 1 \in Nat /\ Deep(w, k - 1)
        BY <4>1, DeepInside
      <4>3. Deep(w, k)
        <5>1. k - 1 <= k
          BY <4>2
        <5>2. QED
          BY <4>2, <5>1, DeepMore
      <4>4. w \in S
        BY <4>1 DEF Whole
      <4>5. QED
        BY <2>3, <4>2, <4>3, <4>4 DEF Low
    <3>2. CASE k = 0
      <4>1. \A v \in Low(k) : Parts(v) = {}
        BY <3>1, <3>2
      <4>2. QED
        BY <4>1
    <3>3. CASE k # 0
      <4>1. k - 1 \in 0..n /\ k - 1 < k
        BY <2>3, <3>3
      <4>2. PICK f : Counting(f, Low(k - 1))
        BY <2>4, <4>1
      <4>3. \A w \in Low(k - 1) : f[w] = WithParts(f, w)
        BY <4>2, CountsAt
      <4>4. QED
        BY <3>1, <4>3
    <3>4. QED
      BY <3>2, <3>3
  <2> DEFINE g == [v \in Low(k) |-> WithParts(f, v)]
  <2>6. \A v \in Low(k) : g[v] = WithParts(f, v)
    OBVIOUS
  <2>7. g = [v \in Low(k) |-> g[v]]
    OBVIOUS
  <2> HIDE DEF g
  <2>8. \A v \in Low(k) : g[v] = WithParts(g, v)
    <3> TAKE v \in Low(k)
    <3>1. \A w \in Parts(v) : f[w] = g[w]
      BY <2>5, <2>6
    <3>2. QED
      BY <2>6, <3>1, BodySame
  <2>9. g = [v \in Low(k) |-> WithParts(g, v)]
    BY <2>7, <2>8
  <2>10. QED
    BY <2>3, <2>9, Zenon DEF Counting
<1>2. n \in 0..n
  OBVIOUS
<1>3. Low(n) = S
  OBVIOUS
<1>4. QED
  BY <1>1, <1>2, <1>3

LEMMA BlocksTurn ==
  ASSUME NEW v, Deep(v, Enough), NEW f, \A w \in Parts(v) : f[w] = Blocks(w)
  PROVE  Blocks(v) = WithParts(f, v)
<1>1. Enough \in Nat
  BY DeepIs
<1>2. \A u : Deep(u, Enough) => Counting(CountingOf(u), Inside(u)) /\ u \in Inside(u) /\ Whole(Inside(u))
  <2> TAKE u
  <2>1. SUFFICES ASSUME Deep(u, Enough) PROVE Counting(CountingOf(u), Inside(u)) /\ u \in Inside(u) /\ Whole(Inside(u))
    OBVIOUS
  <2>2. u \in Inside(u) /\ Whole(Inside(u)) /\ \A w \in Inside(u) : Deep(w, Enough)
    BY <2>1, InsideWhole
  <2>3. \E g : Counting(g, Inside(u))
    BY <1>1, <2>2, CountsExist
  <2>4. QED
    BY <2>2, <2>3, Zenon DEF CountingOf
<1>3. Blocks(v) = WithParts(CountingOf(v), v)
  BY <1>2, BlocksAre, CountsAt
<1>4. \A w \in Parts(v) : CountingOf(v)[w] = f[w]
  <2> TAKE w \in Parts(v)
  <2>1. Deep(w, Enough)
    <3>1. Deep(w, Enough - 1) /\ Enough - 1 \in Nat
      BY DeepInside
    <3>2. Enough - 1 <= Enough
      BY <1>1
    <3>3. QED
      BY <1>1, <3>1, <3>2, DeepMore
  <2>2. w \in Inside(v) \cap Inside(w)
    BY <1>2, <2>1 DEF Whole
  <2>3. CountingOf(v)[w] = CountingOf(w)[w]
    BY <1>2, <2>1, <2>2, CountsAgree
  <2>4. QED
    BY <2>3, BlocksAre
<1>5. QED
  BY <1>3, <1>4, BodySame

LEMMA BlocksType ==
  ASSUME NEW v, Deep(v, Enough)
  PROVE  Blocks(v) \in Nat
<1>1. v \in Inside(v) /\ Whole(Inside(v)) /\ \A w \in Inside(v) : Deep(w, Enough)
  BY InsideWhole
<1>2. Enough \in Nat
  BY DeepIs
<1>3. Counting(CountingOf(v), Inside(v))
  <2>1. \E g : Counting(g, Inside(v))
    BY <1>1, <1>2, CountsExist
  <2>2. QED
    BY <2>1, Zenon DEF CountingOf
<1>4. CountingOf(v)[v] \in Nat
  BY <1>1, <1>3, CountsAgree
<1>5. QED
  BY <1>4, BlocksAre

-----------------------------------------------------------------------------
\* Sums over tables.

LEMMA OneMore ==
  ASSUME NEW f, NEW g, NEW x, IsFiniteSet(DOMAIN f), x \notin DOMAIN f, DOMAIN g = DOMAIN f \cup {x},
         \A i \in DOMAIN f : f[i] \in Nat /\ g[i] = f[i], g[x] \in Nat
  PROVE  SumFunction(g) = SumFunction(f) + g[x] /\ SumFunction(f) \in Nat
<1> DEFINE D == DOMAIN f
<1>1. IsFiniteSet(D \cup {x})
  BY FS_AddElement
<1>2. (D \cup {x}) \ {x} = D
  OBVIOUS
<1>3. \A i \in D \cup {x} : g[i] \in Nat
  OBVIOUS
<1>4. SumFunctionOnSet(g, D \cup {x}) = g[x] + SumFunctionOnSet(g, D)
  <2>1. x \in D \cup {x}
    OBVIOUS
  <2>2. SumFunctionOnSet(g, D \cup {x}) = g[x] + SumFunctionOnSet(g, (D \cup {x}) \ {x})
    BY <1>1, <1>3, <2>1, SumWithout
  <2>3. QED
    BY <1>2, <2>2
<1>5. SumFunctionOnSet(g, D) = SumFunctionOnSet(f, D)
  <2>1. \A i \in D : g[i] = f[i]
    OBVIOUS
  <2>2. QED
    BY <2>1, SumSame
<1>6. SumFunctionOnSet(f, D) \in Nat
  <2>1. \A i \in D : f[i] \in Nat
    OBVIOUS
  <2>2. QED
    BY <2>1, SumType
<1>7. QED
  BY <1>4, <1>5, <1>6 DEF SumFunction

LEMMA OneChanged ==
  ASSUME NEW D, IsFiniteSet(D), NEW x \in D, NEW f, NEW g,
         DOMAIN f = D, DOMAIN g = D,
         \A i \in D : f[i] \in Nat /\ g[i] \in Nat, \A i \in D \ {x} : g[i] = f[i]
  PROVE  SumFunction(g) = SumFunction(f) - f[x] + g[x] /\ SumFunction(f) \in Nat
BY SumChange DEF SumFunction

LEMMA NoTerms ==
  ASSUME NEW f, DOMAIN f = {}
  PROVE  SumFunction(f) = 0
<1>1. IsFiniteSet({})
  BY FS_EmptySet
<1>2. \A i \in {} : f[i] = 0
  OBVIOUS
<1>3. SumFunctionOnSet(f, {}) = 0
  BY <1>1, <1>2, SumZero
<1>4. QED
  BY <1>3 DEF SumFunction

-----------------------------------------------------------------------------
\* Containers, and the values put into them.

IsRow(s) == \E S : s \in Seq(S)
IsMap(f) == IsFiniteSet(DOMAIN f)
IsContainer(v) ==
  \/ \E s : v = <<"array", s>> /\ IsRow(s)
  \/ \E f : v = <<"object", f>> /\ IsMap(f)

LEMMA RowIs ==
  ASSUME NEW s, IsRow(s)
  PROVE  /\ Len(s) \in Nat /\ DOMAIN s = 1..Len(s) /\ IsFiniteSet(1..Len(s)) /\ IsFiniteSet(DOMAIN s)
<1>1. PICK S : s \in Seq(S)
  BY DEF IsRow
<1>2. Len(s) \in Nat /\ DOMAIN s = 1..Len(s)
  BY <1>1
<1>3. IsFiniteSet(1..Len(s))
  BY <1>2, FS_Interval
<1>4. QED
  BY <1>2, <1>3

LEMMA RowAppend ==
  ASSUME NEW s, IsRow(s), NEW v
  PROVE  /\ IsRow(Append(s, v)) /\ Len(Append(s, v)) = Len(s) + 1
         /\ \A i \in 1..Len(s) : Append(s, v)[i] = s[i]
         /\ Append(s, v)[Len(s) + 1] = v
<1>1. PICK S : s \in Seq(S)
  BY DEF IsRow
<1>2. s \in Seq(S \cup {v}) /\ v \in S \cup {v}
  BY <1>1
<1>3. Append(s, v) \in Seq(S \cup {v}) /\ Len(Append(s, v)) = Len(s) + 1
  BY <1>2
<1>4. QED
  BY <1>2, <1>3 DEF IsRow

LEMMA RowFront ==
  ASSUME NEW s, IsRow(s), s # <<>>
  PROVE  /\ IsRow(Front(s)) /\ Len(s) \in Nat /\ Len(s) > 0 /\ Len(Front(s)) = Len(s) - 1
         /\ \A i \in 1..Len(s) - 1 : Front(s)[i] = s[i]
         /\ Last(s) = s[Len(s)]
<1>1. PICK S : s \in Seq(S)
  BY DEF IsRow
<1>2. Len(s) \in Nat /\ Len(s) > 0
  BY <1>1
<1>3. Front(s) \in Seq(S) /\ Len(Front(s)) = Len(s) - 1 /\ \A i \in 1..Len(s) - 1 : Front(s)[i] = s[i]
  <2> DEFINE n == Len(s) - 1
  <2>1. n \in Nat /\ n <= Len(s)
    BY <1>2
  <2> HIDE DEF n
  <2>2. SubSeq(s, 1, n) \in Seq(S) /\ Len(SubSeq(s, 1, n)) = n
    BY <1>1, <2>1
  <2>3. \A i \in 1..n : SubSeq(s, 1, n)[i] = s[i]
    BY <1>1, <2>1
  <2>4. QED
    BY <2>2, <2>3 DEF Front, n
<1>4. QED
  BY <1>1, <1>2, <1>3 DEF IsRow, Last

LEMMA ArrayBlocks ==
  ASSUME NEW s, IsRow(s), Deep(<<"array", s>>, Enough)
  PROVE  /\ \A i \in 1..Len(s) : Blocks(s[i]) \in Nat
         /\ Blocks(<<"array", s>>) = 1 + SumFunction([i \in 1..Len(s) |-> Blocks(s[i])])
<1> DEFINE v == <<"array", s>>
           f == [w \in Parts(v) |-> Blocks(w)]
<1>1. v[1] = "array" /\ v[2] = s /\ DOMAIN s = 1..Len(s)
  BY RowIs
<1>2. Parts(v) = {s[i] : i \in 1..Len(s)}
  BY <1>1 DEF Parts
<1>3. \A w \in Parts(v) : f[w] = Blocks(w)
  OBVIOUS
<1>4. \A w \in Parts(v) : Blocks(w) \in Nat
  <2> TAKE w \in Parts(v)
  <2>1. Deep(w, Enough - 1) /\ Enough - 1 \in Nat /\ Enough \in Nat
    BY DeepInside
  <2>2. Deep(w, Enough)
    <3>1. Enough - 1 <= Enough
      BY <2>1
    <3>2. QED
      BY <2>1, <3>1, DeepMore
  <2>3. QED
    BY <2>2, BlocksType
<1> HIDE DEF v, f
<1>5. Blocks(v) = WithParts(f, v)
  <2>1. Deep(v, Enough)
    BY DEF v
  <2>2. QED
    BY <1>3, <2>1, BlocksTurn
<1>6. WithParts(f, v) = 1 + SumFunction([i \in 1..Len(s) |-> f[s[i]]])
  BY <1>1 DEF WithParts
<1>7. [i \in 1..Len(s) |-> f[s[i]]] = [i \in 1..Len(s) |-> Blocks(s[i])]
  BY <1>2, <1>3
<1>8. QED
  BY <1>2, <1>4, <1>5, <1>6, <1>7 DEF v

LEMMA ObjectBlocks ==
  ASSUME NEW m, IsMap(m), Deep(<<"object", m>>, Enough)
  PROVE  /\ \A k \in DOMAIN m : Blocks(m[k]) \in Nat
         /\ Blocks(<<"object", m>>) = 1 + SumFunction([k \in DOMAIN m |-> 1 + Blocks(m[k])])
<1> DEFINE v == <<"object", m>>
           f == [w \in Parts(v) |-> Blocks(w)]
<1>1. v[1] = "object" /\ v[2] = m
  OBVIOUS
<1>2. Parts(v) = {m[k] : k \in DOMAIN m}
  BY <1>1 DEF Parts
<1>3. \A w \in Parts(v) : f[w] = Blocks(w)
  OBVIOUS
<1>4. \A w \in Parts(v) : Blocks(w) \in Nat
  <2> TAKE w \in Parts(v)
  <2>1. Deep(w, Enough - 1) /\ Enough - 1 \in Nat /\ Enough \in Nat
    BY DeepInside
  <2>2. Deep(w, Enough)
    <3>1. Enough - 1 <= Enough
      BY <2>1
    <3>2. QED
      BY <2>1, <3>1, DeepMore
  <2>3. QED
    BY <2>2, BlocksType
<1> HIDE DEF v, f
<1>5. Blocks(v) = WithParts(f, v)
  <2>1. Deep(v, Enough)
    BY DEF v
  <2>2. QED
    BY <1>3, <2>1, BlocksTurn
<1>6. WithParts(f, v) = 1 + SumFunction([k \in DOMAIN m |-> 1 + f[m[k]]])
  BY <1>1 DEF WithParts
<1>7. [k \in DOMAIN m |-> 1 + f[m[k]]] = [k \in DOMAIN m |-> 1 + Blocks(m[k])]
  BY <1>2, <1>3
<1>8. QED
  BY <1>2, <1>4, <1>5, <1>6, <1>7 DEF v

LEMMA AtomDeep ==
  ASSUME NEW v, v[1] \notin {"array", "object"}, NEW n \in Nat
  PROVE  Deep(v, n)
<1>1. Finite(v) /\ Parts(v) = {}
  BY DEF Finite, Parts
<1>2. \A w \in Parts(v) : \E m \in 0..n - 1 : Deep(w, m)
  BY <1>1
<1>3. QED
  BY <1>1, <1>2, DeepJoin, Zenon

LEMMA EnoughType == Enough \in Nat /\ Enough > 0
BY LevelAssumption DEF Enough

LEMMA InvalidBlocks == Blocks(Invalid) = 0
<1>1. Invalid[1] = "invalid"
  BY DEF Invalid
<1>2. Deep(Invalid, Enough)
  BY <1>1, AtomDeep, EnoughType
<1>3. Parts(Invalid) = {}
  BY <1>1 DEF Parts
<1>4. Blocks(Invalid) = WithParts(<<>>, Invalid)
  BY <1>2, <1>3, BlocksTurn
<1>5. QED
  BY <1>1, <1>4 DEF WithParts

\* A frame: its container, and the key of the next value.
FrameOK(frame, n) ==
  /\ frame = [value |-> frame.value, key |-> frame.key]
  /\ IsContainer(frame.value) /\ Deep(frame.value, n)
HasKey(frame) == (frame.key = NULL) <=> InArray(frame)
FrameBlocks(frame) == Blocks(frame.value) + IF frame.key = NULL THEN 0 ELSE 1

LEMMA FrameBlocksType ==
  ASSUME NEW n \in 0..Enough, NEW frame, FrameOK(frame, n)
  PROVE  FrameBlocks(frame) \in Nat /\ Blocks(frame.value) \in Nat /\ Deep(frame.value, Enough)
<1>1. Deep(frame.value, Enough)
  BY DeepMore, EnoughType DEF FrameOK
<1>2. Blocks(frame.value) \in Nat
  BY <1>1, BlocksType
<1>3. QED
  BY <1>1, <1>2 DEF FrameBlocks

\* Storing a value in an array.
LEMMA ArrayStored ==
  ASSUME NEW n \in 1..Enough, NEW s, IsRow(s), Deep(<<"array", s>>, n), NEW v, Deep(v, n - 1)
  PROVE  LET w == <<"array", Append(s, v)>>
         IN IsContainer(w) /\ Deep(w, n) /\ Blocks(w) = Blocks(<<"array", s>>) + Blocks(v)
<1> DEFINE u == <<"array", s>>
           t == Append(s, v)
           w == <<"array", t>>
<1>1. u[1] = "array" /\ u[2] = s /\ w[1] = "array" /\ w[2] = t
  OBVIOUS
<1>2. /\ IsRow(t) /\ Len(t) = Len(s) + 1
      /\ \A i \in 1..Len(s) : t[i] = s[i]
      /\ t[Len(s) + 1] = v
  BY RowAppend
<1>3. Len(s) \in Nat /\ DOMAIN s = 1..Len(s) /\ DOMAIN t = 1..Len(s) + 1 /\ IsFiniteSet(DOMAIN t) /\ IsFiniteSet(1..Len(s))
  BY <1>2, RowIs
<1>4. IsContainer(w)
  BY <1>2, Zenon DEF IsContainer
<1> HIDE DEF u, t, w
<1>5. Deep(w, n)
  <2>1. Finite(w)
    BY <1>1, <1>3 DEF Finite
  <2>2. \A i \in 1..Len(s) + 1 : Deep(t[i], n - 1)
    <3>1. \A i \in 1..Len(s) : Deep(s[i], n - 1)
      <4> TAKE i \in 1..Len(s)
      <4>1. s[i] \in Parts(u)
        BY <1>1, <1>3 DEF Parts
      <4>2. Deep(u, n)
        BY DEF u
      <4>3. QED
        BY <4>1, <4>2, DeepInside
    <3>2. \A i \in 1..Len(s) + 1 : i \in 1..Len(s) \/ i = Len(s) + 1
      BY <1>3
    <3>3. QED
      BY <1>2, <3>1, <3>2
  <2>3. \A x \in Parts(w) : Deep(x, n - 1)
    BY <1>1, <1>3, <2>2 DEF Parts
  <2>4. QED
    BY <2>1, <2>3, DeepOutside
<1>6. Deep(u, Enough) /\ Deep(w, Enough) /\ Deep(v, Enough)
  <2>1. Enough \in Nat /\ n <= Enough /\ n - 1 <= Enough
    BY EnoughType
  <2>2. Deep(u, n)
    BY DEF u
  <2>3. QED
    BY <1>5, <2>1, <2>2, DeepMore
<1>7. Blocks(v) \in Nat
  BY <1>6, BlocksType
<1> DEFINE f == [i \in 1..Len(s) |-> Blocks(s[i])]
           g == [i \in 1..Len(t) |-> Blocks(t[i])]
<1>8. (\A i \in 1..Len(s) : Blocks(s[i]) \in Nat) /\ Blocks(u) = 1 + SumFunction(f)
  BY <1>6, ArrayBlocks DEF u
<1>9. Blocks(w) = 1 + SumFunction(g)
  BY <1>2, <1>6, ArrayBlocks DEF w
<1>10. SumFunction(g) = SumFunction(f) + Blocks(v) /\ SumFunction(f) \in Nat
  <2>1. Len(s) + 1 \notin 1..Len(s) /\ 1..Len(t) = (1..Len(s)) \cup {Len(s) + 1}
    BY <1>2, <1>3
  <2>2. DOMAIN f = 1..Len(s) /\ DOMAIN g = (1..Len(s)) \cup {Len(s) + 1}
    BY <2>1
  <2>3. (\A i \in 1..Len(s) : f[i] \in Nat /\ g[i] = f[i]) /\ g[Len(s) + 1] = Blocks(v)
    BY <1>2, <1>8, <2>1
  <2> HIDE DEF f, g
  <2>4. PICK D, x : D = 1..Len(s) /\ x = Len(s) + 1
    OBVIOUS
  <2>5. /\ IsFiniteSet(DOMAIN f) /\ x \notin DOMAIN f /\ DOMAIN g = DOMAIN f \cup {x}
        /\ (\A i \in DOMAIN f : f[i] \in Nat /\ g[i] = f[i]) /\ g[x] \in Nat /\ g[x] = Blocks(v)
    BY <1>3, <1>7, <2>1, <2>2, <2>3, <2>4
  <2>6. SumFunction(g) = SumFunction(f) + g[x] /\ SumFunction(f) \in Nat
    BY <2>5, OneMore
  <2>7. QED
    BY <2>5, <2>6
<1> HIDE DEF f, g
<1>11. QED
  BY <1>4, <1>5, <1>7, <1>8, <1>9, <1>10 DEF u, w, t

\* Storing a value in an object, under a new key or an old one.
PutIn(m, key, v) == [k \in DOMAIN m \cup {key} |-> IF k = key THEN v ELSE m[k]]
Left(m, key) == IF key \in DOMAIN m THEN 1 + Blocks(m[key]) ELSE 0

LEMMA ObjectStored ==
  ASSUME NEW n \in 1..Enough, NEW m, IsMap(m), Deep(<<"object", m>>, n), NEW key, NEW v, Deep(v, n - 1)
  PROVE  LET w == <<"object", PutIn(m, key, v)>>
         IN /\ IsContainer(w) /\ Deep(w, n) /\ Left(m, key) \in Nat
            /\ Blocks(w) = Blocks(<<"object", m>>) + 1 + Blocks(v) - Left(m, key)
<1> DEFINE u == <<"object", m>>
           t == PutIn(m, key, v)
           w == <<"object", t>>
<1>1. u[1] = "object" /\ u[2] = m /\ w[1] = "object" /\ w[2] = t
  OBVIOUS
<1>2. DOMAIN t = DOMAIN m \cup {key} /\ t[key] = v /\ \A k \in DOMAIN m \ {key} : t[k] = m[k]
  BY DEF PutIn
<1>3. IsFiniteSet(DOMAIN m) /\ IsFiniteSet(DOMAIN t)
  BY <1>2, FS_AddElement DEF IsMap
<1>4. IsContainer(w)
  BY <1>3, Zenon DEF IsContainer, IsMap
<1> HIDE DEF u, t, w
<1>5. Deep(w, n)
  <2>1. Finite(w)
    BY <1>1, <1>3 DEF Finite
  <2>2. \A k \in DOMAIN t : Deep(t[k], n - 1)
    <3>1. \A k \in DOMAIN m : Deep(m[k], n - 1)
      <4> TAKE k \in DOMAIN m
      <4>1. m[k] \in Parts(u)
        BY <1>1 DEF Parts
      <4>2. Deep(u, n)
        BY DEF u
      <4>3. QED
        BY <4>1, <4>2, DeepInside
    <3>2. QED
      BY <1>2, <3>1
  <2>3. \A x \in Parts(w) : Deep(x, n - 1)
    BY <1>1, <2>2 DEF Parts
  <2>4. QED
    BY <2>1, <2>3, DeepOutside
<1>6. Deep(u, Enough) /\ Deep(w, Enough) /\ Deep(v, Enough)
  <2>1. Enough \in Nat /\ n <= Enough /\ n - 1 <= Enough
    BY EnoughType
  <2>2. Deep(u, n)
    BY DEF u
  <2>3. QED
    BY <1>5, <2>1, <2>2, DeepMore
<1>7. Blocks(v) \in Nat
  BY <1>6, BlocksType
<1> DEFINE f == [k \in DOMAIN m |-> 1 + Blocks(m[k])]
           g == [k \in DOMAIN t |-> 1 + Blocks(t[k])]
<1>8. (\A k \in DOMAIN m : Blocks(m[k]) \in Nat) /\ Blocks(u) = 1 + SumFunction(f)
  BY <1>6, ObjectBlocks DEF u
<1>9. Blocks(w) = 1 + SumFunction(g)
  <2>1. IsMap(t)
    BY <1>3 DEF IsMap
  <2>2. QED
    BY <1>6, <2>1, ObjectBlocks DEF w
<1>10. /\ DOMAIN f = DOMAIN m /\ DOMAIN g = DOMAIN t
       /\ \A k \in DOMAIN m : f[k] = 1 + Blocks(m[k])
       /\ \A k \in DOMAIN m \ {key} : g[k] = 1 + Blocks(m[k])
       /\ g[key] = 1 + Blocks(v)
  BY <1>2
<1>11. \A k \in DOMAIN m : f[k] \in Nat
  BY <1>8
<1> HIDE DEF f, g
<1>12. SumFunction(g) = SumFunction(f) + 1 + Blocks(v) - Left(m, key) /\ SumFunction(f) \in Nat /\ Left(m, key) \in Nat
  <2>1. CASE key \in DOMAIN m
    <3>1. DOMAIN g = DOMAIN m
      BY <1>2, <1>10, <2>1
    <3>2. \A k \in DOMAIN m : f[k] \in Nat /\ g[k] \in Nat
      BY <1>7, <1>8, <1>10, <1>11
    <3>3. \A k \in DOMAIN m \ {key} : g[k] = f[k]
      BY <1>10
    <3>4. SumFunction(g) = SumFunction(f) - f[key] + g[key] /\ SumFunction(f) \in Nat
      BY <1>3, <1>10, <2>1, <3>1, <3>2, <3>3, OneChanged
    <3>5. Left(m, key) = 1 + Blocks(m[key]) /\ Blocks(m[key]) \in Nat /\ f[key] = 1 + Blocks(m[key])
      BY <1>8, <1>10, <2>1 DEF Left
    <3>6. QED
      BY <1>7, <1>10, <3>4, <3>5
  <2>2. CASE key \notin DOMAIN m
    <3>1. \A k \in DOMAIN m : f[k] \in Nat /\ g[k] = f[k]
      BY <1>10, <1>11, <2>2
    <3>2. DOMAIN g = DOMAIN m \cup {key} /\ g[key] \in Nat
      BY <1>2, <1>7, <1>10
    <3>3. SumFunction(g) = SumFunction(f) + g[key] /\ SumFunction(f) \in Nat
      BY <1>3, <1>10, <2>2, <3>1, <3>2, OneMore
    <3>4. Left(m, key) = 0
      BY <2>2 DEF Left
    <3>5. QED
      BY <1>7, <1>10, <3>3, <3>4
  <2>3. QED
    BY <2>1, <2>2
<1>13. QED
  BY <1>4, <1>5, <1>7, <1>8, <1>9, <1>12 DEF u, w, t

LEMMA StoredFits ==
  ASSUME NEW n \in 1..Enough, NEW frame, FrameOK(frame, n), HasKey(frame), NEW v, Deep(v, n - 1)
  PROVE  /\ IsContainer(Stored(frame, v)) /\ Deep(Stored(frame, v), n)
         /\ Growth(frame) \in Int
         /\ Blocks(Stored(frame, v)) = FrameBlocks(frame) + Blocks(v) + Growth(frame)
<1>1. Blocks(frame.value) \in Nat
  BY FrameBlocksType
<1>2. Blocks(v) \in Nat
  <2>1. Enough \in Nat /\ n - 1 <= Enough
    BY EnoughType
  <2>2. QED
    BY <2>1, DeepMore, BlocksType
<1>3. CASE \E s : frame.value = <<"array", s>> /\ IsRow(s)
  <2>1. PICK s : frame.value = <<"array", s>> /\ IsRow(s)
    BY <1>3
  <2>2. InArray(frame) /\ frame.value[2] = s
    BY <2>1 DEF InArray
  <2>3. Stored(frame, v) = <<"array", Append(s, v)>>
    BY <2>2 DEF Stored
  <2>4. Growth(frame) = 0 /\ FrameBlocks(frame) = Blocks(frame.value)
    BY <1>1, <2>2 DEF Growth, FrameBlocks, HasKey
  <2>5. Deep(<<"array", s>>, n)
    BY <2>1 DEF FrameOK
  <2>6. /\ IsContainer(<<"array", Append(s, v)>>) /\ Deep(<<"array", Append(s, v)>>, n)
        /\ Blocks(<<"array", Append(s, v)>>) = Blocks(<<"array", s>>) + Blocks(v)
    BY <2>1, <2>5, ArrayStored
  <2>7. QED
    BY <1>1, <1>2, <2>1, <2>3, <2>4, <2>6
<1>4. CASE \E m : frame.value = <<"object", m>> /\ IsMap(m)
  <2>1. PICK m : frame.value = <<"object", m>> /\ IsMap(m)
    BY <1>4
  <2>2. ~InArray(frame) /\ frame.value[2] = m
    BY <2>1 DEF InArray
  <2>3. Stored(frame, v) = <<"object", PutIn(m, frame.key, v)>>
    BY <2>2 DEF Stored, PutIn
  <2>4. FrameBlocks(frame) = Blocks(frame.value) + 1
    BY <1>1, <2>2 DEF FrameBlocks, HasKey
  <2>5. Deep(<<"object", m>>, n)
    BY <2>1 DEF FrameOK
  <2>6. /\ IsContainer(<<"object", PutIn(m, frame.key, v)>>) /\ Deep(<<"object", PutIn(m, frame.key, v)>>, n)
        /\ Left(m, frame.key) \in Nat
        /\ Blocks(<<"object", PutIn(m, frame.key, v)>>) = Blocks(<<"object", m>>) + 1 + Blocks(v) - Left(m, frame.key)
    BY <2>1, <2>5, ObjectStored
  <2>7. Growth(frame) = 0 - Left(m, frame.key) /\ Growth(frame) \in Int
    <3>1. CASE frame.key \in DOMAIN m
      <4>1. Growth(frame) = -1 - Blocks(m[frame.key])
        BY <2>2, <3>1 DEF Growth
      <4>2. Left(m, frame.key) = 1 + Blocks(m[frame.key])
        BY <3>1 DEF Left
      <4>3. Blocks(m[frame.key]) \in Nat
        <5>1. Deep(<<"object", m>>, Enough)
          BY <2>1, FrameBlocksType
        <5>2. QED
          BY <2>1, <3>1, <5>1, ObjectBlocks
      <4>4. QED
        BY <4>1, <4>2, <4>3
    <3>2. CASE frame.key \notin DOMAIN m
      <4>1. Growth(frame) = 0
        BY <2>2, <3>2 DEF Growth
      <4>2. Left(m, frame.key) = 0
        BY <3>2 DEF Left
      <4>3. QED
        BY <4>1, <4>2
    <3>3. QED
      BY <3>1, <3>2
  <2>8. QED
    BY <1>1, <1>2, <2>1, <2>3, <2>4, <2>6, <2>7
<1>5. QED
  BY <1>3, <1>4 DEF FrameOK, IsContainer

\* What a container allocates when it is opened.
LEMMA NewContainer ==
  ASSUME NEW v, v \in {<<"array", <<>>>>, <<"object", <<>>>>}, NEW n \in 1..Enough
  PROVE  IsContainer(v) /\ Deep(v, n) /\ Blocks(v) = 1
<1>1. IsRow(<<>>) /\ IsMap(<<>>) /\ DOMAIN <<>> = {} /\ Len(<<>>) = 0
  <2>1. <<>> \in Seq({}) /\ DOMAIN <<>> = {} /\ Len(<<>>) = 0
    OBVIOUS
  <2>2. QED
    BY <2>1, FS_EmptySet DEF IsRow, IsMap
<1>2. IsContainer(v)
  BY <1>1, Zenon DEF IsContainer
<1>3. \A k \in Nat : Deep(v, k)
  <2>1. v[1] \in {"array", "object"} /\ v[2] = <<>>
    OBVIOUS
  <2>2. Finite(v) /\ Parts(v) = {}
    BY <1>1, <2>1 DEF Finite, Parts, IsMap
  <2>3. QED
    BY <2>2, DeepJoin
<1>4. Deep(v, Enough) /\ Deep(v, n)
  BY <1>3, EnoughType
<1>5. CASE v = <<"array", <<>>>>
  <2>1. Blocks(v) = 1 + SumFunction([i \in 1..Len(<<>>) |-> Blocks((<<>>)[i])])
    BY <1>1, <1>4, <1>5, ArrayBlocks
  <2>2. SumFunction([i \in 1..Len(<<>>) |-> Blocks((<<>>)[i])]) = 0
    BY <1>1, NoTerms
  <2>3. QED
    BY <1>2, <1>4, <2>1, <2>2
<1>6. CASE v = <<"object", <<>>>>
  <2>1. Blocks(v) = 1 + SumFunction([k \in DOMAIN <<>> |-> 1 + Blocks((<<>>)[k])])
    BY <1>1, <1>4, <1>6, ObjectBlocks
  <2>2. SumFunction([k \in DOMAIN <<>> |-> 1 + Blocks((<<>>)[k])]) = 0
    BY <1>1, NoTerms
  <2>3. QED
    BY <1>2, <1>4, <2>1, <2>2
<1>7. QED
  BY <1>5, <1>6

-----------------------------------------------------------------------------
\* The stack of the open containers.

StackBlocks(s) == SumFunction([i \in 1..Len(s) |-> FrameBlocks(s[i])])
Nested(s) ==
  /\ IsRow(s) /\ Len(s) <= Enough
  /\ \A i \in 1..Len(s) : FrameOK(s[i], Enough + 1 - i)

LEMMA StackType ==
  ASSUME NEW s, Nested(s)
  PROVE  /\ Len(s) \in 0..Enough /\ StackBlocks(s) \in Nat
         /\ \A i \in 1..Len(s) : FrameBlocks(s[i]) \in Nat
<1>1. Len(s) \in 0..Enough /\ IsFiniteSet(1..Len(s))
  BY RowIs, EnoughType DEF Nested
<1>2. \A i \in 1..Len(s) : FrameBlocks(s[i]) \in Nat
  <2> TAKE i \in 1..Len(s)
  <2>1. Enough + 1 - i \in 0..Enough
    BY <1>1, EnoughType
  <2>2. QED
    BY <2>1, FrameBlocksType DEF Nested
<1>3. QED
  BY <1>1, <1>2, TableSum DEF StackBlocks

LEMMA StackEmpty == Nested(<<>>) /\ StackBlocks(<<>>) = 0
<1>1. <<>> \in Seq({}) /\ Len(<<>>) = 0
  OBVIOUS
<1>2. Nested(<<>>)
  BY <1>1, EnoughType DEF Nested, IsRow
<1>3. QED
  BY <1>1, <1>2, NoTerms DEF StackBlocks

LEMMA OpenPush ==
  ASSUME NEW s, Nested(s), Len(s) < Enough, NEW frame, FrameOK(frame, Enough - Len(s))
  PROVE  /\ Nested(Append(s, frame)) /\ Append(s, frame) # <<>> /\ Len(Append(s, frame)) = Len(s) + 1
         /\ StackBlocks(Append(s, frame)) = StackBlocks(s) + FrameBlocks(frame)
         /\ Last(Append(s, frame)) = frame
         /\ \A i \in 1..Len(s) : Append(s, frame)[i] = s[i]
<1> DEFINE t == Append(s, frame)
<1>1. /\ IsRow(t) /\ Len(t) = Len(s) + 1 /\ (\A i \in 1..Len(s) : t[i] = s[i]) /\ t[Len(s) + 1] = frame
  <2>1. IsRow(s)
    BY Zenon DEF Nested
  <2>2. QED
    BY <2>1, RowAppend, ZenonT(60)
<1>2. Len(s) \in Nat /\ Len(s) + 1 \in Nat /\ Enough \in Nat /\ IsFiniteSet(1..Len(s))
  BY RowIs, EnoughType DEF Nested
<1> HIDE DEF t
<1>3. \A i \in 1..Len(t) : FrameOK(t[i], Enough + 1 - i)
  <2> TAKE i \in 1..Len(t)
  <2>1. CASE i \in 1..Len(s)
    BY <1>1, <2>1 DEF Nested
  <2>2. CASE i = Len(s) + 1
    <3>1. Enough + 1 - i = Enough - Len(s)
      BY <1>2, <2>2
    <3>2. QED
      BY <1>1, <2>2, <3>1
  <2>3. QED
    BY <1>1, <1>2, <2>1, <2>2
<1>4. Nested(t)
  BY <1>1, <1>2, <1>3 DEF Nested
<1>5. StackBlocks(t) = StackBlocks(s) + FrameBlocks(frame)
  <2> DEFINE f == [i \in 1..Len(s) |-> FrameBlocks(s[i])]
             g == [i \in 1..Len(t) |-> FrameBlocks(t[i])]
  <2>1. PICK D, x : D = 1..Len(s) /\ x = Len(s) + 1
    OBVIOUS
  <2>2. x \notin D /\ 1..Len(t) = D \cup {x} /\ IsFiniteSet(D)
    BY <1>1, <1>2, <2>1
  <2>3. DOMAIN f = D /\ DOMAIN g = D \cup {x}
    BY <2>1, <2>2
  <2>4. (\A i \in D : f[i] \in Nat /\ g[i] = f[i]) /\ g[x] = FrameBlocks(frame)
    BY <1>1, <2>1, <2>2, StackType
  <2>5. g[x] \in Nat
    <3>1. Enough - Len(s) \in 0..Enough
      BY <1>2
    <3>2. QED
      BY <2>4, <3>1, FrameBlocksType
  <2> HIDE DEF f, g
  <2>6. /\ IsFiniteSet(DOMAIN f) /\ x \notin DOMAIN f /\ DOMAIN g = DOMAIN f \cup {x}
        /\ (\A i \in DOMAIN f : f[i] \in Nat /\ g[i] = f[i]) /\ g[x] \in Nat
    BY <2>2, <2>3, <2>4, <2>5
  <2>7. SumFunction(g) = SumFunction(f) + g[x] /\ SumFunction(f) \in Nat
    BY <2>6, OneMore
  <2>8. QED
    BY <2>4, <2>7 DEF StackBlocks, f, g
<1>6. t # <<>>
  BY <1>1, <1>2
<1>7. Last(t) = frame
  BY <1>1 DEF Last
<1>8. QED
  BY <1>1, <1>4, <1>5, <1>6, <1>7 DEF t

LEMMA OpenPop ==
  ASSUME NEW s, Nested(s), s # <<>>
  PROVE  /\ Nested(Front(s)) /\ Len(s) \in 1..Enough /\ Len(Front(s)) = Len(s) - 1
         /\ FrameOK(Last(s), Enough - Len(Front(s))) /\ FrameBlocks(Last(s)) \in Nat
         /\ StackBlocks(s) = StackBlocks(Front(s)) + FrameBlocks(Last(s))
         /\ Last(s) = s[Len(s)] /\ \A i \in 1..Len(s) - 1 : Front(s)[i] = s[i]
<1> DEFINE t == Front(s)
<1>1. /\ IsRow(t) /\ Len(s) \in Nat /\ Len(s) > 0 /\ Len(t) = Len(s) - 1
      /\ (\A i \in 1..Len(s) - 1 : t[i] = s[i]) /\ Last(s) = s[Len(s)]
  BY RowFront, Zenon DEF Nested
<1>2. Len(s) \in 1..Enough /\ Enough \in Nat /\ IsFiniteSet(1..Len(t)) /\ Len(s) \in 1..Len(s)
  <2>1. IsFiniteSet(1..Len(t))
    BY <1>1, RowIs
  <2>2. QED
    BY <1>1, <2>1, EnoughType DEF Nested
<1> HIDE DEF t
<1>3. Nested(t)
  <2>1. \A i \in 1..Len(t) : i \in 1..Len(s) /\ i \in 1..Len(s) - 1
    BY <1>1
  <2>2. \A i \in 1..Len(t) : FrameOK(t[i], Enough + 1 - i)
    BY <1>1, <2>1 DEF Nested
  <2>3. QED
    BY <1>1, <1>2, <2>2 DEF Nested
<1>4. FrameOK(Last(s), Enough - Len(t))
  <2>1. Enough + 1 - Len(s) = Enough - Len(t)
    BY <1>1, <1>2
  <2>2. QED
    BY <1>1, <1>2, <2>1 DEF Nested
<1>5. StackBlocks(s) = StackBlocks(t) + FrameBlocks(Last(s)) /\ FrameBlocks(Last(s)) \in Nat
  <2> DEFINE f == [i \in 1..Len(t) |-> FrameBlocks(t[i])]
             g == [i \in 1..Len(s) |-> FrameBlocks(s[i])]
  <2>1. PICK D, x : D = 1..Len(t) /\ x = Len(s)
    OBVIOUS
  <2>2. x \notin D /\ 1..Len(s) = D \cup {x} /\ IsFiniteSet(D)
    BY <1>1, <1>2, <2>1
  <2>3. DOMAIN f = D /\ DOMAIN g = D \cup {x}
    BY <2>1, <2>2
  <2>4. (\A i \in D : f[i] \in Nat /\ g[i] = f[i]) /\ g[x] = FrameBlocks(Last(s)) /\ g[x] \in Nat
    <3>1. \A i \in D : f[i] = FrameBlocks(t[i]) /\ g[i] = FrameBlocks(s[i])
      BY <2>1, <2>2
    <3>2. \A i \in D : t[i] = s[i] /\ FrameBlocks(t[i]) \in Nat
      BY <1>1, <1>3, <2>1, StackType
    <3>3. g[x] = FrameBlocks(s[Len(s)])
      BY <1>2, <2>1
    <3>4. FrameBlocks(s[Len(s)]) \in Nat
      BY <1>2, StackType
    <3>5. QED
      BY <1>1, <3>1, <3>2, <3>3, <3>4
  <2> HIDE DEF f, g
  <2>5. /\ IsFiniteSet(DOMAIN f) /\ x \notin DOMAIN f /\ DOMAIN g = DOMAIN f \cup {x}
        /\ (\A i \in DOMAIN f : f[i] \in Nat /\ g[i] = f[i]) /\ g[x] \in Nat
    BY <2>2, <2>3, <2>4
  <2>6. SumFunction(g) = SumFunction(f) + g[x] /\ SumFunction(f) \in Nat
    BY <2>5, OneMore
  <2>7. QED
    BY <2>4, <2>6 DEF StackBlocks, f, g
<1>6. QED
  BY <1>1, <1>2, <1>3, <1>4, <1>5 DEF t

-----------------------------------------------------------------------------
\* The machine: what is allocated belongs to the frames or to the result, and a frame has
\* the key it needs.

HaveKeys(s) == \A i \in 1..Len(s) : HasKey(s[i])
ParserInv ==
  /\ Nested(open)
  /\ \A i \in 1..Len(open) - 1 : HasKey(open[i])
  /\ phase \in {"value", "value_failed", "colon"} /\ open # <<>> => HasKey(Last(open))
  /\ phase \in {"items", "more", "key_failed"} => open # <<>> /\ Last(open).key = NULL
  /\ phase = "colon" => open # <<>> /\ Last(open).key # NULL
  /\ phase = "done" => open = <<>> /\ Deep(result, Enough)
  /\ allocated = StackBlocks(open) + IF phase = "done" THEN Blocks(result) ELSE 0

\* In front of a value every frame has its key.
LEMMA AllKeyed ==
  ASSUME ParserInv, phase \in {"value", "value_failed"} \/ (InLoop /\ InArray(Innermost))
  PROVE  HaveKeys(open)
<1>1. CASE open = <<>>
  BY <1>1, StackEmpty DEF HaveKeys, StackBlocks
<1>2. CASE open # <<>>
  <2>1. Len(open) \in Nat /\ Last(open) = open[Len(open)]
    BY <1>2, OpenPop, EnoughType DEF ParserInv
  <2>2. HasKey(Last(open))
    BY <1>2 DEF ParserInv, InLoop, HasKey, Innermost
  <2>3. \A i \in 1..Len(open) - 1 : HasKey(open[i])
    BY DEF ParserInv
  <2>4. ASSUME NEW i \in 1..Len(open) PROVE HasKey(open[i])
    <3>1. i = Len(open) \/ i \in 1..Len(open) - 1
      BY <2>1
    <3>2. QED
      BY <2>1, <2>2, <2>3, <3>1
  <2>5. QED
    BY <2>4 DEF HaveKeys
<1>3. QED
  BY <1>1, <1>2

\* A value that is complete goes to the innermost frame or becomes the result.
LEMMA CompleteKeeps ==
  ASSUME NEW v, NEW below, NEW blocks \in Int, Nested(below), HaveKeys(below), Deep(v, Enough - Len(below)),
         allocated \in Int, allocated + blocks = StackBlocks(below) + Blocks(v), Complete(v, below, blocks)
  PROVE  ParserInv'
<1>1. CASE below = <<>>
  <2>1. open' = <<>> /\ phase' = "done" /\ result' = v /\ allocated' = allocated + blocks
    BY <1>1 DEF Complete
  <2>2. Enough - Len(below) = Enough /\ Len(open') = 0
    BY <1>1, <2>1, EnoughType
  <2>3. QED
    BY <1>1, <2>1, <2>2, StackEmpty DEF ParserInv
<1>2. CASE below # <<>>
  <2> DEFINE frame == Last(below)
             base == Front(below)
             new == [value |-> Stored(frame, v), key |-> NULL]
             n == Enough - Len(base)
  <2>1. /\ open' = Append(base, new) /\ phase' = "more"
        /\ allocated' = allocated + blocks + Growth(frame)
    BY <1>2 DEF Complete
  <2>2. /\ Nested(base) /\ Len(below) \in 1..Enough /\ Len(base) = Len(below) - 1
        /\ FrameOK(frame, n) /\ FrameBlocks(frame) \in Nat
        /\ StackBlocks(below) = StackBlocks(base) + FrameBlocks(frame)
        /\ frame = below[Len(below)] /\ \A i \in 1..Len(below) - 1 : base[i] = below[i]
    BY <1>2, OpenPop
  <2>3. /\ n \in 1..Enough /\ n - 1 = Enough - Len(below) /\ Len(base) < Enough
        /\ Len(base) \in Nat /\ Len(below) \in 1..Len(below)
    BY <2>2, EnoughType
  <2>4. HasKey(frame) /\ \A i \in 1..Len(base) : HasKey(base[i])
    <3>1. HasKey(frame)
      BY <2>2, <2>3 DEF HaveKeys
    <3>2. ASSUME NEW i \in 1..Len(base) PROVE HasKey(base[i])
      <4>1. i \in 1..Len(below) - 1 /\ i \in 1..Len(below)
        BY <2>2, <2>3
      <4>2. QED
        BY <2>2, <4>1 DEF HaveKeys
    <3>3. QED
      BY <3>1, <3>2
  <2>5. Deep(v, n - 1)
    BY <2>3
  <2> HIDE DEF n, base, frame
  <2>6. /\ IsContainer(Stored(frame, v)) /\ Deep(Stored(frame, v), n) /\ Growth(frame) \in Int
        /\ Blocks(Stored(frame, v)) = FrameBlocks(frame) + Blocks(v) + Growth(frame)
    BY <2>2, <2>3, <2>4, <2>5, StoredFits
  <2>7. FrameOK(new, n) /\ FrameBlocks(new) = Blocks(Stored(frame, v))
    <3>1. FrameOK(new, n)
      BY <2>6 DEF FrameOK
    <3>2. Blocks(Stored(frame, v)) \in Nat
      BY <2>3, <3>1, FrameBlocksType
    <3>3. QED
      BY <3>1, <3>2 DEF FrameBlocks
  <2>8. new.key = NULL
    OBVIOUS
  <2> HIDE DEF new
  <2>9. /\ Nested(open') /\ open' # <<>> /\ Len(open') = Len(base) + 1
        /\ StackBlocks(open') = StackBlocks(base) + FrameBlocks(new)
        /\ Last(open') = new /\ \A i \in 1..Len(base) : open'[i] = base[i]
    BY <2>1, <2>2, <2>3, <2>7, OpenPush DEF n
  <2>10. allocated' = StackBlocks(open')
    <3>1. StackBlocks(base) \in Nat /\ Blocks(v) \in Int
      <4>1. Blocks(v) \in Nat
        <5>1. n - 1 \in Nat /\ n - 1 <= Enough
          BY <2>3, EnoughType
        <5>2. QED
          BY <2>5, <5>1, DeepMore, BlocksType, EnoughType
      <4>2. QED
        BY <2>2, <4>1, StackType
    <3>2. QED
      BY <2>1, <2>2, <2>6, <2>7, <2>9, <3>1
  <2>11. \A i \in 1..Len(open') - 1 : HasKey(open'[i])
    BY <2>3, <2>4, <2>9
  <2>12. QED
    BY <2>1, <2>8, <2>9, <2>10, <2>11 DEF ParserInv
<1>3. QED
  BY <1>1, <1>2

LEMMA InvType ==
  ASSUME ParserInv
  PROVE  /\ allocated \in Nat /\ Len(open) \in 0..Enough /\ StackBlocks(open) \in Nat
         /\ phase = "done" => Blocks(result) \in Nat
         /\ phase # "done" => allocated = StackBlocks(open)
<1>1. Len(open) \in 0..Enough /\ StackBlocks(open) \in Nat
  BY StackType DEF ParserInv
<1>2. phase = "done" => Blocks(result) \in Nat
  BY BlocksType DEF ParserInv
<1>3. QED
  BY <1>1, <1>2 DEF ParserInv

-----------------------------------------------------------------------------
\* One lemma per action.

LEMMA NullIsNone == NULL[1] = "NULL"
BY DEF NULL

LEMMA AtomIs ==
  ASSUME NEW t
  PROVE  LET v == IF t[1] = "scalar" THEN t ELSE <<"string", parse_string(t)>>
         IN v[1] \notin {"array", "object"}
<1>1. CASE t[1] = "scalar"
  BY <1>1
<1>2. CASE t[1] # "scalar"
  <2>1. (<<"string", parse_string(t)>>)[1] = "string"
    OBVIOUS
  <2>2. QED
    BY <1>2, <2>1
<1>3. QED
  BY <1>1, <1>2

LEMMA ReadAtomKeeps ==
  ASSUME ParserInv, NEW t, ReadAtom(t)
  PROVE  ParserInv'
<1> DEFINE v == IF t[1] = "scalar" THEN t ELSE <<"string", parse_string(t)>>
<1>1. AtValue(t) /\ Complete(v, open, Blocks(v))
  BY DEF ReadAtom
<1>2. phase \in {"value", "value_failed"} \/ (InLoop /\ InArray(Innermost))
  BY <1>1 DEF AtValue
<1>3. Nested(open) /\ HaveKeys(open)
  BY <1>2, AllKeyed DEF ParserInv
<1>4. allocated \in Nat /\ Len(open) \in 0..Enough /\ phase # "done" /\ allocated = StackBlocks(open)
  BY <1>2, InvType DEF InLoop
<1>5. v[1] \notin {"array", "object"}
  BY AtomIs
<1> HIDE DEF v
<1>6. Enough - Len(open) \in Nat /\ Enough - Len(open) <= Enough
  BY <1>4, EnoughType
<1>7. Deep(v, Enough - Len(open))
  BY <1>5, <1>6, AtomDeep
<1>8. Blocks(v) \in Nat
  BY <1>5, AtomDeep, EnoughType, BlocksType
<1>9. QED
  BY <1>1, <1>3, <1>4, <1>7, <1>8, CompleteKeeps

LEMMA ReadOpenKeeps ==
  ASSUME ParserInv, NEW t, ReadOpen(t)
  PROVE  ParserInv'
<1> DEFINE c == <<IF t = <<"[">> THEN "array" ELSE "object", <<>>>>
           frame == [value |-> c, key |-> NULL]
<1>1. /\ AtValue(t) /\ LevelAllows /\ open' = Append(open, frame) /\ phase' = "items"
      /\ allocated' = allocated + 1
  BY DEF ReadOpen
<1>2. phase \in {"value", "value_failed"} \/ (InLoop /\ InArray(Innermost))
  BY <1>1 DEF AtValue
<1>3. Nested(open) /\ HaveKeys(open)
  BY <1>2, AllKeyed DEF ParserInv
<1>4. allocated \in Nat /\ Len(open) \in 0..Enough /\ phase # "done" /\ allocated = StackBlocks(open)
  BY <1>2, InvType DEF InLoop
<1>5. Len(open) < Enough /\ Enough - Len(open) \in 1..Enough
  BY <1>1, <1>4, EnoughType, LevelAssumption DEF LevelAllows, Enough
<1>6. c \in {<<"array", <<>>>>, <<"object", <<>>>>}
  OBVIOUS
<1> HIDE DEF c
<1>7. IsContainer(c) /\ Deep(c, Enough - Len(open)) /\ Blocks(c) = 1
  BY <1>5, <1>6, NewContainer
<1>8. FrameOK(frame, Enough - Len(open)) /\ FrameBlocks(frame) = 1 /\ frame.key = NULL
  BY <1>7 DEF FrameOK, FrameBlocks
<1> HIDE DEF frame
<1>9. /\ Nested(open') /\ open' # <<>> /\ Len(open') = Len(open) + 1
      /\ StackBlocks(open') = StackBlocks(open) + 1
      /\ Last(open') = frame /\ \A i \in 1..Len(open) : open'[i] = open[i]
  BY <1>1, <1>3, <1>5, <1>8, OpenPush
<1>10. \A i \in 1..Len(open') - 1 : HasKey(open'[i])
  BY <1>3, <1>4, <1>9 DEF HaveKeys
<1>11. QED
  BY <1>1, <1>4, <1>8, <1>9, <1>10 DEF ParserInv

LEMMA ReadCommaKeeps ==
  ASSUME ParserInv, NEW t, ReadComma(t)
  PROVE  ParserInv'
<1>1. phase = "more" /\ phase' = "items" /\ open' = open /\ allocated' = allocated
  BY DEF ReadComma, Comma
<1>2. QED
  BY <1>1 DEF ParserInv

LEMMA ReadCloseKeeps ==
  ASSUME ParserInv, NEW t, ReadClose(t)
  PROVE  ParserInv'
<1>1. phase \in {"items", "more"} /\ Complete(Last(open).value, Front(open), 0)
  BY DEF ReadClose, InLoop, Innermost
<1>2. open # <<>> /\ Last(open).key = NULL /\ Nested(open) /\ \A i \in 1..Len(open) - 1 : HasKey(open[i])
  BY <1>1 DEF ParserInv
<1>3. /\ Nested(Front(open)) /\ Len(open) \in 1..Enough /\ Len(Front(open)) = Len(open) - 1
      /\ FrameOK(Last(open), Enough - Len(Front(open)))
      /\ StackBlocks(open) = StackBlocks(Front(open)) + FrameBlocks(Last(open))
      /\ \A i \in 1..Len(open) - 1 : Front(open)[i] = open[i]
  BY <1>2, OpenPop
<1>4. HaveKeys(Front(open))
  BY <1>2, <1>3 DEF HaveKeys
<1>5. Deep(Last(open).value, Enough - Len(Front(open)))
  BY <1>3 DEF FrameOK
<1>6. Enough - Len(Front(open)) \in 0..Enough
  BY <1>3, EnoughType
<1>7. Blocks(Last(open).value) \in Nat
  BY <1>3, <1>6, FrameBlocksType
<1>8. FrameBlocks(Last(open)) = Blocks(Last(open).value)
  BY <1>2, <1>7 DEF FrameBlocks
<1>9. allocated \in Nat /\ allocated = StackBlocks(open)
  BY <1>1, InvType
<1>10. allocated + 0 = StackBlocks(Front(open)) + Blocks(Last(open).value)
  BY <1>3, <1>8, <1>9
<1>11. QED
  BY <1>1, <1>3, <1>4, <1>5, <1>9, <1>10, CompleteKeeps

\* The key of the innermost frame is set or reset.
LEMMA KeyChanges ==
  ASSUME ParserInv, open # <<>>, NEW key, phase # "done"
  PROVE  LET new == [Last(open) EXCEPT !.key = key]
             s == Append(Front(open), new)
         IN /\ Nested(s) /\ s # <<>> /\ Last(s).key = key /\ Last(s).value = Last(open).value
            /\ \A i \in 1..Len(s) - 1 : HasKey(s[i])
            /\ StackBlocks(s) = allocated + (IF key = NULL THEN 0 ELSE 1)
                                          - IF Last(open).key = NULL THEN 0 ELSE 1
<1> DEFINE old == Last(open)
           base == Front(open)
           new == [old EXCEPT !.key = key]
           s == Append(base, new)
           n == Enough - Len(base)
<1>1. Nested(open) /\ \A i \in 1..Len(open) - 1 : HasKey(open[i])
  BY DEF ParserInv
<1>2. /\ Nested(base) /\ Len(open) \in 1..Enough /\ Len(base) = Len(open) - 1
      /\ FrameOK(old, n)
      /\ StackBlocks(open) = StackBlocks(base) + FrameBlocks(old)
      /\ \A i \in 1..Len(open) - 1 : base[i] = open[i]
  BY <1>1, OpenPop
<1>3. n \in 0..Enough /\ Len(base) < Enough
  BY <1>2, EnoughType
<1> HIDE DEF n, base, old
<1>4. Blocks(old.value) \in Nat
  BY <1>2, <1>3, FrameBlocksType
<1>5. new.value = old.value /\ new.key = key /\ new = [value |-> new.value, key |-> new.key]
  BY <1>2 DEF FrameOK
<1> HIDE DEF new
<1>6. FrameOK(new, n)
  BY <1>2, <1>5 DEF FrameOK
<1>7. /\ Nested(s) /\ s # <<>> /\ Len(s) = Len(base) + 1
      /\ StackBlocks(s) = StackBlocks(base) + FrameBlocks(new)
      /\ Last(s) = new /\ \A i \in 1..Len(base) : s[i] = base[i]
  BY <1>2, <1>3, <1>6, OpenPush DEF n
<1> HIDE DEF s
<1>8. \A i \in 1..Len(s) - 1 : HasKey(s[i])
  BY <1>1, <1>2, <1>7
<1>9. StackBlocks(base) \in Nat /\ allocated = StackBlocks(open)
  BY <1>2, StackType, InvType
<1>10. StackBlocks(s) = allocated + (IF key = NULL THEN 0 ELSE 1) - IF old.key = NULL THEN 0 ELSE 1
  BY <1>2, <1>4, <1>5, <1>7, <1>9 DEF FrameBlocks
<1>11. QED
  BY <1>5, <1>7, <1>8, <1>10 DEF s, new, old, base

LEMMA ReadKeyKeeps ==
  ASSUME ParserInv, NEW t, ReadKey(t)
  PROVE  ParserInv'
<1> DEFINE key == parse_string(t)
<1>1. /\ phase \in {"items", "more"} /\ ~InArray(Last(open)) /\ key # NULL
      /\ open' = Append(Front(open), [Last(open) EXCEPT !.key = key])
      /\ phase' = "colon" /\ allocated' = allocated + 1
  BY DEF ReadKey, AtKey, InLoop, Innermost
<1> HIDE DEF key
<1>2. open # <<>> /\ Last(open).key = NULL /\ phase # "done"
  BY <1>1 DEF ParserInv
<1>3. allocated \in Nat
  BY InvType
<1>4. /\ Nested(open') /\ open' # <<>> /\ Last(open').key = key /\ Last(open').value = Last(open).value
      /\ \A i \in 1..Len(open') - 1 : HasKey(open'[i])
      /\ StackBlocks(open') = allocated + 1
  <2>1. /\ Nested(open') /\ open' # <<>> /\ Last(open').key = key /\ Last(open').value = Last(open).value
        /\ \A i \in 1..Len(open') - 1 : HasKey(open'[i])
        /\ StackBlocks(open') = allocated + (IF key = NULL THEN 0 ELSE 1)
                                          - IF Last(open).key = NULL THEN 0 ELSE 1
    BY <1>1, <1>2, KeyChanges, Zenon
  <2>2. QED
    BY <1>1, <1>2, <1>3, <2>1
<1>5. HasKey(Last(open'))
  BY <1>1, <1>4 DEF HasKey, InArray
<1>6. QED
  BY <1>1, <1>4, <1>5 DEF ParserInv

LEMMA ReadColonKeeps ==
  ASSUME ParserInv, NEW t, ReadColon(t)
  PROVE  ParserInv'
<1>1. phase = "colon" /\ phase' = "value" /\ open' = open /\ allocated' = allocated
  BY DEF ReadColon
<1>2. QED
  BY <1>1 DEF ParserInv

LEMMA KeyDropKeeps ==
  ASSUME ParserInv, NEW t, NoColon(t)
  PROVE  ParserInv'
<1>1. /\ phase = "colon" /\ phase' = "key_failed"
      /\ open' = Append(Front(open), [Last(open) EXCEPT !.key = NULL])
      /\ allocated' = allocated - 1
  BY DEF NoColon, Innermost
<1>2. open # <<>> /\ Last(open).key # NULL /\ phase # "done"
  BY <1>1 DEF ParserInv
<1>3. allocated \in Nat
  BY InvType
<1>4. /\ Nested(open') /\ open' # <<>> /\ Last(open').key = NULL
      /\ \A i \in 1..Len(open') - 1 : HasKey(open'[i])
      /\ StackBlocks(open') = allocated - 1
  <2>1. /\ Nested(open') /\ open' # <<>> /\ Last(open').key = NULL /\ Last(open').value = Last(open).value
        /\ \A i \in 1..Len(open') - 1 : HasKey(open'[i])
        /\ StackBlocks(open') = allocated + (IF NULL = NULL THEN 0 ELSE 1)
                                          - IF Last(open).key = NULL THEN 0 ELSE 1
    BY <1>1, <1>2, KeyChanges, Zenon
  <2>2. QED
    BY <1>1, <1>2, <1>3, <2>1
<1>5. QED
  BY <1>1, <1>4 DEF ParserInv

LEMMA RefuseKeeps ==
  ASSUME ParserInv, NEW t, Refuse(t)
  PROVE  ParserInv'
<1>1. open' = open /\ allocated' = allocated /\ phase' = (IF AtKey(t) THEN "key_failed" ELSE "value_failed")
  BY DEF Refuse
<1>2. CASE AtKey(t)
  <2>1. phase \in {"items", "more"} /\ phase' = "key_failed"
    BY <1>1, <1>2 DEF AtKey, InLoop
  <2>2. QED
    BY <1>1, <2>1 DEF ParserInv
<1>3. CASE ~AtKey(t)
  <2>1. AtValue(t) /\ phase' = "value_failed"
    BY <1>1, <1>3 DEF Refuse
  <2>2. phase = "value" \/ (phase \in {"items", "more"} /\ InArray(Last(open)))
    BY <2>1 DEF AtValue, InLoop, Innermost
  <2>3. open # <<>> => HasKey(Last(open))
    BY <2>2 DEF ParserInv, HasKey
  <2>4. phase # "done"
    BY <2>2
  <2>5. QED
    BY <1>1, <2>1, <2>3, <2>4 DEF ParserInv
<1>4. QED
  BY <1>2, <1>3

LEMMA UnwindKeeps ==
  ASSUME ParserInv, Unwind
  PROVE  ParserInv'
<1> DEFINE failed == phase = "value_failed"
           top == Last(open)
           base == Front(open)
           v == IF failed THEN Stored(top, Invalid) ELSE top.value
           n == Enough - Len(base)
<1>1. /\ phase \in {"value_failed", "key_failed"} /\ open # <<>>
      /\ allocated' = allocated + (IF failed THEN Growth(top) ELSE 0) - Blocks(v)
      /\ open' = base /\ phase' = "value_failed"
  BY DEF Unwind, Innermost
<1>2. Nested(open) /\ \A i \in 1..Len(open) - 1 : HasKey(open[i])
  BY DEF ParserInv
<1>3. /\ Nested(base) /\ Len(open) \in 1..Enough /\ Len(base) = Len(open) - 1
      /\ FrameOK(top, n) /\ FrameBlocks(top) \in Nat
      /\ StackBlocks(open) = StackBlocks(base) + FrameBlocks(top)
      /\ \A i \in 1..Len(open) - 1 : base[i] = open[i]
  BY <1>1, <1>2, OpenPop
<1>4. n \in 1..Enough /\ n - 1 \in Nat
  BY <1>3, EnoughType
<1>5. allocated = StackBlocks(open) /\ StackBlocks(base) \in Nat
  BY <1>1, <1>3, InvType, StackType
<1>6. failed => HasKey(top)
  BY <1>1 DEF ParserInv
<1>7. ~failed => top.key = NULL
  BY <1>1 DEF ParserInv
<1> HIDE DEF n, base, top
<1>8. allocated' = StackBlocks(base)
  <2>1. CASE failed
    <3>1. Deep(Invalid, n - 1)
      <4>1. Invalid[1] \notin {"array", "object"}
        BY DEF Invalid
      <4>2. QED
        BY <1>4, <4>1, AtomDeep
    <3>2. Growth(top) \in Int /\ Blocks(Stored(top, Invalid)) = FrameBlocks(top) + 0 + Growth(top)
      BY <1>3, <1>4, <1>6, <2>1, <3>1, StoredFits, InvalidBlocks
    <3>3. QED
      BY <1>1, <1>3, <1>5, <2>1, <3>2
  <2>2. CASE ~failed
    <3>1. n \in 0..Enough
      BY <1>4
    <3>2. Blocks(top.value) \in Nat
      BY <1>3, <3>1, FrameBlocksType
    <3>3. FrameBlocks(top) = Blocks(top.value)
      BY <1>7, <2>2, <3>2 DEF FrameBlocks
    <3>4. QED
      BY <1>1, <1>3, <1>5, <2>2, <3>2, <3>3
  <2>3. QED
    BY <2>1, <2>2
<1>9. HaveKeys(base)
  BY <1>2, <1>3 DEF HaveKeys
<1>10. base # <<>> => HasKey(Last(base))
  <2>1. ASSUME base # <<>> PROVE HasKey(Last(base))
    <3>1. Last(base) = base[Len(base)] /\ Len(base) \in 1..Enough
      BY <1>3, <2>1, OpenPop
    <3>2. QED
      BY <1>9, <3>1, EnoughType DEF HaveKeys
  <2>2. QED
    BY <2>1
<1>11. \A i \in 1..Len(base) - 1 : HasKey(base[i])
  BY <1>3, <1>9 DEF HaveKeys
<1>12. QED
  BY <1>1, <1>3, <1>8, <1>10, <1>11 DEF ParserInv

LEMMA FailKeeps ==
  ASSUME ParserInv, Fail
  PROVE  ParserInv'
<1>1. /\ open = <<>> /\ open' = open /\ allocated' = allocated
      /\ phase = "value_failed" /\ phase' = "failed"
  BY DEF Fail
<1>2. QED
  BY <1>1 DEF ParserInv

LEMMA ReencodeKeeps ==
  ASSUME ParserInv, Reencode
  PROVE  ParserInv'
<1>1. /\ phase = "done" /\ phase' = "value" /\ open' = open
      /\ allocated' = allocated - Blocks(result)
  BY DEF Reencode
<1>2. /\ open = <<>> /\ Blocks(result) \in Nat
      /\ allocated = StackBlocks(open) + Blocks(result)
  BY <1>1, InvType DEF ParserInv
<1>3. StackBlocks(open) = 0 /\ Nested(open)
  BY <1>2, StackEmpty
<1>4. allocated' = StackBlocks(open)
  BY <1>1, <1>2, <1>3
<1>5. QED
  BY <1>1, <1>2, <1>4 DEF ParserInv

LEMMA ReadKeeps ==
  ASSUME ParserInv, NEW t, Read(t)
  PROVE  ParserInv'
<1>1. \/ ReadAtom(t) \/ ReadOpen(t) \/ ReadComma(t) \/ ReadClose(t)
      \/ ReadKey(t) \/ ReadColon(t) \/ NoColon(t) \/ Refuse(t)
  BY DEF Read
<1>2. QED
  BY <1>1, ReadAtomKeeps, ReadOpenKeeps, ReadCommaKeeps, ReadCloseKeeps, ReadKeyKeeps,
     ReadColonKeeps, KeyDropKeeps, RefuseKeeps

LEMMA ParserStarts ==
  ASSUME ParserInit
  PROVE  ParserInv
<1>1. open = <<>> /\ phase = "value" /\ allocated = 0
  BY DEF ParserInit
<1>2. Nested(open) /\ StackBlocks(open) = 0 /\ Len(open) = 0
  BY <1>1, StackEmpty
<1>3. QED
  BY <1>1, <1>2 DEF ParserInv

LEMMA ParserSteps ==
  ASSUME ParserInv, [ParserNext]_parserVars
  PROVE  ParserInv'
<1>1. CASE \E t : Read(t)
  BY <1>1, ReadKeeps
<1>2. CASE Unwind
  BY <1>2, UnwindKeeps
<1>3. CASE Fail
  BY <1>3, FailKeeps
<1>4. CASE Reencode
  BY <1>4, ReencodeKeeps
<1>5. CASE UNCHANGED parserVars
  BY <1>5 DEF ParserInv, parserVars
<1>6. QED
  BY <1>1, <1>2, <1>3, <1>4, <1>5 DEF ParserNext

LEMMA InvOwns ==
  ASSUME ParserInv
  PROVE  OwnsWhatItBuilt
<1>1. [i \in 1..Len(open) |-> FrameBlocks(open[i])]
      = [i \in 1..Len(open) |-> Blocks(open[i].value) + IF open[i].key = NULL THEN 0 ELSE 1]
  BY DEF FrameBlocks
<1>2. allocated = SumFunction([i \in 1..Len(open) |-> FrameBlocks(open[i])])
                  + IF phase = "done" THEN Blocks(result) ELSE 0
  BY Zenon DEF ParserInv, StackBlocks
<1>3. QED
  BY <1>1, <1>2, Zenon DEF OwnsWhatItBuilt

\* Whatever the text, however deep it is and wherever the decoder gives up, the allocated blocks
\* are those of the containers it is in, with their pending keys, or of the value it returned.
THEOREM DecoderOwns == ParserSpec => []OwnsWhatItBuilt
<1>1. ParserInit => ParserInv
  BY ParserStarts
<1>2. ParserInv /\ [ParserNext]_parserVars => ParserInv'
  BY ParserSteps
<1>3. ParserInv => OwnsWhatItBuilt
  BY InvOwns
<1>4. QED
  BY <1>1, <1>2, <1>3, PTL DEF ParserSpec
=============================================================================
