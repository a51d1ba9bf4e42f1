--------------------------- MODULE OperatorProofs ---------------------------
(***************************************************************************)
(* Induction over finite sets and over numbers, the sums and folds of the  *)
(* library that are defined by it, and UTF-8 and UTF-16.                   *)
(***************************************************************************)
EXTENDS Integers, Sequences, Encodings, Functions, FiniteSetTheorems, SequenceTheorems, TLAPS

-----------------------------------------------------------------------------
\* Induction.  A set of counterexamples that has any has a smallest one, of finite sets by
\* inclusion, of numbers by size.

LEMMA SmallestSet ==
  ASSUME NEW S, IsFiniteSet(S), NEW Bad, Bad \subseteq SUBSET S, Bad # {}
  PROVE  \E m \in Bad : \A s \in Bad : s \subseteq m => s = m
<1>1. Bad \subseteq FiniteSubsetsOf(S)
  BY FS_Subset DEF FiniteSubsetsOf
<1>2. PICK m \in Bad : \A s \in Bad : <<s, m>> \notin StrictSubsetOrdering(S)
  BY <1>1, FS_StrictSubsetOrderingWellFounded, WFMin
<1>3. QED
  BY <1>2 DEF StrictSubsetOrdering

LEMMA SmallestNumber ==
  ASSUME NEW N \in Nat, NEW Bad, Bad \subseteq 0..N, Bad # {}
  PROVE  \E m \in Bad : \A k \in Bad : m <= k
<1> DEFINE UpTo(n) == 0..n
           Sets == {UpTo(n) : n \in Bad}
           All == 0..N
<1>1. Sets \subseteq SUBSET All /\ Sets # {} /\ IsFiniteSet(All)
  <2>1. \A n \in Bad : UpTo(n) \subseteq All
    OBVIOUS
  <2>2. IsFiniteSet(All)
    BY FS_Interval
  <2> HIDE DEF UpTo, All
  <2>3. QED
    BY <2>1, <2>2
<1>2. \A m, k \in Bad : k < m => UpTo(k) \subseteq UpTo(m) /\ UpTo(k) # UpTo(m)
  <2>1. ASSUME NEW m \in Bad, NEW k \in Bad, k < m PROVE UpTo(k) \subseteq UpTo(m) /\ UpTo(k) # UpTo(m)
    <3>1. m \in 0..N /\ k \in 0..N
      OBVIOUS
    <3>2. m \in UpTo(m) /\ m \notin UpTo(k)
      BY <2>1, <3>1
    <3>3. UpTo(k) \subseteq UpTo(m)
      BY <2>1, <3>1
    <3>4. QED
      BY <3>2, <3>3
  <2>2. QED
    BY <2>1
<1> HIDE DEF UpTo, All
<1>3. PICK s \in Sets : \A r \in Sets : r \subseteq s => r = s
  <2> HIDE DEF Sets
  <2>1. QED
    BY <1>1, SmallestSet
<1>4. PICK m \in Bad : s = UpTo(m)
  OBVIOUS
<1>5. \A k \in Bad : ~(k < m)
  BY <1>2, <1>3, <1>4
<1>6. QED
  BY <1>5

-----------------------------------------------------------------------------
\* Sums.  The library defines a sum by recursion over the sets of indices, which takes out
\* one index at a time.  Unfolded says that g is such a function for the subsets of S.

Pick(s) == CHOOSE i \in s : TRUE
Others(s) == s \ {Pick(s)}
Turn(f, g, s) == IF s = {} THEN 0 ELSE f[Pick(s)] + g[Others(s)]
Unfolded(f, S, g) == g = [s \in SUBSET S |-> Turn(f, g, s)]
Unfolding(f, S) == CHOOSE g : Unfolded(f, S, g)

LEMMA PickIsIn == \A s : s # {} => Pick(s) \in s
BY DEF Pick

LEMMA SumIsUnfolding ==
  ASSUME NEW f, NEW S
  PROVE  SumFunctionOnSet(f, S) = Unfolding(f, S)[S]
BY DEF SumFunctionOnSet, FoldFunctionOnSet, MapThenFoldSet,
       Unfolding, Unfolded, Turn, Others, Pick

\* Two such functions agree.
LEMMA UnfoldingsAgree ==
  ASSUME NEW f, NEW S, IsFiniteSet(S), NEW g, Unfolded(f, S, g),
         NEW U \in SUBSET S, NEW h, Unfolded(f, U, h),
         NEW w \in SUBSET U
  PROVE  g[w] = h[w]
<1> DEFINE Bad == {s \in SUBSET U : g[s] # h[s]}
<1>1. SUFFICES ASSUME Bad # {} PROVE FALSE
  OBVIOUS
<1>2. \A s \in Bad : IsFiniteSet(s)
  BY FS_Subset
<1>3. PICK m \in Bad : \A s \in Bad : s \subseteq m => s = m
  <2>1. Bad \subseteq SUBSET U
    OBVIOUS
  <2>2. IsFiniteSet(U)
    BY FS_Subset
  <2> HIDE DEF Bad
  <2>3. QED
    BY <1>1, <2>1, <2>2, SmallestSet
<1>4. g[m] = Turn(f, g, m) /\ h[m] = Turn(f, h, m)
  BY DEF Unfolded
<1>5. CASE m = {}
  BY <1>4, <1>5 DEF Turn
<1>6. CASE m # {}
  <2>1. Others(m) \in SUBSET U /\ Others(m) \subseteq m /\ Others(m) # m
    BY <1>6, PickIsIn DEF Others
  <2>2. g[Others(m)] = h[Others(m)]
    BY <1>3, <2>1
  <2>3. QED
    BY <1>4, <1>6, <2>2 DEF Turn
<1>7. QED
  BY <1>5, <1>6

\* There is one for every finite set.
LEMMA UnfoldingExists ==
  ASSUME NEW f, NEW S, IsFiniteSet(S)
  PROVE  Unfolded(f, S, Unfolding(f, S))
<1> DEFINE Bad == {s \in SUBSET S : ~\E g : Unfolded(f, s, g)}
<1>1. SUFFICES Bad = {}
  BY DEF Unfolding
<1>2. SUFFICES ASSUME Bad # {} PROVE FALSE
  OBVIOUS
<1>3. \A s \in SUBSET S : IsFiniteSet(s)
  BY FS_Subset
<1>4. PICK m \in Bad : \A s \in Bad : s \subseteq m => s = m
  <2>1. Bad \subseteq SUBSET S
    OBVIOUS
  <2>2. IsFiniteSet(S)
    BY FS_Subset
  <2> HIDE DEF Bad
  <2>3. QED
    BY <1>2, <2>1, <2>2, SmallestSet
<1>5. ASSUME NEW s \in SUBSET m, s # m
      PROVE  Unfolded(f, s, Unfolding(f, s))
  BY <1>4, <1>5 DEF Unfolding
<1> DEFINE Of(s) == Unfolding(f, s)[s]
           g == [s \in SUBSET m |-> IF s = {} THEN 0 ELSE f[Pick(s)] + Of(Others(s))]
<1>6. ASSUME NEW s \in SUBSET m, s # {}
      PROVE  g[Others(s)] = Of(Others(s))
  <2> DEFINE t == Others(s)
  <2>1. t \in SUBSET m /\ t # m
    BY <1>6, PickIsIn DEF Others
  <2>2. Unfolded(f, t, Unfolding(f, t)) /\ IsFiniteSet(t)
    BY <1>3, <1>4, <1>5, <2>1
  <2> HIDE DEF t
  <2>3. Of(t) = Turn(f, Unfolding(f, t), t)
    BY <2>2 DEF Unfolded
  <2>4. CASE t = {}
    BY <2>1, <2>3, <2>4 DEF Turn, t
  <2>5. CASE t # {}
    <3>1. Others(t) \in SUBSET t /\ Others(t) \in SUBSET m /\ Others(t) # m
      BY <2>1, <2>5, PickIsIn DEF Others
    <3>2. Unfolded(f, Others(t), Unfolding(f, Others(t)))
      BY <1>5, <3>1
    <3>3. Unfolding(f, t)[Others(t)] = Of(Others(t))
      BY <2>2, <3>1, <3>2, UnfoldingsAgree
    <3>4. Of(t) = f[Pick(t)] + Of(Others(t))
      BY <2>3, <2>5, <3>3 DEF Turn
    <3>5. QED
      BY <2>1, <2>5, <3>4 DEF t
  <2>6. QED
    BY <2>4, <2>5 DEF t
<1> HIDE DEF Of
<1>7. \A s \in SUBSET m : g[s] = Turn(f, g, s)
  BY <1>6 DEF Turn
<1>8. g = [s \in SUBSET m |-> Turn(f, g, s)]
  BY <1>7, Zenon
<1>9. Unfolded(f, m, g)
  BY <1>8 DEF Unfolded
<1>10. QED
  BY <1>4, <1>9

\* A sum, taken apart as the library does.
LEMMA SumTurn ==
  ASSUME NEW f, NEW S, IsFiniteSet(S)
  PROVE  SumFunctionOnSet(f, S) = IF S = {} THEN 0 ELSE f[Pick(S)] + SumFunctionOnSet(f, Others(S))
<1>1. Unfolded(f, S, Unfolding(f, S))
  BY UnfoldingExists
<1>2. SumFunctionOnSet(f, S) = Turn(f, Unfolding(f, S), S)
  BY <1>1, SumIsUnfolding DEF Unfolded
<1>3. CASE S = {}
  BY <1>2, <1>3 DEF Turn
<1>4. CASE S # {}
  <2>1. Others(S) \in SUBSET S /\ IsFiniteSet(Others(S))
    BY FS_Subset DEF Others
  <2>2. Unfolded(f, Others(S), Unfolding(f, Others(S)))
    BY <2>1, UnfoldingExists
  <2>3. Unfolding(f, S)[Others(S)] = SumFunctionOnSet(f, Others(S))
    <3>1. Unfolding(f, S)[Others(S)] = Unfolding(f, Others(S))[Others(S)]
      BY <1>1, <2>1, <2>2, UnfoldingsAgree
    <3>2. SumFunctionOnSet(f, Others(S)) = Unfolding(f, Others(S))[Others(S)]
      BY SumIsUnfolding, Zenon
    <3>3. QED
      BY <3>1, <3>2
  <2>4. QED
    BY <1>2, <1>4, <2>3 DEF Turn
<1>5. QED
  BY <1>3, <1>4

LEMMA SumType ==
  ASSUME NEW S, IsFiniteSet(S), NEW f, \A i \in S : f[i] \in Nat
  PROVE  SumFunctionOnSet(f, S) \in Nat
<1> DEFINE Bad == {s \in SUBSET S : SumFunctionOnSet(f, s) \notin Nat}
<1>1. SUFFICES ASSUME Bad # {} PROVE FALSE
  OBVIOUS
<1>2. \A s \in SUBSET S : IsFiniteSet(s)
  BY FS_Subset
<1>3. PICK m \in Bad : \A s \in Bad : s \subseteq m => s = m
  <2>1. Bad \subseteq SUBSET S
    OBVIOUS
  <2>2. IsFiniteSet(S)
    BY FS_Subset
  <2> HIDE DEF Bad
  <2>3. QED
    BY <1>1, <2>1, <2>2, SmallestSet
<1>4. CASE m = {}
  <2>1. IsFiniteSet(m)
    BY <1>2
  <2>2. SumFunctionOnSet(f, m) = 0
    BY <1>4, <2>1, SumTurn
  <2>3. QED
    BY <2>2
<1>5. CASE m # {}
  <2>1. Pick(m) \in m /\ Others(m) \in SUBSET S /\ Others(m) \subseteq m /\ Others(m) # m
    BY <1>5, PickIsIn DEF Others
  <2>2. SumFunctionOnSet(f, Others(m)) \in Nat /\ f[Pick(m)] \in Nat
    BY <1>3, <2>1
  <2>3. SumFunctionOnSet(f, m) = f[Pick(m)] + SumFunctionOnSet(f, Others(m))
    BY <1>2, <1>5, SumTurn
  <2>4. QED
    BY <2>2, <2>3
<1>6. QED
  BY <1>4, <1>5

\* A sum, taken apart at any index.
LEMMA SumWithout ==
  ASSUME NEW S, IsFiniteSet(S), NEW f, \A i \in S : f[i] \in Nat, NEW x \in S
  PROVE  SumFunctionOnSet(f, S) = f[x] + SumFunctionOnSet(f, S \ {x})
<1> DEFINE Bad == {s \in SUBSET S : \E y \in s : SumFunctionOnSet(f, s) # f[y] + SumFunctionOnSet(f, s \ {y})}
<1>1. SUFFICES ASSUME Bad # {} PROVE FALSE
  OBVIOUS
<1>2. \A s \in SUBSET S : IsFiniteSet(s)
  BY FS_Subset
<1>3. PICK m \in Bad : \A s \in Bad : s \subseteq m => s = m
  <2>1. Bad \subseteq SUBSET S
    OBVIOUS
  <2>2. IsFiniteSet(S)
    BY FS_Subset
  <2> HIDE DEF Bad
  <2>3. QED
    BY <1>1, <2>1, <2>2, SmallestSet
<1>4. PICK y \in m : SumFunctionOnSet(f, m) # f[y] + SumFunctionOnSet(f, m \ {y})
  BY <1>3
<1> DEFINE p == Pick(m)
<1>5. p \in m
  BY <1>4, PickIsIn
<1>6. SumFunctionOnSet(f, m) = f[p] + SumFunctionOnSet(f, m \ {p})
  BY <1>2, <1>5, SumTurn DEF Others
<1> HIDE DEF p
<1>7. p # y
  BY <1>4, <1>6
<1> DEFINE rest == m \ {p, y}
<1>8. SumFunctionOnSet(f, m \ {p}) = f[y] + SumFunctionOnSet(f, rest)
  <2>1. m \ {p} \in SUBSET S /\ m \ {p} \notin Bad /\ y \in m \ {p}
    BY <1>3, <1>5, <1>7
  <2>2. (m \ {p}) \ {y} = rest
    OBVIOUS
  <2>3. QED
    BY <2>1, <2>2
<1>9. SumFunctionOnSet(f, m \ {y}) = f[p] + SumFunctionOnSet(f, rest)
  <2>1. m \ {y} \in SUBSET S /\ m \ {y} \notin Bad /\ p \in m \ {y}
    BY <1>3, <1>4, <1>5, <1>7
  <2>2. (m \ {y}) \ {p} = rest
    OBVIOUS
  <2>3. QED
    BY <2>1, <2>2
<1>10. SumFunctionOnSet(f, rest) \in Nat /\ f[p] \in Nat /\ f[y] \in Nat
  <2>1. rest \in SUBSET S /\ IsFiniteSet(rest)
    BY <1>2
  <2>2. QED
    BY <1>5, <2>1, SumType
<1> HIDE DEF rest
<1>11. QED
  BY <1>4, <1>6, <1>8, <1>9, <1>10

\* Sums over the same values are equal.
LEMMA SumSame ==
  ASSUME NEW S, IsFiniteSet(S), NEW f, NEW g, \A i \in S : f[i] = g[i]
  PROVE  SumFunctionOnSet(f, S) = SumFunctionOnSet(g, S)
<1> DEFINE Bad == {s \in SUBSET S : SumFunctionOnSet(f, s) # SumFunctionOnSet(g, s)}
<1>1. SUFFICES ASSUME Bad # {} PROVE FALSE
  OBVIOUS
<1>2. \A s \in SUBSET S : IsFiniteSet(s)
  BY FS_Subset
<1>3. PICK m \in Bad : \A s \in Bad : s \subseteq m => s = m
  <2>1. Bad \subseteq SUBSET S
    OBVIOUS
  <2>2. IsFiniteSet(S)
    BY FS_Subset
  <2> HIDE DEF Bad
  <2>3. QED
    BY <1>1, <2>1, <2>2, SmallestSet
<1>4. CASE m = {}
  <2>1. IsFiniteSet(m)
    BY <1>2
  <2> HIDE DEF Bad
  <2>2. QED
    BY <1>3, <1>4, <2>1, SumTurn DEF Bad
<1>5. CASE m # {}
  <2>1. Pick(m) \in m /\ Others(m) \in SUBSET S /\ Others(m) \subseteq m /\ Others(m) # m
    BY <1>5, PickIsIn DEF Others
  <2>2. SumFunctionOnSet(f, Others(m)) = SumFunctionOnSet(g, Others(m)) /\ f[Pick(m)] = g[Pick(m)]
    BY <1>3, <2>1
  <2>3. SumFunctionOnSet(f, m) = f[Pick(m)] + SumFunctionOnSet(f, Others(m)) /\ SumFunctionOnSet(g, m) = g[Pick(m)] + SumFunctionOnSet(g, Others(m))
    BY <1>2, <1>5, SumTurn
  <2>4. QED
    BY <2>2, <2>3
<1>6. QED
  BY <1>4, <1>5

LEMMA SumZero ==
  ASSUME NEW S, IsFiniteSet(S), NEW f, \A i \in S : f[i] = 0
  PROVE  SumFunctionOnSet(f, S) = 0
<1> DEFINE Bad == {s \in SUBSET S : SumFunctionOnSet(f, s) # 0}
<1>1. SUFFICES ASSUME Bad # {} PROVE FALSE
  OBVIOUS
<1>2. \A s \in SUBSET S : IsFiniteSet(s)
  BY FS_Subset
<1>3. PICK m \in Bad : \A s \in Bad : s \subseteq m => s = m
  <2>1. Bad \subseteq SUBSET S
    OBVIOUS
  <2>2. IsFiniteSet(S)
    BY FS_Subset
  <2> HIDE DEF Bad
  <2>3. QED
    BY <1>1, <2>1, <2>2, SmallestSet
<1>4. CASE m = {}
  <2>1. IsFiniteSet(m)
    BY <1>2
  <2>2. SumFunctionOnSet(f, m) = 0
    BY <1>4, <2>1, SumTurn
  <2>3. QED
    BY <2>2
<1>5. CASE m # {}
  <2>1. Pick(m) \in m /\ Others(m) \in SUBSET S /\ Others(m) \subseteq m /\ Others(m) # m
    BY <1>5, PickIsIn DEF Others
  <2>2. SumFunctionOnSet(f, Others(m)) = 0 /\ f[Pick(m)] = 0
    BY <1>3, <2>1
  <2>3. SumFunctionOnSet(f, m) = f[Pick(m)] + SumFunctionOnSet(f, Others(m))
    BY <1>2, <1>5, SumTurn
  <2>4. QED
    BY <2>2, <2>3
<1>6. QED
  BY <1>4, <1>5

\* One value of a sum changes.
LEMMA SumChange ==
  ASSUME NEW S, IsFiniteSet(S), NEW f, NEW g, \A i \in S : f[i] \in Nat /\ g[i] \in Nat,
         NEW x \in S, \A i \in S \ {x} : g[i] = f[i]
  PROVE  SumFunctionOnSet(g, S) = SumFunctionOnSet(f, S) - f[x] + g[x] /\ SumFunctionOnSet(f, S) \in Nat
<1> DEFINE rest == S \ {x}
<1>1. IsFiniteSet(rest)
  BY FS_Subset
<1>2. SumFunctionOnSet(f, S) = f[x] + SumFunctionOnSet(f, rest) /\ SumFunctionOnSet(g, S) = g[x] + SumFunctionOnSet(g, rest)
  BY SumWithout
<1>3. SumFunctionOnSet(f, rest) = SumFunctionOnSet(g, rest)
  BY <1>1, SumSame
<1>4. SumFunctionOnSet(f, S) \in Nat /\ SumFunctionOnSet(f, rest) \in Nat /\ f[x] \in Nat /\ g[x] \in Nat
  BY <1>1, SumType
<1>5. QED
  BY <1>2, <1>3, <1>4

-----------------------------------------------------------------------------
\* Unicode: the loops, of one form.  The loop w over t starts with FirstOf(w); StepOf(w, t, i, d) is what
\* its i-th turn makes of d.

FirstOf(w) == IF w \in {"utf8", "utf16"} THEN Codes!Fresh ELSE <<>>
StepOf(w, t, i, d) ==
  CASE w = "utf8" -> Codes!utf8_decode(d, t[i])
    [] w = "utf16" -> Codes!utf16_decode(d, t[i])
    [] w = "write8" -> d \o Codes!utf8_encode(t[i])
    [] w = "write16" -> d \o Codes!utf16_encode(t[i])
    [] w = "chars" -> IF i \in Codes!Starts(t) THEN Append(d, Codes!CharAt(t, i)) ELSE d
TurnOf(w, t, i, d) == IF i = 0 THEN FirstOf(w) ELSE StepOf(w, t, i, d[i - 1])
IsLoop(w, t, n, d) == d = [i \in 0..n |-> TurnOf(w, t, i, d)]
Looped(w, t, n, d) == \A i \in 0..n : d[i] = TurnOf(w, t, i, d)

LEMMA LoopedFor ==
  ASSUME NEW w, NEW t, NEW N \in Nat
  PROVE  \E d : IsLoop(w, t, N, d)
<1> DEFINE Bad == {j \in 0..N : ~\E d : Looped(w, t, j, d)}
<1>1. ASSUME Bad # {} PROVE FALSE
  <2>1. PICK j \in Bad : \A i \in Bad : j <= i
    BY <1>1, SmallestNumber
  <2>2. j \in 0..N /\ ~\E d : Looped(w, t, j, d)
    OBVIOUS
  <2>3. \A i \in 0..N : i < j => \E d : Looped(w, t, i, d)
    BY <2>1
  <2> HIDE DEF Bad
  <2>4. PICK d : \A i \in 0..j - 1 : d[i] = TurnOf(w, t, i, d)
    <3>1. CASE j = 0
      BY <3>1
    <3>2. CASE j # 0
      <4>1. j - 1 \in 0..N /\ j - 1 < j
        BY <2>2, <3>2
      <4>2. QED
        BY <2>3, <4>1 DEF Looped
    <3>3. QED
      BY <3>1, <3>2
  <2> DEFINE e == [i \in 0..j |-> IF i = j THEN TurnOf(w, t, j, d) ELSE d[i]]
  <2>5. ASSUME NEW i \in 0..j PROVE e[i] = TurnOf(w, t, i, e)
    <3>1. i # 0 => i - 1 \in 0..j /\ i - 1 # j /\ i \in Nat
      BY <2>2
    <3>2. i # 0 => e[i - 1] = d[i - 1]
      BY <3>1
    <3>3. TurnOf(w, t, i, e) = TurnOf(w, t, i, d)
      BY <3>2 DEF TurnOf
    <3>4. i # j => i \in 0..j - 1
      BY <2>2
    <3>5. QED
      BY <2>4, <3>3, <3>4
  <2> HIDE DEF e
  <2>6. Looped(w, t, j, e)
    BY <2>5 DEF Looped
  <2>7. QED
    BY <2>2, <2>6
<1>2. PICK d : \A i \in 0..N : d[i] = TurnOf(w, t, i, d)
  <2>1. N \in 0..N
    OBVIOUS
  <2>2. QED
    BY <1>1, <2>1 DEF Looped
<1> DEFINE f == [i \in 0..N |-> d[i]]
<1>3. ASSUME NEW i \in 0..N PROVE f[i] = TurnOf(w, t, i, f)
  <2>1. i # 0 => i - 1 \in 0..N
    OBVIOUS
  <2>2. i # 0 => f[i - 1] = d[i - 1]
    BY <2>1
  <2>3. QED
    BY <1>2, <2>2 DEF TurnOf
<1>4. f = [i \in 0..N |-> f[i]]
  OBVIOUS
<1> HIDE DEF f
<1>5. IsLoop(w, t, N, f)
  BY <1>3, <1>4 DEF IsLoop
<1>6. QED
  BY <1>5

\* What a loop gives.
LoopGives(w, t, r) == \E d : Looped(w, t, Len(t), d) /\ r = d[Len(t)]

LEMMA Utf8Gives ==
  ASSUME NEW t, Len(t) \in Nat
  PROVE  LoopGives("utf8", t, Codes!Utf8(t))
<1> DEFINE turn(d, i) == IF i = 0 THEN Codes!Fresh ELSE Codes!utf8_decode(d[i - 1], t[i])
           body(d) == [i \in 0..Len(t) |-> turn(d, i)]
           looped == CHOOSE d : d = body(d)
<1>1. Codes!Utf8(t) = looped[Len(t)]
  BY Zenon DEF Codes!Utf8
<1>2. \A d, i : TurnOf("utf8", t, i, d) = turn(d, i)
  BY DEF TurnOf, FirstOf, StepOf
<1>3. PICK d : IsLoop("utf8", t, Len(t), d)
  BY LoopedFor
<1> HIDE DEF turn
<1>4. d = body(d)
  BY <1>2, <1>3 DEF IsLoop
<1>5. looped = body(looped)
  BY <1>4, Zenon
<1> HIDE DEF looped
<1>6. Looped("utf8", t, Len(t), looped)
  BY <1>2, <1>5 DEF Looped
<1>7. QED
  BY <1>1, <1>6 DEF LoopGives

LEMMA Utf16Gives ==
  ASSUME NEW t, Len(t) \in Nat
  PROVE  LoopGives("utf16", t, Codes!Utf16(t))
<1> DEFINE turn(d, i) == IF i = 0 THEN Codes!Fresh ELSE Codes!utf16_decode(d[i - 1], t[i])
           body(d) == [i \in 0..Len(t) |-> turn(d, i)]
           looped == CHOOSE d : d = body(d)
<1>1. Codes!Utf16(t) = looped[Len(t)]
  BY Zenon DEF Codes!Utf16
<1>2. \A d, i : TurnOf("utf16", t, i, d) = turn(d, i)
  BY DEF TurnOf, FirstOf, StepOf
<1>3. PICK d : IsLoop("utf16", t, Len(t), d)
  BY LoopedFor
<1> HIDE DEF turn
<1>4. d = body(d)
  BY <1>2, <1>3 DEF IsLoop
<1>5. looped = body(looped)
  BY <1>4, Zenon
<1> HIDE DEF looped
<1>6. Looped("utf16", t, Len(t), looped)
  BY <1>2, <1>5 DEF Looped
<1>7. QED
  BY <1>1, <1>6 DEF LoopGives

LEMMA Written8Gives ==
  ASSUME NEW t, Len(t) \in Nat
  PROVE  LoopGives("write8", t, Codes!Written8(t))
<1> DEFINE turn(d, i) == IF i = 0 THEN <<>> ELSE d[i - 1] \o Codes!utf8_encode(t[i])
           body(d) == [i \in 0..Len(t) |-> turn(d, i)]
           looped == CHOOSE d : d = body(d)
<1>1. Codes!Written8(t) = looped[Len(t)]
  BY Zenon DEF Codes!Written8
<1>2. \A d, i : TurnOf("write8", t, i, d) = turn(d, i)
  BY DEF TurnOf, FirstOf, StepOf
<1>3. PICK d : IsLoop("write8", t, Len(t), d)
  BY LoopedFor
<1> HIDE DEF turn
<1>4. d = body(d)
  BY <1>2, <1>3 DEF IsLoop
<1>5. looped = body(looped)
  BY <1>4, Zenon
<1> HIDE DEF looped
<1>6. Looped("write8", t, Len(t), looped)
  BY <1>2, <1>5 DEF Looped
<1>7. QED
  BY <1>1, <1>6 DEF LoopGives

LEMMA Written16Gives ==
  ASSUME NEW t, Len(t) \in Nat
  PROVE  LoopGives("write16", t, Codes!Written16(t))
<1> DEFINE turn(d, i) == IF i = 0 THEN <<>> ELSE d[i - 1] \o Codes!utf16_encode(t[i])
           body(d) == [i \in 0..Len(t) |-> turn(d, i)]
           looped == CHOOSE d : d = body(d)
<1>1. Codes!Written16(t) = looped[Len(t)]
  BY Zenon DEF Codes!Written16
<1>2. \A d, i : TurnOf("write16", t, i, d) = turn(d, i)
  BY DEF TurnOf, FirstOf, StepOf
<1>3. PICK d : IsLoop("write16", t, Len(t), d)
  BY LoopedFor
<1> HIDE DEF turn
<1>4. d = body(d)
  BY <1>2, <1>3 DEF IsLoop
<1>5. looped = body(looped)
  BY <1>4, Zenon
<1> HIDE DEF looped
<1>6. Looped("write16", t, Len(t), looped)
  BY <1>2, <1>5 DEF Looped
<1>7. QED
  BY <1>1, <1>6 DEF LoopGives

LEMMA CharsGive ==
  ASSUME NEW t, Len(t) \in Nat
  PROVE  LoopGives("chars", t, Codes!Chars(t))
<1> DEFINE turn(d, i) == IF i = 0 THEN <<>> ELSE IF i \in Codes!Starts(t) THEN Append(d[i - 1], Codes!CharAt(t, i)) ELSE d[i - 1]
           body(d) == [i \in 0..Len(t) |-> turn(d, i)]
           looped == CHOOSE d : d = body(d)
<1>1. Codes!Chars(t) = looped[Len(t)]
  BY Zenon DEF Codes!Chars
<1>2. \A d, i : TurnOf("chars", t, i, d) = turn(d, i)
  BY DEF TurnOf, FirstOf, StepOf
<1>3. PICK d : IsLoop("chars", t, Len(t), d)
  BY LoopedFor
<1> HIDE DEF turn
<1>4. d = body(d)
  BY <1>2, <1>3 DEF IsLoop
<1>5. looped = body(looped)
  BY <1>4, Zenon
<1> HIDE DEF looped
<1>6. Looped("chars", t, Len(t), looped)
  BY <1>2, <1>5 DEF Looped
<1>7. QED
  BY <1>1, <1>6 DEF LoopGives

-----------------------------------------------------------------------------
\* Unicode: the turns of the decoder of UTF-8.

LEMMA SameSums == \A f : Codes!SumFunction(f) = SumFunction(f)
BY Zenon DEF Codes!SumFunction, SumFunction, Codes!SumFunctionOnSet, SumFunctionOnSet,
   Codes!FoldFunctionOnSet, FoldFunctionOnSet, Codes!MapThenFoldSet, MapThenFoldSet

\* Bits that do not overlap.
OrAdds(unit) == \A low \in 0..unit - 1 : \A high \in Nat : Codes!Or(low, high, unit) = low + unit * high

LEMMA OrIsSum == OrAdds(64) /\ OrAdds(1024)
<1> SUFFICES ASSUME NEW unit \in {64, 1024}, NEW low \in 0..unit - 1, NEW high \in Nat
             PROVE  Codes!Or(low, high, unit) = low + unit * high
  BY DEF OrAdds
<1> DEFINE S == {1, 2, 4, 8, 16, 32}
           f == [b \in S |-> IF (low \div (b * unit)) % 2 = 1 /\ (high \div b) % 2 = 0 THEN b ELSE 0]
<1>1. \A b \in S : low \div (b * unit) = 0
  OBVIOUS
<1>2. \A b \in S : f[b] = 0
  BY <1>1
<1>3. IsFiniteSet(S)
  <2>1. S \subseteq 0..32
    OBVIOUS
  <2> HIDE DEF S
  <2>2. IsFiniteSet(0..32)
    <3>1. PICK a \in Int, b \in Int : a = 0 /\ b = 32
      OBVIOUS
    <3>2. IsFiniteSet(a..b)
      BY FS_Interval, Zenon
    <3>3. QED
      BY <3>1, <3>2
  <2>3. QED
    BY <2>1, <2>2, FS_Subset
<1>4. DOMAIN f = S
  OBVIOUS
<1>5. low % unit = low
  OBVIOUS
<1>6. Codes!Or(low, high, unit) = (low % unit) + unit * (high + Codes!SumFunction(f))
  BY Zenon DEF Codes!Or
<1> HIDE DEF f, S
<1>7. Codes!SumFunction(f) = 0
  BY <1>2, <1>3, <1>4, SumZero, SameSums DEF SumFunction
<1>8. high + Codes!SumFunction(f) = high
  BY <1>7
<1>9. QED
  BY <1>5, <1>6, <1>8, Zenon

LEMMA Or64 == \A low \in 0..64 - 1 : \A high \in Nat : Codes!Or(low, high, 64) = low + 64 * high
BY OrIsSum, Zenon DEF OrAdds

State8(d, state, code, codes) == d = [state |-> state, error |-> FALSE, code |-> code, codes |-> codes]
Cont(x) == x \in 128..191

LEMMA LeadIs ==
  ASSUME NEW x \in 0..255
  PROVE  /\ Codes!Lead(x) \in -1..3 /\ (Cont(x) => Codes!Lead(x) = -1)
         /\ Codes!Lead(x) = 1 => x % 32 = x - 192
         /\ Codes!Lead(x) = 2 => x % 16 = x - 224
         /\ Codes!Lead(x) = 3 => x % 8 = x - 240
         /\ Codes!Lead(x) = 0 => x % 128 = x
BY DEF Codes!Lead, Cont

LEMMA LeadValues == Codes!Values(0) = 128 /\ Codes!Values(1) = 32 /\ Codes!Values(2) = 16 /\ Codes!Values(3) = 8
BY SMT DEF Codes!Values

LEMMA Begins ==
  ASSUME NEW x \in 0..255, NEW d, NEW code, NEW codes, State8(d, 0, code, codes)
  PROVE  LET e == Codes!utf8_decode(d, x)
             n == Codes!Lead(x)
         IN /\ n = -1 => e.error
            /\ n = 0 => State8(e, 0, x % 128, Append(codes, x % 128))
            /\ n > 0 => State8(e, n + 3, x % Codes!Values(n), codes)
<1> DEFINE n == Codes!Lead(x)
           next == Codes!transition(x, 0)
           e == Codes!utf8_decode(d, x)
<1>1. d.state = 0 /\ d.error = FALSE /\ d.codes = codes
  BY DEF State8
<1>2. n \in -1..3
  BY LeadIs
<1>3. n >= 0 => Codes!Values(n) \in {8, 16, 32, 128}
  BY <1>2, LeadValues
<1> HIDE DEF n
<1>4. /\ n = -1 => ~next.ok
      /\ n >= 0 => next = [ok |-> TRUE, values |-> Codes!Values(n), state |-> IF n = 0 THEN 0 ELSE n + 3]
  <2>1. n = -1 => ~(n >= 0) /\ ~(0 > 3)
    OBVIOUS
  <2>2. QED
    BY <2>1, Zenon DEF next, n, Codes!transition
<1> HIDE DEF next
<1>5. e = [state |-> next.state, error |-> d.error \/ ~next.ok,
           code |-> (x % next.values) + (IF ~next.ok /\ x >= 128 THEN 128 ELSE 0),
           codes |-> IF next.state = 0
                     THEN Append(codes, (x % next.values) + (IF ~next.ok /\ x >= 128 THEN 128 ELSE 0))
                     ELSE codes]
  BY <1>1 DEF Codes!utf8_decode, next
<1> HIDE DEF e
<1>6. n = -1 => e.error
  BY <1>4, <1>5
<1>7. n = 0 => State8(e, 0, x % 128, Append(codes, x % 128))
  <2>1. ASSUME n = 0 PROVE State8(e, 0, x % 128, Append(codes, x % 128))
    <3>1. next = [ok |-> TRUE, values |-> 128, state |-> 0] /\ (x % 128) + 0 = x % 128
      BY <1>4, <2>1, LeadValues
    <3>2. next.ok /\ next.values = 128 /\ next.state = 0
      BY <3>1
    <3>3. QED
      BY <1>1, <1>5, <3>1, <3>2, Zenon DEF State8
  <2>2. QED
    BY <2>1
<1>8. n > 0 => State8(e, n + 3, x % Codes!Values(n), codes)
  <2>1. ASSUME n > 0 PROVE State8(e, n + 3, x % Codes!Values(n), codes)
    <3>1. (x % Codes!Values(n)) + 0 = x % Codes!Values(n) /\ n + 3 # 0
      BY <1>2, <1>3, <2>1
    <3>2. next.ok /\ next.values = Codes!Values(n) /\ next.state = n + 3
      <4>1. n >= 0 /\ n # 0
        BY <1>2, <2>1
      <4>2. QED
        BY <1>4, <4>1
    <3>3. QED
      BY <1>1, <1>5, <3>1, <3>2, Zenon DEF State8
  <2>2. QED
    BY <2>1
<1>9. QED
  BY <1>6, <1>7, <1>8 DEF e, n

LEMMA Continues ==
  ASSUME NEW x \in 0..255, NEW n \in 1..3, NEW code \in Nat, NEW d, NEW codes, State8(d, n + 3, code, codes)
  PROVE  LET e == Codes!utf8_decode(d, x)
             c == code * 64 + (x % 64)
         IN /\ ~Cont(x) => e.error
            /\ Cont(x) /\ n = 1 => State8(e, 0, c, Append(codes, c))
            /\ Cont(x) /\ n > 1 => State8(e, (n - 1) + 3, c, codes)
<1> DEFINE next == Codes!transition(x, n + 3)
           e == Codes!utf8_decode(d, x)
           c == code * 64 + (x % 64)
<1>1. d.state = n + 3 /\ d.error = FALSE /\ d.codes = codes /\ d.code = code
  BY DEF State8
<1>2. n + 3 # 0 /\ n + 3 > 3 /\ n + 3 \in Nat /\ (n + 3 = 4 <=> n = 1) /\ (n + 3) - 1 = (n - 1) + 3
  OBVIOUS
<1>3. /\ Cont(x) => next = [ok |-> TRUE, values |-> 64, state |-> IF n = 1 THEN 0 ELSE (n - 1) + 3]
      /\ ~Cont(x) => ~next.ok
  <2>1. next = IF x \in 128..191
               THEN [ok |-> TRUE, values |-> 64, state |-> IF n + 3 = 4 THEN 0 ELSE (n + 3) - 1]
               ELSE [ok |-> FALSE, values |-> 8, state |-> 0]
    BY <1>2, Zenon DEF next, Codes!transition
  <2>2. (IF n + 3 = 4 THEN 0 ELSE (n + 3) - 1) = IF n = 1 THEN 0 ELSE (n - 1) + 3
    OBVIOUS
  <2> HIDE DEF next
  <2>3. ~Cont(x) => ~next.ok
    <3>1. ~Cont(x) => next = [ok |-> FALSE, values |-> 8, state |-> 0]
      BY <2>1, Zenon DEF Cont
    <3>2. QED
      BY <3>1
  <2>4. Cont(x) => next = [ok |-> TRUE, values |-> 64, state |-> IF n + 3 = 4 THEN 0 ELSE (n + 3) - 1]
    BY <2>1, Zenon DEF Cont
  <2>5. QED
    BY <2>2, <2>3, <2>4, Zenon
<1>4. ~Cont(x) => e.error
  BY <1>1, <1>3 DEF Codes!utf8_decode
<1>5. ASSUME Cont(x)
      PROVE  e = [state |-> IF n = 1 THEN 0 ELSE (n - 1) + 3, error |-> FALSE, code |-> c,
                  codes |-> IF n = 1 THEN Append(codes, c) ELSE codes]
  <2> HIDE DEF next
  <2>1. next.ok = TRUE /\ next.values = 64 /\ next.state = IF n = 1 THEN 0 ELSE (n - 1) + 3
    BY <1>3, <1>5
  <2>2. (x % next.values) + (IF ~next.ok /\ x >= 128 THEN 128 ELSE 0) = x % 64
    BY <2>1
  <2>3. Codes!Or(x % 64, code, 64) = c
    <3>1. x % 64 \in 0..64 - 1
      OBVIOUS
    <3>2. Codes!Or(x % 64, code, 64) = (x % 64) + 64 * code
      BY <3>1, Or64, Zenon
    <3>3. QED
      BY <3>1, <3>2
  <2> HIDE DEF c
  <2>4. n # 1 => (n - 1) + 3 # 0
    OBVIOUS
  <2>5. QED
    BY <1>1, <1>2, <2>1, <2>2, <2>3, <2>4 DEF Codes!utf8_decode, next
<1> HIDE DEF e, c
<1>6. n > 1 => n # 1
  OBVIOUS
<1>7. QED
  BY <1>4, <1>5, <1>6, Zenon DEF State8, e, c

-----------------------------------------------------------------------------
\* Unicode: the structure of UTF-8.

Starts(t) == Codes!Starts(t)
LeadAt(t, s) == Codes!Lead(t[s])

\* The first i bytes are characters.
Whole8(t, i) ==
  /\ \A s \in Starts(t) : s <= i => s + LeadAt(t, s) <= i /\ \A j \in s + 1..s + LeadAt(t, s) : Cont(t[j])
  /\ \A k \in 1..i : \E s \in Starts(t) : s <= k /\ k <= s + LeadAt(t, s)

LEMMA MembersOf ==
  ASSUME NEW V, NEW t \in Seq(V)
  PROVE  Len(t) \in Nat /\ \A i \in 1..Len(t) : t[i] \in V
OBVIOUS

LEMMA StartIs ==
  ASSUME NEW t \in Seq(0..255)
  PROVE  /\ Len(t) \in Nat
         /\ \A s \in Starts(t) : s \in 1..Len(t) /\ t[s] \in 0..255 /\ LeadAt(t, s) \in 0..3 /\ ~Cont(t[s])
         /\ \A i \in 1..Len(t) : /\ t[i] \in 0..255 /\ LeadAt(t, i) \in -1..3
                                 /\ i \in Starts(t) \/ LeadAt(t, i) = -1
                                 /\ Cont(t[i]) => i \notin Starts(t)
<1>1. Len(t) \in Nat /\ \A i \in 1..Len(t) : t[i] \in 0..255
  BY MembersOf, Zenon
<1>2. \A i \in 1..Len(t) : LeadAt(t, i) \in -1..3 /\ (Cont(t[i]) => LeadAt(t, i) = -1)
  BY <1>1, LeadIs DEF LeadAt
<1>3. \A i : i \in Starts(t) <=> i \in 1..Len(t) /\ LeadAt(t, i) >= 0
  BY DEF Starts, LeadAt, Codes!Starts
<1>4. ASSUME NEW i \in 1..Len(t)
      PROVE  /\ t[i] \in 0..255 /\ LeadAt(t, i) \in -1..3
             /\ i \in Starts(t) \/ LeadAt(t, i) = -1
             /\ Cont(t[i]) => i \notin Starts(t)
  <2>1. PICK n \in -1..3 : n = LeadAt(t, i)
    BY <1>2
  <2>2. n >= 0 \/ n = -1
    OBVIOUS
  <2>3. ~(-1 >= 0)
    OBVIOUS
  <2>4. i \in Starts(t) <=> n >= 0
    BY <1>3, <2>1, Zenon
  <2>5. Cont(t[i]) => i \notin Starts(t)
    BY <1>2, <2>1, <2>3, <2>4, Zenon
  <2>6. QED
    BY <1>1, <1>2, <2>1, <2>2, <2>4, <2>5, Zenon
<1>5. ASSUME NEW s \in Starts(t)
      PROVE  s \in 1..Len(t) /\ t[s] \in 0..255 /\ LeadAt(t, s) \in 0..3 /\ ~Cont(t[s])
  <2>1. s \in 1..Len(t) /\ LeadAt(t, s) >= 0
    BY <1>3, Zenon
  <2>2. PICK n \in -1..3 : n = LeadAt(t, s)
    BY <1>2, <2>1
  <2>3. n >= 0
    BY <2>1, <2>2, Zenon
  <2>4. n \in 0..3
    BY <2>3
  <2>5. QED
    BY <1>4, <2>1, <2>2, <2>4, Zenon
<1>6. QED
  BY <1>1, <1>4, <1>5, Zenon

LEMMA WholeIs ==
  ASSUME NEW t \in Seq(0..255)
  PROVE  Codes!WellFormed8(t) <=> Whole8(t, Len(t))
<1> DEFINE n == Len(t)
           S == Starts(t)
           L(s) == LeadAt(t, s)
           C(s) == Codes!Covered(t, s)
<1>1. /\ n \in Nat /\ \A s \in S : s \in 1..n /\ L(s) \in 0..3
  BY StartIs
<1>2. \A s : C(s) = s..s + L(s)
  BY DEF Codes!Covered, LeadAt
<1>3. Codes!WellFormed8(t) <=> /\ \A s \in S : \A j \in C(s) \ {s} : j <= n /\ Cont(t[j])
                               /\ UNION {C(s) : s \in S} = 1..n
  BY Zenon DEF Codes!WellFormed8, Starts, Cont
<1> HIDE DEF S, L, C, n
<1>4. ASSUME \A s \in S : \A j \in C(s) \ {s} : j <= n /\ Cont(t[j]), UNION {C(s) : s \in S} = 1..n
      PROVE  Whole8(t, n)
  <2>1. ASSUME NEW s \in S PROVE s + L(s) <= n /\ \A j \in s + 1..s + L(s) : Cont(t[j])
    <3>1. s \in 1..n /\ L(s) \in 0..3 /\ C(s) = s..s + L(s)
      BY <1>1, <1>2
    <3>2. \A j \in s + 1..s + L(s) : j \in C(s) \ {s}
      BY <3>1
    <3>3. L(s) # 0 => s + L(s) \in s + 1..s + L(s)
      BY <3>1
    <3>4. QED
      BY <1>4, <3>1, <3>2, <3>3
  <2>2. ASSUME NEW k \in 1..n PROVE \E s \in S : s <= k /\ k <= s + L(s)
    <3>1. PICK s \in S : k \in C(s)
      BY <1>4
    <3>2. k \in s..s + L(s)
      BY <1>2, <3>1
    <3>3. QED
      BY <3>2
  <2>3. QED
    BY <2>1, <2>2, Zenon DEF Whole8, S, L
<1>5. ASSUME Whole8(t, n)
      PROVE  (\A s \in S : \A j \in C(s) \ {s} : j <= n /\ Cont(t[j])) /\ UNION {C(s) : s \in S} = 1..n
  <2>1. /\ \A s \in S : s <= n => s + L(s) <= n /\ \A j \in s + 1..s + L(s) : Cont(t[j])
        /\ \A k \in 1..n : \E s \in S : s <= k /\ k <= s + L(s)
    BY <1>5, Zenon DEF Whole8, S, L
  <2>2. ASSUME NEW s \in S, NEW j \in C(s) PROVE j \in 1..n /\ (j # s => Cont(t[j]))
    <3>1. s \in 1..n /\ L(s) \in 0..3 /\ j \in s..s + L(s)
      BY <1>1, <1>2
    <3>2. s + L(s) <= n /\ \A i \in s + 1..s + L(s) : Cont(t[i])
      BY <2>1, <3>1
    <3>3. j # s => j \in s + 1..s + L(s)
      BY <3>1
    <3>4. QED
      BY <1>1, <3>1, <3>2, <3>3
  <2>3. ASSUME NEW k \in 1..n PROVE \E s \in S : k \in C(s)
    <3>1. PICK s \in S : s <= k /\ k <= s + L(s)
      BY <2>1
    <3>2. k \in s..s + L(s)
      BY <1>1, <3>1
    <3>3. QED
      BY <1>2, <3>2
  <2>4. \A k \in UNION {C(s) : s \in S} : k \in 1..n
    BY <2>2
  <2>5. \A k \in 1..n : k \in UNION {C(s) : s \in S}
    BY <2>3
  <2>6. UNION {C(s) : s \in S} = 1..n
    BY <2>4, <2>5, Zenon
  <2>7. \A s \in S : \A j \in C(s) \ {s} : j <= n /\ Cont(t[j])
    BY <1>1, <2>2
  <2>8. QED
    BY <2>6, <2>7
<1>6. QED
  BY <1>3, <1>4, <1>5 DEF n

\* A byte behind whole characters starts one if the text is well formed.
LEMMA NextStarts ==
  ASSUME NEW t \in Seq(0..255), NEW i \in 1..Len(t), Whole8(t, i - 1), Whole8(t, Len(t))
  PROVE  i \in Starts(t)
<1>1. PICK s \in Starts(t) : s <= i /\ i <= s + LeadAt(t, s)
  BY DEF Whole8
<1>2. s \in 1..Len(t) /\ LeadAt(t, s) \in 0..3 /\ i \in Nat
  BY StartIs
<1>3. s <= i - 1 => s + LeadAt(t, s) <= i - 1
  BY DEF Whole8
<1>4. s = i
  BY <1>1, <1>2, <1>3
<1>5. QED
  BY <1>1, <1>4

\* One more character.
LEMMA WholeMore ==
  ASSUME NEW t \in Seq(0..255), NEW q \in Starts(t), Whole8(t, q - 1),
         q + LeadAt(t, q) <= Len(t), \A j \in q + 1..q + LeadAt(t, q) : Cont(t[j])
  PROVE  Whole8(t, q + LeadAt(t, q))
<1> DEFINE i == q + LeadAt(t, q)
<1>1. q \in 1..Len(t) /\ LeadAt(t, q) \in 0..3 /\ Len(t) \in Nat /\ i \in 1..Len(t)
  BY StartIs
<1> HIDE DEF i
<1>2. ASSUME NEW s \in Starts(t), s <= i
      PROVE  s + LeadAt(t, s) <= i /\ \A j \in s + 1..s + LeadAt(t, s) : Cont(t[j])
  <2>1. s \in 1..Len(t) /\ LeadAt(t, s) \in 0..3 /\ ~Cont(t[s])
    BY StartIs
  <2>2. CASE s <= q - 1
    <3>1. s + LeadAt(t, s) <= q - 1 /\ \A j \in s + 1..s + LeadAt(t, s) : Cont(t[j])
      BY <2>2 DEF Whole8
    <3>2. QED
      BY <1>1, <2>1, <3>1 DEF i
  <2>3. CASE s = q
    BY <1>1, <2>3 DEF i
  <2>4. CASE s > q
    <3>1. s \in q + 1..q + LeadAt(t, q)
      BY <1>1, <1>2, <2>1, <2>4 DEF i
    <3>2. QED
      BY <2>1, <3>1
  <2>5. QED
    BY <1>1, <2>1, <2>2, <2>3, <2>4
<1>3. ASSUME NEW k \in 1..i PROVE \E s \in Starts(t) : s <= k /\ k <= s + LeadAt(t, s)
  <2>1. CASE k <= q - 1
    <3>1. k \in 1..q - 1
      BY <1>1, <2>1
    <3>2. QED
      BY <3>1 DEF Whole8
  <2>2. CASE ~(k <= q - 1)
    <3>1. q <= k /\ k <= q + LeadAt(t, q)
      BY <1>1, <2>2 DEF i
    <3>2. QED
      BY <3>1
  <2>3. QED
    BY <2>1, <2>2
<1>4. QED
  BY <1>2, <1>3, Zenon DEF Whole8, i

-----------------------------------------------------------------------------
\* Unicode: the decoder of UTF-8 between the turns.

\* What a decoder has of the character at q after k bytes behind its first.
PartOf(t, q, k) ==
  LET more(j) == t[q + j] % 64
      lead == t[q] % Codes!Values(LeadAt(t, q))
  IN CASE k = 0 -> lead
       [] k = 1 -> lead * 64 + more(1)
       [] k = 2 -> (lead * 64 + more(1)) * 64 + more(2)
       [] k = 3 -> ((lead * 64 + more(1)) * 64 + more(2)) * 64 + more(3)

LEMMA PartIs ==
  ASSUME NEW t \in Seq(0..255), NEW q \in Starts(t), NEW k \in 0..LeadAt(t, q), q + k <= Len(t)
  PROVE  /\ PartOf(t, q, k) \in Nat
         /\ k > 0 => PartOf(t, q, k) = PartOf(t, q, k - 1) * 64 + (t[q + k] % 64)
         /\ k = LeadAt(t, q) => PartOf(t, q, k) = Codes!CharAt(t, q)
<1>1. /\ Len(t) \in Nat /\ q \in 1..Len(t) /\ t[q] \in 0..255 /\ LeadAt(t, q) \in 0..3
      /\ \A i \in 1..Len(t) : t[i] \in 0..255
  BY StartIs
<1>2. PICK n \in 0..3 : n = LeadAt(t, q)
  BY <1>1
<1>3. k \in 0..3 /\ k <= n
  BY <1>2
<1>4. PICK a \in Nat : a = t[q] % Codes!Values(n)
  <2>1. Codes!Values(n) \in {8, 16, 32, 128}
    BY LeadValues
  <2>2. PICK v \in {8, 16, 32, 128} : v = Codes!Values(n)
    BY <2>1, Zenon
  <2>3. PICK x \in 0..255 : x = t[q]
    BY <1>1, Zenon
  <2>4. x % v \in Nat
    OBVIOUS
  <2>5. QED
    BY <2>2, <2>3, <2>4, Zenon
<1>5. \A j \in 1..3 : j <= k => t[q + j] % 64 \in Nat
  <2> TAKE j \in 1..3
  <2>1. j <= k => q + j \in 1..Len(t)
    BY <1>1, <1>3
  <2>2. j <= k => t[q + j] \in 0..255
    BY <1>1, <2>1, Zenon
  <2>3. \A x \in 0..255 : x % 64 \in Nat
    OBVIOUS
  <2>4. QED
    BY <2>2, <2>3, Zenon
<1> DEFINE m(j) == t[q + j] % 64
<1>6. /\ PartOf(t, q, 0) = a
      /\ PartOf(t, q, 1) = a * 64 + m(1)
      /\ PartOf(t, q, 2) = (a * 64 + m(1)) * 64 + m(2)
      /\ PartOf(t, q, 3) = ((a * 64 + m(1)) * 64 + m(2)) * 64 + m(3)
  BY <1>2, <1>4 DEF PartOf
<1> HIDE DEF m
<1>7. \A j \in 1..3 : j <= k => m(j) \in Nat
  BY <1>5 DEF m
<1>8. \A j \in 1..3 : m(j) = t[q + j] % 64
  BY DEF m
<1>9. /\ n = 0 => Codes!CharAt(t, q) = t[q] % 128
      /\ n = 1 => Codes!CharAt(t, q) = (t[q] % 32) * 64 + m(1)
      /\ n = 2 => Codes!CharAt(t, q) = (t[q] % 16) * 4096 + m(1) * 64 + m(2)
      /\ n = 3 => Codes!CharAt(t, q) = (t[q] % 8) * 262144 + m(1) * 4096 + m(2) * 64 + m(3)
  BY <1>2, SMT DEF Codes!CharAt, LeadAt, m
<1>10. /\ n = 0 => t[q] % 128 = a
       /\ n = 1 => t[q] % 32 = a
       /\ n = 2 => t[q] % 16 = a
       /\ n = 3 => t[q] % 8 = a
  BY <1>4, LeadValues, SMT
<1>11. CASE k = 0
  BY <1>2, <1>6, <1>9, <1>10, <1>11, SMT
<1>12. CASE k = 1
  <2>1. PICK x \in Nat : x = m(1)
    BY <1>7, <1>12, SMT
  <2>2. x = t[q + 1] % 64 /\ 1 - 1 = 0
    BY <1>8, <2>1, SMT
  <2>3. PartOf(t, q, 1) = a * 64 + x
    BY <1>6, <2>1, Zenon
  <2>4. n = 1 => Codes!CharAt(t, q) = a * 64 + x
    BY <1>9, <1>10, <2>1, SMT
  <2>5. a * 64 + x \in Nat
    OBVIOUS
  <2>6. QED
    BY <1>2, <1>6, <1>12, <2>2, <2>3, <2>4, <2>5, Zenon
<1>13. CASE k = 2
  <2>1. PICK x \in Nat, y \in Nat : x = m(1) /\ y = m(2)
    BY <1>7, <1>13, SMT
  <2>2. y = t[q + 2] % 64 /\ 2 - 1 = 1
    BY <1>8, <2>1, SMT
  <2>3. PartOf(t, q, 1) = a * 64 + x /\ PartOf(t, q, 2) = (a * 64 + x) * 64 + y
    BY <1>6, <2>1, Zenon
  <2>4. n = 2 => Codes!CharAt(t, q) = (a * 64 + x) * 64 + y
    BY <1>9, <1>10, <2>1, SMT
  <2>5. (a * 64 + x) * 64 + y \in Nat
    OBVIOUS
  <2>6. QED
    BY <1>2, <1>13, <2>2, <2>3, <2>4, <2>5, Zenon
<1>14. CASE k = 3
  <2>1. PICK x \in Nat, y \in Nat, z \in Nat : x = m(1) /\ y = m(2) /\ z = m(3)
    BY <1>7, <1>14, SMT
  <2>2. z = t[q + 3] % 64 /\ 3 - 1 = 2
    BY <1>8, <2>1, SMT
  <2>3. PartOf(t, q, 2) = (a * 64 + x) * 64 + y /\ PartOf(t, q, 3) = ((a * 64 + x) * 64 + y) * 64 + z
    BY <1>6, <2>1, Zenon
  <2>4. n = 3 => Codes!CharAt(t, q) = ((a * 64 + x) * 64 + y) * 64 + z
    <3>1. a * 262144 + x * 4096 + y * 64 + z = ((a * 64 + x) * 64 + y) * 64 + z
      OBVIOUS
    <3>2. n = 3 => Codes!CharAt(t, q) = a * 262144 + m(1) * 4096 + m(2) * 64 + m(3)
      BY <1>9, <1>10, SMT
    <3>3. n = 3 => Codes!CharAt(t, q) = a * 262144 + x * 4096 + y * 64 + z
      BY <2>1, <3>2, SMT
    <3>4. QED
      BY <3>1, <3>3, SMT
  <2>5. ((a * 64 + x) * 64 + y) * 64 + z \in Nat
    OBVIOUS
  <2>6. QED
    BY <1>2, <1>14, <2>2, <2>3, <2>4, <2>5, Zenon
<1>15. QED
  BY <1>3, <1>11, <1>12, <1>13, <1>14, SMT

\* The decoder d behind i bytes, whose characters have the numbers c: between characters, or
\* with k bytes behind the first of one.
Between8(t, i, d, c) == Whole8(t, i) /\ \E code : State8(d, 0, code, c)
Behind8(t, i, d, c, q, k) ==
  /\ k < LeadAt(t, q) /\ q + k = i /\ Whole8(t, q - 1) /\ \A j \in q + 1..i : Cont(t[j])
  /\ \E codes : State8(d, (LeadAt(t, q) - k) + 3, PartOf(t, q, k), codes) /\ c = Append(codes, Codes!CharAt(t, q))
Amid8(t, i, d, c) == \E q \in Starts(t), k \in Nat : Behind8(t, i, d, c, q, k)
Sound8(t, i, d, c) == IF d.error THEN ~Whole8(t, Len(t)) ELSE Between8(t, i, d, c) \/ Amid8(t, i, d, c)

LEMMA State8Is ==
  ASSUME NEW d, NEW state, NEW code, NEW codes, State8(d, state, code, codes)
  PROVE  d.error = FALSE /\ d.state = state /\ d.codes = codes /\ d.code = code
BY DEF State8

LEMMA AfterBetween ==
  ASSUME NEW t \in Seq(0..255), NEW i \in 1..Len(t), NEW d, NEW c, Between8(t, i - 1, d, c)
  PROVE  Sound8(t, i, Codes!utf8_decode(d, t[i]), StepOf("chars", t, i, c))
<1> DEFINE e == Codes!utf8_decode(d, t[i])
           n == LeadAt(t, i)
           f == StepOf("chars", t, i, c)
<1>1. PICK code : State8(d, 0, code, c) /\ Whole8(t, i - 1)
  BY DEF Between8
<1>2. /\ t[i] \in 0..255 /\ n \in -1..3 /\ (i \in Starts(t) \/ n = -1) /\ i \in Nat
      /\ (i \in Starts(t) => n >= 0) /\ Len(t) \in Nat
  BY StartIs
<1>3. /\ n = -1 => e.error
      /\ n = 0 => State8(e, 0, t[i] % 128, Append(c, t[i] % 128))
      /\ n > 0 => State8(e, n + 3, t[i] % Codes!Values(n), c)
  <2>2. PICK x \in 0..255 : x = t[i]
    BY <1>2, Zenon
  <2>3. LET g == Codes!utf8_decode(d, x)
            l == Codes!Lead(x)
        IN /\ l = -1 => g.error
           /\ l = 0 => State8(g, 0, x % 128, Append(c, x % 128))
           /\ l > 0 => State8(g, l + 3, x % Codes!Values(l), c)
    BY <1>1, Begins, Zenon
  <2>4. n = Codes!Lead(x)
    BY <2>2, Zenon DEF LeadAt
  <2>5. QED
    BY <2>2, <2>3, <2>4, Zenon
<1>4. f = IF i \in Starts(t) THEN Append(c, Codes!CharAt(t, i)) ELSE c
  BY DEF StepOf, Starts
<1> HIDE DEF e, n, f
<1>5. CASE n = -1
  <2>1. i \notin Starts(t)
    BY <1>2, <1>5
  <2>2. ~Whole8(t, Len(t))
    BY <1>1, <2>1, NextStarts
  <2>3. QED
    BY <1>3, <1>5, <2>2 DEF Sound8, e
<1>6. CASE n = 0
  <2>1. i \in Starts(t)
    BY <1>2, <1>6
  <2>2. 0 \in 0..LeadAt(t, i) /\ i + 0 = i /\ i + LeadAt(t, i) = i /\ i + 1..i = {}
    BY <1>2, <1>6 DEF n
  <2>3. Whole8(t, i)
    BY <1>1, <1>2, <2>1, <2>2, WholeMore
  <2>4. Codes!CharAt(t, i) = t[i] % 128
    BY <1>6, SMT DEF Codes!CharAt, LeadAt, n
  <2>5. State8(e, 0, t[i] % 128, f)
    BY <1>3, <1>4, <1>6, <2>1, <2>4
  <2>6. Between8(t, i, e, f) /\ e.error = FALSE
    BY <2>3, <2>5, State8Is DEF Between8
  <2>7. QED
    BY <2>6 DEF Sound8, e, f
<1>7. CASE n > 0
  <2>1. i \in Starts(t) /\ 0 < LeadAt(t, i) /\ i + 0 = i /\ i + 1..i = {} /\ (LeadAt(t, i) - 0) + 3 = n + 3
    BY <1>2, <1>7 DEF n
  <2>2. PartOf(t, i, 0) = t[i] % Codes!Values(n)
    BY DEF PartOf, n
  <2>3. State8(e, (LeadAt(t, i) - 0) + 3, PartOf(t, i, 0), c) /\ f = Append(c, Codes!CharAt(t, i))
    BY <1>3, <1>4, <1>7, <2>1, <2>2
  <2>4. Behind8(t, i, e, f, i, 0)
    BY <1>1, <2>1, <2>3 DEF Behind8
  <2>5. Amid8(t, i, e, f) /\ e.error = FALSE
    BY <2>1, <2>3, <2>4, State8Is DEF Amid8
  <2>6. QED
    BY <2>5 DEF Sound8, e, f
<1>8. QED
  BY <1>2, <1>5, <1>6, <1>7

LEMMA AfterBehind ==
  ASSUME NEW t \in Seq(0..255), NEW i \in 1..Len(t), NEW d, NEW c, Amid8(t, i - 1, d, c)
  PROVE  Sound8(t, i, Codes!utf8_decode(d, t[i]), StepOf("chars", t, i, c))
<1> DEFINE e == Codes!utf8_decode(d, t[i])
           f == StepOf("chars", t, i, c)
<1>1. PICK q \in Starts(t), k \in Nat : Behind8(t, i - 1, d, c, q, k)
  BY Zenon DEF Amid8
<1>2. /\ k < LeadAt(t, q) /\ q + k = i - 1 /\ Whole8(t, q - 1) /\ \A j \in q + 1..i - 1 : Cont(t[j])
      /\ \E codes : State8(d, (LeadAt(t, q) - k) + 3, PartOf(t, q, k), codes) /\ c = Append(codes, Codes!CharAt(t, q))
  BY <1>1, Zenon DEF Behind8
<1>3. PICK codes : State8(d, (LeadAt(t, q) - k) + 3, PartOf(t, q, k), codes) /\ c = Append(codes, Codes!CharAt(t, q))
  BY <1>2, Zenon
<1>4. /\ Len(t) \in Nat /\ q \in 1..Len(t) /\ LeadAt(t, q) \in 0..3 /\ t[i] \in 0..255
      /\ (Cont(t[i]) => i \notin Starts(t)) /\ i \in Nat
  BY StartIs
<1>5. PICK m \in 0..3 : m = LeadAt(t, q)
  BY <1>4
<1>6. PICK n \in 1..3 : n = m - k
  BY <1>2, <1>5
<1>7. k \in 0..2 /\ k \in 0..m /\ k + 1 \in 0..m /\ q + k <= Len(t) /\ q + (k + 1) = i /\ (k + 1) - 1 = k /\ k + 1 > 0
  BY <1>2, <1>4, <1>5, <1>6
<1>8. PICK code \in Nat : code = PartOf(t, q, k)
  BY <1>5, <1>7, PartIs, Zenon
<1>9. /\ PartOf(t, q, k + 1) = code * 64 + (t[i] % 64)
      /\ k + 1 = m => PartOf(t, q, k + 1) = Codes!CharAt(t, q)
  <2>1. q + (k + 1) <= Len(t) /\ k + 1 \in 0..LeadAt(t, q)
    BY <1>4, <1>5, <1>7
  <2>2. /\ k + 1 > 0 => PartOf(t, q, k + 1) = PartOf(t, q, (k + 1) - 1) * 64 + (t[q + (k + 1)] % 64)
        /\ k + 1 = LeadAt(t, q) => PartOf(t, q, k + 1) = Codes!CharAt(t, q)
    BY <2>1, PartIs, Zenon
  <2>3. QED
    BY <1>5, <1>7, <1>8, <2>2, Zenon
<1>10. /\ ~Cont(t[i]) => e.error
       /\ Cont(t[i]) /\ n = 1 => State8(e, 0, PartOf(t, q, k + 1), Append(codes, PartOf(t, q, k + 1)))
       /\ Cont(t[i]) /\ n > 1 => State8(e, (n - 1) + 3, PartOf(t, q, k + 1), codes)
  <2>1. State8(d, n + 3, code, codes)
    BY <1>3, <1>5, <1>6, <1>8, Zenon
  <2>2. PICK x \in 0..255 : x = t[i]
    BY <1>4, Zenon
  <2>3. LET g == Codes!utf8_decode(d, x)
            h == code * 64 + (x % 64)
        IN /\ ~Cont(x) => g.error
           /\ Cont(x) /\ n = 1 => State8(g, 0, h, Append(codes, h))
           /\ Cont(x) /\ n > 1 => State8(g, (n - 1) + 3, h, codes)
    BY <2>1, Continues, Zenon
  <2>4. QED
    BY <1>9, <2>2, <2>3, Zenon
<1>11. f = IF i \in Starts(t) THEN Append(c, Codes!CharAt(t, i)) ELSE c
  BY DEF StepOf, Starts
<1> HIDE DEF e, f
<1>12. CASE ~Cont(t[i])
  <2>1. ASSUME Whole8(t, Len(t)) PROVE FALSE
    <3>1. \A j \in q + 1..q + LeadAt(t, q) : Cont(t[j])
      BY <1>4, <2>1 DEF Whole8
    <3>2. i \in q + 1..q + LeadAt(t, q)
      BY <1>4, <1>5, <1>7
    <3>3. QED
      BY <1>12, <3>1, <3>2
  <2>2. QED
    BY <1>10, <1>12, <2>1, Zenon DEF Sound8, e
<1>13. CASE Cont(t[i])
  <2>1. f = c
    BY <1>4, <1>11, <1>13, Zenon
  <2>2. \A j \in q + 1..i : Cont(t[j])
    <3>1. \A j \in q + 1..i : j = i \/ j \in q + 1..i - 1
      BY <1>4
    <3>2. QED
      BY <1>2, <1>13, <3>1, Zenon
  <2>3. CASE n = 1
    <3>1. k + 1 = m /\ q + LeadAt(t, q) = i /\ i <= Len(t)
      BY <1>4, <1>5, <1>6, <1>7, <2>3
    <3>2. Whole8(t, q + LeadAt(t, q))
      BY <1>2, <2>2, <3>1, WholeMore
    <3>3. State8(e, 0, PartOf(t, q, k + 1), f)
      BY <1>3, <1>9, <1>10, <1>13, <2>1, <2>3, <3>1, Zenon
    <3>4. Between8(t, i, e, f) /\ e.error = FALSE
      BY <3>1, <3>2, <3>3, State8Is, Zenon DEF Between8
    <3>5. QED
      BY <3>4, Zenon DEF Sound8, e, f
  <2>4. CASE n > 1
    <3>1. k + 1 < LeadAt(t, q) /\ (n - 1) + 3 = (LeadAt(t, q) - (k + 1)) + 3 /\ k + 1 \in Nat
      BY <1>5, <1>6, <1>7, <2>4
    <3>2. State8(e, (LeadAt(t, q) - (k + 1)) + 3, PartOf(t, q, k + 1), codes)
      BY <1>10, <1>13, <2>4, <3>1, Zenon
    <3>3. Behind8(t, i, e, f, q, k + 1)
      BY <1>2, <1>3, <1>7, <2>1, <2>2, <3>1, <3>2, Zenon DEF Behind8
    <3>4. Amid8(t, i, e, f)
      BY <3>1, <3>3, Zenon DEF Amid8
    <3>5. e.error = FALSE
      BY <3>2, State8Is, Zenon
    <3>6. QED
      BY <3>4, <3>5, Zenon DEF Sound8, e, f
  <2>5. QED
    BY <1>6, <2>3, <2>4
<1>14. QED
  BY <1>12, <1>13

LEMMA Sticky8 ==
  ASSUME NEW d, NEW x, d.error
  PROVE  Codes!utf8_decode(d, x).error
<1> DEFINE next == Codes!transition(x, d.state)
           bits == (x % next.values) + (IF ~next.ok /\ x >= 128 THEN 128 ELSE 0)
           code == IF d.state > 3 THEN Codes!Or(bits, d.code, 64) ELSE bits
           codes == IF next.state = 0 THEN Append(d.codes, code) ELSE d.codes
<1>1. Codes!utf8_decode(d, x) = [state |-> next.state, error |-> d.error \/ ~next.ok, code |-> code, codes |-> codes]
  BY DEF Codes!utf8_decode
<1> HIDE DEF next, code, codes
<1>2. (d.error \/ ~next.ok) = TRUE
  BY Zenon
<1>3. Codes!utf8_decode(d, x).error = (d.error \/ ~next.ok)
  BY <1>1
<1>4. QED
  BY <1>2, <1>3, Zenon

LEMMA Utf8Sound ==
  ASSUME NEW t \in Seq(0..255), NEW d, NEW c, Looped("utf8", t, Len(t), d), Looped("chars", t, Len(t), c)
  PROVE  \A i \in 0..Len(t) : Sound8(t, i, d[i], c[i])
<1>1. Len(t) \in Nat
  BY StartIs
<1>2. /\ \A i \in 0..Len(t) : d[i] = IF i = 0 THEN Codes!Fresh ELSE Codes!utf8_decode(d[i - 1], t[i])
      /\ \A i \in 0..Len(t) : c[i] = IF i = 0 THEN <<>> ELSE StepOf("chars", t, i, c[i - 1])
  BY DEF Looped, TurnOf, FirstOf, StepOf
<1>3. Sound8(t, 0, d[0], c[0])
  <2>1. d[0] = Codes!Fresh /\ c[0] = <<>>
    BY <1>1, <1>2
  <2>2. State8(Codes!Fresh, 0, 0, <<>>)
    BY DEF State8, Codes!Fresh
  <2>3. Whole8(t, 0)
    <3>1. \A s \in Starts(t) : ~(s <= 0)
      BY <1>1, StartIs
    <3>2. \A k \in 1..0 : FALSE
      OBVIOUS
    <3>3. QED
      BY <3>1, <3>2, Zenon DEF Whole8
  <2>4. Between8(t, 0, d[0], c[0]) /\ d[0].error = FALSE
    BY <2>1, <2>2, <2>3, State8Is, Zenon DEF Between8
  <2>5. QED
    BY <2>4, Zenon DEF Sound8
<1>4. ASSUME NEW i \in 1..Len(t), Sound8(t, i - 1, d[i - 1], c[i - 1])
      PROVE  Sound8(t, i, d[i], c[i])
  <2>1. d[i] = Codes!utf8_decode(d[i - 1], t[i]) /\ c[i] = StepOf("chars", t, i, c[i - 1])
    BY <1>1, <1>2
  <2>2. CASE d[i - 1].error
    <3>1. ~Whole8(t, Len(t))
      BY <1>4, <2>2, Zenon DEF Sound8
    <3>2. d[i].error
      BY <2>1, <2>2, Sticky8, Zenon
    <3>3. QED
      BY <3>1, <3>2, Zenon DEF Sound8
  <2>3. CASE ~d[i - 1].error
    <3>1. Between8(t, i - 1, d[i - 1], c[i - 1]) \/ Amid8(t, i - 1, d[i - 1], c[i - 1])
      BY <1>4, <2>3, Zenon DEF Sound8
    <3>2. QED
      BY <2>1, <3>1, AfterBetween, AfterBehind, Zenon
  <2>4. QED
    BY <2>2, <2>3
<1> DEFINE Bad == {j \in 0..Len(t) : ~Sound8(t, j, d[j], c[j])}
<1>5. ASSUME Bad # {} PROVE FALSE
  <2>1. PICK j \in Bad : \A i \in Bad : j <= i
    BY <1>1, <1>5, SmallestNumber
  <2>2. j \in 0..Len(t) /\ ~Sound8(t, j, d[j], c[j])
    OBVIOUS
  <2>3. j # 0
    BY <1>3, <2>2
  <2>4. j \in 1..Len(t) /\ j - 1 \in 0..Len(t) /\ j - 1 < j
    BY <1>1, <2>2, <2>3
  <2>5. Sound8(t, j - 1, d[j - 1], c[j - 1])
    BY <2>1, <2>4
  <2>6. QED
    BY <1>4, <2>2, <2>4, <2>5
<1>6. QED
  BY <1>5

LEMMA Utf8Decodes ==
  ASSUME NEW t \in Seq(0..255)
  PROVE  Codes!DecodesUtf8(t)
<1>1. Len(t) \in Nat
  BY StartIs
<1>2. PICK d : Looped("utf8", t, Len(t), d) /\ Codes!Utf8(t) = d[Len(t)]
  BY <1>1, Utf8Gives, Zenon DEF LoopGives
<1>3. PICK b : Looped("chars", t, Len(t), b) /\ Codes!Chars(t) = b[Len(t)]
  BY <1>1, CharsGive, Zenon DEF LoopGives
<1>4. Sound8(t, Len(t), Codes!Utf8(t), Codes!Chars(t))
  <2>1. Len(t) \in 0..Len(t)
    BY <1>1
  <2>2. QED
    BY <1>2, <1>3, <2>1, Utf8Sound, Zenon
<1> DEFINE e == Codes!Utf8(t)
           c == Codes!Chars(t)
<1> HIDE DEF e, c
<1>5. Sound8(t, Len(t), e, c)
  BY <1>4 DEF e, c
<1>6. ASSUME Amid8(t, Len(t), e, c) PROVE e.state # 0 /\ ~Whole8(t, Len(t))
  <2>1. PICK q \in Starts(t), k \in Nat : Behind8(t, Len(t), e, c, q, k)
    BY <1>6, Zenon DEF Amid8
  <2>2. k < LeadAt(t, q) /\ q + k = Len(t)
    BY <2>1, Zenon DEF Behind8
  <2>3. PICK codes : State8(e, (LeadAt(t, q) - k) + 3, PartOf(t, q, k), codes)
    BY <2>1, Zenon DEF Behind8
  <2>4. q \in 1..Len(t) /\ LeadAt(t, q) \in 0..3
    BY StartIs
  <2>5. e.state = (LeadAt(t, q) - k) + 3
    BY <2>3, State8Is, Zenon
  <2>6. (LeadAt(t, q) - k) + 3 # 0 /\ q <= Len(t) /\ ~(q + LeadAt(t, q) <= Len(t))
    BY <1>1, <2>2, <2>4
  <2>7. QED
    BY <2>5, <2>6, Zenon DEF Whole8
<1>7. ASSUME Between8(t, Len(t), e, c) PROVE e.state = 0 /\ e.error = FALSE /\ e.codes = c /\ Whole8(t, Len(t))
  BY <1>7, State8Is, Zenon DEF Between8
<1>8. Codes!WellFormed8(t) <=> Whole8(t, Len(t))
  BY WholeIs, Zenon
<1>9. /\ (~e.error /\ e.state = 0) <=> Whole8(t, Len(t))
      /\ Whole8(t, Len(t)) => e.codes = c
  BY <1>5, <1>6, <1>7, Zenon DEF Sound8
<1>10. Codes!Clean(e) <=> ~e.error /\ e.state = 0
  BY Zenon DEF Codes!Clean
<1>11. QED
  BY <1>8, <1>9, <1>10, Zenon DEF Codes!DecodesUtf8, e, c

-----------------------------------------------------------------------------
\* Unicode: texts that grow.

\* b starts with a.
Starting(a, b) == Len(a) <= Len(b) /\ \A i \in 1..Len(a) : b[i] = a[i]

LEMMA LoopsAgree ==
  ASSUME NEW w \in {"utf8", "utf16"}, NEW a, NEW b, Len(a) \in Nat, Len(b) \in Nat, Starting(a, b),
         NEW d, NEW e, Looped(w, a, Len(a), d), Looped(w, b, Len(b), e)
  PROVE  \A i \in 0..Len(a) : d[i] = e[i]
<1>1. ASSUME NEW i \in 0..Len(a), i # 0 => d[i - 1] = e[i - 1]
      PROVE  d[i] = e[i]
  <2>1. i \in 0..Len(b) /\ (i # 0 => i \in 1..Len(a))
    BY DEF Starting
  <2>2. d[i] = TurnOf(w, a, i, d) /\ e[i] = TurnOf(w, b, i, e)
    BY <2>1, Zenon DEF Looped
  <2>3. i # 0 => a[i] = b[i]
    BY <2>1, Zenon DEF Starting
  <2>4. CASE w = "utf8"
    BY <1>1, <2>2, <2>3, <2>4 DEF TurnOf, StepOf, FirstOf
  <2>5. CASE w = "utf16"
    BY <1>1, <2>2, <2>3, <2>5 DEF TurnOf, StepOf, FirstOf
  <2>6. QED
    BY <2>4, <2>5
<1> DEFINE Bad == {j \in 0..Len(a) : d[j] # e[j]}
<1>2. ASSUME Bad # {} PROVE FALSE
  <2>1. PICK j \in Bad : \A i \in Bad : j <= i
    BY <1>2, SmallestNumber
  <2>2. j \in 0..Len(a) /\ d[j] # e[j]
    OBVIOUS
  <2>3. j # 0 => j - 1 \in 0..Len(a) /\ j - 1 < j
    BY <2>2
  <2>4. j # 0 => d[j - 1] = e[j - 1]
    BY <2>1, <2>3
  <2>5. QED
    BY <1>1, <2>2, <2>4
<1>3. QED
  BY <1>2

LEMMA AppendedTo ==
  ASSUME NEW a, a \in Seq(Int), NEW x \in Int
  PROVE  /\ Append(a, x) \in Seq(Int) /\ Len(a) \in Nat /\ Len(Append(a, x)) = Len(a) + 1
         /\ Len(Append(a, x)) \in Nat /\ Starting(a, Append(a, x)) /\ Append(a, x)[Len(a) + 1] = x
<1>1. /\ Append(a, x) \in Seq(Int) /\ Len(a) \in Nat /\ Len(Append(a, x)) = Len(a) + 1
      /\ Append(a, x)[Len(a) + 1] = x /\ \A i \in 1..Len(a) : Append(a, x)[i] = a[i]
  OBVIOUS
<1>2. QED
  BY <1>1 DEF Starting

LEMMA Utf8Grows ==
  /\ Codes!Utf8(<<>>) = Codes!Fresh
  /\ \A a \in Seq(Int) : \A x \in Int : Codes!Utf8(Append(a, x)) = Codes!utf8_decode(Codes!Utf8(a), x)
<1>1. Codes!Utf8(<<>>) = Codes!Fresh
  <2>1. Len(<<>>) = 0
    OBVIOUS
  <2>2. PICK d : Looped("utf8", <<>>, 0, d) /\ Codes!Utf8(<<>>) = d[0]
    BY <2>1, Utf8Gives DEF LoopGives
  <2>3. d[0] = TurnOf("utf8", <<>>, 0, d)
    BY <2>2 DEF Looped
  <2>4. QED
    BY <2>2, <2>3 DEF TurnOf, FirstOf
<1>2. ASSUME NEW a \in Seq(Int), NEW x \in Int
      PROVE  Codes!Utf8(Append(a, x)) = Codes!utf8_decode(Codes!Utf8(a), x)
  <2>1. PICK b : b = Append(a, x)
    OBVIOUS
  <2>2. Len(a) \in Nat /\ Len(b) = Len(a) + 1 /\ Len(b) \in Nat /\ Starting(a, b) /\ b[Len(a) + 1] = x
    BY <2>1, AppendedTo, Zenon
  <2>3. PICK d : Looped("utf8", a, Len(a), d) /\ Codes!Utf8(a) = d[Len(a)]
    BY <2>2, Utf8Gives, Zenon DEF LoopGives
  <2>4. PICK e : Looped("utf8", b, Len(b), e) /\ Codes!Utf8(b) = e[Len(b)]
    BY <2>2, Utf8Gives, Zenon DEF LoopGives
  <2>5. Len(b) \in 0..Len(b) /\ Len(b) # 0 /\ Len(b) - 1 = Len(a) /\ Len(a) \in 0..Len(a)
    BY <2>2
  <2>6. d[Len(a)] = e[Len(a)]
    BY <2>2, <2>3, <2>4, <2>5, LoopsAgree
  <2>7. e[Len(b)] = StepOf("utf8", b, Len(b), e[Len(b) - 1])
    BY <2>4, <2>5 DEF Looped, TurnOf
  <2>8. StepOf("utf8", b, Len(b), e[Len(b) - 1]) = Codes!utf8_decode(e[Len(b) - 1], b[Len(b)])
    BY DEF StepOf
  <2>9. QED
    BY <2>1, <2>2, <2>3, <2>4, <2>5, <2>6, <2>7, <2>8, Zenon
<1>3. QED
  BY <1>1, <1>2, Zenon

LEMMA Utf16Grows ==
  /\ Codes!Utf16(<<>>) = Codes!Fresh
  /\ \A a \in Seq(Int) : \A x \in Int : Codes!Utf16(Append(a, x)) = Codes!utf16_decode(Codes!Utf16(a), x)
<1>1. Codes!Utf16(<<>>) = Codes!Fresh
  <2>1. Len(<<>>) = 0
    OBVIOUS
  <2>2. PICK d : Looped("utf16", <<>>, 0, d) /\ Codes!Utf16(<<>>) = d[0]
    BY <2>1, Utf16Gives DEF LoopGives
  <2>3. d[0] = TurnOf("utf16", <<>>, 0, d)
    BY <2>2 DEF Looped
  <2>4. QED
    BY <2>2, <2>3 DEF TurnOf, FirstOf
<1>2. ASSUME NEW a \in Seq(Int), NEW x \in Int
      PROVE  Codes!Utf16(Append(a, x)) = Codes!utf16_decode(Codes!Utf16(a), x)
  <2>1. PICK b : b = Append(a, x)
    OBVIOUS
  <2>2. Len(a) \in Nat /\ Len(b) = Len(a) + 1 /\ Len(b) \in Nat /\ Starting(a, b) /\ b[Len(a) + 1] = x
    BY <2>1, AppendedTo, Zenon
  <2>3. PICK d : Looped("utf16", a, Len(a), d) /\ Codes!Utf16(a) = d[Len(a)]
    BY <2>2, Utf16Gives, Zenon DEF LoopGives
  <2>4. PICK e : Looped("utf16", b, Len(b), e) /\ Codes!Utf16(b) = e[Len(b)]
    BY <2>2, Utf16Gives, Zenon DEF LoopGives
  <2>5. Len(b) \in 0..Len(b) /\ Len(b) # 0 /\ Len(b) - 1 = Len(a) /\ Len(a) \in 0..Len(a)
    BY <2>2
  <2>6. d[Len(a)] = e[Len(a)]
    BY <2>2, <2>3, <2>4, <2>5, LoopsAgree
  <2>7. e[Len(b)] = StepOf("utf16", b, Len(b), e[Len(b) - 1])
    BY <2>4, <2>5 DEF Looped, TurnOf
  <2>8. StepOf("utf16", b, Len(b), e[Len(b) - 1]) = Codes!utf16_decode(e[Len(b) - 1], b[Len(b)])
    BY DEF StepOf
  <2>9. QED
    BY <2>1, <2>2, <2>3, <2>4, <2>5, <2>6, <2>7, <2>8, Zenon
<1>3. QED
  BY <1>1, <1>2, Zenon

-----------------------------------------------------------------------------
\* Unicode: UTF-8 of a code.

LEMMA Powers == 64^0 = 1 /\ 64^1 = 64 /\ 64^2 = 4096 /\ 64^3 = 262144 /\ 2^0 = 1 /\ 2^3 = 8 /\ 2^4 = 16 /\ 2^5 = 32
BY SMT

\* The bytes behind the first.
Rest8(code, n) == [i \in 1..n |-> 128 + ((code \div 64^(n - i)) % 64)]

Rest8IsIn(code) ==
  /\ Rest8(code, 0) = <<>>
  /\ Rest8(code, 1) = <<128 + (code % 64)>>
  /\ Rest8(code, 2) = <<128 + ((code \div 64) % 64), 128 + (code % 64)>>
  /\ Rest8(code, 3) = <<128 + ((code \div 4096) % 64), 128 + ((code \div 64) % 64), 128 + (code % 64)>>

LEMMA Rest8Is ==
  ASSUME NEW code \in Nat
  PROVE  Rest8IsIn(code)
<1>1. code \div 1 = code
  OBVIOUS
<1>2. Rest8(code, 0) = <<>>
  BY DEF Rest8
<1>3. Rest8(code, 1) = <<128 + (code % 64)>>
  <2>1. 64^(1 - 1) = 1
    BY SMT
  <2>2. Rest8(code, 1) = [i \in 1..1 |-> 128 + ((code \div 64^(1 - i)) % 64)]
    BY DEF Rest8
  <2>3. \A i \in 1..1 : 128 + ((code \div 64^(1 - i)) % 64) = 128 + (code % 64)
    BY <1>1, <2>1
  <2>4. QED
    BY <2>2, <2>3
<1>4. Rest8(code, 2) = <<128 + ((code \div 64) % 64), 128 + (code % 64)>>
  <2>1. 64^(2 - 1) = 64 /\ 64^(2 - 2) = 1
    BY SMT
  <2> DEFINE r == [i \in 1..2 |-> 128 + ((code \div 64^(2 - i)) % 64)]
             s == <<128 + ((code \div 64) % 64), 128 + (code % 64)>>
  <2>2. Rest8(code, 2) = r
    BY DEF Rest8
  <2>3. r[1] = s[1] /\ r[2] = s[2]
    BY <1>1, <2>1
  <2>4. DOMAIN r = 1..2 /\ DOMAIN s = 1..2 /\ r = [i \in DOMAIN r |-> r[i]] /\ s = [i \in DOMAIN s |-> s[i]]
    OBVIOUS
  <2> HIDE DEF r, s
  <2>5. r = s
    BY <2>3, <2>4
  <2>6. QED
    BY <2>2, <2>5 DEF s
<1>5. Rest8(code, 3) = <<128 + ((code \div 4096) % 64), 128 + ((code \div 64) % 64), 128 + (code % 64)>>
  <2>1. 64^(3 - 1) = 4096 /\ 64^(3 - 2) = 64 /\ 64^(3 - 3) = 1
    BY SMT
  <2> DEFINE r == [i \in 1..3 |-> 128 + ((code \div 64^(3 - i)) % 64)]
             s == <<128 + ((code \div 4096) % 64), 128 + ((code \div 64) % 64), 128 + (code % 64)>>
  <2>2. Rest8(code, 3) = r
    BY DEF Rest8
  <2>3. r[1] = s[1] /\ r[2] = s[2] /\ r[3] = s[3]
    BY <1>1, <2>1
  <2>4. DOMAIN r = 1..3 /\ DOMAIN s = 1..3 /\ r = [i \in DOMAIN r |-> r[i]] /\ s = [i \in DOMAIN s |-> s[i]]
    OBVIOUS
  <2> HIDE DEF r, s
  <2>5. r = s
    BY <2>3, <2>4
  <2>6. QED
    BY <2>2, <2>5 DEF s
<1>6. QED
  BY <1>2, <1>3, <1>4, <1>5, SMT DEF Rest8IsIn

\* A number of Unicode.
Code21(code) == code < 1114112

\* The number of bytes behind the first, and the first.
BytesBehind(code) == (IF code >= 128 THEN 1 ELSE 0) + (IF code >= 2048 THEN 1 ELSE 0) + (IF code >= 65536 THEN 1 ELSE 0)

Size1(code) == code < 128
Size2(code) == code >= 128 /\ code < 2048
Size3(code) == code >= 2048 /\ code < 65536
Size4(code) == code >= 65536

EncodedIn(code) ==
  /\ Size1(code) => Codes!utf8_encode(code) = <<code>> \o Rest8(code, 0)
  /\ Size2(code) => Codes!utf8_encode(code) = <<192 + (code \div 64)>> \o Rest8(code, 1)
  /\ Size3(code) => Codes!utf8_encode(code) = <<224 + (code \div 4096)>> \o Rest8(code, 2)
  /\ Size4(code) => Codes!utf8_encode(code) = <<240 + (code \div 262144)>> \o Rest8(code, 3)

LEMMA EncodedAs ==
  ASSUME NEW code \in Nat, Code21(code)
  PROVE  EncodedIn(code)
<1> USE DEF Code21
<1> DEFINE mask(n) == 255 \div 2^(IF n = 0 THEN 0 ELSE n + 2)
           lead(n) == (((255 - mask(n)) * 2) % 256) + ((code \div 64^n) % (mask(n) + 1))
<1>1. Codes!utf8_encode(code) = <<lead(BytesBehind(code))>> \o Rest8(code, BytesBehind(code))
  BY SMT DEF Codes!utf8_encode, BytesBehind, Rest8
<1>2. mask(0) = 255 /\ mask(1) = 31 /\ mask(2) = 15 /\ mask(3) = 7
  <2>1. 2^(IF 0 = 0 THEN 0 ELSE 0 + 2) = 1 /\ 2^(IF 1 = 0 THEN 0 ELSE 1 + 2) = 8
    BY SMT
  <2>2. 2^(IF 2 = 0 THEN 0 ELSE 2 + 2) = 16 /\ 2^(IF 3 = 0 THEN 0 ELSE 3 + 2) = 32
    BY SMT
  <2>3. QED
    BY <2>1, <2>2, SMT
<1> HIDE DEF mask
<1>3. lead(0) = code % 256 /\ lead(1) = 192 + ((code \div 64) % 32)
  <2>1. code \div 1 = code
    BY SMT
  <2>2. QED
    BY <1>2, <2>1, Powers, SMT
<1>4. lead(2) = 224 + ((code \div 4096) % 16) /\ lead(3) = 240 + ((code \div 262144) % 8)
  BY <1>2, Powers, SMT
<1> HIDE DEF lead
<1>5. /\ code < 128 => code % 256 = code
      /\ code < 2048 => (code \div 64) % 32 = code \div 64
      /\ code < 65536 => (code \div 4096) % 16 = code \div 4096
      /\ (code \div 262144) % 8 = code \div 262144
  BY SMT
<1>6. ASSUME Size1(code) PROVE Codes!utf8_encode(code) = <<code>> \o Rest8(code, 0)
  <2>1. BytesBehind(code) = 0 /\ code % 256 = code
    BY <1>5, <1>6, SMT DEF BytesBehind, Size1
  <2>2. lead(BytesBehind(code)) = code
    BY <1>3, <2>1, SMT
  <2> HIDE DEF Code21
  <2>3. QED
    BY <1>1, <2>1, <2>2, Zenon
<1>7. ASSUME Size2(code) PROVE Codes!utf8_encode(code) = <<192 + (code \div 64)>> \o Rest8(code, 1)
  <2>1. BytesBehind(code) = 1 /\ (code \div 64) % 32 = code \div 64
    BY <1>5, <1>7, SMT DEF BytesBehind, Size2
  <2>2. QED
    BY <1>1, <1>3, <2>1, SMT
<1>8. ASSUME Size3(code) PROVE Codes!utf8_encode(code) = <<224 + (code \div 4096)>> \o Rest8(code, 2)
  <2>1. BytesBehind(code) = 2 /\ (code \div 4096) % 16 = code \div 4096
    BY <1>5, <1>8, SMT DEF BytesBehind, Size3
  <2>2. QED
    BY <1>1, <1>4, <2>1, SMT
<1>9. ASSUME Size4(code) PROVE Codes!utf8_encode(code) = <<240 + (code \div 262144)>> \o Rest8(code, 3)
  <2>1. BytesBehind(code) = 3 /\ (code \div 262144) % 8 = code \div 262144
    BY <1>5, <1>9, SMT DEF BytesBehind, Size4
  <2>2. QED
    BY <1>1, <1>4, <2>1, SMT
<1>10. QED
  BY <1>6, <1>7, <1>8, <1>9, SMT DEF EncodedIn

\* What the decoder makes of the units.
LEMMA PartsOf ==
  ASSUME NEW code \in Nat, Code21(code)
  PROVE  /\ code \div 64 \in Nat /\ code \div 4096 \in Nat /\ code \div 262144 \in Nat
         /\ (code \div 64) * 64 + (code % 64) = code
         /\ (code \div 4096) * 64 + ((code \div 64) % 64) = code \div 64
         /\ (code \div 262144) * 64 + ((code \div 4096) % 64) = code \div 4096
<1> USE DEF Code21
<1>1. code \div 64 \in Nat /\ code \div 4096 \in Nat /\ code \div 262144 \in Nat
  BY SMT
<1>2. (code \div 64) * 64 + (code % 64) = code
  BY SMT
<1>3. (code \div 4096) * 64 + ((code \div 64) % 64) = code \div 64
  BY SMT
<1>4. (code \div 262144) * 64 + ((code \div 4096) % 64) = code \div 4096
  BY SMT
<1>5. QED
  BY <1>1, <1>2, <1>3, <1>4, SMT

LEMMA JoinsOne ==
  ASSUME NEW a \in Seq(Int), NEW s \in Seq(Int), NEW i \in Int
  PROVE  a \o Append(s, i) = Append(a \o s, i) /\ Append(s, i) \in Seq(Int) /\ a \o s \in Seq(Int)
<1>1. <<i>> \in Seq(Int) /\ a \o s \in Seq(Int) /\ Append(s, i) \in Seq(Int)
  OBVIOUS
<1>2. Append(s, i) = s \o <<i>> /\ Append(a \o s, i) = (a \o s) \o <<i>>
  BY <1>1, AppendIsConcat, Zenon
<1>3. (a \o s) \o <<i>> = a \o (s \o <<i>>)
  BY <1>1, ConcatAssociative, SMTT(60)
<1>4. QED
  BY <1>1, <1>2, <1>3, Zenon

\* The bytes of a character.
Bytes1(x) == <<x>> \o <<>>
Bytes2(x, y) == <<x>> \o <<y>>
Bytes3(x, y, z) == <<x>> \o <<y, z>>
Bytes4(x, y, z, v) == <<x>> \o <<y, z, v>>

JoinedAs(a, x, y, z, v) ==
  /\ a \o Bytes1(x) = Append(a, x)
  /\ a \o Bytes2(x, y) = Append(Append(a, x), y)
  /\ a \o Bytes3(x, y, z) = Append(Append(Append(a, x), y), z)
  /\ a \o Bytes4(x, y, z, v) = Append(Append(Append(Append(a, x), y), z), v)

LEMMA FourJoined ==
  ASSUME NEW a \in Seq(Int), NEW x \in Int, NEW y \in Int, NEW z \in Int, NEW v \in Int
  PROVE  JoinedAs(a, x, y, z, v)
<1> DEFINE o == <<x>>
<1>1. o \in Seq(Int) /\ o \o <<>> = o /\ o = Append(<<>>, x) /\ <<>> \in Seq(Int) /\ a \o <<>> = a
  OBVIOUS
<1>2. <<y>> = Append(<<>>, y) /\ <<y, z>> = Append(<<y>>, z) /\ <<y, z, v>> = Append(<<y, z>>, v)
  OBVIOUS
<1> HIDE DEF o
<1>3. <<y>> \in Seq(Int) /\ <<y, z>> \in Seq(Int)
  OBVIOUS
<1> DEFINE s2 == o \o <<y>>
           s3 == o \o <<y, z>>
           s4 == o \o <<y, z, v>>
<1>4. s2 = Append(o, y) /\ s2 \in Seq(Int)
  BY <1>1, <1>2, JoinsOne, SMT
<1>5. s3 = Append(s2, z) /\ s3 \in Seq(Int)
  BY <1>1, <1>2, <1>3, <1>4, JoinsOne, SMT
<1>6. s4 = Append(s3, v)
  BY <1>1, <1>2, <1>3, <1>5, JoinsOne, SMT
<1> HIDE DEF s2, s3, s4
<1>7. a \o o = Append(a, x)
  BY <1>1, JoinsOne, SMT
<1>8. a \o s2 = Append(Append(a, x), y)
  BY <1>1, <1>4, <1>7, JoinsOne, SMT
<1>9. a \o s3 = Append(Append(Append(a, x), y), z)
  BY <1>4, <1>5, <1>8, JoinsOne, SMT
<1>10. a \o s4 = Append(Append(Append(Append(a, x), y), z), v)
  <2>1. a \o Append(s3, v) = Append(a \o s3, v)
    BY <1>5, JoinsOne, SMT
  <2>2. QED
    BY <1>6, <1>9, <2>1, Zenon
<1>11. QED
  BY <1>1, <1>7, <1>8, <1>9, <1>10, Zenon DEF JoinedAs, o, s2, s3, s4, Bytes1, Bytes2, Bytes3, Bytes4

LEMMA First8 ==
  ASSUME NEW a \in Seq(Int), NEW code, NEW codes, State8(Codes!Utf8(a), 0, code, codes), NEW x \in 0..255
  PROVE  LET e == Codes!Utf8(Append(a, x))
         IN /\ Append(a, x) \in Seq(Int)
            /\ Codes!Lead(x) = 0 => State8(e, 0, x, Append(codes, x))
            /\ Codes!Lead(x) = 1 => State8(e, 4, x - 192, codes)
            /\ Codes!Lead(x) = 2 => State8(e, 5, x - 224, codes)
            /\ Codes!Lead(x) = 3 => State8(e, 6, x - 240, codes)
<1>1. 1 > 0 /\ 2 > 0 /\ 3 > 0 /\ 1 + 3 = 4 /\ 2 + 3 = 5 /\ 3 + 3 = 6 /\ x \in Int
  OBVIOUS
<1>2. Codes!Utf8(Append(a, x)) = Codes!utf8_decode(Codes!Utf8(a), x) /\ Append(a, x) \in Seq(Int)
  BY <1>1, AppendedTo, Utf8Grows, Zenon
<1>3. LET e == Codes!utf8_decode(Codes!Utf8(a), x)
          n == Codes!Lead(x)
      IN /\ n = 0 => State8(e, 0, x % 128, Append(codes, x % 128))
         /\ n > 0 => State8(e, n + 3, x % Codes!Values(n), codes)
  BY Begins, Zenon
<1>4. /\ Codes!Lead(x) = 0 => x % 128 = x
      /\ Codes!Lead(x) = 1 => x % Codes!Values(1) = x - 192
      /\ Codes!Lead(x) = 2 => x % Codes!Values(2) = x - 224
      /\ Codes!Lead(x) = 3 => x % Codes!Values(3) = x - 240
  <2>1. /\ Codes!Lead(x) = 0 => x % 128 = x
        /\ Codes!Lead(x) = 1 => x % 32 = x - 192
        /\ Codes!Lead(x) = 2 => x % 16 = x - 224
        /\ Codes!Lead(x) = 3 => x % 8 = x - 240
    BY SMT DEF Codes!Lead
  <2>2. QED
    BY <2>1, LeadValues
<1> DEFINE e == Codes!utf8_decode(Codes!Utf8(a), x)
<1>5. CASE Codes!Lead(x) = 0
  BY <1>2, <1>3, <1>4, <1>5, SMT
<1>6. CASE Codes!Lead(x) \in {1, 2, 3}
  <2>1. CASE Codes!Lead(x) = 1
    <3>1. State8(e, 4, x - 192, codes)
      BY <1>1, <1>3, <1>4, <2>1, SMT
    <3>2. QED
      BY <1>2, <2>1, <3>1
  <2>2. CASE Codes!Lead(x) = 2
    <3>1. State8(e, 5, x - 224, codes)
      BY <1>1, <1>3, <1>4, <2>2, SMT
    <3>2. QED
      BY <1>2, <2>2, <3>1
  <2>3. CASE Codes!Lead(x) = 3
    <3>1. State8(e, 6, x - 240, codes)
      BY <1>1, <1>3, <1>4, <2>3, SMT
    <3>2. QED
      BY <1>2, <2>3, <3>1
  <2>4. QED
    BY <1>6, <2>1, <2>2, <2>3
<1>7. QED
  BY <1>2, <1>5, <1>6

LEMMA Next8 ==
  ASSUME NEW a \in Seq(Int), NEW code \in Nat, NEW codes, NEW x \in 128..191, NEW c \in Nat, c = code * 64 + (x - 128)
  PROVE  LET e == Codes!Utf8(Append(a, x))
         IN /\ Append(a, x) \in Seq(Int)
            /\ State8(Codes!Utf8(a), 4, code, codes) => State8(e, 0, c, Append(codes, c))
            /\ State8(Codes!Utf8(a), 5, code, codes) => State8(e, 4, c, codes)
            /\ State8(Codes!Utf8(a), 6, code, codes) => State8(e, 5, c, codes)
<1>1. Cont(x) /\ x % 64 = x - 128 /\ x \in Int /\ x \in 0..255
  BY DEF Cont
<1>2. Codes!Utf8(Append(a, x)) = Codes!utf8_decode(Codes!Utf8(a), x) /\ Append(a, x) \in Seq(Int)
  BY <1>1, AppendedTo, Utf8Grows, Zenon
<1> DEFINE e == Codes!utf8_decode(Codes!Utf8(a), x)
<1>3. \A n \in 1..3 : State8(Codes!Utf8(a), n + 3, code, codes) =>
        /\ n = 1 => State8(e, 0, c, Append(codes, c))
        /\ n > 1 => State8(e, (n - 1) + 3, c, codes)
  BY <1>1, Continues, Zenon
<1> HIDE DEF e
<1>4. State8(Codes!Utf8(a), 1 + 3, code, codes) => State8(e, 0, c, Append(codes, c))
  BY <1>3
<1>5. State8(Codes!Utf8(a), 2 + 3, code, codes) => State8(e, (2 - 1) + 3, c, codes)
  BY <1>3
<1>6. State8(Codes!Utf8(a), 3 + 3, code, codes) => State8(e, (3 - 1) + 3, c, codes)
  BY <1>3
<1>7. 1 + 3 = 4 /\ 2 + 3 = 5 /\ 3 + 3 = 6 /\ (2 - 1) + 3 = 4 /\ (3 - 1) + 3 = 5
  OBVIOUS
<1>8. QED
  BY <1>2, <1>4, <1>5, <1>6, <1>7, Zenon DEF e

\* Characters of one to four bytes, behind text that is complete.
Kept8(a, codes) == a \in Seq(Int) /\ \E code : State8(Codes!Utf8(a), 0, code, codes)

TakenAs8(a, codes, x, x0, x1, x2, c, q1, q2, q3) ==
  /\ Codes!Lead(x) = 0 /\ c = x => Kept8(a \o Bytes1(x), Append(codes, c))
  /\ Codes!Lead(x) = 1 /\ q1 = x - 192 /\ c = q1 * 64 + (x0 - 128) =>
       Kept8(a \o Bytes2(x, x0), Append(codes, c))
  /\ Codes!Lead(x) = 2 /\ q2 = x - 224 /\ q1 = q2 * 64 + (x1 - 128) /\ c = q1 * 64 + (x0 - 128) =>
       Kept8(a \o Bytes3(x, x1, x0), Append(codes, c))
  /\ /\ Codes!Lead(x) = 3 /\ q3 = x - 240 /\ q2 = q3 * 64 + (x2 - 128)
     /\ q1 = q2 * 64 + (x1 - 128) /\ c = q1 * 64 + (x0 - 128)
     => Kept8(a \o Bytes4(x, x2, x1, x0), Append(codes, c))

LEMMA Takes8 ==
  ASSUME NEW a, NEW codes, Kept8(a, codes), NEW x \in 0..255,
         NEW x0 \in 128..191, NEW x1 \in 128..191, NEW x2 \in 128..191,
         NEW c \in Nat, NEW q1 \in Nat, NEW q2 \in Nat, NEW q3 \in Nat
  PROVE  TakenAs8(a, codes, x, x0, x1, x2, c, q1, q2, q3)
<1>1. PICK code : State8(Codes!Utf8(a), 0, code, codes)
  BY Zenon DEF Kept8
<1>2. a \in Seq(Int)
  BY Zenon DEF Kept8
<1> DEFINE b1 == Append(a, x)
<1>3. /\ b1 \in Seq(Int)
      /\ Codes!Lead(x) = 0 => State8(Codes!Utf8(b1), 0, x, Append(codes, x))
      /\ Codes!Lead(x) = 1 => State8(Codes!Utf8(b1), 4, x - 192, codes)
      /\ Codes!Lead(x) = 2 => State8(Codes!Utf8(b1), 5, x - 224, codes)
      /\ Codes!Lead(x) = 3 => State8(Codes!Utf8(b1), 6, x - 240, codes)
  BY <1>1, <1>2, First8, Zenon
<1>4. x \in Int /\ x0 \in Int /\ x1 \in Int /\ x2 \in Int
  OBVIOUS
<1>5. /\ a \o Bytes1(x) = b1
      /\ a \o Bytes2(x, x0) = Append(b1, x0)
      /\ a \o Bytes3(x, x1, x0) = Append(Append(b1, x1), x0)
      /\ a \o Bytes4(x, x2, x1, x0) = Append(Append(Append(b1, x2), x1), x0)
  <2>1. JoinedAs(a, x, x0, x1, x2) /\ JoinedAs(a, x, x1, x0, x2) /\ JoinedAs(a, x, x2, x1, x0)
    BY <1>2, <1>4, FourJoined, Zenon
  <2>2. QED
    BY <2>1, Zenon DEF JoinedAs
<1> HIDE DEF b1
<1>6. Codes!Lead(x) = 0 /\ c = x => Kept8(a \o Bytes1(x), Append(codes, c))
  BY <1>3, <1>5, Zenon DEF Kept8
<1>7. ASSUME NEW b, NEW z \in 128..191, NEW q \in Nat, b \in Seq(Int), State8(Codes!Utf8(b), 4, q, codes), c = q * 64 + (z - 128)
      PROVE  Kept8(Append(b, z), Append(codes, c))
  BY <1>7, Next8, Zenon DEF Kept8
<1>8. ASSUME NEW b, NEW y \in 128..191, NEW z \in 128..191, NEW q \in Nat, NEW r \in Nat,
             b \in Seq(Int), State8(Codes!Utf8(b), 5, q, codes), r = q * 64 + (y - 128), c = r * 64 + (z - 128)
      PROVE  Kept8(Append(Append(b, y), z), Append(codes, c))
  <2>1. Append(b, y) \in Seq(Int) /\ State8(Codes!Utf8(Append(b, y)), 4, r, codes)
    BY <1>8, Next8, Zenon
  <2>2. QED
    BY <1>7, <1>8, <2>1, Zenon
<1>9. ASSUME Codes!Lead(x) = 1, q1 = x - 192, c = q1 * 64 + (x0 - 128)
      PROVE  Kept8(Append(b1, x0), Append(codes, c))
  BY <1>3, <1>7, <1>9, Zenon
<1>10. ASSUME Codes!Lead(x) = 2, q2 = x - 224, q1 = q2 * 64 + (x1 - 128), c = q1 * 64 + (x0 - 128)
       PROVE  Kept8(Append(Append(b1, x1), x0), Append(codes, c))
  BY <1>3, <1>8, <1>10, Zenon
<1>11. ASSUME Codes!Lead(x) = 3, q3 = x - 240, q2 = q3 * 64 + (x2 - 128), q1 = q2 * 64 + (x1 - 128), c = q1 * 64 + (x0 - 128)
       PROVE  Kept8(Append(Append(Append(b1, x2), x1), x0), Append(codes, c))
  <2>1. Append(b1, x2) \in Seq(Int) /\ State8(Codes!Utf8(Append(b1, x2)), 5, q2, codes)
    BY <1>3, <1>11, Next8, Zenon
  <2>2. QED
    BY <1>8, <1>11, <2>1, Zenon
<1>12. QED
  BY <1>5, <1>6, <1>9, <1>10, <1>11, Zenon DEF TakenAs8

\* What is written behind text that is complete is read again.
Encoded8(code, q1, q2, q3, x0, x1, x2) ==
  /\ q1 \in Nat /\ q2 \in Nat /\ q3 \in Nat /\ x0 \in 128..191 /\ x1 \in 128..191 /\ x2 \in 128..191
  /\ code = q1 * 64 + (x0 - 128) /\ q1 = q2 * 64 + (x1 - 128) /\ q2 = q3 * 64 + (x2 - 128)
  /\ Size1(code) => Codes!utf8_encode(code) = Bytes1(code)
  /\ Size2(code) => Codes!utf8_encode(code) = Bytes2(192 + q1, x0)
  /\ Size3(code) => Codes!utf8_encode(code) = Bytes3(224 + q2, x1, x0)
  /\ Size4(code) => Codes!utf8_encode(code) = Bytes4(240 + q3, x2, x1, x0)

LEMMA Encodes8 ==
  ASSUME NEW code \in Nat, Code21(code)
  PROVE  \E q1, q2, q3, x0, x1, x2 : Encoded8(code, q1, q2, q3, x0, x1, x2)
<1> DEFINE q1 == code \div 64
           q2 == code \div 4096
           q3 == code \div 262144
           x0 == 128 + (code % 64)
           x1 == 128 + (q1 % 64)
           x2 == 128 + (q2 % 64)
<1>1. q1 \in Nat /\ q2 \in Nat /\ q3 \in Nat /\ q1 * 64 + (code % 64) = code
      /\ q2 * 64 + (q1 % 64) = q1 /\ q3 * 64 + (q2 % 64) = q2
  BY PartsOf, SMT
<1>2. \A x \in Nat : 128 + (x % 64) \in 128..191 /\ (128 + (x % 64)) - 128 = x % 64
  BY SMT
<1>3. x0 \in 128..191 /\ x1 \in 128..191 /\ x2 \in 128..191
      /\ x0 - 128 = code % 64 /\ x1 - 128 = q1 % 64 /\ x2 - 128 = q2 % 64
  BY <1>1, <1>2, SMT
<1>4. EncodedIn(code) /\ Rest8IsIn(code)
  BY EncodedAs, Rest8Is, SMT
<1>5. /\ Size1(code) => Codes!utf8_encode(code) = <<code>> \o Rest8(code, 0)
      /\ Size2(code) => Codes!utf8_encode(code) = <<192 + q1>> \o Rest8(code, 1)
      /\ Size3(code) => Codes!utf8_encode(code) = <<224 + q2>> \o Rest8(code, 2)
      /\ Size4(code) => Codes!utf8_encode(code) = <<240 + q3>> \o Rest8(code, 3)
  BY <1>4, SMT DEF EncodedIn
<1>6. Rest8(code, 0) = <<>> /\ Rest8(code, 1) = <<x0>> /\ Rest8(code, 2) = <<x1, x0>> /\ Rest8(code, 3) = <<x2, x1, x0>>
  BY <1>4, SMT DEF Rest8IsIn
<1> HIDE DEF q1, q2, q3, x0, x1, x2
<1>7. /\ Size1(code) => Codes!utf8_encode(code) = Bytes1(code)
      /\ Size2(code) => Codes!utf8_encode(code) = Bytes2(192 + q1, x0)
      /\ Size3(code) => Codes!utf8_encode(code) = Bytes3(224 + q2, x1, x0)
      /\ Size4(code) => Codes!utf8_encode(code) = Bytes4(240 + q3, x2, x1, x0)
  BY <1>5, <1>6, Zenon DEF Bytes1, Bytes2, Bytes3, Bytes4
<1>8. code = q1 * 64 + (x0 - 128) /\ q1 = q2 * 64 + (x1 - 128) /\ q2 = q3 * 64 + (x2 - 128)
  BY <1>1, <1>3, SMT
<1>9. Encoded8(code, q1, q2, q3, x0, x1, x2)
  BY <1>1, <1>3, <1>7, <1>8, Zenon DEF Encoded8
<1>10. QED
  BY <1>9, SMT

LEMMA Writes8 ==
  ASSUME NEW a, NEW codes, Kept8(a, codes), NEW code \in Nat, Code21(code)
  PROVE  Kept8(a \o Codes!utf8_encode(code), Append(codes, code))
<1>1. PICK q1, q2, q3, x0, x1, x2 : Encoded8(code, q1, q2, q3, x0, x1, x2)
  BY Encodes8, SMT
<1>2. /\ q1 \in Nat /\ q2 \in Nat /\ q3 \in Nat /\ x0 \in 128..191 /\ x1 \in 128..191 /\ x2 \in 128..191
      /\ code = q1 * 64 + (x0 - 128) /\ q1 = q2 * 64 + (x1 - 128) /\ q2 = q3 * 64 + (x2 - 128)
  BY <1>1, SMT DEF Encoded8
<1>3. /\ Size1(code) => Codes!utf8_encode(code) = Bytes1(code)
      /\ Size2(code) => Codes!utf8_encode(code) = Bytes2(192 + q1, x0)
      /\ Size3(code) => Codes!utf8_encode(code) = Bytes3(224 + q2, x1, x0)
      /\ Size4(code) => Codes!utf8_encode(code) = Bytes4(240 + q3, x2, x1, x0)
  BY <1>1, SMT DEF Encoded8
<1>4. \A x \in 0..255 : TakenAs8(a, codes, x, x0, x1, x2, code, q1, q2, q3)
  <2> TAKE x \in 0..255
  <2>1. QED
    BY <1>2, Takes8, Zenon
<1>5. CASE Size1(code)
  <2>1. PICK x \in 0..255 : x = code
    BY <1>5, SMT DEF Size1
  <2>2. Codes!Lead(x) = 0
    BY <1>5, <2>1, SMT DEF Codes!Lead, Size1
  <2>3. Kept8(a \o Bytes1(x), Append(codes, code))
    BY <1>4, <2>1, <2>2, SMT DEF TakenAs8
  <2>4. QED
    BY <1>3, <1>5, <2>1, <2>3, SMT
<1>6. CASE Size2(code)
  <2>1. PICK x \in 0..255 : x = 192 + q1 /\ x <= 223
    BY <1>2, <1>6, SMT DEF Size2
  <2>2. Codes!Lead(x) = 1 /\ q1 = x - 192
    BY <1>2, <2>1, SMT DEF Codes!Lead
  <2>3. Kept8(a \o Bytes2(x, x0), Append(codes, code))
    BY <1>2, <1>4, <2>2, SMT DEF TakenAs8
  <2>4. QED
    BY <1>3, <1>6, <2>1, <2>3, SMT
<1>7. CASE Size3(code)
  <2>1. PICK x \in 0..255 : x = 224 + q2 /\ x <= 239
    BY <1>2, <1>7, SMT DEF Size3
  <2>2. Codes!Lead(x) = 2 /\ q2 = x - 224
    BY <1>2, <2>1, SMT DEF Codes!Lead
  <2>3. Kept8(a \o Bytes3(x, x1, x0), Append(codes, code))
    BY <1>2, <1>4, <2>2, SMT DEF TakenAs8
  <2>4. QED
    BY <1>3, <1>7, <2>1, <2>3, SMT
<1>8. CASE Size4(code)
  <2>1. PICK x \in 0..255 : x = 240 + q3 /\ x <= 247
    <3>1. q3 < 8
      BY <1>2, SMT DEF Code21
    <3>2. QED
      BY <1>2, <3>1, SMT
  <2>2. Codes!Lead(x) = 3 /\ q3 = x - 240
    BY <1>2, <2>1, SMT DEF Codes!Lead
  <2>3. Kept8(a \o Bytes4(x, x2, x1, x0), Append(codes, code))
    BY <1>2, <1>4, <2>2, SMT DEF TakenAs8
  <2>4. QED
    BY <1>3, <1>8, <2>1, <2>3, SMT
<1>9. Size1(code) \/ Size2(code) \/ Size3(code) \/ Size4(code)
  BY SMT DEF Size1, Size2, Size3, Size4
<1>10. QED
  BY <1>5, <1>6, <1>7, <1>8, <1>9, SMT

\* The first i of the codes.
SameSoFar(c, codes, i) == c \in Seq(Int) /\ Len(c) = i /\ \A j \in 1..i : c[j] = codes[j]

LEMMA CopiedMore ==
  ASSUME NEW codes \in Seq(Nat), NEW i \in 1..Len(codes), NEW c, SameSoFar(c, codes, i - 1)
  PROVE  SameSoFar(Append(c, codes[i]), codes, i) /\ codes[i] \in Nat
<1>1. Len(codes) \in Nat /\ codes[i] \in Nat /\ codes[i] \in Int
  OBVIOUS
<1>2. c \in Seq(Int) /\ Len(c) = i - 1 /\ \A j \in 1..i - 1 : c[j] = codes[j]
  BY DEF SameSoFar
<1>3. Append(c, codes[i]) \in Seq(Int) /\ Len(Append(c, codes[i])) = i
  BY <1>1, <1>2
<1>4. ASSUME NEW j \in 1..i PROVE Append(c, codes[i])[j] = codes[j]
  <2>1. j = i \/ j \in 1..i - 1
    OBVIOUS
  <2>2. QED
    BY <1>1, <1>2, <2>1
<1>5. QED
  BY <1>1, <1>3, <1>4 DEF SameSoFar

LEMMA CopiedAll ==
  ASSUME NEW codes \in Seq(Nat), NEW c, SameSoFar(c, codes, Len(codes))
  PROVE  c = codes
<1>1. c \in Seq(Int) /\ codes \in Seq(Int) /\ Len(c) = Len(codes) /\ \A j \in 1..Len(c) : c[j] = codes[j]
  BY DEF SameSoFar
<1>2. QED
  BY <1>1, SeqEqual, Zenon

Codes21(codes) == \A i \in 1..Len(codes) : Code21(codes[i])

LEMMA Reads8 ==
  ASSUME NEW codes \in Seq(Nat), Codes21(codes)
  PROVE  Codes!Clean(Codes!Utf8(Codes!Written8(codes))) /\ Codes!Utf8(Codes!Written8(codes)).codes = codes
<1> DEFINE N == Len(codes)
           Reads(a, i) == \E c : Kept8(a, c) /\ SameSoFar(c, codes, i)
<1>1. N \in Nat
  OBVIOUS
<1>2. PICK w : Looped("write8", codes, N, w) /\ Codes!Written8(codes) = w[N]
  BY <1>1, Written8Gives, Zenon DEF LoopGives
<1>3. \A i \in 0..N : w[i] = IF i = 0 THEN <<>> ELSE w[i - 1] \o Codes!utf8_encode(codes[i])
  BY <1>2 DEF Looped, TurnOf, StepOf, FirstOf
<1>4. Reads(w[0], 0)
  <2>1. w[0] = <<>>
    BY <1>1, <1>3
  <2>2. <<>> \in Seq(Int) /\ Len(<<>>) = 0 /\ \A j \in 1..0 : FALSE
    OBVIOUS
  <2>3. SameSoFar(<<>>, codes, 0)
    BY <2>2, Zenon DEF SameSoFar
  <2>4. State8(Codes!Fresh, 0, 0, <<>>)
    BY DEF State8, Codes!Fresh
  <2>5. Kept8(<<>>, <<>>)
    BY <2>2, <2>4, Utf8Grows, Zenon DEF Kept8
  <2>6. QED
    BY <2>1, <2>3, <2>5
<1>5. ASSUME NEW i \in 1..N, Reads(w[i - 1], i - 1) PROVE Reads(w[i], i)
  <2>1. PICK c : Kept8(w[i - 1], c) /\ SameSoFar(c, codes, i - 1)
    BY <1>5
  <2>2. SameSoFar(Append(c, codes[i]), codes, i) /\ codes[i] \in Nat
    BY <2>1, CopiedMore
  <2>3. Kept8(w[i - 1] \o Codes!utf8_encode(codes[i]), Append(c, codes[i]))
    <3>1. Code21(codes[i])
      BY Zenon DEF Codes21
    <3>2. QED
      BY <2>1, <2>2, <3>1, Writes8, SMT
  <2>4. w[i] = w[i - 1] \o Codes!utf8_encode(codes[i])
    <3>1. i \in 0..N /\ i # 0
      BY <1>1
    <3>2. QED
      BY <1>3, <3>1, Zenon
  <2>5. QED
    BY <2>2, <2>3, <2>4
<1> DEFINE Bad == {j \in 0..N : ~Reads(w[j], j)}
<1> HIDE DEF Reads
<1>6. ASSUME Bad # {} PROVE FALSE
  <2>1. PICK j \in Bad : \A i \in Bad : j <= i
    BY <1>1, <1>6, SmallestNumber
  <2>2. j \in 0..N /\ ~Reads(w[j], j)
    OBVIOUS
  <2>3. j # 0
    BY <1>4, <2>2
  <2>4. j \in 1..N /\ j - 1 \in 0..N /\ j - 1 < j
    BY <1>1, <2>2, <2>3
  <2>5. Reads(w[j - 1], j - 1)
    BY <2>1, <2>4
  <2>6. QED
    BY <1>5, <2>2, <2>4, <2>5
<1>7. Reads(w[N], N)
  BY <1>1, <1>6
<1>8. PICK c : Kept8(w[N], c) /\ SameSoFar(c, codes, N)
  BY <1>7, Zenon DEF Reads
<1>9. c = codes
  BY <1>8, CopiedAll, Zenon
<1>10. PICK code : State8(Codes!Utf8(w[N]), 0, code, c)
  BY <1>8, Zenon DEF Kept8
<1>11. Codes!Utf8(w[N]).error = FALSE /\ Codes!Utf8(w[N]).state = 0 /\ Codes!Utf8(w[N]).codes = c
  BY <1>10, State8Is, Zenon
<1>12. QED
  BY <1>2, <1>9, <1>11, Zenon DEF Codes!Clean

-----------------------------------------------------------------------------
\* Unicode: UTF-16.

HighSur(x) == Codes!Sur1(x)
LowSur(x) == Codes!Sur2(x)
Lone16(d, x) == (d.state = 1 /\ ~LowSur(x)) \/ (d.state = 0 /\ LowSur(x))

LEMMA SurrogatesDiffer == \A x \in Nat : ~(HighSur(x) /\ LowSur(x))
<1> TAKE x \in Nat
<1>1. HighSur(x) => x <= 56319
  BY SMT DEF HighSur, Codes!Sur1
<1>2. LowSur(x) => x >= 56320
  BY SMT DEF LowSur, Codes!Sur2
<1>3. QED
  BY <1>1, <1>2, SMT

\* The parts of a turn.
TenBits(x) == x % 1024
IsTenBits(x) == x \in 0..1023
Carried16(x) == IF HighSur(x) \/ LowSur(x) THEN TenBits(x) ELSE x
Pair16(low, high) == Codes!Or(low, high, 1024) + 65536
Code16(d, x) == IF d.state = 1 THEN Pair16(Carried16(x), d.code) ELSE Carried16(x)
State16(d, x) == IF HighSur(x) /\ d.state = 0 THEN 1 ELSE 0

LEMMA Utf16Turn ==
  ASSUME NEW d, NEW x
  PROVE  Codes!utf16_decode(d, x) =
           [state |-> State16(d, x), error |-> d.error \/ Lone16(d, x), code |-> Code16(d, x),
            codes |-> IF State16(d, x) = 0 THEN Append(d.codes, Code16(d, x)) ELSE d.codes]
BY SMT DEF Codes!utf16_decode, HighSur, LowSur, Lone16, TenBits, Carried16, Code16, State16, Pair16

LEMMA Plain16 ==
  ASSUME NEW d, NEW code, NEW codes, State8(d, 0, code, codes), NEW x \in Nat, ~HighSur(x), ~LowSur(x)
  PROVE  State8(Codes!utf16_decode(d, x), 0, x, Append(codes, x))
<1>1. d.state = 0 /\ d.error = FALSE /\ d.codes = codes
  BY State8Is, Zenon
<1>2. (d.error \/ Lone16(d, x)) = FALSE
  BY <1>1, SMT DEF Lone16
<1>3. State16(d, x) = 0 /\ Code16(d, x) = x
  BY <1>1, SMT DEF State16, Code16, Carried16
<1>4. Codes!utf16_decode(d, x) = [state |-> 0, error |-> FALSE, code |-> x, codes |-> Append(codes, x)]
  BY <1>1, <1>2, <1>3, Utf16Turn, Zenon
<1>5. QED
  BY <1>4, Zenon DEF State8

LEMMA High16 ==
  ASSUME NEW d, NEW code, NEW codes, State8(d, 0, code, codes), NEW x \in Nat, HighSur(x)
  PROVE  State8(Codes!utf16_decode(d, x), 1, TenBits(x), codes)
<1>1. d.state = 0 /\ d.error = FALSE /\ d.codes = codes /\ ~LowSur(x)
  <2>1. ~LowSur(x)
    BY SurrogatesDiffer, Zenon
  <2>2. QED
    BY <2>1, State8Is, Zenon
<1>2. (d.error \/ Lone16(d, x)) = FALSE
  BY <1>1, SMT DEF Lone16
<1>3. State16(d, x) = 1 /\ Code16(d, x) = TenBits(x) /\ 1 # 0
  BY <1>1, SMT DEF State16, Code16, Carried16
<1>4. Codes!utf16_decode(d, x) = [state |-> 1, error |-> FALSE, code |-> Code16(d, x), codes |-> codes]
  BY <1>1, <1>2, <1>3, Utf16Turn, Zenon
<1>5. QED
  BY <1>3, <1>4, Zenon DEF State8

LEMMA OrIs ==
  ASSUME NEW unit, OrAdds(unit), NEW low, low \in 0..unit - 1, NEW high \in Nat
  PROVE  Codes!Or(low, high, unit) = low + unit * high
BY DEF OrAdds

LEMMA Pair16Is ==
  ASSUME NEW low \in Nat, IsTenBits(low), NEW high \in Nat
  PROVE  Pair16(low, high) = (low + 1024 * high) + 65536
<1>1. PICK u \in Nat : u = 1024 /\ OrAdds(u)
  BY OrIsSum, SMT
<1>2. OrAdds(u) /\ low \in 0..u - 1
  BY <1>1, SMT DEF IsTenBits
<1>3. Codes!Or(low, high, u) = low + u * high
  BY <1>2, OrIs, Zenon
<1>4. Codes!Or(low, high, 1024) = low + 1024 * high
  BY <1>1, <1>3, SMT
<1>5. QED
  BY <1>4, SMT DEF Pair16

LEMMA Low16 ==
  ASSUME NEW d, NEW code \in Nat, NEW codes, State8(d, 1, code, codes), NEW x \in Nat, LowSur(x), NEW c, c = Pair16(TenBits(x), code)
  PROVE  State8(Codes!utf16_decode(d, x), 0, c, Append(codes, c))
<1>1. d.state = 1 /\ d.error = FALSE /\ d.codes = codes /\ d.code = code /\ ~HighSur(x)
  <2>1. ~HighSur(x)
    BY SurrogatesDiffer, Zenon
  <2>2. QED
    BY <2>1, SMT DEF State8
<1>2. (d.error \/ Lone16(d, x)) = FALSE
  BY <1>1, SMT DEF Lone16
<1>3. State16(d, x) = 0
  BY <1>1, SMT DEF State16
<1>4. Code16(d, x) = c
  BY <1>1, Zenon DEF Code16, Carried16
<1>5. Codes!utf16_decode(d, x) = [state |-> 0, error |-> FALSE, code |-> c, codes |-> Append(codes, c)]
  BY <1>1, <1>2, <1>3, <1>4, Utf16Turn, Zenon
<1>6. QED
  BY <1>5, Zenon DEF State8

LEMMA Sticky16 ==
  ASSUME NEW d, NEW x, d.error \/ Lone16(d, x)
  PROVE  Codes!utf16_decode(d, x).error
<1>1. (d.error \/ Lone16(d, x)) = TRUE
  BY Zenon
<1>2. Codes!utf16_decode(d, x).error = (d.error \/ Lone16(d, x))
  BY Utf16Turn, SMT
<1>3. QED
  BY <1>1, <1>2, Zenon

Kept16(a, codes) == a \in Seq(Int) /\ \E code : State8(Codes!Utf16(a), 0, code, codes)

LEMMA TwoAppended ==
  ASSUME NEW a \in Seq(Int), NEW x \in Int, NEW y \in Int
  PROVE  a \o <<x>> = Append(a, x) /\ a \o <<x, y>> = Append(Append(a, x), y) /\ Append(a, x) \in Seq(Int)
         /\ Append(Append(a, x), y) \in Seq(Int)
<1>1. <<x>> = Append(<<>>, x) /\ <<x, y>> = Append(<<x>>, y) /\ <<>> \in Seq(Int) /\ <<x>> \in Seq(Int) /\ a \o <<>> = a
  OBVIOUS
<1>2. a \o <<x>> = Append(a, x)
  BY <1>1, JoinsOne, SMT
<1>3. a \o <<x, y>> = Append(Append(a, x), y)
  <2>1. a \o Append(<<x>>, y) = Append(a \o <<x>>, y)
    BY <1>1, JoinsOne, SMT
  <2>2. QED
    BY <1>1, <1>2, <2>1, Zenon
<1>4. Append(a, x) \in Seq(Int) /\ Append(Append(a, x), y) \in Seq(Int)
  BY AppendedTo, Zenon
<1>5. QED
  BY <1>2, <1>3, <1>4, Zenon

LEMMA Writes16 ==
  ASSUME NEW a, NEW codes, Kept16(a, codes), NEW code \in Nat, Code21(code), ~HighSur(code), ~LowSur(code)
  PROVE  Kept16(a \o Codes!utf16_encode(code), Append(codes, code))
<1>1. a \in Seq(Int)
  BY Zenon DEF Kept16
<1>2. PICK c0 : State8(Codes!Utf16(a), 0, c0, codes)
  BY Zenon DEF Kept16
<1>3. CASE code < 65536
  <2>1. Codes!utf16_encode(code) = <<code>> /\ code \in Int
    BY <1>3, SMT DEF Codes!utf16_encode
  <2>2. a \o Codes!utf16_encode(code) = Append(a, code) /\ Append(a, code) \in Seq(Int)
    BY <1>1, <2>1, TwoAppended, SMT
  <2>3. Codes!Utf16(Append(a, code)) = Codes!utf16_decode(Codes!Utf16(a), code)
    BY <1>1, <2>1, Utf16Grows, SMT
  <2>4. State8(Codes!utf16_decode(Codes!Utf16(a), code), 0, code, Append(codes, code))
    BY <1>2, Plain16, SMT
  <2>5. QED
    BY <2>2, <2>3, <2>4, SMT DEF Kept16
<1>4. CASE ~(code < 65536)
  <2>1. PICK h \in Nat : h <= 1023 /\ h = ((code - 65536) \div 1024) % 1024 /\ h = (code - 65536) \div 1024
    BY <1>4, SMT DEF Code21
  <2>2. PICK l \in Nat : l <= 1023 /\ l = (code - 65536) % 1024
    BY <1>4, SMT
  <2>3. PICK x \in Nat, y \in Nat : x = 55296 + h /\ y = 56320 + l
    BY <2>1, <2>2, SMT
  <2>4. Codes!utf16_encode(code) = <<x, y>> /\ x \in Int /\ y \in Int
    BY <1>4, <2>1, <2>2, <2>3, SMT DEF Codes!utf16_encode
  <2>5. HighSur(x) /\ TenBits(x) = h
    BY <2>1, <2>3, SMT DEF HighSur, Codes!Sur1, TenBits
  <2>6. LowSur(y) /\ TenBits(y) = l
    BY <2>2, <2>3, SMT DEF LowSur, Codes!Sur2, TenBits
  <2>7. h \in Nat /\ code = Pair16(l, h)
    <3>1. code = (l + 1024 * h) + 65536 /\ h \in Nat
      BY <1>4, <2>1, <2>2, SMT
    <3>2. IsTenBits(l)
      BY <2>2, SMT DEF IsTenBits
    <3>3. Pair16(l, h) = (l + 1024 * h) + 65536
      BY <3>2, Pair16Is, SMT
    <3>4. QED
      BY <3>1, <3>3, SMT
  <2>8. /\ a \o Codes!utf16_encode(code) = Append(Append(a, x), y)
        /\ Append(a, x) \in Seq(Int) /\ Append(Append(a, x), y) \in Seq(Int)
    BY <1>1, <2>4, TwoAppended, SMT
  <2>9. /\ Codes!Utf16(Append(a, x)) = Codes!utf16_decode(Codes!Utf16(a), x)
        /\ Codes!Utf16(Append(Append(a, x), y)) = Codes!utf16_decode(Codes!Utf16(Append(a, x)), y)
    BY <1>1, <2>4, <2>8, Utf16Grows, Zenon
  <2>10. State8(Codes!Utf16(Append(a, x)), 1, h, codes)
    BY <1>2, <2>5, <2>9, High16, SMT
  <2>11. State8(Codes!Utf16(Append(Append(a, x), y)), 0, code, Append(codes, code))
    BY <2>6, <2>7, <2>9, <2>10, Low16, SMT
  <2>12. QED
    BY <2>8, <2>11, SMT DEF Kept16
<1>5. QED
  BY <1>3, <1>4, SMT

NoSurrogates(codes) == \A i \in 1..Len(codes) : ~HighSur(codes[i]) /\ ~LowSur(codes[i])

LEMMA Reads16 ==
  ASSUME NEW codes \in Seq(Nat), Codes21(codes), NoSurrogates(codes)
  PROVE  Codes!Clean(Codes!Utf16(Codes!Written16(codes))) /\ Codes!Utf16(Codes!Written16(codes)).codes = codes
<1> DEFINE N == Len(codes)
           Reads(a, i) == \E c : Kept16(a, c) /\ SameSoFar(c, codes, i)
<1>1. N \in Nat
  OBVIOUS
<1>2. PICK w : Looped("write16", codes, N, w) /\ Codes!Written16(codes) = w[N]
  BY <1>1, Written16Gives, Zenon DEF LoopGives
<1>3. \A i \in 0..N : w[i] = IF i = 0 THEN <<>> ELSE w[i - 1] \o Codes!utf16_encode(codes[i])
  BY <1>2 DEF Looped, TurnOf, StepOf, FirstOf
<1>4. Reads(w[0], 0)
  <2>1. w[0] = <<>>
    BY <1>1, <1>3
  <2>2. <<>> \in Seq(Int) /\ Len(<<>>) = 0 /\ \A j \in 1..0 : FALSE
    OBVIOUS
  <2>3. SameSoFar(<<>>, codes, 0)
    BY <2>2, Zenon DEF SameSoFar
  <2>4. State8(Codes!Fresh, 0, 0, <<>>)
    BY DEF State8, Codes!Fresh
  <2>5. Kept16(<<>>, <<>>)
    BY <2>2, <2>4, Utf16Grows, Zenon DEF Kept16
  <2>6. QED
    BY <2>1, <2>3, <2>5
<1>5. ASSUME NEW i \in 1..N, Reads(w[i - 1], i - 1) PROVE Reads(w[i], i)
  <2>1. PICK c : Kept16(w[i - 1], c) /\ SameSoFar(c, codes, i - 1)
    BY <1>5
  <2>2. SameSoFar(Append(c, codes[i]), codes, i) /\ codes[i] \in Nat
    BY <2>1, CopiedMore
  <2>3. Kept16(w[i - 1] \o Codes!utf16_encode(codes[i]), Append(c, codes[i]))
    <3>1. Code21(codes[i]) /\ ~HighSur(codes[i]) /\ ~LowSur(codes[i])
      BY Zenon DEF Codes21, NoSurrogates
    <3>2. QED
      BY <2>1, <2>2, <3>1, Writes16, SMT
  <2>4. w[i] = w[i - 1] \o Codes!utf16_encode(codes[i])
    <3>1. i \in 0..N /\ i # 0
      BY <1>1
    <3>2. QED
      BY <1>3, <3>1, Zenon
  <2>5. QED
    BY <2>2, <2>3, <2>4
<1> DEFINE Bad == {j \in 0..N : ~Reads(w[j], j)}
<1> HIDE DEF Reads
<1>6. ASSUME Bad # {} PROVE FALSE
  <2>1. PICK j \in Bad : \A i \in Bad : j <= i
    BY <1>1, <1>6, SmallestNumber
  <2>2. j \in 0..N /\ ~Reads(w[j], j)
    OBVIOUS
  <2>3. j # 0
    BY <1>4, <2>2
  <2>4. j \in 1..N /\ j - 1 \in 0..N /\ j - 1 < j
    BY <1>1, <2>2, <2>3
  <2>5. Reads(w[j - 1], j - 1)
    BY <2>1, <2>4
  <2>6. QED
    BY <1>5, <2>2, <2>4, <2>5
<1>7. Reads(w[N], N)
  BY <1>1, <1>6
<1>8. PICK c : Kept16(w[N], c) /\ SameSoFar(c, codes, N)
  BY <1>7, Zenon DEF Reads
<1>9. c = codes
  BY <1>8, CopiedAll, Zenon
<1>10. PICK code : State8(Codes!Utf16(w[N]), 0, code, c)
  BY <1>8, Zenon DEF Kept16
<1>11. Codes!Utf16(w[N]).error = FALSE /\ Codes!Utf16(w[N]).state = 0 /\ Codes!Utf16(w[N]).codes = c
  BY <1>10, State8Is, Zenon
<1>12. QED
  BY <1>2, <1>9, <1>11, Zenon DEF Codes!Clean

\* The surrogates of the first i units come in pairs, but for a first one at the end.
Paired(t, i) == \A j \in 1..i : (HighSur(t[j]) /\ j < i => LowSur(t[j + 1])) /\ (LowSur(t[j]) => j > 1 /\ HighSur(t[j - 1]))
Sound16(t, i, d) ==
  IF d.error THEN ~Codes!WellFormed16(t)
  ELSE Paired(t, i) /\ d.state \in {0, 1} /\ (d.state = 1 <=> i > 0 /\ HighSur(t[i]))

LEMMA After16 ==
  ASSUME NEW t \in Seq(Nat), NEW i \in 1..Len(t), NEW d, Sound16(t, i - 1, d)
  PROVE  Sound16(t, i, Codes!utf16_decode(d, t[i]))
<1> DEFINE e == Codes!utf16_decode(d, t[i])
<1>1. Len(t) \in Nat /\ i \in Nat /\ t[i] \in Nat
  OBVIOUS
<1>2. Codes!WellFormed16(t) <=> \A j \in 1..Len(t) : (HighSur(t[j]) => j < Len(t) /\ LowSur(t[j + 1])) /\ (LowSur(t[j]) => j > 1 /\ HighSur(t[j - 1]))
  BY Zenon DEF Codes!WellFormed16, HighSur, LowSur
<1>3. CASE d.error
  BY <1>3, Sticky16, Zenon DEF Sound16
<1>4. CASE ~d.error
  <2>1. Paired(t, i - 1) /\ d.state \in {0, 1} /\ (d.state = 1 <=> i - 1 > 0 /\ HighSur(t[i - 1]))
    BY <1>4, Zenon DEF Sound16
  <2>2. ASSUME Lone16(d, t[i]) PROVE ~Codes!WellFormed16(t)
    <3>1. CASE d.state = 1 /\ ~LowSur(t[i])
      <4>1. i - 1 \in 1..Len(t) /\ HighSur(t[i - 1]) /\ (i - 1) + 1 = i
        BY <1>1, <2>1, <3>1
      <4>2. QED
        BY <1>2, <3>1, <4>1, Zenon
    <3>2. CASE d.state = 0 /\ LowSur(t[i])
      <4>1. ~(i > 1 /\ HighSur(t[i - 1]))
        BY <1>1, <2>1, <3>2
      <4>2. QED
        BY <1>2, <3>2, <4>1, Zenon
    <3>3. QED
      BY <2>2, <3>1, <3>2, Zenon DEF Lone16
  <2>3. CASE Lone16(d, t[i])
    BY <2>2, <2>3, Sticky16, Zenon DEF Sound16
  <2>4. CASE ~Lone16(d, t[i])
    <3>1. e.error = (d.error \/ Lone16(d, t[i])) /\ e.state = IF HighSur(t[i]) /\ d.state = 0 THEN 1 ELSE 0
      BY Utf16Turn, SMT DEF State16
    <3>2. ~e.error
      BY <1>4, <2>4, <3>1, Zenon
    <3> HIDE DEF e
    <3>3. e.state \in {0, 1} /\ (e.state = 1 <=> i > 0 /\ HighSur(t[i]))
      <4>1. HighSur(t[i]) => d.state = 0
        BY <1>1, <2>1, <2>4, SurrogatesDiffer DEF Lone16
      <4>2. QED
        BY <1>1, <3>1, <4>1
    <3>4. ASSUME NEW j \in 1..i
          PROVE  (HighSur(t[j]) /\ j < i => LowSur(t[j + 1])) /\ (LowSur(t[j]) => j > 1 /\ HighSur(t[j - 1]))
      <4>1. CASE j = i
        <5>1. LowSur(t[i]) => i > 1 /\ HighSur(t[i - 1])
          BY <1>1, <2>1, <2>4 DEF Lone16
        <5>2. QED
          BY <1>1, <4>1, <5>1
      <4>2. CASE j = i - 1
        <5>1. HighSur(t[j]) => LowSur(t[i])
          BY <1>1, <2>1, <2>4, <4>2 DEF Lone16
        <5>2. j \in 1..i - 1 /\ j + 1 = i
          BY <1>1, <4>2
        <5>3. QED
          BY <2>1, <5>1, <5>2, Zenon DEF Paired
      <4>3. CASE j < i - 1
        <5>1. j \in 1..i - 1
          BY <1>1, <4>3
        <5>2. QED
          BY <2>1, <4>3, <5>1, Zenon DEF Paired
      <4>4. QED
        BY <1>1, <4>1, <4>2, <4>3
    <3>5. Paired(t, i)
      BY <3>4, Zenon DEF Paired
    <3>6. QED
      BY <3>2, <3>3, <3>5, Zenon DEF Sound16, e
  <2>5. QED
    BY <2>3, <2>4
<1>5. QED
  BY <1>3, <1>4

LEMMA Accepts16 ==
  ASSUME NEW t \in Seq(Nat)
  PROVE  Codes!Clean(Codes!Utf16(t)) <=> Codes!WellFormed16(t)
<1>1. Len(t) \in Nat
  OBVIOUS
<1>2. PICK d : Looped("utf16", t, Len(t), d) /\ Codes!Utf16(t) = d[Len(t)]
  BY <1>1, Utf16Gives, Zenon DEF LoopGives
<1>3. \A i \in 0..Len(t) : d[i] = IF i = 0 THEN Codes!Fresh ELSE Codes!utf16_decode(d[i - 1], t[i])
  BY <1>2 DEF Looped, TurnOf, FirstOf, StepOf
<1>4. Sound16(t, 0, d[0])
  <2>1. d[0] = Codes!Fresh
    BY <1>1, <1>3
  <2>2. State8(Codes!Fresh, 0, 0, <<>>)
    BY DEF State8, Codes!Fresh
  <2>3. d[0].error = FALSE /\ d[0].state = 0
    BY <2>1, <2>2, State8Is, Zenon
  <2>4. \A j \in 1..0 : FALSE
    OBVIOUS
  <2>5. ~(0 > 0) /\ 0 # 1
    OBVIOUS
  <2>6. Paired(t, 0)
    BY <2>4, Zenon DEF Paired
  <2>7. QED
    BY <2>3, <2>5, <2>6, Zenon DEF Sound16
<1>5. ASSUME NEW i \in 1..Len(t), Sound16(t, i - 1, d[i - 1]) PROVE Sound16(t, i, d[i])
  <2>1. i \in 0..Len(t) /\ i # 0
    BY <1>1
  <2>2. d[i] = Codes!utf16_decode(d[i - 1], t[i])
    BY <1>3, <2>1, Zenon
  <2>3. QED
    BY <1>5, <2>2, After16, Zenon
<1> DEFINE Bad == {j \in 0..Len(t) : ~Sound16(t, j, d[j])}
<1>6. ASSUME Bad # {} PROVE FALSE
  <2>1. PICK j \in Bad : \A i \in Bad : j <= i
    BY <1>1, <1>6, SmallestNumber
  <2>2. j \in 0..Len(t) /\ ~Sound16(t, j, d[j])
    OBVIOUS
  <2>3. j # 0
    BY <1>4, <2>2
  <2>4. j \in 1..Len(t) /\ j - 1 \in 0..Len(t) /\ j - 1 < j
    BY <1>1, <2>2, <2>3
  <2>5. Sound16(t, j - 1, d[j - 1])
    BY <2>1, <2>4
  <2>6. QED
    BY <1>5, <2>2, <2>4, <2>5
<1>7. Sound16(t, Len(t), d[Len(t)])
  BY <1>1, <1>6
<1> DEFINE e == Codes!Utf16(t)
<1>8. Sound16(t, Len(t), e)
  BY <1>2, <1>7, Zenon
<1>9. Codes!Clean(e) <=> ~e.error /\ e.state = 0
  BY Zenon DEF Codes!Clean
<1> HIDE DEF e
<1>10. Codes!WellFormed16(t) <=> \A j \in 1..Len(t) : (HighSur(t[j]) => j < Len(t) /\ LowSur(t[j + 1])) /\ (LowSur(t[j]) => j > 1 /\ HighSur(t[j - 1]))
  BY Zenon DEF Codes!WellFormed16, HighSur, LowSur
<1>11. CASE e.error
  BY <1>8, <1>9, <1>11, Zenon DEF Sound16, e
<1>12. CASE ~e.error
  <2>1. Paired(t, Len(t)) /\ e.state \in {0, 1} /\ (e.state = 1 <=> Len(t) > 0 /\ HighSur(t[Len(t)]))
    BY <1>8, <1>12, Zenon DEF Sound16
  <2>2. ASSUME Codes!WellFormed16(t) PROVE e.state = 0
    <3>1. Len(t) > 0 => Len(t) \in 1..Len(t) /\ ~(Len(t) < Len(t))
      BY <1>1
    <3>2. ~(Len(t) > 0 /\ HighSur(t[Len(t)]))
      BY <1>10, <2>2, <3>1, Zenon
    <3>3. QED
      BY <2>1, <3>2
  <2>3. ASSUME e.state = 0 PROVE Codes!WellFormed16(t)
    <3>1. ~(Len(t) > 0 /\ HighSur(t[Len(t)]))
      BY <2>1, <2>3
    <3>2. ASSUME NEW j \in 1..Len(t) PROVE HighSur(t[j]) => j < Len(t)
      <4>1. j < Len(t) \/ j = Len(t)
        BY <1>1
      <4>2. j = Len(t) => Len(t) > 0
        BY <1>1
      <4>3. QED
        BY <3>1, <4>1, <4>2, Zenon
    <3>3. QED
      BY <1>10, <2>1, <3>2, Zenon DEF Paired
  <2>4. QED
    BY <1>9, <1>12, <2>2, <2>3, Zenon DEF e
<1>13. QED
  BY <1>11, <1>12 DEF e

LEMMA CodesInvert ==
  ASSUME NEW codes \in Seq(Nat), Codes21(codes)
  PROVE  Codes!InvertsCodes(codes)
<1>1. Codes!Clean(Codes!Utf8(Codes!Written8(codes))) /\ Codes!Utf8(Codes!Written8(codes)).codes = codes
  BY Reads8, Zenon
<1>2. NoSurrogates(codes) =>
        Codes!Clean(Codes!Utf16(Codes!Written16(codes))) /\ Codes!Utf16(Codes!Written16(codes)).codes = codes
  BY Reads16, Zenon
<1>3. Codes!Clean(Codes!Utf16(codes)) <=> Codes!WellFormed16(codes)
  BY Accepts16, Zenon
<1>4. QED
  BY <1>1, <1>2, <1>3, SMT DEF Codes!InvertsCodes, NoSurrogates, HighSur, LowSur
=============================================================================
