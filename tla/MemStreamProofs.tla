--------------------------- MODULE MemStreamProofs ---------------------------
(***************************************************************************)
(* Proofs about MemStream for any bytes, buffers, bounds and outcomes of   *)
(* the allocations.                                                        *)
(***************************************************************************)
EXTENDS MemStream, TLAPS

Inv == TypeOK /\ InBounds

\* A block that resize leaves behind has the size it records, keeps what it held, and is
\* big enough.
LEMMA BlockSize ==
  ASSUME Inv, buf # Null, NEW n \in Nat, NEW done \in BOOLEAN, Block(n, done) # Null
  PROVE  /\ Block(n, done) \in Seq(Cell)
         /\ Len(Block(n, done)) = NewSize(n)
         /\ NewSize(n) \in Nat
         /\ NewSize(n) >= n /\ NewSize(n) >= allocated
  <1>1. buf \in Seq(Cell) /\ Len(buf) = allocated /\ allocated \in Nat
    BY DEF Inv, TypeOK, InBounds
  <1>2. CASE n <= allocated
    BY <1>1, <1>2 DEF Block, NewSize
  <1>3. CASE n > allocated
    <2>1. done
      BY <1>3, <1>1 DEF Block
    <2> DEFINE k == NewSize(n) - allocated
               more == [i \in 1..k |-> Uninit]
    <2>2. NewSize(n) \in Nat /\ NewSize(n) >= n /\ k \in Nat
      BY <1>1, <1>3 DEF NewSize, Larger
    <2>3. Uninit \in Cell
      BY DEF Cell
    <2> HIDE DEF k
    <2>4. more \in Seq(Cell) /\ Len(more) = k
      BY <2>2, <2>3
    <2> HIDE DEF more
    <2>5. buf \o more \in Seq(Cell) /\ Len(buf \o more) = allocated + k
      BY <1>1, <2>4
    <2>6. allocated + k = NewSize(n)
      BY <1>1, <2>2 DEF k
    <2>7. Block(n, done) = buf \o more
      <3>1. ~(n <= allocated)
        BY <1>1, <1>3
      <3>2. QED
        BY <2>1, <3>1, Zenon DEF Block, more, k
    <2>8. QED
      BY <1>1, <1>3, <2>2, <2>5, <2>6, <2>7
  <1>4. QED
    BY <1>1, <1>2, <1>3

\* memcpy changes no length.
LEMMA CopiedLength ==
  ASSUME NEW s \in Seq(Cell), NEW n \in Nat, NEW b \in Seq(Byte)
  PROVE  Copied(s, n, b) \in Seq(Cell) /\ Len(Copied(s, n, b)) = Len(s)
  <1>1. Len(s) \in Nat /\ \A i \in 1..Len(s) : s[i] \in Cell
    OBVIOUS
  <1>2. \A i \in 1..Len(b) : b[i] \in Cell
    BY DEF Cell
  <1>3. Copied(s, n, b) \in [1..Len(s) -> Cell]
    BY <1>1, <1>2 DEF Copied
  <1>4. QED
    BY <1>1, <1>3 DEF Copied

LEMMA InitInv == Init => Inv
  <1> SUFFICES ASSUME Init PROVE Inv
    OBVIOUS
  <1>1. resizeable \in BOOLEAN /\ crashed \in BOOLEAN /\ lost \in BOOLEAN
    BY Zenon DEF Init
  <1>2. QED
    BY <1>1 DEF Init, Inv, TypeOK, InBounds

\* The inputs the clients of Next choose from.
LEMMA Inputs ==
  /\ \A n \in 0..MaxBuffer : n \in Nat
  /\ \A b \in Buffers : b \in Seq(Byte) /\ Len(b) \in Nat
  /\ \A b \in Writes : b \in Seq(Byte) /\ Len(b) \in Nat
  /\ \A n \in 0..(MaxSize + 1) : n \in Nat
  /\ \A n \in -(MaxSize + 1)..MaxSize : n \in Int
  BY BoundAssumption DEF Buffers, Writes

LEMMA ThrowsInv ==
  ASSUME Inv, NEW op, NEW arg, NEW err, Throws(op, arg, err)
  PROVE  Inv'
  BY DEF Throws, fields, Inv, TypeOK, InBounds

LEMMA InitOwnInv ==
  ASSUME Inv, NEW n \in Nat, InitOwn(n)
  PROVE  Inv'
  <1>1. allocated' = n /\ size' = n /\ position' = 0 /\ resizeable' = TRUE
    BY DEF InitOwn
  <1>2. crashed' = crashed /\ lost' = lost
    BY DEF InitOwn
  <1>3. buf' # Null => buf' = [i \in 1..n |-> Uninit]
    BY Zenon DEF InitOwn
  <1>4. [i \in 1..n |-> Uninit] \in Seq(Cell) /\ Len([i \in 1..n |-> Uninit]) = n
    <2>1. Uninit \in Cell
      BY DEF Cell
    <2>2. QED
      BY <2>1
  <1>5. QED
    BY <1>1, <1>2, <1>3, <1>4 DEF Inv, TypeOK, InBounds

LEMMA InitBufInv ==
  ASSUME Inv, NEW b \in Seq(Byte), InitBuf(b)
  PROVE  Inv'
  <1>1. b \in Seq(Cell) /\ Len(b) \in Nat
    BY DEF Cell
  <1>2. resizeable' \in BOOLEAN
    BY Zenon DEF InitBuf
  <1>3. QED
    BY <1>1, <1>2 DEF InitBuf, Inv, TypeOK, InBounds

\* The successful branches of impl_write and of the forward seeks.
LEMMA GrowInv ==
  ASSUME Inv, buf # Null, NEW n \in Nat,
         NEW done \in BOOLEAN,
         buf' # Null => Block(n, done) # Null /\ buf' \in Seq(Cell) /\ Len(buf') = Len(Block(n, done)),
         allocated' = NewSize(n),
         position' = n,
         size' = Extended(n),
         resizeable' = resizeable,
         crashed' \in BOOLEAN, lost' \in BOOLEAN
  PROVE  Inv'
  <1>1. allocated \in Nat /\ size \in Nat /\ size <= allocated
    BY DEF Inv, TypeOK, InBounds
  <1>2. NewSize(n) \in Nat /\ NewSize(n) >= n /\ NewSize(n) >= allocated
    BY <1>1 DEF NewSize, Larger
  <1>3. size' \in Nat /\ size' <= NewSize(n) /\ n <= size'
    BY <1>1, <1>2 DEF Extended, Larger
  <1>4. buf' # Null => Len(buf') = NewSize(n)
    BY BlockSize
  <1>5. QED
    BY <1>2, <1>3, <1>4 DEF Inv, TypeOK, InBounds

LEMMA WriteInv ==
  ASSUME Inv, NEW b \in Seq(Byte), Write(b)
  PROVE  Inv'
  <1> DEFINE end == position + Len(b)
  <1>1. CASE Disposed("write", b)
    BY <1>1, ThrowsInv DEF Disposed
  <1>2. CASE Throws("write", b, "notsup")
    BY <1>2, ThrowsInv
  <1>3. CASE ~Disposed("write", b) /\ ~Throws("write", b, "notsup")
    <2>1. /\ buf # Null
          /\ allocated' = NewSize(end) /\ position' = end /\ size' = Extended(end)
          /\ resizeable' = resizeable
      BY <1>3 DEF Write, Usable
    <2>2. PICK done \in AllocOutcome :
             /\ buf' = IF Block(end, done) = Null THEN Null
                       ELSE Copied(Block(end, done), position, b)
             /\ crashed' = (buf' = Null)
             /\ lost' = (lost \/ buf' = Null)
      BY <1>3, Zenon DEF Write
    <2>3. position \in Nat /\ end \in Nat
      BY DEF Inv, TypeOK
    <2>4. done \in BOOLEAN
      BY AllocAssumption
    <2>5. crashed' \in BOOLEAN /\ lost' \in BOOLEAN
      BY <2>2, Zenon DEF Inv, TypeOK
    <2> HIDE DEF end
    <2>6. ASSUME buf' # Null
          PROVE  /\ Block(end, done) # Null
                 /\ buf' \in Seq(Cell)
                 /\ Len(buf') = Len(Block(end, done))
      <3>1. Block(end, done) # Null /\ buf' = Copied(Block(end, done), position, b)
        BY <2>2, <2>6, Zenon
      <3>2. Block(end, done) \in Seq(Cell)
        BY <2>1, <2>3, <2>4, <3>1, BlockSize
      <3>3. QED
        BY <2>3, <3>1, <3>2, CopiedLength
    <2>7. QED
      BY <2>1, <2>3, <2>4, <2>5, <2>6, GrowInv
  <1>4. QED
    BY <1>1, <1>2, <1>3

LEMMA SeekForwardInv ==
  ASSUME Inv, NEW arg, NEW to \in Nat, SeekForward(arg, to)
  PROVE  Inv'
  <1>1. CASE Throws("seek", arg, "notsup")
    BY <1>1, ThrowsInv
  <1>2. CASE ~Throws("seek", arg, "notsup")
    <2>1. /\ buf # Null
          /\ allocated' = NewSize(to) /\ position' = to /\ size' = Extended(to)
          /\ resizeable' = resizeable
          /\ crashed' = crashed
      BY <1>2 DEF SeekForward, Usable
    <2>2. PICK done \in AllocOutcome :
             buf' = Block(to, done) /\ lost' = (lost \/ buf' = Null)
      BY <1>2, Zenon DEF SeekForward
    <2>3. done \in BOOLEAN /\ lost' \in BOOLEAN /\ crashed' \in BOOLEAN
      BY <2>1, <2>2, AllocAssumption, Zenon DEF Inv, TypeOK
    <2>4. buf' # Null => buf' \in Seq(Cell)
      BY <2>1, <2>2, <2>3, BlockSize
    <2>5. QED
      BY <2>1, <2>2, <2>3, <2>4, GrowInv
  <1>3. QED
    BY <1>1, <1>2

LEMMA SeekBackInv ==
  ASSUME Inv, NEW arg, NEW from \in Nat, from <= size, arg[1] \in Int, arg[1] <= 0,
         SeekBack(arg, from)
  PROVE  Inv'
  <1>1. CASE Throws("seek", arg, "notsup")
    BY <1>1, ThrowsInv
  <1>2. CASE ~Throws("seek", arg, "notsup")
    BY <1>2 DEF SeekBack, Usable, Inv, TypeOK, InBounds
  <1>3. QED
    BY <1>1, <1>2

LEMMA SeekInv ==
  ASSUME Inv, NEW offset \in Int, NEW origin, Seek(offset, origin)
  PROVE  Inv'
  <1> DEFINE arg == <<offset, origin>>
  <1>1. arg[1] = offset /\ position \in Nat /\ size \in Nat
    BY DEF Inv, TypeOK
  <1>2. buf # Null => position <= size
    BY DEF Inv, InBounds
  <1> HIDE DEF arg
  <1>3. CASE Disposed("seek", arg)
    BY <1>3, ThrowsInv DEF Disposed
  <1>4. CASE Throws("seek", arg, "notsup")
    BY <1>4, ThrowsInv
  <1>5. CASE offset >= 0 /\ SeekForward(arg, offset)
    BY <1>1, <1>5, SeekForwardInv
  <1>6. CASE offset >= 0 /\ SeekForward(arg, position + offset)
    BY <1>1, <1>6, SeekForwardInv
  <1>7. CASE offset <= 0 /\ SeekBack(arg, position)
    BY <1>1, <1>2, <1>7, SeekBackInv DEF SeekBack, Usable
  <1>8. CASE offset <= 0 /\ SeekBack(arg, size)
    BY <1>1, <1>8, SeekBackInv
  <1>9. QED
    BY <1>3, <1>4, <1>5, <1>6, <1>7, <1>8 DEF Seek, arg

\* Every call keeps the invariant.
LEMMA StepInv == Inv /\ [Next]_vars => Inv'
  <1> SUFFICES ASSUME Inv, [Next]_vars PROVE Inv'
    OBVIOUS
  <1>1. ASSUME NEW n \in 0..(MaxSize + 1), Read(n) PROVE Inv'
    <2>1. n \in Nat
      OBVIOUS
    <2>2. CASE Disposed("read", n)
      BY <2>2, ThrowsInv DEF Disposed
    <2>3. CASE Throws("read", n, "notsup")
      BY <2>3, ThrowsInv
    <2>4. CASE ~Disposed("read", n) /\ ~Throws("read", n, "notsup")
      BY <1>1, <2>1, <2>4 DEF Read, Usable, Inv, TypeOK, InBounds
    <2>5. QED
      BY <2>2, <2>3, <2>4
  <1>2. ASSUME NEW op, Query(op) PROVE Inv'
    BY <1>2, ThrowsInv DEF Query, Disposed, fields, Inv, TypeOK, InBounds
  <1>3. CASE Close
    BY <1>3, ThrowsInv DEF Close, Disposed, Inv, TypeOK, InBounds
  <1>4. CASE Dispose \/ Flush \/ UNCHANGED vars
    BY <1>4 DEF Dispose, Flush, vars, fields, Inv, TypeOK, InBounds
  <1>5. QED
    BY <1>1, <1>2, <1>3, <1>4, Inputs, InitOwnInv, InitBufInv, WriteInv, SeekInv DEF Next

THEOREM Invariance == Spec => []Inv
  BY InitInv, StepInv, PTL DEF Spec

\* The fields of the stream keep their types.
THEOREM TypeCorrect == Spec => []TypeOK
  <1>1. Inv => TypeOK
    BY DEF Inv
  <1>2. QED
    BY <1>1, Invariance, PTL

\* No sequence of calls takes the position past the size or the size past the block, however
\* large the block grows and whether or not an allocation fails.
THEOREM StaysInBounds == Spec => []InBounds
  <1>1. Inv => InBounds
    BY DEF Inv
  <1>2. QED
    BY <1>1, Invariance, PTL

\* A call that reports an error has changed nothing.
THEOREM ErrorsChangeNothing == Spec => FailureChangesNothing
  <1>1. [Next]_vars => [call'.err # "none" => UNCHANGED <<fields, crashed, lost>>]_vars
    <2> SUFFICES ASSUME Next, call'.err # "none" PROVE UNCHANGED <<fields, crashed, lost>>
      BY DEF Next
    <2>1. ASSUME NEW op, NEW arg, Disposed(op, arg) PROVE UNCHANGED <<fields, crashed, lost>>
      BY <2>1 DEF Disposed, Throws
    <2>2. ASSUME NEW op, NEW arg, NEW err, Throws(op, arg, err) PROVE UNCHANGED <<fields, crashed, lost>>
      BY <2>2 DEF Throws
    <2>3. \A op, arg, out : ~Returns(op, arg, "none", out)
      BY DEF Returns
    <2>4. ASSUME NEW n, InitOwn(n) PROVE FALSE
      BY <2>3, <2>4 DEF InitOwn
    <2>5. ASSUME NEW b, InitBuf(b) PROVE FALSE
      BY <2>3, <2>5 DEF InitBuf
    <2>6. ASSUME NEW b, Write(b) PROVE UNCHANGED <<fields, crashed, lost>>
      BY <2>1, <2>2, <2>3, <2>6 DEF Write
    <2>7. ASSUME NEW n, Read(n) PROVE UNCHANGED <<fields, crashed, lost>>
      BY <2>1, <2>2, <2>3, <2>7 DEF Read
    <2>8. ASSUME NEW offset, NEW origin, Seek(offset, origin)
          PROVE  UNCHANGED <<fields, crashed, lost>>
      BY <2>1, <2>2, <2>3, <2>8 DEF Seek, SeekForward, SeekBack
    <2>9. ASSUME NEW op, Query(op) PROVE UNCHANGED <<fields, crashed, lost>>
      BY <2>1, <2>3, <2>9 DEF Query
    <2>10. ~Flush /\ ~Dispose
      BY <2>3 DEF Flush, Dispose
    <2>11. CASE Close
      BY <2>1, <2>3, <2>11 DEF Close
    <2>12. QED
      BY <2>4, <2>5, <2>6, <2>7, <2>8, <2>9, <2>10, <2>11 DEF Next
  <1>2. QED
    BY <1>1, PTL DEF Spec, FailureChangesNothing

\* A failed allocation hurts nothing but a call that had to grow the block.
THEOREM LosesOnlyInGrowth == Spec => OnlyGrowthLoses
  <1> DEFINE Harmed == lost' # lost \/ crashed' # crashed
             Grew == resizeable /\ call'.op \in {"seek", "write"} /\ allocated' > allocated
  <1>1. Inv /\ Next /\ Harmed => Grew
    <2> SUFFICES ASSUME Inv, Next, Harmed PROVE Grew
      OBVIOUS
    <2>1. ASSUME NEW op, NEW arg, NEW err, Throws(op, arg, err) PROVE FALSE
      BY <2>1 DEF Throws
    <2>2. ASSUME NEW op, NEW arg, Disposed(op, arg) PROVE FALSE
      BY <2>1, <2>2 DEF Disposed
    <2>3. ASSUME NEW n \in Nat, NEW done \in AllocOutcome, Usable, ~Refuses(n),
                 Block(n, done) = Null, allocated' = NewSize(n)
          PROVE  resizeable /\ allocated' > allocated
      <3>1. n > allocated /\ allocated \in Nat
        BY <2>3 DEF Block, Usable, Inv, TypeOK
      <3>2. resizeable
        BY <2>3, <3>1, Zenon DEF Refuses
      <3>3. QED
        BY <2>3, <3>1, <3>2 DEF NewSize, Larger
    <2>4. ASSUME NEW b \in Seq(Byte), Write(b) PROVE Grew
      <3> DEFINE end == position + Len(b)
      <3>1. end \in Nat
        BY DEF Inv, TypeOK
      <3>2. /\ Usable /\ ~Refuses(end) /\ allocated' = NewSize(end)
            /\ Returns("write", b, "none", 0)
        BY <2>1, <2>2, <2>4 DEF Write
      <3>3. PICK done \in AllocOutcome :
               /\ buf' = IF Block(end, done) = Null THEN Null
                         ELSE Copied(Block(end, done), position, b)
               /\ crashed' = (buf' = Null)
               /\ lost' = (lost \/ buf' = Null)
        BY <2>1, <2>2, <2>4, Zenon DEF Write
      <3> HIDE DEF end
      <3>4. Block(end, done) = Null
        <4>1. CASE buf' = Null
          <5>1. ASSUME Block(end, done) # Null PROVE FALSE
            <6>1. done \in BOOLEAN
              BY AllocAssumption
            <6>2. Block(end, done) \in Seq(Cell)
              BY <3>1, <3>2, <5>1, <6>1, BlockSize DEF Usable
            <6>3. Copied(Block(end, done), position, b) \in Seq(Cell)
              BY <6>2, CopiedLength DEF Inv, TypeOK
            <6>4. QED
              BY <3>3, <4>1, <5>1, <6>3, NullAssumption DEF Cell
          <5>2. QED
            BY <5>1
        <4>2. CASE buf' # Null
          <5>1. crashed' = FALSE /\ lost' = lost
            BY <3>3, <4>2, Zenon DEF Inv, TypeOK
          <5>2. crashed = FALSE
            BY <3>2, Zenon DEF Usable, Inv, TypeOK
          <5>3. QED
            BY <5>1, <5>2
        <4>3. QED
          BY <4>1, <4>2
      <3>5. resizeable /\ allocated' > allocated
        BY <2>3, <3>1, <3>2, <3>4
      <3>6. QED
        BY <3>2, <3>5 DEF Returns
    <2>5. ASSUME NEW arg, NEW to \in Nat, SeekForward(arg, to) PROVE Grew
      <3>1. /\ Usable /\ ~Refuses(to) /\ allocated' = NewSize(to)
            /\ Returns("seek", arg, "none", 0)
            /\ crashed' = crashed
        BY <2>1, <2>5 DEF SeekForward
      <3>2. PICK done \in AllocOutcome : buf' = Block(to, done) /\ lost' = (lost \/ buf' = Null)
        BY <2>1, <2>5, Zenon DEF SeekForward
      <3>3. Block(to, done) = Null
        BY <3>1, <3>2, Zenon DEF Inv, TypeOK
      <3>4. resizeable /\ allocated' > allocated
        BY <2>3, <3>1, <3>3
      <3>5. QED
        BY <3>1, <3>4 DEF Returns
    <2>6. ASSUME NEW arg, NEW from, SeekBack(arg, from) PROVE FALSE
      BY <2>1, <2>6 DEF SeekBack
    <2>7. ASSUME NEW offset \in Int, NEW origin, Seek(offset, origin) PROVE Grew
      <3>1. position \in Nat
        BY DEF Inv, TypeOK
      <3>2. CASE offset >= 0
        <4>1. offset \in Nat /\ position + offset \in Nat
          BY <3>1, <3>2
        <4>2. QED
          BY <2>1, <2>2, <2>5, <2>6, <2>7, <3>2, <4>1 DEF Seek
      <3>3. CASE ~(offset >= 0)
        BY <2>1, <2>2, <2>6, <2>7, <3>3 DEF Seek
      <3>4. QED
        BY <3>2, <3>3
    <2>8. ASSUME NEW op, Query(op) PROVE FALSE
      BY <2>2, <2>8 DEF Query
    <2>9. ASSUME NEW n, Read(n) PROVE FALSE
      BY <2>1, <2>2, <2>9 DEF Read
    <2>10. ~Close
      BY <2>2 DEF Close
    <2>11. ~Flush /\ ~Dispose
      BY DEF Flush, Dispose
    <2>12. ASSUME NEW n, InitOwn(n) \/ InitBuf(n) PROVE FALSE
      BY <2>12 DEF InitOwn, InitBuf
    <2> HIDE DEF Harmed, Grew
    <2>13. QED
      BY <2>4, <2>7, <2>8, <2>9, <2>10, <2>11, <2>12, Inputs DEF Next
  <1>2. Inv /\ [Next]_vars => [Harmed => Grew]_vars
    BY <1>1
  <1> HIDE DEF Harmed, Grew
  <1>3. Spec => [][Harmed => Grew]_vars
    BY <1>2, Invariance, PTL DEF Spec
  <1>4. QED
    BY <1>3 DEF Harmed, Grew, OnlyGrowthLoses

-----------------------------------------------------------------------------
\* The refinement of ByteStream.  Content, Place and Limit are what its variables stand for.
Content == IF buf = Null THEN <<>> ELSE SubSeq(buf, 1, size)
Place == IF buf = Null THEN 0 ELSE position
Limit == IF buf = Null THEN 0 ELSE IF resizeable THEN Null ELSE allocated

\* A sequence of cells is determined by its length and its cells.
LEMMA SameCells ==
  ASSUME NEW s \in Seq(Cell), NEW t \in Seq(Cell), Len(s) = Len(t),
         \A i \in 1..Len(s) : s[i] = t[i]
  PROVE  s = t
  OBVIOUS

LEMMA CallFields ==
  ASSUME NEW op, NEW arg, NEW err, NEW out, Returns(op, arg, err, out)
  PROVE  call'.op = op /\ call'.arg = arg /\ call'.err = err /\ call'.out = out
  BY DEF Returns

\* The first cells of a block.
LEMMA FrontCells ==
  ASSUME NEW s \in Seq(Cell), NEW n \in Nat, n <= Len(s)
  PROVE  /\ SubSeq(s, 1, n) \in Seq(Cell)
         /\ Len(SubSeq(s, 1, n)) = n
         /\ \A i \in 1..n : SubSeq(s, 1, n)[i] = s[i]
  OBVIOUS

\* The content is the first size cells of the block.
LEMMA ContentCells ==
  ASSUME Inv, buf # Null
  PROVE  /\ Content = SubSeq(buf, 1, size)
         /\ Content \in Seq(Cell)
         /\ Len(Content) = size
         /\ \A i \in 1..size : Content[i] = buf[i]
         /\ size \in Nat /\ position \in Nat /\ position <= size
         /\ size <= allocated /\ allocated \in Nat
  <1>1. /\ buf \in Seq(Cell) /\ size \in Nat /\ size <= Len(buf) /\ Len(buf) = allocated
        /\ position \in Nat /\ position <= size /\ allocated \in Nat
    BY DEF Inv, TypeOK, InBounds
  <1>2. Content = SubSeq(buf, 1, size)
    BY DEF Content
  <1>3. QED
    BY <1>1, <1>2, FrontCells

\* A block that has grown begins with the cells there were.
LEMMA BlockKeeps ==
  ASSUME Inv, buf # Null, NEW n \in Nat, NEW done \in BOOLEAN, Block(n, done) # Null
  PROVE  \A i \in 1..allocated : Block(n, done)[i] = buf[i]
  <1>1. buf \in Seq(Cell) /\ Len(buf) = allocated /\ allocated \in Nat
    BY DEF Inv, TypeOK, InBounds
  <1> DEFINE k == NewSize(n) - allocated
             more == [i \in 1..k |-> Uninit]
  <1>2. CASE n <= allocated
    BY <1>2 DEF Block
  <1>3. CASE n > allocated
    <2>1. k \in Nat
      BY <1>1, <1>3 DEF NewSize, Larger
    <2>2. Block(n, done) = buf \o more
      <3>1. ~(n <= allocated)
        BY <1>1, <1>3
      <3>2. QED
        BY <3>1, Zenon DEF Block, more, k
    <2> HIDE DEF k
    <2>3. more \in Seq({Uninit})
      BY <2>1
    <2> HIDE DEF more
    <2>4. QED
      BY <1>1, <2>2, <2>3
  <1>4. QED
    BY <1>1, <1>2, <1>3

LEMMA JoinedCells ==
  ASSUME NEW s \in Seq(Cell), NEW t \in Seq(Cell)
  PROVE  /\ s \o t \in Seq(Cell)
         /\ Len(s \o t) = Len(s) + Len(t)
         /\ \A i \in 1..(Len(s) + Len(t)) :
              (s \o t)[i] = IF i <= Len(s) THEN s[i] ELSE t[i - Len(s)]
  OBVIOUS

\* Writing b into a file s at n, which is no place behind its end, cell by cell.
LEMMA OverwrittenCells ==
  ASSUME NEW s \in Seq(Cell), NEW n \in Nat, n <= Len(s), NEW b \in Seq(Cell)
  PROVE  /\ Stream!Overwritten(s, n, b) \in Seq(Cell)
         /\ Len(Stream!Overwritten(s, n, b)) = Larger(Len(s), n + Len(b))
         /\ \A i \in 1..Larger(Len(s), n + Len(b)) :
              Stream!Overwritten(s, n, b)[i] = IF i - n \in 1..Len(b) THEN b[i - n] ELSE s[i]
  <1> DEFINE front == SubSeq(s, 1, n)
             back == SubSeq(s, n + Len(b) + 1, Len(s))
             l == Len(b)
             m == Len(s)
  <1>1. front \in Seq(Cell) /\ Len(front) = n /\ \A i \in 1..n : front[i] = s[i]
    OBVIOUS
  <1>2. /\ back \in Seq(Cell)
        /\ Len(back) = IF n + l < m THEN m - (n + l) ELSE 0
        /\ \A i \in 1..Len(back) : back[i] = s[n + l + i]
    OBVIOUS
  <1>3. l \in Nat /\ m \in Nat
    OBVIOUS
  <1>4. Stream!Overwritten(s, n, b) = (front \o b) \o back
    BY DEF Stream!Overwritten
  <1> HIDE DEF front, back
  <1> DEFINE head == front \o b
             all == head \o back
  <1>5. /\ head \in Seq(Cell)
        /\ Len(head) = n + l
        /\ \A i \in 1..(n + l) : head[i] = IF i <= n THEN front[i] ELSE b[i - n]
    BY <1>1, JoinedCells
  <1> HIDE DEF head
  <1>6. /\ all \in Seq(Cell)
        /\ Len(all) = n + l + Len(back)
        /\ \A i \in 1..(n + l + Len(back)) :
             all[i] = IF i <= n + l THEN head[i] ELSE back[i - (n + l)]
    <2>1. /\ all \in Seq(Cell)
          /\ Len(all) = Len(head) + Len(back)
          /\ \A i \in 1..(Len(head) + Len(back)) :
               all[i] = IF i <= Len(head) THEN head[i] ELSE back[i - Len(head)]
      BY <1>2, <1>5, JoinedCells
    <2> HIDE DEF all, l
    <2>2. QED
      BY <1>5, <2>1
  <1> HIDE DEF all, l, m
  <1>7. all \in Seq(Cell) /\ Len(all) = Larger(m, n + l)
    BY <1>2, <1>3, <1>6 DEF Larger
  <1>8. ASSUME NEW i \in 1..Larger(m, n + l)
        PROVE  all[i] = IF i - n \in 1..l THEN b[i - n] ELSE s[i]
    <2>1. i \in 1..(n + l + Len(back))
      BY <1>2, <1>3 DEF Larger
    <2>2. CASE i <= n + l
      BY <1>1, <1>3, <1>5, <1>6, <2>1, <2>2
    <2>3. CASE i > n + l
      <3>1. all[i] = back[i - (n + l)]
        BY <1>3, <1>6, <2>1, <2>3
      <3>2. i - (n + l) \in 1..Len(back)
        BY <1>2, <1>3, <2>1, <2>3
      <3>3. back[i - (n + l)] = s[n + l + (i - (n + l))]
        BY <1>2, <3>2
      <3>4. n + l + (i - (n + l)) = i /\ i - n \notin 1..l
        BY <1>3, <2>3
      <3>5. QED
        BY <3>1, <3>3, <3>4
    <2>4. QED
      BY <1>3, <2>2, <2>3
  <1>9. QED
    BY <1>4, <1>7, <1>8 DEF head, all, l, m

LEMMA SameState ==
  ASSUME UNCHANGED fields
  PROVE  UNCHANGED Stream!state
  BY DEF fields, Stream!state

LEMMA ThrowsSameState ==
  ASSUME NEW op, NEW arg, NEW err, Throws(op, arg, err)
  PROVE  call'.op = op /\ call'.arg = arg /\ call'.err = err /\ UNCHANGED Stream!state
  BY SameState, CallFields DEF Throws

LEMMA DisposedImplements ==
  ASSUME NEW op, NEW arg, op \notin {"open", "dispose", "flush"}, Disposed(op, arg)
  PROVE  Stream!Disposed
  <1>1. buf = Null /\ Throws(op, arg, "disposed")
    BY DEF Disposed
  <1>2. QED
    BY <1>1, ThrowsSameState DEF Stream!Disposed

\* resize refuses what does not fit the limit.
LEMMA WithinLimit ==
  ASSUME Inv, buf # Null, NEW n \in Nat
  PROVE  Stream!Within(n) <=> ~Refuses(n)
  <1>1. allocated \in Nat /\ resizeable \in BOOLEAN
    BY DEF Inv, TypeOK
  <1>2. CASE resizeable
    BY <1>2 DEF Stream!Within, Refuses
  <1>3. CASE ~resizeable
    BY <1>1, <1>3, NullAssumption DEF Stream!Within, Refuses
  <1>4. QED
    BY <1>2, <1>3

LEMMA OpenImplements ==
  ASSUME Inv, NEW n \in Nat, InitOwn(n)
  PROVE  ShortOfMemory \/ Stream!Next
  <1>1. call'.op = "open" /\ call'.arg = n
    BY CallFields DEF InitOwn
  <1>2. buf = Null /\ size' = n /\ position' = 0 /\ resizeable' = TRUE
    BY DEF InitOwn
  <1>3. CASE buf' = Null
    <2>1. CASE n > 0
      BY <1>1, <1>2, <1>3, <2>1 DEF ShortOfMemory
    <2>2. CASE n = 0
      BY <1>1, <1>2, <1>3, <2>2 DEF Stream!Next, Stream!OpenEmpty, Stream!state
    <2>3. QED
      BY <2>1, <2>2
  <1>4. CASE buf' # Null
    <2>1. buf' = [i \in 1..n |-> Uninit]
      BY <1>4, Zenon DEF InitOwn
    <2>2. buf' \in Seq(Cell) /\ Len(buf') = n
      BY <2>1 DEF Cell
    <2>3. Len(SubSeq(buf', 1, size')) = n
      BY <1>2, <2>2, FrontCells
    <2>4. QED
      BY <1>1, <1>2, <1>4, <2>3 DEF Stream!Next, Stream!Open
  <1>5. QED
    BY <1>3, <1>4

LEMMA OpenBufImplements ==
  ASSUME Inv, NEW b \in Seq(Byte), InitBuf(b)
  PROVE  Stream!Next
  <1>1. call'.op = "open" /\ call'.arg = Len(b)
    BY CallFields DEF InitBuf
  <1>2. buf = Null /\ buf' = b /\ size' = Len(b) /\ position' = 0 /\ allocated' = Len(b)
    BY DEF InitBuf
  <1>3. resizeable' = FALSE
    BY DEF InitBuf
  <1>4. b \in Seq(Byte \cup {Uninit}) /\ b \in Seq(Cell) /\ Len(b) \in Nat
    BY DEF Cell
  <1>5. buf' # Null
    BY <1>2, <1>4, NullAssumption
  <1>6. Len(SubSeq(buf', 1, size')) = Len(b)
    BY <1>2, <1>4, FrontCells
  <1>7. QED
    BY <1>1, <1>2, <1>3, <1>5, <1>6 DEF Stream!Next, Stream!Open

\* What a call that reaches n leaves behind when it has not run out of memory.
LEMMA GrownContent ==
  ASSUME Inv, buf # Null, NEW n \in Nat, NEW done \in BOOLEAN, Block(n, done) # Null,
         NEW s \in Seq(Cell), Len(s) = Len(Block(n, done))
  PROVE  /\ Extended(n) \in Nat /\ Extended(n) <= Len(s) /\ Extended(n) = Larger(Len(Content), n)
         /\ SubSeq(s, 1, Extended(n)) \in Seq(Cell)
         /\ Len(SubSeq(s, 1, Extended(n))) = Extended(n)
         /\ \A i \in 1..Extended(n) : SubSeq(s, 1, Extended(n))[i] = s[i]
  <1>1. Len(s) = NewSize(n) /\ NewSize(n) >= n /\ NewSize(n) >= allocated /\ NewSize(n) \in Nat
    BY BlockSize
  <1>2. Extended(n) \in Nat /\ Extended(n) <= Len(s) /\ Extended(n) = Larger(Len(Content), n)
    BY <1>1, ContentCells DEF Extended, Larger
  <1>3. QED
    BY <1>2, FrontCells

LEMMA WriteImplements ==
  ASSUME Inv, NEW b \in Seq(Byte), Write(b)
  PROVE  ShortOfMemory \/ Stream!Next
  <1> DEFINE end == position + Len(b)
  <1>1. b \in Seq(Cell) /\ Len(b) \in Nat
    BY DEF Cell
  <1>2. CASE Disposed("write", b)
    BY <1>2, DisposedImplements DEF Stream!Next
  <1>3. CASE buf # Null
    <2>1. position \in Nat /\ position <= Len(Content) /\ end \in Nat
      BY <1>1, <1>3, ContentCells
    <2> HIDE DEF end
    <2>2. CASE Refuses(end) /\ Throws("write", b, "notsup")
      <3>1. call'.op = "write" /\ call'.arg = b /\ call'.err = "notsup" /\ UNCHANGED Stream!state
        BY <2>2, ThrowsSameState
      <3>2. ~Stream!Within(end)
        BY <1>3, <2>1, <2>2, WithinLimit
      <3>3. QED
        BY <1>3, <3>1, <3>2 DEF Stream!Next, Stream!Write, end
    <2>3. CASE ~(Refuses(end) /\ Throws("write", b, "notsup"))
      <3>1. /\ ~Refuses(end)
            /\ allocated' = NewSize(end) /\ position' = end /\ size' = Extended(end)
            /\ resizeable' = resizeable
            /\ Returns("write", b, "none", 0)
        BY <1>3, <2>3, Zenon DEF Write, Disposed, end
      <3>2. PICK done \in AllocOutcome :
               /\ buf' = IF Block(end, done) = Null THEN Null
                         ELSE Copied(Block(end, done), position, b)
               /\ lost' = (lost \/ buf' = Null)
        BY <1>3, <2>3, Zenon DEF Write, Disposed, end
      <3>3. CASE buf' = Null
        BY <3>2, <3>3 DEF ShortOfMemory
      <3>4. CASE buf' # Null
        <4> DEFINE block == Block(end, done)
        <4>1. block # Null /\ buf' = Copied(block, position, b)
          BY <3>2, <3>4
        <4>2. done \in BOOLEAN
          BY AllocAssumption
        <4>3. block \in Seq(Cell) /\ Len(block) >= end /\ Len(block) >= allocated
          BY <1>3, <2>1, <4>1, <4>2, BlockSize
        <4>4. \A k \in 1..allocated : block[k] = buf[k]
          BY <1>3, <2>1, <4>1, <4>2, BlockKeeps
        <4>5. buf' \in Seq(Cell) /\ Len(buf') = Len(block)
          BY <2>1, <4>1, <4>3, CopiedLength
        <4>6. \A k \in 1..Len(block) :
                buf'[k] = IF k - position \in 1..Len(b) THEN b[k - position] ELSE block[k]
          BY <4>1 DEF Copied
        <4> DEFINE old == Stream!Overwritten(Content, position, b)
                   new == SubSeq(buf', 1, size')
                   n == Extended(end)
        <4>7. /\ n \in Nat /\ n <= Len(block) /\ n = Larger(Len(Content), end)
              /\ new \in Seq(Cell) /\ Len(new) = n
              /\ \A k \in 1..n : new[k] = buf'[k]
          BY <1>3, <2>1, <3>1, <4>1, <4>2, <4>5, GrownContent
        <4>8. /\ old \in Seq(Cell) /\ Len(old) = n
              /\ \A k \in 1..n :
                   old[k] = IF k - position \in 1..Len(b) THEN b[k - position] ELSE Content[k]
          <5>1. n = Larger(Len(Content), position + Len(b))
            BY <4>7 DEF end
          <5>2. Content \in Seq(Cell)
            BY <1>3, ContentCells
          <5> HIDE DEF n
          <5>3. QED
            BY <1>1, <2>1, <5>1, <5>2, OverwrittenCells
        <4> HIDE DEF block, old, new, n
        <4>9. ASSUME NEW k \in 1..n, k - position \notin 1..Len(b)
              PROVE  block[k] = Content[k]
          <5>1. /\ k \in 1..size /\ size <= allocated /\ allocated \in Nat /\ size \in Nat
                /\ Content[k] = buf[k]
            BY <1>1, <1>3, <2>1, <4>7, <4>9, ContentCells DEF Larger, end
          <5>2. QED
            BY <4>4, <5>1
        <4>10. \A k \in 1..n : new[k] = old[k]
          BY <4>6, <4>7, <4>8, <4>9, SMTT(60)
        <4>11. new = old
          BY <4>7, <4>8, <4>10, SameCells
        <4>12. Stream!Within(end)
          BY <1>3, <2>1, <3>1, WithinLimit
        <4>13. call'.op = "write" /\ call'.arg = b /\ call'.err = "none"
          BY <3>1, CallFields
        <4>14. UNCHANGED Limit
          <5>1. resizeable \/ allocated' = allocated
            BY <3>1, <2>1 DEF Refuses, NewSize, Inv, TypeOK
          <5>2. QED
            BY <1>3, <3>1, <3>4, <5>1 DEF Limit
        <4>15. Stream!Write
          BY <1>3, <3>1, <3>4, <4>11, <4>12, <4>13, <4>14
          DEF Stream!Write, Limit, Content, new, old, end
        <4>16. QED
          BY <4>15 DEF Stream!Next
      <3>5. QED
        BY <3>3, <3>4
    <2>4. QED
      BY <2>2, <2>3
  <1>4. QED
    BY <1>2, <1>3 DEF Write, Usable

\* A seek that the stream refuses.
LEMMA SeekRefused ==
  ASSUME Inv, buf # Null, NEW offset \in Int, NEW origin \in {"set", "cur", "end"},
         Throws("seek", <<offset, origin>>, "notsup"),
         \/ ~(Stream!Target(offset, origin) >= 0)
         \/ ~Stream!Within(Stream!Target(offset, origin))
         \/ origin = "end" /\ offset > 0
  PROVE  Stream!Next
  <1>1. /\ call'.op = "seek" /\ call'.arg = <<offset, origin>> /\ call'.err = "notsup"
        /\ UNCHANGED Stream!state
    BY ThrowsSameState
  <1>2. call'.arg[1] = offset /\ call'.arg[2] = origin
    BY <1>1
  <1>3. Stream!Seek
    BY <1>1, <1>2 DEF Stream!Seek
  <1>4. QED
    BY <1>3 DEF Stream!Next

\* A seek that leads to where the abstract stream says, over content that has only grown.
LEMMA SeekDone ==
  ASSUME Inv, buf # Null, NEW offset \in Int, NEW origin \in {"set", "cur", "end"},
         NEW to \in Nat, to = Stream!Target(offset, origin), Stream!Within(to),
         ~(origin = "end" /\ offset > 0),
         Returns("seek", <<offset, origin>>, "none", 0),
         buf' # Null, position' = to, UNCHANGED Limit,
         Content' \in Seq(Cell), Len(Content') = Larger(Len(Content), to),
         \A i \in 1..Len(Content) : Content'[i] = Content[i]
  PROVE  Stream!Next
  <1>1. call'.op = "seek" /\ call'.arg = <<offset, origin>> /\ call'.err = "none"
    BY CallFields
  <1>2. call'.arg[1] = offset /\ call'.arg[2] = origin
    BY <1>1
  <1> DEFINE old == Content
             new == Content'
             m == Len(Content)
  <1>3. old \in Seq(Cell) /\ m = Len(old) /\ m \in Nat
    BY ContentCells
  <1>4. new \in Seq(Cell) /\ Len(new) = Larger(m, to) /\ \A i \in 1..m : new[i] = old[i]
    OBVIOUS
  <1> HIDE DEF old, new, m
  <1>5. m <= Len(new) /\ Len(new) = IF to > m THEN to ELSE m
    BY <1>3, <1>4 DEF Larger
  <1>6. /\ SubSeq(new, 1, m) \in Seq(Cell)
        /\ Len(SubSeq(new, 1, m)) = m
        /\ \A i \in 1..m : SubSeq(new, 1, m)[i] = new[i]
    BY <1>3, <1>4, <1>5, FrontCells
  <1>7. SubSeq(new, 1, m) = old
    BY <1>3, <1>4, <1>6, SameCells
  <1>8. Len(Content') = IF to > Len(Content) THEN to ELSE Len(Content)
    BY <1>5 DEF new, m
  <1>9. SubSeq(Content', 1, Len(Content)) = Content
    BY <1>7 DEF new, old, m
  <1>10. Stream!Target(call'.arg[1], call'.arg[2]) = to /\ to >= 0
    BY <1>2
  <1>11. Place' = to /\ UNCHANGED <<buf # Null, Limit>>
    BY DEF Place
  <1>12. Stream!Seek
    BY <1>1, <1>2, <1>8, <1>9, <1>10, <1>11 DEF Stream!Seek, Content, Limit, Place
  <1>13. QED
    BY <1>12 DEF Stream!Next

LEMMA SeekForwardImplements ==
  ASSUME Inv, NEW offset \in Int, NEW origin \in {"set", "cur", "end"}, NEW to \in Nat,
         to = Stream!Target(offset, origin), ~(origin = "end" /\ offset > 0),
         SeekForward(<<offset, origin>>, to)
  PROVE  ShortOfMemory \/ Stream!Next
  <1> DEFINE arg == <<offset, origin>>
  <1>1. buf # Null
    BY DEF SeekForward, Usable
  <1>2. CASE Refuses(to) /\ Throws("seek", arg, "notsup")
    <2>1. ~Stream!Within(to)
      BY <1>1, <1>2, WithinLimit
    <2>2. QED
      BY <1>1, <1>2, <2>1, SeekRefused
  <1>3. CASE ~(Refuses(to) /\ Throws("seek", arg, "notsup"))
    <2>1. /\ ~Refuses(to)
          /\ allocated' = NewSize(to) /\ position' = to /\ size' = Extended(to)
          /\ resizeable' = resizeable
          /\ Returns("seek", arg, "none", 0)
      BY <1>3, Zenon DEF SeekForward
    <2>2. PICK done \in AllocOutcome :
             buf' = Block(to, done) /\ lost' = (lost \/ buf' = Null)
      BY <1>3, Zenon DEF SeekForward
    <2>3. CASE buf' = Null
      BY <2>2, <2>3 DEF ShortOfMemory
    <2>4. CASE buf' # Null
      <3>1. done \in BOOLEAN /\ Block(to, done) # Null
        BY <2>2, <2>4, AllocAssumption
      <3>2. buf' \in Seq(Cell) /\ Len(buf') = Len(Block(to, done))
        BY <1>1, <2>2, <3>1, BlockSize
      <3>3. Content' = SubSeq(buf', 1, Extended(to))
        BY <2>1, <2>4 DEF Content
      <3>4. /\ Content' \in Seq(Cell)
            /\ Extended(to) = Larger(Len(Content), to) /\ Len(Content') = Extended(to)
            /\ \A i \in 1..Extended(to) : Content'[i] = buf'[i]
        BY <1>1, <3>1, <3>2, <3>3, GrownContent
      <3>5. ASSUME NEW i \in 1..Len(Content)
            PROVE  Content'[i] = Content[i]
        <4>1. Len(Content) = size /\ size \in Nat /\ allocated \in Nat /\ size <= allocated
          BY <1>1, ContentCells
        <4>2. i \in 1..Extended(to) /\ i \in 1..allocated /\ i \in 1..size
          BY <3>4, <4>1 DEF Larger
        <4>3. Content'[i] = buf'[i] /\ Content[i] = buf[i]
          BY <1>1, <3>4, <4>2, ContentCells
        <4>4. buf'[i] = buf[i]
          BY <1>1, <2>2, <3>1, <4>2, BlockKeeps
        <4>5. QED
          BY <4>3, <4>4
      <3>6. UNCHANGED Limit
        <4>1. resizeable \/ allocated' = allocated
          BY <2>1 DEF Refuses, NewSize, Inv, TypeOK
        <4>2. QED
          BY <1>1, <2>1, <2>4, <4>1 DEF Limit
      <3>7. Stream!Within(to)
        BY <1>1, <2>1, WithinLimit
      <3>8. QED
        BY <1>1, <2>1, <2>4, <3>4, <3>5, <3>6, <3>7, SeekDone
    <2>5. QED
      BY <2>3, <2>4
  <1>4. QED
    BY <1>2, <1>3

LEMMA SeekBackImplements ==
  ASSUME Inv, NEW offset \in Int, NEW origin \in {"set", "cur", "end"}, offset <= 0,
         NEW from \in Nat, from <= size, from + offset = Stream!Target(offset, origin),
         SeekBack(<<offset, origin>>, from)
  PROVE  Stream!Next
  <1> DEFINE arg == <<offset, origin>>
             to == from + offset
  <1>1. buf # Null /\ arg[1] = offset
    BY DEF SeekBack, Usable
  <1>2. CASE -offset > from /\ Throws("seek", arg, "notsup")
    <2>1. ~(to >= 0)
      BY <1>2
    <2> HIDE DEF to
    <2>2. ~(Stream!Target(offset, origin) >= 0)
      BY <2>1 DEF to
    <2>3. QED
      BY <1>1, <1>2, <2>2, SeekRefused
  <1>3. CASE ~(-offset > from /\ Throws("seek", arg, "notsup"))
    <2>1. /\ ~(-offset > from) /\ position' = to
          /\ Returns("seek", arg, "none", 0)
          /\ UNCHANGED <<buf, allocated, size, resizeable>>
      BY <1>1, <1>3 DEF SeekBack
    <2>2. size \in Nat /\ allocated \in Nat /\ size <= allocated /\ Len(Content) = size
      BY <1>1, ContentCells
    <2>3. to \in Nat /\ to <= size /\ to <= allocated
      BY <2>1, <2>2
    <2>4. UNCHANGED Content /\ UNCHANGED Limit
      BY <2>1 DEF Content, Limit
    <2>5. Content' \in Seq(Cell) /\ Len(Content') = Larger(Len(Content), to)
      BY <1>1, <2>2, <2>3, <2>4, ContentCells DEF Larger
    <2>6. ~Refuses(to)
      BY <2>2, <2>3 DEF Refuses
    <2>7. to = Stream!Target(offset, origin) /\ ~(origin = "end" /\ offset > 0)
      OBVIOUS
    <2> HIDE DEF to
    <2>8. Stream!Within(to)
      BY <1>1, <2>3, <2>6, WithinLimit
    <2>9. QED
      BY <1>1, <2>1, <2>3, <2>4, <2>5, <2>7, <2>8, SeekDone
  <1>4. QED
    BY <1>2, <1>3

LEMMA SeekImplements ==
  ASSUME Inv, NEW offset \in Int, NEW origin \in {"set", "cur", "end"}, Seek(offset, origin)
  PROVE  ShortOfMemory \/ Stream!Next
  <1> DEFINE arg == <<offset, origin>>
  <1>1. CASE Disposed("seek", arg)
    BY <1>1, DisposedImplements DEF Stream!Next
  <1>2. CASE ~Disposed("seek", arg)
    <2>1. buf # Null
      BY <1>2 DEF Seek, SeekForward, SeekBack, Usable
    <2>2. /\ position \in Nat /\ size \in Nat /\ position <= size /\ Len(Content) = size
          /\ Content = SubSeq(buf, 1, size)
      BY <2>1, ContentCells
    <2>3. Stream!Target(offset, origin) =
            offset + (IF origin = "set" THEN 0 ELSE IF origin = "cur" THEN position ELSE size)
      BY <2>1, <2>2 DEF Stream!Target
    <2>4. CASE origin = "set"
      <3>1. CASE offset < 0
        <4>1. Throws("seek", arg, "notsup")
          BY <1>2, <2>4, <3>1 DEF Seek
        <4>2. ~(Stream!Target(offset, origin) >= 0)
          BY <2>3, <2>4, <3>1
        <4>3. QED
          BY <2>1, <4>1, <4>2, SeekRefused
      <3>2. CASE offset >= 0
        <4>1. SeekForward(arg, offset)
          BY <1>2, <2>4, <3>2 DEF Seek
        <4>2. offset \in Nat /\ offset = Stream!Target(offset, origin)
          BY <2>3, <2>4, <3>2
        <4>3. QED
          BY <2>4, <4>1, <4>2, SeekForwardImplements
      <3>3. QED
        BY <3>1, <3>2
    <2>5. CASE origin = "cur"
      <3>1. CASE offset < 0
        <4>1. SeekBack(arg, position)
          BY <1>2, <2>5, <3>1 DEF Seek
        <4>2. position + offset = Stream!Target(offset, origin) /\ offset <= 0
          BY <2>2, <2>3, <2>5, <3>1
        <4>3. QED
          BY <2>2, <4>1, <4>2, SeekBackImplements
      <3>2. CASE offset >= 0
        <4> DEFINE to == position + offset
        <4>1. SeekForward(arg, to)
          BY <1>2, <2>5, <3>2 DEF Seek
        <4>2. to \in Nat /\ to = Stream!Target(offset, origin)
          BY <2>2, <2>3, <2>5, <3>2
        <4> HIDE DEF to
        <4>3. QED
          BY <2>5, <4>1, <4>2, SeekForwardImplements
      <3>3. QED
        BY <3>1, <3>2
    <2>6. CASE origin = "end"
      <3>1. CASE offset > 0
        <4>1. Throws("seek", arg, "notsup")
          BY <1>2, <2>6, <3>1 DEF Seek
        <4>2. QED
          BY <2>1, <2>6, <3>1, <4>1, SeekRefused
      <3>2. CASE offset <= 0
        <4>1. SeekBack(arg, size)
          BY <1>2, <2>6, <3>2 DEF Seek
        <4>2. size + offset = Stream!Target(offset, origin) /\ size \in Nat /\ size <= size
          BY <2>2, <2>3, <2>6
        <4>3. QED
          BY <3>2, <4>1, <4>2, SeekBackImplements
      <3>3. QED
        BY <3>1, <3>2
    <2>7. QED
      BY <2>4, <2>5, <2>6
  <1>3. QED
    BY <1>1, <1>2

LEMMA ReadImplements ==
  ASSUME Inv, NEW n \in Nat, Read(n)
  PROVE  Stream!Next
  <1>1. CASE Disposed("read", n)
    BY <1>1, DisposedImplements DEF Stream!Next
  <1>2. CASE buf # Null
    <2>1. /\ position \in Nat /\ size \in Nat /\ position <= size /\ size <= Len(buf)
          /\ Len(Content) = size /\ Content \in Seq(Cell)
          /\ \A i \in 1..size : Content[i] = buf[i]
          /\ buf \in Seq(Cell)
      BY <1>2, ContentCells DEF Inv, TypeOK, InBounds
    <2>2. CASE size - position < n /\ Throws("read", n, "notsup")
      <3>1. call'.op = "read" /\ call'.arg = n /\ call'.err = "notsup" /\ UNCHANGED Stream!state
        BY <2>2, ThrowsSameState
      <3>2. ~(position + n <= Len(Content))
        BY <2>1, <2>2
      <3>3. Stream!Read
        BY <1>2, <3>1, <3>2 DEF Stream!Read, Content
      <3>4. QED
        BY <3>3 DEF Stream!Next
    <2>3. CASE ~(size - position < n /\ Throws("read", n, "notsup"))
      <3> DEFINE out == SubSeq(buf, position + 1, position + n)
      <3>1. /\ ~(size - position < n)
            /\ Returns("read", n, "none", out)
            /\ position' = position + n
            /\ UNCHANGED <<buf, allocated, size, resizeable>>
        BY <1>2, <2>3 DEF Read, Disposed
      <3>2. position + n <= size
        BY <2>1, <3>1
      <3>3. out \in Seq(Cell) /\ Len(out) = n /\ \A k \in 1..n : out[k] = buf[position + k]
        BY <2>1, <3>2, SMTT(60)
      <3> DEFINE same == SubSeq(Content, position + 1, position + n)
      <3>4. same \in Seq(Cell) /\ Len(same) = n /\ \A k \in 1..n : same[k] = Content[position + k]
        BY <2>1, <3>2
      <3>5. ASSUME NEW k \in 1..n PROVE out[k] = same[k]
        <4>1. position + k \in 1..size
          BY <2>1, <3>2
        <4>2. buf[position + k] = Content[position + k]
          BY <2>1, <4>1
        <4> HIDE DEF out, same
        <4>3. QED
          BY <3>3, <3>4, <4>2
      <3> HIDE DEF out, same
      <3>6. out = same
        BY <3>3, <3>4, <3>5, SameCells
      <3>7. call'.op = "read" /\ call'.arg = n /\ call'.err = "none" /\ call'.out = same
        BY <3>1, <3>6, CallFields
      <3>8. Stream!Read
        BY <1>2, <2>1, <3>1, <3>2, <3>7 DEF Stream!Read, Content, same
      <3>9. QED
        BY <3>8 DEF Stream!Next
    <2>4. QED
      BY <2>2, <2>3
  <1>3. QED
    BY <1>1, <1>2 DEF Read, Usable

LEMMA QueryImplements ==
  ASSUME Inv, NEW op \in {"position", "available"}, Query(op)
  PROVE  Stream!Next
  <1>1. CASE Disposed(op, 0)
    BY <1>1, DisposedImplements DEF Stream!Next
  <1>2. CASE ~Disposed(op, 0)
    <2>1. /\ buf # Null
          /\ Returns(op, 0, "none", IF op = "position" THEN position ELSE size - position)
          /\ UNCHANGED fields
      BY <1>2 DEF Query, Usable
    <2>2. Len(Content) = size /\ UNCHANGED Stream!state
      BY <2>1, ContentCells, SameState
    <2>3. Stream!Query
      BY <2>1, <2>2, CallFields, ZenonT(60) DEF Stream!Query, Content
    <2>4. QED
      BY <2>3 DEF Stream!Next
  <1>3. QED
    BY <1>1, <1>2

LEMMA EndImplements ==
  ASSUME Inv, Flush \/ Close \/ Dispose
  PROVE  Stream!Next
  <1>1. CASE Flush
    <2>1. call'.op = "flush" /\ call'.err = "none" /\ UNCHANGED Stream!state
      BY <1>1, CallFields, SameState DEF Flush
    <2>2. QED
      BY <2>1 DEF Stream!Next, Stream!Flush
  <1>2. CASE Disposed("close", 0)
    BY <1>2, DisposedImplements DEF Stream!Next
  <1>3. CASE Close /\ ~Disposed("close", 0)
    <2>1. call'.op = "close" /\ call'.err = "none" /\ buf # Null /\ buf' = Null
      BY <1>3, CallFields DEF Close, Usable
    <2>2. QED
      BY <2>1 DEF Stream!Next, Stream!Shut
  <1>4. CASE Dispose
    <2>1. call'.op = "dispose" /\ call'.err = "none" /\ buf' = Null
      BY <1>4, CallFields DEF Dispose
    <2>2. QED
      BY <2>1 DEF Stream!Next, Stream!Shut
  <1>5. QED
    BY <1>1, <1>2, <1>3, <1>4

\* Every call does to the content what ByteStream says, and fails exactly when it may, unless
\* the program has run out of memory.
LEMMA StepImplements ==
  ASSUME Inv, [Next]_vars
  PROVE  [ShortOfMemory \/ Stream!Next]_Stream!streamVars
  <1>1. ASSUME UNCHANGED vars PROVE UNCHANGED Stream!streamVars
    BY <1>1 DEF vars, Stream!streamVars
  <1>2. ASSUME Next PROVE ShortOfMemory \/ Stream!Next
    <2>1. CASE \E n \in 0..MaxBuffer : InitOwn(n)
      BY <2>1, Inputs, OpenImplements
    <2>2. CASE \E b \in Buffers : InitBuf(b)
      BY <2>2, Inputs, OpenBufImplements
    <2>3. CASE \E b \in Writes : Write(b)
      BY <2>3, Inputs, WriteImplements
    <2>4. CASE \E n \in 0..(MaxSize + 1) : Read(n)
      BY <2>4, Inputs, ReadImplements
    <2>5. CASE \E origin \in {"set", "cur", "end"}, offset \in -(MaxSize + 1)..MaxSize :
                 Seek(offset, origin)
      BY <2>5, Inputs, SeekImplements
    <2>6. CASE \E op \in {"position", "available"} : Query(op)
      BY <2>6, QueryImplements
    <2>7. CASE Flush \/ Close \/ Dispose
      BY <2>7, EndImplements
    <2>8. QED
      BY <1>2, <2>1, <2>2, <2>3, <2>4, <2>5, <2>6, <2>7 DEF Next
  <1>3. QED
    BY <1>1, <1>2

\* The block, its size and its position implement a file in memory.
THEOREM Refinement == Spec => ImplementsStream
  <1>1. Init => Stream!Init
    BY DEF Init, Stream!Init
  <1>2. QED
    BY <1>1, StepImplements, Invariance, PTL DEF Spec, ImplementsStream

=============================================================================
