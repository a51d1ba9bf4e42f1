--------------------------- MODULE NetStreamProofs ---------------------------
(***************************************************************************)
(* Proofs about NetStream for any timeout, window, faults and sizes.       *)
(***************************************************************************)
EXTENDS NetStream, SequenceTheorems, TLAPS

Ops == {"idle", "read", "write"}
PCs == {"idle", "loop", "late", "sleep"}
Calls == [op : Ops, pc : PCs, size : Nat, base : Nat, done : Nat, buf : Seq(Nat)]

\* The types of the variables: the bytes are numbers, a call has one of the two operations.
TypeInv ==
  /\ fd \in [Side -> {Connection, Zero}]
  /\ open \in [Side -> BOOLEAN]
  /\ wire \in [Side -> Seq(Nat)]
  /\ call \in [Side -> Calls]
  /\ elapsed \in [Side -> Nat]
  /\ written \in [Side -> Nat]
  /\ received \in [Side -> Seq(Nat)]
  /\ failed \in [Side -> SUBSET Ops]
  /\ silence \in [Side -> Nat]

\* What the locals of a call say: a write has been handed the last bytes written, and neither it
\* nor an idle side has anything in a read buffer.
CallInv ==
  \A s \in Side :
    /\ call[s].pc = "idle" <=> call[s].op = "idle"
    /\ call[s].op \in {"idle", "write"} => call[s].buf = <<>>
    /\ call[s].op = "write" =>
         /\ call[s].pc = "loop"
         /\ call[s].done <= call[s].size
         /\ call[s].base + call[s].size = written[s]

-----------------------------------------------------------------------------
\* Each side has one peer, which is the other side.
LEMMA Peers ==
  ASSUME NEW s \in Side
  PROVE  /\ Peer(s) \in Side /\ Peer(s) # s /\ Peer(Peer(s)) = s
         /\ \A u \in Side : u = s \/ u = Peer(s)
  <1>1. PICK a, b \in Side : a # b /\ Side = {a, b}
    BY SideAssumption
  <1>2. \A u \in Side : (\E t \in Side : t # u) /\ Peer(u) \in Side /\ Peer(u) # u
    BY <1>1 DEF Peer
  <1>3. QED
    BY <1>1, <1>2

LEMMA IdleIsCall == Idle \in Calls /\ Idle.op = "idle" /\ Idle.pc = "idle" /\ Idle.buf = <<>>
  BY DEF Idle, Calls, Ops, PCs

\* How many bytes a call may move is between one and what it still has to move.
LEMMA ChunkSize ==
  ASSUME NEW a \in Int, NEW b \in Int, NEW k \in 1..Lesser(a, b)
  PROVE  k \in Nat /\ 1 <= k /\ k <= a /\ k <= b
  BY DEF Lesser

\* A chunk is a sequence of numbers.
LEMMA ChunkType ==
  ASSUME TypeInv, NEW s \in Side, NEW k \in Nat
  PROVE  Chunk(s, k) \in Seq(Nat) /\ Len(Chunk(s, k)) = k
  <1>1. call[s].base \in Nat /\ call[s].done \in Nat
    BY DEF TypeInv, Calls
  <1>2. Chunk(s, k) \in [1..k -> Nat]
    BY <1>1 DEF Chunk
  <1>3. QED
    BY <1>2

\* The two halves of what is there when k bytes of it are taken.
LEMMA Halves ==
  ASSUME NEW q \in Seq(Nat), NEW k \in 1..Len(q)
  PROVE  /\ SubSeq(q, 1, k) \in Seq(Nat) /\ SubSeq(q, k + 1, Len(q)) \in Seq(Nat)
         /\ SubSeq(q, 1, k) \o SubSeq(q, k + 1, Len(q)) = q
  <1>1. Len(q) \in Nat /\ \A i \in 1..Len(q) : q[i] \in Nat
    BY LenProperties, ElementOfSeq
  <1>2. SubSeq(q, 1, k) \in Seq(Nat)
    BY <1>1, SubSeqProperties
  <1>3. SubSeq(q, k + 1, Len(q)) \in Seq(Nat)
    BY <1>1, SubSeqProperties
  <1>4. SubSeq(q, 1, k) \o SubSeq(q, k + 1, Len(q)) = SubSeq(q, 1, Len(q))
    BY <1>1, ConcatAdjacentSubSeq
  <1>5. QED
    BY <1>2, <1>3, <1>4, SubSeqFull

-----------------------------------------------------------------------------
LEMMA InitInv == Init => TypeInv /\ CallInv
  <1> SUFFICES ASSUME Init PROVE TypeInv /\ CallInv
    OBVIOUS
  <1>1. <<>> \in Seq(Nat)
    OBVIOUS
  <1>2. TypeInv
    BY <1>1, IdleIsCall DEF Init, TypeInv
  <1>3. CallInv
    BY IdleIsCall DEF Init, CallInv
  <1>4. QED
    BY <1>2, <1>3

\* Sequences of bytes may be joined in any grouping.
LEMMA Joined ==
  ASSUME NEW a \in Seq(Nat), NEW b \in Seq(Nat), NEW c \in Seq(Nat)
  PROVE  (a \o b) \o c = a \o (b \o c)
  BY ConcatAssociative, SMTT(60)

\* A clock goes on by a step, or stays at its last value.
LEMMA LaterType ==
  ASSUME NEW clock \in [Side -> Nat]
  PROVE  Later(clock) \in [Side -> Nat]
  <1>1. Timeout + 1 \in Nat
    BY NumberAssumption
  <1>2. QED
    BY <1>1 DEF Later, Lesser

\* A call that has moved some bytes, and its fields.
Advanced(c, n, b) == [c EXCEPT !.done = n, !.buf = b]

LEMMA AdvancedFields ==
  ASSUME NEW c \in Calls, NEW n \in Nat, NEW b \in Seq(Nat)
  PROVE  /\ Advanced(c, n, b) \in Calls
         /\ Advanced(c, n, b).op = c.op /\ Advanced(c, n, b).pc = c.pc
         /\ Advanced(c, n, b).size = c.size /\ Advanced(c, n, b).base = c.base
         /\ Advanced(c, n, b).done = n /\ Advanced(c, n, b).buf = b
  <1> DEFINE first == [c EXCEPT !.done = n]
  <1>1. first \in Calls
    BY DEF Calls
  <1>2. [first EXCEPT !.buf = b] \in Calls
    BY <1>1 DEF Calls
  <1>3. QED
    BY <1>1, <1>2 DEF Calls, Advanced

\* The end of a call leaves an idle side, and every other call as it is.
LEMMA ReturnInv ==
  ASSUME TypeInv, CallInv, NEW s \in Side, Return(s), written' = written
  PROVE  /\ call' \in [Side -> Calls] /\ elapsed' \in [Side -> Nat] /\ silence' \in [Side -> Nat]
         /\ CallInv'
  <1>1. call' = [call EXCEPT ![s] = Idle]
    BY DEF Return
  <1>2. call' \in [Side -> Calls]
    BY <1>1, IdleIsCall DEF TypeInv
  <1>3. elapsed' \in [Side -> Nat] /\ silence' \in [Side -> Nat]
    BY DEF Return, TypeInv
  <1>4. CallInv'
    BY <1>1, IdleIsCall DEF CallInv, TypeInv
  <1>5. QED
    BY <1>2, <1>3, <1>4

\* An iteration of a loop moves k bytes of its call, and nothing else of any call.
LEMMA ProgressCall ==
  ASSUME TypeInv, NEW s \in Side, NEW k \in Nat, NEW chunk \in Seq(Nat), Progress(s, k, chunk)
  PROVE  /\ call' \in [Side -> Calls]
         /\ call'[s].op = call[s].op /\ call'[s].pc = call[s].pc /\ call'[s].size = call[s].size
         /\ call'[s].base = call[s].base /\ call'[s].done = call[s].done + k
         /\ call'[s].buf = call[s].buf \o chunk
         /\ \A u \in Side \ {s} : call'[u] = call[u]
  <1> DEFINE next == Advanced(call[s], call[s].done + k, call[s].buf \o chunk)
  <1>1. /\ call[s] \in Calls
        /\ call[s].done \in Nat /\ call[s].size \in Nat /\ call[s].buf \in Seq(Nat)
    BY DEF TypeInv, Calls
  <1>2. call[s].done + k \in Nat /\ call[s].buf \o chunk \in Seq(Nat)
    BY <1>1, ConcatProperties
  <1>3. /\ next \in Calls
        /\ next.op = call[s].op /\ next.pc = call[s].pc /\ next.size = call[s].size
        /\ next.base = call[s].base
        /\ next.done = call[s].done + k /\ next.buf = call[s].buf \o chunk
    <2> DEFINE c == call[s]  n == call[s].done + k  b == call[s].buf \o chunk
    <2>1. c \in Calls /\ n \in Nat /\ b \in Seq(Nat)
      BY <1>1, <1>2
    <2> HIDE DEF c, n, b
    <2>2. /\ Advanced(c, n, b) \in Calls
          /\ Advanced(c, n, b).op = c.op /\ Advanced(c, n, b).pc = c.pc
          /\ Advanced(c, n, b).size = c.size /\ Advanced(c, n, b).base = c.base
          /\ Advanced(c, n, b).done = n /\ Advanced(c, n, b).buf = b
      BY <2>1, AdvancedFields
    <2>3. QED
      BY <2>2 DEF c, n, b
  <1>4. call' = [call EXCEPT ![s] = next]
    <2> DEFINE first == [call EXCEPT ![s].done = @ + k]
               middle == [call[s] EXCEPT !.done = @ + k]
    <2>1. first[s] = middle /\ first = [call EXCEPT ![s] = middle]
      BY DEF TypeInv
    <2>2. middle.buf = call[s].buf
      BY <1>1 DEF Calls
    <2>3. call' = [first EXCEPT ![s].buf = @ \o chunk]
      BY DEF Progress
    <2>4. call' = [first EXCEPT ![s] = [middle EXCEPT !.buf = call[s].buf \o chunk]]
      BY <2>1, <2>2, <2>3
    <2>5. [middle EXCEPT !.buf = call[s].buf \o chunk] = next
      BY DEF Advanced
    <2> HIDE DEF middle, next
    <2>6. QED
      BY <2>1, <2>4, <2>5
  <1>5. call' \in [Side -> Calls] /\ call'[s] = next /\ \A u \in Side \ {s} : call'[u] = call[u]
    BY <1>3, <1>4 DEF TypeInv
  <1>6. QED
    BY <1>3, <1>5

\* An iteration that moves k bytes of a call goes no further than its size.
LEMMA ProgressInv ==
  ASSUME TypeInv, CallInv, NEW s \in Side, NEW k \in Nat, NEW chunk \in Seq(Nat),
         Progress(s, k, chunk), written' = written, k <= call[s].size - call[s].done,
         call[s].op = "read" \/ (call[s].op = "write" /\ chunk = <<>>)
  PROVE  /\ call' \in [Side -> Calls] /\ elapsed' \in [Side -> Nat] /\ silence' \in [Side -> Nat]
         /\ CallInv'
  <1>1. call[s].done \in Nat /\ call[s].size \in Nat /\ call[s].buf \in Seq(Nat)
    BY DEF TypeInv, Calls
  <1>2. call[s].op = "write" => call'[s].buf = <<>> /\ call'[s].done <= call'[s].size
    BY <1>1, ProgressCall, ConcatEmptySeq DEF CallInv
  <1>3. CallInv'
    BY <1>2, ProgressCall, SMTT(60) DEF CallInv
  <1>4. elapsed' \in [Side -> Nat] /\ silence' \in [Side -> Nat]
    BY DEF Progress, TypeInv
  <1>5. QED
    BY <1>3, <1>4, ProgressCall

\* Moving between the places of a read's loop changes nothing else of its call.
LEMMA MoveInv ==
  ASSUME TypeInv, CallInv, NEW s \in Side, NEW pc \in PCs \ {"idle"}, call[s].op = "read",
         call' = [call EXCEPT ![s].pc = pc], written' = written
  PROVE  call' \in [Side -> Calls] /\ CallInv'
  <1> DEFINE next == [call[s] EXCEPT !.pc = pc]
  <1>1. call[s] \in Calls
    BY DEF TypeInv
  <1>2. /\ next \in Calls
        /\ next.op = call[s].op /\ next.pc = pc
    BY <1>1 DEF Calls
  <1>3. call' \in [Side -> Calls] /\ call'[s] = next /\ \A u \in Side \ {s} : call'[u] = call[u]
    BY <1>2 DEF TypeInv
  <1>4. CallInv'
    BY <1>2, <1>3 DEF CallInv, PCs
  <1>5. QED
    BY <1>3, <1>4

\* What an iteration that sends or receives does: it ends the call with an error, or it moves
\* one byte or more, or (a read only) it finds the end of the stream.
LEMMA SendCases ==
  ASSUME TypeInv, CallInv, NEW s \in Side, Send(s)
  PROVE  /\ call[s].op = "write"
         /\ \/ Throw(s)
            \/ /\ Connected(s)
               /\ \E k \in Nat :
                    /\ k >= 1 /\ k <= call[s].size - call[s].done
                    /\ wire' = [wire EXCEPT ![s] = @ \o Chunk(s, k)]
                    /\ Progress(s, k, <<>>)
               /\ UNCHANGED <<fd, open, written, received, failed>>
  <1>1. call[s].op = "write"
    BY DEF Send, Running
  <1>2. call[s].size - call[s].done \in Int /\ Window - Len(wire[s]) \in Int
    BY NumberAssumption DEF TypeInv, Calls
  <1>3. QED
    BY <1>1, <1>2, ChunkSize DEF Send

LEMMA RecvCases ==
  ASSUME TypeInv, CallInv, NEW s \in Side, Recv(s)
  PROVE  /\ call[s].op = "read"
         /\ \/ Throw(s)
            \/ /\ \E k \in 1..Len(wire[Peer(s)]) :
                    /\ k <= call[s].size - call[s].done
                    /\ wire' = [wire EXCEPT ![Peer(s)] =
                                  SubSeq(wire[Peer(s)], k + 1, Len(wire[Peer(s)]))]
                    /\ Progress(s, k, SubSeq(wire[Peer(s)], 1, k))
               /\ UNCHANGED <<fd, open, written, received, failed>>
            \/ /\ wire[Peer(s)] = <<>> /\ ~open[Peer(s)]
               /\ call' = [call EXCEPT ![s].pc = "late"]
               /\ UNCHANGED <<fd, open, wire, elapsed, written, received, failed, silence>>
  <1>1. call[s].op = "read"
    BY DEF Recv, Running
  <1>2. call[s].size - call[s].done \in Int /\ Len(wire[Peer(s)]) \in Nat
    BY Peers, SMTT(60) DEF TypeInv, Calls
  <1>3. \A k \in 1..Lesser(call[s].size - call[s].done, Len(wire[Peer(s)])) :
          k \in 1..Len(wire[Peer(s)]) /\ k <= call[s].size - call[s].done
    BY <1>2, ChunkSize
  <1>4. QED
    BY <1>1, <1>3 DEF Recv

LEMMA ThrowInv ==
  ASSUME TypeInv, CallInv, NEW s \in Side, Throw(s)
  PROVE  TypeInv' /\ CallInv'
  <1>1. failed' \in [Side -> SUBSET Ops]
    BY DEF Throw, TypeInv, Calls
  <1>2. QED
    BY <1>1, ReturnInv DEF Throw, TypeInv

LEMMA SendInv ==
  ASSUME TypeInv, CallInv, NEW s \in Side, Send(s)
  PROVE  TypeInv' /\ CallInv'
  <1>1. CASE Throw(s)
    BY <1>1, ThrowInv
  <1>2. CASE ~Throw(s)
    <2>1. PICK k \in Nat :
            /\ k <= call[s].size - call[s].done
            /\ wire' = [wire EXCEPT ![s] = @ \o Chunk(s, k)]
            /\ Progress(s, k, <<>>)
      BY <1>2, SendCases
    <2>2. UNCHANGED <<fd, open, written, received, failed>> /\ call[s].op = "write"
      BY <1>2, SendCases
    <2>3. wire' \in [Side -> Seq(Nat)]
      BY <2>1, ChunkType, ConcatProperties DEF TypeInv
    <2>4. <<>> \in Seq(Nat)
      OBVIOUS
    <2>5. QED
      BY <2>1, <2>2, <2>3, <2>4, ProgressInv DEF TypeInv
  <1>3. QED
    BY <1>1, <1>2

LEMMA RecvInv ==
  ASSUME TypeInv, CallInv, NEW s \in Side, Recv(s)
  PROVE  TypeInv' /\ CallInv'
  <1> DEFINE there == wire[Peer(s)]
  <1>1. there \in Seq(Nat) /\ call[s].op = "read"
    BY Peers, RecvCases DEF TypeInv
  <1>2. CASE Throw(s)
    BY <1>2, ThrowInv
  <1>3. ASSUME NEW k \in 1..Len(there), k <= call[s].size - call[s].done,
               wire' = [wire EXCEPT ![Peer(s)] = SubSeq(there, k + 1, Len(there))],
               Progress(s, k, SubSeq(there, 1, k)),
               UNCHANGED <<fd, open, written, received, failed>>
        PROVE  TypeInv' /\ CallInv'
    <2>1. k \in Nat /\ SubSeq(there, 1, k) \in Seq(Nat) /\ SubSeq(there, k + 1, Len(there)) \in Seq(Nat)
      BY <1>1, Halves
    <2>2. wire' \in [Side -> Seq(Nat)]
      BY <1>3, <2>1 DEF TypeInv
    <2>3. QED
      BY <1>1, <1>3, <2>1, <2>2, ProgressInv DEF TypeInv
  <1>4. CASE /\ call' = [call EXCEPT ![s].pc = "late"]
             /\ UNCHANGED <<fd, open, wire, elapsed, written, received, failed, silence>>
    BY <1>1, <1>4, MoveInv DEF TypeInv, PCs
  <1>5. QED
    BY <1>2, <1>3, <1>4, RecvCases

\* Only a read waits.
LEMMA WaitIsRead ==
  ASSUME TypeInv, CallInv, NEW s \in Side, call[s].pc \in {"late", "sleep"}
  PROVE  call[s].op = "read"
  BY DEF TypeInv, CallInv, Calls, Ops

LEMMA FinishInv ==
  ASSUME TypeInv, CallInv, NEW s \in Side, Finish(s)
  PROVE  TypeInv' /\ CallInv'
  <1>1. received[s] \o call[s].buf \in Seq(Nat)
    BY ConcatProperties DEF TypeInv, Calls
  <1>2. received' \in [Side -> Seq(Nat)]
    BY <1>1 DEF Finish, TypeInv
  <1>3. QED
    BY <1>2, ReturnInv DEF Finish, TypeInv

LEMMA LateTestInv ==
  ASSUME TypeInv, CallInv, NEW s \in Side, LateTest(s)
  PROVE  TypeInv' /\ CallInv'
  <1>1. CASE Throw(s)
    BY <1>1, ThrowInv
  <1>2. CASE ~Throw(s)
    <2>1. /\ call' = [call EXCEPT ![s].pc = "sleep"]
          /\ UNCHANGED <<fd, open, wire, elapsed, written, received, failed, silence>>
          /\ call[s].op = "read"
      BY <1>2, WaitIsRead DEF LateTest
    <2>2. call' \in [Side -> Calls] /\ CallInv'
      BY <2>1, MoveInv DEF PCs
    <2>3. QED
      BY <2>1, <2>2 DEF TypeInv
  <1>3. QED
    BY <1>1, <1>2

LEMMA SleepInv ==
  ASSUME TypeInv, CallInv, NEW s \in Side, Sleep(s)
  PROVE  TypeInv' /\ CallInv'
  <1>1. call' \in [Side -> Calls] /\ CallInv'
    BY MoveInv, WaitIsRead DEF Sleep, PCs
  <1>2. elapsed' \in [Side -> Nat] /\ silence' \in [Side -> Nat]
    BY LaterType DEF Sleep, TypeInv
  <1>3. QED
    BY <1>1, <1>2 DEF Sleep, TypeInv

\* The record of a call that begins.
Begun(op, n, from) == [op |-> op, pc |-> "loop", size |-> n, base |-> from, done |-> 0, buf |-> <<>>]

LEMMA EnterInv ==
  ASSUME TypeInv, CallInv, NEW s \in Side, NEW op \in {"read", "write"}, NEW n \in Nat,
         Enter(s, op, n)
  PROVE  TypeInv' /\ CallInv'
  <1> DEFINE next == Begun(op, n, written[s])
  <1>1. /\ next \in Calls
        /\ next.op = op /\ next.pc = "loop" /\ next.buf = <<>> /\ next.done = 0
        /\ next.size = n /\ next.base = written[s]
    BY DEF Begun, Calls, Ops, PCs, TypeInv
  <1>2. call' = [call EXCEPT ![s] = next]
    BY DEF Enter, Begun
  <1> HIDE DEF next
  <1>3. call' \in [Side -> Calls] /\ call'[s] = next /\ \A u \in Side \ {s} : call'[u] = call[u]
    BY <1>1, <1>2 DEF TypeInv
  <1>4. /\ written' \in [Side -> Nat]
        /\ op = "write" => written'[s] = written[s] + n
        /\ \A u \in Side \ {s} : written'[u] = written[u]
    BY DEF Enter, TypeInv
  <1>5. CallInv'
    <2>1. written[s] \in Nat
      BY DEF TypeInv
    <2>2. next.op = "write" => next.done <= next.size /\ next.base + next.size = written'[s]
      BY <1>1, <1>4, <2>1
    <2>3. QED
      BY <1>1, <1>3, <1>4, <2>2 DEF CallInv
  <1>6. QED
    BY <1>3, <1>4, <1>5 DEF Enter, TypeInv

\* The types and the calls are an inductive invariant.
LEMMA NextInv ==
  ASSUME TypeInv, CallInv, [Next]_vars
  PROVE  TypeInv' /\ CallInv'
  <1>1. CASE Tick
    BY <1>1, LaterType DEF Tick, TypeInv, CallInv
  <1>2. ASSUME NEW s \in Side, Step(s)
        PROVE  TypeInv' /\ CallInv'
    BY <1>2, FinishInv, SendInv, RecvInv, LateTestInv, SleepInv DEF Step
  <1>3. ASSUME NEW s \in Side, Close(s)
        PROVE  TypeInv' /\ CallInv'
    <2>1. fd' \in [Side -> {Connection, Zero}] /\ open' \in [Side -> BOOLEAN]
      BY <1>3 DEF Close, TypeInv
    <2>2. QED
      BY <1>3, <2>1 DEF Close, TypeInv, CallInv
  <1>4. ASSUME NEW s \in Side, NEW n \in 0..MaxCall, Enter(s, "read", n) \/ Enter(s, "write", n)
        PROVE  TypeInv' /\ CallInv'
    BY <1>4, NumberAssumption, EnterInv
  <1>5. CASE UNCHANGED vars
    BY <1>5 DEF vars, TypeInv, CallInv
  <1>6. QED
    BY <1>1, <1>2, <1>3, <1>4, <1>5 DEF Next

\* Every variable keeps its type, and the locals of every call agree with what its side has
\* written.
THEOREM TypeCorrect == Spec => [](TypeInv /\ CallInv)
  <1>1. Init => TypeInv /\ CallInv
    BY InitInv
  <1>2. TypeInv /\ CallInv /\ [Next]_vars => (TypeInv /\ CallInv)'
    BY NextInv
  <1>3. QED
    BY <1>1, <1>2, PTL DEF Spec

-----------------------------------------------------------------------------
\* What one step may do to the bytes on their way to side u: nothing; or the network takes the
\* next bytes of its peer; or a read of u fails, and the bytes in its buffer are gone; or a write
\* of its peer fails, and the bytes it had left never come.
Keeps(u) == Stream(u)' = Stream(u) /\ Taken(Peer(u))' = Taken(Peer(u))
Grows(u) ==
  \E k \in Nat :
    /\ Stream(u)' = Stream(u) \o [i \in 1..k |-> Taken(Peer(u)) + i]
    /\ Taken(Peer(u))' = Taken(Peer(u)) + k
Drops(u) ==
  /\ \E a, b, c \in Seq(Nat) : Stream(u) = (a \o b) \o c /\ Stream(u)' = a \o c
  /\ Taken(Peer(u))' = Taken(Peer(u))
  /\ "read" \in failed'[u]
Skips(u) ==
  /\ Stream(u)' = Stream(u)
  /\ Taken(Peer(u))' >= Taken(Peer(u))
  /\ "write" \in failed'[Peer(u)]

StreamStep == \A u \in Side : failed[u] \subseteq failed'[u] /\ (Keeps(u) \/ Grows(u) \/ Drops(u) \/ Skips(u))

\* The parts of a stream are sequences of numbers, and what is taken is a number.
LEMMA Parts ==
  ASSUME TypeInv, NEW u \in Side
  PROVE  /\ received[u] \in Seq(Nat) /\ call[u].buf \in Seq(Nat) /\ wire[Peer(u)] \in Seq(Nat)
         /\ Stream(u) \in Seq(Nat) /\ Taken(u) \in Nat
         /\ call[u].op \in Ops
  <1>1. received[u] \in Seq(Nat) /\ call[u].buf \in Seq(Nat) /\ wire[Peer(u)] \in Seq(Nat)
    BY Peers DEF TypeInv, Calls
  <1>2. received[u] \o call[u].buf \in Seq(Nat)
    BY <1>1, ConcatProperties
  <1>3. Stream(u) \in Seq(Nat)
    BY <1>1, <1>2, ConcatProperties DEF Stream
  <1>4. Taken(u) \in Nat /\ call[u].op \in Ops
    BY DEF Taken, TypeInv, Calls
  <1>5. QED
    BY <1>1, <1>3, <1>4

\* A step that touches neither side's bytes keeps both streams.
LEMMA KeepsAll ==
  ASSUME TypeInv, UNCHANGED <<wire, received, failed>>,
         \A u \in Side : call'[u].buf = call[u].buf /\ Taken(u)' = Taken(u)
  PROVE  StreamStep
  BY Peers DEF StreamStep, Keeps, Stream

LEMMA ThrowStream ==
  ASSUME TypeInv, CallInv, NEW s \in Side, Throw(s)
  PROVE  StreamStep
  <1>1. /\ call' = [call EXCEPT ![s] = Idle]
        /\ failed' = [failed EXCEPT ![s] = @ \cup {call[s].op}]
        /\ UNCHANGED <<wire, written, received>>
    BY DEF Throw, Return
  <1>2. /\ call'[s] = Idle /\ \A u \in Side \ {s} : call'[u] = call[u]
        /\ call[s].op \in failed'[s] /\ \A u \in Side : failed[u] \subseteq failed'[u]
    BY <1>1 DEF TypeInv
  <1>3. Stream(s)' = received[s] \o wire[Peer(s)]
    <2>1. received[s] \o <<>> = received[s]
      BY Parts, ConcatEmptySeq
    <2>2. call'[s].buf = <<>> /\ received' = received /\ wire' = wire
      BY <1>1, <1>2, IdleIsCall
    <2>3. QED
      BY <2>1, <2>2 DEF Stream
  <1>4. Stream(Peer(s))' = Stream(Peer(s))
    BY <1>1, <1>2, Peers DEF Stream
  <1>5. Taken(Peer(s))' = Taken(Peer(s))
    BY <1>1, <1>2, Peers DEF Taken
  <1>6. Taken(s)' = written[s]
    BY <1>1, <1>2, IdleIsCall DEF Taken
  <1>7. CASE call[s].op = "read"
    <2>1. Drops(s)
      BY <1>2, <1>3, <1>5, <1>7, Parts DEF Drops, Stream
    <2>2. Keeps(Peer(s))
      BY <1>4, <1>6, <1>7, Peers DEF Keeps, Taken
    <2>3. QED
      BY <1>2, <2>1, <2>2, Peers DEF StreamStep
  <1>8. CASE call[s].op = "write"
    <2>1. call[s].buf = <<>> /\ call[s].base + call[s].done <= written[s]
      BY <1>8 DEF CallInv, TypeInv, Calls
    <2>2. Keeps(s)
      BY <1>3, <1>5, <2>1, Parts, ConcatEmptySeq DEF Keeps, Stream
    <2>3. Skips(Peer(s))
      BY <1>2, <1>4, <1>6, <1>8, <2>1, Parts, Peers DEF Skips, Taken
    <2>4. QED
      BY <1>2, <2>2, <2>3, Peers DEF StreamStep
  <1>9. CASE call[s].op = "idle"
    <2>1. call[s].buf = <<>>
      BY <1>9 DEF CallInv
    <2>2. Keeps(s)
      BY <1>3, <1>5, <2>1, Parts, ConcatEmptySeq DEF Keeps, Stream
    <2>3. Keeps(Peer(s))
      BY <1>4, <1>6, <1>9, Peers DEF Keeps, Taken
    <2>4. QED
      BY <1>2, <2>2, <2>3, Peers DEF StreamStep
  <1>10. QED
    BY <1>7, <1>8, <1>9, Parts DEF Ops

\* A whole read hands over its buffer; a whole write has nothing left.
LEMMA FinishStream ==
  ASSUME TypeInv, CallInv, NEW s \in Side, Finish(s)
  PROVE  StreamStep
  <1>1. /\ call' = [call EXCEPT ![s] = Idle]
        /\ received' = [received EXCEPT ![s] = @ \o call[s].buf]
        /\ UNCHANGED <<wire, written, failed>>
        /\ call[s].pc = "loop" /\ call[s].done = call[s].size
    BY DEF Finish, Return
  <1>2. /\ call'[s] = Idle /\ \A u \in Side \ {s} : call'[u] = call[u] /\ received'[u] = received[u]
        /\ received'[s] = received[s] \o call[s].buf
    BY <1>1 DEF TypeInv
  <1>3. received[s] \o call[s].buf \in Seq(Nat)
    BY Parts, ConcatProperties
  <1>4. Stream(s)' = Stream(s)
    <2>1. (received[s] \o call[s].buf) \o <<>> = received[s] \o call[s].buf
      BY <1>3, ConcatEmptySeq
    <2>2. call'[s].buf = <<>> /\ wire' = wire
      BY <1>1, <1>2, IdleIsCall
    <2>3. QED
      BY <1>2, <2>1, <2>2 DEF Stream
  <1>5. Stream(Peer(s))' = Stream(Peer(s)) /\ Taken(Peer(s))' = Taken(Peer(s))
    <2>1. call'[Peer(s)] = call[Peer(s)] /\ received'[Peer(s)] = received[Peer(s)]
      BY <1>2, Peers
    <2>2. wire' = wire /\ written' = written
      BY <1>1
    <2>3. Stream(Peer(s))' = Stream(Peer(s))
      BY <2>1, <2>2 DEF Stream
    <2>4. QED
      BY <2>1, <2>2, <2>3 DEF Taken
  <1>6. Taken(s)' = Taken(s)
    BY <1>1, <1>2, IdleIsCall DEF Taken, CallInv
  <1>7. QED
    BY <1>1, <1>4, <1>5, <1>6, Peers DEF StreamStep, Keeps

LEMMA SendStream ==
  ASSUME TypeInv, CallInv, NEW s \in Side, Send(s)
  PROVE  StreamStep
  <1>1. CASE Throw(s)
    BY <1>1, ThrowStream
  <1>2. CASE ~Throw(s)
    <2>1. PICK k \in Nat : wire' = [wire EXCEPT ![s] = @ \o Chunk(s, k)] /\ Progress(s, k, <<>>)
      BY <1>2, SendCases
    <2>2. UNCHANGED <<written, received, failed>> /\ call[s].op = "write"
      BY <1>2, SendCases
    <2>3. /\ wire'[s] = wire[s] \o Chunk(s, k) /\ wire'[Peer(s)] = wire[Peer(s)]
          /\ wire[s] \in Seq(Nat) /\ Chunk(s, k) \in Seq(Nat)
      BY <2>1, ChunkType, Peers DEF TypeInv
    <2>4. /\ call'[s].op = "write" /\ call'[s].base = call[s].base
          /\ call'[s].done = call[s].done + k /\ call'[s].buf = call[s].buf \o <<>>
          /\ call'[Peer(s)] = call[Peer(s)]
      <3>1. <<>> \in Seq(Nat)
        OBVIOUS
      <3>2. QED
        BY <2>1, <2>2, <3>1, ProgressCall, Peers
    <2>5. Keeps(s)
      <3>1. call'[s].buf = call[s].buf
        BY <2>4, Parts, ConcatEmptySeq
      <3>2. QED
        BY <2>2, <2>3, <2>4, <3>1 DEF Keeps, Stream, Taken
    <2>6. Grows(Peer(s))
      <3> DEFINE p == Peer(s)
                 before == received[p] \o call[p].buf
      <3>1. p \in Side /\ Peer(p) = s
        BY Peers
      <3>2. before \in Seq(Nat)
        BY <3>1, Parts, ConcatProperties
      <3>3. Stream(p)' = before \o (wire[s] \o Chunk(s, k)) /\ Stream(p) = before \o wire[s]
        BY <2>2, <2>3, <2>4, <3>1 DEF Stream
      <3>4. Stream(p)' = Stream(p) \o Chunk(s, k)
        <4>1. before \o (wire[s] \o Chunk(s, k)) = (before \o wire[s]) \o Chunk(s, k)
          <5> HIDE DEF before
          <5>1. QED
            BY <2>3, <3>2, Joined
        <4>2. QED
          BY <3>3, <4>1
      <3>5. Taken(s) = call[s].base + call[s].done /\ call[s].base \in Nat /\ call[s].done \in Nat
        BY <2>2 DEF Taken, TypeInv, Calls
      <3>6. Taken(s)' = Taken(s) + k
        BY <2>4, <3>5 DEF Taken
      <3>7. Chunk(s, k) = [i \in 1..k |-> Taken(s) + i]
        BY <3>5 DEF Chunk
      <3> HIDE DEF p
      <3>8. QED
        BY <3>1, <3>4, <3>6, <3>7 DEF Grows, p
    <2>7. QED
      BY <2>2, <2>5, <2>6, Peers DEF StreamStep
  <1>3. QED
    BY <1>1, <1>2

LEMMA RecvStream ==
  ASSUME TypeInv, CallInv, NEW s \in Side, Recv(s)
  PROVE  StreamStep
  <1> DEFINE there == wire[Peer(s)]
             rest(k) == SubSeq(there, k + 1, Len(there))
  <1>1. there \in Seq(Nat) /\ call[s].op = "read"
    BY Peers, RecvCases DEF TypeInv
  <1>2. CASE Throw(s)
    BY <1>2, ThrowStream
  <1>3. ASSUME NEW k \in 1..Len(there),
               wire' = [wire EXCEPT ![Peer(s)] = rest(k)],
               Progress(s, k, SubSeq(there, 1, k)),
               UNCHANGED <<fd, open, written, received, failed>>
        PROVE  StreamStep
    <2> DEFINE part == SubSeq(there, 1, k)
               buf == call[s].buf
    <2>1. k \in Nat /\ part \in Seq(Nat) /\ rest(k) \in Seq(Nat) /\ part \o rest(k) = there
      BY <1>1, Halves
    <2>2. /\ call'[s].op = "read" /\ call'[s].buf = buf \o part
          /\ call'[Peer(s)] = call[Peer(s)]
      <3> HIDE DEF buf, part
      <3>1. Progress(s, k, part)
        BY <1>3 DEF part
      <3>2. PICK p \in Seq(Nat) : p = part
        BY <2>1
      <3>3. Progress(s, k, p)
        BY <3>1, <3>2, Zenon
      <3>4. /\ call'[s].op = call[s].op /\ call'[s].buf = call[s].buf \o p
            /\ \A u \in Side \ {s} : call'[u] = call[u]
        BY <2>1, <3>3, ProgressCall, Zenon
      <3>5. Peer(s) \in Side \ {s}
        BY Peers
      <3>6. QED
        BY <1>1, <3>2, <3>4, <3>5, Zenon DEF buf
    <2>3. wire'[Peer(s)] = rest(k) /\ wire'[s] = wire[s]
      BY <1>3, Peers DEF TypeInv
    <2>4. Stream(s)' = Stream(s)
      <3>1. received[s] \in Seq(Nat) /\ buf \in Seq(Nat)
        BY Parts
      <3>2. received[s] \o buf \in Seq(Nat)
        BY <3>1, ConcatProperties
      <3>3. Stream(s)' = (received[s] \o (buf \o part)) \o rest(k)
        BY <1>3, <2>2, <2>3 DEF Stream
      <3>4. Stream(s) = (received[s] \o buf) \o (part \o rest(k))
        BY <2>1 DEF Stream
      <3> HIDE DEF part, rest, buf
      <3>5. received[s] \o (buf \o part) = (received[s] \o buf) \o part
        BY <2>1, <3>1, Joined
      <3>6. ((received[s] \o buf) \o part) \o rest(k) = (received[s] \o buf) \o (part \o rest(k))
        BY <2>1, <3>2, Joined
      <3>7. QED
        BY <3>3, <3>4, <3>5, <3>6
    <2>5. Taken(s)' = Taken(s) /\ Taken(Peer(s))' = Taken(Peer(s))
      BY <1>1, <1>3, <2>2 DEF Taken
    <2>6. Stream(Peer(s))' = Stream(Peer(s))
      BY <1>3, <2>2, <2>3, Peers DEF Stream
    <2>7. QED
      BY <1>3, <2>4, <2>5, <2>6, Peers DEF StreamStep, Keeps
  <1>4. CASE /\ call' = [call EXCEPT ![s].pc = "late"]
             /\ UNCHANGED <<fd, open, wire, elapsed, written, received, failed, silence>>
    BY <1>1, <1>4, KeepsAll DEF Taken, TypeInv, Calls
  <1>5. QED
    BY <1>2, <1>3, <1>4, RecvCases

LEMMA EnterStream ==
  ASSUME TypeInv, CallInv, NEW s \in Side, NEW op \in {"read", "write"}, NEW n \in Nat,
         Enter(s, op, n)
  PROVE  StreamStep
  <1>1. /\ call[s] = Idle /\ call' = [call EXCEPT ![s] = Begun(op, n, written[s])]
        /\ written' = [written EXCEPT ![s] = IF op = "write" THEN @ + n ELSE @]
        /\ UNCHANGED <<wire, received, failed>>
    BY DEF Enter, Begun
  <1>2. /\ call'[s].op = op /\ call'[s].base = written[s] /\ call'[s].done = 0 /\ call'[s].buf = <<>>
        /\ \A u \in Side \ {s} : call'[u] = call[u] /\ written'[u] = written[u]
        /\ written'[s] = IF op = "write" THEN written[s] + n ELSE written[s]
    BY <1>1 DEF Begun, TypeInv
  <1>3. Taken(s)' = Taken(s)
    <2>1. Taken(s) = written[s] /\ written[s] \in Nat
      BY <1>1, IdleIsCall DEF Taken, TypeInv
    <2>2. QED
      BY <1>2, <2>1 DEF Taken
  <1>4. \A u \in Side : call'[u].buf = call[u].buf /\ Taken(u)' = Taken(u)
    <2>1. call[s].buf = <<>>
      BY <1>1, IdleIsCall
    <2>2. QED
      BY <1>2, <1>3, <2>1 DEF Taken
  <1>5. QED
    BY <1>1, <1>4, KeepsAll

\* A read that waits keeps the bytes of every call.
LEMMA WaitStream ==
  ASSUME TypeInv, CallInv, NEW s \in Side, NEW pc, call[s].op = "read",
         call' = [call EXCEPT ![s].pc = pc], UNCHANGED <<wire, written, received, failed>>
  PROVE  StreamStep
  <1>1. \A u \in Side : /\ call'[u].op = call[u].op /\ call'[u].base = call[u].base
                        /\ call'[u].done = call[u].done /\ call'[u].buf = call[u].buf
    BY DEF TypeInv, Calls
  <1>2. QED
    BY <1>1, KeepsAll DEF Taken

LEMMA StreamNext ==
  ASSUME TypeInv, CallInv, [Next]_vars
  PROVE  StreamStep
  <1>1. CASE Tick
    BY <1>1, KeepsAll DEF Tick, Taken
  <1>2. ASSUME NEW s \in Side, Step(s)
        PROVE  StreamStep
    <2>1. CASE LateTest(s)
      BY <2>1, ThrowStream, WaitStream, WaitIsRead DEF LateTest
    <2>2. CASE Sleep(s)
      BY <2>2, WaitStream, WaitIsRead DEF Sleep
    <2>3. QED
      BY <1>2, <2>1, <2>2, FinishStream, SendStream, RecvStream DEF Step
  <1>3. ASSUME NEW s \in Side, Close(s)
        PROVE  StreamStep
    BY <1>3, KeepsAll DEF Close, Taken
  <1>4. ASSUME NEW s \in Side, NEW n \in 0..MaxCall, Enter(s, "read", n) \/ Enter(s, "write", n)
        PROVE  StreamStep
    BY <1>4, NumberAssumption, EnterStream
  <1>5. CASE UNCHANGED vars
    BY <1>5, KeepsAll DEF vars, Taken
  <1>6. QED
    BY <1>1, <1>2, <1>3, <1>4, <1>5 DEF Next

-----------------------------------------------------------------------------
\* Bytes in the order in which they were written, none above n; and the first n, all of them.
Increasing(q, n) ==
  /\ \A i, j \in 1..Len(q) : i < j => q[i] < q[j]
  /\ \A i \in 1..Len(q) : q[i] <= n
First(n) == [i \in 1..n |-> i]

\* What is dropped out of the middle leaves an order.
LEMMA DropKeepsOrder ==
  ASSUME NEW a \in Seq(Nat), NEW b \in Seq(Nat), NEW c \in Seq(Nat), NEW n \in Nat,
         Increasing((a \o b) \o c, n)
  PROVE  Increasing(a \o c, n)
  <1> DEFINE q == (a \o b) \o c
             r == a \o c
             at(i) == IF i <= Len(a) THEN i ELSE i + Len(b)
  <1>1. Len(a) \in Nat /\ Len(b) \in Nat /\ Len(c) \in Nat
    OBVIOUS
  <1>2. /\ a \o b \in Seq(Nat) /\ Len(a \o b) = Len(a) + Len(b)
        /\ \A i \in 1..Len(a) : (a \o b)[i] = a[i]
    BY <1>1, ConcatProperties
  <1>3. /\ Len(q) = Len(a) + Len(b) + Len(c)
        /\ \A i \in 1..Len(a) : q[i] = a[i]
        /\ \A i \in 1..Len(c) : q[Len(a) + Len(b) + i] = c[i]
    BY <1>1, <1>2, ConcatProperties, SMTT(60)
  <1>4. /\ r \in Seq(Nat) /\ Len(r) = Len(a) + Len(c)
        /\ \A i \in 1..Len(r) : r[i] = IF i <= Len(a) THEN a[i] ELSE c[i - Len(a)]
    BY <1>1, ConcatProperties
  <1>5. \A i \in 1..Len(r) : at(i) \in 1..Len(q) /\ r[i] = q[at(i)]
    BY <1>1, <1>3, <1>4, SMTT(60)
  <1>6. \A i, j \in 1..Len(r) : i < j => at(i) < at(j)
    BY <1>1, <1>4
  <1> HIDE DEF q, r, at
  <1>7. Increasing(q, n)
    BY DEF q
  <1>8. Increasing(r, n)
    BY <1>5, <1>6, <1>7 DEF Increasing
  <1>9. QED
    BY <1>8 DEF r

\* The next k bytes go behind those that are in order, and behind the first n come the next k.
LEMMA GrowKeepsOrder ==
  ASSUME NEW q \in Seq(Nat), NEW n \in Nat, NEW k \in Nat, NEW next,
         next = [i \in 1..k |-> n + i], Increasing(q, n)
  PROVE  /\ Increasing(q \o next, n + k)
         /\ q = First(n) => q \o next = First(n + k)
  <1>1. next \in Seq(Nat) /\ Len(next) = k
    <2>1. next \in [1..k -> Nat]
      OBVIOUS
    <2>2. QED
      BY <2>1
  <1>2. Len(q) \in Nat /\ \A i \in 1..Len(q) : q[i] \in Nat
    BY ElementOfSeq
  <1>3. /\ q \o next \in Seq(Nat) /\ Len(q \o next) = Len(q) + k
        /\ \A i \in 1..(Len(q) + k) : (q \o next)[i] = IF i <= Len(q) THEN q[i] ELSE next[i - Len(q)]
    BY <1>1, <1>2, ConcatProperties
  <1>4. \A i \in 1..(Len(q) + k) :
          (q \o next)[i] = IF i <= Len(q) THEN q[i] ELSE n + (i - Len(q))
    BY <1>2, <1>3
  <1>5. Increasing(q \o next, n + k)
    <2> DEFINE r == q \o next
    <2>1. Len(r) = Len(q) + k /\ \A i \in 1..(Len(q) + k) : r[i] = IF i <= Len(q) THEN q[i] ELSE n + (i - Len(q))
      BY <1>3, <1>4
    <2> HIDE DEF r
    <2>2. /\ \A i, j \in 1..Len(q) : i < j => q[i] < q[j]
          /\ \A i \in 1..Len(q) : q[i] <= n
      BY DEF Increasing
    <2>3. \A i \in 1..Len(r) : r[i] <= n + k
      BY <1>2, <2>1, <2>2
    <2>4. ASSUME NEW i \in 1..Len(r), NEW j \in 1..Len(r), i < j
          PROVE  r[i] < r[j]
      <3>1. CASE j <= Len(q)
        <4>1. i \in 1..Len(q) /\ j \in 1..Len(q)
          BY <1>2, <2>1, <2>4, <3>1
        <4>2. r[i] = q[i] /\ r[j] = q[j]
          BY <1>2, <2>1, <3>1, <4>1
        <4>3. QED
          BY <2>2, <2>4, <4>1, <4>2
      <3>2. CASE i <= Len(q) /\ j > Len(q)
        <4>1. r[i] = q[i] /\ q[i] \in Nat /\ q[i] <= n /\ r[j] = n + (j - Len(q))
          BY <1>2, <2>1, <2>2, <3>2
        <4>2. QED
          BY <1>2, <2>1, <3>2, <4>1
      <3>3. CASE i > Len(q)
        BY <1>2, <2>1, <2>4, <3>3
      <3>4. QED
        BY <1>2, <2>1, <3>1, <3>2, <3>3
    <2>5. QED
      BY <2>3, <2>4 DEF Increasing, r
  <1>6. ASSUME q = First(n)
        PROVE  q \o next = First(n + k)
    <2>1. Len(q) = n /\ \A i \in 1..n : q[i] = i
      BY <1>6 DEF First
    <2>2. First(n + k) \in Seq(Nat) /\ Len(First(n + k)) = n + k /\ \A i \in 1..(n + k) : First(n + k)[i] = i
      <3>1. First(n + k) \in [1..(n + k) -> Nat]
        BY DEF First
      <3>2. QED
        BY <3>1 DEF First
    <2> DEFINE r == q \o next
               f == First(n + k)
    <2>3. r \in Seq(Nat) /\ Len(r) = Len(q) + k
      BY <1>3
    <2>4. \A i \in 1..(Len(q) + k) : r[i] = IF i <= Len(q) THEN q[i] ELSE n + (i - Len(q))
      BY <1>4
    <2>5. f \in Seq(Nat) /\ Len(f) = n + k /\ \A i \in 1..(n + k) : f[i] = i
      BY <2>2
    <2> HIDE DEF r, f
    <2>6. Len(r) = n + k /\ \A i \in 1..(n + k) : r[i] = i
      BY <2>1, <2>3, <2>4
    <2>7. \A i \in 1..Len(r) : r[i] = f[i]
      BY <2>5, <2>6
    <2>8. r = f
      BY <2>3, <2>5, <2>6, <2>7, SeqEqual
    <2>9. QED
      BY <2>8 DEF r, f
  <1>7. QED
    BY <1>5, <1>6

-----------------------------------------------------------------------------
\* The bytes on their way to a side are in order, and the network has taken all of them.
StreamInv == \A u \in Side : Increasing(Stream(u), Taken(Peer(u)))

OrderInv == TypeInv /\ CallInv /\ StreamInv /\ NothingLost

LEMMA InitStream == Init => StreamInv /\ NothingLost
  <1> SUFFICES ASSUME Init, NEW u \in Side
               PROVE  Increasing(Stream(u), Taken(Peer(u))) /\ Stream(u) = First(Taken(Peer(u)))
    BY DEF StreamInv, NothingLost, First
  <1>1. Stream(u) = <<>>
    BY Peers, IdleIsCall DEF Init, Stream
  <1>2. Taken(Peer(u)) = 0
    BY Peers, IdleIsCall DEF Init, Taken
  <1>3. Increasing(<<>>, 0)
    BY DEF Increasing
  <1>4. First(0) = <<>>
    BY DEF First
  <1>5. QED
    BY <1>1, <1>2, <1>3, <1>4

LEMMA StreamInvNext ==
  ASSUME OrderInv, [Next]_vars
  PROVE  StreamInv' /\ NothingLost'
  <1> SUFFICES ASSUME NEW u \in Side
               PROVE  /\ Increasing(Stream(u)', Taken(Peer(u))')
                      /\ "read" \notin failed'[u] /\ "write" \notin failed'[Peer(u)] =>
                           Stream(u)' = First(Taken(Peer(u))')
    BY DEF StreamInv, NothingLost, First
  <1> DEFINE q == Stream(u)
             n == Taken(Peer(u))
             whole == "read" \notin failed'[u] /\ "write" \notin failed'[Peer(u)]
  <1>1. q \in Seq(Nat) /\ n \in Nat /\ Increasing(q, n)
    BY Parts, Peers DEF OrderInv, StreamInv
  <1>2. StreamStep
    BY StreamNext DEF OrderInv
  <1>3. whole => q = First(n)
    BY <1>2, Peers DEF OrderInv, NothingLost, StreamStep, First
  <1>4. CASE Keeps(u)
    BY <1>1, <1>3, <1>4 DEF Keeps
  <1>5. CASE Grows(u)
    <2>1. PICK k \in Nat : Stream(u)' = q \o [i \in 1..k |-> n + i] /\ Taken(Peer(u))' = n + k
      BY <1>5 DEF Grows
    <2> DEFINE next == [i \in 1..k |-> n + i]
    <2> HIDE DEF q, n
    <2>2. Increasing(q \o next, n + k) /\ (q = First(n) => q \o next = First(n + k))
      BY <1>1, GrowKeepsOrder
    <2> HIDE DEF next
    <2>3. Stream(u)' = q \o next
      BY <2>1 DEF next
    <2>4. QED
      BY <1>3, <2>1, <2>2, <2>3
  <1>6. CASE Drops(u)
    <2>1. PICK a, b, c \in Seq(Nat) : q = (a \o b) \o c /\ Stream(u)' = a \o c
      BY <1>6 DEF Drops
    <2>2. Taken(Peer(u))' = n /\ ~whole
      BY <1>6 DEF Drops
    <2>3. Increasing(a \o c, n)
      BY <1>1, <2>1, DropKeepsOrder
    <2>4. QED
      BY <2>1, <2>2, <2>3
  <1>7. CASE Skips(u)
    <2>1. Stream(u)' = q /\ Taken(Peer(u))' >= n /\ ~whole
      BY <1>7 DEF Skips
    <2>2. TypeInv'
      BY NextInv DEF OrderInv
    <2>3. Taken(Peer(u))' \in Nat
      <3>1. call' \in [Side -> Calls] /\ written' \in [Side -> Nat] /\ Peer(u) \in Side
        BY <2>2, Peers DEF TypeInv
      <3>2. call'[Peer(u)].base + call'[Peer(u)].done \in Nat /\ written'[Peer(u)] \in Nat
        BY <3>1 DEF Calls
      <3>3. QED
        BY <3>2 DEF Taken
    <2>4. \A i \in 1..Len(q) : q[i] \in Nat
      BY <1>1, ElementOfSeq
    <2> DEFINE m == Taken(Peer(u))'
    <2> HIDE DEF q, n, m
    <2>5. m \in Nat /\ m >= n
      BY <2>1, <2>3 DEF m
    <2>6. Increasing(q, m)
      BY <1>1, <2>4, <2>5 DEF Increasing
    <2>7. QED
      BY <2>1, <2>6 DEF m
  <1>8. QED
    BY <1>2, <1>4, <1>5, <1>6, <1>7 DEF StreamStep

LEMMA OrderInvariant == Spec => []OrderInv
  <1>1. Init => OrderInv
    BY InitInv, InitStream DEF OrderInv
  <1>2. OrderInv /\ [Next]_vars => OrderInv'
    BY NextInv, StreamInvNext DEF OrderInv
  <1>3. QED
    BY <1>1, <1>2, PTL DEF Spec

\* Whatever fails, and however the calls of the two sides interleave, no byte arrives twice or
\* before one that was written earlier.
THEOREM ArrivesInOrder == Spec => []InOrder
  <1>1. OrderInv => InOrder
    BY DEF OrderInv, StreamInv, Increasing, InOrder
  <1>2. QED
    BY <1>1, OrderInvariant, PTL

\* Without a failed read here or a failed write there, every byte the network took is received,
\* in the buffer of the read or on its way.
THEOREM LosesNothing == Spec => []NothingLost
  <1>1. OrderInv => NothingLost
    BY DEF OrderInv
  <1>2. QED
    BY <1>1, OrderInvariant, PTL

-----------------------------------------------------------------------------
\* The two clocks of a side agree; and a read that tests the clock or sleeps has seen the end of
\* its stream, which nothing can undo.
EndInv ==
  \A s \in Side :
    /\ silence[s] = elapsed[s]
    /\ call[s].pc \in {"late", "sleep"} => ~open[Peer(s)] /\ wire[Peer(s)] = <<>>

TimeInv == TypeInv /\ CallInv /\ EndInv

\* A step of side s, summed up: its clocks go together, and the end of a stream stays; only the
\* read that finds the end goes on to wait.
EndStep ==
  /\ \A u \in Side : silence[u] = elapsed[u] => silence'[u] = elapsed'[u]
  /\ \A u \in Side : ~open[u] /\ wire[u] = <<>> => ~open'[u] /\ wire'[u] = <<>>
  /\ \A u \in Side :
       call'[u].pc \in {"late", "sleep"} =>
         call[u].pc \in {"late", "sleep"} \/ (~open'[Peer(u)] /\ wire'[Peer(u)] = <<>>)

LEMMA ReturnEnd ==
  ASSUME TypeInv, NEW s \in Side, Return(s), UNCHANGED <<open, wire>>
  PROVE  EndStep
  <1>1. \A u \in Side : silence[u] = elapsed[u] => silence'[u] = elapsed'[u]
    BY DEF Return, TypeInv
  <1>2. \A u \in Side : call'[u].pc \in {"late", "sleep"} => call[u].pc \in {"late", "sleep"}
    BY IdleIsCall DEF Return, TypeInv
  <1>3. QED
    BY <1>1, <1>2 DEF EndStep

LEMMA SendEnd ==
  ASSUME TypeInv, CallInv, NEW s \in Side, Send(s)
  PROVE  EndStep
  <1>1. CASE Throw(s)
    BY <1>1, ReturnEnd DEF Throw
  <1>2. CASE ~Throw(s)
    <2>1. PICK k \in Nat : wire' = [wire EXCEPT ![s] = @ \o Chunk(s, k)] /\ Progress(s, k, <<>>)
      BY <1>2, SendCases
    <2>2. open' = open /\ open[s]
      BY <1>2, SendCases DEF Connected
    <2>3. \A u \in Side : silence[u] = elapsed[u] => silence'[u] = elapsed'[u]
      BY <2>1 DEF Progress, TypeInv
    <2>4. \A u \in Side : call'[u].pc = call[u].pc
      <3>1. <<>> \in Seq(Nat)
        OBVIOUS
      <3>2. QED
        BY <2>1, <3>1, ProgressCall
    <2>5. \A u \in Side \ {s} : wire'[u] = wire[u]
      BY <2>1 DEF TypeInv
    <2>6. QED
      BY <2>2, <2>3, <2>4, <2>5 DEF EndStep
  <1>3. QED
    BY <1>1, <1>2

LEMMA RecvEnd ==
  ASSUME TypeInv, CallInv, NEW s \in Side, Recv(s)
  PROVE  EndStep
  <1> DEFINE there == wire[Peer(s)]
             rest(k) == SubSeq(there, k + 1, Len(there))
  <1>1. there \in Seq(Nat)
    BY Peers DEF TypeInv
  <1>2. CASE Throw(s)
    BY <1>2, ReturnEnd DEF Throw
  <1>3. ASSUME NEW k \in 1..Len(there),
               wire' = [wire EXCEPT ![Peer(s)] = rest(k)],
               Progress(s, k, SubSeq(there, 1, k)),
               open' = open
        PROVE  EndStep
    <2>1. k \in Nat /\ SubSeq(there, 1, k) \in Seq(Nat) /\ there # <<>>
      BY <1>1, Halves
    <2>2. \A u \in Side : call'[u].pc = call[u].pc
      BY <1>3, <2>1, ProgressCall
    <2>3. \A u \in Side : silence[u] = elapsed[u] => silence'[u] = elapsed'[u]
      BY <1>3 DEF Progress, TypeInv
    <2>4. \A u \in Side \ {Peer(s)} : wire'[u] = wire[u]
      BY <1>3 DEF TypeInv
    <2>5. QED
      BY <1>3, <2>1, <2>2, <2>3, <2>4 DEF EndStep
  <1>4. CASE /\ there = <<>> /\ ~open[Peer(s)]
             /\ call' = [call EXCEPT ![s].pc = "late"]
             /\ UNCHANGED <<fd, open, wire, elapsed, written, received, failed, silence>>
    <2>1. \A u \in Side \ {s} : call'[u] = call[u]
      BY <1>4 DEF TypeInv
    <2>2. QED
      BY <1>4, <2>1 DEF EndStep
  <1>5. QED
    BY <1>2, <1>3, <1>4, RecvCases

LEMMA EndNext ==
  ASSUME TypeInv, CallInv, [Next]_vars
  PROVE  EndStep
  <1>1. CASE Tick
    BY <1>1 DEF Tick, Later, EndStep
  <1>2. ASSUME NEW s \in Side, Step(s)
        PROVE  EndStep
    <2>1. CASE LateTest(s)
      <3>1. CASE Throw(s)
        BY <3>1, ReturnEnd DEF Throw
      <3>2. CASE ~Throw(s)
        <4>1. \A u \in Side : call'[u].pc \in {"late", "sleep"} => call[u].pc \in {"late", "sleep"}
          BY <2>1, <3>2 DEF LateTest, TypeInv
        <4>2. QED
          BY <2>1, <3>2, <4>1 DEF LateTest, EndStep
      <3>3. QED
        BY <3>1, <3>2
    <2>2. CASE Sleep(s)
      <3>1. \A u \in Side : call'[u].pc \in {"late", "sleep"} => call[u].pc \in {"late", "sleep"}
        BY <2>2 DEF Sleep, TypeInv
      <3>2. QED
        BY <2>2, <3>1 DEF Sleep, Later, EndStep
    <2>3. CASE Finish(s)
      BY <2>3, ReturnEnd DEF Finish
    <2>4. QED
      BY <1>2, <2>1, <2>2, <2>3, SendEnd, RecvEnd DEF Step
  <1>3. ASSUME NEW s \in Side, Close(s)
        PROVE  EndStep
    <2>1. \A u \in Side : ~open[u] => ~open'[u]
      BY <1>3 DEF Close, TypeInv
    <2>2. QED
      BY <1>3, <2>1 DEF Close, EndStep
  <1>4. ASSUME NEW s \in Side, NEW n \in 0..MaxCall, NEW op \in {"read", "write"}, Enter(s, op, n)
        PROVE  EndStep
    <2>1. call' = [call EXCEPT ![s] = Begun(op, n, written[s])]
      BY <1>4 DEF Enter, Begun
    <2>2. \A u \in Side : call'[u].pc \in {"late", "sleep"} => call[u].pc \in {"late", "sleep"}
      BY <2>1 DEF Begun, TypeInv
    <2>3. \A u \in Side : silence[u] = elapsed[u] => silence'[u] = elapsed'[u]
      BY <1>4 DEF Enter, TypeInv
    <2>4. QED
      BY <1>4, <2>2, <2>3 DEF Enter, EndStep
  <1>5. CASE UNCHANGED vars
    BY <1>5 DEF vars, EndStep
  <1>6. QED
    BY <1>1, <1>2, <1>3, <1>4, <1>5 DEF Next

LEMMA TimeInvariant == Spec => []TimeInv
  <1>1. Init => TimeInv
    BY InitInv, IdleIsCall DEF Init, TimeInv, EndInv
  <1>2. TimeInv /\ [Next]_vars => TimeInv'
    BY NextInv, EndNext, Peers DEF TimeInv, EndInv, EndStep
  <1>3. QED
    BY <1>1, <1>2, PTL DEF Spec

\* A timeout is reported only by a read at the end of its stream, after more than Timeout without
\* a byte: a peer that is merely slow never causes it.
THEOREM TimeoutOnlyAtEnd == Spec => TimeoutMeansEnd
  <1>1. TimeInv /\ [Next]_vars =>
          [\A s \in Side : call[s].pc = "late" /\ call'[s] = Idle =>
             /\ call[s].op = "read"
             /\ silence[s] > Timeout
             /\ ~open[Peer(s)] /\ wire[Peer(s)] = <<>>]_vars
    <2> SUFFICES ASSUME TimeInv, Next, NEW s \in Side, call[s].pc = "late", call'[s] = Idle
                 PROVE  silence[s] > Timeout
      BY WaitIsRead DEF TimeInv, EndInv
    <2>1. call'[s].pc = "idle" /\ call'[s] # call[s]
      BY IdleIsCall
    <2>2. LateTest(s)
      <3>1. \A u \in Side \ {s} : Step(u) => call'[s] = call[s]
        <4> TAKE u \in Side \ {s}
        <4>1. Return(u) \/ Sleep(u) \/ LateTest(u) => call'[s] = call[s]
          BY DEF Return, Sleep, LateTest, Throw, TimeInv, TypeInv
        <4>2. \A k, chunk : Progress(u, k, chunk) => call'[s] = call[s]
          BY DEF Progress, TimeInv, TypeInv
        <4>3. Recv(u) => call'[s] = call[s]
          BY <4>1, <4>2, RecvCases DEF TimeInv, TypeInv, Throw
        <4>4. QED
          BY <4>1, <4>2, <4>3, SendCases DEF Step, Finish, Throw, TimeInv
      <3>2. ~Finish(s) /\ ~Send(s) /\ ~Recv(s) /\ ~Sleep(s)
        BY DEF Finish, Send, Recv, Sleep, Running
      <3>3. \A u \in Side, op \in {"read", "write"}, n \in 0..MaxCall : Enter(u, op, n) => call'[s] = call[s]
        BY IdleIsCall DEF Enter, TimeInv, TypeInv
      <3>4. QED
        BY <2>1, <3>1, <3>2, <3>3 DEF Next, Step, Tick, Close
    <2>3. call' = [call EXCEPT ![s].pc = "sleep"] => call'[s].pc = "sleep"
      BY DEF TimeInv, TypeInv, Calls
    <2>4. elapsed[s] > Timeout
      BY <2>1, <2>2, <2>3 DEF LateTest
    <2>5. QED
      BY <2>4 DEF TimeInv, EndInv
  <1>2. QED
    BY <1>1, TimeInvariant, PTL DEF Spec, TimeoutMeansEnd

=============================================================================
