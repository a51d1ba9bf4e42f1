----------------------------- MODULE NetStream ------------------------------
(***************************************************************************)
(* vial_netstream (src/src/io/net/netstream.c): the loops of read and      *)
(* write over a connected stream socket, at both sides of one connection.  *)
(* The sockets are those vial_socket_init makes, which block.  A side runs *)
(* one call at a time, and every iteration of its loop is a step or two.   *)
(* The bytes a side writes are numbered in the order it hands them over.   *)
(***************************************************************************)
EXTENDS Integers, Sequences

CONSTANTS
  Side,     \* the two ends of the connection
  Timeout,  \* read_timeout, in rounds of the clock
  Window,   \* how many bytes the network holds in each direction
  Faults,   \* the socket calls that may fail for reasons of their own
  MaxBytes, \* bound: how many bytes each side writes
  MaxCall   \* bound: the size of a call

ASSUME SideAssumption == \E s, t \in Side : s # t /\ Side = {s, t}
ASSUME NumberAssumption ==
  /\ Timeout \in Nat /\ Window \in Nat \ {0}
  /\ MaxBytes \in [Side -> Nat] /\ MaxCall \in Nat
ASSUME FaultAssumption == Faults \subseteq {"send", "recv", "close"}

VARIABLES
  fd,       \* self->socket.fd: the connection's descriptor, or 0 after close
  open,     \* the kernel has the descriptor of the connection open
  wire,     \* the bytes of a side that its peer has not received
  call,     \* the call a side is in, its size and its locals
  elapsed,  \* vial_mtime() - t0, up to the value that ends the wait
  written,  \* how many bytes the side's client has handed to write
  received, \* the bytes of the side's reads that succeeded
  failed,   \* the calls of a side that have failed so far
  silence   \* the time since the call began or its last byte passed, as elapsed

vars == <<fd, open, wire, call, elapsed, written, received, failed, silence>>

Connection == "connection"
Zero == "zero"
Peer(s) == CHOOSE t \in Side : t # s
Lesser(a, b) == IF a < b THEN a ELSE b

Idle == [op |-> "idle", pc |-> "idle", size |-> 0, base |-> 0, done |-> 0, buf |-> <<>>]
Running(s, op, pc) == call[s].op = op /\ call[s].pc = pc

Init ==
  /\ fd = [s \in Side |-> Connection]
  /\ open = [s \in Side |-> TRUE]
  /\ wire = [s \in Side |-> <<>>]
  /\ call = [s \in Side |-> Idle]
  /\ elapsed = [s \in Side |-> 0]
  /\ written = [s \in Side |-> 0]
  /\ received = [s \in Side |-> <<>>]
  /\ failed = [s \in Side |-> {}]
  /\ silence = [s \in Side |-> 0]

Later(clock) ==
  [s \in Side |-> IF call[s] = Idle THEN clock[s] ELSE Lesser(clock[s] + 1, Timeout + 1)]

\* Time passes by itself as well, while a side is in a blocking call or not running.
Tick ==
  /\ elapsed' = Later(elapsed)
  /\ silence' = Later(silence)
  /\ UNCHANGED <<fd, open, wire, call, written, received, failed>>

\* The entry of impl_read and impl_write: done = 0, t0 = vial_mtime().
Enter(s, op, n) ==
  /\ call[s] = Idle
  /\ call' = [call EXCEPT ![s] =
                [op |-> op, pc |-> "loop", size |-> n, base |-> written[s], done |-> 0, buf |-> <<>>]]
  /\ elapsed' = [elapsed EXCEPT ![s] = 0]
  /\ silence' = [silence EXCEPT ![s] = 0]
  /\ written' = [written EXCEPT ![s] = IF op = "write" THEN @ + n ELSE @]
  /\ UNCHANGED <<fd, open, wire, received, failed>>

\* The end of a call, whose t0 is gone with its locals.
Return(s) ==
  /\ call' = [call EXCEPT ![s] = Idle]
  /\ elapsed' = [elapsed EXCEPT ![s] = 0]
  /\ silence' = [silence EXCEPT ![s] = 0]

Throw(s) ==
  /\ Return(s)
  /\ failed' = [failed EXCEPT ![s] = @ \cup {call[s].op}]
  /\ UNCHANGED <<fd, open, wire, written, received>>

\* Mutant: some bytes are enough.
FinishShort(s) ==
  /\ call[s].pc = "loop" /\ (call[s].done > 0 \/ call[s].size = 0)
  /\ Return(s)
  /\ received' = [received EXCEPT ![s] = @ \o call[s].buf]
  /\ UNCHANGED <<fd, open, wire, written, failed>>

\* while (done < size) ends, and the call with it.
Finish(s) ==
  /\ call[s].pc = "loop" /\ call[s].done = call[s].size
  /\ Return(s)
  /\ received' = [received EXCEPT ![s] = @ \o call[s].buf]
  /\ UNCHANGED <<fd, open, wire, written, failed>>

\* The descriptor is the connection's and still open: otherwise it is closed, or it is
\* descriptor 0, which is no socket of this connection, and socket calls fail.
Connected(s) == fd[s] = Connection /\ open[s]
CallFails(s, what) == ~Connected(s) \/ what \in Faults

\* Mutant: the time of the call counts, not the time without progress.
ProgressSameTime(s, k, chunk) ==
  /\ call' = [call EXCEPT ![s].done = @ + k, ![s].buf = @ \o chunk]
  /\ silence' = [silence EXCEPT ![s] = 0]
  /\ UNCHANGED elapsed

\* p += k; done += k; t0 = vial_mtime()
Progress(s, k, chunk) ==
  /\ call' = [call EXCEPT ![s].done = @ + k, ![s].buf = @ \o chunk]
  /\ elapsed' = [elapsed EXCEPT ![s] = 0]
  /\ silence' = [silence EXCEPT ![s] = 0]

\* Mutant: every send starts at the beginning of the buffer.
ChunkFromStart(s, k) == [i \in 1..k |-> call[s].base + i]

\* The next k bytes of the buffer, from p = buf + done.
Chunk(s, k) == [i \in 1..k |-> call[s].base + call[s].done + i]

\* vial_socket_send on a blocking socket: takes some bytes as soon as there is room for one.
\* After the peer has closed it may still take them, or fail.
Send(s) ==
  /\ Running(s, "write", "loop") /\ call[s].done < call[s].size
  /\ \/ /\ CallFails(s, "send") \/ ~open[Peer(s)]
        /\ Throw(s)
     \/ /\ Connected(s)
        /\ \E k \in 1..Lesser(call[s].size - call[s].done, Window - Len(wire[s])) :
             /\ wire' = [wire EXCEPT ![s] = @ \o Chunk(s, k)]
             /\ Progress(s, k, <<>>)
        /\ UNCHANGED <<fd, open, written, received, failed>>

\* Mutant: at the end of the stream the loop goes on without looking at the clock.
RecvForever(s) ==
  /\ Running(s, "read", "loop") /\ call[s].done < call[s].size
  /\ \/ CallFails(s, "recv") /\ Throw(s)
     \/ /\ Connected(s) /\ wire[Peer(s)] = <<>> /\ ~open[Peer(s)]
        /\ call' = [call EXCEPT ![s].pc = "sleep"]
        /\ UNCHANGED <<fd, open, wire, elapsed, written, received, failed, silence>>

\* vial_socket_recv on a blocking socket: some of the bytes that are there, nothing at the end
\* of the stream, and otherwise it does not return.
Recv(s) ==
  LET there == wire[Peer(s)]
  IN /\ Running(s, "read", "loop") /\ call[s].done < call[s].size
     /\ \/ CallFails(s, "recv") /\ Throw(s)
        \/ /\ Connected(s)
           /\ \E k \in 1..Lesser(call[s].size - call[s].done, Len(there)) :
                /\ wire' = [wire EXCEPT ![Peer(s)] = SubSeq(there, k + 1, Len(there))]
                /\ Progress(s, k, SubSeq(there, 1, k))
           /\ UNCHANGED <<fd, open, written, received, failed>>
        \/ /\ Connected(s) /\ there = <<>> /\ ~open[Peer(s)]
           /\ call' = [call EXCEPT ![s].pc = "late"]
           /\ UNCHANGED <<fd, open, wire, elapsed, written, received, failed, silence>>

\* "if (vial_mtime() > t0 + timeout)": the error is the timeout.
LateTest(s) ==
  /\ call[s].pc = "late"
  /\ \/ elapsed[s] > Timeout /\ Throw(s)
     \/ /\ elapsed[s] <= Timeout
        /\ call' = [call EXCEPT ![s].pc = "sleep"]
        /\ UNCHANGED <<fd, open, wire, elapsed, written, received, failed, silence>>

\* vial_msleep(1): time has passed when it returns.
Sleep(s) ==
  /\ call[s].pc = "sleep"
  /\ call' = [call EXCEPT ![s].pc = "loop"]
  /\ elapsed' = Later(elapsed)
  /\ silence' = Later(silence)
  /\ UNCHANGED <<fd, open, wire, written, received, failed>>

\* impl_close: after a failure the descriptor stays in the stream, though the kernel has
\* released it; after success it is 0, and closing again closes descriptor 0.
Close(s) ==
  /\ call[s] = Idle
  /\ \/ /\ fd[s] = Zero \/ ~open[s] \/ "close" \in Faults
        /\ open' = [open EXCEPT ![s] = @ /\ fd[s] # Connection]
        /\ UNCHANGED fd
     \/ /\ fd[s] = Zero \/ open[s]
        /\ open' = [open EXCEPT ![s] = @ /\ fd[s] # Connection]
        /\ fd' = [fd EXCEPT ![s] = Zero]
  /\ UNCHANGED <<wire, call, elapsed, written, received, failed, silence>>

Step(s) == Finish(s) \/ Send(s) \/ Recv(s) \/ LateTest(s) \/ Sleep(s)

Next ==
  \/ Tick
  \/ \E s \in Side :
       \/ Step(s)
       \/ Close(s)
       \/ \E n \in 0..MaxCall :
            \/ Enter(s, "read", n)
            \/ written[s] + n <= MaxBytes[s] /\ Enter(s, "write", n)

Spec == Init /\ [][Next]_vars

\* A side that is in a call goes on when it can, and time passes.
FairSpec == Spec /\ WF_vars(Tick) /\ \A s \in Side : WF_vars(Step(s))

-----------------------------------------------------------------------------
\* What has left the peer of s: received by whole reads, by the read it is in, or not yet.
Stream(s) == received[s] \o call[s].buf \o wire[Peer(s)]

\* Whatever fails, no byte arrives twice or before one that was written earlier.
InOrder == \A s \in Side : \A i, j \in 1..Len(Stream(s)) : i < j => Stream(s)[i] < Stream(s)[j]

\* How many bytes of side s the network has taken.
Taken(s) == IF call[s].op = "write" THEN call[s].base + call[s].done ELSE written[s]

\* A byte is lost only by a call that reports an error: as long as no read of s and no write of
\* its peer has failed, every byte the network took is received, in the buffer or on its way.
NothingLost ==
  \A s \in Side : "read" \notin failed[s] /\ "write" \notin failed[Peer(s)] =>
    Stream(s) = [i \in 1..Taken(Peer(s)) |-> i]

\* A timeout is reported only at the end of the stream, after all its bytes have been received,
\* and after more than Timeout without one: a peer that pauses between bytes, or is late with
\* all of them, never causes it.
TimeoutMeansEnd ==
  [][\A s \in Side : call[s].pc = "late" /\ call'[s] = Idle =>
       /\ call[s].op = "read"
       /\ silence[s] > Timeout
       /\ ~open[Peer(s)] /\ wire[Peer(s)] = <<>>]_vars

\* A side whose peer has closed gets out of every call it is in.
EndsAfterClose == \A s \in Side : ~open[Peer(s)] ~> call[s] = Idle

\* What the field read_timeout and the error of impl_read promise: a read ends, with its bytes
\* or a timeout.
ReadEnds == \A s \in Side : call[s].op = "read" ~> call[s] = Idle
=============================================================================
