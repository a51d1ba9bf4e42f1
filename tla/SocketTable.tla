---------------------------- MODULE SocketTable ----------------------------
(***************************************************************************)
(* Sockets and their descriptors (src/src/io/net/socket.c), the errors of  *)
(* their calls (src/src/error.c), and the streams that take a socket over  *)
(* (src/src/io/net/netstream.c).  A descriptor is a small number that the  *)
(* kernel gives out again as soon as it is closed, always the lowest that  *)
(* is free: whoever keeps one too long uses somebody else's.  The steps of *)
(* initconn interleave with the calls on other sockets.                    *)
(***************************************************************************)
EXTENDS ErrorChain, FiniteSetsExt

CONSTANTS
  Sock,     \* the socket structures of the program
  Program,  \* who has descriptor 0, the standard input, at the start
  Closed,   \* the owner of a descriptor that is not open
  MaxFd,    \* bound: the largest descriptor
  MaxLost   \* bound: the blocks and descriptors that are lost

VARIABLES
  file,     \* the descriptors: for which socket each was opened
  sock,     \* the sockets: descriptor, and what the client knows of it
  call,     \* where a socket's initconn is: its next step, the addresses left, its list
  error,    \* the error a client has been given, if any
  heap,     \* how many blocks are allocated: errors and lists of addresses
  robbed,   \* descriptor 0 has been closed by a socket that did not open it
  last      \* the last step: which socket, what, and the lost blocks it explains

vars == <<file, sock, call, error, heap, robbed, last>>

Fd == 0..MaxFd
Idle == [step |-> "idle", addrs |-> 0, list |-> 0]
FreeFds == {f \in Fd : file[f] = Closed}

Init ==
  /\ file = [f \in Fd |-> IF f = 0 THEN Program ELSE Closed]
  /\ sock = [s \in Sock |-> [fd |-> MaxFd, status |-> "none"]]
  /\ call = [s \in Sock |-> Idle]
  /\ error = <<>>
  /\ heap = 0
  /\ robbed = FALSE
  /\ last = [socket |-> Program, step |-> "start"]

-----------------------------------------------------------------------------
\* What belongs to somebody, and what is lost.

Keeps(s, f) ==
  sock[s].fd = f /\ (sock[s].status \in {"open", "bound", "stream"} \/ call[s].step \in {"connect", "close"})
LostFds == {f \in Fd : file[f] \in Sock /\ ~Keeps(file[f], f)}
LostBlocks == heap - ErrorBlocks(error) - SumFunctionOnSet([s \in Sock |-> call[s].list], Sock)
Room == LostBlocks + Cardinality(LostFds) < MaxLost

\* Clients use a socket that is theirs, and look at an error before they make the next call.
Calls(s, step) ==
  /\ call[s] = Idle /\ error = <<>>
  /\ last' = [socket |-> s, step |-> step]
Has(s, status) == sock[s].status \in status
Usable == {"open", "bound"}

Fails(e) ==
  /\ error' = e
  /\ heap' = heap + ErrorBlocks(e)
Succeeds == UNCHANGED <<error, heap>>

\* socket() and accept() give out the lowest descriptor.
Opens(s, status) ==
  /\ FreeFds # {}
  /\ file' = [file EXCEPT ![Min(FreeFds)] = s]
  /\ sock' = [sock EXCEPT ![s] = [fd |-> Min(FreeFds), status |-> status]]

\* close() of a descriptor: it fails if it is not open, and may fail with the descriptor closed
\* or not.
Close(s, done) ==
  LET f == sock[s].fd
  IN /\ \/ ~done
        \/ done /\ file[f] # Closed
     /\ file' \in IF done THEN {[file EXCEPT ![f] = Closed]} ELSE {file, [file EXCEPT ![f] = Closed]}
     /\ robbed' = (robbed \/ (f = 0 /\ file[0] # s /\ file'[0] = Closed))

-----------------------------------------------------------------------------
\* vial_socket_init: of the types only streams are known, the test for datagrams repeats theirs;
\* neither an unknown family nor an unknown type gets to socket().
SocketInit(s, fails) ==
  /\ Calls(s, "init") /\ Has(s, {"none"})
  /\ IF fails THEN Fails(SocketError(1)) /\ UNCHANGED <<file, sock>>
     ELSE Opens(s, "open") /\ Succeeds
  /\ UNCHANGED <<call, robbed>>

\* vial_socket_addr_resolve: the addresses are counted and a list allocated, which is freed when
\* one of them is of an unknown family.
Resolve(s, n, fails) ==
  /\ Calls(s, "resolve") /\ Has(s, {"none"}) /\ Room
  /\ IF fails THEN \E frames \in {2, 3} : Fails(SocketError(frames)) /\ UNCHANGED call
     ELSE /\ call' = [call EXCEPT ![s] =
                        [step |-> "init", addrs |-> n, list |-> IF n = 0 THEN 0 ELSE 1]]
          /\ heap' = heap + call'[s].list
          /\ UNCHANGED error
  /\ UNCHANGED <<file, sock, robbed>>

Steps(s, step) ==
  /\ call[s].step = step
  /\ last' = [socket |-> s, step |-> step]

\* One turn of the loop of vial_socket_initconn.  The error of a socket() that fails is freed.
ConnInit(s) ==
  /\ Steps(s, "init") /\ call[s].addrs > 0
  /\ \/ /\ Opens(s, "none")
        /\ call' = [call EXCEPT ![s].step = "connect"]
     \/ /\ call' = [call EXCEPT ![s].addrs = @ - 1]
        /\ UNCHANGED <<file, sock>>
  /\ UNCHANGED <<error, heap, robbed>>

\* The list of addresses is not freed on the way out.
ConnConnect(s) ==
  /\ Steps(s, "connect")
  /\ \/ /\ call' = [call EXCEPT ![s] = Idle]
        /\ sock' = [sock EXCEPT ![s].status = "open"]
     \/ /\ call' = [call EXCEPT ![s].step = "close"]
        /\ UNCHANGED sock
  /\ UNCHANGED <<file, error, heap, robbed>>

\* Mutant: the socket that could not connect is not closed.
ConnNoClose(s) ==
  /\ Steps(s, "close")
  /\ call' = [call EXCEPT ![s].step = "init", ![s].addrs = @ - 1]
  /\ UNCHANGED <<file, sock, error, heap, robbed>>

\* The socket is closed before the next address is tried; an error of close() is dropped.
ConnClose(s) ==
  /\ Steps(s, "close")
  /\ \E done \in BOOLEAN :
       /\ Close(s, done)
       /\ heap' = heap + IF done THEN 0 ELSE ErrorBlocks(SocketError(1))
  /\ call' = [call EXCEPT ![s].step = "init", ![s].addrs = @ - 1]
  /\ UNCHANGED <<sock, error>>

\* All addresses have been tried: "Not found", and again the list is not freed.
ConnNotFound(s) ==
  /\ Steps(s, "init") /\ call[s].addrs = 0 /\ error = <<>>
  /\ call' = [call EXCEPT ![s] = Idle]
  /\ Fails(SocketError(1))
  /\ UNCHANGED <<file, sock, robbed>>

\* vial_socket_accept: the descriptor is stored before the address of the peer is looked at.
Accept(s, r, outcome) ==
  /\ Calls(s, "accept") /\ Has(s, Usable)
  /\ r # s /\ call[r] = Idle /\ Has(r, {"none"}) /\ Room
  /\ \/ outcome = "fails" /\ Fails(SocketError(1)) /\ UNCHANGED <<file, sock>>
     \/ outcome = "known" /\ Opens(r, "open") /\ Succeeds
     \/ outcome = "other" /\ Opens(r, "none") /\ Fails(SocketError(2))
  /\ UNCHANGED <<call, robbed>>

\* vial_socket_bind: what bind() returns, 0, becomes the descriptor of the second socket, which
\* may be the first one.
Bind(s, r, fails) ==
  /\ Calls(s, "bind") /\ Has(s, Usable)
  /\ call[r] = Idle /\ (r = s \/ Has(r, {"none"}))
  /\ Room
  /\ IF fails THEN \E frames \in 1..2 : Fails(SocketError(frames)) /\ UNCHANGED sock
     ELSE sock' = [sock EXCEPT ![r] = [fd |-> 0, status |-> "bound"]] /\ Succeeds
  /\ UNCHANGED <<file, call, robbed>>

\* connect, listen, send, sendto, recv, recvfrom, shutdown, available: only their errors matter
\* to the table, with a second frame when an address of an unknown family is the reason.
Ask(s, frames) ==
  /\ Calls(s, "ask") /\ Has(s, Usable)
  /\ Fails(SocketError(frames))
  /\ UNCHANGED <<file, sock, call, robbed>>

\* vial_socket_close: afterwards the client makes no use of the socket, whatever was returned.
SocketClose(s, done) ==
  /\ Calls(s, "close") /\ Has(s, Usable) /\ Room
  /\ Close(s, done)
  /\ sock' = [sock EXCEPT ![s].status = "none"]
  /\ IF done THEN Succeeds ELSE Fails(SocketError(1))
  /\ UNCHANGED call

\* vial_netstream_init takes the socket over.
StreamInit(s) ==
  /\ Calls(s, "stream") /\ Has(s, {"open"})
  /\ sock' = [sock EXCEPT ![s].status = "stream"]
  /\ UNCHANGED <<file, call, error, heap, robbed>>

\* Mutant: the descriptor is kept.
StreamCloseKeeps(s, done) ==
  /\ Calls(s, "stream_close") /\ Has(s, {"stream", "closed"}) /\ Room
  /\ Close(s, done)
  /\ sock' = [sock EXCEPT ![s].status = IF done THEN "closed" ELSE "none"]
  /\ IF done THEN Succeeds
     ELSE LET e == Thrown(error_new(FALSE, <<>>))
          IN error' = e /\ heap' = heap + ErrorBlocks(SocketError(1)) + ErrorBlocks(e)
  /\ UNCHANGED call

\* Its close leaves descriptor 0 in the socket, so that a stream that is closed again closes
\* descriptor 0.  It returns an error of its own in the place of the socket's, which nobody frees.
StreamClose(s, done) ==
  /\ Calls(s, "stream_close") /\ Has(s, {"stream", "closed"}) /\ Room
  /\ Close(s, done)
  /\ sock' = [sock EXCEPT ![s] = IF done THEN [fd |-> 0, status |-> "closed"]
                                 ELSE [@ EXCEPT !.status = "none"]]
  /\ IF done THEN Succeeds
     ELSE LET e == Thrown(error_new(FALSE, <<>>))
          IN error' = e /\ heap' = heap + ErrorBlocks(SocketError(1)) + ErrorBlocks(e)
  /\ UNCHANGED call

\* A stream's read, write or available whose socket call fails: here too the error of the socket is
\* replaced and not freed.  A timeout of a read or a write has a message and loses nothing.
StreamAsk(s, late) ==
  /\ Calls(s, "stream_ask") /\ Has(s, {"stream", "closed"}) /\ Room
  /\ LET e == Thrown(error_new(late, <<>>))
     IN error' = e /\ heap' = heap + ErrorBlocks(e) + (IF late THEN 0 ELSE ErrorBlocks(SocketError(1)))
  /\ UNCHANGED <<file, sock, call, robbed>>

\* Its dispose forgets the socket without closing it.
StreamDispose(s) ==
  /\ Calls(s, "stream_dispose") /\ Has(s, {"stream", "closed"}) /\ Room
  /\ sock' = [sock EXCEPT ![s] = [fd |-> 0, status |-> "none"]]
  /\ UNCHANGED <<file, call, error, heap, robbed>>

\* The client passes its error on, makes it the cause of another, or frees it.
HandleError ==
  /\ error # <<>>
  /\ \/ /\ Len(error) = 1
        /\ \E message \in BOOLEAN : error' = Thrown(error_new(message, error))
        /\ heap' = heap + ErrorBlocks(error') - ErrorBlocks(error)
        /\ last' = [socket |-> Program, step |-> "wrap"]
     \/ /\ error' = <<>>
        /\ heap' = heap - ErrorBlocks(error)
        /\ last' = [socket |-> Program, step |-> "free"]
  /\ UNCHANGED <<file, sock, call, robbed>>

Next ==
  \/ HandleError
  \/ \E s \in Sock :
       \/ \E fails \in BOOLEAN : SocketInit(s, fails) \/ \E n \in 0..2 : Resolve(s, n, fails)
       \/ ConnInit(s) \/ ConnConnect(s) \/ ConnClose(s) \/ ConnNotFound(s)
       \/ \E r \in Sock, outcome \in {"fails", "known", "other"} : Accept(s, r, outcome)
       \/ \E r \in Sock, fails \in BOOLEAN : Bind(s, r, fails)
       \/ \E frames \in 1..2 : Ask(s, frames)
       \/ \E done \in BOOLEAN : SocketClose(s, done) \/ StreamClose(s, done)
       \/ StreamInit(s) \/ StreamDispose(s)
       \/ \E late \in BOOLEAN : StreamAsk(s, late)

Spec == Init /\ [][Next]_vars

-----------------------------------------------------------------------------
\* A socket closes only the descriptor that was opened for it, however closes, failures and the
\* steps of initconn interleave.  The one exception is descriptor 0, closed by a second socket
\* of bind or by a stream that is closed again: whoever opened it then loses it, and after that
\* the next owner of the number.
ClosesItsOwn ==
  [][\A f \in Fd :
       file[f] # Closed /\ file'[f] = Closed =>
         \/ file[f] = last'.socket
         \/ f = 0 /\ (robbed \/ Has(last'.socket, {"bound", "closed"}))]_vars

\* Descriptors and blocks are lost nowhere but: accept with an address of an unknown family, bind
\* of a socket to itself, a close that fails and leaves the descriptor open, the dispose of a stream
\* that was not closed; one list in an initconn that has found addresses, and the error of a socket
\* whose close fails in initconn, or of which any call fails in a stream.
LosesOnlyThere ==
  [][LET s == last'.socket
         gone == file'[sock[s].fd] = s
     IN /\ ~(LostFds' \subseteq LostFds) =>
             \/ last'.step = "accept" /\ error' # <<>>
             \/ last'.step = "bind" /\ Has(s, {"open"}) /\ sock'[s].status = "bound"
             \/ last'.step \in {"close", "stream_close"} /\ gone /\ heap' # heap
             \/ last'.step = "stream_dispose" /\ gone /\ Has(s, {"stream"})
        /\ LostBlocks' - LostBlocks =
             CASE last'.step \in {"connect", "init"} /\ call'[s] = Idle -> call[s].list
               [] last'.step = "close" /\ call[s] # Idle /\ heap' # heap -> 3
               [] last'.step \in {"stream_close", "stream_ask"} /\ error' # <<>> /\ ~Head(error').message -> 3
               [] OTHER -> 0]_vars
=============================================================================
