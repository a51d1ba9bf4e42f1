----------------------------- MODULE UnitProofs -----------------------------
(***************************************************************************)
(* Proofs about the components of Units, for all of their constants.       *)
(***************************************************************************)
EXTENDS Units, OperatorProofs, SequenceTheorems

-----------------------------------------------------------------------------
\* The file stream.

FileNumbers == position \in Nat /\ length \in Nat

\* A stream that still knows a closed file has failed to close it.
FileKnown == pointer /\ ~opened => outcome.call = "undefined" \/ (outcome.call = "close" /\ ~outcome.ok)

FileInv == FileNumbers /\ FileKnown

LEMMA FileStarts == File!Init => FileInv
<1>1. File!Init => FileNumbers
  BY DEF File!Init, FileNumbers
<1>2. File!Init => FileKnown
  BY Zenon DEF File!Init, FileKnown
<1>3. QED
  BY <1>1, <1>2 DEF FileInv

LEMMA FileKeeps == FileInv /\ [File!Next]_File!vars => FileInv'
<1> SUFFICES ASSUME FileInv, [File!Next]_File!vars PROVE FileInv'
  OBVIOUS
<1> USE FileAssumption DEF FileInv
<1>1. CASE UNCHANGED File!vars
  BY <1>1, Zenon DEF File!vars, FileNumbers, FileKnown
<1>2. CASE File!Disposed \/ File!UseClosed \/ File!FileDispose
  <2>1. FileNumbers'
    BY <1>2, Zenon DEF File!Disposed, File!UseClosed, File!FileDispose, FileNumbers
  <2>2. ASSUME File!UseClosed PROVE FileKnown'
    <3>1. outcome' = [call |-> "undefined", ok |-> FALSE, value |-> 0]
      BY <2>2, Zenon DEF File!UseClosed
    <3>2. outcome'.call = "undefined"
      BY <3>1
    <3>3. QED
      BY <3>2, Zenon DEF FileKnown
  <2>3. ASSUME File!Disposed \/ File!FileDispose PROVE FileKnown'
    BY <2>3, Zenon DEF File!Disposed, File!FileDispose, FileKnown
  <2>4. QED
    BY <1>2, <2>1, <2>2, <2>3
<1>3. ASSUME NEW n \in 0..MaxFile, File!FileInit(n) PROVE FileInv'
  <2>1. FileNumbers'
    BY <1>3 DEF File!FileInit, FileNumbers
  <2>2. FileKnown'
    BY <1>3, Zenon DEF File!FileInit, FileKnown
  <2>3. QED
    BY <2>1, <2>2
<1>4. ASSUME NEW ok \in BOOLEAN, File!FileClose(ok) PROVE FileInv'
  <2>1. FileNumbers'
    BY <1>4, Zenon DEF File!FileClose, FileNumbers
  <2>2. FileKnown'
    BY <1>4, Zenon DEF File!FileClose, File!Calls, FileKnown
  <2>3. QED
    BY <2>1, <2>2
\* The other calls find a file that is open and leave it open.
<1>5. ASSUME opened, UNCHANGED opened PROVE FileKnown'
  BY <1>5, Zenon DEF FileKnown
<1>6. ASSUME NEW ok \in BOOLEAN, File!FileFlush(ok) \/ File!FilePosition(ok) PROVE FileInv'
  <2>1. opened /\ UNCHANGED <<opened, position, length>>
    BY <1>6, Zenon DEF File!FileFlush, File!FilePosition, File!Calls
  <2>2. QED
    BY <1>5, <2>1, Zenon DEF FileNumbers
<1>7. ASSUME NEW ok \in BOOLEAN, NEW offset \in -2..2, NEW origin \in {"set", "cur", "end"},
             File!FileSeek(offset, origin, ok)
      PROVE  FileInv'
  <2> DEFINE target == offset + CASE origin = "set" -> 0 [] origin = "cur" -> position [] origin = "end" -> length
  <2>1. opened /\ UNCHANGED opened /\ length' = length /\ (position' = position \/ (position' = target /\ ~(target < 0)))
    BY <1>7, Zenon DEF File!FileSeek, File!Calls
  <2>2. target \in Int
    BY DEF FileNumbers
  <2> HIDE DEF target
  <2>3. FileNumbers'
    BY <2>1, <2>2 DEF FileNumbers
  <2>4. QED
    BY <1>5, <2>1, <2>3
<1>8. ASSUME NEW failing, File!FileAvailable(failing) PROVE FileInv'
  <2>1. opened /\ UNCHANGED <<opened, length>> /\ position' \in {position, length}
    BY <1>8, Zenon DEF File!FileAvailable, File!Calls
  <2>2. QED
    BY <1>5, <2>1, Zenon DEF FileNumbers
<1>9. ASSUME NEW n \in Nat, NEW k \in Nat, File!FileRead(n, k) \/ File!FileWrite(n, k) PROVE FileInv'
  <2>1. opened /\ UNCHANGED opened
    BY <1>9, Zenon DEF File!FileRead, File!FileWrite, File!Calls
  <2>2. FileNumbers'
    BY <1>9 DEF File!FileRead, File!FileWrite, File!Larger, FileNumbers
  <2>3. QED
    BY <1>5, <2>1, <2>2
<1>10. QED
  <2>1. File!Sizes \subseteq Nat
    BY DEF File!Sizes
  <2>2. QED
    BY <1>1, <1>2, <1>3, <1>4, <1>6, <1>7, <1>8, <1>9, <2>1, Zenon DEF File!Next

\* What KeepsToItsFile says of a step.
FileKept ==
  LET did == outcome'.call
  IN /\ did = "undefined" => outcome.call = "close" /\ ~outcome.ok
     /\ did = "available" =>
          /\ outcome'.ok => position' = position
                            /\ outcome'.value \in {0, (length - position) % Word}
          /\ position' \in {position, length} /\ length' = length
     /\ did \in {"flush", "position", "close", "undefined", "disposed"} =>
          <<position', length'>> = <<position, length>>
     /\ did = "read" => length' = length /\ position' <= File!Larger(position, length)
     /\ outcome'.ok /\ did = "position" => outcome'.value = position

LEMMA FileKeepsToIt == FileInv /\ [File!Next]_File!vars => [FileKept]_File!vars
<1> SUFFICES ASSUME FileInv, File!Next PROVE FileKept
  BY Zenon
<1> USE FileAssumption DEF FileInv
<1> DEFINE Is(c, ok, value) == outcome' = [call |-> c, ok |-> ok, value |-> value]
<1>1. CASE File!Disposed
  BY <1>1 DEF File!Disposed, FileKept
<1>2. CASE File!UseClosed
  <2>1. outcome.call = "close" /\ ~outcome.ok /\ UNCHANGED <<position, length>>
    BY <1>2, Zenon DEF File!UseClosed, FileKnown
  <2>2. outcome' = [call |-> "undefined", ok |-> FALSE, value |-> 0]
    BY <1>2, Zenon DEF File!UseClosed
  <2>3. QED
    BY <2>1, <2>2 DEF FileKept
<1>3. CASE File!FileDispose
  BY <1>3 DEF File!FileDispose, FileKept
<1>4. ASSUME NEW n \in 0..MaxFile, File!FileInit(n) PROVE FileKept
  BY <1>4 DEF File!FileInit, FileKept
<1>5. ASSUME NEW ok \in BOOLEAN, File!FileClose(ok) \/ File!FileFlush(ok) \/ File!FilePosition(ok) PROVE FileKept
  BY <1>5 DEF File!FileClose, File!FileFlush, File!FilePosition, File!Calls, FileKept
<1>6. ASSUME NEW ok \in BOOLEAN, NEW offset \in -2..2, NEW origin \in {"set", "cur", "end"},
             File!FileSeek(offset, origin, ok)
      PROVE  FileKept
  BY <1>6 DEF File!FileSeek, File!Calls, FileKept
<1>7. ASSUME NEW failing, File!FileAvailable(failing) PROVE FileKept
  <2>1. PICK end : /\ end \in {position, length}
                   /\ outcome' = [call |-> "available", ok |-> failing \in {"none", "seek_end"},
                                  value |-> IF failing \in {"none", "seek_end"} THEN (end - position) % Word ELSE 0]
                   /\ position' = IF failing \in {"tell_end", "seek_back"} THEN end ELSE position
                   /\ length' = length
    BY <1>7, Zenon DEF File!FileAvailable, File!Calls
  <2>2. (position - position) % Word = 0
    BY DEF FileNumbers
  <2>3. CASE failing \in {"none", "seek_end"}
    <3>1. outcome' = [call |-> "available", ok |-> TRUE, value |-> (end - position) % Word]
      BY <2>1, <2>3
    <3>2. QED
      BY <2>1, <2>2, <2>3, <3>1 DEF FileKept
  <2>4. CASE failing \notin {"none", "seek_end"}
    <3>1. outcome' = [call |-> "available", ok |-> FALSE, value |-> 0]
      <4>1. (failing \in {"none", "seek_end"}) = FALSE
        BY <2>4
      <4> HIDE <1>7
      <4>2. QED
        BY <2>1, <4>1, Zenon
    <3>2. QED
      BY <2>1, <3>1 DEF FileKept
  <2>5. QED
    BY <2>3, <2>4
<1>8. ASSUME NEW n \in Nat, NEW k \in Nat, File!FileRead(n, k) PROVE FileKept
  BY <1>8 DEF File!FileRead, File!Calls, File!Larger, File!Smaller, FileKept, FileNumbers
<1>9. ASSUME NEW n \in Nat, NEW k \in Nat, File!FileWrite(n, k) PROVE FileKept
  BY <1>9 DEF File!FileWrite, File!Calls, FileKept
<1>10. QED
  <2>1. File!Sizes \subseteq Nat
    BY DEF File!Sizes
  <2>2. QED
    BY <1>1, <1>2, <1>3, <1>4, <1>5, <1>6, <1>7, <1>8, <1>9, <2>1, Zenon DEF File!Next

-----------------------------------------------------------------------------
\* Sockets and their descriptors.

Statuses == {"none", "open", "bound", "stream", "closed"}
ConnSteps == {"idle", "init", "connect", "close"}
ConnCalls == [step : ConnSteps, addrs : Int, list : Nat]
Frames == [message : BOOLEAN, frames : Nat]

SocketTypes ==
  /\ file \in [Sockets!Fd -> Sock \cup {Program, Closed}]
  /\ sock \in [Sock -> [fd : Sockets!Fd, status : Statuses]]
  /\ call \in [Sock -> ConnCalls]

\* What s may take a descriptor for its own by: it was opened for s, or it was descriptor 0 when
\* that had been closed.
Owner(s, f) == file[f] = s \/ (f = 0 /\ robbed)

\* A socket that initconn works on is not used otherwise; a socket that is open owns its
\* descriptor, a second socket of bind or a closed stream has descriptor 0.
OwnsIts(s) ==
  /\ sock[s].status # "none" => call[s].step = "idle"
  /\ sock[s].status \in {"open", "stream"} \/ call[s].step \in {"connect", "close"} => Owner(s, sock[s].fd)
  /\ sock[s].status \in {"bound", "closed"} => sock[s].fd = 0
SocketOwns == \A s \in Sock : OwnsIts(s)

\* Whose descriptors a step closes.
ClosedBy(who) ==
  \A f \in Sockets!Fd :
    file[f] # Closed /\ file'[f] = Closed =>
      \E s \in who : file[f] = s \/ (f = 0 /\ (robbed \/ Sockets!Has(s, {"bound", "closed"})))

\* What others own, they keep.
OthersKeep(s) == \A r \in Sock \ {s}, f \in Sockets!Fd : Owner(r, f) => Owner(r, f)'

LEMMA LowestIsFree ==
  ASSUME Sockets!FreeFds # {}
  PROVE  Sockets!Min(Sockets!FreeFds) \in Sockets!FreeFds
<1>1. Sockets!FreeFds \subseteq 0..MaxFd
  BY DEF Sockets!FreeFds, Sockets!Fd
<1>2. MaxFd \in Nat
  BY SocketsAssumption
<1>3. PICK m \in Sockets!FreeFds : \A k \in Sockets!FreeFds : m <= k
  BY <1>1, <1>2, SmallestNumber
<1>4. QED
  BY <1>3 DEF Sockets!Min

\* A descriptor is opened for s alone.
LEMMA SocketOpens ==
  ASSUME SocketTypes, NEW s \in Sock, NEW status \in Statuses, Sockets!Opens(s, status), UNCHANGED robbed
  PROVE  /\ file' \in [Sockets!Fd -> Sock \cup {Program, Closed}]
         /\ OthersKeep(s) /\ ClosedBy({})
         /\ \E f \in Sockets!Fd : sock' = [sock EXCEPT ![s] = [fd |-> f, status |-> status]] /\ Owner(s, f)'
<1>1. PICK f \in Sockets!Fd : f = Sockets!Min(Sockets!FreeFds) /\ file[f] = Closed
  BY LowestIsFree DEF Sockets!Opens, Sockets!FreeFds
<1>2. file' = [file EXCEPT ![f] = s] /\ sock' = [sock EXCEPT ![s] = [fd |-> f, status |-> status]]
  BY <1>1 DEF Sockets!Opens
<1>3. file' \in [Sockets!Fd -> Sock \cup {Program, Closed}]
  BY <1>1, <1>2 DEF SocketTypes
<1>4. s # Closed
  BY SocketsAssumption
<1>5. OthersKeep(s)
  BY <1>1, <1>2, SocketsAssumption DEF OthersKeep, Owner, SocketTypes
<1>6. ClosedBy({})
  BY <1>1, <1>2, <1>4 DEF ClosedBy, SocketTypes
<1>7. Owner(s, f)'
  BY <1>1, <1>2 DEF Owner, SocketTypes
<1>8. QED
  BY <1>1, <1>2, <1>3, <1>5, <1>6, <1>7

\* A socket that is in use closes what it owns, or descriptor 0.
LEMMA SocketCloses ==
  ASSUME SocketTypes, SocketOwns, NEW s \in Sock, NEW done, Sockets!Close(s, done),
         sock[s].status # "none" \/ call[s].step = "close"
  PROVE  /\ file' \in [Sockets!Fd -> Sock \cup {Program, Closed}]
         /\ OthersKeep(s) /\ ClosedBy({s})
<1> DEFINE f == sock[s].fd
<1>1. f \in Sockets!Fd /\ sock[s].status \in Statuses /\ call[s].step \in ConnSteps
  BY DEF SocketTypes, ConnCalls
<1>2. file' = file \/ file' = [file EXCEPT ![f] = Closed]
  BY Zenon DEF Sockets!Close
<1>3. robbed => robbed'
  BY Zenon DEF Sockets!Close
<1>4. f = 0 /\ file[0] # s /\ file'[0] = Closed => robbed'
  BY Zenon DEF Sockets!Close
<1>5. (sock[s].status \in {"bound", "closed"} /\ f = 0) \/ Owner(s, f)
  BY <1>1 DEF SocketOwns, OwnsIts, Statuses
<1> HIDE DEF f
<1>6. file' \in [Sockets!Fd -> Sock \cup {Program, Closed}]
  BY <1>1, <1>2 DEF SocketTypes
<1>7. ClosedBy({s})
  BY <1>1, <1>2, <1>5 DEF ClosedBy, SocketTypes, Owner, Sockets!Has
<1>8. OthersKeep(s)
  <2> SUFFICES ASSUME NEW r \in Sock \ {s}, NEW g \in Sockets!Fd, Owner(r, g) PROVE Owner(r, g)'
    BY DEF OthersKeep
  <2>1. CASE g = 0 /\ robbed
    BY <1>3, <2>1 DEF Owner
  <2>2. CASE file[g] = r
    <3>1. CASE file'[g] = file[g]
      BY <2>2, <3>1 DEF Owner
    <3>2. CASE file'[g] # file[g]
      <4>1. g = f /\ file'[g] = Closed
        BY <1>1, <1>2, <3>2 DEF SocketTypes
      <4>2. f = 0
        BY <1>5, <2>2, <4>1 DEF Owner
      <4>3. file[0] # s
        BY <2>2, <4>1, <4>2
      <4>4. QED
        BY <1>4, <4>1, <4>2, <4>3 DEF Owner
    <3>3. QED
      BY <3>1, <3>2
  <2>3. QED
    BY <2>1, <2>2 DEF Owner
<1>9. QED
  BY <1>6, <1>7, <1>8

SocketInv == SocketTypes /\ SocketOwns

\* A step changes one socket, and takes no descriptor from the others.
LEMMA SocketMoves ==
  ASSUME SocketInv, NEW s \in Sock, OthersKeep(s),
         file' \in [Sockets!Fd -> Sock \cup {Program, Closed}],
         NEW x \in [fd : Sockets!Fd, status : Statuses], sock' = [sock EXCEPT ![s] = x],
         NEW y \in ConnCalls, call' = [call EXCEPT ![s] = y],
         x.status # "none" => y.step = "idle",
         x.status \in {"open", "stream"} \/ y.step \in {"connect", "close"} => Owner(s, x.fd)',
         x.status \in {"bound", "closed"} => x.fd = 0
  PROVE  SocketInv'
<1>1. SocketTypes'
  BY DEF SocketInv, SocketTypes
<1>2. sock'[s] = x /\ call'[s] = y
  BY DEF SocketInv, SocketTypes
<1>3. OwnsIts(s)'
  BY <1>2 DEF OwnsIts
<1>4. ASSUME NEW r \in Sock \ {s} PROVE OwnsIts(r)'
  <2>1. sock'[r] = sock[r] /\ call'[r] = call[r] /\ sock[r].fd \in Sockets!Fd
    BY DEF SocketInv, SocketTypes
  <2>2. OwnsIts(r)
    BY DEF SocketInv, SocketOwns
  <2>3. PICK f \in Sockets!Fd : f = sock[r].fd
    BY <2>1
  <2>4. Owner(r, f) => Owner(r, f)'
    BY DEF OthersKeep
  <2>5. QED
    BY <2>1, <2>2, <2>3, <2>4 DEF OwnsIts, Owner
<1>5. QED
  BY <1>1, <1>3, <1>4 DEF SocketInv, SocketOwns

\* A step that touches no descriptor takes none.
LEMMA SocketKeeps ==
  ASSUME UNCHANGED <<file, robbed>>
  PROVE  (\A s \in Sock : OthersKeep(s) /\ \A f \in Sockets!Fd : Owner(s, f) => Owner(s, f)') /\ ClosedBy({})
BY DEF OthersKeep, Owner, ClosedBy

LEMMA SocketSame ==
  ASSUME SocketInv, UNCHANGED <<file, sock, call, robbed>>
  PROVE  SocketInv' /\ ClosedBy({})
BY DEF SocketInv, SocketTypes, SocketOwns, OwnsIts, Owner, ClosedBy

\* One socket gets another status, or initconn moves on; nothing is opened or closed.
LEMMA SocketTurns ==
  ASSUME SocketInv, NEW s \in Sock, UNCHANGED file, UNCHANGED robbed,
         NEW fd \in Sockets!Fd, NEW status \in Statuses,
         sock' = [sock EXCEPT ![s] = [fd |-> fd, status |-> status]],
         NEW y \in ConnCalls, call' = [call EXCEPT ![s] = y],
         status # "none" => y.step = "idle",
         status \in {"open", "stream"} \/ y.step \in {"connect", "close"} => Owner(s, fd),
         status \in {"bound", "closed"} => fd = 0
  PROVE  SocketInv' /\ ClosedBy({})
<1>1. OthersKeep(s) /\ ClosedBy({}) /\ (Owner(s, fd) => Owner(s, fd)')
  BY SocketKeeps, Zenon
<1>2. file' \in [Sockets!Fd -> Sock \cup {Program, Closed}]
  BY DEF SocketInv, SocketTypes
<1>3. PICK x \in [fd : Sockets!Fd, status : Statuses] : x = [fd |-> fd, status |-> status]
  OBVIOUS
<1>4. x.fd = fd /\ x.status = status
  BY <1>3
<1>5. SocketInv'
  BY <1>1, <1>2, <1>3, <1>4, SocketMoves
<1>6. QED
  BY <1>1, <1>5

\* A socket gets a descriptor.
LEMMA SocketGets ==
  ASSUME SocketInv, NEW s \in Sock, NEW status \in Statuses, Sockets!Opens(s, status), UNCHANGED robbed,
         status \in {"none", "open"},
         NEW y \in ConnCalls, call' = [call EXCEPT ![s] = y],
         status # "none" => y.step = "idle"
  PROVE  SocketInv' /\ ClosedBy({})
<1>1. /\ file' \in [Sockets!Fd -> Sock \cup {Program, Closed}] /\ OthersKeep(s) /\ ClosedBy({})
      /\ \E f \in Sockets!Fd : sock' = [sock EXCEPT ![s] = [fd |-> f, status |-> status]] /\ Owner(s, f)'
  BY SocketOpens DEF SocketInv
<1>2. PICK f \in Sockets!Fd : sock' = [sock EXCEPT ![s] = [fd |-> f, status |-> status]] /\ Owner(s, f)'
  BY <1>1
<1>3. PICK x \in [fd : Sockets!Fd, status : Statuses] : x = [fd |-> f, status |-> status]
  OBVIOUS
<1>4. x.fd = f /\ x.status = status
  BY <1>3
<1>5. SocketInv'
  BY <1>1, <1>2, <1>3, <1>4, SocketMoves
<1>6. QED
  BY <1>1, <1>5

\* A socket loses its descriptor: what it has afterwards is no descriptor it would own.
LEMMA SocketLoses ==
  ASSUME SocketInv, NEW s \in Sock, NEW done, Sockets!Close(s, done),
         sock[s].status # "none" \/ call[s].step = "close",
         NEW fd \in Sockets!Fd, NEW status \in {"none", "closed"},
         sock' = [sock EXCEPT ![s] = [fd |-> fd, status |-> status]],
         NEW y \in ConnCalls, call' = [call EXCEPT ![s] = y],
         y.step \in {"idle", "init"}, status = "closed" => fd = 0 /\ y.step = "idle"
  PROVE  SocketInv' /\ ClosedBy({s})
<1>1. file' \in [Sockets!Fd -> Sock \cup {Program, Closed}] /\ OthersKeep(s) /\ ClosedBy({s})
  BY SocketCloses DEF SocketInv
<1>2. PICK x \in [fd : Sockets!Fd, status : Statuses] : x = [fd |-> fd, status |-> status]
  BY DEF Statuses
<1>3. x.fd = fd /\ x.status = status
  BY <1>2
<1>4. SocketInv'
  BY <1>1, <1>2, <1>3, SocketMoves
<1>5. QED
  BY <1>1, <1>4

LEMMA SocketParts ==
  ASSUME SocketInv, NEW s \in Sock
  PROVE  /\ sock[s].fd \in Sockets!Fd /\ sock[s].status \in Statuses
         /\ call[s] \in ConnCalls
         /\ sock = [sock EXCEPT ![s] = [fd |-> sock[s].fd, status |-> sock[s].status]]
         /\ call = [call EXCEPT ![s] = call[s]]
         /\ OwnsIts(s)
BY DEF SocketInv, SocketTypes, SocketOwns

\* Idle sockets have the step of no call.
LEMMA IdleCalls ==
  /\ Sockets!Idle \in ConnCalls
  /\ Sockets!Idle.step = "idle"
BY DEF Sockets!Idle, ConnSteps, ConnCalls

LEMMA ConnTurns ==
  ASSUME NEW c \in ConnCalls, NEW st \in ConnSteps, NEW n \in Int
  PROVE  /\ [c EXCEPT !.step = st] \in ConnCalls /\ [c EXCEPT !.addrs = n] \in ConnCalls
         /\ [c EXCEPT !.step = st, !.addrs = n] \in ConnCalls /\ c.addrs - 1 \in Int
<1>1. [c EXCEPT !.step = st] \in ConnCalls
  BY DEF ConnCalls
<1>2. [c EXCEPT !.addrs = n] \in ConnCalls
  BY DEF ConnCalls
<1>3. [c EXCEPT !.step = st, !.addrs = n] \in ConnCalls
  BY DEF ConnCalls
<1>4. c.addrs - 1 \in Int
  BY DEF ConnCalls
<1>5. QED
  BY <1>1, <1>2, <1>3, <1>4

\* What the steps of initconn do.
LEMMA ConnKeeps ==
  ASSUME SocketInv, NEW s \in Sock,
         Sockets!ConnInit(s) \/ Sockets!ConnConnect(s) \/ Sockets!ConnClose(s) \/ Sockets!ConnNotFound(s)
  PROVE  SocketInv' /\ ClosedBy({s})
<1> DEFINE y == call[s]
<1>1. /\ sock[s].fd \in Sockets!Fd /\ sock[s].status \in Statuses
      /\ y \in ConnCalls
      /\ sock = [sock EXCEPT ![s] = [fd |-> sock[s].fd, status |-> sock[s].status]]
      /\ call = [call EXCEPT ![s] = y] /\ OwnsIts(s)
  BY SocketParts
<1>2. ClosedBy({}) => ClosedBy({s})
  BY DEF ClosedBy
<1>3. PICK fd \in Sockets!Fd : fd = sock[s].fd
  BY <1>1
<1>4. y.step # "idle" => sock[s].status = "none"
  BY <1>1 DEF OwnsIts
<1>5. Sockets!Idle \in ConnCalls /\ Sockets!Idle.step = "idle"
  BY IdleCalls
\* The same with another status.
<1>set. ASSUME NEW st, sock' = [sock EXCEPT ![s].status = st] PROVE sock' = [sock EXCEPT ![s] = [fd |-> fd, status |-> st]]
  <2>1. PICK x \in [fd : Sockets!Fd, status : Statuses] : x = sock[s]
    BY DEF SocketInv, SocketTypes
  <2>2. [x EXCEPT !.status = st] = [fd |-> fd, status |-> st]
    BY <1>3, <2>1
  <2>3. QED
    BY <1>set, <2>1, <2>2
<1> HIDE DEF y
<1>6. CASE Sockets!ConnInit(s)
  <2>1. y.step = "init" /\ y.addrs > 0 /\ UNCHANGED robbed
    BY <1>6 DEF Sockets!ConnInit, Sockets!Steps, y
  <2>2. CASE Sockets!Opens(s, "none") /\ call' = [call EXCEPT ![s].step = "connect"]
    <3>1. PICK z \in ConnCalls : z = [y EXCEPT !.step = "connect"]
      BY <1>1 DEF ConnSteps, ConnCalls
    <3>2. call' = [call EXCEPT ![s] = z]
      BY <2>2, <3>1 DEF SocketInv, SocketTypes, y
    <3>3. "none" \in Statuses
      BY DEF Statuses
    <3>4. QED
      BY <1>2, <2>1, <2>2, <3>2, <3>3, SocketGets
  <2>3. CASE call' = [call EXCEPT ![s].addrs = @ - 1] /\ UNCHANGED <<file, sock>>
    <3>1. PICK z \in ConnCalls : z = [y EXCEPT !.addrs = y.addrs - 1]
      BY <1>1, ConnTurns, ZenonT(60) DEF ConnCalls, ConnSteps
    <3>2. call' = [call EXCEPT ![s] = z] /\ z.step = "init"
      BY <1>1, <2>1, <2>3, <3>1 DEF SocketInv, SocketTypes, ConnCalls, y
    <3>3. sock' = [sock EXCEPT ![s] = [fd |-> fd, status |-> "none"]]
      BY <1>1, <1>3, <1>4, <2>1, <2>3
    <3>4. "none" \in Statuses
      BY DEF Statuses
    <3>5. QED
      <4>1. UNCHANGED file /\ UNCHANGED robbed
        BY <2>1, <2>3
      <4>2. z.step \notin {"connect", "close"}
        BY <3>2
      <4>3. SocketInv' /\ ClosedBy({})
        BY <3>2, <3>3, <3>4, <4>1, <4>2, SocketTurns
      <4>4. QED
        BY <1>2, <4>3
  <2>4. QED
    BY <1>6, <2>2, <2>3 DEF Sockets!ConnInit
<1>7. CASE Sockets!ConnConnect(s)
  <2>1. y.step = "connect" /\ UNCHANGED <<file, robbed>> /\ Owner(s, fd)
    BY <1>1, <1>3, <1>7 DEF Sockets!ConnConnect, Sockets!Steps, OwnsIts, y
  <2>u. UNCHANGED file /\ UNCHANGED robbed
    BY <2>1
  <2>2. CASE call' = [call EXCEPT ![s] = Sockets!Idle] /\ sock' = [sock EXCEPT ![s].status = "open"]
    <3>1. sock' = [sock EXCEPT ![s] = [fd |-> fd, status |-> "open"]]
      BY <1>set, <2>2
    <3>2. "open" \in Statuses
      BY DEF Statuses
    <3>3. QED
      <4>1. PICK z \in ConnCalls : z = Sockets!Idle
        BY <1>5
      <4>2. z.step = "idle" /\ call' = [call EXCEPT ![s] = z] /\ Owner(s, fd)
        BY <1>5, <2>1, <2>2, <4>1
      <4>3. SocketInv' /\ ClosedBy({})
        BY <2>u, <3>1, <3>2, <4>2, SocketTurns
      <4>4. QED
        BY <1>2, <4>3
  <2>3. CASE call' = [call EXCEPT ![s].step = "close"] /\ UNCHANGED sock
    <3>1. PICK z \in ConnCalls : z = [y EXCEPT !.step = "close"]
      BY <1>1 DEF ConnSteps, ConnCalls
    <3>2. call' = [call EXCEPT ![s] = z] /\ z.step = "close"
      BY <1>1, <2>3, <3>1 DEF SocketInv, SocketTypes, ConnCalls, y
    <3>3. sock' = [sock EXCEPT ![s] = [fd |-> fd, status |-> "none"]]
      BY <1>1, <1>3, <1>4, <2>1, <2>3
    <3>4. "none" \in Statuses
      BY DEF Statuses
    <3>5. QED
      BY <1>2, <2>1, <3>2, <3>3, <3>4, SocketTurns
  <2>4. QED
    BY <1>7, <2>2, <2>3 DEF Sockets!ConnConnect
<1>8. CASE Sockets!ConnClose(s)
  <2>1. PICK done \in BOOLEAN : Sockets!Close(s, done)
    BY <1>8, Zenon DEF Sockets!ConnClose
  <2>2. y.step = "close" /\ UNCHANGED sock /\ call' = [call EXCEPT ![s].step = "init", ![s].addrs = @ - 1]
    BY <1>8, Zenon DEF Sockets!ConnClose, Sockets!Steps, y
  <2>3. PICK z \in ConnCalls : z = [y EXCEPT !.step = "init", !.addrs = y.addrs - 1]
    <3>1. "init" \in ConnSteps
      BY DEF ConnSteps
    <3>2. y.addrs - 1 \in Int
      BY <1>1 DEF ConnCalls
    <3>3. QED
      BY <1>1, <3>1, <3>2, ConnTurns
  <2>4. call' = [call EXCEPT ![s] = z] /\ z.step = "init"
    BY <1>1, <2>2, <2>3 DEF SocketInv, SocketTypes, ConnCalls, y
  <2>5. sock' = [sock EXCEPT ![s] = [fd |-> fd, status |-> "none"]]
    BY <1>1, <1>3, <1>4, <2>2
  <2>6. QED
    BY <2>1, <2>2, <2>4, <2>5, SocketLoses DEF y
<1>9. CASE Sockets!ConnNotFound(s)
  <2>1. y.step = "init" /\ call' = [call EXCEPT ![s] = Sockets!Idle] /\ UNCHANGED <<file, sock, robbed>>
    BY <1>9 DEF Sockets!ConnNotFound, Sockets!Steps, y
  <2>2. sock' = [sock EXCEPT ![s] = [fd |-> fd, status |-> "none"]]
    BY <1>1, <1>3, <1>4, <2>1
  <2>3. "none" \in Statuses
    BY DEF Statuses
  <2>4. QED
    BY <1>2, <1>5, <2>1, <2>2, <2>3, SocketTurns
<1>10. QED
  BY <1>6, <1>7, <1>8, <1>9

\* A call of an idle socket, which stays idle.
LEMMA CallKeeps ==
  ASSUME SocketInv, NEW s \in Sock, call[s] = Sockets!Idle, UNCHANGED <<file, call>>, UNCHANGED robbed,
         NEW fd \in Sockets!Fd, NEW status \in Statuses,
         sock' = [sock EXCEPT ![s] = [fd |-> fd, status |-> status]],
         status \in {"open", "stream"} => Owner(s, fd),
         status \in {"bound", "closed"} => fd = 0
  PROVE  SocketInv' /\ ClosedBy({})
<1>1. PICK z \in ConnCalls : z = Sockets!Idle
  BY IdleCalls
<1>2. z.step = "idle"
  BY <1>1, IdleCalls
<1>3. call' = [call EXCEPT ![s] = z]
  BY <1>1, SocketParts
<1>4. UNCHANGED file
  OBVIOUS
<1>5. QED
  BY <1>2, <1>3, <1>4, SocketTurns

\* A call that opens a descriptor for an idle socket.
LEMMA CallOpens ==
  ASSUME SocketInv, NEW s \in Sock, call[s] = Sockets!Idle, UNCHANGED call, UNCHANGED robbed,
         NEW status \in {"none", "open"}, Sockets!Opens(s, status)
  PROVE  SocketInv' /\ ClosedBy({})
<1>1. PICK z \in ConnCalls : z = Sockets!Idle
  BY IdleCalls
<1>2. z.step = "idle"
  BY <1>1, IdleCalls
<1>3. call' = [call EXCEPT ![s] = z]
  BY <1>1, SocketParts
<1>4. status \in Statuses
  BY DEF Statuses
<1>5. QED
  BY <1>2, <1>3, <1>4, SocketGets

\* A call that closes the descriptor of an idle socket.
LEMMA CallCloses ==
  ASSUME SocketInv, NEW s \in Sock, call[s] = Sockets!Idle, UNCHANGED call, sock[s].status # "none",
         NEW done, Sockets!Close(s, done),
         NEW fd \in Sockets!Fd, NEW status \in {"none", "closed"}, status = "closed" => fd = 0,
         sock' = [sock EXCEPT ![s] = [fd |-> fd, status |-> status]]
  PROVE  SocketInv' /\ ClosedBy({s})
<1>1. PICK z \in ConnCalls : z = Sockets!Idle
  BY IdleCalls
<1>2. z.step = "idle"
  BY <1>1, IdleCalls
<1>3. call' = [call EXCEPT ![s] = z]
  BY <1>1, SocketParts
<1>4. QED
  BY <1>2, <1>3, SocketLoses

LEMMA CallsKeep ==
  ASSUME SocketInv, NEW s \in Sock, NEW done \in BOOLEAN,
         Sockets!SocketInit(s, done) \/ Sockets!SocketClose(s, done) \/ Sockets!StreamInit(s)
         \/ Sockets!StreamClose(s, done) \/ Sockets!StreamDispose(s)
  PROVE  SocketInv' /\ ClosedBy({s})
<1>1. PICK fd \in Sockets!Fd : fd = sock[s].fd
  BY SocketParts
<1>2. PICK x \in [fd : Sockets!Fd, status : Statuses] : x = sock[s]
  BY DEF SocketInv, SocketTypes
<1>3. ASSUME NEW st, sock' = [sock EXCEPT ![s].status = st] PROVE sock' = [sock EXCEPT ![s] = [fd |-> fd, status |-> st]]
  <2>1. [x EXCEPT !.status = st] = [fd |-> fd, status |-> st]
    BY <1>1, <1>2
  <2>2. QED
    BY <1>2, <1>3, <2>1
<1>4. ClosedBy({}) => ClosedBy({s})
  BY DEF ClosedBy
<1>5. 0 \in Sockets!Fd
  BY SocketsAssumption DEF Sockets!Fd
<1>6. \A st \in {"none", "open", "bound", "stream", "closed"} : st \in Statuses
  BY DEF Statuses
<1>7. CASE Sockets!SocketInit(s, done)
  <2>1. call[s] = Sockets!Idle /\ UNCHANGED call /\ UNCHANGED robbed
    BY <1>7, Zenon DEF Sockets!SocketInit, Sockets!Calls
  <2>2. CASE UNCHANGED <<file, sock>>
    <3>1. UNCHANGED <<file, sock, call, robbed>>
      BY <2>1, <2>2, Zenon
    <3>2. QED
      BY <1>4, <3>1, SocketSame, Zenon
  <2>3. CASE Sockets!Opens(s, "open")
    BY <1>4, <2>1, <2>3, CallOpens
  <2>4. QED
    BY <1>7, <2>2, <2>3, Zenon DEF Sockets!SocketInit
<1>8. CASE Sockets!SocketClose(s, done)
  <2>1. call[s] = Sockets!Idle /\ UNCHANGED call /\ Sockets!Close(s, done)
    BY <1>8, Zenon DEF Sockets!SocketClose, Sockets!Calls
  <2>2. sock[s].status # "none" /\ sock' = [sock EXCEPT ![s] = [fd |-> fd, status |-> "none"]]
    BY <1>3, <1>8 DEF Sockets!SocketClose, Sockets!Has, Sockets!Usable
  <2>3. QED
    BY <2>1, <2>2, CallCloses
<1>9. CASE Sockets!StreamInit(s)
  <2>1. call[s] = Sockets!Idle /\ UNCHANGED <<file, call>> /\ UNCHANGED robbed
    BY <1>9, Zenon DEF Sockets!StreamInit, Sockets!Calls
  <2>2. sock[s].status = "open" /\ sock' = [sock EXCEPT ![s] = [fd |-> fd, status |-> "stream"]]
    BY <1>3, <1>9 DEF Sockets!StreamInit, Sockets!Has
  <2>3. Owner(s, fd)
    BY <1>1, <2>2, SocketParts DEF OwnsIts
  <2>4. QED
    BY <1>4, <1>6, <2>1, <2>2, <2>3, CallKeeps
<1>10. CASE Sockets!StreamClose(s, done)
  <2>1. call[s] = Sockets!Idle /\ UNCHANGED call /\ Sockets!Close(s, done)
    BY <1>10, Zenon DEF Sockets!StreamClose, Sockets!Calls
  <2>2. sock[s].status # "none"
    BY <1>10 DEF Sockets!StreamClose, Sockets!Has
  <2>3. \/ sock' = [sock EXCEPT ![s] = [fd |-> 0, status |-> "closed"]]
        \/ sock' = [sock EXCEPT ![s].status = "none"]
    BY <1>10, Zenon DEF Sockets!StreamClose
  <2>4. CASE sock' = [sock EXCEPT ![s] = [fd |-> 0, status |-> "closed"]]
    BY <1>5, <2>1, <2>2, <2>4, CallCloses
  <2>5. CASE sock' = [sock EXCEPT ![s].status = "none"]
    <3>1. sock' = [sock EXCEPT ![s] = [fd |-> fd, status |-> "none"]]
      BY <1>3, <2>5
    <3>2. QED
      BY <2>1, <2>2, <3>1, CallCloses
  <2>6. QED
    BY <2>3, <2>4, <2>5
<1>11. CASE Sockets!StreamDispose(s)
  <2>1. call[s] = Sockets!Idle /\ UNCHANGED <<file, call>> /\ UNCHANGED robbed
    BY <1>11, Zenon DEF Sockets!StreamDispose, Sockets!Calls
  <2>2. sock' = [sock EXCEPT ![s] = [fd |-> 0, status |-> "none"]]
    BY <1>11, Zenon DEF Sockets!StreamDispose
  <2>3. QED
    BY <1>4, <1>5, <1>6, <2>1, <2>2, CallKeeps
<1>12. QED
  BY <1>7, <1>8, <1>9, <1>10, <1>11

LEMMA PairsKeep ==
  ASSUME SocketInv, NEW s \in Sock, NEW r \in Sock, NEW outcomeOf, NEW fails \in BOOLEAN,
         Sockets!Accept(s, r, outcomeOf) \/ Sockets!Bind(s, r, fails)
  PROVE  SocketInv' /\ ClosedBy({})
<1>1. 0 \in Sockets!Fd
  BY SocketsAssumption DEF Sockets!Fd
<1>2. call[r] = Sockets!Idle /\ UNCHANGED call /\ UNCHANGED robbed
  BY Zenon DEF Sockets!Accept, Sockets!Bind
<1>3. CASE UNCHANGED <<file, sock>>
  <2>1. UNCHANGED <<file, sock, call, robbed>>
    BY <1>2, <1>3, Zenon
  <2>2. QED
    BY <2>1, SocketSame, Zenon
<1>4. CASE Sockets!Opens(r, "open") \/ Sockets!Opens(r, "none")
  BY <1>2, <1>4, CallOpens
<1>5. CASE UNCHANGED file /\ sock' = [sock EXCEPT ![r] = [fd |-> 0, status |-> "bound"]]
  <2>1. "bound" \in Statuses
    BY DEF Statuses
  <2>2. UNCHANGED <<file, call>>
    BY <1>2, <1>5
  <2>3. QED
    BY <1>1, <1>2, <1>5, <2>1, <2>2, CallKeeps
<1>6. QED
  BY <1>3, <1>4, <1>5, Zenon DEF Sockets!Accept, Sockets!Bind

LEMMA ResolveKeeps ==
  ASSUME SocketInv, NEW s \in Sock, NEW n \in 0..2, NEW fails \in BOOLEAN, Sockets!Resolve(s, n, fails)
  PROVE  SocketInv' /\ ClosedBy({})
<1>1. sock[s].status = "none" /\ UNCHANGED file /\ UNCHANGED sock /\ UNCHANGED robbed
  BY DEF Sockets!Resolve, Sockets!Has
<1>2. \/ UNCHANGED call
      \/ call' = [call EXCEPT ![s] = [step |-> "init", addrs |-> n, list |-> IF n = 0 THEN 0 ELSE 1]]
  BY Zenon DEF Sockets!Resolve
<1>3. CASE UNCHANGED call
  <2>1. UNCHANGED <<file, sock, call, robbed>>
    BY <1>1, <1>3, Zenon
  <2>2. QED
    BY <2>1, SocketSame, Zenon
<1>4. CASE call' = [call EXCEPT ![s] = [step |-> "init", addrs |-> n, list |-> IF n = 0 THEN 0 ELSE 1]]
  <2>1. PICK y \in ConnCalls : y = [step |-> "init", addrs |-> n, list |-> IF n = 0 THEN 0 ELSE 1]
    <3>1. PICK k \in Nat : k = IF n = 0 THEN 0 ELSE 1
      OBVIOUS
    <3>2. [step |-> "init", addrs |-> n, list |-> k] \in ConnCalls
      BY DEF ConnCalls, ConnSteps
    <3>3. QED
      BY <3>1, <3>2
  <2>2. PICK fd \in Sockets!Fd : fd = sock[s].fd
    BY SocketParts
  <2>3. sock' = [sock EXCEPT ![s] = [fd |-> fd, status |-> "none"]]
    BY <1>1, <2>2, SocketParts
  <2>4. "none" \in Statuses
    BY DEF Statuses
  <2>5. y.step = "init" /\ call' = [call EXCEPT ![s] = y]
    BY <1>4, <2>1
  <2>6. QED
    BY <1>1, <2>3, <2>4, <2>5, SocketTurns
<1>5. QED
  BY <1>2, <1>3, <1>4

LEMMA SocketStarts == Sockets!Init => SocketInv
<1> SUFFICES ASSUME Sockets!Init PROVE SocketInv
  OBVIOUS
<1>1. MaxFd \in Sockets!Fd
  BY SocketsAssumption DEF Sockets!Fd
<1>2. SocketTypes
  BY <1>1 DEF Sockets!Init, Sockets!Idle, SocketTypes, ConnCalls, ConnSteps, Statuses
<1>3. SocketOwns
  BY DEF Sockets!Init, Sockets!Idle, SocketOwns, OwnsIts
<1>4. QED
  BY <1>2, <1>3 DEF SocketInv

\* Only the socket that moves closes descriptors, and only those it may.
LEMMA SocketKeepsInv ==
  ASSUME SocketInv, [Sockets!Next]_Sockets!vars
  PROVE  SocketInv' /\ (Sockets!Next => ClosedBy(IF last'.socket \in Sock THEN {last'.socket} ELSE {}))
<1> DEFINE Mover == IF last'.socket \in Sock THEN {last'.socket} ELSE {}
<1>1. CASE UNCHANGED Sockets!vars
  <2>1. UNCHANGED <<file, sock, call, robbed>>
    BY <1>1, Zenon DEF Sockets!vars
  <2>2. SocketInv' /\ ClosedBy({})
    BY <2>1, SocketSame, Zenon
  <2>3. QED
    BY <2>2 DEF ClosedBy
<1>2. ClosedBy({}) => ClosedBy(Mover)
  BY DEF ClosedBy
<1>3. ASSUME NEW s \in Sock, NEW step, last' = [socket |-> s, step |-> step] PROVE Mover = {s}
  BY <1>3
<1> HIDE DEF Mover
<1>4. ASSUME Sockets!HandleError PROVE SocketInv' /\ ClosedBy(Mover)
  <2>1. UNCHANGED <<file, sock, call, robbed>>
    BY <1>4, Zenon DEF Sockets!HandleError
  <2>2. QED
    BY <1>2, <2>1, SocketSame, Zenon DEF Mover
<1>5. ASSUME NEW s \in Sock, NEW done \in BOOLEAN,
             Sockets!SocketInit(s, done) \/ Sockets!SocketClose(s, done) \/ Sockets!StreamInit(s)
             \/ Sockets!StreamClose(s, done) \/ Sockets!StreamDispose(s)
      PROVE  SocketInv' /\ ClosedBy(Mover)
  <2>1. SocketInv' /\ ClosedBy({s})
    BY <1>5, CallsKeep, Zenon
  <2>2. \E step : last' = [socket |-> s, step |-> step]
    BY <1>5, Zenon DEF Sockets!SocketInit, Sockets!SocketClose, Sockets!StreamInit, Sockets!StreamClose,
                       Sockets!StreamDispose, Sockets!Calls
  <2>3. QED
    BY <1>3, <2>1, <2>2, Zenon
<1>6. ASSUME NEW s \in Sock,
             Sockets!ConnInit(s) \/ Sockets!ConnConnect(s) \/ Sockets!ConnClose(s) \/ Sockets!ConnNotFound(s)
      PROVE  SocketInv' /\ ClosedBy(Mover)
  <2>1. SocketInv' /\ ClosedBy({s})
    BY <1>6, ConnKeeps, Zenon
  <2>2. \E step : last' = [socket |-> s, step |-> step]
    BY <1>6, Zenon DEF Sockets!ConnInit, Sockets!ConnConnect, Sockets!ConnClose, Sockets!ConnNotFound, Sockets!Steps
  <2>3. QED
    BY <1>3, <2>1, <2>2, Zenon
<1>7. ASSUME NEW s \in Sock, NEW frames, NEW late,
             Sockets!Ask(s, frames) \/ Sockets!StreamAsk(s, late)
      PROVE  SocketInv' /\ ClosedBy(Mover)
  <2>1. UNCHANGED <<file, sock, call, robbed>>
    BY <1>7, Zenon DEF Sockets!Ask, Sockets!StreamAsk
  <2>2. QED
    BY <1>2, <2>1, SocketSame, Zenon
<1>8. ASSUME NEW s \in Sock, NEW n \in 0..2, NEW fails \in BOOLEAN, Sockets!Resolve(s, n, fails)
      PROVE  SocketInv' /\ ClosedBy(Mover)
  BY <1>2, <1>8, ResolveKeeps
<1>9. ASSUME NEW s \in Sock, NEW r \in Sock, NEW outcomeOf, NEW fails \in BOOLEAN,
             Sockets!Accept(s, r, outcomeOf) \/ Sockets!Bind(s, r, fails)
      PROVE  SocketInv' /\ ClosedBy(Mover)
  BY <1>2, <1>9, PairsKeep, Zenon
<1>10. CASE Sockets!Next
  <2> DEFINE Goal == SocketInv' /\ ClosedBy(Mover)
  <2> HIDE DEF Goal
  <2>a. ASSUME NEW s \in Sock, Sockets!StreamInit(s) \/ Sockets!StreamDispose(s) PROVE Goal
    <3>1. TRUE \in BOOLEAN
      OBVIOUS
    <3>2. QED
      BY <1>5, <2>a, <3>1, Zenon DEF Goal
  <2>b. ASSUME NEW s \in Sock, NEW r \in Sock, NEW outcomeOf, Sockets!Accept(s, r, outcomeOf) PROVE Goal
    <3>1. TRUE \in BOOLEAN
      OBVIOUS
    <3>2. QED
      BY <1>9, <2>b, <3>1, Zenon DEF Goal
  <2>c. ASSUME NEW s \in Sock, NEW done \in BOOLEAN,
               Sockets!SocketInit(s, done) \/ Sockets!SocketClose(s, done) \/ Sockets!StreamClose(s, done)
        PROVE  Goal
    BY <1>5, <2>c, Zenon DEF Goal
  <2>d. ASSUME NEW s \in Sock, NEW x, Sockets!Ask(s, x) \/ Sockets!StreamAsk(s, x) PROVE Goal
    BY <1>7, <2>d, Zenon DEF Goal
  <2>e. ASSUME NEW s \in Sock, NEW n \in 0..2, NEW fails \in BOOLEAN, Sockets!Resolve(s, n, fails) PROVE Goal
    BY <1>8, <2>e, Zenon DEF Goal
  <2>f. ASSUME NEW s \in Sock, NEW r \in Sock, NEW fails \in BOOLEAN, Sockets!Bind(s, r, fails) PROVE Goal
    BY <1>9, <2>f, Zenon DEF Goal
  <2>g. ASSUME NEW s \in Sock,
               Sockets!ConnInit(s) \/ Sockets!ConnConnect(s) \/ Sockets!ConnClose(s) \/ Sockets!ConnNotFound(s)
        PROVE  Goal
    BY <1>6, <2>g, Zenon DEF Goal
  <2>h. ASSUME Sockets!HandleError PROVE Goal
    BY <1>4, <2>h, Zenon DEF Goal
  <2>i. Goal
    BY <1>10, <2>a, <2>b, <2>c, <2>d, <2>e, <2>f, <2>g, <2>h, Zenon DEF Sockets!Next
  <2>j. QED
    BY <2>i DEF Goal, Mover
<1>11. QED
  BY <1>1, <1>10

LEMMA SocketClosesItsOwn ==
  ASSUME SocketInv, [Sockets!Next]_Sockets!vars
  PROVE  [\A f \in Sockets!Fd :
            file[f] # Closed /\ file'[f] = Closed =>
              \/ file[f] = last'.socket
              \/ f = 0 /\ (robbed \/ Sockets!Has(last'.socket, {"bound", "closed"}))]_Sockets!vars
<1>1. CASE UNCHANGED Sockets!vars
  BY <1>1
<1>2. CASE Sockets!Next
  BY <1>2, SocketKeepsInv DEF ClosedBy
<1>3. QED
  BY <1>1, <1>2

-----------------------------------------------------------------------------
\* What the sockets lose.

\* What an error owns.
LEMMA BlocksOfErrors ==
  /\ Sockets!ErrorBlocks(<<>>) = 0
  /\ \A e \in Seq(Frames) : Sockets!ErrorBlocks(e) \in Nat
  /\ \A e \in Frames : Sockets!ErrorBlocks(<<e>>) = 1 + (IF e.message THEN 1 ELSE 0) + e.frames
<1> DEFINE Of(e) == [i \in 1..Len(e) |-> 1 + (IF e[i].message THEN 1 ELSE 0) + e[i].frames]
<1>1. \A e : Sockets!ErrorBlocks(e) = SumFunctionOnSet(Of(e), DOMAIN Of(e))
  BY Zenon DEF Sockets!ErrorBlocks, Sockets!SumFunction, Sockets!SumFunctionOnSet, SumFunctionOnSet,
     Sockets!FoldFunctionOnSet, FoldFunctionOnSet, Sockets!MapThenFoldSet, MapThenFoldSet
<1>2. \A e \in Seq(Frames) : DOMAIN Of(e) = 1..Len(e) /\ IsFiniteSet(1..Len(e)) /\ \A i \in 1..Len(e) : Of(e)[i] \in Nat
  <2> SUFFICES ASSUME NEW e \in Seq(Frames)
               PROVE  DOMAIN Of(e) = 1..Len(e) /\ IsFiniteSet(1..Len(e)) /\ \A i \in 1..Len(e) : Of(e)[i] \in Nat
    OBVIOUS
  <2>1. IsFiniteSet(1..Len(e))
    BY FS_Interval
  <2>2. ASSUME NEW i \in 1..Len(e) PROVE Of(e)[i] \in Nat
    <3>1. e[i] \in Frames
      OBVIOUS
    <3>2. e[i].frames \in Nat /\ (IF e[i].message THEN 1 ELSE 0) \in Nat
      BY <3>1 DEF Frames
    <3>3. QED
      BY <3>2
  <2>3. QED
    BY <2>1, <2>2
<1> HIDE DEF Of
<1>3. \A e \in Seq(Frames) : Sockets!ErrorBlocks(e) \in Nat
  BY <1>1, <1>2, SumType
<1>4. Sockets!ErrorBlocks(<<>>) = 0
  <2>1. DOMAIN Of(<<>>) = {} /\ IsFiniteSet({})
    BY FS_EmptySet DEF Of
  <2>2. QED
    BY <1>1, <2>1, SumTurn
<1>5. ASSUME NEW e \in Frames PROVE Sockets!ErrorBlocks(<<e>>) = 1 + (IF e.message THEN 1 ELSE 0) + e.frames
  <2>1. <<e>> \in Seq(Frames) /\ Len(<<e>>) = 1 /\ 1..1 = {1}
    OBVIOUS
  <2>2. Of(<<e>>)[1] = 1 + (IF e.message THEN 1 ELSE 0) + e.frames
    BY <2>1 DEF Of
  <2>3. \A i \in {1} : Of(<<e>>)[i] \in Nat
    BY <1>2, <2>1
  <2>4. IsFiniteSet({1}) /\ {1} \ {1} = {} /\ IsFiniteSet({})
    BY FS_Singleton, FS_EmptySet
  <2>5. SumFunctionOnSet(Of(<<e>>), {1}) = Of(<<e>>)[1] + SumFunctionOnSet(Of(<<e>>), {1} \ {1})
    BY <2>3, <2>4, SumWithout
  <2>6. SumFunctionOnSet(Of(<<e>>), {}) = 0
    BY <2>4, SumTurn
  <2>7. Of(<<e>>)[1] \in Nat
    BY <2>3
  <2>8. SumFunctionOnSet(Of(<<e>>), {1}) = Of(<<e>>)[1]
    BY <2>4, <2>5, <2>6, <2>7
  <2>9. DOMAIN Of(<<e>>) = {1}
    BY <1>2, <2>1
  <2>10. QED
    BY <1>1, <2>2, <2>8, <2>9
<1>6. QED
  BY <1>3, <1>4, <1>5

\* The errors of the calls.
LEMMA SocketErrors ==
  /\ \A n \in Nat : Sockets!SocketError(n) \in Seq(Frames) /\ Sockets!ErrorBlocks(Sockets!SocketError(n)) = n + 2
  /\ Sockets!SocketError(1) # <<>> /\ Sockets!SocketError(2) # <<>>
<1>1. ASSUME NEW n \in Nat
      PROVE  Sockets!SocketError(n) \in Seq(Frames) /\ Sockets!ErrorBlocks(Sockets!SocketError(n)) = n + 2
  <2>1. PICK e \in Frames : e = [message |-> TRUE, frames |-> n]
    BY DEF Frames
  <2>2. Sockets!ErrorBlocks(<<e>>) = 1 + (IF e.message THEN 1 ELSE 0) + e.frames
    BY BlocksOfErrors
  <2>3. e.message /\ e.frames = n
    BY <2>1
  <2>4. Sockets!SocketError(n) = <<e>>
    BY <2>1 DEF Sockets!SocketError
  <2>5. QED
    BY <2>2, <2>3, <2>4
<1>2. QED
  BY <1>1 DEF Sockets!SocketError

\* An error of a stream, with a message if it is late.
StreamError(late) == Sockets!Thrown(Sockets!error_new(late, <<>>))
LEMMA StreamErrors ==
  ASSUME NEW late \in BOOLEAN
  PROVE  /\ StreamError(late) \in Seq(Frames) /\ StreamError(late) # <<>>
         /\ Sockets!ErrorBlocks(StreamError(late)) \in Nat
         /\ Head(StreamError(late)).message = late
<1>1. PICK e \in Frames : e = [message |-> late, frames |-> 0]
  BY DEF Frames
<1>2. Sockets!error_new(late, <<>>) = <<e>>
  BY <1>1 DEF Sockets!error_new
<1>3. PICK h \in Frames : h = [e EXCEPT !.frames = e.frames + 1]
  <2>1. e.frames + 1 \in Nat
    BY DEF Frames
  <2>2. \A n \in Nat : [e EXCEPT !.frames = n] \in Frames
    BY DEF Frames
  <2>3. QED
    BY <2>1, <2>2
<1>4. StreamError(late) = <<h>>
  BY <1>2, <1>3 DEF StreamError, Sockets!Thrown
<1>5. h.message = late
  BY <1>1, <1>3 DEF Frames
<1>6. <<h>> \in Seq(Frames)
  OBVIOUS
<1>7. Sockets!ErrorBlocks(<<h>>) \in Nat
  BY <1>6, BlocksOfErrors
<1>8. QED
  BY <1>4, <1>5, <1>6, <1>7

LossTypes == heap \in Int /\ error \in Seq(Frames)

\* How many lists of addresses are held by the calls.
Lists == Sockets!SumFunctionOnSet([s \in Sock |-> call[s].list], Sock)

LEMMA ListsAre ==
  Lists = SumFunctionOnSet([s \in Sock |-> call[s].list], Sock)
BY Zenon DEF Lists, Sockets!SumFunctionOnSet, SumFunctionOnSet,
     Sockets!FoldFunctionOnSet, FoldFunctionOnSet, Sockets!MapThenFoldSet, MapThenFoldSet

LEMMA LostBlocksAre == Sockets!LostBlocks = heap - Sockets!ErrorBlocks(error) - Lists
BY Zenon DEF Sockets!LostBlocks, Lists

\* The lists change with the call of one socket.
LEMMA ListsChange ==
  ASSUME SocketTypes, NEW s \in Sock, NEW c \in [Sock -> ConnCalls], \A r \in Sock \ {s} : c[r] = call[r]
  PROVE  /\ SumFunctionOnSet([r \in Sock |-> c[r].list], Sock) = Lists - call[s].list + c[s].list
         /\ Lists \in Nat /\ call[s].list \in Nat /\ c[s].list \in Nat
<1> DEFINE f == [r \in Sock |-> call[r].list]
           g == [r \in Sock |-> c[r].list]
<1>1. \A r \in Sock : f[r] \in Nat /\ g[r] \in Nat
  BY DEF SocketTypes, ConnCalls
<1>2. \A r \in Sock \ {s} : g[r] = f[r]
  OBVIOUS
<1>3. f[s] = call[s].list /\ g[s] = c[s].list
  OBVIOUS
<1>4. Lists = SumFunctionOnSet(f, Sock)
  BY ListsAre
<1> HIDE DEF f, g
<1>5. SumFunctionOnSet(g, Sock) = SumFunctionOnSet(f, Sock) - f[s] + g[s] /\ SumFunctionOnSet(f, Sock) \in Nat
  BY <1>1, <1>2, SocketsAssumption, SumChange
<1>6. QED
  BY <1>1, <1>3, <1>4, <1>5 DEF g

\* What a step does to the blocks that are lost.
LEMMA BlocksMove ==
  ASSUME SocketTypes, SocketTypes', LossTypes, LossTypes', NEW s \in Sock, \A r \in Sock \ {s} : call'[r] = call[r]
  PROVE  /\ Sockets!LostBlocks' - Sockets!LostBlocks =
              (heap' - heap) - (Sockets!ErrorBlocks(error') - Sockets!ErrorBlocks(error)) - (call'[s].list - call[s].list)
         /\ Sockets!ErrorBlocks(error') \in Nat /\ Sockets!ErrorBlocks(error) \in Nat
<1>1. PICK c \in [Sock -> ConnCalls] : c = call'
  BY DEF SocketTypes
<1>2. /\ SumFunctionOnSet([r \in Sock |-> c[r].list], Sock) = Lists - call[s].list + c[s].list
      /\ Lists \in Nat /\ call[s].list \in Nat /\ c[s].list \in Nat
  BY <1>1, ListsChange
<1>3. Lists' = SumFunctionOnSet([r \in Sock |-> c[r].list], Sock)
  <2>1. Lists' = SumFunctionOnSet([r \in Sock |-> call'[r].list], Sock)
    BY Zenon DEF Lists, Sockets!SumFunctionOnSet, SumFunctionOnSet,
       Sockets!FoldFunctionOnSet, FoldFunctionOnSet, Sockets!MapThenFoldSet, MapThenFoldSet
  <2>2. QED
    BY <1>1, <2>1
<1>4. Sockets!ErrorBlocks(error') \in Nat /\ Sockets!ErrorBlocks(error) \in Nat
  BY BlocksOfErrors DEF LossTypes
<1>5. Sockets!LostBlocks = heap - Sockets!ErrorBlocks(error) - Lists
  BY LostBlocksAre
<1>6. Sockets!LostBlocks' = heap' - Sockets!ErrorBlocks(error') - Lists'
  BY Zenon DEF Sockets!LostBlocks, Lists
<1>7. heap \in Int /\ heap' \in Int
  BY DEF LossTypes
<1>8. Lists' = Lists - call[s].list + call'[s].list /\ call'[s].list \in Nat
  BY <1>1, <1>2, <1>3
<1> DEFINE before == Sockets!ErrorBlocks(error)
           after == Sockets!ErrorBlocks(error')
<1>9. before \in Nat /\ after \in Nat
  BY <1>4
<1>10. Sockets!LostBlocks = heap - before - Lists /\ Sockets!LostBlocks' = heap' - after - Lists'
  BY <1>5, <1>6
<1> HIDE DEF before, after
<1>11. Sockets!LostBlocks' - Sockets!LostBlocks = (heap' - heap) - (after - before) - (call'[s].list - call[s].list)
  BY <1>2, <1>7, <1>8, <1>9, <1>10
<1>12. QED
  BY <1>9, <1>11 DEF before, after

\* A step that leaves the calls alone.
LEMMA BlocksStay ==
  ASSUME LossTypes, LossTypes', SocketTypes, UNCHANGED call
  PROVE  /\ Sockets!LostBlocks' - Sockets!LostBlocks =
              (heap' - heap) - (Sockets!ErrorBlocks(error') - Sockets!ErrorBlocks(error))
         /\ Sockets!ErrorBlocks(error') \in Nat /\ Sockets!ErrorBlocks(error) \in Nat
<1>1. Lists' = Lists
  BY Zenon DEF Lists
<1>2. Lists \in Nat
  <2>1. \A r \in Sock : [s \in Sock |-> call[s].list][r] \in Nat
    BY DEF SocketTypes, ConnCalls
  <2>2. QED
    BY <2>1, ListsAre, SocketsAssumption, SumType
<1>3. Sockets!ErrorBlocks(error') \in Nat /\ Sockets!ErrorBlocks(error) \in Nat
  BY BlocksOfErrors DEF LossTypes
<1>4. Sockets!LostBlocks = heap - Sockets!ErrorBlocks(error) - Lists
  BY LostBlocksAre
<1>5. Sockets!LostBlocks' = heap' - Sockets!ErrorBlocks(error') - Lists'
  BY Zenon DEF Sockets!LostBlocks, Lists
<1>6. heap \in Int /\ heap' \in Int
  BY DEF LossTypes
<1> DEFINE before == Sockets!ErrorBlocks(error)
           after == Sockets!ErrorBlocks(error')
<1>7. before \in Nat /\ after \in Nat
  BY <1>3
<1>8. Sockets!LostBlocks = heap - before - Lists /\ Sockets!LostBlocks' = heap' - after - Lists
  BY <1>1, <1>4, <1>5
<1> HIDE DEF before, after
<1>9. Sockets!LostBlocks' - Sockets!LostBlocks = (heap' - heap) - (after - before)
  BY <1>2, <1>6, <1>7, <1>8
<1>10. QED
  BY <1>7, <1>9 DEF before, after

\* No descriptor is lost by a step of s that opens descriptors for s alone and keeps what s has.
LEMMA FdsKept ==
  ASSUME SocketTypes, NEW s \in Sock,
         \A r \in Sock \ {s} : sock'[r] = sock[r] /\ call'[r] = call[r],
         \A f \in Sockets!Fd : file'[f] = file[f] \/ file'[f] = Closed \/ (file'[f] = s /\ Sockets!Keeps(s, f)'),
         \A f \in Sockets!Fd : file'[f] = s /\ file[f] = s /\ Sockets!Keeps(s, f) => Sockets!Keeps(s, f)'
  PROVE  Sockets!LostFds' \subseteq Sockets!LostFds
<1> SUFFICES ASSUME NEW f \in Sockets!Fd, NEW r \in Sock, file'[f] = r, ~Sockets!Keeps(r, f)'
             PROVE  file[f] = r /\ ~Sockets!Keeps(r, f)
  BY DEF Sockets!LostFds
<1>1. r # Closed
  BY SocketsAssumption
<1>2. CASE r = s
  BY <1>1, <1>2
<1>3. CASE r # s
  BY <1>1, <1>3 DEF Sockets!Keeps
<1>4. QED
  BY <1>2, <1>3

\* What LosesOnlyThere says of a step: where descriptors may be lost, and how many blocks are.
FdsExplained(s) ==
  ~(Sockets!LostFds' \subseteq Sockets!LostFds) =>
    \/ last'.step = "accept" /\ error' # <<>>
    \/ last'.step = "bind" /\ Sockets!Has(s, {"open"}) /\ sock'[s].status = "bound"
    \/ last'.step \in {"close", "stream_close"} /\ file'[sock[s].fd] = s /\ heap' # heap
    \/ last'.step = "stream_dispose" /\ file'[sock[s].fd] = s /\ Sockets!Has(s, {"stream"})
BlocksNamed(s) ==
  CASE last'.step \in {"connect", "init"} /\ call'[s] = Sockets!Idle -> call[s].list
    [] last'.step = "close" /\ call[s] # Sockets!Idle /\ heap' # heap -> 3
    [] last'.step \in {"stream_close", "stream_ask"} /\ error' # <<>> /\ ~Head(error').message -> 3
    [] OTHER -> 0
BlocksExplained(s) == Sockets!LostBlocks' - Sockets!LostBlocks = BlocksNamed(s)
Explained(s) == LossTypes' /\ FdsExplained(s) /\ BlocksExplained(s)

\* A call whose error is the only thing that is allocated.
LEMMA PlainBlocks ==
  ASSUME SocketInv, LossTypes, error = <<>>, UNCHANGED call,
         NEW e \in Seq(Frames), error' = e, heap' = heap + Sockets!ErrorBlocks(e)
  PROVE  LossTypes' /\ Sockets!LostBlocks' - Sockets!LostBlocks = 0
<1>1. Sockets!ErrorBlocks(e) \in Nat /\ Sockets!ErrorBlocks(error) = 0
  BY BlocksOfErrors
<1>2. LossTypes'
  BY <1>1 DEF LossTypes
<1>3. /\ Sockets!LostBlocks' - Sockets!LostBlocks =
           (heap' - heap) - (Sockets!ErrorBlocks(error') - Sockets!ErrorBlocks(error))
  BY <1>2, BlocksStay DEF SocketInv
<1>4. heap \in Int
  BY DEF LossTypes
<1> DEFINE n == Sockets!ErrorBlocks(e)
<1>5. n \in Nat /\ heap' = heap + n /\ Sockets!LostBlocks' - Sockets!LostBlocks = (heap' - heap) - (n - 0)
  BY <1>1, <1>3
<1> HIDE DEF n
<1>6. Sockets!LostBlocks' - Sockets!LostBlocks = 0
  BY <1>4, <1>5
<1>7. QED
  BY <1>2, <1>6

LEMMA FailsPlainly ==
  ASSUME SocketInv, LossTypes, error = <<>>, UNCHANGED call, NEW n \in Nat,
         Sockets!Fails(Sockets!SocketError(n)) \/ Sockets!Succeeds
  PROVE  LossTypes' /\ Sockets!LostBlocks' - Sockets!LostBlocks = 0
<1>1. CASE Sockets!Fails(Sockets!SocketError(n))
  BY <1>1, SocketErrors, PlainBlocks DEF Sockets!Fails
<1>2. CASE Sockets!Succeeds
  <2>1. heap \in Int /\ Sockets!ErrorBlocks(<<>>) = 0 /\ <<>> \in Seq(Frames)
    BY BlocksOfErrors DEF LossTypes
  <2>2. heap' = heap + Sockets!ErrorBlocks(<<>>) /\ error' = <<>>
    BY <1>2, <2>1 DEF Sockets!Succeeds
  <2>3. QED
    BY <2>1, <2>2, PlainBlocks
<1>3. QED
  BY <1>1, <1>2

\* The steps that lose no blocks.
LEMMA NamesNone ==
  ASSUME SocketInv, NEW s \in Sock, NEW step, last' = [socket |-> s, step |-> step], call[s] = Sockets!Idle,
         \/ step \in {"resolve", "accept", "bind", "ask", "stream", "stream_dispose", "close"}
         \/ step = "init" /\ UNCHANGED call
         \/ step \in {"stream_close", "stream_ask"} /\ (error' = <<>> \/ Head(error').message)
  PROVE  BlocksNamed(s) = 0
BY DEF BlocksNamed, Sockets!Idle

\* Nothing happens to the descriptors.
LEMMA FdsStay ==
  ASSUME SocketInv, UNCHANGED <<file, sock>>, UNCHANGED call
  PROVE  Sockets!LostFds' = Sockets!LostFds
BY DEF Sockets!LostFds, Sockets!Keeps

\* A socket that had nothing opens a descriptor and keeps it.
LEMMA FdsOpen ==
  ASSUME SocketInv, SocketInv', NEW s \in Sock, NEW status \in {"none", "open"}, Sockets!Opens(s, status),
         sock[s].status = "none", call[s].step \notin {"connect", "close"},
         \A r \in Sock \ {s} : call'[r] = call[r],
         status = "open" \/ call'[s].step = "connect"
  PROVE  Sockets!LostFds' \subseteq Sockets!LostFds
<1>1. PICK f \in Sockets!Fd : f = Sockets!Min(Sockets!FreeFds)
  BY LowestIsFree DEF Sockets!Opens, Sockets!FreeFds
<1>2. file' = [file EXCEPT ![f] = s] /\ sock' = [sock EXCEPT ![s] = [fd |-> f, status |-> status]]
  BY <1>1 DEF Sockets!Opens
<1>3. Sockets!Keeps(s, f)'
  BY <1>2 DEF Sockets!Keeps, SocketInv, SocketTypes
<1>4. \A r \in Sock \ {s} : sock'[r] = sock[r] /\ call'[r] = call[r]
  BY <1>2 DEF SocketInv, SocketTypes
<1>5. \A g \in Sockets!Fd : file'[g] = file[g] \/ (g = f /\ file'[g] = s)
  BY <1>2 DEF SocketInv, SocketTypes
<1>6. \A g \in Sockets!Fd : ~Sockets!Keeps(s, g)
  BY DEF Sockets!Keeps
<1>7. SocketTypes
  BY DEF SocketInv
<1>8. \A g \in Sockets!Fd : file'[g] = file[g] \/ file'[g] = Closed \/ (file'[g] = s /\ Sockets!Keeps(s, g)')
  BY <1>3, <1>5
<1>9. QED
  BY <1>4, <1>6, <1>7, <1>8, FdsKept

\* Closing loses a descriptor only if it stays open for the socket.
LEMMA FdsClose ==
  ASSUME SocketInv, NEW s \in Sock, NEW done, Sockets!Close(s, done),
         \A r \in Sock \ {s} : sock'[r] = sock[r] /\ call'[r] = call[r],
         ~(Sockets!LostFds' \subseteq Sockets!LostFds)
  PROVE  file'[sock[s].fd] = s /\ ~done
<1>1. file' = file \/ file' = [file EXCEPT ![sock[s].fd] = Closed]
  BY Zenon DEF Sockets!Close
<1>2. done => file' = [file EXCEPT ![sock[s].fd] = Closed]
  BY Zenon DEF Sockets!Close
<1>3. \A g \in Sockets!Fd : file'[g] = file[g] \/ file'[g] = Closed
  BY <1>1 DEF SocketInv, SocketTypes
<1>4. SocketTypes
  BY DEF SocketInv
<1>5. PICK g \in Sockets!Fd : file'[g] = s /\ file[g] = s /\ Sockets!Keeps(s, g)
  BY <1>3, <1>4, FdsKept
<1>6. g = sock[s].fd /\ s # Closed
  BY <1>5, SocketsAssumption DEF Sockets!Keeps
<1>7. ~done
  BY <1>2, <1>5, <1>6 DEF SocketInv, SocketTypes
<1>8. QED
  BY <1>5, <1>6, <1>7

\* Who makes a call is idle, and has looked at the last error.
LEMMA CallsAre ==
  ASSUME NEW s \in Sock, NEW step, Sockets!Calls(s, step)
  PROVE  call[s] = Sockets!Idle /\ error = <<>> /\ last' = [socket |-> s, step |-> step] /\ last'.step = step
BY DEF Sockets!Calls

LEMMA OpeningCallsExplained ==
  ASSUME SocketInv, SocketInv', LossTypes, NEW s \in Sock, NEW done \in BOOLEAN, Sockets!SocketInit(s, done)
  PROVE  Explained(s)
<1>1. call[s] = Sockets!Idle /\ error = <<>> /\ last' = [socket |-> s, step |-> "init"]
  BY CallsAre DEF Sockets!SocketInit
<1>2. UNCHANGED call /\ sock[s].status = "none"
  BY DEF Sockets!SocketInit, Sockets!Has
<1>3. LossTypes' /\ Sockets!LostBlocks' - Sockets!LostBlocks = 0
  BY <1>1, <1>2, FailsPlainly DEF Sockets!SocketInit
<1>4. BlocksExplained(s)
  BY <1>1, <1>2, <1>3, NamesNone DEF BlocksExplained
<1>5. Sockets!LostFds' \subseteq Sockets!LostFds
  <2>1. CASE UNCHANGED <<file, sock>>
    BY <1>2, <2>1, FdsStay
  <2>2. CASE Sockets!Opens(s, "open")
    <3>1. call[s].step = "idle"
      BY <1>1, IdleCalls
    <3>2. \A r \in Sock \ {s} : call'[r] = call[r]
      BY <1>2
    <3>3. QED
      BY <1>2, <2>2, <3>1, <3>2, FdsOpen
  <2>3. QED
    BY <2>1, <2>2, Zenon DEF Sockets!SocketInit
<1>6. QED
  BY <1>3, <1>4, <1>5 DEF Explained, FdsExplained

LEMMA ResolveExplained ==
  ASSUME SocketInv, SocketInv', LossTypes, NEW s \in Sock, NEW n \in 0..2, NEW fails \in BOOLEAN, Sockets!Resolve(s, n, fails)
  PROVE  Explained(s)
<1>1. call[s] = Sockets!Idle /\ error = <<>> /\ last' = [socket |-> s, step |-> "resolve"]
  BY CallsAre DEF Sockets!Resolve
<1>2. UNCHANGED file /\ UNCHANGED sock /\ sock[s].status = "none"
  BY DEF Sockets!Resolve, Sockets!Has
<1>3. \A r \in Sock \ {s} : sock'[r] = sock[r] /\ call'[r] = call[r]
  BY <1>2 DEF Sockets!Resolve, SocketInv, SocketTypes
<1>4. Sockets!LostFds' \subseteq Sockets!LostFds
  <2>1. \A f \in Sockets!Fd : ~Sockets!Keeps(s, f)
    BY <1>1, <1>2, IdleCalls DEF Sockets!Keeps
  <2>2. SocketTypes
    BY DEF SocketInv
  <2>3. QED
    BY <1>2, <1>3, <2>1, <2>2, FdsKept
<1>5. LossTypes' /\ Sockets!LostBlocks' - Sockets!LostBlocks = 0
  <2>1. CASE UNCHANGED call /\ \E frames \in {2, 3} : Sockets!Fails(Sockets!SocketError(frames))
    BY <1>1, <2>1, FailsPlainly
  <2>2. CASE /\ call' = [call EXCEPT ![s] = [step |-> "init", addrs |-> n, list |-> IF n = 0 THEN 0 ELSE 1]]
             /\ heap' = heap + call'[s].list /\ UNCHANGED error
    <3>1. call'[s].list \in Nat /\ call[s].list = 0
      BY <1>1 DEF SocketInv, SocketTypes, ConnCalls, Sockets!Idle
    <3>2. LossTypes'
      BY <2>2, <3>1 DEF LossTypes
    <3>3. SocketTypes /\ SocketTypes'
      BY DEF SocketInv
    <3>4. Sockets!LostBlocks' - Sockets!LostBlocks =
              (heap' - heap) - (Sockets!ErrorBlocks(error') - Sockets!ErrorBlocks(error)) - (call'[s].list - call[s].list)
          /\ Sockets!ErrorBlocks(error) \in Nat
      BY <1>3, <3>2, <3>3, BlocksMove
    <3> DEFINE m == call'[s].list
               b == Sockets!ErrorBlocks(error)
    <3>5. m \in Nat /\ b \in Nat /\ heap \in Int /\ heap' = heap + m
      BY <2>2, <3>1, <3>4 DEF LossTypes
    <3>6. Sockets!LostBlocks' - Sockets!LostBlocks = (heap' - heap) - (b - b) - (m - 0)
      BY <2>2, <3>1, <3>4
    <3> HIDE DEF m, b
    <3>7. Sockets!LostBlocks' - Sockets!LostBlocks = 0
      BY <3>5, <3>6
    <3>8. QED
      BY <3>2, <3>7
  <2>3. QED
    BY <2>1, <2>2, Zenon DEF Sockets!Resolve
<1>6. BlocksExplained(s)
  BY <1>1, <1>5, NamesNone DEF BlocksExplained
<1>7. QED
  BY <1>4, <1>5, <1>6 DEF Explained, FdsExplained

LEMMA PairsExplained ==
  ASSUME SocketInv, SocketInv', LossTypes, NEW s \in Sock, NEW r \in Sock, NEW outcomeOf, NEW fails \in BOOLEAN,
         Sockets!Accept(s, r, outcomeOf) \/ Sockets!Bind(s, r, fails)
  PROVE  Explained(s)
<1>1. CASE Sockets!Accept(s, r, outcomeOf)
  <2>1. call[s] = Sockets!Idle /\ error = <<>> /\ last' = [socket |-> s, step |-> "accept"]
    BY <1>1, CallsAre DEF Sockets!Accept
  <2>2. UNCHANGED call /\ call[r] = Sockets!Idle /\ sock[r].status = "none"
    BY <1>1 DEF Sockets!Accept, Sockets!Has
  <2>3. \E n \in Nat : Sockets!Fails(Sockets!SocketError(n)) \/ Sockets!Succeeds
    BY <1>1 DEF Sockets!Accept
  <2>4. LossTypes' /\ Sockets!LostBlocks' - Sockets!LostBlocks = 0
    BY <2>1, <2>2, <2>3, FailsPlainly
  <2>5. BlocksExplained(s)
    BY <2>1, <2>4, NamesNone DEF BlocksExplained
  <2>6. FdsExplained(s)
    <3>1. CASE UNCHANGED <<file, sock>>
      BY <2>2, <3>1, FdsStay DEF FdsExplained
    <3>2. CASE Sockets!Opens(r, "open")
      <4>1. call[r].step = "idle"
        BY <2>2, IdleCalls
      <4>2. \A q \in Sock \ {r} : call'[q] = call[q]
        BY <2>2
      <4>3. QED
        BY <2>2, <3>2, <4>1, <4>2, FdsOpen DEF FdsExplained
    <3>3. CASE Sockets!Fails(Sockets!SocketError(2))
      BY <2>1, <3>3, SocketErrors DEF FdsExplained, Sockets!Fails
    <3>4. QED
      BY <1>1, <3>1, <3>2, <3>3 DEF Sockets!Accept
  <2>7. QED
    BY <2>4, <2>5, <2>6 DEF Explained
<1>2. CASE Sockets!Bind(s, r, fails)
  <2>1. call[s] = Sockets!Idle /\ error = <<>> /\ last' = [socket |-> s, step |-> "bind"]
    BY <1>2, CallsAre DEF Sockets!Bind
  <2>2. UNCHANGED call /\ UNCHANGED file /\ call[r] = Sockets!Idle /\ sock[s].status \in {"open", "bound"}
        /\ (r = s \/ sock[r].status = "none")
    BY <1>2 DEF Sockets!Bind, Sockets!Has, Sockets!Usable
  <2>3. \E n \in Nat : Sockets!Fails(Sockets!SocketError(n)) \/ Sockets!Succeeds
    BY <1>2 DEF Sockets!Bind
  <2>4. LossTypes' /\ Sockets!LostBlocks' - Sockets!LostBlocks = 0
    BY <2>1, <2>2, <2>3, FailsPlainly
  <2>5. BlocksExplained(s)
    BY <2>1, <2>4, NamesNone DEF BlocksExplained
  <2>6. FdsExplained(s)
    <3>1. CASE UNCHANGED sock
      BY <2>2, <3>1, FdsStay DEF FdsExplained
    <3>2. CASE sock' = [sock EXCEPT ![r] = [fd |-> 0, status |-> "bound"]]
      <4>1. sock'[r].status = "bound" /\ sock'[r].fd = 0 /\ \A q \in Sock \ {r} : sock'[q] = sock[q] /\ call'[q] = call[q]
        BY <2>2, <3>2 DEF SocketInv, SocketTypes
      <4>2. SocketTypes
        BY DEF SocketInv
      <4>3. CASE r = s /\ sock[s].status = "open"
        BY <2>1, <4>1, <4>3 DEF FdsExplained, Sockets!Has
      <4>4. CASE sock[r].status = "none" \/ sock[r].status = "bound"
        <5>1. \A f \in Sockets!Fd : Sockets!Keeps(r, f) => Sockets!Keeps(r, f)'
          <6>1. sock[r].status = "bound" => sock[r].fd = 0
            BY DEF SocketInv, SocketOwns, OwnsIts
          <6>2. call[r].step = "idle"
            BY <2>2, IdleCalls
          <6>3. QED
            BY <4>1, <4>4, <6>1, <6>2 DEF Sockets!Keeps
        <5>2. QED
          BY <2>2, <4>1, <4>2, <5>1, FdsKept DEF FdsExplained
      <4>5. QED
        BY <2>2, <4>3, <4>4
    <3>3. QED
      BY <1>2, <3>1, <3>2, Zenon DEF Sockets!Bind
  <2>7. QED
    BY <2>4, <2>5, <2>6 DEF Explained
<1>3. QED
  BY <1>1, <1>2

LEMMA ConnExplained ==
  ASSUME SocketInv, SocketInv', LossTypes, NEW s \in Sock,
         Sockets!ConnInit(s) \/ Sockets!ConnConnect(s) \/ Sockets!ConnClose(s) \/ Sockets!ConnNotFound(s)
  PROVE  Explained(s)
<1>1. SocketTypes /\ SocketTypes' /\ OwnsIts(s) /\ call[s] \in ConnCalls
  BY SocketParts DEF SocketInv
<1>2. \A r \in Sock \ {s} : call'[r] = call[r]
  BY <1>1 DEF Sockets!ConnInit, Sockets!ConnConnect, Sockets!ConnClose, Sockets!ConnNotFound, SocketTypes
<1>3. ASSUME LossTypes'
      PROVE  /\ Sockets!LostBlocks' - Sockets!LostBlocks =
                  (heap' - heap) - (Sockets!ErrorBlocks(error') - Sockets!ErrorBlocks(error)) - (call'[s].list - call[s].list)
             /\ Sockets!ErrorBlocks(error') \in Nat /\ Sockets!ErrorBlocks(error) \in Nat
  BY <1>1, <1>2, <1>3, BlocksMove
<1>4. call[s].list \in Nat /\ Sockets!Idle.list = 0 /\ Sockets!Idle.step = "idle"
  BY <1>1 DEF Sockets!Idle, ConnCalls
<1>5. heap \in Int /\ error \in Seq(Frames)
  BY DEF LossTypes
<1>6. call[s].step # "idle" => sock[s].status = "none"
  BY <1>1 DEF OwnsIts
<1>7. CASE Sockets!ConnInit(s)
  <2>1. call[s].step = "init" /\ UNCHANGED error /\ UNCHANGED heap /\ last'.step = "init"
    BY <1>7 DEF Sockets!ConnInit, Sockets!Steps
  <2>2. LossTypes'
    BY <1>5, <2>1 DEF LossTypes
  <2>3. call'[s].list = call[s].list /\ call'[s].step # "idle"
    BY <1>1, <1>7, <2>1 DEF Sockets!ConnInit, SocketTypes, ConnCalls
  <2>4. Sockets!LostBlocks' - Sockets!LostBlocks = 0
    BY <1>3, <1>4, <1>5, <2>1, <2>2, <2>3
  <2>5. BlocksExplained(s)
    BY <1>4, <2>1, <2>3, <2>4 DEF BlocksExplained, BlocksNamed
  <2>6. Sockets!LostFds' \subseteq Sockets!LostFds
    <3>1. CASE Sockets!Opens(s, "none") /\ call' = [call EXCEPT ![s].step = "connect"]
      <4>1. call'[s].step = "connect"
        BY <1>1, <3>1 DEF SocketTypes, ConnCalls
      <4>2. QED
        BY <1>2, <1>6, <2>1, <3>1, <4>1, FdsOpen
    <3>2. CASE UNCHANGED <<file, sock>>
      <4>1. \A f \in Sockets!Fd : ~Sockets!Keeps(s, f)
        BY <1>6, <2>1 DEF Sockets!Keeps
      <4>2. QED
        BY <1>1, <1>2, <3>2, <4>1, FdsKept
    <3>3. QED
      BY <1>7, <3>1, <3>2 DEF Sockets!ConnInit
  <2>7. QED
    BY <2>2, <2>5, <2>6 DEF Explained, FdsExplained
<1>8. CASE Sockets!ConnConnect(s)
  <2>1. call[s].step = "connect" /\ UNCHANGED error /\ UNCHANGED heap /\ UNCHANGED file /\ last'.step = "connect"
    BY <1>8 DEF Sockets!ConnConnect, Sockets!Steps
  <2>2. LossTypes'
    BY <1>5, <2>1 DEF LossTypes
  <2>3. CASE call' = [call EXCEPT ![s] = Sockets!Idle] /\ sock' = [sock EXCEPT ![s].status = "open"]
    <3>1. call'[s] = Sockets!Idle /\ call'[s].list = 0
      BY <1>1, <1>4, <2>3 DEF SocketTypes
    <3>2. Sockets!LostBlocks' - Sockets!LostBlocks = call[s].list
      BY <1>3, <1>4, <1>5, <2>1, <2>2, <3>1
    <3>3. BlocksExplained(s)
      BY <2>1, <3>1, <3>2 DEF BlocksExplained, BlocksNamed
    <3>4. sock'[s].fd = sock[s].fd /\ sock'[s].status = "open" /\ \A r \in Sock \ {s} : sock'[r] = sock[r]
      BY <1>1, <2>3 DEF SocketTypes
    <3>5. \A f \in Sockets!Fd : Sockets!Keeps(s, f) => Sockets!Keeps(s, f)'
      BY <3>4 DEF Sockets!Keeps
    <3>6. Sockets!LostFds' \subseteq Sockets!LostFds
      BY <1>1, <1>2, <2>1, <3>4, <3>5, FdsKept
    <3>7. QED
      BY <2>2, <3>3, <3>6 DEF Explained, FdsExplained
  <2>4. CASE call' = [call EXCEPT ![s].step = "close"] /\ UNCHANGED sock
    <3>1. call'[s].step = "close" /\ call'[s].list = call[s].list
      BY <1>1, <2>4 DEF SocketTypes, ConnCalls
    <3>2. Sockets!LostBlocks' - Sockets!LostBlocks = 0
      BY <1>3, <1>4, <1>5, <2>1, <2>2, <3>1
    <3>3. BlocksExplained(s)
      BY <1>4, <2>1, <3>1, <3>2 DEF BlocksExplained, BlocksNamed
    <3>4. \A f \in Sockets!Fd : Sockets!Keeps(s, f) => Sockets!Keeps(s, f)'
      BY <2>4, <3>1 DEF Sockets!Keeps
    <3>5. Sockets!LostFds' \subseteq Sockets!LostFds
      BY <1>1, <1>2, <2>1, <2>4, <3>4, FdsKept
    <3>6. QED
      BY <2>2, <3>3, <3>5 DEF Explained, FdsExplained
  <2>5. QED
    BY <1>8, <2>3, <2>4 DEF Sockets!ConnConnect
<1>9. CASE Sockets!ConnClose(s)
  <2>1. call[s].step = "close" /\ UNCHANGED error /\ UNCHANGED sock /\ last'.step = "close"
    BY <1>9, Zenon DEF Sockets!ConnClose, Sockets!Steps
  <2>2. PICK done \in BOOLEAN : Sockets!Close(s, done)
                               /\ heap' = heap + IF done THEN 0 ELSE Sockets!ErrorBlocks(Sockets!SocketError(1))
    BY <1>9, Zenon DEF Sockets!ConnClose
  <2>3. Sockets!ErrorBlocks(Sockets!SocketError(1)) = 3
    BY SocketErrors
  <2>4. heap' = heap + (IF done THEN 0 ELSE 3)
    BY <2>2, <2>3
  <2>5. LossTypes'
    BY <1>5, <2>1, <2>4 DEF LossTypes
  <2>6. call'[s].list = call[s].list /\ call'[s].step = "init"
    BY <1>1, <1>9 DEF Sockets!ConnClose, SocketTypes, ConnCalls
  <2>7. Sockets!LostBlocks' - Sockets!LostBlocks = heap' - heap
    BY <1>3, <1>4, <1>5, <2>1, <2>4, <2>5, <2>6
  <2>8. heap' - heap = (IF heap' # heap THEN 3 ELSE 0)
    BY <1>5, <2>4
  <2>9. BlocksExplained(s)
    BY <1>4, <2>1, <2>6, <2>7, <2>8 DEF BlocksExplained, BlocksNamed
  <2>10. FdsExplained(s)
    <3>1. \A r \in Sock \ {s} : sock'[r] = sock[r] /\ call'[r] = call[r]
      BY <1>2, <2>1
    <3>2. ~(Sockets!LostFds' \subseteq Sockets!LostFds) => file'[sock[s].fd] = s /\ ~done
      BY <2>2, <3>1, FdsClose
    <3>3. ~done => heap' # heap
      BY <1>5, <2>4
    <3>4. QED
      BY <2>1, <3>2, <3>3 DEF FdsExplained
  <2>11. QED
    BY <2>5, <2>9, <2>10 DEF Explained
<1>10. CASE Sockets!ConnNotFound(s)
  <2>1. call[s].step = "init" /\ UNCHANGED file /\ UNCHANGED sock /\ last'.step = "init" /\ error = <<>>
        /\ call' = [call EXCEPT ![s] = Sockets!Idle]
    BY <1>10 DEF Sockets!ConnNotFound, Sockets!Steps
  <2>2. Sockets!SocketError(1) \in Seq(Frames) /\ Sockets!ErrorBlocks(Sockets!SocketError(1)) = 3
    BY SocketErrors
  <2>3. error' = Sockets!SocketError(1) /\ heap' = heap + 3
    BY <1>10, <2>2 DEF Sockets!ConnNotFound, Sockets!Fails
  <2>4. LossTypes'
    BY <1>5, <2>2, <2>3 DEF LossTypes
  <2>5. call'[s] = Sockets!Idle /\ call'[s].list = 0
    BY <1>1, <1>4, <2>1 DEF SocketTypes
  <2>6. Sockets!ErrorBlocks(error') = 3 /\ Sockets!ErrorBlocks(error) = 0
    BY <2>1, <2>2, <2>3, BlocksOfErrors
  <2>7. Sockets!LostBlocks' - Sockets!LostBlocks = call[s].list
    BY <1>3, <1>4, <1>5, <2>3, <2>4, <2>5, <2>6
  <2>8. BlocksExplained(s)
    BY <2>1, <2>5, <2>7 DEF BlocksExplained, BlocksNamed
  <2>9. \A f \in Sockets!Fd : ~Sockets!Keeps(s, f)
    BY <1>6, <2>1 DEF Sockets!Keeps
  <2>10. Sockets!LostFds' \subseteq Sockets!LostFds
    BY <1>1, <1>2, <2>1, <2>9, FdsKept
  <2>11. QED
    BY <2>4, <2>8, <2>10 DEF Explained, FdsExplained
<1>11. QED
  BY <1>7, <1>8, <1>9, <1>10

\* A close of an idle socket, of which the client keeps nothing else.
LEMMA CloseExplained ==
  ASSUME SocketInv, SocketInv', LossTypes, NEW s \in Sock, NEW done \in BOOLEAN, Sockets!SocketClose(s, done)
  PROVE  Explained(s)
<1>1. call[s] = Sockets!Idle /\ error = <<>> /\ last' = [socket |-> s, step |-> "close"] /\ last'.step = "close"
  BY CallsAre DEF Sockets!SocketClose
<1>2. UNCHANGED call /\ Sockets!Close(s, done) /\ (done => Sockets!Succeeds) /\ (~done => Sockets!Fails(Sockets!SocketError(1)))
      /\ sock' = [sock EXCEPT ![s].status = "none"]
  BY Zenon DEF Sockets!SocketClose
<1>3. LossTypes' /\ Sockets!LostBlocks' - Sockets!LostBlocks = 0
  BY <1>1, <1>2, FailsPlainly
<1>4. BlocksExplained(s)
  BY <1>1, <1>3, NamesNone DEF BlocksExplained
<1>5. \A r \in Sock \ {s} : sock'[r] = sock[r] /\ call'[r] = call[r]
  BY <1>2 DEF SocketInv, SocketTypes
<1>6. ~(Sockets!LostFds' \subseteq Sockets!LostFds) => file'[sock[s].fd] = s /\ ~done
  BY <1>2, <1>5, FdsClose
<1>7. ~done => heap' # heap
  <2>1. heap \in Int /\ Sockets!ErrorBlocks(Sockets!SocketError(1)) = 3
    BY SocketErrors DEF LossTypes
  <2>2. ~done => heap' = heap + 3
    BY <1>2, <2>1 DEF Sockets!Fails
  <2>3. QED
    BY <2>1, <2>2
<1>8. QED
  BY <1>1, <1>3, <1>4, <1>6, <1>7 DEF Explained, FdsExplained

\* The errors of a stream take the place of those of its socket.
LEMMA Replaces ==
  ASSUME SocketInv, LossTypes, error = <<>>, UNCHANGED call, NEW late \in BOOLEAN,
         error' = StreamError(late),
         heap' = heap + (Sockets!ErrorBlocks(StreamError(late)) + IF late THEN 0 ELSE 3)
  PROVE  /\ LossTypes' /\ Sockets!LostBlocks' - Sockets!LostBlocks = (IF late THEN 0 ELSE 3)
         /\ error' # <<>> /\ Head(error').message = late
         /\ ~late => heap' # heap
<1>1. StreamError(late) \in Seq(Frames) /\ StreamError(late) # <<>> /\ Head(StreamError(late)).message = late
      /\ Sockets!ErrorBlocks(StreamError(late)) \in Nat /\ Sockets!ErrorBlocks(error) = 0
  BY StreamErrors, BlocksOfErrors
<1>2. error' \in Seq(Frames) /\ error' # <<>> /\ Head(error').message = late
  BY <1>1
<1> DEFINE n == Sockets!ErrorBlocks(StreamError(late))
<1>3. n \in Nat /\ heap \in Int /\ heap' = heap + (n + IF late THEN 0 ELSE 3)
  BY <1>1 DEF LossTypes
<1>4. Sockets!ErrorBlocks(error') = n
  OBVIOUS
<1> HIDE DEF n
<1>5. heap' \in Int /\ (~late => heap' # heap)
  BY <1>3
<1>6. LossTypes'
  BY <1>2, <1>5 DEF LossTypes
<1>7. Sockets!LostBlocks' - Sockets!LostBlocks =
           (heap' - heap) - (Sockets!ErrorBlocks(error') - Sockets!ErrorBlocks(error))
  BY <1>6, BlocksStay DEF SocketInv
<1>8. Sockets!LostBlocks' - Sockets!LostBlocks = (heap' - heap) - (n - 0)
  BY <1>1, <1>4, <1>7
<1>9. Sockets!LostBlocks' - Sockets!LostBlocks = (IF late THEN 0 ELSE 3)
  BY <1>3, <1>8
<1>10. QED
  BY <1>2, <1>5, <1>6, <1>9

LEMMA StreamStartExplained ==
  ASSUME SocketInv, SocketInv', LossTypes, NEW s \in Sock, Sockets!StreamInit(s) \/ Sockets!StreamDispose(s)
  PROVE  Explained(s)
<1>1. call[s] = Sockets!Idle /\ error = <<>> /\ call[s].step = "idle"
  BY CallsAre, IdleCalls DEF Sockets!StreamInit, Sockets!StreamDispose
<1>2. UNCHANGED call /\ UNCHANGED file /\ Sockets!Succeeds
  BY DEF Sockets!StreamInit, Sockets!StreamDispose, Sockets!Succeeds
<1>3. LossTypes' /\ Sockets!LostBlocks' - Sockets!LostBlocks = 0
  <2>1. 1 \in Nat
    OBVIOUS
  <2>2. QED
    BY <1>1, <1>2, <2>1, FailsPlainly
<1>4. SocketTypes
  BY DEF SocketInv
<1>5. CASE Sockets!StreamInit(s)
  <2>1. last' = [socket |-> s, step |-> "stream"] /\ sock[s].status = "open"
        /\ sock' = [sock EXCEPT ![s].status = "stream"]
    BY <1>5, CallsAre DEF Sockets!StreamInit, Sockets!Has
  <2>2. BlocksExplained(s)
    BY <1>1, <1>3, <2>1, NamesNone DEF BlocksExplained
  <2>3. \A r \in Sock \ {s} : sock'[r] = sock[r] /\ call'[r] = call[r]
    BY <1>2, <1>4, <2>1 DEF SocketTypes
  <2>4. sock'[s].fd = sock[s].fd /\ sock'[s].status = "stream"
    BY <1>4, <2>1 DEF SocketTypes
  <2>5. \A f \in Sockets!Fd : Sockets!Keeps(s, f) => Sockets!Keeps(s, f)'
    BY <2>4 DEF Sockets!Keeps
  <2>6. Sockets!LostFds' \subseteq Sockets!LostFds
    BY <1>2, <1>4, <2>3, <2>5, FdsKept
  <2>7. QED
    BY <1>3, <2>2, <2>6 DEF Explained, FdsExplained
<1>6. CASE Sockets!StreamDispose(s)
  <2>1. last' = [socket |-> s, step |-> "stream_dispose"] /\ last'.step = "stream_dispose"
        /\ sock[s].status \in {"stream", "closed"} /\ sock' = [sock EXCEPT ![s] = [fd |-> 0, status |-> "none"]]
    BY <1>6, CallsAre DEF Sockets!StreamDispose, Sockets!Has
  <2>2. BlocksExplained(s)
    BY <1>1, <1>3, <2>1, NamesNone DEF BlocksExplained
  <2>3. \A r \in Sock \ {s} : sock'[r] = sock[r] /\ call'[r] = call[r]
    BY <1>2, <1>4, <2>1 DEF SocketTypes
  <2>4. ASSUME ~(Sockets!LostFds' \subseteq Sockets!LostFds)
        PROVE  file'[sock[s].fd] = s /\ sock[s].status = "stream"
    <3>1. PICK f \in Sockets!Fd : file'[f] = s /\ file[f] = s /\ Sockets!Keeps(s, f)
      BY <1>2, <1>4, <2>3, <2>4, FdsKept
    <3>2. QED
      BY <1>1, <2>1, <3>1 DEF Sockets!Keeps
  <2>5. QED
    BY <1>3, <2>1, <2>2, <2>4 DEF Explained, FdsExplained, Sockets!Has
<1>7. QED
  BY <1>5, <1>6

LEMMA StreamCloseExplained ==
  ASSUME SocketInv, SocketInv', LossTypes, NEW s \in Sock, NEW done \in BOOLEAN, Sockets!StreamClose(s, done)
  PROVE  Explained(s)
<1>1. call[s] = Sockets!Idle /\ error = <<>> /\ last' = [socket |-> s, step |-> "stream_close"]
      /\ last'.step = "stream_close"
  BY CallsAre DEF Sockets!StreamClose
<1>2. UNCHANGED call /\ Sockets!Close(s, done) /\ (done => Sockets!Succeeds)
      /\ (~done => error' = StreamError(FALSE)
                   /\ heap' = heap + Sockets!ErrorBlocks(Sockets!SocketError(1)) + Sockets!ErrorBlocks(StreamError(FALSE)))
  BY Zenon DEF Sockets!StreamClose, StreamError
<1>3. \E x : sock' = [sock EXCEPT ![s] = x]
  BY Zenon DEF Sockets!StreamClose
<1>4. \A r \in Sock \ {s} : sock'[r] = sock[r] /\ call'[r] = call[r]
  BY <1>2, <1>3 DEF SocketInv, SocketTypes
<1>5. ~(Sockets!LostFds' \subseteq Sockets!LostFds) => file'[sock[s].fd] = s /\ ~done
  BY <1>2, <1>4, FdsClose
<1>6. call[s].step = "idle"
  BY <1>1, IdleCalls
<1>7. CASE done
  <2>1. LossTypes' /\ Sockets!LostBlocks' - Sockets!LostBlocks = 0
    <3>1. 1 \in Nat
      OBVIOUS
    <3>2. QED
      BY <1>1, <1>2, <1>7, <3>1, FailsPlainly
  <2>2. error' = <<>>
    BY <1>1, <1>2, <1>7 DEF Sockets!Succeeds
  <2>3. BlocksExplained(s)
    BY <1>1, <2>1, <2>2, NamesNone DEF BlocksExplained
  <2>4. QED
    BY <1>5, <1>7, <2>1, <2>3 DEF Explained, FdsExplained
<1>8. CASE ~done
  <2>1. Sockets!ErrorBlocks(Sockets!SocketError(1)) = 3 /\ heap \in Int
    BY SocketErrors DEF LossTypes
  <2>2. PICK late \in BOOLEAN : late = FALSE
    OBVIOUS
  <2>3. PICK n \in Nat : n = Sockets!ErrorBlocks(StreamError(late))
    BY StreamErrors
  <2>4. heap' = heap + 3 + n /\ error' = StreamError(late)
    BY <1>2, <1>8, <2>1, <2>2, <2>3
  <2>5. heap' = heap + (n + IF late THEN 0 ELSE 3)
    BY <2>1, <2>2, <2>4
  <2>6. LossTypes' /\ Sockets!LostBlocks' - Sockets!LostBlocks = 3 /\ error' # <<>> /\ ~Head(error').message
        /\ heap' # heap
    BY <1>1, <1>2, <2>2, <2>3, <2>4, <2>5, Replaces
  <2>7. BlocksExplained(s)
    BY <1>1, <2>6 DEF BlocksExplained, BlocksNamed
  <2>8. FdsExplained(s)
    BY <1>1, <1>5, <2>6 DEF FdsExplained
  <2>9. QED
    BY <2>6, <2>7, <2>8 DEF Explained
<1>9. QED
  BY <1>7, <1>8

LEMMA AsksExplained ==
  ASSUME SocketInv, SocketInv', LossTypes, NEW s \in Sock,
         NEW frames \in 1..2, NEW late \in BOOLEAN, Sockets!Ask(s, frames) \/ Sockets!StreamAsk(s, late)
  PROVE  Explained(s)
<1>1. UNCHANGED <<file, sock>> /\ UNCHANGED call
  BY Zenon DEF Sockets!Ask, Sockets!StreamAsk
<1>2. FdsExplained(s)
  BY <1>1, FdsStay DEF FdsExplained
<1>3. CASE Sockets!Ask(s, frames)
  <2>1. call[s] = Sockets!Idle /\ error = <<>> /\ last' = [socket |-> s, step |-> "ask"]
    BY <1>3, CallsAre DEF Sockets!Ask
  <2>2. LossTypes' /\ Sockets!LostBlocks' - Sockets!LostBlocks = 0
    BY <1>1, <1>3, <2>1, FailsPlainly DEF Sockets!Ask
  <2>3. BlocksExplained(s)
    BY <2>1, <2>2, NamesNone DEF BlocksExplained
  <2>4. QED
    BY <1>2, <2>2, <2>3 DEF Explained
<1>4. CASE Sockets!StreamAsk(s, late)
  <2>1. call[s] = Sockets!Idle /\ error = <<>> /\ last' = [socket |-> s, step |-> "stream_ask"]
    BY <1>4, CallsAre DEF Sockets!StreamAsk
  <2>2. /\ error' = StreamError(late)
        /\ heap' = heap + Sockets!ErrorBlocks(StreamError(late))
                        + (IF late THEN 0 ELSE Sockets!ErrorBlocks(Sockets!SocketError(1)))
    BY <1>4, Zenon DEF Sockets!StreamAsk, StreamError
  <2>3. Sockets!ErrorBlocks(Sockets!SocketError(1)) = 3 /\ heap \in Int
    BY SocketErrors DEF LossTypes
  <2>4. PICK n \in Nat : n = Sockets!ErrorBlocks(StreamError(late))
    BY StreamErrors
  <2>5. heap' = heap + (n + IF late THEN 0 ELSE 3)
    BY <2>2, <2>3, <2>4
  <2>6. /\ LossTypes' /\ Sockets!LostBlocks' - Sockets!LostBlocks = (IF late THEN 0 ELSE 3)
        /\ error' # <<>> /\ Head(error').message = late
    BY <1>1, <2>1, <2>2, <2>4, <2>5, Replaces
  <2>7. CASE late
    <3>1. Head(error').message
      BY <2>6, <2>7, Zenon
    <3>2. BlocksNamed(s) = 0
      BY <2>1, <3>1, NamesNone, Zenon
    <3>3. Sockets!LostBlocks' - Sockets!LostBlocks = 0
      BY <2>6, <2>7, Zenon
    <3>4. QED
      BY <1>2, <2>6, <3>2, <3>3, Zenon DEF BlocksExplained, Explained
  <2>8. CASE ~late
    <3>1. BlocksExplained(s)
      BY <2>1, <2>6, <2>8 DEF BlocksExplained, BlocksNamed
    <3>2. QED
      BY <1>2, <2>6, <3>1 DEF Explained
  <2>9. QED
    BY <2>7, <2>8
<1>5. QED
  BY <1>3, <1>4

\* The client makes an error the cause of another, or frees it.
LEMMA HandlingExplained ==
  ASSUME SocketInv, SocketInv', LossTypes, Sockets!HandleError
  PROVE  Explained(last'.socket)
<1>1. UNCHANGED <<file, sock>> /\ UNCHANGED call
  BY Zenon DEF Sockets!HandleError
<1>2. last'.step \in {"wrap", "free"}
  BY DEF Sockets!HandleError
<1>3. FdsExplained(last'.socket)
  BY <1>1, FdsStay DEF FdsExplained
<1>4. error' \in Seq(Frames) /\ heap' = heap + Sockets!ErrorBlocks(error') - Sockets!ErrorBlocks(error)
  <2>1. CASE \E message \in BOOLEAN : error' = Sockets!Thrown(Sockets!error_new(message, error))
    <3>1. PICK message \in BOOLEAN : error' = Sockets!Thrown(Sockets!error_new(message, error))
      BY <2>1
    <3>2. PICK e \in Frames : e = [message |-> message, frames |-> 0]
      BY DEF Frames
    <3>3. PICK t \in Seq(Frames) : t = <<e>> \o error /\ t[1] = e /\ 1 \in 1..Len(t)
      <4>1. <<e>> \in Seq(Frames) /\ error \in Seq(Frames) /\ Len(<<e>>) = 1 /\ <<e>>[1] = e
        BY DEF LossTypes
      <4> DEFINE u == <<e>>
      <4>2. u \in Seq(Frames) /\ error \in Seq(Frames) /\ Len(u) = 1 /\ u[1] = e
        BY <4>1
      <4> HIDE DEF u
      <4>3. u \o error \in Seq(Frames) /\ (u \o error)[1] = e /\ 1 \in 1..Len(u \o error)
        BY <4>2, SMTT(60)
      <4>4. QED
        BY <4>3 DEF u
    <3>4. PICK h \in Frames : h = [e EXCEPT !.frames = e.frames + 1]
      <4>1. e.frames + 1 \in Nat
        BY DEF Frames
      <4>2. \A n \in Nat : [e EXCEPT !.frames = n] \in Frames
        BY DEF Frames
      <4>3. QED
        BY <4>1, <4>2
    <3>5. error' = [t EXCEPT ![1].frames = @ + 1]
      BY <3>1, <3>2, <3>3, Zenon DEF Sockets!Thrown, Sockets!error_new
    <3>6. error' = [t EXCEPT ![1] = h]
      BY <3>3, <3>4, <3>5, Zenon
    <3>7. error' \in Seq(Frames)
      BY <3>3, <3>6
    <3>8. CASE heap' = heap + Sockets!ErrorBlocks(error') - Sockets!ErrorBlocks(error)
      BY <3>7, <3>8
    <3>9. CASE error' = <<>>
      <4>1. Len(error') = Len(t)
        BY <3>3, <3>6
      <4>2. QED
        BY <3>3, <3>9, <4>1
    <3>10. QED
      BY <3>8, <3>9, Zenon DEF Sockets!HandleError
  <2>2. CASE error' = <<>> /\ heap' = heap - Sockets!ErrorBlocks(error)
    <3>1. Sockets!ErrorBlocks(<<>>) = 0 /\ <<>> \in Seq(Frames)
      BY BlocksOfErrors
    <3>2. PICK n \in Nat : n = Sockets!ErrorBlocks(error)
      BY BlocksOfErrors DEF LossTypes
    <3>3. heap - n = heap + 0 - n
      BY <3>2 DEF LossTypes
    <3>4. QED
      BY <2>2, <3>1, <3>2, <3>3
  <2>3. QED
    BY <2>1, <2>2, Zenon DEF Sockets!HandleError
<1>5. PICK m \in Nat, n \in Nat : m = Sockets!ErrorBlocks(error') /\ n = Sockets!ErrorBlocks(error)
  BY <1>4, BlocksOfErrors DEF LossTypes
<1>6. heap' = heap + m - n /\ heap \in Int
  BY <1>4, <1>5 DEF LossTypes
<1>7. LossTypes'
  BY <1>4, <1>6 DEF LossTypes
<1>8. Sockets!LostBlocks' - Sockets!LostBlocks = (heap' - heap) - (m - n)
  BY <1>1, <1>5, <1>7, BlocksStay DEF SocketInv
<1>9. Sockets!LostBlocks' - Sockets!LostBlocks = 0
  BY <1>6, <1>8
<1>10. BlocksExplained(last'.socket)
  BY <1>2, <1>9 DEF BlocksExplained, BlocksNamed
<1>11. QED
  BY <1>3, <1>7, <1>10 DEF Explained

LEMMA LossesStart == Sockets!Init => LossTypes
BY DEF Sockets!Init, LossTypes

\* Every step of the sockets is explained.
LEMMA LossesExplained ==
  ASSUME SocketInv, LossTypes, [Sockets!Next]_Sockets!vars
  PROVE  LossTypes' /\ [FdsExplained(last'.socket) /\ BlocksExplained(last'.socket)]_Sockets!vars
<1>1. SocketInv'
  BY SocketKeepsInv
<1>2. CASE UNCHANGED Sockets!vars
  BY <1>2 DEF Sockets!vars, LossTypes
<1>3. CASE Sockets!Next
  <2> DEFINE Goal == Explained(last'.socket)
  <2>1. ASSUME NEW s \in Sock, NEW step, last' = [socket |-> s, step |-> step] PROVE last'.socket = s
    BY <2>1
  <2>2. ASSUME NEW s, Explained(s), last'.socket = s PROVE Goal
    BY <2>2
  <2> HIDE DEF Goal
  <2>a. ASSUME NEW s \in Sock, Sockets!StreamInit(s) \/ Sockets!StreamDispose(s) PROVE Goal
    <3>1. Explained(s)
      BY <1>1, <2>a, StreamStartExplained, Zenon
    <3>2. QED
      BY <2>a, <2>1, <2>2, <3>1, Zenon DEF Sockets!StreamInit, Sockets!StreamDispose, Sockets!Calls
  <2>b. ASSUME NEW s \in Sock, NEW r \in Sock, NEW outcomeOf, Sockets!Accept(s, r, outcomeOf) PROVE Goal
    <3>1. TRUE \in BOOLEAN
      OBVIOUS
    <3>2. Explained(s)
      BY <1>1, <2>b, <3>1, PairsExplained, Zenon
    <3>3. QED
      BY <2>b, <2>1, <2>2, <3>2, Zenon DEF Sockets!Accept, Sockets!Calls
  <2>c. ASSUME NEW s \in Sock, NEW done \in BOOLEAN,
               Sockets!SocketInit(s, done) \/ Sockets!SocketClose(s, done) \/ Sockets!StreamClose(s, done)
        PROVE  Goal
    <3>1. Explained(s)
      BY <1>1, <2>c, OpeningCallsExplained, CloseExplained, StreamCloseExplained, Zenon
    <3>2. QED
      BY <2>c, <2>1, <2>2, <3>1, Zenon DEF Sockets!SocketInit, Sockets!SocketClose, Sockets!StreamClose, Sockets!Calls
  <2>d. ASSUME NEW s \in Sock, NEW x \in 1..2, Sockets!Ask(s, x) PROVE Goal
    <3>1. TRUE \in BOOLEAN
      OBVIOUS
    <3>2. Explained(s)
      BY <1>1, <2>d, <3>1, AsksExplained, Zenon
    <3>3. QED
      BY <2>d, <2>1, <2>2, <3>2, Zenon DEF Sockets!Ask, Sockets!Calls
  <2>e. ASSUME NEW s \in Sock, NEW late \in BOOLEAN, Sockets!StreamAsk(s, late) PROVE Goal
    <3>1. 1 \in 1..2
      OBVIOUS
    <3>2. Explained(s)
      BY <1>1, <2>e, <3>1, AsksExplained, Zenon
    <3>3. QED
      BY <2>e, <2>1, <2>2, <3>2, Zenon DEF Sockets!StreamAsk, Sockets!Calls
  <2>f. ASSUME NEW s \in Sock, NEW n \in 0..2, NEW fails \in BOOLEAN, Sockets!Resolve(s, n, fails) PROVE Goal
    <3>1. Explained(s)
      BY <1>1, <2>f, ResolveExplained, Zenon
    <3>2. QED
      BY <2>f, <2>1, <2>2, <3>1, Zenon DEF Sockets!Resolve, Sockets!Calls
  <2>g. ASSUME NEW s \in Sock, NEW r \in Sock, NEW fails \in BOOLEAN, Sockets!Bind(s, r, fails) PROVE Goal
    <3>1. Explained(s)
      BY <1>1, <2>g, PairsExplained, Zenon
    <3>2. QED
      BY <2>g, <2>1, <2>2, <3>1, Zenon DEF Sockets!Bind, Sockets!Calls
  <2>h. ASSUME NEW s \in Sock,
               Sockets!ConnInit(s) \/ Sockets!ConnConnect(s) \/ Sockets!ConnClose(s) \/ Sockets!ConnNotFound(s)
        PROVE  Goal
    <3>1. Explained(s)
      BY <1>1, <2>h, ConnExplained, Zenon
    <3>2. QED
      BY <2>h, <2>1, <2>2, <3>1, Zenon DEF Sockets!ConnInit, Sockets!ConnConnect, Sockets!ConnClose,
                                           Sockets!ConnNotFound, Sockets!Steps
  <2>i. ASSUME Sockets!HandleError PROVE Goal
    BY <1>1, <2>i, HandlingExplained, Zenon DEF Goal
  <2>j. Goal
    BY <1>3, <2>a, <2>b, <2>c, <2>d, <2>e, <2>f, <2>g, <2>h, <2>i, Zenon DEF Sockets!Next
  <2>k. QED
    BY <2>j, Zenon DEF Goal, Explained
<1>4. QED
  BY <1>2, <1>3

\* What LosesOnlyThere says, in the names of this proof.
LEMMA LossesAreNamed ==
  ASSUME SocketInv, LossTypes, [Sockets!Next]_Sockets!vars
  PROVE  [LET s == last'.socket
              gone == file'[sock[s].fd] = s
          IN /\ ~(Sockets!LostFds' \subseteq Sockets!LostFds) =>
                  \/ last'.step = "accept" /\ error' # <<>>
                  \/ last'.step = "bind" /\ Sockets!Has(s, {"open"}) /\ sock'[s].status = "bound"
                  \/ last'.step \in {"close", "stream_close"} /\ gone /\ heap' # heap
                  \/ last'.step = "stream_dispose" /\ gone /\ Sockets!Has(s, {"stream"})
             /\ Sockets!LostBlocks' - Sockets!LostBlocks =
                  CASE last'.step \in {"connect", "init"} /\ call'[s] = Sockets!Idle -> call[s].list
                    [] last'.step = "close" /\ call[s] # Sockets!Idle /\ heap' # heap -> 3
                    [] last'.step \in {"stream_close", "stream_ask"} /\ error' # <<>> /\ ~Head(error').message -> 3
                    [] OTHER -> 0]_Sockets!vars
BY LossesExplained, Zenon DEF FdsExplained, BlocksExplained, BlocksNamed

-----------------------------------------------------------------------------
\* The random stream.

\* Quotients and remainders are what makes a number up.
LEMMA Divided ==
  ASSUME NEW a \in Int, NEW b \in Nat \ {0}
  PROVE  a \div b \in Int /\ a % b \in 0..b - 1 /\ a = (a \div b) * b + (a % b)
OBVIOUS

LEMMA OnlyDivision ==
  ASSUME NEW a \in Int, NEW b \in Nat \ {0}, NEW q \in Int, NEW r \in 0..b - 1, a = q * b + r
  PROVE  a \div b = q /\ a % b = r
<1>1. PICK p \in Int, s \in 0..b - 1 : p = a \div b /\ s = a % b /\ a = p * b + s
  BY Divided
<1>2. p * b - q * b = r - s
  <2>1. p * b \in Int /\ q * b \in Int /\ r \in Int /\ s \in Int
    OBVIOUS
  <2>2. p * b + s = q * b + r
    BY <1>1
  <2>3. QED
    BY <2>1, <2>2
<1>3. (p - q) * b = p * b - q * b
  OBVIOUS
<1>4. p - q >= 1 => (p - q) * b >= b
  OBVIOUS
<1>5. p - q <= -1 => (p - q) * b <= -b
  OBVIOUS
<1>6. r - s < b /\ r - s > -b
  BY <1>1
<1>7. p = q
  BY <1>1, <1>2, <1>3, <1>4, <1>5, <1>6
<1>8. QED
  BY <1>1, <1>2, <1>7

\* Only the remainder of a summand counts.
LEMMA Modular ==
  ASSUME NEW a \in Int, NEW c \in Int, NEW b \in Nat \ {0}
  PROVE  /\ ((a % b) + c) % b = (a + c) % b
         /\ \A k \in Int : (a + k * b) % b = a % b
<1>1. ASSUME NEW k \in Int, NEW d \in Int PROVE (d + k * b) % b = d % b
  <2>1. PICK q \in Int, r \in 0..b - 1 : r = d % b /\ d = q * b + r
    BY Divided
  <2>2. d + k * b = (q + k) * b + r
    BY <2>1
  <2>3. d + k * b \in Int /\ q + k \in Int
    OBVIOUS
  <2>4. QED
    BY <2>1, <2>2, <2>3, OnlyDivision
<1>2. PICK q \in Int, r \in 0..b - 1 : r = a % b /\ a = q * b + r
  BY Divided
<1>3. a + c = (r + c) + q * b /\ r + c \in Int
  BY <1>2
<1>4. (a + c) % b = (r + c) % b
  BY <1>1, <1>3
<1>5. QED
  BY <1>1, <1>2, <1>4

\* The period of the stream.
LEMMA PeriodIs == Random!Period = StreamBlocks * StreamBlock /\ Random!Period \in Nat \ {0}
<1>1. StreamBlocks * StreamBlock \in Nat \ {0}
  BY RandomAssumption
<1>2. QED
  BY <1>1 DEF Random!Period

\* The place of a byte around the end of the stream, by its block and its byte.
LEMMA Places ==
  ASSUME NEW q \in Int, NEW u \in 0..StreamBlock - 1, NEW x \in Int, x = q * StreamBlock + u
  PROVE  /\ x % Random!Period = (q % StreamBlocks) * StreamBlock + u
         /\ (x % Random!Period) \div StreamBlock = q % StreamBlocks
         /\ (x % Random!Period) % StreamBlock = u
<1>1. StreamBlock \in Nat \ {0} /\ StreamBlocks \in Nat \ {0}
  BY RandomAssumption
<1>2. PICK k \in Int, m \in 0..StreamBlocks - 1 : m = q % StreamBlocks /\ q = k * StreamBlocks + m
  BY <1>1, Divided
<1>3. x = k * Random!Period + (m * StreamBlock + u)
  BY <1>1, <1>2, PeriodIs
<1>4. m * StreamBlock + u \in 0..Random!Period - 1
  <2>1. m * StreamBlock >= 0 /\ m * StreamBlock \in Int
    BY <1>1
  <2>2. (m + 1) * StreamBlock <= StreamBlocks * StreamBlock
    BY <1>1
  <2>3. (m + 1) * StreamBlock = m * StreamBlock + StreamBlock
    BY <1>1
  <2>4. QED
    BY <1>1, <2>1, <2>2, <2>3, PeriodIs
<1>5. x % Random!Period = m * StreamBlock + u
  BY <1>3, <1>4, PeriodIs, OnlyDivision
<1>6. m * StreamBlock + u \in Int /\ m \in Int
  BY <1>1
<1>7. (m * StreamBlock + u) \div StreamBlock = m /\ (m * StreamBlock + u) % StreamBlock = u
  BY <1>1, <1>6, OnlyDivision
<1>8. QED
  BY <1>2, <1>5, <1>7

\* The buffer holds the block the next byte comes from.
RandomInv ==
  /\ bytes \in 0..StreamBlocks - 1 /\ used \in 0..StreamBlock - 1
  /\ counter = (bytes + 1) % StreamBlocks
  /\ at = bytes * StreamBlock + used

LEMMA RandomStarts == Random!Init => RandomInv
<1> SUFFICES ASSUME Random!Init PROVE RandomInv
  OBVIOUS
<1>1. counter = 1 % StreamBlocks /\ bytes = 0 /\ used = 0 /\ at = 0
  BY DEF Random!Init
<1>2. QED
  BY <1>1, RandomAssumption DEF RandomInv

\* The position that is reported, and the one that is meant.
LEMMA CurrentIs ==
  ASSUME RandomInv
  PROVE  /\ at \in Int /\ counter \in 0..StreamBlocks - 1 /\ Random!Current \in Int
         /\ \E k \in Int : at + StreamBlock = Random!Current + k * Random!Period
<1>1. StreamBlock \in Nat \ {0} /\ StreamBlocks \in Nat \ {0} /\ bytes \in Int /\ used \in Int /\ bytes + 1 \in Int
  BY RandomAssumption DEF RandomInv
<1>2. PICK k \in Int : counter \in 0..StreamBlocks - 1 /\ bytes + 1 = k * StreamBlocks + counter
  BY <1>1, Divided DEF RandomInv
<1>3. Random!Current = counter * StreamBlock + used
  BY DEF Random!Current
<1>4. at + StreamBlock = (bytes + 1) * StreamBlock + used
  BY <1>1 DEF RandomInv
<1>5. (bytes + 1) * StreamBlock = k * Random!Period + counter * StreamBlock
  BY <1>1, <1>2, PeriodIs
<1>6. at \in Int
  BY <1>1 DEF RandomInv
<1>7. k * Random!Period \in Int /\ counter * StreamBlock \in Int
  BY <1>1, <1>2, PeriodIs
<1>8. QED
  BY <1>1, <1>2, <1>3, <1>4, <1>5, <1>6, <1>7

\* A seek fills the buffer for the place it goes to.
LEMMA SeeksTo ==
  ASSUME NEW p \in Int, NEW to \in Int, NEW k \in Int, to = p + k * Random!Period,
         Random!SeekTo(p), at' = to % Random!Period
  PROVE  RandomInv'
<1>1. StreamBlock \in Nat \ {0} /\ StreamBlocks \in Nat \ {0}
  BY RandomAssumption
<1>2. PICK q \in Int, u \in 0..StreamBlock - 1 : q = p \div StreamBlock /\ u = p % StreamBlock /\ p = q * StreamBlock + u
  BY <1>1, Divided
<1>3. to % Random!Period = p % Random!Period
  BY PeriodIs, Modular, SMTT(60)
<1>4. at' = (q % StreamBlocks) * StreamBlock + u
  BY <1>2, <1>3, Places
<1>5. bytes' = q % StreamBlocks /\ counter' = ((q % StreamBlocks) + 1) % StreamBlocks /\ used' = u
  BY <1>2 DEF Random!SeekTo, Random!Sought
<1>6. q % StreamBlocks \in 0..StreamBlocks - 1
  BY <1>1, Divided
<1>7. QED
  BY <1>4, <1>5, <1>6 DEF RandomInv

LEMMA RandomSeeks ==
  ASSUME RandomInv, NEW offset \in Int, NEW origin, Random!Seek(offset, origin)
  PROVE  RandomInv' /\ result' = <<"none">>
<1>1. at \in Int /\ Random!Current \in Int /\ StreamBlock \in Nat
  BY CurrentIs, RandomAssumption
<1>2. result' = <<"none">>
  BY DEF Random!Seek, Random!SeekTo
<1>3. CASE Random!SeekTo(offset) /\ at' = offset % Random!Period
  <2>1. offset = offset + 0 * Random!Period
    BY PeriodIs
  <2>2. QED
    BY <1>2, <1>3, <2>1, SeeksTo
<1>4. CASE Random!SeekTo(Random!Current + offset) /\ at' = (at + StreamBlock + offset) % Random!Period
  <2>1. PICK k \in Int : at + StreamBlock = Random!Current + k * Random!Period
    BY CurrentIs
  <2>2. k * Random!Period \in Int
    BY PeriodIs
  <2>3. at + StreamBlock + offset = (Random!Current + offset) + k * Random!Period
    BY <1>1, <2>1, <2>2
  <2>4. Random!Current + offset \in Int /\ at + StreamBlock + offset \in Int
    BY <1>1
  <2>5. QED
    BY <1>2, <1>4, <2>3, <2>4, SeeksTo
<1>5. CASE Random!SeekTo(Random!Period + offset) /\ at' = offset % Random!Period
  <2>1. Random!Period + offset \in Int /\ offset = (Random!Period + offset) + (-1) * Random!Period
    BY PeriodIs
  <2>2. QED
    BY <1>2, <1>5, <2>1, SeeksTo
<1>6. QED
  BY <1>3, <1>4, <1>5 DEF Random!Seek

\* A read of several blocks: from the buffer, whole blocks, and the start of one.
ReadLeft == StreamBlock - used
ReadWhole(n) == (n - ReadLeft) \div StreamBlock
ReadRest(n) == (n - ReadLeft) % StreamBlock
Block(k) == (counter + k) % StreamBlocks

LEMMA BlocksRead ==
  ASSUME RandomInv, NEW k \in Nat
  PROVE  Block(k) = (bytes + 1 + k) % StreamBlocks /\ Block(k) \in 0..StreamBlocks - 1
<1>1. bytes + 1 \in Int /\ StreamBlocks \in Nat \ {0}
  BY RandomAssumption DEF RandomInv
<1>2. Block(k) = (bytes + 1 + k) % StreamBlocks
  <2>1. (((bytes + 1) % StreamBlocks) + k) % StreamBlocks = ((bytes + 1) + k) % StreamBlocks
    BY <1>1, Modular
  <2>2. QED
    BY <2>1 DEF Block, RandomInv
<1>3. bytes + 1 + k \in Int
  BY <1>1
<1>4. QED
  BY <1>1, <1>2, <1>3, Divided

\* The place of the byte that is called n.
PlaceOf(n) == LET place == (at + n - 1) % Random!Period IN <<place \div StreamBlock, place % StreamBlock>>

LEMMA PlacesRead ==
  ASSUME RandomInv, NEW k \in Int, NEW u \in 0..StreamBlock - 1, NEW n \in Int,
         at + n - 1 = k * StreamBlock + u
  PROVE  PlaceOf(n) = <<k % StreamBlocks, u>>
<1>1. at + n - 1 \in Int
  BY CurrentIs
<1>2. QED
  BY <1>1, Places DEF PlaceOf

LEMMA BufferRead ==
  ASSUME RandomInv, NEW n \in Nat, n <= ReadLeft, NEW i \in 1..n
  PROVE  PlaceOf(i) = <<bytes, used + i - 1>>
<1>1. bytes \in Int /\ used \in Int /\ StreamBlock \in Nat /\ bytes * StreamBlock \in Int
  BY RandomAssumption DEF RandomInv
<1>2. PICK u \in 0..StreamBlock - 1 : u = used + i - 1
  BY <1>1 DEF ReadLeft, RandomInv
<1>3. at + i - 1 = bytes * StreamBlock + u
  BY <1>1, <1>2 DEF RandomInv
<1>4. bytes % StreamBlocks = bytes
  BY RandomAssumption DEF RandomInv
<1>5. PlaceOf(i) = <<bytes % StreamBlocks, u>>
  <2>1. i \in Int
    OBVIOUS
  <2>2. QED
    BY <1>1, <1>3, <2>1, PlacesRead
<1>6. QED
  BY <1>2, <1>4, <1>5

\* The bytes behind the buffer, by their block and their byte.
LEMMA BeyondRead ==
  ASSUME RandomInv, NEW k \in Nat, NEW u \in 0..StreamBlock - 1, NEW i \in Int,
         i = ReadLeft + k * StreamBlock + u + 1
  PROVE  PlaceOf(i) = <<Block(k), u>>
<1>1. bytes \in Int /\ used \in Int /\ StreamBlock \in Nat /\ bytes * StreamBlock \in Int /\ k * StreamBlock \in Int
  BY RandomAssumption DEF RandomInv
<1>2. at + i - 1 = bytes * StreamBlock + StreamBlock + k * StreamBlock + u
  BY <1>1 DEF RandomInv, ReadLeft
<1>3. (bytes + 1 + k) * StreamBlock = bytes * StreamBlock + StreamBlock + k * StreamBlock
  BY <1>1
<1>4. at + i - 1 = (bytes + 1 + k) * StreamBlock + u /\ bytes + 1 + k \in Int
  BY <1>1, <1>2, <1>3
<1>5. QED
  BY <1>4, PlacesRead, BlocksRead

\* Three sequences in a row.
Joins(a, b, c, t) ==
  /\ Len(t) = Len(a) + Len(b) + Len(c) /\ (\A i \in 1..Len(a) : t[i] = a[i])
  /\ (\A i \in 1..Len(b) : t[Len(a) + i] = b[i]) /\ (\A i \in 1..Len(c) : t[Len(a) + Len(b) + i] = c[i])

LEMMA InARow ==
  ASSUME NEW V, NEW a \in Seq(V), NEW b \in Seq(V), NEW c \in Seq(V)
  PROVE  a \o b \o c \in Seq(V) /\ Joins(a, b, c, a \o b \o c)
<1>1. PICK d \in Seq(V) : d = a \o b
  <2>1. a \o b \in Seq(V)
    OBVIOUS
  <2>2. QED
    BY <2>1, Zenon
<1>2. Len(d) = Len(a) + Len(b) /\ (\A i \in 1..Len(a) : d[i] = a[i]) /\ (\A i \in 1..Len(b) : d[Len(a) + i] = b[i])
  BY <1>1
<1>3. PICK s \in Seq(V) : s = d \o c
  <2>1. d \o c \in Seq(V)
    OBVIOUS
  <2>2. QED
    BY <2>1, Zenon
<1>4. Len(s) = Len(d) + Len(c) /\ (\A i \in 1..Len(d) : s[i] = d[i]) /\ (\A i \in 1..Len(c) : s[Len(d) + i] = c[i])
  BY <1>3
<1>5. \A i \in 1..Len(a) : s[i] = a[i]
  BY <1>2, <1>4
<1>6. \A i \in 1..Len(b) : s[Len(a) + i] = b[i]
  BY <1>2, <1>4
<1>7. \A i \in 1..Len(c) : s[Len(a) + Len(b) + i] = c[i]
  BY <1>2, <1>4
<1>8. Len(s) = Len(a) + Len(b) + Len(c)
  BY <1>2, <1>4
<1>9. Joins(a, b, c, s)
  BY <1>5, <1>6, <1>7, <1>8, Zenon DEF Joins
<1>10. QED
  BY <1>1, <1>3, <1>9, Zenon

\* A function of the numbers up to n is a sequence.
LEMMA Rows ==
  ASSUME NEW V, NEW n \in Nat, NEW f, f = [i \in 1..n |-> f[i]], \A i \in 1..n : f[i] \in V
  PROVE  f \in Seq(V) /\ Len(f) = n
<1>1. f \in [1..n -> V]
  OBVIOUS
<1>2. QED
  BY <1>1

\* A read that the buffer does not satisfy, in its parts.
LEMMA ReadParts ==
  ASSUME RandomInv, NEW n \in Nat, ReadLeft <= n
  PROVE  /\ ReadLeft \in 1..n /\ ReadWhole(n) \in Nat /\ ReadRest(n) \in 0..StreamBlock - 1
         /\ ReadWhole(n) * StreamBlock \in Nat
         /\ n = ReadLeft + ReadWhole(n) * StreamBlock + ReadRest(n)
<1>1. used \in 0..StreamBlock - 1 /\ StreamBlock \in Nat \ {0}
  BY RandomAssumption DEF RandomInv
<1>2. ReadLeft \in 1..n /\ n - ReadLeft \in Nat
  BY <1>1 DEF ReadLeft
<1>3. /\ ReadWhole(n) \in Int /\ ReadRest(n) \in 0..StreamBlock - 1
      /\ n - ReadLeft = ReadWhole(n) * StreamBlock + ReadRest(n)
  BY <1>1, <1>2, Divided DEF ReadWhole, ReadRest
<1>4. ReadWhole(n) >= 0
  <2>1. ReadWhole(n) <= -1 => ReadWhole(n) * StreamBlock <= -StreamBlock
    BY <1>1, <1>3
  <2>2. QED
    BY <1>1, <1>2, <1>3, <2>1
<1>5. ReadWhole(n) * StreamBlock \in Nat
  BY <1>1, <1>3, <1>4
<1>6. QED
  BY <1>2, <1>3, <1>4, <1>5

\* What is read is what PlaceOf says, byte by byte.
ReadFrom(s) == Len(s) \in Nat /\ s = [i \in 1..Len(s) |-> PlaceOf(i)]

LEMMA PartsRead ==
  ASSUME RandomInv, NEW n \in Nat, ReadLeft <= n
  PROVE  ReadFrom(Random!FromBlock(bytes, used, ReadLeft)
                  \o [i \in 1..ReadWhole(n) * StreamBlock |-> <<Block((i - 1) \div StreamBlock), (i - 1) % StreamBlock>>]
                  \o Random!FromBlock(Block(ReadWhole(n)), 0, ReadRest(n)))
<1> DEFINE a == Random!FromBlock(bytes, used, ReadLeft)
           b == [i \in 1..ReadWhole(n) * StreamBlock |-> <<Block((i - 1) \div StreamBlock), (i - 1) % StreamBlock>>]
           c == Random!FromBlock(Block(ReadWhole(n)), 0, ReadRest(n))
           la == ReadLeft
           lb == ReadWhole(n) * StreamBlock
           lc == ReadRest(n)
<1>1. la \in 1..n /\ lb \in Nat /\ lc \in 0..StreamBlock - 1 /\ StreamBlock \in Nat \ {0} /\ ReadWhole(n) \in Nat
      /\ n = la + lb + lc
  BY ReadParts, RandomAssumption
<1>2. \A i \in 1..la : a[i] = PlaceOf(i)
  <2> SUFFICES ASSUME NEW i \in 1..la PROVE a[i] = PlaceOf(i)
    OBVIOUS
  <2>1. la \in Nat /\ la <= ReadLeft
    BY <1>1
  <2>2. PlaceOf(i) = <<bytes, used + i - 1>>
    BY <2>1, BufferRead
  <2>3. QED
    BY <2>2 DEF Random!FromBlock
<1>3. \A i \in 1..lb : b[i] = PlaceOf(la + i)
  <2> SUFFICES ASSUME NEW i \in 1..lb PROVE b[i] = PlaceOf(la + i)
    OBVIOUS
  <2>1. PICK k \in Int, u \in 0..StreamBlock - 1 :
          k = (i - 1) \div StreamBlock /\ u = (i - 1) % StreamBlock /\ i - 1 = k * StreamBlock + u
    <3>1. i - 1 \in Int
      OBVIOUS
    <3>2. QED
      BY <1>1, <3>1, Divided
  <2>2. k \in Nat
    <3>1. k <= -1 => k * StreamBlock <= -StreamBlock
      BY <1>1
    <3>2. k * StreamBlock \in Int /\ i - 1 >= 0
      BY <1>1
    <3>3. QED
      BY <1>1, <2>1, <3>1, <3>2
  <2>3. k * StreamBlock \in Int /\ la \in Int /\ i \in Int
    BY <1>1
  <2>4. la + i = ReadLeft + k * StreamBlock + u + 1
    BY <2>1, <2>3
  <2>5. la + i \in Int
    BY <2>3
  <2>6. PlaceOf(la + i) = <<Block(k), u>>
    BY <2>2, <2>4, <2>5, BeyondRead
  <2>7. QED
    BY <2>1, <2>6
<1>4. \A i \in 1..lc : c[i] = PlaceOf(la + lb + i)
  <2> SUFFICES ASSUME NEW i \in 1..lc PROVE c[i] = PlaceOf(la + lb + i)
    OBVIOUS
  <2>1. PICK u \in 0..StreamBlock - 1 : u = i - 1
    BY <1>1
  <2>2. la + lb + i = ReadLeft + ReadWhole(n) * StreamBlock + u + 1 /\ la + lb + i \in Int
    BY <1>1, <2>1
  <2>3. PlaceOf(la + lb + i) = <<Block(ReadWhole(n)), u>>
    BY <1>1, <2>2, BeyondRead
  <2>4. QED
    BY <2>1, <2>3 DEF Random!FromBlock
<1>5. /\ a = [i \in 1..la |-> a[i]] /\ b = [i \in 1..lb |-> b[i]] /\ c = [i \in 1..lc |-> c[i]]
  BY DEF Random!FromBlock
<1> DEFINE V == {PlaceOf(i) : i \in 1..n}
<1>6. a \in Seq(V) /\ b \in Seq(V) /\ c \in Seq(V) /\ Len(a) = la /\ Len(b) = lb /\ Len(c) = lc
  <2>1. \A i \in 1..la : a[i] \in V
    BY <1>1, <1>2
  <2>2. \A i \in 1..lb : b[i] \in V
    <3> SUFFICES ASSUME NEW i \in 1..lb PROVE b[i] \in V
      OBVIOUS
    <3>1. la + i \in 1..n
      BY <1>1
    <3>2. QED
      BY <1>3, <3>1
  <2>3. \A i \in 1..lc : c[i] \in V
    <3> SUFFICES ASSUME NEW i \in 1..lc PROVE c[i] \in V
      OBVIOUS
    <3>1. la + lb + i \in 1..n
      BY <1>1
    <3>2. QED
      BY <1>4, <3>1
  <2> HIDE DEF a, b, c, V, la, lb, lc
  <2>4. la \in Nat /\ lb \in Nat /\ lc \in Nat
    BY <1>1
  <2>5. a \in Seq(V) /\ Len(a) = la
    BY <1>5, <2>1, <2>4, Rows
  <2>6. b \in Seq(V) /\ Len(b) = lb
    BY <1>5, <2>2, <2>4, Rows
  <2>7. c \in Seq(V) /\ Len(c) = lc
    BY <1>5, <2>3, <2>4, Rows
  <2>8. QED
    BY <2>5, <2>6, <2>7
<1> HIDE DEF a, b, c, V, la, lb, lc
<1>7. PICK s \in Seq(V) : s = a \o b \o c
  BY <1>6, InARow
<1>8. /\ Len(s) = la + lb + lc /\ (\A i \in 1..la : s[i] = a[i]) /\ (\A i \in 1..lb : s[la + i] = b[i])
      /\ (\A i \in 1..lc : s[la + lb + i] = c[i])
  <2>1. /\ Len(s) = Len(a) + Len(b) + Len(c) /\ (\A i \in 1..Len(a) : s[i] = a[i])
        /\ (\A i \in 1..Len(b) : s[Len(a) + i] = b[i]) /\ (\A i \in 1..Len(c) : s[Len(a) + Len(b) + i] = c[i])
    <3> DEFINE t == a \o b \o c
    <3>1. Joins(a, b, c, t)
      <4>1. a \in Seq(V) /\ b \in Seq(V) /\ c \in Seq(V)
        BY <1>6
      <4>2. QED
        BY <4>1, InARow, Zenon DEF t
    <3>2. t = s
      BY <1>7
    <3> HIDE DEF t
    <3>3. Joins(a, b, c, s)
      BY <3>1, <3>2, Zenon
    <3>4. QED
      BY <3>3, Zenon DEF Joins
  <2>2. QED
    BY <1>6, <2>1, Zenon
<1>9. \A i \in 1..n : s[i] = PlaceOf(i)
  <2> SUFFICES ASSUME NEW i \in 1..n PROVE s[i] = PlaceOf(i)
    OBVIOUS
  <2>1. CASE i \in 1..la
    BY <1>2, <1>8, <2>1
  <2>2. CASE i \in la + 1..la + lb
    <3>1. PICK j \in 1..lb : i = la + j
      <4>1. i - la \in 1..lb /\ i = la + (i - la)
        BY <1>1, <2>2
      <4>2. QED
        BY <4>1
    <3>2. s[i] = b[j]
      BY <1>8, <3>1
    <3>3. QED
      BY <1>3, <3>1, <3>2
  <2>3. CASE i \in la + lb + 1..n
    <3>1. PICK j \in 1..lc : i = la + lb + j
      <4>1. i - la - lb \in 1..lc /\ i = la + lb + (i - la - lb)
        BY <1>1, <2>3
      <4>2. QED
        BY <4>1
    <3>2. s[i] = c[j]
      BY <1>8, <3>1
    <3>3. QED
      BY <1>4, <3>1, <3>2
  <2>4. QED
    BY <1>1, <2>1, <2>2, <2>3
<1>10. s = [i \in 1..n |-> PlaceOf(i)]
  <2>1. DOMAIN s = 1..n
    BY <1>1, <1>8
  <2>2. s = [i \in 1..n |-> s[i]]
    BY <2>1
  <2>3. QED
    BY <1>9, <2>2
<1>11. ReadFrom(s)
  <2>1. Len(s) = n
    BY <1>1, <1>8
  <2>2. QED
    BY <1>10, <2>1 DEF ReadFrom
<1>12. QED
  BY <1>7, <1>11 DEF a, b, c, la, lb, lc

LEMMA RandomReads ==
  ASSUME RandomInv, NEW n \in Nat, Random!Read(n)
  PROVE  RandomInv' /\ \E s : result' = <<"bytes", s>> /\ ReadFrom(s)
<1>1. /\ bytes \in 0..StreamBlocks - 1 /\ used \in 0..StreamBlock - 1 /\ counter = (bytes + 1) % StreamBlocks
      /\ at = bytes * StreamBlock + used /\ StreamBlock \in Nat \ {0} /\ StreamBlocks \in Nat \ {0}
      /\ bytes * StreamBlock \in Int
  BY RandomAssumption DEF RandomInv
<1>2. at' = (at + n) % Random!Period
  BY DEF Random!Read
<1>3. \A s : Len(s) = 0 /\ s = <<>> => ReadFrom(s)
  BY DEF ReadFrom
<1>4. bytes % StreamBlocks = bytes
  BY <1>1
<1>5. CASE n = 0 /\ result' = <<"bytes", <<>>>> /\ UNCHANGED <<counter, bytes, used>>
  <2>1. at + n = bytes * StreamBlock + used /\ bytes \in Int /\ at + n \in Int
    BY <1>1, <1>5
  <2>2. at' = bytes * StreamBlock + used
    <3>1. PICK x \in Int, u \in 0..StreamBlock - 1 : x = at + n /\ u = used /\ x = bytes * StreamBlock + u
      BY <1>1, <2>1
    <3>2. x % Random!Period = (bytes % StreamBlocks) * StreamBlock + u
      BY <2>1, <3>1, Places
    <3>3. QED
      BY <1>2, <1>4, <3>1, <3>2
  <2>3. RandomInv'
    BY <1>1, <1>5, <2>2 DEF RandomInv
  <2>4. ReadFrom(<<>>)
    BY <1>3
  <2>5. QED
    BY <1>5, <2>3, <2>4
<1>6. CASE /\ n > 0 /\ ReadLeft > n
           /\ result' = <<"bytes", Random!FromBlock(bytes, used, n)>>
           /\ used' = used + n
           /\ UNCHANGED <<counter, bytes>>
  <2>1. PICK u \in 0..StreamBlock - 1 : u = used + n
    BY <1>1, <1>6 DEF ReadLeft
  <2>2. at + n = bytes * StreamBlock + u /\ bytes \in Int /\ at + n \in Int
    BY <1>1, <2>1
  <2>3. at' = bytes * StreamBlock + u
    BY <1>2, <1>4, <2>2, Places
  <2>4. RandomInv'
    BY <1>1, <1>6, <2>1, <2>3 DEF RandomInv
  <2>5. n <= ReadLeft
    BY <1>1, <1>6 DEF ReadLeft
  <2>6. \A i \in 1..n : PlaceOf(i) = <<bytes, used + i - 1>>
    BY <2>5, BufferRead
  <2>7. PICK s : s = [i \in 1..n |-> PlaceOf(i)]
    OBVIOUS
  <2>8. Len(s) = n
    BY <2>7
  <2>9. s = Random!FromBlock(bytes, used, n)
    BY <2>6, <2>7 DEF Random!FromBlock
  <2>10. QED
    BY <1>6, <2>4, <2>7, <2>8, <2>9 DEF ReadFrom
<1>7. CASE /\ n > 0 /\ ReadLeft <= n
           /\ result' = <<"bytes",
                Random!FromBlock(bytes, used, ReadLeft)
                  \o [i \in 1..ReadWhole(n) * StreamBlock |-> <<Block((i - 1) \div StreamBlock), (i - 1) % StreamBlock>>]
                  \o Random!FromBlock(Block(ReadWhole(n)), 0, ReadRest(n))>>
           /\ bytes' = Block(ReadWhole(n)) /\ counter' = Block(ReadWhole(n) + 1) /\ used' = ReadRest(n)
  <2>1. /\ ReadLeft \in 1..n /\ ReadWhole(n) \in Nat /\ ReadRest(n) \in 0..StreamBlock - 1
        /\ ReadWhole(n) * StreamBlock \in Nat /\ n = ReadLeft + ReadWhole(n) * StreamBlock + ReadRest(n)
    BY <1>7, ReadParts
  <2>2. PICK w \in Nat, u \in 0..StreamBlock - 1 : w = ReadWhole(n) /\ u = ReadRest(n)
    BY <2>1
  <2>3. w * StreamBlock \in Int /\ w + 1 \in Nat /\ (bytes + 1 + w) \in Int
    BY <1>1
  <2>4. (bytes + 1 + w) * StreamBlock = bytes * StreamBlock + StreamBlock + w * StreamBlock
    BY <1>1
  <2>5. at + n = (bytes + 1 + w) * StreamBlock + u
    BY <1>1, <2>1, <2>2, <2>3, <2>4 DEF ReadLeft
  <2>6. at + n \in Int
    BY <1>1
  <2>7. at' = ((bytes + 1 + w) % StreamBlocks) * StreamBlock + u
    BY <1>2, <2>3, <2>5, <2>6, Places
  <2>8. /\ Block(w) = (bytes + 1 + w) % StreamBlocks /\ Block(w) \in 0..StreamBlocks - 1
        /\ Block(w + 1) = (bytes + 1 + (w + 1)) % StreamBlocks
    BY <2>3, BlocksRead
  <2>9. Block(w + 1) = (Block(w) + 1) % StreamBlocks
    <3>1. (((bytes + 1 + w) % StreamBlocks) + 1) % StreamBlocks = ((bytes + 1 + w) + 1) % StreamBlocks
      <4>1. PICK x \in Int : x = bytes + 1 + w
        BY <2>3
      <4>2. ((x % StreamBlocks) + 1) % StreamBlocks = (x + 1) % StreamBlocks
        <5>1. 1 \in Int
          OBVIOUS
        <5>2. QED
          BY <1>1, <5>1, Modular, Zenon
      <4>3. QED
        BY <4>1, <4>2
    <3>2. bytes + 1 + (w + 1) = (bytes + 1 + w) + 1
      BY <1>1
    <3>3. QED
      BY <2>8, <3>1, <3>2
  <2>10. RandomInv'
    BY <1>7, <2>2, <2>7, <2>8, <2>9 DEF RandomInv
  <2>11. QED
    BY <1>7, <2>10, PartsRead
<1>8. QED
  BY <1>5, <1>6, <1>7, Zenon DEF Random!Read, ReadLeft, ReadWhole, ReadRest, Block

\* The conditions of ReadsOn.
ReadOn ==
  /\ result'[1] = "bytes" =>
       result'[2] = [i \in 1..Len(result'[2]) |->
         LET place == (at + i - 1) % Random!Period IN <<place \div StreamBlock, place % StreamBlock>>]
  /\ result'[1] = "position" => result'[2] % Random!Period = (at + StreamBlock) % Random!Period
  /\ result'[1] = "available" => (result'[2] + at + StreamBlock) % Random!Period = 0

LEMMA RandomKeeps ==
  ASSUME RandomInv, [Random!Next]_Random!vars
  PROVE  RandomInv' /\ [ReadOn]_Random!vars
<1>1. CASE UNCHANGED Random!vars
  BY <1>1 DEF Random!vars, RandomInv
<1>2. PICK k \in Int : at + StreamBlock = Random!Current + k * Random!Period
  BY CurrentIs
<1>3. /\ at \in Int /\ Random!Current \in Int /\ StreamBlock \in Int /\ Random!Period \in Nat \ {0}
      /\ k * Random!Period \in Int
  BY CurrentIs, RandomAssumption, PeriodIs
<1>4. ASSUME Random!Position PROVE RandomInv' /\ ReadOn
  <2>1. RandomInv' /\ result' = <<"position", Random!Current>>
    BY <1>4 DEF Random!Position, RandomInv
  <2>2. Random!Current % Random!Period = (at + StreamBlock) % Random!Period
    <3>1. (Random!Current + k * Random!Period) % Random!Period = Random!Current % Random!Period
      BY <1>3, Modular, ZenonT(60)
    <3>2. QED
      BY <1>2, <3>1
  <2>3. QED
    BY <2>1, <2>2 DEF ReadOn
<1>5. ASSUME Random!Available PROVE RandomInv' /\ ReadOn
  <2>1. RandomInv' /\ result' = <<"available", Random!Period - Random!Current>>
    BY <1>5 DEF Random!Available, RandomInv
  <2>2. (Random!Period - Random!Current) + at + StreamBlock = (k + 1) * Random!Period + 0
    <3>1. (k + 1) * Random!Period = k * Random!Period + Random!Period
      BY <1>3
    <3>2. QED
      BY <1>2, <1>3, <3>1
  <2>3. 0 \in 0..Random!Period - 1 /\ k + 1 \in Int /\ (Random!Period - Random!Current) + at + StreamBlock \in Int
    BY <1>3
  <2>4. ((Random!Period - Random!Current) + at + StreamBlock) % Random!Period = 0
    BY <1>3, <2>2, <2>3, OnlyDivision
  <2>5. QED
    BY <2>1, <2>4 DEF ReadOn
<1>6. ASSUME NEW n \in 0..MaxMove, Random!Read(n) PROVE RandomInv' /\ ReadOn
  <2>1. n \in Nat
    BY RandomAssumption
  <2>2. RandomInv' /\ \E s : result' = <<"bytes", s>> /\ ReadFrom(s)
    BY <1>6, <2>1, RandomReads
  <2>3. PICK s : result' = <<"bytes", s>> /\ ReadFrom(s)
    BY <2>2
  <2>4. result'[1] = "bytes" /\ result'[2] = s
    BY <2>3
  <2>5. QED
    BY <2>2, <2>3, <2>4, Zenon DEF ReadOn, ReadFrom, PlaceOf
<1>7. ASSUME NEW offset \in -MaxMove..MaxMove, NEW origin, Random!Seek(offset, origin) \/ Random!SeekRefused(offset, origin)
      PROVE  RandomInv' /\ ReadOn
  <2>1. CASE Random!Seek(offset, origin)
    <3>1. offset \in Int
      BY RandomAssumption
    <3>2. QED
      BY <2>1, <3>1, RandomSeeks DEF ReadOn
  <2>2. CASE Random!SeekRefused(offset, origin)
    BY <2>2 DEF Random!SeekRefused, RandomInv, ReadOn
  <2>3. QED
    BY <1>7, <2>1, <2>2
<1>8. QED
  BY <1>1, <1>4, <1>5, <1>6, <1>7, Zenon DEF Random!Next

-----------------------------------------------------------------------------
\* Vectors.

\* A part of a sequence, item by item.
LEMMA Cut ==
  ASSUME NEW V, NEW s \in Seq(V), NEW a \in Int, NEW b \in Int, 1 <= a, a <= b + 1, b <= Len(s)
  PROVE  SubSeq(s, a, b) \in Seq(V) /\ Len(SubSeq(s, a, b)) = (b - a) + 1
         /\ \A i \in 1..(b - a) + 1 : SubSeq(s, a, b)[i] = s[(a + i) - 1]
OBVIOUS

LEMMA SameRows ==
  ASSUME NEW V, NEW s \in Seq(V), NEW t \in Seq(V), Len(s) = Len(t), \A i \in 1..Len(s) : s[i] = t[i]
  PROVE  s = t
OBVIOUS

\* The size is within the capacity, which is that of the block.
ItemsInv ==
  /\ capacity \in Nat /\ count \in 0..capacity
  /\ DOMAIN values = 0..capacity - 1

LEMMA ItemsStart == Items!Init => ItemsInv
BY DEF Items!Init, ItemsInv

\* The items of a block.
RowOf(c, n) == [i \in 1..n |-> c[i - 1]]

LEMMA RowsAre ==
  ASSUME NEW c, NEW n \in Nat, NEW V, \A i \in 0..n - 1 : c[i] \in V
  PROVE  RowOf(c, n) \in Seq(V) /\ Len(RowOf(c, n)) = n /\ \A i \in 1..n : RowOf(c, n)[i] = c[i - 1]
<1>1. \A i \in 1..n : RowOf(c, n)[i] = c[i - 1] /\ i - 1 \in 0..n - 1
  BY DEF RowOf
<1>2. \A i \in 1..n : RowOf(c, n)[i] \in V
  BY <1>1
<1>3. RowOf(c, n) = [i \in 1..n |-> RowOf(c, n)[i]]
  BY DEF RowOf
<1>4. QED
  BY <1>1, <1>2, <1>3, Rows

\* From the cells to the items: what is in front of idx stays, the items come in, what is behind
\* them follows.
Edits(idx, gone, items, c, m) ==
  /\ idx \in 0..count /\ gone \in 0..count - idx /\ m \in Nat /\ m = (count + Len(items)) - gone
  /\ \E V : items \in Seq(V)
  /\ \A i \in 0..idx - 1 : c[i] = values[i]
  /\ \A i \in idx + Len(items)..m - 1 : c[i] = values[(i - Len(items)) + gone]
EditedRows(idx, gone, items, c, m) ==
  /\ SubSeq(RowOf(c, m), 1, idx) = SubSeq(RowOf(values, count), 1, idx)
  /\ SubSeq(RowOf(c, m), idx + Len(items) + 1, m) = SubSeq(RowOf(values, count), idx + gone + 1, count)
  /\ (\A i \in 1..Len(items) : c[(idx + i) - 1] = items[i]) =>
       SubSeq(RowOf(c, m), idx + 1, idx + Len(items)) = items

LEMMA RowsEdited ==
  ASSUME ItemsInv, NEW idx, NEW gone, NEW items, NEW c, NEW m, Edits(idx, gone, items, c, m)
  PROVE  EditedRows(idx, gone, items, c, m)
<1>p. PICK V : items \in Seq(V)
  BY DEF Edits
<1>q. idx \in 0..count /\ gone \in 0..count - idx /\ m \in Nat /\ m = (count + Len(items)) - gone
  BY DEF Edits
<1>r. (\A i \in 0..idx - 1 : c[i] = values[i]) /\ \A i \in idx + Len(items)..m - 1 : c[i] = values[(i - Len(items)) + gone]
  BY DEF Edits
<1> USE <1>q
<1> DEFINE W == V \cup {c[i] : i \in 0..m - 1} \cup {values[i] : i \in 0..count - 1}
           new == RowOf(c, m)
           old == RowOf(values, count)
           n == Len(items)
<1>1. count \in Nat /\ n \in Nat /\ items \in Seq(W)
  BY <1>p DEF ItemsInv
<1>2. new \in Seq(W) /\ Len(new) = m /\ \A i \in 1..m : new[i] = c[i - 1]
  <2>1. \A i \in 0..m - 1 : c[i] \in W
    OBVIOUS
  <2>2. QED
    BY <2>1, RowsAre
<1>3. old \in Seq(W) /\ Len(old) = count /\ \A i \in 1..count : old[i] = values[i - 1]
  <2>1. \A i \in 0..count - 1 : values[i] \in W
    OBVIOUS
  <2>2. QED
    BY <1>1, <2>1, RowsAre
<1> HIDE DEF W, new, old, n
<1>4. m = (count + n) - gone /\ idx + n <= m
  BY <1>1 DEF n
<1>5. SubSeq(new, 1, idx) = SubSeq(old, 1, idx)
  <2>1. 1 \in Int /\ idx \in Int /\ 1 <= 1 /\ 1 <= idx + 1 /\ idx <= Len(new) /\ idx <= Len(old)
    BY <1>1, <1>2, <1>3, <1>4
  <2>2. SubSeq(new, 1, idx) \in Seq(W) /\ Len(SubSeq(new, 1, idx)) = (idx - 1) + 1
        /\ \A i \in 1..(idx - 1) + 1 : SubSeq(new, 1, idx)[i] = new[(1 + i) - 1]
    BY <1>2, <2>1, Cut
  <2>3. SubSeq(old, 1, idx) \in Seq(W) /\ Len(SubSeq(old, 1, idx)) = (idx - 1) + 1
        /\ \A i \in 1..(idx - 1) + 1 : SubSeq(old, 1, idx)[i] = old[(1 + i) - 1]
    BY <1>3, <2>1, Cut
  <2>4. \A i \in 1..(idx - 1) + 1 : SubSeq(new, 1, idx)[i] = SubSeq(old, 1, idx)[i]
    <3> SUFFICES ASSUME NEW i \in 1..(idx - 1) + 1 PROVE SubSeq(new, 1, idx)[i] = SubSeq(old, 1, idx)[i]
      OBVIOUS
    <3>1. (1 + i) - 1 = i /\ i \in 1..m /\ i \in 1..count /\ i - 1 \in 0..idx - 1
      BY <1>1, <1>4
    <3>2. SubSeq(new, 1, idx)[i] = new[i] /\ SubSeq(old, 1, idx)[i] = old[i]
      BY <2>2, <2>3, <3>1
    <3>3. new[i] = c[i - 1] /\ old[i] = values[i - 1]
      BY <1>2, <1>3, <3>1
    <3>4. QED
      BY <1>r, <3>1, <3>2, <3>3
  <2>5. QED
    BY <2>2, <2>3, <2>4, SameRows
<1>6. SubSeq(new, idx + n + 1, m) = SubSeq(old, idx + gone + 1, count)
  <2>1. PICK a \in Int, b \in Int, k \in Nat :
          a = idx + n + 1 /\ b = idx + gone + 1 /\ k = (m - a) + 1 /\ k = (count - b) + 1
          /\ 1 <= a /\ a <= m + 1 /\ 1 <= b /\ b <= count + 1
    <3>1. (m - (idx + n + 1)) + 1 \in Nat /\ (m - (idx + n + 1)) + 1 = (count - (idx + gone + 1)) + 1
          /\ idx + n + 1 \in Int /\ idx + gone + 1 \in Int
      BY <1>1, <1>4
    <3>2. 1 <= idx + n + 1 /\ idx + n + 1 <= m + 1 /\ 1 <= idx + gone + 1 /\ idx + gone + 1 <= count + 1
      BY <1>1, <1>4
    <3>3. QED
      BY <3>1, <3>2
  <2>2. SubSeq(new, a, m) \in Seq(W) /\ Len(SubSeq(new, a, m)) = k
        /\ \A i \in 1..k : SubSeq(new, a, m)[i] = new[(a + i) - 1]
    <3>1. PICK z \in Int : z = m /\ z <= Len(new) /\ (z - a) + 1 = k /\ a <= z + 1
      BY <1>2, <2>1
    <3>2. new \in Seq(W) /\ 1 <= a
      BY <1>2, <2>1
    <3>3. /\ SubSeq(new, a, z) \in Seq(W) /\ Len(SubSeq(new, a, z)) = (z - a) + 1
          /\ \A i \in 1..(z - a) + 1 : SubSeq(new, a, z)[i] = new[(a + i) - 1]
      BY <3>1, <3>2, Cut, SMTT(60)
    <3>4. QED
      BY <3>1, <3>3
  <2>3. SubSeq(old, b, count) \in Seq(W) /\ Len(SubSeq(old, b, count)) = k
        /\ \A i \in 1..k : SubSeq(old, b, count)[i] = old[(b + i) - 1]
    BY <1>1, <1>3, <2>1, Cut
  <2>4. \A i \in 1..k : SubSeq(new, a, m)[i] = SubSeq(old, b, count)[i]
    <3> SUFFICES ASSUME NEW i \in 1..k PROVE SubSeq(new, a, m)[i] = SubSeq(old, b, count)[i]
      OBVIOUS
    <3>1. PICK j \in idx + n..m - 1 : j = idx + n + i - 1
      BY <1>1, <1>4, <2>1
    <3>2. (a + i) - 1 = j + 1 /\ j + 1 \in 1..m /\ (j + 1) - 1 = j
      BY <1>1, <1>4, <2>1, <3>1
    <3>3. (b + i) - 1 = ((j - n) + gone) + 1 /\ ((j - n) + gone) + 1 \in 1..count
          /\ (((j - n) + gone) + 1) - 1 = (j - n) + gone
      BY <1>1, <1>4, <2>1, <3>1
    <3>4. c[j] = values[(j - n) + gone]
      BY <1>r DEF n
    <3>5. new[(a + i) - 1] = c[j]
      BY <1>2, <3>2
    <3>6. old[(b + i) - 1] = values[(j - n) + gone]
      BY <1>3, <3>3
    <3>7. SubSeq(new, a, m)[i] = new[(a + i) - 1] /\ SubSeq(old, b, count)[i] = old[(b + i) - 1]
      BY <2>2, <2>3
    <3>8. QED
      BY <3>4, <3>5, <3>6, <3>7
  <2>5. SubSeq(new, a, m) = SubSeq(old, b, count)
    BY <2>2, <2>3, <2>4, SameRows
  <2>6. QED
    BY <2>1, <2>5
<1>7. ASSUME \A i \in 1..n : c[(idx + i) - 1] = items[i] PROVE SubSeq(new, idx + 1, idx + n) = items
  <2>1. PICK a \in Int, b \in Int : a = idx + 1 /\ b = idx + n /\ (b - a) + 1 = n /\ 1 <= a /\ a <= b + 1 /\ b <= m
    <3>1. idx + 1 \in Int /\ idx + n \in Int /\ ((idx + n) - (idx + 1)) + 1 = n
      BY <1>1
    <3>2. 1 <= idx + 1 /\ idx + 1 <= (idx + n) + 1 /\ idx + n <= m
      BY <1>1, <1>4
    <3>3. QED
      BY <3>1, <3>2
  <2>2. SubSeq(new, a, b) \in Seq(W) /\ Len(SubSeq(new, a, b)) = n
        /\ \A i \in 1..n : SubSeq(new, a, b)[i] = new[(a + i) - 1]
    BY <1>2, <2>1, Cut, SMTT(60)
  <2>3. \A i \in 1..n : SubSeq(new, a, b)[i] = items[i]
    <3> SUFFICES ASSUME NEW i \in 1..n PROVE SubSeq(new, a, b)[i] = items[i]
      OBVIOUS
    <3>1. PICK j \in 1..m : j = (a + i) - 1 /\ j - 1 = (idx + i) - 1
      <4>1. (a + i) - 1 = idx + i /\ idx + i \in 1..m
        BY <1>1, <1>4, <2>1
      <4>2. QED
        BY <4>1
    <3>2. new[j] = c[j - 1]
      BY <1>2
    <3>3. QED
      BY <1>7, <2>2, <3>1, <3>2
  <2>4. Len(items) = n
    BY DEF n
  <2>5. SubSeq(new, a, b) = items
    BY <1>1, <2>2, <2>3, <2>4, SameRows
  <2>6. QED
    BY <2>1, <2>5
<1>8. QED
  BY <1>5, <1>6, <1>7, Zenon DEF n, new, old, EditedRows

\* What EditsItems says of a step.
EditedItems ==
  LET idx == edit'.idx
      n == Len(edit'.run.items)
  IN /\ count' <= capacity'
     /\ count' = (count + n) - edit'.gone
     /\ SubSeq(Items!Items', 1, idx) = SubSeq(Items!Items, 1, idx)
     /\ SubSeq(Items!Items', idx + n + 1, count') = SubSeq(Items!Items, idx + edit'.gone + 1, count)
     /\ Items!Stale(edit') \/ SubSeq(Items!Items', idx + 1, idx + n) = edit'.run.items

\* A call that edits the cells so.
Performs(idx, gone, items, c, m, r) ==
  /\ Edits(idx, gone, items, c, m)
  /\ edit'.idx = idx /\ edit'.gone = gone /\ edit'.run.items = items
  /\ values' = c /\ count' = m /\ capacity' = r
  /\ r \in Nat /\ DOMAIN c = 0..r - 1 /\ m <= r
  /\ Items!Stale(edit') \/ \A i \in 1..Len(items) : c[(idx + i) - 1] = items[i]

LEMMA ItemsEdited ==
  ASSUME ItemsInv, NEW idx, NEW gone, NEW items, NEW c, NEW m, NEW r, Performs(idx, gone, items, c, m, r)
  PROVE  ItemsInv' /\ EditedItems
<1>1. ItemsInv' /\ m = (count + Len(items)) - gone
  BY DEF ItemsInv, Edits, Performs
<1>2. Items!Items' = RowOf(c, m) /\ Items!Items = RowOf(values, count)
  BY DEF Items!Items, RowOf, Performs
<1>3. /\ SubSeq(RowOf(c, m), 1, idx) = SubSeq(RowOf(values, count), 1, idx)
      /\ SubSeq(RowOf(c, m), idx + Len(items) + 1, m) = SubSeq(RowOf(values, count), idx + gone + 1, count)
      /\ (\A i \in 1..Len(items) : c[(idx + i) - 1] = items[i]) =>
           SubSeq(RowOf(c, m), idx + 1, idx + Len(items)) = items
  <2>1. EditedRows(idx, gone, items, c, m)
    BY RowsEdited, Zenon DEF Performs
  <2>2. QED
    BY <2>1, Zenon DEF EditedRows
<1>4. /\ edit'.idx = idx /\ edit'.gone = gone /\ edit'.run.items = items
      /\ count' = m /\ count' <= capacity'
      /\ Items!Stale(edit') \/ \A i \in 1..Len(items) : c[(idx + i) - 1] = items[i]
  BY Zenon DEF Performs
<1>5. Items!Stale(edit') \/ SubSeq(Items!Items', idx + 1, idx + Len(items)) = items
  BY <1>2, <1>3, <1>4, Zenon
<1>6. QED
  BY <1>1, <1>2, <1>3, <1>4, <1>5, Zenon DEF EditedItems

\* The runs of n items.
LEMMA RunsAre ==
  ASSUME ItemsInv, NEW n \in Nat, NEW run \in Items!Runs(n)
  PROVE  /\ \E V : run.items \in Seq(V)
         /\ Len(run.items) = n
         /\ run.own => /\ run.start \in 0..count - n
                       /\ \A i \in 1..n : run.items[i] = values[(run.start + i) - 1]
<1>1. CASE \E items \in [1..n -> Item] : run = Items!Client(items)
  <2>1. PICK items \in [1..n -> Item] : run = Items!Client(items)
    BY <1>1
  <2>2. run.items = items /\ ~run.own
    BY <2>1 DEF Items!Client
  <2>3. items \in Seq(Item) /\ Len(items) = n
    OBVIOUS
  <2>4. QED
    BY <2>2, <2>3
<1>2. CASE \E start \in 0..count - n : run = Items!Own(start, n)
  <2>1. PICK start \in 0..count - n : run = Items!Own(start, n)
    BY <1>2
  <2>2. run.start = start /\ run.items = SubSeq(RowOf(values, count), start + 1, start + n)
    BY <2>1 DEF Items!Own, Items!Items, RowOf
  <2> DEFINE V == {values[i] : i \in 0..count - 1}
             row == RowOf(values, count)
  <2>3. count \in Nat
    BY DEF ItemsInv
  <2>4. row \in Seq(V) /\ Len(row) = count /\ \A i \in 1..count : row[i] = values[i - 1]
    <3>1. \A i \in 0..count - 1 : values[i] \in V
      OBVIOUS
    <3>2. QED
      BY <2>3, <3>1, RowsAre
  <2>5. PICK a \in Int, b \in Int : a = start + 1 /\ b = start + n /\ (b - a) + 1 = n /\ 1 <= a /\ a <= b + 1 /\ b <= count
    <3>1. start + 1 \in Int /\ start + n \in Int /\ ((start + n) - (start + 1)) + 1 = n
          /\ 1 <= start + 1 /\ start + 1 <= (start + n) + 1 /\ start + n <= count
      BY <2>3
    <3>2. QED
      BY <3>1
  <2> HIDE DEF V, row
  <2>6. SubSeq(row, a, b) \in Seq(V) /\ Len(SubSeq(row, a, b)) = n
        /\ \A i \in 1..n : SubSeq(row, a, b)[i] = row[(a + i) - 1]
    BY <2>4, <2>5, Cut
  <2>7. run.items = SubSeq(row, a, b)
    BY <2>2, <2>5 DEF row
  <2>8. \A i \in 1..n : run.items[i] = values[(run.start + i) - 1]
    <3> SUFFICES ASSUME NEW i \in 1..n PROVE run.items[i] = values[(run.start + i) - 1]
      OBVIOUS
    <3>1. PICK j \in 1..count : j = (a + i) - 1 /\ j - 1 = (start + i) - 1
      <4>1. (a + i) - 1 = start + i /\ start + i \in 1..count
        BY <2>3, <2>5
      <4>2. QED
        BY <4>1
    <3>2. QED
      BY <2>2, <2>4, <2>6, <2>7, <3>1
  <2>9. QED
    BY <2>2, <2>6, <2>7, <2>8
<1>3. QED
  BY <1>1, <1>2 DEF Items!Runs

\* What a block holds that has grown.
LEMMA Grown ==
  ASSUME ItemsInv, NEW n \in Nat
  PROVE  /\ Items!Reserved(n) \in Nat /\ n <= Items!Reserved(n) /\ capacity <= Items!Reserved(n)
         /\ DOMAIN Items!Resized(Items!Reserved(n)) = 0..Items!Reserved(n) - 1
         /\ \A i \in 0..count - 1 : Items!Resized(Items!Reserved(n))[i] = values[i]
<1>1. capacity \in Nat /\ count \in 0..capacity /\ 2 * capacity \in Nat /\ 2 * capacity >= capacity
  BY DEF ItemsInv
<1>2. Items!Reserved(n) \in Nat /\ n <= Items!Reserved(n) /\ capacity <= Items!Reserved(n)
  BY <1>1 DEF Items!Reserved, Items!Larger
<1>3. QED
  BY <1>1, <1>2 DEF Items!Resized

\* What a run is when it is read, and what is copied.
LEMMA SeenIs ==
  ASSUME NEW run, Len(run.items) \in Nat, NEW cells
  PROVE  /\ \E V : Items!Seen(run, cells) \in Seq(V)
         /\ Len(Items!Seen(run, cells)) = Len(run.items)
         /\ \A i \in 1..Len(run.items) : Items!Seen(run, cells)[i] = (IF run.own THEN cells[run.start + i - 1] ELSE run.items[i])
<1> DEFINE f == Items!Seen(run, cells)
           V == {f[i] : i \in 1..Len(run.items)}
<1>1. f = [i \in 1..Len(run.items) |-> IF run.own THEN cells[run.start + i - 1] ELSE run.items[i]]
  BY Zenon DEF Items!Seen
<1>2. \A i \in 1..Len(run.items) : f[i] \in V
  OBVIOUS
<1>3. f = [i \in 1..Len(run.items) |-> f[i]]
  BY <1>1
<1> HIDE DEF V
<1>4. \A i \in 1..Len(run.items) : f[i] = (IF run.own THEN cells[run.start + i - 1] ELSE run.items[i])
  BY <1>1
<1> HIDE DEF f
<1>5. f \in Seq(V) /\ Len(f) = Len(run.items)
  BY <1>2, <1>3, Rows
<1>6. QED
  BY <1>4, <1>5 DEF f

\* Items come in at idx: into cells that have room for them there.
ComesIn(n, idx, run, r, cells, items) ==
  /\ n \in Nat /\ idx \in 0..count /\ run \in Items!Runs(n)
  /\ edit'.idx = idx /\ edit'.gone = 0 /\ edit'.run.items = run.items
  /\ r \in Nat /\ count + n <= r /\ DOMAIN cells = 0..r - 1
  /\ \A i \in 0..idx - 1 : cells[i] = values[i]
  /\ \A i \in idx + n..(count + n) - 1 : cells[i] = values[i - n]
  /\ Len(items) = n
  /\ Items!Stale(edit') \/ \A i \in 1..n : items[i] = run.items[i]
  /\ values' = Items!Copied(cells, idx, items) /\ count' = count + n /\ capacity' = r

LEMMA ItemsComeIn ==
  ASSUME ItemsInv, NEW n, NEW idx, NEW run, NEW r, NEW cells, NEW items, ComesIn(n, idx, run, r, cells, items)
  PROVE  ItemsInv' /\ EditedItems
<1>a. n \in Nat /\ idx \in 0..count /\ run \in Items!Runs(n) /\ r \in Nat /\ count + n <= r /\ DOMAIN cells = 0..r - 1
      /\ Len(items) = n
  BY Zenon DEF ComesIn
<1>b. edit'.idx = idx /\ edit'.gone = 0 /\ edit'.run.items = run.items
  BY Zenon DEF ComesIn
<1>c. (\A i \in 0..idx - 1 : cells[i] = values[i]) /\ \A i \in idx + n..(count + n) - 1 : cells[i] = values[i - n]
  BY Zenon DEF ComesIn
<1>d. Items!Stale(edit') \/ \A i \in 1..n : items[i] = run.items[i]
  BY Zenon DEF ComesIn
<1>e. values' = Items!Copied(cells, idx, items) /\ count' = count + n /\ capacity' = r
  BY Zenon DEF ComesIn
<1> USE <1>a
<1>1. PICK V : run.items \in Seq(V) /\ Len(run.items) = n
  BY RunsAre
<1>2. PICK c : c = Items!Copied(cells, idx, items)
  OBVIOUS
<1>3. c = [i \in 0..r - 1 |-> IF i \in idx..(idx + n) - 1 THEN items[(i - idx) + 1] ELSE cells[i]]
  BY <1>2 DEF Items!Copied
<1>4. count \in Nat /\ idx \in Nat /\ idx <= count
  BY DEF ItemsInv
<1>5. PICK m \in Nat : m = count + n
  BY <1>4
<1>6. DOMAIN c = 0..r - 1
  BY <1>3
<1>7. \A i \in 0..idx - 1 : c[i] = values[i]
  BY <1>3, <1>4, <1>c
<1>8. \A i \in idx + n..m - 1 : c[i] = values[(i - n) + 0]
  BY <1>3, <1>4, <1>5, <1>c
<1>9. \A i \in 1..n : c[(idx + i) - 1] = items[i]
  <2> SUFFICES ASSUME NEW i \in 1..n PROVE c[(idx + i) - 1] = items[i]
    OBVIOUS
  <2>1. (idx + i) - 1 \in 0..r - 1 /\ (idx + i) - 1 \in idx..(idx + n) - 1 /\ (((idx + i) - 1) - idx) + 1 = i
    BY <1>4
  <2>2. QED
    BY <1>3, <2>1
<1>10. Items!Stale(edit') \/ \A i \in 1..n : c[(idx + i) - 1] = run.items[i]
  BY <1>9, <1>d, Zenon
<1>11. 0 \in 0..count - idx /\ m = (count + n) - 0 /\ m <= r
  BY <1>4, <1>5
<1> DEFINE its == run.items
<1>12. its \in Seq(V) /\ Len(its) = n /\ edit'.run.items = its
  BY <1>1, <1>b
<1>13. Items!Stale(edit') \/ \A i \in 1..Len(its) : c[(idx + i) - 1] = its[i]
  BY <1>10, <1>12, Zenon
<1> HIDE DEF its
<1>14. Edits(idx, 0, its, c, m)
  BY <1>5, <1>7, <1>8, <1>11, <1>12 DEF Edits
<1>15. values' = c /\ count' = m /\ capacity' = r
  BY <1>2, <1>5, <1>e
<1>16. Performs(idx, 0, its, c, m, r)
  BY <1>6, <1>11, <1>12, <1>13, <1>14, <1>15, <1>b, Zenon DEF Performs
<1>17. QED
  BY <1>16, ItemsEdited, Zenon

\* A call that moves nothing in front of or behind the items that go.
LEMMA PlainEdits ==
  ASSUME ItemsInv, NEW idx \in 0..count, NEW gone \in 0..count - idx, edit'.idx = idx, edit'.gone = gone,
         edit'.run = Items!Client(<<>>), count' = count - gone, capacity' \in Nat, count' <= capacity',
         DOMAIN values' = 0..capacity' - 1,
         \A i \in 0..idx - 1 : values'[i] = values[i],
         \A i \in idx..count' - 1 : values'[i] = values[i + gone]
  PROVE  ItemsInv' /\ EditedItems
<1>0. PICK c : c = values'
  OBVIOUS
<1>1. PICK r \in Nat : r = capacity' /\ c = values'
  BY <1>0
<1>2. count \in Nat
  BY DEF ItemsInv
<1>3. PICK m \in Nat : m = count' /\ m = (count + 0) - gone
  BY <1>2
<1>4. PICK items \in Seq(Int) : items = <<>> /\ Len(items) = 0
  <2>1. <<>> \in Seq(Int) /\ Len(<<>>) = 0
    OBVIOUS
  <2>2. QED
    BY <2>1, Zenon
<1>5. edit'.run.items = items
  BY <1>4 DEF Items!Client
<1>6. \A i \in idx + Len(items)..m - 1 : c[i] = values[(i - Len(items)) + gone]
  <2>1. \A i \in idx..m - 1 : c[i] = values[i + gone]
    BY <1>1, <1>3
  <2>2. idx + Len(items) = idx
    BY <1>4
  <2>3. ASSUME NEW i \in idx + Len(items)..m - 1 PROVE c[i] = values[(i - Len(items)) + gone]
    <3>1. i \in idx..m - 1 /\ (i - Len(items)) + gone = i + gone
      BY <1>4, <2>2
    <3>2. QED
      BY <2>1, <3>1
  <2>4. QED
    BY <2>3
<1>7. Edits(idx, gone, items, c, m)
  BY <1>1, <1>3, <1>4, <1>6 DEF Edits
<1>8. \A i \in 1..Len(items) : c[(idx + i) - 1] = items[i]
  BY <1>4
<1>9. m <= r /\ DOMAIN c = 0..r - 1
  BY <1>1, <1>3
<1>10. Performs(idx, gone, items, c, m, r)
  BY <1>1, <1>3, <1>5, <1>7, <1>8, <1>9, Zenon DEF Performs
<1>11. QED
  BY <1>10, ItemsEdited, Zenon

LEMMA PlainCalls ==
  ASSUME ItemsInv, NEW n \in Nat,
         Items!Reserve(n) \/ Items!Shrink \/ Items!Clear \/ Items!Dispose
  PROVE  ItemsInv' /\ EditedItems
<1>1. capacity \in Nat /\ count \in 0..capacity /\ DOMAIN values = 0..capacity - 1
  BY DEF ItemsInv
<1>2. CASE Items!Reserve(n)
  <2>1. edit'.idx = 0 /\ edit'.gone = 0 /\ edit'.run = Items!Client(<<>>)
    BY <1>2 DEF Items!Reserve, Items!Called
  <2>2. /\ Items!Reserved(n) \in Nat /\ capacity <= Items!Reserved(n)
        /\ DOMAIN Items!Resized(Items!Reserved(n)) = 0..Items!Reserved(n) - 1
        /\ \A i \in 0..count - 1 : Items!Resized(Items!Reserved(n))[i] = values[i]
    BY Grown
  <2>3. values' = Items!Resized(Items!Reserved(n)) /\ capacity' = Items!Reserved(n) /\ count' = count
    BY <1>2 DEF Items!Reserve
  <2>4. 0 \in 0..count /\ 0 \in 0..count - 0 /\ count' = count - 0 /\ count' <= capacity' /\ capacity' \in Nat
        /\ DOMAIN values' = 0..capacity' - 1
    BY <1>1, <2>2, <2>3
  <2>5. (\A i \in 0..0 - 1 : values'[i] = values[i]) /\ \A i \in 0..count' - 1 : values'[i] = values[i + 0]
    BY <1>1, <2>2, <2>3
  <2>6. QED
    BY <2>1, <2>4, <2>5, PlainEdits
<1>3. CASE Items!Shrink
  <2>1. edit'.idx = 0 /\ edit'.gone = 0 /\ edit'.run = Items!Client(<<>>)
    BY <1>3 DEF Items!Shrink, Items!Called
  <2>2. values' = Items!Resized(count) /\ capacity' = count /\ count' = count
    BY <1>3 DEF Items!Shrink
  <2>3. DOMAIN values' = 0..count - 1 /\ \A i \in 0..count - 1 : values'[i] = values[i]
    BY <1>1, <2>2 DEF Items!Resized
  <2>4. 0 \in 0..count /\ 0 \in 0..count - 0 /\ count' = count - 0 /\ count' <= capacity' /\ capacity' \in Nat
        /\ DOMAIN values' = 0..capacity' - 1
    BY <1>1, <2>2, <2>3
  <2>5. (\A i \in 0..0 - 1 : values'[i] = values[i]) /\ \A i \in 0..count' - 1 : values'[i] = values[i + 0]
    BY <1>1, <2>2, <2>3
  <2>6. QED
    BY <2>1, <2>4, <2>5, PlainEdits
<1>4. CASE Items!Clear
  <2>1. edit'.idx = 0 /\ edit'.gone = count /\ edit'.run = Items!Client(<<>>)
    BY <1>4 DEF Items!Clear, Items!Called
  <2>2. UNCHANGED values /\ capacity' = capacity /\ count' = 0
    BY <1>4 DEF Items!Clear
  <2>3. 0 \in 0..count /\ count \in 0..count - 0 /\ count' = count - count /\ count' <= capacity' /\ capacity' \in Nat
        /\ DOMAIN values' = 0..capacity' - 1
    BY <1>1, <2>2
  <2>4. (\A i \in 0..0 - 1 : values'[i] = values[i]) /\ \A i \in 0..count' - 1 : values'[i] = values[i + count]
    BY <1>1, <2>2
  <2>5. QED
    BY <2>1, <2>3, <2>4, PlainEdits, ZenonT(60)
<1>5. CASE Items!Dispose
  <2>1. edit'.idx = 0 /\ edit'.gone = count /\ edit'.run = Items!Client(<<>>)
    BY <1>5 DEF Items!Dispose, Items!Called
  <2>2. values' = <<>> /\ capacity' = 0 /\ count' = 0
    BY <1>5 DEF Items!Dispose
  <2>3. 0 \in 0..count /\ count \in 0..count - 0 /\ count' = count - count /\ count' <= capacity' /\ capacity' \in Nat
        /\ DOMAIN values' = 0..capacity' - 1
    BY <1>1, <2>2
  <2>4. (\A i \in 0..0 - 1 : values'[i] = values[i]) /\ \A i \in 0..count' - 1 : values'[i] = values[i + count]
    BY <1>1, <2>2
  <2>5. QED
    BY <2>1, <2>3, <2>4, PlainEdits, ZenonT(60)
<1>6. QED
  BY <1>2, <1>3, <1>4, <1>5

LEMMA RemoveEdits ==
  ASSUME ItemsInv, NEW idx \in 0..count - 1, Items!Remove(idx)
  PROVE  ItemsInv' /\ EditedItems
<1>1. capacity \in Nat /\ count \in 0..capacity /\ DOMAIN values = 0..capacity - 1
  BY DEF ItemsInv
<1>2. edit'.idx = idx /\ edit'.gone = 1 /\ edit'.run = Items!Client(<<>>)
  BY DEF Items!Remove, Items!Called
<1>3. values' = [i \in DOMAIN values |-> IF i \in idx..count - 2 THEN values[i + 1] ELSE values[i]]
      /\ capacity' = capacity /\ count' = count - 1
  BY DEF Items!Remove
<1>4. idx \in 0..count /\ 1 \in 0..count - idx /\ count' = count - 1 /\ count' <= capacity' /\ capacity' \in Nat
      /\ DOMAIN values' = 0..capacity' - 1
  BY <1>1, <1>3
<1>5. (\A i \in 0..idx - 1 : values'[i] = values[i]) /\ \A i \in idx..count' - 1 : values'[i] = values[i + 1]
  BY <1>1, <1>3
<1>6. QED
  BY <1>2, <1>4, <1>5, PlainEdits

\* The block in which items come in has room for them, and holds the others.
LEMMA AddEdits ==
  ASSUME ItemsInv, NEW n \in Nat, NEW run \in Items!Runs(n),
         Items!AddAll(run) \/ (n = 1 /\ Items!Add(run))
  PROVE  ItemsInv' /\ EditedItems
<1> DEFINE r == Items!Reserved(count + n)
           cells == Items!Resized(r)
           seen == Items!Seen(run, cells)
<1>1. capacity \in Nat /\ count \in 0..capacity /\ count \in Nat /\ count + n \in Nat
  BY DEF ItemsInv
<1>2. r \in Nat /\ count + n <= r /\ DOMAIN cells = 0..r - 1 /\ \A i \in 0..count - 1 : cells[i] = values[i]
  BY <1>1, Grown
<1>3. /\ Len(run.items) = n
      /\ run.own => /\ run.start \in 0..count - n
                    /\ \A i \in 1..n : run.items[i] = values[(run.start + i) - 1]
  BY RunsAre
<1>4. Len(seen) = n /\ \A i \in 1..n : seen[i] = (IF run.own THEN cells[run.start + i - 1] ELSE run.items[i])
  BY <1>3, SeenIs
<1>5. \E op : edit' = [op |-> op, idx |-> count, gone |-> 0, run |-> run]
  BY Zenon DEF Items!Add, Items!AddAll, Items!Called
<1>6. edit'.idx = count /\ edit'.gone = 0 /\ edit'.run.items = run.items
  BY <1>5
<1>7. values' = Items!Copied(cells, count, seen) /\ count' = count + n /\ capacity' = r
  BY <1>3 DEF Items!Add, Items!AddAll
<1> HIDE DEF r, cells, seen
<1>8. \A i \in 1..n : seen[i] = run.items[i]
  <2> SUFFICES ASSUME NEW i \in 1..n PROVE seen[i] = run.items[i]
    OBVIOUS
  <2>1. CASE run.own
    <3>1. PICK start \in 0..count - n : start = run.start
      BY <1>3, <2>1
    <3>2. start + i - 1 \in 0..count - 1 /\ (start + i) - 1 = start + i - 1
      BY <1>1, <3>1
    <3>3. seen[i] = cells[start + i - 1]
      BY <1>4, <2>1, <3>1
    <3>4. run.items[i] = values[start + i - 1]
      BY <1>3, <2>1, <3>1, <3>2
    <3>5. QED
      BY <1>2, <3>2, <3>3, <3>4
  <2>2. CASE ~run.own
    BY <1>4, <2>2
  <2>3. QED
    BY <2>1, <2>2
<1>9. \A i \in count + n..(count + n) - 1 : cells[i] = values[i - n]
  BY <1>1
<1>10. count \in 0..count
  BY <1>1
<1>11. ComesIn(n, count, run, r, cells, seen)
  BY <1>2, <1>4, <1>6, <1>7, <1>8, <1>9, <1>10, Zenon DEF ComesIn
<1>12. QED
  BY <1>11, ItemsComeIn, Zenon

\* The cells once the tail has moved.
HasRoom(old, r, n) ==
  /\ r \in Nat /\ DOMAIN old = 0..r - 1 /\ count + n <= r
  /\ \A i \in 0..count - 1 : old[i] = values[i]

LEMMA TailMoved ==
  ASSUME ItemsInv, NEW n \in Nat, NEW idx \in 0..count, NEW r, NEW old, HasRoom(old, r, n)
  PROVE  /\ DOMAIN Items!Moved(old, idx + n, idx) = 0..r - 1
         /\ \A i \in 0..idx - 1 : Items!Moved(old, idx + n, idx)[i] = values[i]
         /\ \A i \in idx + n..(count + n) - 1 : Items!Moved(old, idx + n, idx)[i] = values[i - n]
         /\ n > 0 /\ idx < count => Items!Moved(old, idx + n, idx)[idx] = values[idx]
<1>0. r \in Nat /\ DOMAIN old = 0..r - 1 /\ count + n <= r /\ \A i \in 0..count - 1 : old[i] = values[i]
  BY Zenon DEF HasRoom
<1> USE <1>0
<1>1. count \in Nat /\ idx \in Nat
  BY DEF ItemsInv
<1> DEFINE c == Items!Moved(old, idx + n, idx)
<1>2. c = [i \in 0..r - 1 |-> IF i \in idx + n..idx + n + (count - idx) - 1 THEN old[i - (idx + n) + idx] ELSE old[i]]
  BY Zenon DEF Items!Moved
<1> HIDE DEF c
<1>3. DOMAIN c = 0..r - 1
  BY <1>2
<1>4. \A i \in 0..idx - 1 : c[i] = values[i]
  BY <1>1, <1>2
<1>5. \A i \in idx + n..(count + n) - 1 : c[i] = values[i - n]
  <2> SUFFICES ASSUME NEW i \in idx + n..(count + n) - 1 PROVE c[i] = values[i - n]
    OBVIOUS
  <2>1. i \in 0..r - 1 /\ i \in idx + n..idx + n + (count - idx) - 1 /\ i - (idx + n) + idx = i - n
        /\ i - n \in 0..count - 1
    BY <1>1
  <2>2. QED
    BY <1>2, <2>1
<1>6. n > 0 /\ idx < count => c[idx] = values[idx]
  BY <1>1, <1>2
<1>7. QED
  BY <1>3, <1>4, <1>5, <1>6 DEF c

LEMMA InsertEdits ==
  ASSUME ItemsInv, NEW n \in Nat, NEW idx \in 0..count, NEW run \in Items!Runs(n),
         Items!InsertAll(idx, run) \/ (n = 1 /\ Items!Insert(idx, run))
  PROVE  ItemsInv' /\ EditedItems
<1> DEFINE r == Items!Reserved(count + n)
           old == Items!Resized(r)
           cells == Items!Moved(old, idx + n, idx)
           seen == Items!Seen(run, cells)
<1>1. capacity \in Nat /\ count \in 0..capacity /\ count \in Nat /\ count + n \in Nat /\ idx \in Nat /\ idx <= count
  BY DEF ItemsInv
<1>2. r \in Nat /\ count + n <= r /\ DOMAIN old = 0..r - 1 /\ \A i \in 0..count - 1 : old[i] = values[i]
  BY <1>1, Grown
<1>3. /\ DOMAIN cells = 0..r - 1 /\ (\A i \in 0..idx - 1 : cells[i] = values[i])
      /\ (\A i \in idx + n..(count + n) - 1 : cells[i] = values[i - n])
      /\ n > 0 /\ idx < count => cells[idx] = values[idx]
  <2> HIDE DEF old, r
  <2>1. HasRoom(old, r, n)
    BY <1>2, Zenon DEF HasRoom
  <2>2. QED
    BY <2>1, TailMoved
<1>4. /\ Len(run.items) = n
      /\ run.own => /\ run.start \in 0..count - n
                    /\ \A i \in 1..n : run.items[i] = values[(run.start + i) - 1]
  BY RunsAre
<1>5. Len(seen) = n /\ \A i \in 1..n : seen[i] = (IF run.own THEN cells[run.start + i - 1] ELSE run.items[i])
  BY <1>4, SeenIs
<1>6. \E op \in {"insert", "insertall"} :
        edit' = [op |-> op, idx |-> idx, gone |-> 0, run |-> run] /\ (op = "insert" => n = 1)
  BY DEF Items!Insert, Items!InsertAll, Items!Called
<1>7. PICK op \in {"insert", "insertall"} :
        edit' = [op |-> op, idx |-> idx, gone |-> 0, run |-> run] /\ (op = "insert" => n = 1)
  BY <1>6
<1>8. edit'.op = op /\ edit'.idx = idx /\ edit'.gone = 0 /\ edit'.run = run /\ edit'.run.items = run.items
  BY <1>7
<1>9. count' = count + n /\ capacity' = r
  BY <1>4 DEF Items!Insert, Items!InsertAll
<1>10. \E items : /\ values' = Items!Copied(cells, idx, items) /\ Len(items) = n
                  /\ items = seen \/ (op = "insertall" /\ Items!Overlaps(run, idx))
  <2>1. CASE n = 1 /\ Items!Insert(idx, run)
    <3>1. values' = Items!Copied(cells, idx, seen)
      BY <2>1 DEF Items!Insert
    <3>2. QED
      BY <1>5, <3>1
  <2>2. CASE Items!InsertAll(idx, run)
    <3>1. \E copied \in IF Items!Overlaps(run, idx) THEN [1..n -> Item] ELSE {seen} :
            values' = Items!Copied(cells, idx, copied)
      BY <1>4, <2>2 DEF Items!InsertAll
    <3>0. op = "insertall"
      BY <1>8, <2>2 DEF Items!InsertAll, Items!Called
    <3> HIDE DEF cells, seen
    <3>2. PICK copied \in IF Items!Overlaps(run, idx) THEN [1..n -> Item] ELSE {seen} :
            values' = Items!Copied(cells, idx, copied)
      BY <3>1
    <3>3. CASE Items!Overlaps(run, idx)
      <4>1. copied \in [1..n -> Item]
        BY <3>2, <3>3, Zenon
      <4>2. Len(copied) = n
        BY <4>1
      <4>3. QED
        BY <3>0, <3>2, <3>3, <4>2
    <3>4. CASE ~Items!Overlaps(run, idx)
      <4>1. copied = seen
        BY <3>2, <3>4, Zenon
      <4>2. QED
        BY <1>5, <3>2, <4>1
    <3>5. QED
      BY <3>3, <3>4
  <2>3. QED
    BY <2>1, <2>2
<1> HIDE DEF r, old, cells, seen
<1>11. PICK items : /\ values' = Items!Copied(cells, idx, items) /\ Len(items) = n
                    /\ items = seen \/ (op = "insertall" /\ Items!Overlaps(run, idx))
  BY <1>10
<1>12. Items!Stale(edit') \/ \A i \in 1..n : items[i] = run.items[i]
  <2>1. CASE ~run.own
    <3>1. items = seen
      BY <1>11, <2>1 DEF Items!Overlaps
    <3>2. QED
      BY <1>5, <2>1, <3>1
  <2>2. CASE run.own
    <3>1. PICK start \in 0..count - n : start = run.start
      BY <1>4, <2>2
    <3>2. SUFFICES ASSUME ~Items!Stale(edit'), NEW i \in 1..n PROVE items[i] = run.items[i]
      OBVIOUS
    <3>3. start + n <= idx \/ (op = "insert" /\ start <= idx /\ n = 1)
      BY <1>1, <1>4, <1>7, <1>8, <2>2, <3>1, <3>2 DEF Items!Stale
    <3>4. start + i - 1 \in 0..idx - 1 \/ (start + i - 1 = idx /\ n > 0 /\ idx < count)
      BY <1>1, <3>1, <3>3
    <3>5. cells[start + i - 1] = values[start + i - 1]
      BY <1>3, <3>4
    <3>6. run.items[i] = values[start + i - 1]
      BY <1>4, <2>2, <3>1
    <3>7. items = seen
      <4>1. CASE op = "insertall"
        <5>1. start + n <= idx
          BY <3>3, <4>1
        <5>2. ~Items!Overlaps(run, idx)
          BY <1>1, <1>4, <3>1, <5>1 DEF Items!Overlaps
        <5>3. QED
          BY <1>11, <5>2
      <4>2. QED
        BY <1>11, <4>1
    <3>8. QED
      BY <1>5, <2>2, <3>1, <3>5, <3>6, <3>7
  <2>3. QED
    BY <2>1, <2>2
<1>13. ComesIn(n, idx, run, r, cells, items)
  BY <1>2, <1>3, <1>8, <1>9, <1>11, <1>12, Zenon DEF ComesIn
<1>14. QED
  BY <1>13, ItemsComeIn, Zenon

\* The last item is added while it is counted.
LEMMA LastEdits ==
  ASSUME ItemsInv, Items!AddLast
  PROVE  ItemsInv' /\ EditedItems
<1> DEFINE r == Items!Reserved(count + 1)
           cells == Items!Resized(r)
           run == Items!Own(count - 1, 1)
<1>1. capacity \in Nat /\ count \in 0..capacity /\ count \in Nat /\ count + 1 \in Nat /\ count > 0
  BY DEF ItemsInv, Items!AddLast
<1>2. r \in Nat /\ count + 1 <= r /\ DOMAIN cells = 0..r - 1 /\ \A i \in 0..count - 1 : cells[i] = values[i]
  BY <1>1, Grown
<1>3. run \in Items!Runs(1)
  <2>1. count - 1 \in 0..count - 1
    BY <1>1
  <2>2. QED
    BY <2>1, Zenon DEF Items!Runs
<1>4. edit' = [op |-> "add_last", idx |-> count, gone |-> 0, run |-> run]
  BY Zenon DEF Items!AddLast, Items!Called
<1>5. PICK seen \in {count - 1, count} : values' = Items!Copied(cells, count, <<cells[seen]>>)
  BY Zenon DEF Items!AddLast
<1>6. count' = count + 1 /\ capacity' = r
  BY Zenon DEF Items!AddLast
<1> HIDE DEF r, cells, run
<1>7. edit'.idx = count /\ edit'.gone = 0 /\ edit'.run.items = run.items /\ Items!Stale(edit')
  BY <1>4 DEF Items!Stale
<1>8. PICK items : items = <<cells[seen]>> /\ Len(items) = 1
  <2>1. Len(<<cells[seen]>>) = 1
    OBVIOUS
  <2>2. QED
    BY <2>1, Zenon
<1>9. (\A i \in count + 1..(count + 1) - 1 : cells[i] = values[i - 1]) /\ count \in 0..count /\ 1 \in Nat
  BY <1>1
<1>10. values' = Items!Copied(cells, count, items)
  BY <1>5, <1>8, Zenon
<1>11. ComesIn(1, count, run, r, cells, items)
  BY <1>2, <1>3, <1>6, <1>7, <1>8, <1>9, <1>10, Zenon DEF ComesIn
<1>12. QED
  BY <1>11, ItemsComeIn, Zenon

LEMMA ItemsKeep ==
  ASSUME ItemsInv, [Items!Next]_Items!vars
  PROVE  ItemsInv' /\ [EditedItems]_Items!vars
<1>1. CASE UNCHANGED Items!vars
  BY <1>1 DEF Items!vars, ItemsInv
<1>2. CASE Items!Next
  <2> DEFINE Goal == ItemsInv' /\ EditedItems
  <2> HIDE DEF Goal
  <2>1. ASSUME NEW n \in 0..MaxSize, Items!Reserve(n) PROVE Goal
    <3>1. n \in Nat
      BY ItemsAssumption
    <3>2. QED
      BY <2>1, <3>1, PlainCalls, Zenon DEF Goal
  <2>2. ASSUME NEW n \in 0..MaxRun, NEW idx \in 0..count, NEW run \in Items!Runs(n),
               Items!InsertAll(idx, run) \/ (n = 1 /\ Items!Insert(idx, run)) \/ (n = 1 /\ idx = count /\ Items!Add(run))
               \/ (idx = count /\ Items!AddAll(run))
        PROVE  Goal
    <3>1. n \in Nat
      BY ItemsAssumption
    <3>2. CASE Items!InsertAll(idx, run) \/ (n = 1 /\ Items!Insert(idx, run))
      BY <3>1, <3>2, InsertEdits, Zenon DEF Goal
    <3>3. CASE Items!AddAll(run) \/ (n = 1 /\ Items!Add(run))
      BY <3>1, <3>3, AddEdits, Zenon DEF Goal
    <3>4. QED
      BY <2>2, <3>2, <3>3, Zenon
  <2>3. ASSUME Items!AddLast PROVE Goal
    BY <2>3, LastEdits, Zenon DEF Goal
  <2>4. ASSUME NEW idx \in 0..count - 1, Items!Remove(idx) PROVE Goal
    BY <2>4, RemoveEdits, Zenon DEF Goal
  <2>5. ASSUME Items!Shrink \/ Items!Clear \/ Items!Dispose PROVE Goal
    <3>1. 0 \in Nat
      OBVIOUS
    <3>2. QED
      BY <2>5, <3>1, PlainCalls, Zenon DEF Goal
  <2>6. Goal
    BY <1>2, <2>1, <2>2, <2>3, <2>4, <2>5, Zenon DEF Items!Next
  <2>7. QED
    BY <2>6, Zenon DEF Goal
<1>3. QED
  BY <1>1, <1>2

-----------------------------------------------------------------------------
\* Sha256: sequences cut into blocks.

LEMMA Whole ==
  ASSUME NEW n \in Nat
  PROVE  /\ n \div HashBlock \in Nat /\ n % HashBlock \in 0..HashBlock - 1
         /\ (n \div HashBlock) * HashBlock \in Nat
         /\ n = (n \div HashBlock) * HashBlock + (n % HashBlock)
<1>1. HashBlock \in Nat \ {0}
  BY HasherAssumption
<1>2. PICK q \in Int, r \in 0..HashBlock - 1 : q = n \div HashBlock /\ r = n % HashBlock /\ n = q * HashBlock + r
  BY <1>1, Divided
<1>3. q >= 0
  <2>1. ASSUME q <= -1 PROVE FALSE
    <3>1. q * HashBlock <= -1 * HashBlock
      BY <1>1, <2>1
    <3>2. QED
      BY <1>1, <1>2, <3>1
  <2>2. QED
    BY <2>1
<1>4. q * HashBlock \in Nat
  BY <1>1, <1>3
<1>5. QED
  BY <1>2, <1>3, <1>4

\* The places of the i-th of q blocks.
LEMMA Turns ==
  ASSUME NEW q \in Nat, NEW i \in 1..q
  PROVE  /\ (i - 1) * HashBlock \in Nat /\ i * HashBlock = (i - 1) * HashBlock + HashBlock
         /\ q * HashBlock \in Nat /\ i * HashBlock <= q * HashBlock
<1>1. HashBlock \in Nat \ {0}
  BY HasherAssumption
<1>2. /\ (i - 1) * HashBlock \in Nat /\ (q - i) * HashBlock \in Nat /\ i * HashBlock \in Nat
      /\ q * HashBlock \in Nat
  BY <1>1
<1>3. i * HashBlock = (i - 1) * HashBlock + HashBlock /\ q * HashBlock = (q - i) * HashBlock + i * HashBlock
  BY <1>1
<1>4. QED
  BY <1>2, <1>3

\* A whole number of blocks is divided without a rest.
LEMMA WholeBlocks ==
  ASSUME NEW q \in Nat, NEW n \in Nat
  PROVE  /\ q * HashBlock \in Nat
         /\ (q * HashBlock + n) \div HashBlock = q + (n \div HashBlock)
         /\ (q * HashBlock + n) % HashBlock = n % HashBlock
         /\ (q + (n \div HashBlock)) * HashBlock = q * HashBlock + (n \div HashBlock) * HashBlock
<1>1. HashBlock \in Nat \ {0}
  BY HasherAssumption
<1>2. PICK p \in Nat, r \in 0..HashBlock - 1 : p = n \div HashBlock /\ r = n % HashBlock /\ n = p * HashBlock + r
  BY Whole
<1>3. q * HashBlock \in Nat /\ p * HashBlock \in Nat
  BY <1>1
<1>4. (q + p) * HashBlock = q * HashBlock + p * HashBlock
  BY <1>1
<1>5. PICK x \in Int, y \in Int : x = q * HashBlock + n /\ y = q + p /\ x = y * HashBlock + r
  BY <1>2, <1>3, <1>4
<1>6. x \div HashBlock = y /\ x % HashBlock = r
  <2>1. x = y * HashBlock + r
    BY <1>5
  <2>2. QED
    BY <1>1, <2>1, OnlyDivision
<1>7. QED
  BY <1>2, <1>3, <1>4, <1>5, <1>6

\* The row t is a and then b, n and m long.
Two(V, a, n, b, m, t) ==
  /\ t \in Seq(V) /\ Len(t) = n + m /\ n = Len(a) /\ m = Len(b)
  /\ \A i \in 1..n : t[i] = a[i]
  /\ \A i \in 1..m : t[n + i] = b[i]

LEMMA InTwo ==
  ASSUME NEW V, NEW a \in Seq(V), NEW b \in Seq(V)
  PROVE  \E n, m \in Nat : n = Len(a) /\ m = Len(b) /\ Two(V, a, n, b, m, a \o b)
<1>1. /\ a \o b \in Seq(V) /\ Len(a \o b) = Len(a) + Len(b) /\ Len(a) \in Nat /\ Len(b) \in Nat
      /\ \A i \in 1..Len(a) : (a \o b)[i] = a[i]
      /\ \A i \in 1..Len(b) : (a \o b)[Len(a) + i] = b[i]
  OBVIOUS
<1>2. QED
  BY <1>1, Zenon DEF Two

\* The row c of members of V is the part of s behind the place e, n long.
Piece(V, c, s, e, n) == c \in Seq(V) /\ Len(c) = n /\ \A j \in 1..n : c[j] = s[e + j]

\* The n members behind the place e of s are those behind the place f of t.
Agree(s, e, t, f, n) == \A j \in 1..n : s[e + j] = t[f + j]

LEMMA SamePieces ==
  ASSUME NEW V, NEW c, NEW d, NEW s, NEW t, NEW e, NEW f, NEW n \in Nat,
         Piece(V, c, s, e, n), Piece(V, d, t, f, n), Agree(s, e, t, f, n)
  PROVE  c = d
<1>1. c \in Seq(V) /\ d \in Seq(V) /\ Len(c) = n /\ Len(d) = n
  BY Zenon DEF Piece
<1>2. \A j \in 1..n : c[j] = d[j]
  BY Zenon DEF Piece, Agree
<1>3. QED
  BY <1>1, <1>2, SameRows

LEMMA CutIsPiece ==
  ASSUME NEW V, NEW s \in Seq(V), NEW e \in Nat, NEW n \in Nat, e + n <= Len(s)
  PROVE  Piece(V, SubSeq(s, e + 1, e + n), s, e, n)
<1>1. PICK a \in Int, b \in Int : a = e + 1 /\ b = e + n /\ 1 <= a /\ a <= b + 1 /\ b <= Len(s) /\ (b - a) + 1 = n
  OBVIOUS
<1>2. SubSeq(s, a, b) \in Seq(V) /\ Len(SubSeq(s, a, b)) = (b - a) + 1
      /\ \A j \in 1..(b - a) + 1 : SubSeq(s, a, b)[j] = s[(a + j) - 1]
  BY <1>1, Cut
<1>3. \A j \in 1..n : (a + j) - 1 = e + j
  BY <1>1
<1>4. QED
  BY <1>1, <1>2, <1>3, Zenon DEF Piece

LEMMA ChunkIs ==
  ASSUME NEW V, NEW s \in Seq(V), NEW i \in 1..Len(s) \div HashBlock
  PROVE  Piece(V, Hasher!Chunk(s, i), s, (i - 1) * HashBlock, HashBlock)
<1>1. HashBlock \in Nat \ {0} /\ Len(s) \in Nat
  BY HasherAssumption
<1>2. PICK n \in Nat, q \in Nat, p \in Nat, r \in Nat :
        n = Len(s) /\ q = n \div HashBlock /\ p = q * HashBlock /\ r = n % HashBlock /\ n = p + r
  <2>1. \A r \in 0..HashBlock - 1 : r \in Nat
    OBVIOUS
  <2>2. QED
    BY <1>1, <2>1, Whole, Zenon
<1>3. PICK e \in Nat : e = (i - 1) * HashBlock /\ e + HashBlock = i * HashBlock /\ e + HashBlock <= p
  <2>1. i \in 1..q
    BY <1>2, Zenon
  <2>2. QED
    BY <1>2, <2>1, Turns
<1>4. Hasher!Chunk(s, i) = SubSeq(s, e + 1, e + HashBlock)
  BY <1>3, Zenon DEF Hasher!Chunk
<1>5. HashBlock \in Nat /\ e + HashBlock <= Len(s)
  BY <1>1, <1>2, <1>3
<1>6. Piece(V, SubSeq(s, e + 1, e + HashBlock), s, e, HashBlock)
  BY <1>5, CutIsPiece
<1>7. QED
  BY <1>3, <1>4, <1>6, Zenon

LEMMA ChunksAre ==
  ASSUME NEW V, NEW s \in Seq(V), NEW q \in Nat, q = Len(s) \div HashBlock
  PROVE  /\ Hasher!Chunks(s) \in Seq(Seq(V)) /\ Len(Hasher!Chunks(s)) = q
         /\ \A i \in 1..q : Hasher!Chunks(s)[i] = Hasher!Chunk(s, i)
<1> DEFINE c == Hasher!Chunks(s)
<1>2. c = [i \in 1..q |-> Hasher!Chunk(s, i)]
  BY DEF Hasher!Chunks
<1>3. \A i \in 1..q : c[i] = Hasher!Chunk(s, i) /\ c[i] \in Seq(V)
  BY <1>2, ChunkIs, SMTT(60) DEF Piece
<1>4. c = [i \in 1..q |-> c[i]]
  BY <1>2
<1> HIDE DEF c
<1>5. c \in Seq(Seq(V)) /\ Len(c) = q
  BY <1>3, <1>4, Rows
<1>6. QED
  BY <1>3, <1>5 DEF c

LEMMA RestIs ==
  ASSUME NEW V, NEW s \in Seq(V)
  PROVE  Piece(V, Hasher!Rest(s), s, (Len(s) \div HashBlock) * HashBlock, Len(s) % HashBlock)
<1>1. PICK n \in Nat, p \in Nat, r \in Nat :
        n = Len(s) /\ p = (n \div HashBlock) * HashBlock /\ r = n % HashBlock /\ n = p + r
  <2>1. \A r \in 0..HashBlock - 1 : r \in Nat
    OBVIOUS
  <2>2. Len(s) \in Nat
    OBVIOUS
  <2>3. QED
    BY <2>1, <2>2, Whole, Zenon
<1>2. Hasher!Rest(s) = SubSeq(s, p + 1, p + r)
  BY <1>1, Zenon DEF Hasher!Rest
<1>3. p + r <= Len(s)
  BY <1>1
<1>4. Piece(V, SubSeq(s, p + 1, p + r), s, p, r)
  BY <1>3, CutIsPiece
<1>5. QED
  BY <1>1, <1>2, <1>4, Zenon

\* The first of two sequences is a whole number of blocks long: each is cut on its own.
LEMMA Aligned ==
  ASSUME NEW V, NEW a \in Seq(V), NEW b \in Seq(V), NEW q \in Nat, Len(a) = q * HashBlock
  PROVE  /\ Hasher!Chunks(a \o b) = Hasher!Chunks(a) \o Hasher!Chunks(b)
         /\ Hasher!Rest(a \o b) = Hasher!Rest(b)
<1>b. HashBlock \in Nat \ {0} /\ HashBlock \in Nat
  BY HasherAssumption
<1>1. PICK n \in Nat, m \in Nat : n = Len(b) /\ m = Len(a) /\ Two(V, a, m, b, n, a \o b)
  BY InTwo
<1>s. PICK s \in Seq(V) : s = a \o b /\ Len(s) = m + n
  BY <1>1, Zenon DEF Two
<1>2. (\A i \in 1..m : s[i] = a[i]) /\ \A i \in 1..n : s[m + i] = b[i]
  BY <1>1, <1>s, Zenon DEF Two
<1>3. PICK p \in Nat, r \in Nat, w \in Nat :
        /\ p = n \div HashBlock /\ r = n % HashBlock /\ w = p * HashBlock /\ n = w + r
        /\ Len(s) \div HashBlock = q + p /\ Len(s) % HashBlock = r
        /\ (q + p) * HashBlock = m + w
        /\ Len(a) \div HashBlock = q
  <2>2. \A x \in 0..HashBlock - 1 : x \in Nat
    OBVIOUS
  <2>3. n % HashBlock \in Nat /\ n \div HashBlock \in Nat /\ (n \div HashBlock) * HashBlock \in Nat
        /\ n = (n \div HashBlock) * HashBlock + (n % HashBlock)
    BY <2>2, Whole, Zenon
  <2>4. /\ (q * HashBlock + n) \div HashBlock = q + (n \div HashBlock)
        /\ (q * HashBlock + n) % HashBlock = n % HashBlock
        /\ (q + (n \div HashBlock)) * HashBlock = q * HashBlock + (n \div HashBlock) * HashBlock
    BY WholeBlocks
  <2>5. (q * HashBlock) \div HashBlock = q
    BY <1>b, OnlyDivision
  <2>6. QED
    BY <1>1, <1>s, <2>3, <2>4, <2>5, Zenon
<1>4. n = w + r
  BY <1>3
<1>5. PICK c \in Seq(Seq(V)), d \in Seq(Seq(V)) : c = Hasher!Chunks(a) /\ d = Hasher!Chunks(b)
  BY <1>1, <1>3, ChunksAre, Zenon
<1>e. Len(c) = q /\ \A i \in 1..q : c[i] = Hasher!Chunk(a, i)
  BY <1>3, <1>5, ChunksAre, Zenon
<1>f. Len(d) = p /\ \A i \in 1..p : d[i] = Hasher!Chunk(b, i)
  BY <1>1, <1>3, <1>5, ChunksAre, Zenon
<1>g. Two(Seq(V), c, q, d, p, c \o d)
  BY <1>e, <1>f, InTwo, Zenon
<1>6. PICK t \in Seq(Seq(V)) : t = c \o d
  BY <1>g, Zenon DEF Two
<1>7. /\ Len(t) = q + p
      /\ \A i \in 1..q : t[i] = Hasher!Chunk(a, i)
      /\ \A i \in 1..p : t[q + i] = Hasher!Chunk(b, i)
  <2>1. Len(t) = q + p /\ (\A i \in 1..q : t[i] = c[i]) /\ \A i \in 1..p : t[q + i] = d[i]
    BY <1>6, <1>g, Zenon DEF Two
  <2>2. QED
    BY <1>e, <1>f, <2>1, Zenon
<1>8. PICK u \in Seq(Seq(V)) : /\ u = Hasher!Chunks(s) /\ Len(u) = q + p
                               /\ \A i \in 1..q + p : u[i] = Hasher!Chunk(s, i)
  <2>1. q + p \in Nat
    OBVIOUS
  <2>2. QED
    BY <1>3, <2>1, ChunksAre, Zenon
<1>9. ASSUME NEW i \in 1..q PROVE Hasher!Chunk(s, i) = Hasher!Chunk(a, i)
  <2>1. i \in 1..q + p
    OBVIOUS
  <2>2. PICK e \in Nat : e = (i - 1) * HashBlock /\ e + HashBlock <= m
    BY <1>b, <1>1, Turns
  <2>3. Piece(V, Hasher!Chunk(s, i), s, e, HashBlock) /\ Piece(V, Hasher!Chunk(a, i), a, e, HashBlock)
    BY <1>3, <2>1, <2>2, ChunkIs, Zenon
  <2>4. Agree(s, e, a, e, HashBlock)
    <3> SUFFICES ASSUME NEW j \in 1..HashBlock PROVE s[e + j] = a[e + j]
      BY Zenon DEF Agree
    <3>1. e + j \in 1..m
      <4>1. e + HashBlock <= m
        BY <2>2
      <4>2. QED
        BY <1>b, <4>1
    <3>2. QED
      BY <1>2, <3>1, Zenon
  <2>5. QED
    BY <1>b, <2>3, <2>4, SamePieces, Zenon
<1>10. ASSUME NEW i \in 1..p PROVE Hasher!Chunk(s, q + i) = Hasher!Chunk(b, i)
  <2>1. q + i \in 1..q + p /\ i - 1 \in Nat
    OBVIOUS
  <2>2. PICK e \in Nat : e = (i - 1) * HashBlock /\ e + HashBlock <= w
    <3>1. (i - 1) * HashBlock \in Nat /\ (i - 1) * HashBlock + HashBlock <= p * HashBlock
      BY <1>b, Turns
    <3>2. QED
      BY <1>3, <3>1, Zenon
  <2>3. ((q + i) - 1) * HashBlock = m + e
    <3>1. ((q + i) - 1) * HashBlock = q * HashBlock + (i - 1) * HashBlock
      BY <1>b
    <3>2. QED
      BY <1>1, <2>2, <3>1, Zenon
  <2>4. Piece(V, Hasher!Chunk(s, q + i), s, m + e, HashBlock) /\ Piece(V, Hasher!Chunk(b, i), b, e, HashBlock)
    BY <1>1, <1>3, <2>1, <2>2, <2>3, ChunkIs, Zenon
  <2>5. Agree(s, m + e, b, e, HashBlock)
    <3> SUFFICES ASSUME NEW j \in 1..HashBlock PROVE s[(m + e) + j] = b[e + j]
      BY Zenon DEF Agree
    <3>1. e + j \in 1..n /\ (m + e) + j = m + (e + j)
      <4>1. e + HashBlock <= w
        BY <2>2
      <4>2. QED
        BY <1>b, <1>4, <4>1
    <3>2. QED
      BY <1>2, <3>1, Zenon
  <2>6. QED
    BY <1>b, <2>4, <2>5, SamePieces, Zenon
<1>11. u = t
  <2>1. ASSUME NEW i \in 1..q + p PROVE u[i] = t[i]
    <3>1. CASE i <= q
      <4>1. i \in 1..q
        BY <3>1
      <4>2. QED
        BY <1>7, <1>8, <1>9, <4>1, Zenon
    <3>2. CASE i > q
      <4>1. PICK j \in 1..p : i = q + j
        <5>1. i - q \in 1..p /\ i = q + (i - q)
          BY <3>2
        <5>2. QED
          BY <5>1
      <4>2. u[i] = Hasher!Chunk(s, q + j)
        BY <1>8, <4>1, Zenon
      <4>3. t[i] = Hasher!Chunk(b, j)
        BY <1>7, <4>1, Zenon
      <4>4. QED
        BY <1>10, <4>2, <4>3, Zenon
    <3>3. QED
      BY <3>1, <3>2
  <2>2. Len(u) = q + p /\ Len(t) = q + p
    BY <1>7, <1>8
  <2>3. QED
    BY <2>1, <2>2, SameRows
<1>12. Hasher!Rest(s) = Hasher!Rest(b)
  <2>1. Piece(V, Hasher!Rest(s), s, m + w, r) /\ Piece(V, Hasher!Rest(b), b, w, r)
    BY <1>1, <1>s, <1>3, RestIs, Zenon
  <2>2. Agree(s, m + w, b, w, r)
    <3> SUFFICES ASSUME NEW j \in 1..r PROVE s[(m + w) + j] = b[w + j]
      BY Zenon DEF Agree
    <3>1. w + j \in 1..n /\ (m + w) + j = m + (w + j)
      BY <1>4
    <3>2. QED
      BY <1>2, <3>1, Zenon
  <2>3. QED
    BY <2>1, <2>2, SamePieces, Zenon
<1>13. QED
  BY <1>s, <1>5, <1>6, <1>8, <1>11, <1>12, Zenon

\* Rows may be joined in any grouping.
Regroups(a, b, c) == (a \o b) \o c = a \o (b \o c)

LEMMA Grouped ==
  ASSUME NEW V, NEW a \in Seq(V), NEW b \in Seq(V), NEW c \in Seq(V)
  PROVE  Regroups(a, b, c)
BY ConcatAssociative, SMTT(60) DEF Regroups

LEMMA RowsJoined ==
  ASSUME NEW V, NEW a \in Seq(V), NEW b \in Seq(V)
  PROVE  a \o b \in Seq(V) /\ Len(a \o b) = Len(a) + Len(b) /\ Len(a) \in Nat
OBVIOUS

LEMMA NoneJoined ==
  ASSUME NEW V, NEW a \in Seq(V)
  PROVE  a \o <<>> = a /\ <<>> \o a = a
BY ConcatEmptySeq

LEMMA IsNone ==
  ASSUME NEW V, NEW a \in Seq(V), Len(a) = 0
  PROVE  a = <<>>
OBVIOUS

\* A row that is shorter than a block has none.
LEMMA NoChunks ==
  ASSUME NEW V, NEW a \in Seq(V), Len(a) < HashBlock
  PROVE  Hasher!Chunks(a) = <<>> /\ Hasher!Rest(a) = a
<1>1. PICK n \in 0..HashBlock - 1 : n = Len(a)
  BY HasherAssumption
<1>2. n \div HashBlock = 0 /\ n % HashBlock = n /\ n \in Nat
  BY HasherAssumption, OnlyDivision
<1>3. Hasher!Chunks(a) \in Seq(Seq(V)) /\ Len(Hasher!Chunks(a)) = 0
  <2>1. 0 \in Nat
    OBVIOUS
  <2>2. QED
    BY <1>1, <1>2, <2>1, ChunksAre, Zenon
<1>4. Hasher!Chunks(a) = <<>>
  BY <1>3, IsNone, Zenon
<1>5. Piece(V, Hasher!Rest(a), a, 0 * HashBlock, n)
  BY <1>1, <1>2, RestIs, Zenon
<1>6. 0 * HashBlock = 0 /\ \A j \in 1..n : 0 + j = j
  BY HasherAssumption
<1>7. Piece(V, a, a, 0, n)
  BY <1>1, <1>6, Zenon DEF Piece
<1>8. Agree(a, 0, a, 0, n)
  BY Zenon DEF Agree
<1>9. Hasher!Rest(a) = a
  BY <1>2, <1>5, <1>6, <1>7, <1>8, SamePieces, Zenon
<1>10. QED
  BY <1>4, <1>9

LEMMA OneChunk ==
  ASSUME NEW V, NEW a \in Seq(V), Len(a) = HashBlock
  PROVE  Hasher!Chunks(a) = <<a>>
<1>1. HashBlock \in Nat \ {0} /\ HashBlock \in Nat
  BY HasherAssumption
<1>2. HashBlock \div HashBlock = 1 /\ 1 \in Nat
  BY <1>1, OnlyDivision
<1>3. PICK c \in Seq(Seq(V)) : c = Hasher!Chunks(a) /\ Len(c) = 1 /\ \A i \in 1..1 : c[i] = Hasher!Chunk(a, i)
  BY <1>2, ChunksAre, Zenon
<1>4. 1 \in 1..1 /\ (1 - 1) * HashBlock = 0 /\ \A j \in 1..HashBlock : 0 + j = j
  BY <1>1
<1>5. Piece(V, Hasher!Chunk(a, 1), a, 0, HashBlock)
  BY <1>2, <1>4, ChunkIs, Zenon
<1>6. Piece(V, a, a, 0, HashBlock)
  BY <1>4, Zenon DEF Piece
<1>7. Agree(a, 0, a, 0, HashBlock)
  BY Zenon DEF Agree
<1>8. Hasher!Chunk(a, 1) = a
  BY <1>1, <1>5, <1>6, <1>7, SamePieces, Zenon
<1>9. c[1] = a
  BY <1>3, <1>4, <1>8, Zenon
<1>10. QED
  BY <1>3, <1>9

\* A row is its blocks and its rest.
LEMMA BlocksAndRest ==
  ASSUME NEW V, NEW s \in Seq(V)
  PROVE  \E w \in Seq(V), q \in Nat :
           /\ s = w \o Hasher!Rest(s) /\ Len(w) = q * HashBlock /\ Hasher!Chunks(w) = Hasher!Chunks(s)
           /\ Len(Hasher!Chunks(s)) = q /\ Len(s) = Len(w) + Len(Hasher!Rest(s))
           /\ Hasher!Rest(s) \in Seq(V) /\ Len(Hasher!Rest(s)) < HashBlock
<1>1. PICK n \in Nat, q \in Nat, p \in Nat, r \in 0..HashBlock - 1 :
        n = Len(s) /\ q = n \div HashBlock /\ p = q * HashBlock /\ r = n % HashBlock /\ n = p + r
  <2>1. Len(s) \in Nat
    OBVIOUS
  <2>2. QED
    BY <2>1, Whole, Zenon
<1>b. HashBlock \in Nat /\ r \in Nat /\ r < HashBlock
  BY HasherAssumption
<1>2. PICK w : Piece(V, w, s, 0, p)
  <2>1. p <= n
    BY <1>1
  <2>2. 0 \in Nat /\ 0 + p = p
    OBVIOUS
  <2>3. 0 + p <= Len(s)
    BY <1>1, <2>1, <2>2, Zenon
  <2>4. QED
    BY <2>2, <2>3, CutIsPiece, Zenon
<1>3. w \in Seq(V) /\ Len(w) = p /\ \A i \in 1..p : w[i] = s[i]
  <2>1. \A i \in 1..p : 0 + i = i
    OBVIOUS
  <2>2. QED
    BY <1>2, <2>1, Zenon DEF Piece
<1>4. PICK t : t \in Seq(V) /\ t = Hasher!Rest(s) /\ Len(t) = r /\ \A j \in 1..r : t[j] = s[p + j]
  <2>1. Piece(V, Hasher!Rest(s), s, p, r)
    BY <1>1, RestIs, Zenon
  <2>2. QED
    BY <2>1, Zenon DEF Piece
<1>5. s = w \o t
  <2>1. PICK u \in Seq(V) : u = w \o t /\ Two(V, w, p, t, r, u)
    <3>1. Two(V, w, p, t, r, w \o t)
      BY <1>3, <1>4, InTwo, Zenon
    <3>2. QED
      BY <3>1, Zenon DEF Two
  <2>2. Len(u) = p + r /\ (\A i \in 1..p : u[i] = w[i]) /\ \A i \in 1..r : u[p + i] = t[i]
    BY <2>1, Zenon DEF Two
  <2>3. (\A i \in 1..p : u[i] = s[i]) /\ \A i \in 1..r : u[p + i] = s[p + i]
    BY <1>3, <1>4, <2>2, Zenon
  <2>4. Len(s) = p + r
    BY <1>1, Zenon
  <2>5. ASSUME NEW i \in 1..p + r PROVE u[i] = s[i]
    <3>1. CASE i <= p
      BY <2>3, <3>1
    <3>2. CASE i > p
      <4>1. PICK j \in 1..r : i = p + j
        <5>1. i - p \in 1..r /\ i = p + (i - p)
          BY <1>b, <3>2
        <5>2. QED
          BY <5>1
      <4>2. QED
        BY <2>3, <4>1, Zenon
    <3>3. QED
      BY <3>1, <3>2
  <2>6. QED
    BY <2>1, <2>2, <2>4, <2>5, SameRows
<1>6. Hasher!Chunks(s) = Hasher!Chunks(w) \o Hasher!Chunks(t)
  <2>1. Len(w) = q * HashBlock
    BY <1>1, <1>3, Zenon
  <2>2. Hasher!Chunks(w \o t) = Hasher!Chunks(w) \o Hasher!Chunks(t)
    BY <1>3, <1>4, <2>1, Aligned, Zenon
  <2>3. QED
    BY <1>5, <2>2, Zenon
<1>7. Hasher!Chunks(t) = <<>>
  BY <1>4, <1>b, NoChunks
<1>8. PICK c \in Seq(Seq(V)) : c = Hasher!Chunks(w)
  <2>1. p \div HashBlock \in Nat
    BY Whole
  <2>2. QED
    BY <1>3, <2>1, ChunksAre, Zenon
<1>9. Hasher!Chunks(s) = Hasher!Chunks(w)
  BY <1>6, <1>7, <1>8, NoneJoined, Zenon
<1>10. Len(Hasher!Chunks(s)) = q
  BY <1>1, ChunksAre, Zenon
<1>11. QED
  BY <1>1, <1>b, <1>3, <1>4, <1>5, <1>9, <1>10, Zenon

\* Sha256: the hasher h has taken the message m.
Bits(n) == 8 * HashBlock * n
Holds(h, c, b, u) == h = [blocks |-> c, buffer |-> b, bits |-> u]
Absorbed(h, m) ==
  Holds(h, Hasher!Chunks(m), Hasher!Rest(m), Bits(Len(Hasher!Chunks(m))))

LEMMA BitsAdd ==
  ASSUME NEW a \in Nat, NEW b \in Nat
  PROVE  Bits(a) \in Nat /\ Bits(a + b) = Bits(a) + Bits(b)
<1>1. HashBlock \in Nat
  BY HasherAssumption
<1>2. 8 * HashBlock * (a + b) = 8 * HashBlock * a + 8 * HashBlock * b
  BY <1>1
<1>3. QED
  BY <1>1, <1>2 DEF Bits

LEMMA FreshAbsorbed == Absorbed(Hasher!Fresh, <<>>)
<1>1. <<>> \in Seq({}) /\ Len(<<>>) = 0 /\ 0 < HashBlock
  BY HasherAssumption
<1>2. Hasher!Chunks(<<>>) = <<>> /\ Hasher!Rest(<<>>) = <<>>
  BY <1>1, NoChunks
<1>3. Bits(0) = 0
  BY HasherAssumption DEF Bits
<1>4. QED
  BY <1>1, <1>2, <1>3, Zenon DEF Absorbed, Hasher!Fresh, Holds

\* The blocks of a row and the bits of two.
LEMMA ChunksLong ==
  ASSUME NEW V, NEW s \in Seq(V)
  PROVE  \E c \in Seq(Seq(V)) : c = Hasher!Chunks(s) /\ Len(c) \in Nat
<1>1. Len(s) \div HashBlock \in Nat
  BY Whole
<1>2. QED
  BY <1>1, ChunksAre, Zenon

LEMMA MoreBits ==
  ASSUME NEW V, NEW c \in Seq(V), NEW d \in Seq(V)
  PROVE  Bits(Len(c \o d)) = Bits(Len(c)) + Bits(Len(d))
<1>1. Len(c \o d) = Len(c) + Len(d) /\ Len(c) \in Nat /\ Len(d) \in Nat
  OBVIOUS
<1>2. QED
  BY <1>1, BitsAdd, Zenon

Longer(h, d, k, r) == [h EXCEPT !.blocks = @ \o d, !.bits = @ + k, !.buffer = @ \o r]

LEMMA Extended ==
  ASSUME NEW c, NEW b, NEW u, NEW d, NEW r, NEW k, NEW h, Holds(h, c, b, u)
  PROVE  Holds(Longer(h, d, k, r), c \o d, b \o r, u + k)
<1>1. h.blocks = c /\ h.buffer = b /\ h.bits = u
  BY DEF Holds
<1>2. PICK x, y, z : x = c \o d /\ y = b \o r /\ z = u + k
  OBVIOUS
<1>3. [h EXCEPT !.blocks = x, !.bits = z, !.buffer = y] = [blocks |-> x, buffer |-> y, bits |-> z]
  <2>1. PICK f : f = [h EXCEPT !.blocks = x]
    OBVIOUS
  <2>2. PICK g : g = [f EXCEPT !.bits = z]
    OBVIOUS
  <2>3. f = [blocks |-> x, buffer |-> b, bits |-> u]
    BY <2>1 DEF Holds
  <2>4. g = [blocks |-> x, buffer |-> b, bits |-> z]
    BY <2>2, <2>3
  <2>5. [g EXCEPT !.buffer = y] = [blocks |-> x, buffer |-> y, bits |-> z]
    BY <2>4
  <2>6. QED
    BY <2>1, <2>2, <2>5, Zenon
<1>4. QED
  BY <1>1, <1>2, <1>3, Zenon DEF Longer, Holds

\* What is written directly, to a hasher without a buffer.
LEMMA DirectAbsorbs ==
  ASSUME NEW V, NEW m \in Seq(V), NEW in \in Seq(V), NEW q \in Nat, Len(m) = q * HashBlock,
         NEW h, Holds(h, Hasher!Chunks(m), <<>>, Bits(Len(Hasher!Chunks(m))))
  PROVE  Absorbed(Hasher!Direct(h, in), m \o in)
<1>1. PICK c \in Seq(Seq(V)), d \in Seq(Seq(V)), r \in Seq(V) :
        c = Hasher!Chunks(m) /\ d = Hasher!Chunks(in) /\ r = Hasher!Rest(in)
  <2>1. \E r \in Seq(V) : r = Hasher!Rest(in)
    BY RestIs, Zenon DEF Piece
  <2>2. QED
    BY <2>1, ChunksLong, Zenon
<1>2. Hasher!Chunks(m \o in) = c \o d /\ Hasher!Rest(m \o in) = r
  BY <1>1, Aligned, Zenon
<1>3. <<>> \o r = r
  BY NoneJoined
<1>4. Bits(Len(c \o d)) = Bits(Len(c)) + Bits(Len(d))
  BY MoreBits
<1>5. Holds(h, c, <<>>, Bits(Len(c)))
  BY <1>1, Zenon DEF Holds
<1>6. Hasher!Direct(h, in) = Longer(h, d, Bits(Len(d)), r)
  BY <1>1, Zenon DEF Hasher!Direct, Bits, Longer
<1>7. Holds(Longer(h, d, Bits(Len(d)), r), c \o d, <<>> \o r, Bits(Len(c)) + Bits(Len(d)))
  BY <1>5, Extended, Zenon
<1>8. QED
  BY <1>2, <1>3, <1>4, <1>6, <1>7, Zenon DEF Absorbed, Holds

\* The row s is x, k long, and then y.
Halves(V, s, k, x, y) ==
  x \in Seq(V) /\ y \in Seq(V) /\ x = SubSeq(s, 1, k) /\ y = Hasher!From(s, k) /\ Len(x) = k /\ s = x \o y

LEMMA Halved ==
  ASSUME NEW V, NEW s \in Seq(V), NEW k \in Nat, k <= Len(s)
  PROVE  \E x, y : Halves(V, s, k, x, y)
<1>1. PICK n \in Nat, r \in Nat : n = Len(s) /\ n = k + r
  <2>1. PICK n \in Nat : n = Len(s)
    OBVIOUS
  <2>2. n - k \in Nat /\ n = k + (n - k)
    BY <2>1
  <2>3. QED
    BY <2>1, <2>2
<1>2. PICK x : x = SubSeq(s, 1, k) /\ Piece(V, x, s, 0, k)
  <2>1. 0 \in Nat /\ 0 + k = k /\ 0 + 1 = 1
    OBVIOUS
  <2>2. 0 + k <= Len(s)
    BY <2>1, Zenon
  <2>3. QED
    BY <2>1, <2>2, CutIsPiece, Zenon
<1>3. PICK y : y = Hasher!From(s, k) /\ Piece(V, y, s, k, r)
  <2>1. k + r <= Len(s)
    BY <1>1
  <2>2. QED
    BY <1>1, <2>1, CutIsPiece, Zenon DEF Hasher!From
<1>4. x \in Seq(V) /\ y \in Seq(V) /\ Len(x) = k /\ Len(y) = r
  BY <1>2, <1>3, Zenon DEF Piece
<1>5. PICK u : u = x \o y /\ Two(V, x, k, y, r, u)
  <2>1. Two(V, x, k, y, r, x \o y)
    BY <1>4, InTwo, Zenon
  <2>2. QED
    BY <2>1
<1>6. u \in Seq(V) /\ Len(u) = n /\ (\A i \in 1..k : u[i] = x[i]) /\ \A i \in 1..r : u[k + i] = y[i]
  BY <1>1, <1>5, Zenon DEF Two
<1>7. ASSUME NEW i \in 1..n PROVE u[i] = s[i]
  <2>1. CASE i <= k
    <3>1. i \in 1..k /\ 0 + i = i
      BY <2>1
    <3>2. QED
      BY <1>2, <1>6, <3>1, Zenon DEF Piece
  <2>2. CASE i > k
    <3>1. PICK j \in 1..r : i = k + j
      <4>1. i - k \in 1..r /\ i = k + (i - k)
        BY <1>1, <2>2
      <4>2. QED
        BY <4>1
    <3>2. QED
      BY <1>3, <1>6, <3>1, Zenon DEF Piece
  <2>3. QED
    BY <2>1, <2>2
<1>8. u = s
  BY <1>1, <1>6, <1>7, SameRows
<1>9. QED
  BY <1>2, <1>3, <1>4, <1>5, <1>8, Zenon DEF Halves

LEMMA CompressedHolds ==
  ASSUME NEW h, NEW c, NEW b, NEW u, NEW f, NEW k, Holds(h, c, b, u)
  PROVE  Holds(Hasher!Compressed(h, f, k), Append(c, f), <<>>, u + k)
<1>1. h.blocks = c /\ h.bits = u
  BY DEF Holds
<1>2. PICK x, z, e : x = Append(c, f) /\ z = u + k /\ e = <<>>
  OBVIOUS
<1>3. [h EXCEPT !.blocks = x, !.bits = z, !.buffer = e] = [blocks |-> x, buffer |-> e, bits |-> z]
  <2>1. PICK p : p = [h EXCEPT !.blocks = x]
    OBVIOUS
  <2>2. PICK g : g = [p EXCEPT !.bits = z]
    OBVIOUS
  <2>3. p = [blocks |-> x, buffer |-> b, bits |-> u]
    BY <2>1 DEF Holds
  <2>4. g = [blocks |-> x, buffer |-> b, bits |-> z]
    BY <2>2, <2>3
  <2>5. [g EXCEPT !.buffer = e] = [blocks |-> x, buffer |-> e, bits |-> z]
    BY <2>4
  <2>6. QED
    BY <2>1, <2>2, <2>5, Zenon
<1>4. QED
  BY <1>1, <1>2, <1>3, Zenon DEF Hasher!Compressed, Holds

LEMMA BufferHolds ==
  ASSUME NEW h, NEW c, NEW b, NEW u, NEW e, Holds(h, c, b, u)
  PROVE  Holds([h EXCEPT !.buffer = e], c, e, u)
BY DEF Holds

\* The next full block f behind q blocks w.
Added(V, w, f, q) ==
  /\ Hasher!Chunks(w \o f) = Append(Hasher!Chunks(w), f)
  /\ w \o f \in Seq(V) /\ Len(w \o f) = (q + 1) * HashBlock
  /\ Bits(Len(Append(Hasher!Chunks(w), f))) = Bits(Len(Hasher!Chunks(w))) + 8 * HashBlock

LEMMA BlockAdded ==
  ASSUME NEW V, NEW w \in Seq(V), NEW f \in Seq(V), NEW q \in Nat, Len(w) = q * HashBlock, Len(f) = HashBlock
  PROVE  Added(V, w, f, q)
<1>1. PICK c \in Seq(Seq(V)) : c = Hasher!Chunks(w)
  BY ChunksLong
<1>2. Hasher!Chunks(w \o f) = c \o <<f>>
  <2>1. Hasher!Chunks(f) = <<f>>
    BY OneChunk
  <2>2. QED
    BY <1>1, <2>1, Aligned, Zenon
<1>3. c \o <<f>> = Append(c, f) /\ Len(Append(c, f)) = Len(c) + 1 /\ Len(c) \in Nat
  OBVIOUS
<1>4. Bits(Len(c) + 1) = Bits(Len(c)) + 8 * HashBlock
  <2>1. Bits(1) = 8 * HashBlock
    BY HasherAssumption DEF Bits
  <2>2. 1 \in Nat
    OBVIOUS
  <2>3. QED
    BY <1>3, <2>1, <2>2, BitsAdd, Zenon
<1>5. w \o f \in Seq(V) /\ Len(w \o f) = q * HashBlock + HashBlock
  BY RowsJoined
<1>6. (q + 1) * HashBlock = q * HashBlock + HashBlock
  BY HasherAssumption
<1>7. QED
  BY <1>1, <1>2, <1>3, <1>4, <1>5, <1>6, Zenon DEF Added

LEMMA UpdateAbsorbs ==
  ASSUME NEW V, NEW m \in Seq(V), NEW in \in Seq(V), NEW h, Absorbed(h, m)
  PROVE  Absorbed(Hasher!update(h, in), m \o in)
<1> DEFINE C == Hasher!Chunks(m)
           u == Bits(Len(C))
           r == Hasher!Rest(m)
           room == HashBlock - Len(r)
           cut == SubSeq(in, 1, IF Len(in) < room THEN Len(in) ELSE room)
           filled == r \o cut
<1>1. PICK w \in Seq(V), q \in Nat :
        /\ m = w \o r /\ Len(w) = q * HashBlock /\ Hasher!Chunks(w) = C
        /\ r \in Seq(V) /\ Len(r) < HashBlock
  BY BlocksAndRest, SMTT(60)
<1>2. Holds(h, C, r, u)
  BY Zenon DEF Absorbed
<1>3. h.buffer = r
  BY <1>2 DEF Holds
<1>4. Hasher!update(h, in) =
        IF r = <<>> THEN Hasher!Direct(h, in)
        ELSE IF Len(filled) < HashBlock THEN [h EXCEPT !.buffer = filled]
        ELSE Hasher!Direct(Hasher!Compressed(h, filled, 8 * HashBlock), Hasher!From(in, room))
  BY <1>3, Zenon DEF Hasher!update
<1> HIDE DEF C, u, r, cut
<1>5. CASE r = <<>>
  <2>1. m = w
    BY <1>1, <1>5, NoneJoined, Zenon
  <2>2. Holds(h, Hasher!Chunks(m), <<>>, Bits(Len(Hasher!Chunks(m))))
    BY <1>2, <1>5, Zenon DEF C, u
  <2>3. Len(m) = q * HashBlock
    BY <1>1, <2>1, Zenon
  <2>4. Absorbed(Hasher!Direct(h, in), m \o in)
    BY <2>2, <2>3, DirectAbsorbs, Zenon
  <2>5. QED
    BY <1>4, <1>5, <2>4, Zenon
<1>6. HashBlock \in Nat /\ Len(r) \in Nat /\ Len(in) \in Nat /\ room \in Nat /\ HashBlock = Len(r) + room
  <2>1. HashBlock \in Nat /\ Len(r) \in Nat /\ Len(in) \in Nat
    BY <1>1, HasherAssumption
  <2>2. QED
    BY <1>1, <2>1
<1>7. CASE r # <<>> /\ Len(in) < room
  <2>1. cut = in
    <3>1. PICK n \in Nat : n = Len(in)
      BY <1>6
    <3>2. cut = SubSeq(in, 1, Len(in))
      BY <1>7, Zenon DEF cut
    <3>3. SubSeq(in, 1, Len(in)) = in
      OBVIOUS
    <3>4. QED
      BY <3>2, <3>3, Zenon
  <2>2. PICK f \in Seq(V) : f = r \o in /\ Len(f) = Len(r) + Len(in)
    <3>1. r \o in \in Seq(V) /\ Len(r \o in) = Len(r) + Len(in)
      BY <1>1, RowsJoined
    <3>2. QED
      BY <3>1
  <2>3. Len(f) < HashBlock
    BY <1>6, <1>7, <2>2
  <2>4. Hasher!update(h, in) = [h EXCEPT !.buffer = f]
    BY <1>4, <1>7, <2>1, <2>2, <2>3, Zenon
  <2>5. Holds([h EXCEPT !.buffer = f], C, f, u)
    BY <1>2, BufferHolds, Zenon
  <2>6. m \o in = w \o f
    <3>1. Regroups(w, r, in)
      BY <1>1, Grouped, Zenon
    <3>2. QED
      BY <1>1, <2>2, <3>1, Zenon DEF Regroups
  <2>7. Hasher!Chunks(f) = <<>> /\ Hasher!Rest(f) = f
    BY <2>3, NoChunks
  <2>8. Hasher!Chunks(w \o f) = C /\ Hasher!Rest(w \o f) = f
    <3>1. PICK c \in Seq(Seq(V)) : c = C
      BY ChunksLong, Zenon DEF C
    <3>2. Hasher!Chunks(w \o f) = c \o <<>> /\ Hasher!Rest(w \o f) = f
      BY <1>1, <2>7, <3>1, Aligned, Zenon
    <3>3. QED
      BY <3>1, <3>2, NoneJoined, Zenon
  <2>9. QED
    BY <2>4, <2>5, <2>6, <2>8, Zenon DEF Absorbed, u
<1>8. CASE r # <<>> /\ ~(Len(in) < room)
  <2>1. room <= Len(in)
    BY <1>6, <1>8
  <2>2. PICK x \in Seq(V), y \in Seq(V) :
          x = SubSeq(in, 1, room) /\ y = Hasher!From(in, room) /\ Len(x) = room /\ in = x \o y
    <3>1. PICK k \in Nat : k = room /\ k <= Len(in)
      BY <1>6, <2>1
    <3>2. PICK x, y : Halves(V, in, k, x, y)
      BY <3>1, Halved
    <3>3. QED
      BY <3>1, <3>2, Zenon DEF Halves
  <2>3. cut = x
    BY <1>8, <2>2, Zenon DEF cut
  <2>4. PICK f \in Seq(V) : f = r \o x /\ Len(f) = Len(r) + Len(x)
    <3>1. r \o x \in Seq(V) /\ Len(r \o x) = Len(r) + Len(x)
      BY <1>1, RowsJoined
    <3>2. QED
      BY <3>1
  <2>5. Len(f) = HashBlock
    BY <1>6, <2>2, <2>4, Zenon
  <2>6. ~(HashBlock < HashBlock)
    BY <1>6
  <2>7. Hasher!update(h, in) = Hasher!Direct(Hasher!Compressed(h, f, 8 * HashBlock), y)
    BY <1>4, <1>8, <2>2, <2>3, <2>4, <2>5, <2>6, Zenon
  <2>8. Holds(Hasher!Compressed(h, f, 8 * HashBlock), Append(C, f), <<>>, u + 8 * HashBlock)
    BY <1>2, CompressedHolds, Zenon
  <2>9. PICK v \in Seq(V) : /\ v = w \o f /\ Hasher!Chunks(v) = Append(C, f) /\ Len(v) = (q + 1) * HashBlock
                           /\ Bits(Len(Append(C, f))) = u + 8 * HashBlock
    <3>1. Added(V, w, f, q)
      <4>1. Len(w) = q * HashBlock
        BY <1>1
      <4>2. QED
        BY <4>1, <2>5, BlockAdded, Zenon
    <3>2. QED
      BY <1>1, <3>1, Zenon DEF u, Added
  <2>10. q + 1 \in Nat
    OBVIOUS
  <2>11. Holds(Hasher!Compressed(h, f, 8 * HashBlock), Hasher!Chunks(v), <<>>, Bits(Len(Hasher!Chunks(v))))
    BY <2>8, <2>9, Zenon
  <2>12. Absorbed(Hasher!Direct(Hasher!Compressed(h, f, 8 * HashBlock), y), v \o y)
    BY <2>2, <2>9, <2>10, <2>11, DirectAbsorbs, Zenon
  <2>13. v \o y = m \o in
    <3>1. v = m \o x
      <4>1. Regroups(w, r, x)
        <5>1. r \in Seq(V)
          BY <1>1
        <5>2. QED
          BY <5>1, Grouped, Zenon
      <4>2. QED
        BY <1>1, <2>4, <2>9, <4>1, Zenon DEF Regroups
    <3>2. m \o in = (m \o x) \o y
      <4>1. Regroups(m, x, y)
        BY Grouped, Zenon
      <4>2. QED
        BY <2>2, <4>1, Zenon DEF Regroups
    <3>3. QED
      BY <3>1, <3>2, Zenon
  <2>14. QED
    BY <2>7, <2>12, <2>13, Zenon
<1>9. QED
  BY <1>5, <1>7, <1>8, Zenon

LEMMA Wider ==
  ASSUME NEW V, NEW W, V \subseteq W, NEW s \in Seq(V)
  PROVE  s \in Seq(W)
<1>1. Len(s) \in Nat /\ s = [i \in 1..Len(s) |-> s[i]] /\ \A i \in 1..Len(s) : s[i] \in W
  OBVIOUS
<1>2. QED
  BY <1>1, Rows, Zenon

LEMMA ZerosAre ==
  ASSUME NEW n \in Nat
  PROVE  Hasher!Zeros(n) \in Seq({Hasher!Zero}) /\ Len(Hasher!Zeros(n)) = n
BY DEF Hasher!Zeros

LEMMA ZerosSplit ==
  ASSUME NEW a \in Nat, NEW b \in Nat, NEW n \in Nat, n = a + b
  PROVE  Hasher!Zeros(n) = Hasher!Zeros(a) \o Hasher!Zeros(b)
<1> DEFINE V == {Hasher!Zero}
<1>1. PICK x \in Seq(V), y \in Seq(V) : x = Hasher!Zeros(a) /\ y = Hasher!Zeros(b) /\ Len(x) = a /\ Len(y) = b
  BY ZerosAre, Zenon
<1>2. PICK s \in Seq(V) : s = Hasher!Zeros(n) /\ Len(s) = n
  BY ZerosAre, Zenon
<1>3. \A t \in Seq(V) : \A i \in 1..Len(t) : t[i] = Hasher!Zero
  OBVIOUS
<1> HIDE DEF V
<1>4. PICK u \in Seq(V) : u = x \o y /\ Len(u) = n
  <2>1. x \o y \in Seq(V) /\ Len(x \o y) = Len(x) + Len(y)
    BY RowsJoined
  <2>2. QED
    BY <1>1, <2>1
<1>5. \A i \in 1..n : u[i] = s[i]
  BY <1>2, <1>3, <1>4
<1>6. u = s
  BY <1>2, <1>4, <1>5, SameRows
<1>7. QED
  BY <1>1, <1>2, <1>4, <1>6, Zenon

LEMMA LengthFieldIs ==
  ASSUME NEW bits
  PROVE  \E V : Hasher!LengthField(bits) \in Seq(V) /\ Len(Hasher!LengthField(bits)) = HashBlock - LengthAt
<1>1. PICK n \in Nat : n = HashBlock - LengthAt
  BY HasherAssumption
<1> DEFINE f == Hasher!LengthField(bits)
           V == {f[i] : i \in 1..n}
<1>2. f = [i \in 1..n |-> f[i]]
  BY <1>1 DEF Hasher!LengthField
<1>3. \A i \in 1..n : f[i] \in V
  OBVIOUS
<1> HIDE DEF f, V
<1>4. f \in Seq(V) /\ Len(f) = n
  BY <1>2, <1>3, Rows
<1>5. QED
  BY <1>1, <1>4 DEF f

LEMMA DigestIs ==
  ASSUME NEW blocks
  PROVE  \E V : Hasher!DigestOf(blocks) \in Seq(V) /\ Len(Hasher!DigestOf(blocks)) = DigestSize
<1>1. PICK n \in Nat : n = DigestSize
  BY HasherAssumption
<1> DEFINE f == Hasher!DigestOf(blocks)
           V == {f[i] : i \in 1..n}
<1>2. f = [i \in 1..n |-> f[i]]
  BY <1>1 DEF Hasher!DigestOf
<1>3. \A i \in 1..n : f[i] \in V
  OBVIOUS
<1> HIDE DEF f, V
<1>4. f \in Seq(V) /\ Len(f) = n
  BY <1>2, <1>3, Rows
<1>5. QED
  BY <1>1, <1>4 DEF f

\* The zeros that the padding needs are as many as put the length where it belongs.
Gap(n) == CHOOSE z \in 0..HashBlock - 1 : (n + 1 + z) % HashBlock = LengthAt

LEMMA GapIs ==
  ASSUME NEW n \in Nat, NEW q \in Nat, NEW z \in 0..HashBlock - 1, n + 1 + z = q * HashBlock + LengthAt
  PROVE  Gap(n) = z
<1>1. HashBlock \in Nat \ {0} /\ LengthAt \in 0..HashBlock - 1
  BY HasherAssumption
<1>2. ASSUME NEW y \in 0..HashBlock - 1, NEW p \in Int, n + 1 + y = p * HashBlock + LengthAt
      PROVE  y = z
  <2>1. (p - q) * HashBlock = p * HashBlock - q * HashBlock /\ p * HashBlock \in Int /\ q * HashBlock \in Int
    BY <1>1
  <2>2. (p - q) * HashBlock = y - z
    BY <1>1, <1>2, <2>1
  <2>3. CASE p - q >= 1
    <3>1. (p - q) * HashBlock >= HashBlock
      BY <1>1, <2>3
    <3>2. QED
      BY <1>1, <2>2, <3>1
  <2>4. CASE p - q <= -1
    <3>1. (p - q) * HashBlock <= -1 * HashBlock
      BY <1>1, <2>4
    <3>2. QED
      BY <1>1, <2>2, <3>1
  <2>5. CASE p - q = 0
    <3>1. 0 * HashBlock = 0
      BY <1>1
    <3>2. QED
      BY <2>2, <2>5, <3>1
  <2>6. QED
    BY <2>3, <2>4, <2>5
<1>3. (n + 1 + z) % HashBlock = LengthAt
  <2>1. PICK x \in Int : x = n + 1 + z
    BY <1>1
  <2>2. x = q * HashBlock + LengthAt /\ q \in Int
    BY <2>1
  <2>3. x % HashBlock = LengthAt
    BY <1>1, <2>2, OnlyDivision
  <2>4. QED
    BY <2>1, <2>3, Zenon
<1>4. ASSUME NEW y \in 0..HashBlock - 1, (n + 1 + y) % HashBlock = LengthAt
      PROVE  y = z
  <2>1. PICK x \in Int : x = n + 1 + y
    BY <1>1
  <2>2. PICK p \in Int : x = p * HashBlock + (x % HashBlock)
    BY <1>1, Divided
  <2>3. n + 1 + y = p * HashBlock + LengthAt
    BY <1>4, <2>1, <2>2, Zenon
  <2>4. QED
    BY <1>2, <2>3
<1>5. QED
  BY <1>3, <1>4, Zenon DEF Gap

\* The bits that done writes.
LEMMA BitsOf ==
  ASSUME NEW V, NEW m \in Seq(V), NEW h, Absorbed(h, m)
  PROVE  h.bits + 8 * Len(h.buffer) = 8 * Len(m)
<1>1. PICK w \in Seq(V), q \in Nat :
        /\ Len(w) = q * HashBlock /\ Len(Hasher!Chunks(m)) = q
        /\ Len(m) = Len(w) + Len(Hasher!Rest(m)) /\ Hasher!Rest(m) \in Seq(V)
  <2>1. PICK w \in Seq(V), q \in Nat :
           /\ m = w \o Hasher!Rest(m) /\ Len(w) = q * HashBlock /\ Hasher!Chunks(w) = Hasher!Chunks(m)
           /\ Len(Hasher!Chunks(m)) = q /\ Len(m) = Len(w) + Len(Hasher!Rest(m))
           /\ Hasher!Rest(m) \in Seq(V) /\ Len(Hasher!Rest(m)) < HashBlock
    BY BlocksAndRest
  <2>2. QED
    BY <2>1, Zenon
<1>2. h.bits = Bits(q) /\ h.buffer = Hasher!Rest(m)
  BY <1>1 DEF Absorbed, Holds
<1>3. PICK n \in Nat, l \in Nat : n = Len(w) /\ l = Len(Hasher!Rest(m)) /\ Len(m) = n + l
  BY <1>1
<1>4. Bits(q) = 8 * n
  <2>1. HashBlock \in Nat /\ 8 * HashBlock * q = 8 * (q * HashBlock)
    BY HasherAssumption
  <2>2. QED
    BY <1>1, <1>3, <2>1 DEF Bits
<1>5. QED
  BY <1>2, <1>3, <1>4

\* The last calls of the compression, in the two cases: what the block has room for, and what it has not.

Ends(h, C, r, u, e, bits) == Holds(h, C, r, u) /\ e = Append(r, {<<"end">>}) /\ bits = u + 8 * Len(r)

LEMMA DoneFits ==
  ASSUME NEW h, NEW C, NEW r, NEW u, NEW e, NEW bits, Ends(h, C, r, u, e, bits), Len(e) <= LengthAt
  PROVE  Hasher!done(h).out =
           Hasher!DigestOf(Append(C, (e \o Hasher!Zeros(LengthAt - Len(e))) \o Hasher!LengthField(bits)))
<1>1. Holds(h, C, r, u) /\ e = Append(r, {<<"end">>}) /\ bits = u + 8 * Len(r) /\ h.buffer = r /\ h.bits = u
  BY DEF Holds, Ends
<1> DEFINE ended == [h EXCEPT !.buffer = Append(@, {<<"end">>}), !.bits = bits]
           filled == e \o Hasher!Zeros(LengthAt - Len(e))
           final == Hasher!Compressed(ended, filled \o Hasher!LengthField(bits), 0)
<1>2. Holds(ended, C, e, bits)
  <2>1. PICK x : x = Append(r, {<<"end">>})
    OBVIOUS
  <2>2. PICK g : g = [h EXCEPT !.buffer = x]
    OBVIOUS
  <2>3. g = [blocks |-> C, buffer |-> x, bits |-> u]
    BY <1>1, <2>2 DEF Holds
  <2>4. [g EXCEPT !.bits = bits] = [blocks |-> C, buffer |-> x, bits |-> bits]
    BY <2>3
  <2>5. QED
    BY <1>1, <2>1, <2>2, <2>4, Zenon DEF Holds
<1>3. ended.buffer = e
  BY <1>2 DEF Holds
<1>4. Hasher!done(h).out = Hasher!DigestOf(final.blocks)
  <2> HIDE DEF ended
  <2>1. Hasher!done(h) = [hasher |-> [final EXCEPT !.buffer = filled], out |-> Hasher!DigestOf(final.blocks)]
    BY <1>1, <1>3, Zenon DEF Hasher!done, ended
  <2>2. QED
    BY <2>1
<1> HIDE DEF ended
<1>5. Holds(final, Append(C, filled \o Hasher!LengthField(bits)), <<>>, bits + 0)
  BY <1>2, CompressedHolds, Zenon
<1> HIDE DEF final, filled
<1>6. final.blocks = Append(C, filled \o Hasher!LengthField(bits))
  BY <1>5 DEF Holds
<1>7. QED
  BY <1>4, <1>6, Zenon DEF filled

LEMMA DoneLong ==
  ASSUME NEW h, NEW C, NEW r, NEW u, NEW e, NEW bits, Ends(h, C, r, u, e, bits), ~(Len(e) <= LengthAt)
  PROVE  Hasher!done(h).out =
           Hasher!DigestOf(Append(Append(C, e \o Hasher!Zeros(HashBlock - Len(e))),
                                  Hasher!Zeros(LengthAt) \o Hasher!LengthField(bits)))
<1>1. Holds(h, C, r, u) /\ e = Append(r, {<<"end">>}) /\ bits = u + 8 * Len(r) /\ h.buffer = r /\ h.bits = u
  BY DEF Holds, Ends
<1> DEFINE ended == [h EXCEPT !.buffer = Append(@, {<<"end">>}), !.bits = bits]
           fits == Hasher!Compressed(ended, e \o Hasher!Zeros(HashBlock - Len(e)), 0)
           filled == fits.buffer \o Hasher!Zeros(LengthAt - Len(fits.buffer))
           final == Hasher!Compressed(fits, filled \o Hasher!LengthField(bits), 0)
<1>2. Holds(ended, C, e, bits)
  <2>1. PICK x : x = Append(r, {<<"end">>})
    OBVIOUS
  <2>2. PICK g : g = [h EXCEPT !.buffer = x]
    OBVIOUS
  <2>3. g = [blocks |-> C, buffer |-> x, bits |-> u]
    BY <1>1, <2>2 DEF Holds
  <2>4. [g EXCEPT !.bits = bits] = [blocks |-> C, buffer |-> x, bits |-> bits]
    BY <2>3
  <2>5. QED
    BY <1>1, <2>1, <2>2, <2>4, Zenon DEF Holds
<1>3. ended.buffer = e
  BY <1>2 DEF Holds
<1>4. Hasher!done(h).out = Hasher!DigestOf(final.blocks)
  <2> HIDE DEF ended
  <2>1. Hasher!done(h) = [hasher |-> [final EXCEPT !.buffer = filled], out |-> Hasher!DigestOf(final.blocks)]
    BY <1>1, <1>3, Zenon DEF Hasher!done, ended
  <2>2. QED
    BY <2>1
<1> HIDE DEF ended
<1>5. Holds(fits, Append(C, e \o Hasher!Zeros(HashBlock - Len(e))), <<>>, bits + 0)
  BY <1>2, CompressedHolds, Zenon
<1> HIDE DEF fits
<1>6. filled = Hasher!Zeros(LengthAt)
  <2>1. fits.buffer = <<>>
    BY <1>5 DEF Holds
  <2>2. LengthAt \in Nat /\ LengthAt - Len(<<>>) = LengthAt
    BY HasherAssumption
  <2>3. <<>> \o Hasher!Zeros(LengthAt) = Hasher!Zeros(LengthAt)
    BY <2>2, ZerosAre, NoneJoined
  <2>4. QED
    BY <2>1, <2>2, <2>3, Zenon
<1>7. Holds(final, Append(Append(C, e \o Hasher!Zeros(HashBlock - Len(e))), filled \o Hasher!LengthField(bits)), <<>>, (bits + 0) + 0)
  BY <1>5, CompressedHolds, Zenon
<1> HIDE DEF final, filled
<1>8. final.blocks = Append(Append(C, e \o Hasher!Zeros(HashBlock - Len(e))), filled \o Hasher!LengthField(bits))
  BY <1>7 DEF Holds
<1>9. QED
  BY <1>4, <1>6, <1>8, Zenon

\* The message in front of its padding, cut where its blocks end.
PadsBehind(w, r, e, z, f) == (((w \o r) \o e) \o z) \o f = w \o (((r \o e) \o z) \o f)

LEMMA PaddedBehind ==
  ASSUME NEW W, NEW w \in Seq(W), NEW r \in Seq(W), NEW e \in Seq(W), NEW z \in Seq(W), NEW f \in Seq(W)
  PROVE  PadsBehind(w, r, e, z, f)
<1>1. PICK x \in Seq(W), y \in Seq(W) : x = r \o e /\ y = x \o z
  <2>1. PICK x \in Seq(W) : x = r \o e
    BY RowsJoined
  <2>2. x \o z \in Seq(W)
    BY RowsJoined
  <2>3. QED
    BY <2>1, <2>2
<1>2. Regroups(w, r, e) /\ Regroups(w, x, z) /\ Regroups(w, y, f)
  BY Grouped, Zenon
<1>3. QED
  BY <1>1, <1>2, Zenon DEF Regroups, PadsBehind

Padded(m) == m \o <<{<<"end">>}>> \o Hasher!Zeros(Gap(Len(m))) \o Hasher!LengthField(8 * Len(m))

LEMMA AppendedRow ==
  ASSUME NEW V, NEW r \in Seq(V), NEW x \in V
  PROVE  /\ Append(r, x) = r \o <<x>> /\ Append(r, x) \in Seq(V) /\ Len(Append(r, x)) = Len(r) + 1
         /\ Len(r) \in Nat
OBVIOUS

LEMMA HashIs ==
  ASSUME NEW m
  PROVE  Hasher!Hash(m) = Hasher!DigestOf(Hasher!Chunks(Padded(m)))
BY Zenon DEF Hasher!Hash, Gap, Padded

LEMMA DoneHashes ==
  ASSUME NEW V, NEW m \in Seq(V), NEW h, Absorbed(h, m)
  PROVE  Hasher!done(h).out = Hasher!Hash(m)
<1> DEFINE C == Hasher!Chunks(m)
           r == Hasher!Rest(m)
           end == <<{<<"end">>}>>
           field == Hasher!LengthField(8 * Len(m))
<1>1. PICK U : field \in Seq(U) /\ Len(field) = HashBlock - LengthAt
  BY LengthFieldIs
<1> DEFINE W == V \cup {{<<"end">>}} \cup {Hasher!Zero} \cup U
<1>2. m \in Seq(W) /\ field \in Seq(W) /\ end \in Seq(W) /\ Len(end) = 1
  <2>1. V \subseteq W /\ U \subseteq W
    OBVIOUS
  <2>2. end \in Seq(W) /\ Len(end) = 1
    <3>1. {<<"end">>} \in W
      OBVIOUS
    <3> HIDE DEF W
    <3>2. PICK x \in W : x = {<<"end">>}
      BY <3>1
    <3>3. <<x>> \in Seq(W) /\ Len(<<x>>) = 1
      OBVIOUS
    <3>4. QED
      BY <3>2, <3>3
  <2> HIDE DEF W, field, end
  <2>3. QED
    BY <1>1, <2>1, <2>2, Wider, Zenon
<1>3. \A n \in Nat : Hasher!Zeros(n) \in Seq(W) /\ Len(Hasher!Zeros(n)) = n
  <2>1. {Hasher!Zero} \subseteq W
    OBVIOUS
  <2> HIDE DEF W
  <2>2. QED
    BY <2>1, ZerosAre, Wider, Zenon
<1> HIDE DEF W, field, end
<1>4. PICK w \in Seq(W), q \in Nat :
        /\ m = w \o r /\ Len(w) = q * HashBlock /\ Hasher!Chunks(w) = C
        /\ Len(C) = q /\ Len(m) = Len(w) + Len(r)
        /\ r \in Seq(W) /\ Len(r) < HashBlock
  <2>1. m \in Seq(W)
    BY <1>2
  <2>2. QED
    BY <2>1, BlocksAndRest
<1>5. Holds(h, C, r, Bits(Len(C)))
  BY Zenon DEF Absorbed
<1>6. Bits(Len(C)) + 8 * Len(r) = 8 * Len(m)
  <2>1. h.bits = Bits(Len(C)) /\ h.buffer = r
    BY <1>5 DEF Holds
  <2>2. QED
    BY <2>1, BitsOf, Zenon
<1> HIDE DEF C, r
<1>7. PICK e \in Seq(W), l \in Nat : e = Append(r, {<<"end">>}) /\ e = r \o end /\ l = Len(r) /\ Len(e) = l + 1
  <2>1. PICK x \in W : x = {<<"end">>}
    BY DEF W
  <2>2. /\ Append(r, x) = r \o <<x>> /\ Append(r, x) \in Seq(W) /\ Len(Append(r, x)) = Len(r) + 1
        /\ Len(r) \in Nat
    <3>1. r \in Seq(W)
      BY <1>4
    <3>2. QED
      BY <3>1, AppendedRow, Zenon
  <2>3. end = <<x>>
    BY <2>1 DEF end
  <2>4. QED
    BY <2>1, <2>2, <2>3, Zenon
<1>8. HashBlock \in Nat \ {0} /\ LengthAt \in 0..HashBlock - 1 /\ l < HashBlock /\ Len(m) \in Nat
      /\ q * HashBlock \in Nat /\ Len(m) = q * HashBlock + l
  <2>1. PICK n \in Nat : n = Len(w)
    OBVIOUS
  <2>2. HashBlock \in Nat \ {0} /\ LengthAt \in 0..HashBlock - 1 /\ l < HashBlock /\ Len(m) = n + l
    BY <1>4, <1>7, <2>1, HasherAssumption
  <2>3. QED
    BY <1>4, <2>1, <2>2
<1>9. \A z \in Seq(W) : m \o end \o z \o field = w \o ((e \o z) \o field)
  <2> SUFFICES ASSUME NEW z \in Seq(W) PROVE m \o end \o z \o field = w \o ((e \o z) \o field)
    OBVIOUS
  <2>1. PadsBehind(w, r, end, z, field)
    BY <1>2, <1>4, PaddedBehind, Zenon
  <2>2. QED
    BY <1>4, <1>7, <2>1, Zenon DEF PadsBehind
<1>e. Ends(h, C, r, Bits(Len(C)), e, 8 * Len(m))
  <2>1. 8 * Len(m) = Bits(Len(C)) + 8 * Len(r)
    BY <1>6
  <2>2. QED
    BY <1>5, <1>7, <2>1, Zenon DEF Ends
<1>10. CASE Len(e) <= LengthAt
  <2>1. PICK k \in Nat, g \in 0..HashBlock - 1 :
          k = LengthAt - Len(e) /\ g = k /\ Len(m) + 1 + g = q * HashBlock + LengthAt /\ l + 1 + k = LengthAt
    <3>1. LengthAt - Len(e) \in 0..HashBlock - 1 /\ LengthAt - Len(e) \in Nat
      BY <1>7, <1>8, <1>10
    <3>2. Len(m) + 1 + (LengthAt - Len(e)) = q * HashBlock + LengthAt
      BY <1>7, <1>8
    <3>3. l + 1 + (LengthAt - Len(e)) = LengthAt
      BY <1>7, <1>8
    <3>4. QED
      BY <3>1, <3>2, <3>3, Zenon
  <2>2. Gap(Len(m)) = k
    BY <1>8, <2>1, GapIs, Zenon
  <2>3. PICK z \in Seq(W) : z = Hasher!Zeros(k) /\ Len(z) = k
    BY <1>3
  <2>4. PICK y \in Seq(W) : y = e \o z /\ Len(y) = LengthAt
    <3>1. e \o z \in Seq(W) /\ Len(e \o z) = Len(e) + Len(z)
      BY RowsJoined
    <3>2. Len(e) + Len(z) = LengthAt
      BY <1>7, <2>1, <2>3
    <3>3. QED
      BY <3>1, <3>2
  <2>5. PICK b \in Seq(W) : b = y \o field /\ Len(b) = HashBlock
    <3>1. y \o field \in Seq(W) /\ Len(y \o field) = Len(y) + Len(field)
      BY <1>2, RowsJoined
    <3>2. Len(y) + Len(field) = HashBlock
      BY <1>1, <1>8, <2>4
    <3>3. QED
      BY <3>1, <3>2
  <2>6. Padded(m) = w \o b
    BY <1>9, <2>2, <2>3, <2>4, <2>5, Zenon DEF Padded, end, field
  <2>7. Added(W, w, b, q)
    BY <1>4, <2>5, BlockAdded, Zenon
  <2>8. Hasher!Chunks(Padded(m)) = Append(C, b)
    BY <1>4, <2>6, <2>7, Zenon DEF Added
  <2>9. Hasher!done(h).out = Hasher!DigestOf(Append(C, (e \o Hasher!Zeros(LengthAt - Len(e))) \o Hasher!LengthField(8 * Len(m))))
    BY <1>e, <1>10, DoneFits, Zenon
  <2>10. QED
    BY <2>1, <2>3, <2>4, <2>5, <2>8, <2>9, HashIs, Zenon DEF field
<1>11. CASE ~(Len(e) <= LengthAt)
  <2>1. PICK k \in Nat, g \in 0..HashBlock - 1, s \in Nat, a \in Nat :
          /\ k = HashBlock - Len(e) /\ a = LengthAt /\ g = s /\ s = k + a
          /\ Len(m) + 1 + g = (q + 1) * HashBlock + LengthAt
    <3>1. PICK k \in Nat, a \in Nat : k = HashBlock - Len(e) /\ a = LengthAt /\ k + a \in 0..HashBlock - 1
      <4>1. HashBlock - Len(e) \in Nat /\ LengthAt \in Nat /\ (HashBlock - Len(e)) + LengthAt \in 0..HashBlock - 1
        BY <1>7, <1>8, <1>11
      <4>2. QED
        BY <4>1
    <3>2. (q + 1) * HashBlock = q * HashBlock + HashBlock
      BY <1>8
    <3>3. Len(m) + 1 + (k + a) = (q * HashBlock + HashBlock) + LengthAt
      BY <1>7, <1>8, <3>1
    <3>4. k + a \in Nat
      OBVIOUS
    <3>5. QED
      BY <3>1, <3>2, <3>3, <3>4, Zenon
  <2>2. Gap(Len(m)) = s
    <3>1. q + 1 \in Nat
      OBVIOUS
    <3>2. QED
      BY <1>8, <2>1, <3>1, GapIs, Zenon
  <2>3. PICK y \in Seq(W), z \in Seq(W) : y = Hasher!Zeros(k) /\ Len(y) = k /\ z = Hasher!Zeros(a) /\ Len(z) = a
    BY <1>3
  <2>4. PICK t \in Seq(W) : t = y \o z /\ t = Hasher!Zeros(s)
    <3>1. y \o z \in Seq(W)
      BY RowsJoined
    <3>2. Hasher!Zeros(s) = Hasher!Zeros(k) \o Hasher!Zeros(a)
      BY <2>1, ZerosSplit, ZenonT(60)
    <3>3. QED
      BY <2>3, <3>1, <3>2, Zenon
  <2>5. PICK b \in Seq(W) : b = e \o y /\ Len(b) = HashBlock
    <3>1. e \o y \in Seq(W) /\ Len(e \o y) = Len(e) + Len(y)
      BY RowsJoined
    <3>2. Len(e) + Len(y) = HashBlock
      BY <1>7, <1>8, <2>1, <2>3
    <3>3. QED
      BY <3>1, <3>2
  <2>6. PICK c \in Seq(W) : c = z \o field /\ Len(c) = HashBlock
    <3>1. z \o field \in Seq(W) /\ Len(z \o field) = Len(z) + Len(field)
      BY <1>2, RowsJoined
    <3>2. Len(z) + Len(field) = HashBlock
      BY <1>1, <1>8, <2>1, <2>3
    <3>3. QED
      BY <3>1, <3>2
  <2>7. (e \o t) \o field = b \o c
    <3>1. Regroups(e, y, z)
      BY Grouped, Zenon
    <3>2. Regroups(b, z, field)
      BY <1>2, Grouped, Zenon
    <3>3. QED
      BY <2>4, <2>5, <2>6, <3>1, <3>2, Zenon DEF Regroups
  <2>8. Padded(m) = (w \o b) \o c
    <3>1. Padded(m) = w \o (b \o c)
      BY <1>9, <2>2, <2>4, <2>7, Zenon DEF Padded, end, field
    <3>2. Regroups(w, b, c)
      BY Grouped, Zenon
    <3>3. QED
      BY <3>1, <3>2, Zenon DEF Regroups
  <2>9. Added(W, w, b, q)
    BY <1>4, <2>5, BlockAdded, Zenon
  <2>10. PICK v \in Seq(W) : v = w \o b /\ Hasher!Chunks(v) = Append(C, b) /\ Len(v) = (q + 1) * HashBlock
    BY <1>4, <2>9, Zenon DEF Added
  <2>11. Added(W, v, c, q + 1)
    <3>1. q + 1 \in Nat
      OBVIOUS
    <3>2. QED
      BY <2>6, <2>10, <3>1, BlockAdded, Zenon
  <2>12. Hasher!Chunks(Padded(m)) = Append(Append(C, b), c)
    BY <2>8, <2>10, <2>11, Zenon DEF Added
  <2>13. Hasher!done(h).out = Hasher!DigestOf(Append(Append(C, e \o Hasher!Zeros(HashBlock - Len(e))),
                                 Hasher!Zeros(LengthAt) \o Hasher!LengthField(8 * Len(m))))
    BY <1>e, <1>11, DoneLong, Zenon
  <2>14. QED
    BY <2>1, <2>3, <2>5, <2>6, <2>12, <2>13, HashIs, Zenon DEF field
<1>12. QED
  BY <1>10, <1>11, Zenon

\* Rows of whatever.
IsRow(s) == \E V : s \in Seq(V)

LEMMA CommonRow ==
  ASSUME NEW a, NEW b, IsRow(a), IsRow(b)
  PROVE  (\E V : a \in Seq(V) /\ b \in Seq(V)) /\ IsRow(a \o b)
<1>1. PICK A : a \in Seq(A)
  BY Zenon DEF IsRow
<1>2. PICK B : b \in Seq(B)
  BY Zenon DEF IsRow
<1> DEFINE V == A \cup B
<1>3. A \subseteq V /\ B \subseteq V
  OBVIOUS
<1> HIDE DEF V
<1>4. a \in Seq(V) /\ b \in Seq(V)
  BY <1>1, <1>2, <1>3, Wider, Zenon
<1>5. a \o b \in Seq(V)
  BY <1>4, RowsJoined, Zenon
<1>6. QED
  BY <1>4, <1>5, Zenon DEF IsRow

LEMMA Updates ==
  ASSUME NEW h, NEW m, NEW in, IsRow(m), IsRow(in), Absorbed(h, m)
  PROVE  Absorbed(Hasher!update(h, in), m \o in)
<1>1. PICK V : m \in Seq(V) /\ in \in Seq(V)
  BY CommonRow, Zenon
<1>2. QED
  BY <1>1, UpdateAbsorbs, Zenon

LEMMA Finishes ==
  ASSUME NEW h, NEW m, IsRow(m), Absorbed(h, m)
  PROVE  Hasher!done(h).out = Hasher!Hash(m)
BY DoneHashes, Zenon DEF IsRow

LEMMA NoneIsRow == IsRow(<<>>)
<1>1. <<>> \in Seq({})
  OBVIOUS
<1>2. QED
  BY <1>1, Zenon DEF IsRow

LEMMA UpdatesFresh ==
  ASSUME NEW in, IsRow(in)
  PROVE  Absorbed(Hasher!update(Hasher!Fresh, in), in)
<1>1. Absorbed(Hasher!update(Hasher!Fresh, in), <<>> \o in)
  BY FreshAbsorbed, NoneIsRow, Updates, Zenon
<1>2. <<>> \o in = in
  BY NoneJoined, Zenon DEF IsRow
<1>3. QED
  BY <1>1, <1>2, Zenon

LEMMA HashesOnce ==
  ASSUME NEW in, IsRow(in)
  PROVE  /\ Hasher!hash(in) = Hasher!Hash(in)
         /\ IsRow(Hasher!Hash(in)) /\ Len(Hasher!Hash(in)) = DigestSize
<1>1. Hasher!hash(in) = Hasher!Hash(in)
  BY UpdatesFresh, Finishes, Zenon DEF Hasher!hash
<1>2. PICK b : Hasher!Hash(in) = Hasher!DigestOf(b)
  BY HashIs, Zenon
<1>3. PICK V : Hasher!DigestOf(b) \in Seq(V) /\ Len(Hasher!DigestOf(b)) = DigestSize
  BY DigestIs
<1>4. QED
  BY <1>1, <1>2, <1>3, Zenon DEF IsRow

LEMMA ListIsRow ==
  ASSUME NEW n \in Nat, NEW f, f = [i \in 1..n |-> f[i]]
  PROVE  IsRow(f) /\ Len(f) = n
<1>1. PICK V : V = {f[i] : i \in 1..n}
  OBVIOUS
<1>2. \A i \in 1..n : f[i] \in V
  BY <1>1
<1>3. f \in Seq(V) /\ Len(f) = n
  BY <1>2, Rows, Zenon
<1>4. QED
  BY <1>3, Zenon DEF IsRow

LEMMA NamedIs ==
  ASSUME NEW name, NEW n \in Nat
  PROVE  IsRow(Hasher!Named(name, n)) /\ Len(Hasher!Named(name, n)) = n
<1> DEFINE f == Hasher!Named(name, n)
<1>1. f = [i \in 1..n |-> f[i]]
  BY DEF Hasher!Named
<1> HIDE DEF f
<1>2. IsRow(f) /\ Len(f) = n
  BY <1>1, ListIsRow, Zenon
<1>3. QED
  BY <1>2 DEF f

\* The bytes of the message so far, and what the next write appends.
LEMMA NamedSplit ==
  ASSUME NEW name, NEW k \in Nat, NEW n \in Nat
  PROVE  /\ Hasher!Named(name, k + n) = Hasher!Named(name, k) \o Hasher!From(Hasher!Named(name, k + n), k)
         /\ IsRow(Hasher!From(Hasher!Named(name, k + n), k))
<1>1. PICK t \in Nat : t = k + n /\ k <= t
  OBVIOUS
<1>2. PICK s, V : s = Hasher!Named(name, t) /\ s \in Seq(V) /\ Len(s) = t
  BY NamedIs, Zenon DEF IsRow
<1>3. PICK x, y : Halves(V, s, k, x, y)
  BY <1>1, <1>2, Halved, Zenon
<1>4. x \in Seq(V) /\ y \in Seq(V) /\ x = SubSeq(s, 1, k) /\ y = Hasher!From(s, k) /\ Len(x) = k /\ s = x \o y
  BY <1>3, Zenon DEF Halves
<1>5. PICK p, U : p = Hasher!Named(name, k) /\ p \in Seq(U) /\ Len(p) = k
  BY NamedIs, Zenon DEF IsRow
<1>6. x = p
  <2>1. \A i \in 1..k : p[i] = {<<name, i>>}
    BY <1>5 DEF Hasher!Named
  <2>2. \A i \in 1..t : s[i] = {<<name, i>>}
    BY <1>2 DEF Hasher!Named
  <2>3. Piece(V, x, s, 0, k)
    <3>1. 0 \in Nat /\ 0 + k = k /\ 0 + 1 = 1
      OBVIOUS
    <3>2. 0 + k <= Len(s)
      BY <1>1, <1>2, <3>1, Zenon
    <3>3. QED
      BY <1>2, <1>4, <3>1, <3>2, CutIsPiece, Zenon
  <2>4. \A i \in 1..k : x[i] = s[i]
    <3>1. \A i \in 1..k : 0 + i = i
      OBVIOUS
    <3>2. QED
      BY <2>3, <3>1, Zenon DEF Piece
  <2>5. \A i \in 1..k : i \in 1..t
    BY <1>1
  <2>6. \A i \in 1..k : x[i] = p[i]
    BY <2>1, <2>2, <2>4, <2>5, Zenon
  <2>7. PICK W : x \in Seq(W) /\ p \in Seq(W)
    BY <1>4, <1>5, CommonRow, Zenon DEF IsRow
  <2>8. QED
    BY <1>4, <1>5, <2>6, <2>7, SameRows
<1>7. QED
  BY <1>1, <1>2, <1>4, <1>5, <1>6, Zenon DEF IsRow

\* A row with every byte exclusive-ored; once more with the same mark takes that back.
LEMMA XorIs ==
  ASSUME NEW s, NEW mark, IsRow(s)
  PROVE  IsRow(Hasher!XorAll(s, mark)) /\ Len(Hasher!XorAll(s, mark)) = Len(s)
<1>1. Len(s) \in Nat
  BY DEF IsRow
<1> DEFINE f == Hasher!XorAll(s, mark)
<1>2. f = [i \in 1..Len(s) |-> f[i]]
  BY DEF Hasher!XorAll
<1> HIDE DEF f
<1>3. IsRow(f) /\ Len(f) = Len(s)
  BY <1>1, <1>2, ListIsRow, Zenon
<1>4. QED
  BY <1>3 DEF f

LEMMA XorTwice ==
  ASSUME NEW s, NEW mark, IsRow(s)
  PROVE  Hasher!XorAll(Hasher!XorAll(s, mark), mark) = s
<1>1. PICK n, V : n \in Nat /\ s \in Seq(V) /\ Len(s) = n /\ s = [i \in 1..n |-> s[i]]
  <2>1. PICK V : s \in Seq(V)
    BY Zenon DEF IsRow
  <2>2. Len(s) \in Nat /\ s = [i \in 1..Len(s) |-> s[i]]
    BY <2>1
  <2>3. QED
    BY <2>1, <2>2, Zenon
<1>2. PICK x : x = Hasher!XorAll(s, mark) /\ Len(x) = n
  BY <1>1, XorIs, Zenon
<1>3. \A i \in 1..n : x[i] = Hasher!Xor(s[i], {<<mark>>})
  BY <1>1, <1>2 DEF Hasher!XorAll
<1>4. \A b, m : Hasher!Xor(Hasher!Xor(b, m), m) = b
  <2> SUFFICES ASSUME NEW b, NEW m PROVE ((((b \ m) \cup (m \ b)) \ m) \cup (m \ ((b \ m) \cup (m \ b)))) = b
    BY DEF Hasher!Xor
  <2>1. QED
    OBVIOUS
<1>5. Hasher!XorAll(x, mark) = [i \in 1..n |-> Hasher!Xor(x[i], {<<mark>>})]
  BY <1>2, Zenon DEF Hasher!XorAll
<1>6. \A i \in 1..n : Hasher!Xor(x[i], {<<mark>>}) = s[i]
  BY <1>3, <1>4, Zenon
<1>7. [i \in 1..n |-> Hasher!Xor(x[i], {<<mark>>})] = [i \in 1..n |-> s[i]]
  BY <1>6, Zenon
<1>8. QED
  BY <1>1, <1>2, <1>5, <1>7, Zenon

\* The key of the MAC as a block, and exclusive-ored with both marks.
KeyBlock(n) ==
  LET short == IF n > HashBlock THEN Hasher!Hash(Hasher!Named("key", n)) ELSE Hasher!Named("key", n)
  IN short \o Hasher!Zeros(HashBlock - Len(short))
Inner(n) == Hasher!XorAll(KeyBlock(n), "ipad")
Outer(n) == Hasher!XorAll(KeyBlock(n), "opad")
Message(n) == Hasher!Named("byte", n)

LEMMA KeyRows ==
  ASSUME NEW n \in Nat
  PROVE  IsRow(KeyBlock(n)) /\ IsRow(Inner(n)) /\ IsRow(Outer(n))
<1> DEFINE given == Hasher!Named("key", n)
           short == IF n > HashBlock THEN Hasher!Hash(given) ELSE given
<1>1. IsRow(given) /\ Len(given) = n
  BY NamedIs
<1>2. IsRow(short) /\ HashBlock - Len(short) \in Nat
  <2>1. CASE n > HashBlock
    <3>1. IsRow(Hasher!Hash(given)) /\ Len(Hasher!Hash(given)) = DigestSize
      BY <1>1, HashesOnce, Zenon
    <3> HIDE DEF given
    <3>2. short = Hasher!Hash(given)
      BY <2>1
    <3> HIDE DEF short
    <3>3. HashBlock - DigestSize \in Nat
      BY HasherAssumption
    <3>4. QED
      BY <3>1, <3>2, <3>3, Zenon
  <2>2. CASE ~(n > HashBlock)
    <3> HIDE DEF given
    <3>1. short = given
      BY <2>2
    <3> HIDE DEF short
    <3>2. HashBlock - n \in Nat
      BY <2>2, HasherAssumption
    <3>3. QED
      BY <1>1, <3>1, <3>2, Zenon
  <2>3. QED
    BY <2>1, <2>2
<1>3. KeyBlock(n) = short \o Hasher!Zeros(HashBlock - Len(short))
  BY Zenon DEF KeyBlock
<1> HIDE DEF short
<1>4. IsRow(Hasher!Zeros(HashBlock - Len(short)))
  BY <1>2, ZerosAre, Zenon DEF IsRow
<1>5. IsRow(KeyBlock(n))
  BY <1>2, <1>3, <1>4, CommonRow, Zenon
<1>6. QED
  BY <1>5, XorIs, Zenon DEF Inner, Outer

\* What DigestOfMessage says of a digest d.
Right(d) ==
  CASE d.kind = "sha256" -> d.out = Hasher!Hash(Message(d.fed))
    [] d.kind = "sha256d" -> d.out = Hasher!Hash(Hasher!Hash(Message(d.fed)))
    [] d.kind = "hmac" -> d.out = Hasher!Hash(Outer(d.key) \o Hasher!Hash(Inner(d.key) \o Message(d.fed)))
    [] OTHER -> TRUE

LEMMA MacIs ==
  ASSUME NEW n, NEW m
  PROVE  Hasher!Mac(n, m) = Hasher!Hash(Outer(n) \o Hasher!Hash(Inner(n) \o m))
BY Zenon DEF Hasher!Mac, KeyBlock, Inner, Outer

LEMMA RightIs == Hasher!DigestOfMessage <=> Right(digest)
BY MacIs DEF Hasher!DigestOfMessage, Right, Message

Digest(kind, k, n, out) == [kind |-> kind, key |-> k, fed |-> n, out |-> out]

LEMMA RightOnes ==
  ASSUME NEW k, NEW n, NEW out
  PROVE  /\ Right(Digest("none", k, n, out))
         /\ out = Hasher!Hash(Message(n)) => Right(Digest("sha256", k, n, out))
         /\ out = Hasher!Hash(Hasher!Hash(Message(n))) => Right(Digest("sha256d", k, n, out))
         /\ out = Hasher!Hash(Outer(k) \o Hasher!Hash(Inner(k) \o Message(n))) => Right(Digest("hmac", k, n, out))
BY DEF Right, Digest

\* The hasher has taken the message so far, of a MAC behind the inner key, unless it awaits an init.
HashInv ==
  /\ fed \in Nat /\ key \in Nat
  /\ use \in {"none", "stream", "mac"}
  /\ use = "stream" => Absorbed(hasher, Message(fed))
  /\ use = "mac" => Absorbed(hasher, Inner(key) \o Message(fed)) /\ pad = Outer(key)
  /\ Right(digest)

LEMMA HashStarts == Hasher!Init => HashInv
<1> SUFFICES ASSUME Hasher!Init PROVE HashInv
  OBVIOUS
<1>1. fed = 0 /\ key = 0 /\ use = "none" /\ digest = Digest("none", 0, 0, <<>>)
  BY Zenon DEF Hasher!Init, Digest
<1>2. Right(digest)
  BY <1>1, RightOnes, Zenon
<1>3. QED
  BY <1>1, <1>2 DEF HashInv

LEMMA NothingYet == IsRow(Message(0)) /\ Message(0) = <<>>
<1>1. 0 \in Nat
  OBVIOUS
<1>2. IsRow(Message(0)) /\ Len(Message(0)) = 0
  BY <1>1, NamedIs, Zenon DEF Message
<1>3. QED
  BY <1>2, IsNone, Zenon DEF IsRow

LEMMA StreamStarts ==
  ASSUME hasher' = Hasher!Fresh, fed' = 0
  PROVE  fed' \in Nat /\ Absorbed(hasher', Message(fed'))
BY FreshAbsorbed, NothingYet DEF Message

LEMMA WriteHashes ==
  ASSUME HashInv, NEW n \in Nat, Hasher!Write(n)
  PROVE  HashInv'
<1>1. /\ use # "none" /\ hasher' = Hasher!update(hasher, Hasher!From(Hasher!Named("byte", fed + n), fed))
      /\ fed' = fed + n /\ digest' = Digest("none", 0, 0, <<>>)
      /\ use' = use /\ pad' = pad /\ key' = key
  BY Zenon DEF Hasher!Write, Hasher!GivesNone, Digest
<1>2. fed \in Nat /\ key \in Nat /\ use \in {"none", "stream", "mac"}
  BY DEF HashInv
<1>3. PICK m, in : /\ m = Message(fed) /\ in = Hasher!From(Hasher!Named("byte", fed + n), fed)
                   /\ IsRow(m) /\ IsRow(in) /\ Message(fed + n) = m \o in
  <2>1. IsRow(Message(fed))
    BY <1>2, NamedIs, Zenon DEF Message
  <2>2. IsRow(Hasher!From(Hasher!Named("byte", fed + n), fed))
    BY <1>2, NamedSplit, Zenon
  <2>3. Message(fed + n) = Message(fed) \o Hasher!From(Hasher!Named("byte", fed + n), fed)
    BY <1>2, NamedSplit, Zenon DEF Message
  <2>4. QED
    BY <2>1, <2>2, <2>3, Zenon
<1>4. use = "stream" => Absorbed(hasher', Message(fed'))
  <2> SUFFICES ASSUME use = "stream" PROVE Absorbed(hasher', Message(fed'))
    OBVIOUS
  <2>1. Absorbed(hasher, m)
    BY <1>3, Zenon DEF HashInv
  <2>2. Absorbed(Hasher!update(hasher, in), m \o in)
    BY <1>3, <2>1, Updates, Zenon
  <2>3. QED
    BY <1>1, <1>3, <2>2, Zenon
<1>5. use = "mac" => Absorbed(hasher', Inner(key') \o Message(fed')) /\ pad' = Outer(key')
  <2> SUFFICES ASSUME use = "mac" PROVE Absorbed(hasher', Inner(key) \o Message(fed')) /\ pad' = Outer(key)
    BY <1>1, Zenon
  <2>1. PICK k : k = Inner(key) /\ IsRow(k)
    BY <1>2, KeyRows, Zenon
  <2>2. Absorbed(hasher, k \o m) /\ pad = Outer(key)
    BY <1>3, <2>1, Zenon DEF HashInv
  <2>3. IsRow(k \o m)
    BY <1>3, <2>1, CommonRow, Zenon
  <2>4. Absorbed(Hasher!update(hasher, in), (k \o m) \o in)
    BY <1>3, <2>2, <2>3, Updates, Zenon
  <2>5. Regroups(k, m, in)
    <3>1. PICK A : k \o m \in Seq(A)
      BY <2>3, Zenon DEF IsRow
    <3>2. PICK A1 : k \in Seq(A1)
      BY <2>1, Zenon DEF IsRow
    <3>3. PICK A2 : m \in Seq(A2)
      BY <1>3, Zenon DEF IsRow
    <3>4. PICK A3 : in \in Seq(A3)
      BY <1>3, Zenon DEF IsRow
    <3> DEFINE V == A1 \cup A2 \cup A3
    <3>5. A1 \subseteq V /\ A2 \subseteq V /\ A3 \subseteq V
      OBVIOUS
    <3> HIDE DEF V
    <3>6. k \in Seq(V) /\ m \in Seq(V) /\ in \in Seq(V)
      BY <3>2, <3>3, <3>4, <3>5, Wider, Zenon
    <3>7. QED
      BY <3>6, Grouped, Zenon
  <2>6. QED
    BY <1>1, <1>3, <2>1, <2>2, <2>4, <2>5, Zenon DEF Regroups
<1>6. Right(digest')
  BY <1>1, RightOnes, Zenon
<1>7. fed' \in Nat /\ key' \in Nat /\ use' \in {"none", "stream", "mac"}
  BY <1>1, <1>2
<1>8. QED
  BY <1>1, <1>4, <1>5, <1>6, <1>7, Zenon DEF HashInv

LEMMA DigestHashes ==
  ASSUME HashInv, Hasher!StreamSha256 \/ Hasher!StreamSha256d
  PROVE  HashInv'
<1>1. /\ use = "stream" /\ use' = use /\ key' = key /\ pad' = pad /\ hasher' = Hasher!Fresh /\ fed' = 0
      /\ \/ digest' = Digest("sha256", key, fed, Hasher!done(hasher).out)
         \/ digest' = Digest("sha256d", key, fed, Hasher!hash(Hasher!done(hasher).out))
  BY Zenon DEF Hasher!StreamSha256, Hasher!StreamSha256d, Hasher!Gives, Digest
<1>2. fed \in Nat /\ key \in Nat /\ Absorbed(hasher, Message(fed))
  BY <1>1, Zenon DEF HashInv
<1>3. IsRow(Message(fed))
  BY <1>2, NamedIs, Zenon DEF Message
<1>4. Hasher!done(hasher).out = Hasher!Hash(Message(fed)) /\ IsRow(Hasher!Hash(Message(fed)))
  BY <1>2, <1>3, Finishes, HashesOnce, Zenon
<1>5. Hasher!hash(Hasher!Hash(Message(fed))) = Hasher!Hash(Hasher!Hash(Message(fed)))
  BY <1>4, HashesOnce, Zenon
<1>6. Right(digest')
  BY <1>1, <1>4, <1>5, RightOnes, Zenon
<1>7. fed' \in Nat /\ Absorbed(hasher', Message(fed'))
  BY <1>1, StreamStarts, Zenon
<1>8. "stream" # "mac"
  OBVIOUS
<1>9. QED
  BY <1>1, <1>2, <1>6, <1>7, <1>8, Zenon DEF HashInv

LEMMA MacStarts ==
  ASSUME HashInv, NEW n \in Nat, Hasher!MacInit(n)
  PROVE  HashInv'
<1> DEFINE given == Hasher!Named("key", n)
           short == IF n > HashBlock THEN Hasher!hash(given) ELSE given
           inner == Hasher!XorAll(short \o Hasher!Zeros(HashBlock - Len(short)), "ipad")
<1>1. /\ hasher' = Hasher!update(Hasher!Fresh, inner) /\ pad' = Hasher!XorAll(Hasher!XorAll(inner, "ipad"), "opad")
      /\ use' = "mac" /\ key' = n /\ fed' = 0 /\ digest' = Digest("none", 0, 0, <<>>)
  BY Zenon DEF Hasher!MacInit, Hasher!GivesNone, Digest
<1>2. inner = Inner(n)
  <2>1. Hasher!hash(given) = Hasher!Hash(given)
    BY NamedIs, HashesOnce, Zenon
  <2>2. QED
    BY <2>1, Zenon DEF Inner, KeyBlock
<1> HIDE DEF inner
<1>3. IsRow(KeyBlock(n)) /\ IsRow(Inner(n)) /\ IsRow(Outer(n))
  BY KeyRows
<1>4. pad' = Outer(n)
  <2>1. Hasher!XorAll(Inner(n), "ipad") = KeyBlock(n)
    BY <1>3, XorTwice, Zenon DEF Inner
  <2>2. QED
    BY <1>1, <1>2, <2>1, Zenon DEF Outer
<1>5. Absorbed(hasher', Inner(n) \o Message(0))
  <2>1. Absorbed(hasher', Inner(n))
    BY <1>1, <1>2, <1>3, UpdatesFresh, Zenon
  <2>2. Inner(n) \o Message(0) = Inner(n)
    BY <1>3, NothingYet, NoneJoined, Zenon DEF IsRow
  <2>3. QED
    BY <2>1, <2>2, Zenon
<1>6. Right(digest')
  BY <1>1, RightOnes, Zenon
<1>7. "mac" # "stream" /\ 0 \in Nat /\ "mac" \in {"none", "stream", "mac"}
  OBVIOUS
<1>8. QED
  BY <1>1, <1>4, <1>5, <1>6, <1>7, Zenon DEF HashInv

LEMMA MacEnds ==
  ASSUME HashInv, Hasher!MacDone
  PROVE  HashInv'
<1> DEFINE within == Hasher!done(hasher).out
           outer == Hasher!update(Hasher!update(Hasher!Fresh, pad), within)
<1>1. /\ use = "mac" /\ use' = "none" /\ pad' = pad /\ key' = key /\ fed' = fed
      /\ digest' = Digest("hmac", key, fed, Hasher!done(outer).out)
  BY Zenon DEF Hasher!MacDone, Hasher!Gives, Digest
<1> HIDE DEF outer, within
<1>2. fed \in Nat /\ key \in Nat /\ Absorbed(hasher, Inner(key) \o Message(fed)) /\ pad = Outer(key)
  BY <1>1, Zenon DEF HashInv
<1>3. IsRow(Message(fed)) /\ IsRow(Inner(key)) /\ IsRow(Outer(key))
  BY <1>2, NamedIs, KeyRows, Zenon DEF Message
<1>4. PICK m : m = Inner(key) \o Message(fed) /\ IsRow(m)
  BY <1>3, CommonRow, Zenon
<1>5. within = Hasher!Hash(m) /\ IsRow(within)
  <2>1. within = Hasher!Hash(m)
    BY <1>2, <1>4, Finishes, Zenon DEF within
  <2>2. QED
    BY <1>4, <2>1, HashesOnce, Zenon
<1>6. Absorbed(outer, Outer(key) \o within)
  <2>1. Absorbed(Hasher!update(Hasher!Fresh, Outer(key)), Outer(key))
    BY <1>3, UpdatesFresh, Zenon
  <2>2. QED
    BY <1>2, <1>3, <1>5, <2>1, Updates, Zenon DEF outer
<1>7. Hasher!done(outer).out = Hasher!Hash(Outer(key) \o within)
  <2>1. IsRow(Outer(key) \o within)
    BY <1>3, <1>5, CommonRow, Zenon
  <2>2. QED
    BY <1>6, <2>1, Finishes, Zenon
<1>8. Right(digest')
  BY <1>1, <1>4, <1>5, <1>7, RightOnes, Zenon
<1>9. "none" # "stream" /\ "none" # "mac" /\ "none" \in {"none", "stream", "mac"}
  OBVIOUS
<1>10. QED
  BY <1>1, <1>2, <1>8, <1>9, Zenon DEF HashInv

LEMMA HashKeeps == HashInv /\ [Hasher!Next]_Hasher!vars => HashInv'
<1> SUFFICES ASSUME HashInv, [Hasher!Next]_Hasher!vars PROVE HashInv'
  OBVIOUS
<1>1. CASE UNCHANGED Hasher!vars
  BY <1>1, Zenon DEF Hasher!vars, HashInv
<1>2. CASE Hasher!StreamInit
  <2>1. use' = "stream" /\ hasher' = Hasher!Fresh /\ fed' = 0 /\ key' = 0 /\ digest' = Digest("none", 0, 0, <<>>)
    BY <1>2, Zenon DEF Hasher!StreamInit, Hasher!GivesNone, Digest
  <2>2. Right(digest')
    BY <2>1, RightOnes, Zenon
  <2>3. fed' \in Nat /\ Absorbed(hasher', Message(fed'))
    BY <2>1, StreamStarts, Zenon
  <2>4. "stream" # "mac" /\ 0 \in Nat /\ "stream" \in {"none", "stream", "mac"}
    OBVIOUS
  <2>5. QED
    BY <2>1, <2>2, <2>3, <2>4, Zenon DEF HashInv
<1>3. ASSUME NEW n \in 0..MaxMessage, Hasher!Write(n) \/ Hasher!MacInit(n) PROVE HashInv'
  <2>1. n \in Nat
    BY HasherAssumption
  <2>2. QED
    BY <1>3, <2>1, WriteHashes, MacStarts, Zenon
<1>4. QED
  BY <1>1, <1>2, <1>3, DigestHashes, MacEnds, Zenon DEF Hasher!Next

-----------------------------------------------------------------------------
\* Cipher: one turn of a loop, and a loop of them.  k is "E" or "D", of the code's two loops.

BlkOf(k, iv, b) ==
  CASE mode = "ECB" -> IF k = "E" THEN Aes!E(b) ELSE Aes!D(b)
    [] mode = "CBC" -> IF k = "E" THEN Aes!E(Aes!Xor(b, iv)) ELSE Aes!Xor(Aes!D(b), iv)
    [] mode = "CFB" -> Aes!Xor(Aes!E(iv), b)
IvOf(k, iv, b) == IF mode = "ECB" THEN iv ELSE IF k = "E" THEN BlkOf(k, iv, b) ELSE b

State(iv, memory) == [iv |-> iv, memory |-> memory]
Turned(k, s, i, d) ==
  State(IvOf(k, s.iv, s.memory[i]), [s.memory EXCEPT ![d] = BlkOf(k, s.iv, s.memory[i])])

LEMMA TurnIs ==
  ASSUME NEW s, NEW i, NEW d
  PROVE  /\ Aes!EncryptBlock(s.iv, s.memory, i, d) = Turned("E", s, i, d)
         /\ Aes!DecryptBlock(s.iv, s.memory, i, d) = Turned("D", s, i, d)
<1>1. "E" # "D"
  OBVIOUS
<1>2. /\ BlkOf("E", s.iv, s.memory[i]) =
           CASE mode = "ECB" -> Aes!E(s.memory[i])
             [] mode = "CBC" -> Aes!E(Aes!Xor(s.memory[i], s.iv))
             [] mode = "CFB" -> Aes!Xor(Aes!E(s.iv), s.memory[i])
      /\ BlkOf("D", s.iv, s.memory[i]) =
           CASE mode = "ECB" -> Aes!D(s.memory[i])
             [] mode = "CBC" -> Aes!Xor(Aes!D(s.memory[i]), s.iv)
             [] mode = "CFB" -> Aes!Xor(Aes!E(s.iv), s.memory[i])
  BY <1>1 DEF BlkOf
<1>3. /\ IvOf("E", s.iv, s.memory[i]) = IF mode = "ECB" THEN s.iv ELSE BlkOf("E", s.iv, s.memory[i])
      /\ IvOf("D", s.iv, s.memory[i]) = IF mode = "ECB" THEN s.iv ELSE s.memory[i]
  BY <1>1 DEF IvOf
<1>4. Aes!EncryptBlock(s.iv, s.memory, i, d) = Turned("E", s, i, d)
  BY <1>2, <1>3, Zenon DEF Aes!EncryptBlock, Turned, State
<1>5. Aes!DecryptBlock(s.iv, s.memory, i, d) = Turned("D", s, i, d)
  BY <1>2, <1>3, Zenon DEF Aes!DecryptBlock, Turned, State
<1>6. QED
  BY <1>4, <1>5

Dst(inPlace, n, i) == IF inPlace THEN i ELSE n + i
First(iv, blocks, n) == State(iv, [c \in 1..2 * n |-> IF c <= n THEN blocks[c] ELSE {}])
Turning(k, iv, blocks, n, inPlace, m, t) ==
  t = [i \in 0..m |-> IF i = 0 THEN First(iv, blocks, n) ELSE Turned(k, t[i - 1], i, Dst(inPlace, n, i))]

\* What comes out of a loop whose turns are t.
Result(blocks, inPlace, t) ==
  [iv |-> t[Len(blocks)].iv,
   blocks |-> [i \in 1..Len(blocks) |-> t[Len(blocks)].memory[Dst(inPlace, Len(blocks), i)]]]

\* The turns as the loops of the specification define them.
EncTurns(iv, blocks, inPlace, t) ==
  t = [i \in 0..Len(blocks) |->
         IF i = 0 THEN [iv |-> iv, memory |-> [c \in 1..2 * Len(blocks) |-> IF c <= Len(blocks) THEN blocks[c] ELSE {}]]
         ELSE Aes!EncryptBlock(t[i - 1].iv, t[i - 1].memory, i, Dst(inPlace, Len(blocks), i))]
DecTurns(iv, blocks, inPlace, t) ==
  t = [i \in 0..Len(blocks) |->
         IF i = 0 THEN [iv |-> iv, memory |-> [c \in 1..2 * Len(blocks) |-> IF c <= Len(blocks) THEN blocks[c] ELSE {}]]
         ELSE Aes!DecryptBlock(t[i - 1].iv, t[i - 1].memory, i, Dst(inPlace, Len(blocks), i))]

LEMMA LoopIs ==
  ASSUME NEW iv, NEW blocks, NEW inPlace
  PROVE  /\ Aes!Loop(Aes!EncryptBlock, iv, blocks, inPlace) =
              Result(blocks, inPlace, CHOOSE t : EncTurns(iv, blocks, inPlace, t))
         /\ Aes!Loop(Aes!DecryptBlock, iv, blocks, inPlace) =
              Result(blocks, inPlace, CHOOSE t : DecTurns(iv, blocks, inPlace, t))
BY Zenon DEF Aes!Loop, Result, EncTurns, DecTurns, Dst

LEMMA TurnsAre ==
  ASSUME NEW iv, NEW blocks, NEW inPlace, NEW t
  PROVE  /\ EncTurns(iv, blocks, inPlace, t) <=> Turning("E", iv, blocks, Len(blocks), inPlace, Len(blocks), t)
         /\ DecTurns(iv, blocks, inPlace, t) <=> Turning("D", iv, blocks, Len(blocks), inPlace, Len(blocks), t)
<1> DEFINE m == Len(blocks)
           to(i) == Dst(inPlace, m, i)
           first == First(iv, blocks, m)
           Enc(i) == Aes!EncryptBlock(t[i - 1].iv, t[i - 1].memory, i, to(i))
           Dec(i) == Aes!DecryptBlock(t[i - 1].iv, t[i - 1].memory, i, to(i))
           Turn1(k, i) == Turned(k, t[i - 1], i, to(i))
<1>1. \A i : Enc(i) = Turn1("E", i) /\ Dec(i) = Turn1("D", i)
  BY TurnIs, Zenon
<1> HIDE DEF Enc, Dec, Turn1, first, m
<1>2. /\ [i \in 0..m |-> IF i = 0 THEN first ELSE Enc(i)] = [i \in 0..m |-> IF i = 0 THEN first ELSE Turn1("E", i)]
      /\ [i \in 0..m |-> IF i = 0 THEN first ELSE Dec(i)] = [i \in 0..m |-> IF i = 0 THEN first ELSE Turn1("D", i)]
  BY <1>1
<1>3. /\ EncTurns(iv, blocks, inPlace, t) <=> t = [i \in 0..m |-> IF i = 0 THEN first ELSE Enc(i)]
      /\ DecTurns(iv, blocks, inPlace, t) <=> t = [i \in 0..m |-> IF i = 0 THEN first ELSE Dec(i)]
  BY Zenon DEF EncTurns, DecTurns, First, State, Enc, Dec, first, m
<1>4. \A k : Turning(k, iv, blocks, m, inPlace, m, t) <=> t = [i \in 0..m |-> IF i = 0 THEN first ELSE Turn1(k, i)]
  BY Zenon DEF Turning, Turn1, first, m
<1>5. QED
  BY <1>2, <1>3, <1>4, Zenon DEF m

\* There are such turns.
LEMMA TurnsExist ==
  ASSUME NEW k, NEW iv, NEW blocks, NEW n, NEW inPlace, NEW m \in Nat
  PROVE  \E t : Turning(k, iv, blocks, n, inPlace, m, t)
<1> DEFINE Bad == {j \in 0..m : ~\E t : Turning(k, iv, blocks, n, inPlace, j, t)}
<1>1. SUFFICES ASSUME Bad # {} PROVE FALSE
  OBVIOUS
<1>2. PICK j \in Bad : \A i \in Bad : j <= i
  BY <1>1, SmallestNumber
<1>3. j \in 0..m /\ ~\E t : Turning(k, iv, blocks, n, inPlace, j, t)
  OBVIOUS
<1>4. \A i \in 0..m : i < j => \E t : Turning(k, iv, blocks, n, inPlace, i, t)
  BY <1>2
<1> HIDE DEF Bad
<1>5. CASE j = 0
  <2> DEFINE t == [i \in 0..0 |-> First(iv, blocks, n)]
  <2>1. t = [i \in 0..0 |-> IF i = 0 THEN First(iv, blocks, n) ELSE Turned(k, t[i - 1], i, Dst(inPlace, n, i))]
    OBVIOUS
  <2>2. QED
    BY <1>3, <1>5, <2>1, Zenon DEF Turning
<1>6. CASE j # 0
  <2>1. PICK i \in 0..m : j = i + 1 /\ i < j
    BY <1>3, <1>6
  <2>2. PICK t : Turning(k, iv, blocks, n, inPlace, i, t)
    BY <1>4, <2>1
  <2> DEFINE u == [x \in 0..j |-> IF x = j THEN Turned(k, t[i], j, Dst(inPlace, n, j)) ELSE t[x]]
  <2>3. u = [x \in 0..j |-> IF x = 0 THEN First(iv, blocks, n) ELSE Turned(k, u[x - 1], x, Dst(inPlace, n, x))]
    <3>1. \A x \in 0..j : u[x] = IF x = 0 THEN First(iv, blocks, n) ELSE Turned(k, u[x - 1], x, Dst(inPlace, n, x))
      <4> TAKE x \in 0..j
      <4>1. CASE x = j
        <5>1. u[x - 1] = t[i] /\ x # 0
          BY <2>1, <4>1
        <5>2. QED
          BY <4>1, <5>1
      <4>2. CASE x # j
        <5>1. x \in 0..i /\ u[x] = t[x]
          BY <2>1, <4>2
        <5>2. x # 0 => u[x - 1] = t[x - 1]
          BY <2>1, <4>2
        <5>3. t[x] = IF x = 0 THEN First(iv, blocks, n) ELSE Turned(k, t[x - 1], x, Dst(inPlace, n, x))
          BY <2>2, <5>1 DEF Turning
        <5>4. QED
          BY <5>1, <5>2, <5>3
      <4>3. QED
        BY <4>1, <4>2
    <3>2. u = [x \in 0..j |-> u[x]]
      OBVIOUS
    <3> HIDE DEF u
    <3>3. QED
      BY <3>1, <3>2
  <2>4. QED
    BY <1>3, <2>3, Zenon DEF Turning
<1>7. QED
  BY <1>5, <1>6

\* A loop gives what turns of that kind end with.
Ran(k, iv, blocks, n, inPlace, r) ==
  \E t : Turning(k, iv, blocks, n, inPlace, n, t) /\ r = Result(blocks, inPlace, t)

LEMMA LoopTurns ==
  ASSUME NEW iv, NEW blocks, NEW n \in Nat, n = Len(blocks), NEW inPlace
  PROVE  /\ Ran("E", iv, blocks, n, inPlace, Aes!Loop(Aes!EncryptBlock, iv, blocks, inPlace))
         /\ Ran("D", iv, blocks, n, inPlace, Aes!Loop(Aes!DecryptBlock, iv, blocks, inPlace))
<1>1. /\ \E t : Turning("E", iv, blocks, n, inPlace, n, t)
      /\ \E t : Turning("D", iv, blocks, n, inPlace, n, t)
  BY TurnsExist, Zenon
<1>2. (\E t : EncTurns(iv, blocks, inPlace, t)) /\ (\E t : DecTurns(iv, blocks, inPlace, t))
  BY <1>1, TurnsAre, Zenon
<1>3. /\ EncTurns(iv, blocks, inPlace, CHOOSE t : EncTurns(iv, blocks, inPlace, t))
      /\ DecTurns(iv, blocks, inPlace, CHOOSE t : DecTurns(iv, blocks, inPlace, t))
  BY <1>2, Zenon
<1>4. QED
  BY <1>3, TurnsAre, LoopIs, Zenon DEF Ran

\* After turn i, the blocks still to be read are those of the source, and those that were
\* written are what the modes make of the source, in place or not.
After(k, blocks, n, inPlace, t, i) ==
  /\ t[i].memory = [c \in 1..2 * n |-> t[i].memory[c]]
  /\ \A c \in i + 1..n : t[i].memory[c] = blocks[c]
  /\ \A j \in 1..i : t[i].memory[Dst(inPlace, n, j)] = BlkOf(k, t[j - 1].iv, blocks[j])

\* The chaining vector behind turn i.
Chained(k, blocks, t, i) == t[i].iv = IvOf(k, t[i - 1].iv, blocks[i])

LEMMA OneTurn ==
  ASSUME NEW k, NEW iv, NEW blocks, NEW n \in Nat, NEW inPlace, NEW t,
         Turning(k, iv, blocks, n, inPlace, n, t), NEW i \in 1..n, After(k, blocks, n, inPlace, t, i - 1)
  PROVE  After(k, blocks, n, inPlace, t, i) /\ Chained(k, blocks, t, i)
<1>1. PICK h \in 0..n : h = i - 1 /\ i = h + 1
  OBVIOUS
<1>2. t[i] = Turned(k, t[h], i, Dst(inPlace, n, i))
  <2>1. i \in 0..n /\ i # 0
    OBVIOUS
  <2>2. t = [x \in 0..n |-> IF x = 0 THEN First(iv, blocks, n) ELSE Turned(k, t[x - 1], x, Dst(inPlace, n, x))]
    BY Zenon DEF Turning
  <2>3. QED
    BY <1>1, <2>1, <2>2
<1>3. /\ t[h].memory = [c \in 1..2 * n |-> t[h].memory[c]]
      /\ \A c \in h + 1..n : t[h].memory[c] = blocks[c]
      /\ \A j \in 1..h : t[h].memory[Dst(inPlace, n, j)] = BlkOf(k, t[j - 1].iv, blocks[j])
  BY <1>1, Zenon DEF After
<1>4. t[h].memory[i] = blocks[i]
  BY <1>1, <1>3
<1>5. PICK b : b = BlkOf(k, t[h].iv, blocks[i])
  OBVIOUS
<1>6. t[i].memory = [t[h].memory EXCEPT ![Dst(inPlace, n, i)] = b] /\ t[i].iv = IvOf(k, t[h].iv, blocks[i])
  BY <1>2, <1>4, <1>5 DEF Turned, State
<1>7. /\ \A j \in 1..i : Dst(inPlace, n, j) \in 1..2 * n /\ (j <= h => Dst(inPlace, n, j) # Dst(inPlace, n, i))
      /\ \A c \in i + 1..n : c # Dst(inPlace, n, i) /\ c \in 1..2 * n
  BY <1>1 DEF Dst
<1>8. t[i].memory = [c \in 1..2 * n |-> t[i].memory[c]]
  BY <1>3, <1>6
<1>9. \A c \in i + 1..n : t[i].memory[c] = blocks[c]
  <2> TAKE c \in i + 1..n
  <2>1. c \in h + 1..n
    BY <1>1
  <2>2. QED
    BY <1>3, <1>6, <1>7, <2>1
<1>10. \A j \in 1..i : t[i].memory[Dst(inPlace, n, j)] = BlkOf(k, t[j - 1].iv, blocks[j])
  <2> TAKE j \in 1..i
  <2>1. CASE j = i
    <3>1. t[i].memory[Dst(inPlace, n, i)] = b
      BY <1>3, <1>6, <1>7
    <3>2. QED
      BY <1>1, <1>5, <2>1, <3>1
  <2>2. CASE j # i
    <3>1. j \in 1..h /\ j <= h
      BY <1>1, <2>2
    <3>2. t[i].memory[Dst(inPlace, n, j)] = t[h].memory[Dst(inPlace, n, j)]
      BY <1>3, <1>6, <1>7, <3>1
    <3>3. QED
      BY <1>3, <3>1, <3>2
  <2>3. QED
    BY <2>1, <2>2
<1>11. QED
  BY <1>1, <1>6, <1>8, <1>9, <1>10, Zenon DEF After, Chained

LEMMA AllTurns ==
  ASSUME NEW k, NEW iv, NEW blocks, NEW n \in Nat, NEW inPlace, NEW t,
         Turning(k, iv, blocks, n, inPlace, n, t)
  PROVE  \A i \in 0..n : After(k, blocks, n, inPlace, t, i)
<1>1. t[0] = First(iv, blocks, n)
  BY DEF Turning
<1>2. t[0].memory = [c \in 1..2 * n |-> IF c <= n THEN blocks[c] ELSE {}]
  BY <1>1 DEF First, State
<1>3. After(k, blocks, n, inPlace, t, 0)
  <2>1. t[0].memory = [c \in 1..2 * n |-> t[0].memory[c]]
    BY <1>2
  <2>2. \A c \in 0 + 1..n : t[0].memory[c] = blocks[c]
    BY <1>2
  <2>3. 1..0 = {}
    OBVIOUS
  <2>4. QED
    BY <2>1, <2>2, <2>3, Zenon DEF After
<1> DEFINE Bad == {i \in 0..n : ~After(k, blocks, n, inPlace, t, i)}
<1>4. SUFFICES ASSUME Bad # {} PROVE FALSE
  OBVIOUS
<1>5. PICK i \in Bad : \A j \in Bad : i <= j
  BY <1>4, SmallestNumber
<1>6. i # 0 /\ i \in 0..n /\ ~After(k, blocks, n, inPlace, t, i)
  BY <1>3
<1>7. i \in 1..n /\ i - 1 \in 0..n /\ i - 1 \notin Bad
  BY <1>5, <1>6
<1>8. After(k, blocks, n, inPlace, t, i - 1)
  BY <1>7
<1>9. QED
  BY <1>6, <1>7, <1>8, OneTurn, Zenon

\* A loop makes the blocks out of the blocks in, with the chaining vectors v.
Chain(k, iv, blocks, n, v, out, end) ==
  /\ out = [j \in 1..n |-> out[j]] /\ v[0] = iv /\ v[n] = end
  /\ \A j \in 1..n : out[j] = BlkOf(k, v[j - 1], blocks[j]) /\ v[j] = IvOf(k, v[j - 1], blocks[j])

LEMMA TurnsChain ==
  ASSUME NEW k, NEW iv, NEW blocks, NEW inPlace, NEW n \in Nat, n = Len(blocks), NEW t,
         Turning(k, iv, blocks, n, inPlace, n, t)
  PROVE  \E v : Chain(k, iv, blocks, n, v, Result(blocks, inPlace, t).blocks, Result(blocks, inPlace, t).iv)
<1> DEFINE out == [i \in 1..n |-> t[n].memory[Dst(inPlace, n, i)]]
           v == [j \in 0..n |-> t[j].iv]
<1>1. Result(blocks, inPlace, t).blocks = out /\ Result(blocks, inPlace, t).iv = t[n].iv
  BY DEF Result
<1>2. out = [j \in 1..n |-> out[j]] /\ v[0] = iv /\ v[n] = t[n].iv
  <2>1. t[0].iv = iv
    BY DEF Turning, First, State
  <2>2. QED
    BY <2>1
<1>3. \A j \in 1..n : out[j] = BlkOf(k, v[j - 1], blocks[j]) /\ v[j] = IvOf(k, v[j - 1], blocks[j])
  <2> TAKE j \in 1..n
  <2>1. After(k, blocks, n, inPlace, t, n) /\ After(k, blocks, n, inPlace, t, j - 1)
    <3>1. n \in 0..n /\ j - 1 \in 0..n
      OBVIOUS
    <3>2. QED
      BY <3>1, AllTurns, Zenon
  <2>2. t[n].memory[Dst(inPlace, n, j)] = BlkOf(k, t[j - 1].iv, blocks[j])
    BY <2>1, Zenon DEF After
  <2>3. Chained(k, blocks, t, j)
    BY <2>1, OneTurn, Zenon
  <2>4. QED
    BY <2>2, <2>3 DEF Chained
<1> HIDE DEF out, v
<1>4. Chain(k, iv, blocks, n, v, out, t[n].iv)
  BY <1>2, <1>3, Zenon DEF Chain
<1>5. QED
  BY <1>1, <1>4, Zenon

LEMMA LoopChains ==
  ASSUME NEW k, NEW iv, NEW blocks, NEW n \in Nat, n = Len(blocks), NEW inPlace, NEW r,
         Ran(k, iv, blocks, n, inPlace, r)
  PROVE  \E v : Chain(k, iv, blocks, n, v, r.blocks, r.iv)
<1>1. PICK t : Turning(k, iv, blocks, n, inPlace, n, t) /\ r = Result(blocks, inPlace, t)
  BY Zenon DEF Ran
<1>2. QED
  BY <1>1, TurnsChain, Zenon

\* A block without plain marks, as every chaining vector of CBC is.
NoPlain(b) == \A i : <<"plain", i>> \notin b

LEMMA Inverses ==
  ASSUME NEW b, NEW i, <<"plain", i>> \in b
  PROVE  Aes!E(b) = {<<"E", b>>} /\ Aes!D({<<"E", b>>}) = b /\ NoPlain({<<"E", b>>})
<1>1. ~\E x \in b : b = {x} /\ x[1] = "D"
  <2>1. SUFFICES ASSUME NEW x \in b, b = {x}, x[1] = "D" PROVE FALSE
    OBVIOUS
  <2>2. x = <<"plain", i>>
    BY <2>1
  <2>3. QED
    BY <2>1, <2>2
<1>2. Aes!E(b) = {<<"E", b>>}
  BY <1>1, Zenon DEF Aes!E
<1> DEFINE e == <<"E", b>>
<1>3. e[1] = "E" /\ e[2] = b
  OBVIOUS
<1> HIDE DEF e
<1>4. Aes!D({e}) = b
  <2>1. \E x \in {e} : {e} = {x} /\ x[1] = "E"
    BY <1>3
  <2>2. (CHOOSE x \in {e} : TRUE) = e
    OBVIOUS
  <2>3. Aes!D({e}) = (CHOOSE x \in {e} : TRUE)[2]
    BY <2>1, Zenon DEF Aes!D
  <2>4. QED
    BY <1>3, <2>2, <2>3
<1>5. NoPlain({e})
  <2>1. \A j : <<"plain", j>> # e
    <3> TAKE j
    <3>1. <<"plain", j>>[1] = "plain"
      OBVIOUS
    <3>2. QED
      BY <1>3, <3>1
  <2>2. QED
    BY <2>1 DEF NoPlain
<1>6. QED
  BY <1>2, <1>4, <1>5 DEF e

LEMMA XorBack ==
  ASSUME NEW a, NEW b
  PROVE  Aes!Xor(Aes!Xor(a, b), b) = a /\ Aes!Xor(b, Aes!Xor(b, a)) = a
BY DEF Aes!Xor

\* The block blk is what the chaining vector prev and the i-th block of the message make.
Made(prev, blk, i) ==
  /\ mode = "ECB" => blk = {<<"E", Aes!Plain(i)>>}
  /\ mode = "CBC" => NoPlain(prev) /\ blk = {<<"E", Aes!Xor(Aes!Plain(i), prev)>>}
  /\ mode = "CFB" => blk = Aes!Xor(Aes!E(prev), Aes!Plain(i))
AsChain(v) == mode = "CBC" => NoPlain(v)

LEMMA PlainMarked ==
  ASSUME NEW i, NEW v
  PROVE  <<"plain", i>> \in Aes!Plain(i) /\ (NoPlain(v) => <<"plain", i>> \in Aes!Xor(Aes!Plain(i), v))
BY DEF Aes!Plain, Aes!Xor, NoPlain

\* Encrypting a block makes it; the next chaining vector is of the kind.
LEMMA EncryptsOne ==
  ASSUME NEW v, NEW i, AsChain(v), mode \in Aes!Modes
  PROVE  Made(v, BlkOf("E", v, Aes!Plain(i)), i) /\ AsChain(IvOf("E", v, Aes!Plain(i)))
<1>1. CASE mode = "ECB"
  <2>1. BlkOf("E", v, Aes!Plain(i)) = {<<"E", Aes!Plain(i)>>}
    BY <1>1, PlainMarked, Inverses DEF BlkOf
  <2>2. QED
    BY <1>1, <2>1 DEF Made, AsChain
<1>2. CASE mode = "CBC"
  <2>1. NoPlain(v) /\ <<"plain", i>> \in Aes!Xor(Aes!Plain(i), v)
    BY <1>2, PlainMarked, Zenon DEF AsChain
  <2>2. BlkOf("E", v, Aes!Plain(i)) = Aes!E(Aes!Xor(Aes!Plain(i), v))
    BY <1>2 DEF BlkOf
  <2>3. IvOf("E", v, Aes!Plain(i)) = BlkOf("E", v, Aes!Plain(i))
    BY <1>2 DEF IvOf
  <2>4. QED
    BY <1>2, <2>1, <2>2, <2>3, Inverses DEF Made, AsChain
<1>3. CASE mode = "CFB"
  <2>1. BlkOf("E", v, Aes!Plain(i)) = Aes!Xor(Aes!E(v), Aes!Plain(i))
    BY <1>3 DEF BlkOf
  <2>2. QED
    BY <1>3, <2>1 DEF Made, AsChain
<1>4. QED
  BY <1>1, <1>2, <1>3 DEF Aes!Modes

\* Decrypting it with the same chaining vector gives the block of the message, and the block
\* that was read is the next chaining vector of either side.
LEMMA DecryptsOne ==
  ASSUME NEW v, NEW blk, NEW i, Made(v, blk, i), mode \in Aes!Modes
  PROVE  /\ BlkOf("D", v, blk) = Aes!Plain(i)
         /\ IvOf("D", v, blk) = IF mode = "ECB" THEN v ELSE blk
<1>d. "D" # "E"
  OBVIOUS
<1>1. CASE mode = "ECB"
  <2>1. BlkOf("D", v, blk) = Aes!D(blk) /\ blk = {<<"E", Aes!Plain(i)>>}
    BY <1>1, <1>d DEF BlkOf, Made
  <2>2. QED
    BY <1>1, <1>d, <2>1, PlainMarked, Inverses DEF IvOf
<1>2. CASE mode = "CBC"
  <2>1. BlkOf("D", v, blk) = Aes!Xor(Aes!D(blk), v)
    BY <1>2, <1>d DEF BlkOf
  <2>2. NoPlain(v) /\ blk = {<<"E", Aes!Xor(Aes!Plain(i), v)>>}
    BY <1>2, Zenon DEF Made
  <2>3. Aes!D(blk) = Aes!Xor(Aes!Plain(i), v)
    BY <2>2, PlainMarked, Inverses
  <2>4. QED
    BY <1>2, <1>d, <2>1, <2>3, XorBack DEF IvOf
<1>3. CASE mode = "CFB"
  <2>1. BlkOf("D", v, blk) = Aes!Xor(Aes!E(v), blk) /\ blk = Aes!Xor(Aes!E(v), Aes!Plain(i))
    BY <1>3 DEF BlkOf, Made
  <2>2. QED
    BY <1>3, <1>d, <2>1, XorBack DEF IvOf
<1>4. QED
  BY <1>1, <1>2, <1>3 DEF Aes!Modes

\* The n blocks w, from the (k+1)-st of the message on, are what encrypting makes of it between
\* the chaining vectors iv and end.
Links(v, w, n, k) ==
  \A j \in 1..n : Made(v[j - 1], w[j], k + j) /\ v[j] = IvOf("D", v[j - 1], w[j]) /\ AsChain(v[j])
Sealed(iv, w, n, k, end) ==
  AsChain(iv) /\ \E v : v[0] = iv /\ v[n] = end /\ Links(v, w, n, k)
Plains(k, n) == [i \in 1..n |-> Aes!Plain(k + i)]

LEMMA NoneSealed ==
  ASSUME NEW iv, AsChain(iv), NEW w, NEW k
  PROVE  Sealed(iv, w, 0, k, iv)
<1> DEFINE v == [j \in 0..0 |-> iv]
<1>1. v[0] = iv /\ Links(v, w, 0, k)
  BY DEF Links
<1>2. QED
  BY <1>1, Zenon DEF Sealed

LEMMA SealedJoin ==
  ASSUME NEW V, NEW w, NEW n \in Nat, NEW x, NEW m \in Nat, NEW t, Two(V, w, n, x, m, t),
         NEW k \in Nat, NEW a, NEW b, NEW c, Sealed(a, w, n, k, b), Sealed(b, x, m, k + n, c)
  PROVE  Sealed(a, t, n + m, k, c)
<1>1. PICK v : v[0] = a /\ v[n] = b /\ Links(v, w, n, k)
  BY Zenon DEF Sealed
<1>2. PICK u : u[0] = b /\ u[m] = c /\ Links(u, x, m, k + n)
  BY Zenon DEF Sealed
<1> DEFINE z == [j \in 0..n + m |-> IF j <= n THEN v[j] ELSE u[j - n]]
<1>3. z[0] = a /\ z[n + m] = c
  <2>1. CASE m = 0
    BY <1>1, <1>2, <2>1
  <2>2. CASE m # 0
    <3>1. n + m \in 0..n + m /\ ~(n + m <= n) /\ (n + m) - n = m /\ 0 \in 0..n + m /\ 0 <= n
      BY <2>2
    <3>2. QED
      BY <1>1, <1>2, <3>1
  <2>3. QED
    BY <2>1, <2>2
<1>4. ASSUME NEW j \in 1..n + m
      PROVE  Made(z[j - 1], t[j], k + j) /\ z[j] = IvOf("D", z[j - 1], t[j]) /\ AsChain(z[j])
  <2>1. CASE j <= n
    <3>1. z[j] = v[j] /\ z[j - 1] = v[j - 1] /\ j \in 1..n
      BY <2>1
    <3>2. t[j] = w[j]
      BY <3>1, Zenon DEF Two
    <3>3. QED
      BY <1>1, <3>1, <3>2, Zenon DEF Links
  <2>2. CASE ~(j <= n)
    <3>1. PICK i \in 1..m : j = n + i /\ i = j - n /\ k + j = k + n + i
      BY <2>2
    <3>2. z[j] = u[i]
      BY <2>2, <3>1
    <3>3. z[j - 1] = u[i - 1]
      <4>1. CASE i = 1
        <5>1. j - 1 = n /\ i - 1 = 0 /\ n \in 0..n + m /\ n <= n
          BY <3>1, <4>1
        <5>2. QED
          BY <1>1, <1>2, <5>1
      <4>2. CASE i # 1
        <5>1. j - 1 \in 0..n + m /\ ~(j - 1 <= n) /\ (j - 1) - n = i - 1
          BY <3>1, <4>2
        <5>2. QED
          BY <5>1
      <4>3. QED
        BY <4>1, <4>2
    <3>4. t[j] = x[i]
      BY <3>1, Zenon DEF Two
    <3>5. Made(u[i - 1], x[i], k + n + i) /\ u[i] = IvOf("D", u[i - 1], x[i]) /\ AsChain(u[i])
      BY <1>2, Zenon DEF Links
    <3> HIDE DEF z
    <3>6. QED
      BY <3>1, <3>2, <3>3, <3>4, <3>5, Zenon
  <2>3. QED
    BY <2>1, <2>2
<1> HIDE DEF z
<1>5. Links(z, t, n + m, k)
  BY <1>4, Zenon DEF Links
<1>6. AsChain(a)
  BY Zenon DEF Sealed
<1>7. QED
  BY <1>3, <1>5, <1>6, Zenon DEF Sealed

LEMMA SealedCut ==
  ASSUME NEW V, NEW w, NEW n \in Nat, NEW x, NEW m \in Nat, NEW t, Two(V, w, n, x, m, t),
         NEW k \in Nat, NEW a, NEW c, Sealed(a, t, n + m, k, c)
  PROVE  \E b : Sealed(a, w, n, k, b) /\ Sealed(b, x, m, k + n, c)
<1>1. PICK v : v[0] = a /\ v[n + m] = c /\ Links(v, t, n + m, k)
  BY Zenon DEF Sealed
<1>2. AsChain(a)
  BY Zenon DEF Sealed
<1>3. Links(v, w, n, k)
  <2>1. ASSUME NEW j \in 1..n
        PROVE  Made(v[j - 1], w[j], k + j) /\ v[j] = IvOf("D", v[j - 1], w[j]) /\ AsChain(v[j])
    <3>1. j \in 1..n + m
      OBVIOUS
    <3>2. t[j] = w[j]
      BY Zenon DEF Two
    <3>3. QED
      BY <1>1, <3>1, <3>2, Zenon DEF Links
  <2>2. QED
    BY <2>1, Zenon DEF Links
<1>4. AsChain(v[n])
  <2>1. CASE n = 0
    BY <1>1, <1>2, <2>1
  <2>2. CASE n # 0
    <3>1. n \in 1..n
      BY <2>2
    <3>2. QED
      BY <1>3, <3>1, Zenon DEF Links
  <2>3. QED
    BY <2>1, <2>2
<1> DEFINE u == [j \in 0..m |-> v[n + j]]
<1>5. u[0] = v[n] /\ u[m] = c
  <2>1. n + 0 = n /\ 0 \in 0..m /\ m \in 0..m
    OBVIOUS
  <2>2. QED
    BY <1>1, <2>1
<1>6. ASSUME NEW i \in 1..m
      PROVE  Made(u[i - 1], x[i], k + n + i) /\ u[i] = IvOf("D", u[i - 1], x[i]) /\ AsChain(u[i])
  <2>1. PICK j \in 1..n + m : j = n + i /\ j - 1 = n + (i - 1) /\ k + j = k + n + i
    OBVIOUS
  <2>2. u[i] = v[j] /\ u[i - 1] = v[j - 1]
    BY <2>1
  <2>3. t[j] = x[i]
    BY <2>1, Zenon DEF Two
  <2>4. Made(v[j - 1], t[j], k + j) /\ v[j] = IvOf("D", v[j - 1], t[j]) /\ AsChain(v[j])
    BY <1>1, Zenon DEF Links
  <2> HIDE DEF u
  <2>5. QED
    BY <2>1, <2>2, <2>3, <2>4, Zenon
<1> HIDE DEF u
<1>7. Links(u, x, m, k + n)
  BY <1>6, Zenon DEF Links
<1>8. Sealed(a, w, n, k, v[n])
  BY <1>1, <1>2, <1>3, Zenon DEF Sealed
<1>9. Sealed(v[n], x, m, k + n, c)
  BY <1>4, <1>5, <1>7, Zenon DEF Sealed
<1>10. QED
  BY <1>8, <1>9, Zenon

LEMMA SealedEnds ==
  ASSUME NEW w, NEW n \in Nat, NEW k, NEW a, NEW b, Sealed(a, w, n, k, b)
  PROVE  AsChain(b)
<1>1. PICK v : v[0] = a /\ v[n] = b /\ Links(v, w, n, k) /\ AsChain(a)
  BY Zenon DEF Sealed
<1>2. CASE n = 0
  BY <1>1, <1>2
<1>3. CASE n # 0
  <2>1. n \in 1..n
    BY <1>3
  <2>2. QED
    BY <1>1, <2>1, Zenon DEF Links
<1>4. QED
  BY <1>2, <1>3

LEMMA EncryptSeals ==
  ASSUME NEW iv, AsChain(iv), mode \in Aes!Modes, NEW n \in Nat, NEW k \in Nat, NEW v, NEW out, NEW end,
         Chain("E", iv, Plains(k, n), n, v, out, end)
  PROVE  Sealed(iv, out, n, k, end)
<1>1. v[0] = iv /\ v[n] = end
  BY Zenon DEF Chain
<1>2. ASSUME NEW j \in 1..n
      PROVE  out[j] = BlkOf("E", v[j - 1], Aes!Plain(k + j)) /\ v[j] = IvOf("E", v[j - 1], Aes!Plain(k + j))
  <2>1. out[j] = BlkOf("E", v[j - 1], Plains(k, n)[j]) /\ v[j] = IvOf("E", v[j - 1], Plains(k, n)[j])
    BY Zenon DEF Chain
  <2>2. Plains(k, n)[j] = Aes!Plain(k + j)
    BY DEF Plains
  <2>3. QED
    BY <2>1, <2>2
<1>3. ASSUME NEW j \in 1..n, AsChain(v[j - 1])
      PROVE  Made(v[j - 1], out[j], k + j) /\ v[j] = IvOf("D", v[j - 1], out[j]) /\ AsChain(v[j])
  <2>1. Made(v[j - 1], out[j], k + j) /\ AsChain(v[j])
    BY <1>2, <1>3, EncryptsOne, Zenon
  <2>2. v[j] = IF mode = "ECB" THEN v[j - 1] ELSE out[j]
    BY <1>2 DEF IvOf
  <2>3. IvOf("D", v[j - 1], out[j]) = IF mode = "ECB" THEN v[j - 1] ELSE out[j]
    BY DecryptsOne, <2>1, Zenon
  <2>4. QED
    BY <2>1, <2>2, <2>3
<1>4. \A j \in 0..n : AsChain(v[j])
  <2> DEFINE Bad == {j \in 0..n : ~AsChain(v[j])}
  <2>1. SUFFICES ASSUME Bad # {} PROVE FALSE
    OBVIOUS
  <2>2. PICK j \in Bad : \A i \in Bad : j <= i
    BY <2>1, SmallestNumber
  <2>3. j # 0 /\ j \in 0..n /\ ~AsChain(v[j])
    BY <1>1
  <2>4. j \in 1..n /\ j - 1 \in 0..n /\ j - 1 \notin Bad
    BY <2>2, <2>3
  <2>5. AsChain(v[j - 1])
    BY <2>4
  <2>6. QED
    BY <1>3, <2>3, <2>4, <2>5, Zenon
<1>5. ASSUME NEW j \in 1..n
      PROVE  Made(v[j - 1], out[j], k + j) /\ v[j] = IvOf("D", v[j - 1], out[j]) /\ AsChain(v[j])
  <2>1. j - 1 \in 0..n
    OBVIOUS
  <2>2. QED
    BY <1>3, <1>4, <2>1, Zenon
<1>6. Links(v, out, n, k)
  BY <1>5, Zenon DEF Links
<1>7. QED
  BY <1>1, <1>6, Zenon DEF Sealed

Opened(out, fin, k, n, end) == out = Plains(k, n) /\ fin = end

LEMMA DecryptOpens ==
  ASSUME mode \in Aes!Modes, NEW n \in Nat, NEW k \in Nat, NEW iv, NEW w, NEW end, Sealed(iv, w, n, k, end),
         NEW u, NEW out, NEW fin, Chain("D", iv, w, n, u, out, fin)
  PROVE  Opened(out, fin, k, n, end)
<1>1. PICK v : v[0] = iv /\ v[n] = end /\ Links(v, w, n, k)
  BY Zenon DEF Sealed
<1>2. out = [j \in 1..n |-> out[j]] /\ u[0] = iv /\ u[n] = fin
  BY Zenon DEF Chain
<1>3. ASSUME NEW j \in 1..n, u[j - 1] = v[j - 1]
      PROVE  out[j] = Aes!Plain(k + j) /\ u[j] = v[j]
  <2>1. out[j] = BlkOf("D", u[j - 1], w[j]) /\ u[j] = IvOf("D", u[j - 1], w[j])
    BY Zenon DEF Chain
  <2>2. Made(v[j - 1], w[j], k + j) /\ v[j] = IvOf("D", v[j - 1], w[j])
    BY <1>1, Zenon DEF Links
  <2>3. BlkOf("D", v[j - 1], w[j]) = Aes!Plain(k + j)
    BY <2>2, DecryptsOne, ZenonT(60)
  <2>4. QED
    BY <1>3, <2>1, <2>2, <2>3, Zenon
<1>4. \A j \in 0..n : u[j] = v[j]
  <2> DEFINE Bad == {j \in 0..n : u[j] # v[j]}
  <2>1. SUFFICES ASSUME Bad # {} PROVE FALSE
    OBVIOUS
  <2>2. PICK j \in Bad : \A i \in Bad : j <= i
    BY <2>1, SmallestNumber
  <2>3. j # 0 /\ j \in 0..n /\ u[j] # v[j]
    BY <1>1, <1>2
  <2>4. j \in 1..n /\ j - 1 \in 0..n /\ j - 1 \notin Bad
    BY <2>2, <2>3
  <2>5. u[j - 1] = v[j - 1]
    BY <2>4
  <2>6. QED
    BY <1>3, <2>3, <2>4, <2>5, Zenon
<1>5. \A j \in 1..n : out[j] = Aes!Plain(k + j)
  <2> TAKE j \in 1..n
  <2>1. j - 1 \in 0..n
    OBVIOUS
  <2>2. QED
    BY <1>3, <1>4, <2>1, Zenon
<1>6. fin = end
  BY <1>1, <1>2, <1>4
<1>7. QED
  BY <1>2, <1>5, <1>6 DEF Plains, Opened

LEMMA PlainsAre ==
  ASSUME NEW k \in Nat, NEW n \in Nat
  PROVE  IsRow(Plains(k, n)) /\ Len(Plains(k, n)) = n
<1> DEFINE f == Plains(k, n)
<1>1. f = [i \in 1..n |-> f[i]]
  BY DEF Plains
<1> HIDE DEF f
<1>2. IsRow(f) /\ Len(f) = n
  BY <1>1, ListIsRow, Zenon
<1>3. QED
  BY <1>2 DEF f

LEMMA PlainsJoin ==
  ASSUME NEW g \in Nat, NEW n \in Nat
  PROVE  Plains(0, g) \o Plains(g, n) = Plains(0, g + n)
<1>1. PICK a, b, c : a = Plains(0, g) /\ b = Plains(g, n) /\ c = Plains(0, g + n)
  OBVIOUS
<1>2. IsRow(a) /\ Len(a) = g /\ IsRow(b) /\ Len(b) = n /\ IsRow(c) /\ Len(c) = g + n
  BY <1>1, PlainsAre
<1>3. PICK V : a \in Seq(V) /\ b \in Seq(V)
  BY <1>2, CommonRow, Zenon
<1>4. Two(V, a, g, b, n, a \o b)
  BY <1>2, <1>3, InTwo, Zenon
<1>5. /\ a = [i \in 1..g |-> Aes!Plain(i)] /\ b = [i \in 1..n |-> Aes!Plain(g + i)]
      /\ c = [i \in 1..g + n |-> Aes!Plain(i)]
  BY <1>1 DEF Plains
<1>6. ASSUME NEW i \in 1..g + n PROVE (a \o b)[i] = c[i]
  <2>1. CASE i <= g
    <3>1. i \in 1..g
      BY <2>1
    <3>2. (a \o b)[i] = a[i]
      BY <1>4, <3>1, Zenon DEF Two
    <3>3. QED
      BY <1>5, <3>1, <3>2
  <2>2. CASE ~(i <= g)
    <3>1. PICK j \in 1..n : i = g + j
      BY <2>2
    <3>2. (a \o b)[i] = b[j]
      BY <1>4, <3>1, Zenon DEF Two
    <3>3. QED
      BY <1>5, <3>1, <3>2
  <2>3. QED
    BY <2>1, <2>2
<1>7. PICK U : c \in Seq(U)
  BY <1>2, Zenon DEF IsRow
<1>8. a \o b \in Seq(V) /\ Len(a \o b) = g + n
  BY <1>4, Zenon DEF Two
<1>9. a \o b = c
  <2>1. PICK d, W : d = a \o b /\ W = V \cup U
    OBVIOUS
  <2>2. V \subseteq W /\ U \subseteq W
    BY <2>1
  <2>3. d \in Seq(W) /\ c \in Seq(W)
    BY <1>7, <1>8, <2>1, <2>2, Wider, Zenon
  <2>4. Len(d) = Len(c) /\ \A i \in 1..Len(d) : d[i] = c[i]
    BY <1>2, <1>6, <1>8, <2>1
  <2>5. QED
    BY <2>1, <2>3, <2>4, SameRows, Zenon
<1>10. QED
  BY <1>1, <1>9

\* What was decrypted is the front of the message, and what was not yet is sealed between the
\* chaining vectors of the two contexts.
CipherInv ==
  /\ mode \in Aes!Modes /\ size \in Nat /\ blklen \in Nat
  /\ IsRow(wire) /\ IsRow(got) /\ sent = Len(got) + Len(wire)
  /\ got = Plains(0, Len(got))
  /\ Sealed(decIv, wire, Len(wire), Len(got), encIv)

LEMMA RowLength ==
  ASSUME NEW s, IsRow(s)
  PROVE  Len(s) \in Nat
<1>1. PICK V : s \in Seq(V)
  BY Zenon DEF IsRow
<1>2. QED
  BY <1>1

LEMMA CipherStarts == Aes!Init => CipherInv
<1> SUFFICES ASSUME Aes!Init PROVE CipherInv
  OBVIOUS
<1>1. mode \in Aes!Modes /\ size \in Nat /\ blklen \in Nat
  BY AesAssumption DEF Aes!Init
<1>2. encIv = Aes!Vector /\ decIv = Aes!Vector /\ sent = 0 /\ wire = <<>> /\ got = <<>>
  BY Zenon DEF Aes!Init
<1>3. AsChain(Aes!Vector)
  <2>1. ASSUME NEW i PROVE <<"plain", i>> # <<"vector", 0>>
    <3>1. <<"plain", i>>[1] = "plain" /\ <<"vector", 0>>[1] = "vector"
      OBVIOUS
    <3>2. QED
      BY <3>1
  <2>2. QED
    BY <2>1 DEF AsChain, NoPlain, Aes!Vector
<1>4. Sealed(decIv, wire, 0, 0, encIv)
  BY <1>2, <1>3, NoneSealed, Zenon
<1>5. Len(<<>>) = 0 /\ 0 = 0 + 0
  OBVIOUS
<1>6. got = Plains(0, 0)
  <2>1. Len(Plains(0, 0)) = 0 /\ IsRow(Plains(0, 0))
    BY PlainsAre
  <2>2. QED
    BY <1>2, <2>1, IsNone, Zenon DEF IsRow
<1>7. QED
  BY <1>1, <1>2, <1>4, <1>5, <1>6, NoneIsRow, Zenon DEF CipherInv

LEMMA SealedStays ==
  ASSUME mode' = mode, NEW w, NEW n, NEW k, NEW a, NEW b, Sealed(a, w, n, k, b)
  PROVE  Sealed(a, w, n, k, b)'
BY ZenonT(60) DEF Sealed, Links, Made, AsChain, IvOf, BlkOf

LEMMA EncryptKeeps ==
  ASSUME CipherInv, NEW n \in Nat, NEW inPlace, Aes!Encrypt(n, inPlace)
  PROVE  CipherInv'
<1> DEFINE r == Aes!Loop(Aes!EncryptBlock, encIv, [i \in 1..n |-> Aes!Plain(sent + i)], inPlace)
<1>1. /\ encIv' = r.iv /\ wire' = wire \o r.blocks /\ sent' = sent + n
      /\ mode' = mode /\ size' = size /\ blklen' = blklen /\ decIv' = decIv /\ got' = got
  BY Zenon DEF Aes!Encrypt
<1>2. [i \in 1..n |-> Aes!Plain(sent + i)] = Plains(sent, n)
  BY Zenon DEF Plains
<1> HIDE DEF r
<1>3. PICK g \in Nat, w \in Nat : g = Len(got) /\ w = Len(wire) /\ sent = g + w
  BY RowLength, Zenon DEF CipherInv
<1>4. mode \in Aes!Modes /\ Sealed(decIv, wire, w, g, encIv)
  BY <1>3, Zenon DEF CipherInv
<1>5. sent \in Nat
  BY <1>3
<1>6. PICK p : p = Plains(sent, n) /\ IsRow(p) /\ Len(p) = n
  BY <1>5, PlainsAre, Zenon
<1>7. Ran("E", encIv, p, n, inPlace, r)
  BY <1>2, <1>6, LoopTurns, Zenon DEF r
<1>8. PICK v : Chain("E", encIv, p, n, v, r.blocks, r.iv)
  BY <1>6, <1>7, LoopChains, Zenon
<1>9. Sealed(encIv, r.blocks, n, g + w, r.iv)
  <2>1. AsChain(encIv)
    BY <1>4, SealedEnds
  <2>2. QED
    BY <1>3, <1>4, <1>5, <1>6, <1>8, <2>1, EncryptSeals, Zenon
<1>10. IsRow(r.blocks) /\ Len(r.blocks) = n
  <2>1. r.blocks = [j \in 1..n |-> r.blocks[j]]
    BY <1>8, Zenon DEF Chain
  <2>2. QED
    BY <2>1, ListIsRow, Zenon
<1>11. PICK V : wire \in Seq(V) /\ r.blocks \in Seq(V)
  <2>1. IsRow(wire)
    BY Zenon DEF CipherInv
  <2>2. QED
    BY <1>10, <2>1, CommonRow, Zenon
<1>12. Two(V, wire, w, r.blocks, n, wire \o r.blocks)
  BY <1>3, <1>10, <1>11, InTwo, Zenon
<1>13. Sealed(decIv, wire \o r.blocks, w + n, g, r.iv)
  BY <1>4, <1>9, <1>12, SealedJoin, Zenon
<1>14. IsRow(wire') /\ Len(wire') = w + n
  BY <1>1, <1>12, Zenon DEF Two, IsRow
<1>15. sent' = g + (w + n)
  BY <1>1, <1>3
<1>16. PICK a, t, e : a = decIv' /\ t = wire' /\ e = encIv' /\ Sealed(a, t, w + n, g, e)
  BY <1>1, <1>13, Zenon
<1>17. Sealed(a, t, w + n, g, e)'
  BY <1>1, <1>16, SealedStays, Zenon
<1>18. Sealed(decIv, wire, Len(wire), Len(got), encIv)'
  BY <1>1, <1>3, <1>14, <1>16, <1>17
<1>19. QED
  BY <1>1, <1>3, <1>14, <1>15, <1>18, Zenon DEF CipherInv, Aes!Modes

LEMMA DecryptKeeps ==
  ASSUME CipherInv, NEW n \in Nat, NEW inPlace, Aes!Decrypt(n, inPlace)
  PROVE  CipherInv'
<1> DEFINE r == Aes!Loop(Aes!DecryptBlock, decIv, SubSeq(wire, 1, n), inPlace)
<1>1. /\ n <= Len(wire) /\ decIv' = r.iv /\ wire' = SubSeq(wire, n + 1, Len(wire)) /\ got' = got \o r.blocks
      /\ mode' = mode /\ size' = size /\ blklen' = blklen /\ encIv' = encIv /\ sent' = sent
  BY Zenon DEF Aes!Decrypt
<1> HIDE DEF r
<1>2. PICK g \in Nat, m \in Nat : g = Len(got) /\ n + m = Len(wire) /\ sent = g + (n + m)
  <2>1. PICK g \in Nat, w \in Nat : g = Len(got) /\ w = Len(wire) /\ sent = g + w
    BY RowLength, Zenon DEF CipherInv
  <2>2. n <= w
    BY <1>1, <2>1, Zenon
  <2>3. w - n \in Nat /\ w = n + (w - n)
    BY <2>2
  <2>4. QED
    BY <2>1, <2>3, Zenon
<1>3. /\ mode \in Aes!Modes /\ IsRow(wire) /\ got = Plains(0, g)
      /\ Sealed(decIv, wire, n + m, g, encIv)
  BY <1>2, Zenon DEF CipherInv
<1>4. PICK V : wire \in Seq(V)
  BY <1>3, Zenon DEF IsRow
<1>5. PICK x, y : Halves(V, wire, n, x, y)
  BY <1>1, <1>4, Halved, Zenon
<1>6. /\ x \in Seq(V) /\ y \in Seq(V) /\ x = SubSeq(wire, 1, n) /\ y = SubSeq(wire, n + 1, Len(wire))
      /\ Len(x) = n /\ wire = x \o y
  BY <1>5, Zenon DEF Halves, Hasher!From
<1>7. Two(V, x, n, y, m, wire) /\ Len(y) = m
  <2>1. PICK i, j \in Nat : i = Len(x) /\ j = Len(y) /\ Two(V, x, i, y, j, wire)
    <3>1. x \in Seq(V) /\ y \in Seq(V)
      BY <1>6
    <3>2. \E i, j \in Nat : i = Len(x) /\ j = Len(y) /\ Two(V, x, i, y, j, x \o y)
      BY <3>1, InTwo, Zenon
    <3>3. QED
      BY <1>6, <3>2, Zenon
  <2>2. Len(wire) = i + j
    BY <2>1, Zenon DEF Two
  <2>3. i = n /\ n + m = i + j
    BY <1>2, <1>6, <2>1, <2>2, Zenon
  <2>c. j = m
    BY <2>3
  <2>4. QED
    BY <2>1, <2>3, <2>c
<1>8. PICK b : Sealed(decIv, x, n, g, b) /\ Sealed(b, y, m, g + n, encIv)
  BY <1>3, <1>7, SealedCut, Zenon
<1>9. Ran("D", decIv, x, n, inPlace, r)
  BY <1>6, LoopTurns, Zenon DEF r
<1>10. PICK u : Chain("D", decIv, x, n, u, r.blocks, r.iv)
  BY <1>6, <1>9, LoopChains, Zenon
<1>11. r.blocks = Plains(g, n) /\ r.iv = b
  <2>1. Opened(r.blocks, r.iv, g, n, b)
    BY <1>3, <1>8, <1>10, DecryptOpens, Zenon
  <2>2. QED
    BY <2>1, Zenon DEF Opened
<1>12. got' = Plains(0, g + n)
  BY <1>1, <1>3, <1>11, PlainsJoin, Zenon
<1>13. IsRow(got') /\ Len(got') = g + n
  <2>1. 0 \in Nat /\ g + n \in Nat
    OBVIOUS
  <2>2. QED
    BY <1>12, <2>1, PlainsAre, Zenon
<1>14. IsRow(wire') /\ Len(wire') = m
  BY <1>1, <1>6, <1>7, Zenon DEF IsRow
<1>15. sent' = (g + n) + m
  BY <1>1, <1>2
<1>16. PICK a, t, e : a = decIv' /\ t = wire' /\ e = encIv' /\ Sealed(a, t, m, g + n, e)
  BY <1>1, <1>6, <1>8, <1>11, Zenon
<1>17. Sealed(a, t, m, g + n, e)'
  BY <1>1, <1>16, SealedStays, Zenon
<1>18. Sealed(decIv, wire, Len(wire), Len(got), encIv)'
  BY <1>13, <1>14, <1>16, <1>17
<1>19. got' = Plains(0, Len(got'))
  BY <1>12, <1>13
<1>20. QED
  BY <1>1, <1>3, <1>13, <1>14, <1>15, <1>18, <1>19, Zenon DEF CipherInv, Aes!Modes, Plains

LEMMA CipherKeeps == CipherInv /\ [Aes!Next]_Aes!vars => CipherInv'
<1> SUFFICES ASSUME CipherInv, [Aes!Next]_Aes!vars PROVE CipherInv'
  OBVIOUS
<1>1. CASE UNCHANGED Aes!vars
  <2>1. /\ mode' = mode /\ size' = size /\ blklen' = blklen /\ encIv' = encIv /\ decIv' = decIv
        /\ sent' = sent /\ wire' = wire /\ got' = got
    BY <1>1, Zenon DEF Aes!vars
  <2>2. PICK a, t, e, n, g : /\ a = decIv' /\ t = wire' /\ e = encIv' /\ n = Len(wire') /\ g = Len(got')
                             /\ Sealed(a, t, n, g, e)
    BY <2>1, Zenon DEF CipherInv
  <2>3. Sealed(a, t, n, g, e)'
    BY <2>1, <2>2, SealedStays, Zenon
  <2>4. Sealed(decIv, wire, Len(wire), Len(got), encIv)'
    BY <2>2, <2>3
  <2>5. QED
    BY <2>1, <2>4, Zenon DEF CipherInv, Aes!Modes, Plains
<1>2. CASE Aes!Next
  <2>1. PICK n \in 1..MaxText \div CipherBlock + 1, inPlace \in BOOLEAN :
          Aes!Encrypt(n, inPlace) \/ Aes!Decrypt(n, inPlace)
    BY <1>2, Zenon DEF Aes!Next
  <2>2. n \in Nat
    <3>1. MaxText \div CipherBlock \in Int
      BY AesAssumption
    <3>2. QED
      BY <3>1
  <2>3. QED
    BY <2>1, <2>2, EncryptKeeps, DecryptKeeps, Zenon
<1>3. QED
  BY <1>1, <1>2

\* A multiple is divided without a rest, and only a multiple is.
LEMMA Multiples ==
  ASSUME NEW b \in Nat \ {0}, NEW s \in Nat
  PROVE  /\ \A a \in Int : s = a * b => s % b = 0
         /\ s % b = 0 => \E a \in Int : s = a * b
<1>1. PICK a \in Int, r \in 0..b - 1 : r = s % b /\ s = a * b + r
  <2>1. s \in Int
    OBVIOUS
  <2>2. QED
    BY <2>1, Divided, Zenon
<1>2. ASSUME NEW c \in Int, s = c * b PROVE s % b = 0
  <2>1. 0 \in 0..b - 1 /\ s = c * b + 0
    BY <1>2
  <2>2. QED
    BY <2>1, OnlyDivision
<1>3. s % b = 0 => s = a * b
  BY <1>1
<1>4. QED
  BY <1>2, <1>3

\* Padding, Blocks and Unpadded for any block size b, message of s bytes and length k passed for it.
PadOf(b, k) == b - (k % b)
BlocksOf(b, s, k) == (s + PadOf(b, k)) \div b
UnpadOf(b, s, k, x) == BlocksOf(b, s, k) * b - (IF BlocksOf(b, s, k) * b > s THEN PadOf(b, k) ELSE x)

\* The padded length is that of whole blocks if and only if the length passed for it was that of
\* the message, up to whole blocks; if it is not, only a last byte of 0 leaves the message.
LEMMA PaddedWhole ==
  ASSUME NEW b \in Nat \ {0}, NEW s \in Nat, NEW k \in Nat, NEW x \in Nat
  PROVE  UnpadOf(b, s, k, x) = s <=> (s - k) % b = 0 \/ (s % b = 0 /\ x = 0)
<1>1. PICK c \in Int, d \in 0..b - 1 : d = k % b /\ k = c * b + d
  <2>1. k \in Int
    OBVIOUS
  <2>2. QED
    BY <2>1, Divided, Zenon
<1>2. PICK p \in Int, t \in Nat : p = PadOf(b, k) /\ p = b - d /\ t = s + (b - d)
  BY <1>1 DEF PadOf
<1>3. PICK q \in Int, r \in 0..b - 1 : q = BlocksOf(b, s, k) /\ t = q * b + r
  <2>1. t \in Int /\ t = s + PadOf(b, k)
    BY <1>2
  <2>2. QED
    BY <2>1, Divided, Zenon DEF BlocksOf
<1>4. PICK e \in Int : e = q * b
  OBVIOUS
<1>5. s + (b - d) = e + r /\ s + b = e + (r + d)
  <2>1. t = e + r
    BY <1>3, <1>4, Zenon
  <2>2. QED
    BY <1>2, <2>1
<1>6. UnpadOf(b, s, k, x) = s <=> r = 0 \/ (e = s /\ x = 0)
  <2>1. UnpadOf(b, s, k, x) = e - (IF e > s THEN b - d ELSE x)
    BY <1>2, <1>3, <1>4, Zenon DEF UnpadOf
  <2>2. QED
    BY <1>5, <2>1
<1>7. (s - k) % b = r
  <2>1. PICK f \in Int, h \in Int : f = c * b /\ h = q - (1 + c) /\ h * b = e - b - f
    BY <1>4
  <2>2. s - k \in Int /\ s - k = h * b + r
    BY <1>1, <1>5, <2>1
  <2>3. QED
    BY <2>2, OnlyDivision
\* Whole blocks of message end where the decrypted blocks end, or one block before.
<1>8. (e = s => s % b = 0) /\ (s % b = 0 => e = s \/ r = 0)
  <2>1. ASSUME e = s PROVE s % b = 0
    <3>1. q \in Int /\ s = q * b
      BY <1>4, <2>1
    <3>2. QED
      BY <3>1, Multiples, Zenon
  <2>2. ASSUME s % b = 0 PROVE e = s \/ r = 0
    <3>1. PICK a \in Int : s = a * b
      BY <2>2, Multiples, Zenon
    <3>2. PICK h \in Int : h = a - q /\ h * b = s - e
      <4>1. (a - q) * b = a * b - q * b /\ a - q \in Int
        OBVIOUS
      <4>2. QED
        BY <1>4, <3>1, <4>1
    <3>3. s - e = (r + d) - b
      BY <1>5
    <3>4. CASE r + d < b
      <4>1. r + d \in 0..b - 1 /\ s - e \in Int /\ s - e = (-1) * b + (r + d)
        BY <3>3, <3>4
      <4>2. 0 \in 0..b - 1 /\ s - e = h * b + 0
        BY <3>2
      <4>3. (s - e) % b = r + d /\ (s - e) % b = 0
        BY <4>1, <4>2, OnlyDivision
      <4>4. QED
        BY <4>3
    <3>5. CASE r + d >= b
      <4>1. (r + d) - b \in 0..b - 1 /\ s - e \in Int /\ s - e = 0 * b + ((r + d) - b)
        BY <3>3, <3>5
      <4>2. 0 \in 0..b - 1 /\ s - e = h * b + 0
        BY <3>2
      <4>3. (s - e) % b = (r + d) - b /\ (s - e) % b = 0
        BY <4>1, <4>2, OnlyDivision
      <4>4. QED
        BY <3>3, <4>3
    <3>6. QED
      BY <3>4, <3>5
  <2>3. QED
    BY <2>1, <2>2
<1>9. QED
  BY <1>6, <1>7, <1>8, Zenon

LEMMA CipherRight == CipherInv => Aes!CipherInverts
<1> SUFFICES ASSUME CipherInv PROVE Aes!CipherInverts
  OBVIOUS
<1>1. got = [i \in 1..Len(got) |-> Aes!Plain(i)]
  <2>1. PICK g \in Nat : g = Len(got) /\ got = Plains(0, g)
    BY RowLength, Zenon DEF CipherInv
  <2>2. Plains(0, g) = [i \in 1..g |-> Aes!Plain(i)]
    BY DEF Plains
  <2>3. QED
    BY <2>1, <2>2
<1>2. ASSUME Len(got) = Aes!Blocks, NEW byte \in 0..255
      PROVE  Aes!Unpadded(byte) = size <=>
               (size - blklen) % CipherBlock = 0 \/ (size % CipherBlock = 0 /\ byte = 0)
  <2>1. CipherBlock \in Nat \ {0} /\ size \in Nat /\ blklen \in Nat /\ Len(got) \in Nat
    BY AesAssumption, RowLength, Zenon DEF CipherInv
  <2>2. Aes!Padding = PadOf(CipherBlock, blklen) /\ Len(got) = BlocksOf(CipherBlock, size, blklen)
    BY <1>2, Zenon DEF Aes!Blocks, Aes!Padded, Aes!Padding, BlocksOf, PadOf
  <2>3. Aes!Unpadded(byte) = UnpadOf(CipherBlock, size, blklen, byte)
    BY <2>2, Zenon DEF Aes!Unpadded, UnpadOf
  <2>4. byte \in Nat
    OBVIOUS
  <2>5. UnpadOf(CipherBlock, size, blklen, byte) = size <=>
          (size - blklen) % CipherBlock = 0 \/ (size % CipherBlock = 0 /\ byte = 0)
    BY <2>1, <2>4, PaddedWhole, ZenonT(60)
  <2>6. QED
    BY <2>3, <2>5, Zenon
<1>3. QED
  BY <1>1, <1>2 DEF Aes!CipherInverts

-----------------------------------------------------------------------------
\* MergeSort: the turns of a merge.

LeftFirst(left, right, m) == m.l <= Len(left) /\ (m.r > Len(right) \/ Sort!comp(left[m.l], right[m.r]) <= 0)
MergeTurn(left, right, m) ==
  IF LeftFirst(left, right, m) THEN Sort!TakeLeft(m, left) ELSE Sort!TakeRight(m, right)
Merging(left, right, n, t) ==
  t = [i \in 0..n |-> IF i = 0 THEN Sort!Start ELSE MergeTurn(left, right, t[i - 1])]
Runs(left, right) == left # <<>> /\ Sort!comp(left[Len(left)], right[1]) <= 0

LEMMA MergeIs ==
  ASSUME NEW left, NEW right
  PROVE  Sort!merge(left, right) =
           IF Runs(left, right) THEN left \o right
           ELSE (CHOOSE t : Merging(left, right, Len(left) + Len(right), t))[Len(left) + Len(right)].res
BY Zenon DEF Sort!merge, Merging, MergeTurn, LeftFirst, Runs

LEMMA MergingExists ==
  ASSUME NEW left, NEW right, NEW n \in Nat
  PROVE  \E t : Merging(left, right, n, t)
<1> DEFINE Bad == {j \in 0..n : ~\E t : Merging(left, right, j, t)}
<1>1. SUFFICES ASSUME Bad # {} PROVE FALSE
  OBVIOUS
<1>2. PICK j \in Bad : \A i \in Bad : j <= i
  BY <1>1, SmallestNumber
<1>3. j \in 0..n /\ ~\E t : Merging(left, right, j, t)
  OBVIOUS
<1>4. \A i \in 0..n : i < j => \E t : Merging(left, right, i, t)
  BY <1>2
<1> HIDE DEF Bad
<1>5. CASE j = 0
  <2> DEFINE t == [i \in 0..0 |-> Sort!Start]
  <2>1. t = [i \in 0..0 |-> IF i = 0 THEN Sort!Start ELSE MergeTurn(left, right, t[i - 1])]
    OBVIOUS
  <2>2. QED
    BY <1>3, <1>5, <2>1, Zenon DEF Merging
<1>6. CASE j # 0
  <2>1. PICK i \in 0..n : j = i + 1 /\ i < j
    BY <1>3, <1>6
  <2>2. PICK t : Merging(left, right, i, t)
    BY <1>4, <2>1
  <2> DEFINE u == [x \in 0..j |-> IF x = j THEN MergeTurn(left, right, t[i]) ELSE t[x]]
  <2>3. u = [x \in 0..j |-> IF x = 0 THEN Sort!Start ELSE MergeTurn(left, right, u[x - 1])]
    <3>1. \A x \in 0..j : u[x] = IF x = 0 THEN Sort!Start ELSE MergeTurn(left, right, u[x - 1])
      <4> TAKE x \in 0..j
      <4>1. CASE x = j
        <5>1. u[x - 1] = t[i] /\ x # 0
          BY <2>1, <4>1
        <5>2. QED
          BY <4>1, <5>1
      <4>2. CASE x # j
        <5>1. x \in 0..i /\ u[x] = t[x]
          BY <2>1, <4>2
        <5>2. x # 0 => u[x - 1] = t[x - 1]
          BY <2>1, <4>2
        <5>3. t[x] = IF x = 0 THEN Sort!Start ELSE MergeTurn(left, right, t[x - 1])
          BY <2>2, <5>1 DEF Merging
        <5>4. QED
          BY <5>1, <5>2, <5>3
      <4>3. QED
        BY <4>1, <4>2
    <3>2. u = [x \in 0..j |-> u[x]]
      OBVIOUS
    <3> HIDE DEF u
    <3>3. QED
      BY <3>1, <3>2
  <2>4. QED
    BY <1>3, <2>3, Zenon DEF Merging
<1>7. QED
  BY <1>5, <1>6

\* A merge gives its halves one after the other, or what its turns end with.
LEMMA MergeGives ==
  ASSUME NEW left, NEW right, NEW n \in Nat, n = Len(left) + Len(right)
  PROVE  \/ Runs(left, right) /\ Sort!merge(left, right) = left \o right
         \/ \E t : Merging(left, right, n, t) /\ Sort!merge(left, right) = t[n].res
<1>1. Merging(left, right, n, CHOOSE t : Merging(left, right, n, t))
  BY MergingExists, Zenon
<1>2. QED
  BY <1>1, MergeIs, Zenon

\* Elements are keys with their places; the sorts are in the order of the keys and, for equal ones,
\* of the places.
Element == Int \X Int
Lt(a, b) == a[1] < b[1] \/ (a[1] = b[1] /\ a[2] < b[2])
Ordered(s, n) == \A i, j \in 1..n : i < j => Lt(s[i], s[j])
Members(s, n) == {s[i] : i \in 1..n}
Sequel(s, n) == s \in Seq(Element) /\ Len(s) = n /\ Ordered(s, n)

\* Two halves, the places of the left one before those of the right one.
Parts(left, p, right, q) ==
  /\ p \in Nat /\ q \in Nat /\ Sequel(left, p) /\ Sequel(right, q)
  /\ \A i \in 1..p, j \in 1..q : left[i][2] < right[j][2]

\* What is merged of them after some turns.
Merged(left, p, right, q, m, k) ==
  /\ m.l \in 1..p + 1 /\ m.r \in 1..q + 1 /\ (m.l - 1) + (m.r - 1) = k
  /\ Sequel(m.res, k)
  /\ Members(m.res, k) = Members(left, m.l - 1) \cup Members(right, m.r - 1)
  /\ \A e \in Members(m.res, k) :
       /\ \A x \in m.l..p : Lt(e, left[x])
       /\ \A y \in m.r..q : Lt(e, right[y])

LEMMA LtTypes ==
  ASSUME NEW a \in Element, NEW b \in Element
  PROVE  a[1] \in Int /\ a[2] \in Int /\ (Sort!comp(a, b) <= 0 <=> a[1] <= b[1])
BY DEF Element, Sort!comp

Appended(V, s, k, e, u) ==
  /\ u = Append(s, e) /\ u \in Seq(V) /\ Len(u) = k + 1 /\ u[k + 1] = e
  /\ \A i \in 1..k : u[i] = s[i]

LEMMA AppendIs ==
  ASSUME NEW V, NEW s \in Seq(V), NEW e \in V, NEW k, k = Len(s)
  PROVE  Appended(V, s, k, e, Append(s, e))
BY DEF Appended

\* The element e comes behind those of a row; u is the row with it.
Behind(s, k, e) == \A x \in Members(s, k) : Lt(x, e)
With(s, k, e, u) == u = Append(s, e) /\ Sequel(u, k + 1) /\ Members(u, k + 1) = Members(s, k) \cup {e}

\* A row in order with a later element behind it.
LEMMA SequelAppend ==
  ASSUME NEW k \in Nat, NEW s, Sequel(s, k), NEW e \in Element, Behind(s, k, e)
  PROVE  With(s, k, e, Append(s, e))
<1>1. s \in Seq(Element) /\ Len(s) = k /\ Ordered(s, k)
  BY Zenon DEF Sequel
<1>2. PICK u : u = Append(s, e) /\ u \in Seq(Element) /\ Len(u) = k + 1 /\ u[k + 1] = e /\ \A i \in 1..k : u[i] = s[i]
  <2>1. Appended(Element, s, k, e, Append(s, e))
    BY <1>1, AppendIs, Zenon
  <2>2. QED
    BY <2>1, Zenon DEF Appended
<1>3. Ordered(u, k + 1)
  <2>1. ASSUME NEW i \in 1..k + 1, NEW j \in 1..k + 1, i < j PROVE Lt(u[i], u[j])
    <3>1. i \in 1..k /\ u[i] = s[i]
      BY <1>2, <2>1
    <3>2. CASE j = k + 1
      BY <1>2, <3>1, <3>2 DEF Members, Behind
    <3>3. CASE j # k + 1
      <4>1. j \in 1..k
        BY <3>3
      <4>2. u[j] = s[j] /\ Lt(s[i], s[j])
        BY <1>1, <1>2, <2>1, <3>1, <4>1 DEF Ordered
      <4>3. QED
        BY <3>1, <4>2
    <3>4. QED
      BY <3>2, <3>3
  <2>2. QED
    BY <2>1 DEF Ordered
<1>4. Members(u, k + 1) = Members(s, k) \cup {e}
  <2>1. \A i \in 1..k + 1 : i \in 1..k \/ i = k + 1
    OBVIOUS
  <2>2. \A i \in 1..k : i \in 1..k + 1
    OBVIOUS
  <2>3. k + 1 \in 1..k + 1
    OBVIOUS
  <2>4. QED
    BY <1>2, <2>1, <2>2, <2>3 DEF Members
<1>5. QED
  BY <1>2, <1>3, <1>4, Zenon DEF Sequel, With

\* Taking the next one of a row.
LEMMA MembersTake ==
  ASSUME NEW l \in Nat \ {0}, NEW s
  PROVE  Members(s, l) = Members(s, l - 1) \cup {s[l]}
<1>1. \A i \in 1..l : i \in 1..l - 1 \/ i = l
  OBVIOUS
<1>2. (\A i \in 1..l - 1 : i \in 1..l) /\ l \in 1..l
  OBVIOUS
<1>3. QED
  BY <1>1, <1>2 DEF Members

LEMMA TakesLeft ==
  ASSUME NEW p, NEW q, NEW left, NEW right, Parts(left, p, right, q), NEW k \in 0..p + q - 1,
         NEW m, Merged(left, p, right, q, m, k), LeftFirst(left, right, m)
  PROVE  Merged(left, p, right, q, Sort!TakeLeft(m, left), k + 1)
<1>1. /\ p \in Nat /\ q \in Nat /\ left \in Seq(Element) /\ Len(left) = p /\ Ordered(left, p)
      /\ right \in Seq(Element) /\ Len(right) = q /\ Ordered(right, q)
      /\ \A i \in 1..p, j \in 1..q : left[i][2] < right[j][2]
  BY Zenon DEF Parts, Sequel
<1>2. PICK l, r, res : l = m.l /\ r = m.r /\ res = m.res
  OBVIOUS
<1>3. /\ l \in 1..p + 1 /\ r \in 1..q + 1 /\ (l - 1) + (r - 1) = k /\ Sequel(res, k)
      /\ Members(res, k) = Members(left, l - 1) \cup Members(right, r - 1)
      /\ \A e \in Members(res, k) :
           (\A x \in l..p : Lt(e, left[x])) /\ (\A y \in r..q : Lt(e, right[y]))
  BY <1>2, Zenon DEF Merged
<1>4. l <= p /\ (r > q \/ Sort!comp(left[l], right[r]) <= 0)
  BY <1>1, <1>2 DEF LeftFirst
<1>5. l \in 1..p /\ l \in l..p /\ k \in Nat
  BY <1>1, <1>3, <1>4
<1>6. PICK e \in Element : e = left[l]
  BY <1>1, <1>5
<1>7. Behind(res, k, e)
  BY <1>3, <1>5, <1>6 DEF Behind
<1>8. PICK u : u = Append(res, e) /\ Sequel(u, k + 1) /\ Members(u, k + 1) = Members(res, k) \cup {e}
  <2>1. With(res, k, e, Append(res, e))
    BY <1>3, <1>5, <1>7, SequelAppend, Zenon
  <2>2. QED
    BY <2>1, Zenon DEF With
<1>9. Sort!TakeLeft(m, left) = [l |-> l + 1, r |-> r, res |-> u]
  BY <1>2, <1>6, <1>8, Zenon DEF Sort!TakeLeft
<1>10. ASSUME NEW x \in l + 1..p PROVE Lt(e, left[x])
  <2>1. x \in 1..p /\ l < x
    BY <1>5
  <2>2. QED
    BY <1>1, <1>5, <1>6, <2>1 DEF Ordered
<1>11. ASSUME NEW y \in r..q PROVE Lt(e, right[y])
  <2>1. r \in 1..q /\ y \in 1..q /\ ~(r > q)
    BY <1>1, <1>3
  <2>2. e \in Element /\ right[r] \in Element /\ right[y] \in Element
    BY <1>1, <2>1
  <2>3. e[1] <= right[r][1]
    BY <1>4, <1>6, <2>1, <2>2, LtTypes
  <2>4. right[r][1] <= right[y][1]
    <3>1. CASE y = r
      BY <2>2, <3>1, LtTypes
    <3>2. CASE y # r
      <4>1. r < y
        BY <2>1, <3>2
      <4>2. Lt(right[r], right[y])
        BY <1>1, <2>1, <4>1 DEF Ordered
      <4>3. QED
        BY <2>2, <4>2, LtTypes DEF Lt
    <3>3. QED
      BY <3>1, <3>2
  <2>5. e[2] < right[y][2]
    BY <1>1, <1>5, <1>6, <2>1
  <2>6. e[1] \in Int /\ right[r][1] \in Int /\ right[y][1] \in Int
    BY <2>2, LtTypes
  <2>7. QED
    BY <2>3, <2>4, <2>5, <2>6 DEF Lt
<1>12. ASSUME NEW d \in Members(u, k + 1)
       PROVE  (\A x \in l + 1..p : Lt(d, left[x])) /\ (\A y \in r..q : Lt(d, right[y]))
  <2>1. CASE d \in Members(res, k)
    <3>1. \A x \in l + 1..p : x \in l..p
      BY <1>5
    <3>2. QED
      BY <1>3, <2>1, <3>1
  <2>2. CASE d = e
    BY <1>10, <1>11, <2>2
  <2>3. QED
    BY <1>8, <2>1, <2>2
<1>13. Members(u, k + 1) = Members(left, (l + 1) - 1) \cup Members(right, r - 1)
  <2>1. (l + 1) - 1 = l /\ l \in Nat \ {0}
    BY <1>5
  <2>2. Members(left, l) = Members(left, l - 1) \cup {e}
    BY <1>6, <2>1, MembersTake, Zenon
  <2>3. QED
    BY <1>3, <1>8, <2>1, <2>2
<1>14. l + 1 \in 1..p + 1 /\ ((l + 1) - 1) + (r - 1) = k + 1
  BY <1>1, <1>3, <1>5
<1>15. PICK z : z = Sort!TakeLeft(m, left) /\ z.l = l + 1 /\ z.r = r /\ z.res = u
  BY <1>9
<1>16. Merged(left, p, right, q, z, k + 1)
  BY <1>3, <1>8, <1>12, <1>13, <1>14, <1>15, Zenon DEF Merged
<1>17. QED
  BY <1>15, <1>16

LEMMA TakesRight ==
  ASSUME NEW p, NEW q, NEW left, NEW right, Parts(left, p, right, q), NEW k \in 0..p + q - 1,
         NEW m, Merged(left, p, right, q, m, k), ~LeftFirst(left, right, m)
  PROVE  Merged(left, p, right, q, Sort!TakeRight(m, right), k + 1)
<1>1. /\ p \in Nat /\ q \in Nat /\ left \in Seq(Element) /\ Len(left) = p /\ Ordered(left, p)
      /\ right \in Seq(Element) /\ Len(right) = q /\ Ordered(right, q)
      /\ \A i \in 1..p, j \in 1..q : left[i][2] < right[j][2]
  BY Zenon DEF Parts, Sequel
<1>2. PICK l, r, res : l = m.l /\ r = m.r /\ res = m.res
  OBVIOUS
<1>3. /\ l \in 1..p + 1 /\ r \in 1..q + 1 /\ (l - 1) + (r - 1) = k /\ Sequel(res, k)
      /\ Members(res, k) = Members(left, l - 1) \cup Members(right, r - 1)
      /\ \A e \in Members(res, k) :
           (\A x \in l..p : Lt(e, left[x])) /\ (\A y \in r..q : Lt(e, right[y]))
  BY <1>2, Zenon DEF Merged
<1>4. r <= q /\ (l > p \/ ~(Sort!comp(left[l], right[r]) <= 0))
  <2>1. ~(l <= p /\ (r > q \/ Sort!comp(left[l], right[r]) <= 0))
    BY <1>1, <1>2, Zenon DEF LeftFirst
  <2>2. r <= q
    BY <1>1, <1>3, <2>1
  <2>3. QED
    BY <1>1, <1>3, <2>1, <2>2
<1>5. r \in 1..q /\ r \in r..q /\ k \in Nat
  BY <1>1, <1>3, <1>4
<1>6. PICK e \in Element : e = right[r]
  BY <1>1, <1>5
<1>7. Behind(res, k, e)
  BY <1>3, <1>5, <1>6 DEF Behind
<1>8. PICK u : u = Append(res, e) /\ Sequel(u, k + 1) /\ Members(u, k + 1) = Members(res, k) \cup {e}
  <2>1. With(res, k, e, Append(res, e))
    BY <1>3, <1>5, <1>7, SequelAppend, Zenon
  <2>2. QED
    BY <2>1, Zenon DEF With
<1>9. Sort!TakeRight(m, right) = [l |-> l, r |-> r + 1, res |-> u]
  BY <1>2, <1>6, <1>8, Zenon DEF Sort!TakeRight
<1>10. ASSUME NEW y \in r + 1..q PROVE Lt(e, right[y])
  <2>1. y \in 1..q /\ r < y
    BY <1>5
  <2>2. QED
    BY <1>1, <1>5, <1>6, <2>1 DEF Ordered
<1>11. ASSUME NEW x \in l..p PROVE Lt(e, left[x])
  <2>1. l \in 1..p /\ x \in 1..p /\ ~(l > p)
    BY <1>1, <1>3
  <2>2. e \in Element /\ left[l] \in Element /\ left[x] \in Element
    BY <1>1, <2>1
  <2>3. e[1] < left[l][1]
    BY <1>4, <1>6, <2>1, <2>2, LtTypes
  <2>4. left[l][1] <= left[x][1]
    <3>1. CASE x = l
      BY <2>2, <3>1, LtTypes
    <3>2. CASE x # l
      <4>1. l < x
        BY <2>1, <3>2
      <4>2. Lt(left[l], left[x])
        BY <1>1, <2>1, <4>1 DEF Ordered
      <4>3. QED
        BY <2>2, <4>2, LtTypes DEF Lt
    <3>3. QED
      BY <3>1, <3>2
  <2>5. e[1] \in Int /\ left[l][1] \in Int /\ left[x][1] \in Int
    BY <2>2, LtTypes
  <2>6. QED
    BY <2>3, <2>4, <2>5 DEF Lt
<1>12. ASSUME NEW d \in Members(u, k + 1)
       PROVE  (\A x \in l..p : Lt(d, left[x])) /\ (\A y \in r + 1..q : Lt(d, right[y]))
  <2>1. CASE d \in Members(res, k)
    <3>1. \A y \in r + 1..q : y \in r..q
      BY <1>5
    <3>2. QED
      BY <1>3, <2>1, <3>1
  <2>2. CASE d = e
    BY <1>10, <1>11, <2>2
  <2>3. QED
    BY <1>8, <2>1, <2>2
<1>13. Members(u, k + 1) = Members(left, l - 1) \cup Members(right, (r + 1) - 1)
  <2>1. (r + 1) - 1 = r /\ r \in Nat \ {0}
    BY <1>5
  <2>2. Members(right, r) = Members(right, r - 1) \cup {e}
    BY <1>6, <2>1, MembersTake, Zenon
  <2>3. QED
    BY <1>3, <1>8, <2>1, <2>2
<1>14. r + 1 \in 1..q + 1 /\ (l - 1) + ((r + 1) - 1) = k + 1
  BY <1>1, <1>3, <1>5
<1>15. PICK z : z = Sort!TakeRight(m, right) /\ z.l = l /\ z.r = r + 1 /\ z.res = u
  BY <1>9
<1>16. Merged(left, p, right, q, z, k + 1)
  BY <1>3, <1>8, <1>12, <1>13, <1>14, <1>15, Zenon DEF Merged
<1>17. QED
  BY <1>15, <1>16

\* The turns of a merge from its start.
LEMMA MergeStarts ==
  ASSUME NEW p, NEW q, NEW left, NEW right, Parts(left, p, right, q)
  PROVE  Merged(left, p, right, q, Sort!Start, 0)
<1>1. p \in Nat /\ q \in Nat
  BY Zenon DEF Parts
<1>2. \A s : Members(s, 0) = {}
  BY DEF Members
<1>3. Sequel(<<>>, 0)
  BY DEF Sequel, Ordered
<1>4. 1 \in 1..p + 1 /\ 1 \in 1..q + 1 /\ 1 - 1 = 0 /\ 0 + 0 = 0
  BY <1>1
<1>5. PICK z : z = Sort!Start /\ z.l = 1 /\ z.r = 1 /\ z.res = <<>>
  <2>1. Sort!Start = [l |-> 1, r |-> 1, res |-> <<>>]
    BY DEF Sort!Start
  <2>2. QED
    BY <2>1
<1>6. Merged(left, p, right, q, z, 0)
  BY <1>2, <1>3, <1>4, <1>5 DEF Merged
<1>7. QED
  BY <1>5, <1>6

LEMMA MergeTurns ==
  ASSUME NEW p, NEW q, NEW left, NEW right, Parts(left, p, right, q), NEW n \in Nat, n = p + q,
         NEW t, Merging(left, right, n, t)
  PROVE  Merged(left, p, right, q, t[n], n)
<1> DEFINE Bad == {k \in 0..n : ~Merged(left, p, right, q, t[k], k)}
<1>1. SUFFICES ASSUME Bad # {} PROVE FALSE
  OBVIOUS
<1>2. PICK k \in Bad : \A j \in Bad : k <= j
  BY <1>1, SmallestNumber
<1>3. k \in 0..n /\ ~Merged(left, p, right, q, t[k], k)
  OBVIOUS
<1>4. t = [i \in 0..n |-> IF i = 0 THEN Sort!Start ELSE MergeTurn(left, right, t[i - 1])]
  BY Zenon DEF Merging
<1>5. k # 0
  <2>1. t[0] = Sort!Start
    BY <1>4
  <2>2. QED
    BY <1>3, <2>1, MergeStarts
<1>6. PICK j \in 0..p + q - 1 : j = k - 1 /\ k = j + 1 /\ j \in 0..n /\ j \notin Bad
  <2>1. p \in Nat /\ q \in Nat
    BY Zenon DEF Parts
  <2>2. QED
    BY <1>2, <1>3, <1>5, <2>1
<1>7. Merged(left, p, right, q, t[j], j)
  BY <1>6
<1>8. t[k] = MergeTurn(left, right, t[j])
  BY <1>3, <1>4, <1>5, <1>6
<1> HIDE DEF Bad
<1>9. Merged(left, p, right, q, t[k], j + 1)
  <2>1. CASE LeftFirst(left, right, t[j])
    BY <1>7, <1>8, <2>1, TakesLeft, Zenon DEF MergeTurn
  <2>2. CASE ~LeftFirst(left, right, t[j])
    BY <1>7, <1>8, <2>2, TakesRight, Zenon DEF MergeTurn
  <2>3. QED
    BY <2>1, <2>2
<1>10. QED
  BY <1>3, <1>6, <1>9

\* What a merge gives: the elements of both halves, in order.
MergesTo(left, p, right, q, s) ==
  Sequel(s, p + q) /\ Members(s, p + q) = Members(left, p) \cup Members(right, q)

\* Halves that are in order one after the other.
LEMMA RunsJoin ==
  ASSUME NEW p \in Nat \ {0}, NEW q \in Nat \ {0}, NEW left, NEW right, Parts(left, p, right, q),
         Runs(left, right)
  PROVE  MergesTo(left, p, right, q, left \o right)
<1>1. /\ left \in Seq(Element) /\ Len(left) = p /\ Ordered(left, p)
      /\ right \in Seq(Element) /\ Len(right) = q /\ Ordered(right, q)
      /\ \A i \in 1..p, j \in 1..q : left[i][2] < right[j][2]
  BY Zenon DEF Parts, Sequel
<1>2. p \in 1..p /\ 1 \in 1..q /\ \A i \in 1..p : left[i] \in Element
  BY <1>1
<1>3. \A j \in 1..q : right[j] \in Element
  BY <1>1
<1>4. left[p][1] <= right[1][1]
  BY <1>1, <1>2, <1>3, LtTypes DEF Runs
<1>5. ASSUME NEW i \in 1..p, NEW j \in 1..q PROVE Lt(left[i], right[j])
  <2>1. /\ left[i][1] \in Int /\ left[p][1] \in Int /\ right[1][1] \in Int /\ right[j][1] \in Int
    BY <1>2, <1>3, LtTypes
  <2>2. left[i][1] <= left[p][1]
    <3>1. CASE i = p
      BY <2>1, <3>1
    <3>2. CASE i # p
      <4>1. i < p
        BY <3>2
      <4>2. Lt(left[i], left[p])
        BY <1>1, <1>2, <4>1 DEF Ordered
      <4>3. QED
        BY <2>1, <4>2 DEF Lt
    <3>3. QED
      BY <3>1, <3>2
  <2>3. right[1][1] <= right[j][1]
    <3>1. CASE j = 1
      BY <2>1, <3>1
    <3>2. CASE j # 1
      <4>1. 1 < j
        BY <3>2
      <4>2. Lt(right[1], right[j])
        BY <1>1, <1>2, <4>1 DEF Ordered
      <4>3. QED
        BY <2>1, <4>2 DEF Lt
    <3>3. QED
      BY <3>1, <3>2
  <2>4. left[i][2] < right[j][2]
    BY <1>1
  <2>5. QED
    BY <1>4, <2>1, <2>2, <2>3, <2>4 DEF Lt
<1>6. PICK u : u = left \o right /\ Two(Element, left, p, right, q, u)
  <2>1. PICK i, j \in Nat : i = Len(left) /\ j = Len(right) /\ Two(Element, left, i, right, j, left \o right)
    BY <1>1, InTwo, Zenon
  <2>2. QED
    BY <1>1, <2>1, Zenon
<1>7. /\ u \in Seq(Element) /\ Len(u) = p + q
      /\ \A i \in 1..p : u[i] = left[i]
      /\ \A i \in 1..q : u[p + i] = right[i]
  BY <1>6, Zenon DEF Two
<1>8. \A i \in 1..p + q : i \in 1..p \/ \E j \in 1..q : i = p + j
  <2> TAKE i \in 1..p + q
  <2>1. CASE i <= p
    BY <2>1
  <2>2. CASE ~(i <= p)
    <3>1. i - p \in 1..q /\ i = p + (i - p)
      BY <2>2
    <3>2. QED
      BY <3>1
  <2>3. QED
    BY <2>1, <2>2
<1>9. Ordered(u, p + q)
  <2>1. ASSUME NEW i \in 1..p + q, NEW j \in 1..p + q, i < j PROVE Lt(u[i], u[j])
    <3>1. CASE i \in 1..p /\ j \in 1..p
      BY <1>1, <1>7, <2>1, <3>1 DEF Ordered
    <3>2. CASE i \in 1..p /\ j \notin 1..p
      <4>1. PICK y \in 1..q : j = p + y
        BY <1>8, <3>2
      <4>2. u[i] = left[i] /\ u[j] = right[y]
        BY <1>7, <3>2, <4>1
      <4>3. QED
        BY <1>5, <3>2, <4>2
    <3>3. CASE i \notin 1..p
      <4>1. PICK x \in 1..q : i = p + x
        BY <1>8, <3>3
      <4>2. PICK y \in 1..q : j = p + y
        BY <1>8, <2>1, <3>3
      <4>3. x < y
        BY <2>1, <4>1, <4>2
      <4>4. u[i] = right[x] /\ u[j] = right[y]
        BY <1>7, <4>1, <4>2
      <4>5. QED
        BY <1>1, <4>3, <4>4 DEF Ordered
    <3>4. QED
      BY <3>1, <3>2, <3>3
  <2>2. QED
    BY <2>1 DEF Ordered
<1>10. Members(u, p + q) = Members(left, p) \cup Members(right, q)
  <2>1. (\A i \in 1..p : i \in 1..p + q) /\ (\A j \in 1..q : p + j \in 1..p + q)
    OBVIOUS
  <2>2. ASSUME NEW e \in Members(u, p + q) PROVE e \in Members(left, p) \cup Members(right, q)
    <3>1. PICK i \in 1..p + q : e = u[i]
      BY DEF Members
    <3>2. CASE i \in 1..p
      <4>1. e = left[i]
        BY <1>7, <3>1, <3>2
      <4>2. QED
        BY <3>2, <4>1 DEF Members
    <3>3. ASSUME NEW j \in 1..q, i = p + j PROVE e \in Members(right, q)
      <4>1. e = right[j]
        BY <1>7, <3>1, <3>3
      <4>2. QED
        BY <4>1 DEF Members
    <3>4. QED
      BY <1>8, <3>2, <3>3
  <2>3. ASSUME NEW e \in Members(left, p) PROVE e \in Members(u, p + q)
    <3>1. PICK i \in 1..p : e = left[i]
      BY DEF Members
    <3>2. e = u[i] /\ i \in 1..p + q
      BY <1>7, <2>1, <3>1
    <3>3. QED
      BY <3>2 DEF Members
  <2>4. ASSUME NEW e \in Members(right, q) PROVE e \in Members(u, p + q)
    <3>1. PICK j \in 1..q : e = right[j]
      BY DEF Members
    <3>2. e = u[p + j] /\ p + j \in 1..p + q
      BY <1>7, <2>1, <3>1
    <3>3. QED
      BY <3>2 DEF Members
  <2>5. QED
    BY <2>2, <2>3, <2>4
<1>11. QED
  BY <1>6, <1>7, <1>9, <1>10, Zenon DEF Sequel, MergesTo

LEMMA MergeSorts ==
  ASSUME NEW p \in Nat \ {0}, NEW q \in Nat \ {0}, NEW left, NEW right, Parts(left, p, right, q)
  PROVE  MergesTo(left, p, right, q, Sort!merge(left, right))
<1>1. PICK n \in Nat : n = p + q
  OBVIOUS
<1>2. n = Len(left) + Len(right)
  <2>1. Len(left) = p /\ Len(right) = q
    BY Zenon DEF Parts, Sequel
  <2>2. QED
    BY <1>1, <2>1
<1>3. CASE Runs(left, right) /\ Sort!merge(left, right) = left \o right
  BY <1>3, RunsJoin, Zenon
<1>4. ASSUME NEW t, Merging(left, right, n, t), Sort!merge(left, right) = t[n].res
      PROVE  MergesTo(left, p, right, q, Sort!merge(left, right))
  <2>1. PICK m : m = t[n] /\ Merged(left, p, right, q, m, n)
    BY <1>1, <1>4, MergeTurns, Zenon
  <2>2. PICK l \in 1..p + 1, r \in 1..q + 1 :
          /\ (l - 1) + (r - 1) = n /\ Sequel(m.res, n)
          /\ Members(m.res, n) = Members(left, l - 1) \cup Members(right, r - 1)
    BY <2>1, Zenon DEF Merged
  <2>3. l - 1 = p /\ r - 1 = q
    BY <1>1, <2>2
  <2>4. QED
    BY <1>1, <1>4, <2>1, <2>2, <2>3 DEF MergesTo
<1>5. QED
  BY <1>2, <1>3, <1>4, MergeGives, Zenon

\* The turns of the sort: for every count the rows sorted[count], by where they start.
Half(c) == (c + 1) \div 2
SortRow(s, n, c, t) ==
  [start \in 1..(n + 1) - c |->
     IF c < 2 THEN SubSeq(s, start, start + c - 1)
     ELSE Sort!merge(t[Half(c)][start], t[c - Half(c)][start + Half(c)])]
Sorting(s, n, m, t) == t = [c \in 0..m |-> SortRow(s, n, c, t)]

LEMMA SortedIs ==
  ASSUME NEW s
  PROVE  Sort!Sorted(s) = (CHOOSE t : Sorting(s, Len(s), Len(s), t))[Len(s)][1]
BY Zenon DEF Sort!Sorted, Sorting, SortRow, Half

LEMMA Halving ==
  ASSUME NEW c \in Nat, ~(c < 2)
  PROVE  Half(c) \in 1..c - 1 /\ c - Half(c) \in 1..c - 1 /\ Half(c) + (c - Half(c)) = c
BY DEF Half

\* A row is made of shorter ones.
SameBelow(c, t, u) == \A x \in 0..c - 1 : t[x] = u[x]

SameSorted(s, n, c, t, u) == SortRow(s, n, c, t) = SortRow(s, n, c, u)

LEMMA SameSortRow ==
  ASSUME NEW s, NEW n \in Nat, NEW c \in Nat, NEW t, NEW u, SameBelow(c, t, u)
  PROVE  SameSorted(s, n, c, t, u)
<1>1. CASE c < 2
  BY <1>1 DEF SortRow, SameSorted
<1>2. CASE ~(c < 2)
  <2>1. Half(c) \in 0..c - 1 /\ c - Half(c) \in 0..c - 1
    BY <1>2, Halving
  <2>2. t[Half(c)] = u[Half(c)] /\ t[c - Half(c)] = u[c - Half(c)]
    BY <2>1 DEF SameBelow
  <2>3. QED
    BY <2>2, Zenon DEF SortRow, SameSorted
<1>3. QED
  BY <1>1, <1>2

LEMMA SortingExists ==
  ASSUME NEW s, NEW n \in Nat, NEW m \in Nat
  PROVE  \E t : Sorting(s, n, m, t)
<1> DEFINE Bad == {j \in 0..m : ~\E t : Sorting(s, n, j, t)}
<1>1. SUFFICES ASSUME Bad # {} PROVE FALSE
  OBVIOUS
<1>2. PICK j \in Bad : \A i \in Bad : j <= i
  BY <1>1, SmallestNumber
<1>3. j \in 0..m /\ ~\E t : Sorting(s, n, j, t)
  OBVIOUS
<1>4. \A i \in 0..m : i < j => \E t : Sorting(s, n, i, t)
  BY <1>2
<1> HIDE DEF Bad
<1>5. PICK t : \A x \in 0..j - 1 : t[x] = SortRow(s, n, x, t)
  <2>1. CASE j = 0
    BY <2>1
  <2>2. CASE j # 0
    <3>1. PICK i \in 0..m : i = j - 1 /\ i < j
      BY <1>3, <2>2
    <3>2. PICK t : Sorting(s, n, i, t)
      BY <1>4, <3>1
    <3>3. \A x \in 0..i : t[x] = SortRow(s, n, x, t)
      BY <3>2 DEF Sorting
    <3>4. QED
      BY <3>1, <3>3
  <2>3. QED
    BY <2>1, <2>2
<1> DEFINE u == [x \in 0..j |-> IF x = j THEN SortRow(s, n, j, t) ELSE t[x]]
<1>6. \A x \in 0..j - 1 : t[x] = u[x]
  BY <1>3
<1>7. u = [x \in 0..j |-> u[x]]
  OBVIOUS
<1>8. u[j] = SortRow(s, n, j, t) /\ \A x \in 0..j - 1 : u[x] = t[x]
  BY <1>3
<1> HIDE DEF u
<1>9. \A x \in 0..j : u[x] = SortRow(s, n, x, u)
  <2> TAKE x \in 0..j
  <2>1. x \in Nat
    BY <1>3
  <2>2. SameBelow(x, t, u)
    <3>1. \A y \in 0..x - 1 : y \in 0..j - 1
      BY <1>3
    <3>2. QED
      BY <1>6, <3>1 DEF SameBelow
  <2>3. SortRow(s, n, x, t) = SortRow(s, n, x, u)
    <3>1. SameSorted(s, n, x, t, u)
      BY <2>1, <2>2, SameSortRow, Zenon
    <3>2. QED
      BY <3>1, Zenon DEF SameSorted
  <2>4. CASE x = j
    BY <1>8, <2>3, <2>4
  <2>5. CASE x # j
    <3>1. x \in 0..j - 1
      BY <1>3, <2>5
    <3>2. QED
      BY <1>5, <1>8, <2>3, <3>1
  <2>6. QED
    BY <2>4, <2>5
<1>10. u = [x \in 0..j |-> SortRow(s, n, x, u)]
  BY <1>7, <1>9
<1>11. QED
  BY <1>3, <1>10, Zenon DEF Sorting

\* Elements at their first places, and what the sort makes of c of them from the a-th on.
InPlace(s, n) == s \in Seq(Element) /\ Len(s) = n /\ \A i \in 1..n : s[i][2] = i
Span(s, a, c) == {s[i] : i \in a..a + c - 1}
SortedSpan(s, a, c, r) == Sequel(r, c) /\ Members(r, c) = Span(s, a, c)

LEMMA ShortSpan ==
  ASSUME NEW n \in Nat, NEW s, InPlace(s, n), NEW c \in 0..n, c < 2, NEW a \in 1..(n + 1) - c
  PROVE  SortedSpan(s, a, c, SubSeq(s, a, a + c - 1))
<1>1. s \in Seq(Element) /\ Len(s) = n
  BY Zenon DEF InPlace
<1>2. PICK b \in Int : b = a + c - 1 /\ 1 <= a /\ a <= b + 1 /\ b <= n /\ (b - a) + 1 = c
  OBVIOUS
<1>3. PICK r : /\ r = SubSeq(s, a, b) /\ r \in Seq(Element) /\ Len(r) = (b - a) + 1
               /\ \A i \in 1..(b - a) + 1 : r[i] = s[(a + i) - 1]
  <2>1. a \in Int /\ b \in Int /\ b <= Len(s)
    BY <1>1, <1>2
  <2>2. /\ SubSeq(s, a, b) \in Seq(Element) /\ Len(SubSeq(s, a, b)) = (b - a) + 1
        /\ \A i \in 1..(b - a) + 1 : SubSeq(s, a, b)[i] = s[(a + i) - 1]
    BY <1>1, <1>2, <2>1, Cut
  <2>3. QED
    BY <2>2, Zenon
<1>4. Sequel(r, c)
  <2>1. \A i, j \in 1..c : ~(i < j)
    OBVIOUS
  <2>2. QED
    BY <1>2, <1>3, <2>1 DEF Sequel, Ordered
<1>5. Members(r, c) = Span(s, a, c)
  <2>1. CASE c = 0
    <3>1. 1..c = {} /\ a..b = {}
      BY <1>2, <2>1
    <3>2. QED
      BY <1>2, <3>1 DEF Members, Span
  <2>2. CASE c = 1
    <3>1. 1..c = {1} /\ a..b = {a} /\ r[1] = s[a]
      BY <1>2, <1>3, <2>2
    <3>2. QED
      BY <1>2, <3>1 DEF Members, Span
  <2>3. QED
    BY <2>1, <2>2
<1>6. QED
  BY <1>2, <1>3, <1>4, <1>5, Zenon DEF SortedSpan

LEMMA LongSpan ==
  ASSUME NEW n \in Nat, NEW s, InPlace(s, n), NEW p \in Nat \ {0}, NEW q \in Nat \ {0}, NEW c, c = p + q,
         c \in 0..n, NEW a \in 1..(n + 1) - c,
         NEW left, NEW right, SortedSpan(s, a, p, left), SortedSpan(s, a + p, q, right)
  PROVE  SortedSpan(s, a, c, Sort!merge(left, right))
<1>1. /\ Sequel(left, p) /\ Members(left, p) = Span(s, a, p)
      /\ Sequel(right, q) /\ Members(right, q) = Span(s, a + p, q)
  BY Zenon DEF SortedSpan
<1>2. \A i \in 1..n : s[i][2] = i
  BY Zenon DEF InPlace
<1>3. ASSUME NEW i \in 1..p, NEW j \in 1..q PROVE left[i][2] < right[j][2]
  <2>1. left[i] \in Span(s, a, p) /\ right[j] \in Span(s, a + p, q)
    BY <1>1 DEF Members
  <2>2. PICK x \in a..a + p - 1 : left[i] = s[x]
    BY <2>1 DEF Span
  <2>3. PICK y \in a + p..a + p + q - 1 : right[j] = s[y]
    BY <2>1 DEF Span
  <2>4. x \in 1..n /\ y \in 1..n /\ x < y
    BY <2>2, <2>3
  <2>5. QED
    BY <1>2, <2>2, <2>3, <2>4
<1>4. Parts(left, p, right, q)
  BY <1>1, <1>3, Zenon DEF Parts
<1>5. MergesTo(left, p, right, q, Sort!merge(left, right))
  BY <1>4, MergeSorts, Zenon
<1>6. Span(s, a, p) \cup Span(s, a + p, q) = Span(s, a, c)
  <2>1. a..a + c - 1 = (a..a + p - 1) \cup ((a + p)..(a + p) + q - 1)
    OBVIOUS
  <2>2. PICK A, B, C : /\ A = a..a + p - 1 /\ B = (a + p)..(a + p) + q - 1 /\ C = a..a + c - 1 /\ C = A \cup B
                       /\ Span(s, a, p) = {s[i] : i \in A} /\ Span(s, a + p, q) = {s[i] : i \in B}
                       /\ Span(s, a, c) = {s[i] : i \in C}
    BY <2>1, Zenon DEF Span
  <2>3. {s[i] : i \in C} = {s[i] : i \in A} \cup {s[i] : i \in B}
    BY <2>2
  <2>4. QED
    BY <2>2, <2>3
<1>7. QED
  BY <1>1, <1>5, <1>6, Zenon DEF SortedSpan, MergesTo

AllSorted(s, n, c, t) == \A a \in 1..(n + 1) - c : SortedSpan(s, a, c, t[c][a])

LEMMA SortTurn ==
  ASSUME NEW n \in Nat, NEW s, InPlace(s, n), NEW t, NEW c \in 0..n, t[c] = SortRow(s, n, c, t),
         NEW below, below = 0..c - 1, \A x \in below : AllSorted(s, n, x, t)
  PROVE  AllSorted(s, n, c, t)
<1>1. ASSUME NEW a \in 1..(n + 1) - c PROVE SortedSpan(s, a, c, t[c][a])
  <2>1. CASE c < 2
    <3>1. t[c][a] = SubSeq(s, a, a + c - 1)
      BY <2>1 DEF SortRow
    <3>2. QED
      BY <2>1, <3>1, ShortSpan, Zenon
  <2>2. CASE ~(c < 2)
    <3>1. PICK p \in 1..c - 1, q \in 1..c - 1 : p = Half(c) /\ q = c - Half(c) /\ p + q = c
      <4>1. c \in Nat
        OBVIOUS
      <4>2. QED
        BY <2>2, <4>1, Halving, Zenon
    <3>2. t[c][a] = Sort!merge(t[p][a], t[q][a + p])
      BY <2>2, <3>1 DEF SortRow
    <3>3. p \in Nat \ {0} /\ q \in Nat \ {0} /\ p \in 0..c - 1 /\ q \in 0..c - 1 /\ p + q = c
      <4>1. c \in Int
        OBVIOUS
      <4>2. p \in 1..c - 1 /\ q \in 1..c - 1 /\ p + q = c
        BY <3>1, Zenon
      <4>3. QED
        BY <4>1, <4>2
    <3>4. p \in below /\ q \in below
      BY <3>3
    <3>7. a \in 1..(n + 1) - p /\ a + p \in 1..(n + 1) - q
      <4>1. n \in Int /\ c \in Int /\ a \in Int /\ p \in Int /\ q \in Int /\ 1 <= a /\ a <= (n + 1) - c
            /\ p + q = c /\ 0 < p /\ 0 < q
        BY <3>3
      <4>2. QED
        BY <4>1
    <3>8. SortedSpan(s, a, p, t[p][a]) /\ SortedSpan(s, a + p, q, t[q][a + p])
      BY <3>4, <3>7, Zenon DEF AllSorted
    <3>5. SortedSpan(s, a, c, Sort!merge(t[p][a], t[q][a + p]))
      BY <3>3, <3>8, LongSpan, Zenon
    <3>6. QED
      BY <3>2, <3>5, Zenon
  <2>3. QED
    BY <2>1, <2>2
<1>2. QED
  BY <1>1, Zenon DEF AllSorted

LEMMA SortsSpan ==
  ASSUME NEW n \in Nat, NEW s, InPlace(s, n)
  PROVE  SortedSpan(s, 1, n, Sort!Sorted(s))
<1>1. n = Len(s)
  BY Zenon DEF InPlace
<1>2. PICK t : Sorting(s, n, n, t) /\ Sort!Sorted(s) = t[n][1]
  <2>1. \E t : Sorting(s, n, n, t)
    BY SortingExists, Zenon
  <2>2. Sorting(s, n, n, CHOOSE t : Sorting(s, n, n, t))
    BY <2>1, Zenon
  <2>3. QED
    BY <1>1, <2>2, SortedIs, Zenon
<1>3. \A c \in 0..n : t[c] = SortRow(s, n, c, t)
  BY <1>2 DEF Sorting
<1> DEFINE Bad == {c \in 0..n : ~AllSorted(s, n, c, t)}
<1>4. Bad = {}
  <2>1. SUFFICES ASSUME Bad # {} PROVE FALSE
    OBVIOUS
  <2>2. PICK c \in Bad : \A x \in Bad : c <= x
    BY <2>1, SmallestNumber
  <2>3. c \in 0..n /\ ~AllSorted(s, n, c, t)
    OBVIOUS
  <2>4. \A x \in 0..c - 1 : AllSorted(s, n, x, t)
    BY <2>2, <2>3
  <2> HIDE DEF Bad
  <2>5. QED
    BY <1>3, <2>3, <2>4, SortTurn, Zenon
<1>5. AllSorted(s, n, n, t)
  BY <1>4
<1>6. 1 \in 1..(n + 1) - n
  OBVIOUS
<1>7. QED
  BY <1>2, <1>5, <1>6, Zenon DEF AllSorted

LEMMA SortRight ==
  ASSUME NEW keys \in Seq(Int)
  PROVE  Sort!SortsStably(keys)
<1> DEFINE s == [i \in 1..Len(keys) |-> <<keys[i], i>>]
           r == Sort!Sorted(s)
<1>1. PICK n \in Nat : n = Len(keys)
  OBVIOUS
<1>2. InPlace(s, n)
  <2>1. \A i \in 1..n : s[i] = <<keys[i], i>> /\ s[i] \in Element
    BY <1>1 DEF Element
  <2>2. s = [i \in 1..n |-> s[i]]
    BY <1>1
  <2>3. ASSUME NEW i \in 1..n PROVE s[i][2] = i
    <3>1. s[i] = <<keys[i], i>>
      BY <2>1
    <3>2. <<keys[i], i>>[2] = i
      OBVIOUS
    <3> HIDE DEF s
    <3>3. QED
      BY <3>1, <3>2, Zenon
  <2> HIDE DEF s
  <2>4. s \in Seq(Element) /\ Len(s) = n
    BY <2>1, <2>2, Rows
  <2>5. QED
    BY <2>3, <2>4, Zenon DEF InPlace
<1> HIDE DEF s
<1>3. SortedSpan(s, 1, n, r)
  BY <1>2, SortsSpan, Zenon
<1> HIDE DEF r
<1>4. Sequel(r, n) /\ Members(r, n) = Span(s, 1, n)
  BY <1>3, Zenon DEF SortedSpan
<1>5. Len(r) = Len(keys)
  BY <1>1, <1>4 DEF Sequel
<1>6. {r[i] : i \in 1..Len(keys)} = {s[i] : i \in 1..Len(keys)}
  <2>1. (1 + n) - 1 = n
    OBVIOUS
  <2>2. Span(s, 1, n) = {s[i] : i \in 1..n}
    BY <2>1 DEF Span
  <2>3. QED
    BY <1>1, <1>4, <2>2 DEF Members
<1>7. ASSUME NEW i \in 1..Len(keys) - 1
      PROVE  r[i][1] < r[i + 1][1] \/ (r[i][1] = r[i + 1][1] /\ r[i][2] < r[i + 1][2])
  <2>1. i \in 1..n /\ i + 1 \in 1..n /\ i < i + 1
    BY <1>1
  <2>2. Lt(r[i], r[i + 1])
    BY <1>4, <2>1 DEF Sequel, Ordered
  <2>3. QED
    BY <2>2, Zenon DEF Lt
<1>8. QED
  BY <1>5, <1>6, <1>7, Zenon DEF Sort!SortsStably, r, s

\* The input of the sort is a sequence of keys.
SortInput == unit = "sort" => input \in Seq(Int)

LEMMA SortKeys == Alphabet("sort") \subseteq Int
BY InputsAssumption DEF Alphabet

LEMMA AppendsKey ==
  ASSUME NEW q \in Seq(Int), NEW x \in Int
  PROVE  Append(q, x) \in Seq(Int)
OBVIOUS

LEMMA InputGrows ==
  ASSUME [Next]_<<unit, socketVars, fileVars, streamVars, hashVars, cipherVars, vectorVars, input>>
  PROVE  unit' = unit /\ (input' = input \/ \E x \in Alphabet(unit) : input' = Append(input, x))
<1>1. CASE UNCHANGED <<unit, socketVars, fileVars, streamVars, hashVars, cipherVars, vectorVars, input>>
  BY <1>1
<1>2. CASE Next
  BY <1>2, Zenon DEF Next, Moves
<1>3. QED
  BY <1>1, <1>2, Zenon

LEMMA SortInputKeeps ==
  ASSUME SortInput, [Next]_<<unit, socketVars, fileVars, streamVars, hashVars, cipherVars, vectorVars, input>>
  PROVE  SortInput'
<1>1. SUFFICES ASSUME unit' = "sort" PROVE input' \in Seq(Int)
  BY Zenon DEF SortInput
<1>2. unit = "sort" /\ input \in Seq(Int)
  BY <1>1, InputGrows, Zenon DEF SortInput
<1>3. CASE input' = input
  BY <1>2, <1>3, Zenon
<1>4. CASE \E x \in Alphabet(unit) : input' = Append(input, x)
  <2>1. PICK x \in Int : input' = Append(input, x)
    BY <1>2, <1>4, SortKeys, Zenon
  <2>2. QED
    BY <1>2, <2>1, AppendsKey, Zenon
<1>5. QED
  BY <1>3, <1>4, InputGrows, Zenon

-----------------------------------------------------------------------------
\* Base encoding.  v are the values of the characters of a text, and Bad16 and Bad64 say how far
\* the loops have come after i of them.

Values16(t) == [i \in 1..Len(t) |-> Base!Value16(t[i])]
Values64(t) == [i \in 1..Len(t) |-> Base!Value64(t[i])]
Sound(v, n) == \A i \in 1..n : v[i] # -1

Octet16(v, j) == 16 * v[2 * j - 1] + v[2 * j]
Octets16(v, n) == [j \in 1..n |-> Octet16(v, j)]
Pending16(v, i) == IF i % 2 = 1 THEN v[i] * 16 ELSE 0
Read16To(v, i) == IF Sound(v, i) THEN Base!Progress(i, Pending16(v, i), Octets16(v, i \div 2)) ELSE Base!Failed

LEMMA ValuesAre ==
  ASSUME NEW c \in Int
  PROVE  /\ Base!Value16(c) \in Int /\ (Base!Value16(c) = -1 \/ Base!Value16(c) \in 0..15)
         /\ Base!Value64(c) \in Int /\ (Base!Value64(c) = -1 \/ Base!Value64(c) \in 0..63)
BY DEF Base!Value16, Base!Value64

LEMMA Values16Are ==
  ASSUME NEW t \in Seq(Int), NEW v, v = Values16(t)
  PROVE  /\ v \in Seq(Int) /\ Len(v) = Len(t)
         /\ \A i \in 1..Len(t) : v[i] = Base!Value16(t[i]) /\ (v[i] = -1 \/ v[i] \in 0..15)
<1>1. \A i \in 1..Len(t) : t[i] \in Int
  OBVIOUS
<1>2. \A i \in 1..Len(t) : Base!Value16(t[i]) = -1 \/ Base!Value16(t[i]) \in 0..15
  BY <1>1, ValuesAre
<1>3. \A i \in 1..Len(t) : Base!Value16(t[i]) \in Int
  BY <1>1, ValuesAre
<1>4. QED
  BY <1>2, <1>3 DEF Values16

LEMMA Values64Are ==
  ASSUME NEW t \in Seq(Int), NEW v, v = Values64(t)
  PROVE  /\ v \in Seq(Int) /\ Len(v) = Len(t)
         /\ \A i \in 1..Len(t) : v[i] = Base!Value64(t[i]) /\ (v[i] = -1 \/ v[i] \in 0..63)
<1>1. \A i \in 1..Len(t) : t[i] \in Int
  OBVIOUS
<1>2. \A i \in 1..Len(t) : Base!Value64(t[i]) = -1 \/ Base!Value64(t[i]) \in 0..63
  BY <1>1, ValuesAre
<1>3. \A i \in 1..Len(t) : Base!Value64(t[i]) \in Int
  BY <1>1, ValuesAre
<1>4. QED
  BY <1>2, <1>3 DEF Values64

\* One more pair of digits.
LEMMA Octets16Grow ==
  ASSUME NEW v \in Seq(Int), NEW k \in Nat, 2 * k + 2 <= Len(v)
  PROVE  Octets16(v, k + 1) = Append(Octets16(v, k), v[2 * k + 1] * 16 + v[2 * k + 2])
<1>1. \A j \in 1..k + 1 : Octet16(v, j) \in Int
  <2>1. ASSUME NEW j \in 1..k + 1 PROVE Octet16(v, j) \in Int
    <3>1. 2 * j - 1 \in 1..Len(v) /\ 2 * j \in 1..Len(v)
      OBVIOUS
    <3>2. v[2 * j - 1] \in Int /\ v[2 * j] \in Int
      BY <3>1
    <3>3. PICK a \in Int, b \in Int : a = v[2 * j - 1] /\ b = v[2 * j]
      BY <3>2
    <3>4. Octet16(v, j) = 16 * a + b
      BY <3>3, Zenon DEF Octet16
    <3>5. QED
      BY <3>4
  <2>2. QED
    BY <2>1
<1>2. Octet16(v, k + 1) = v[2 * k + 1] * 16 + v[2 * k + 2]
  <2>1. 2 * (k + 1) - 1 = 2 * k + 1 /\ 2 * (k + 1) = 2 * k + 2
    OBVIOUS
  <2>2. 2 * k + 1 \in 1..Len(v)
    OBVIOUS
  <2>3. v[2 * k + 1] \in Int
    BY <2>2
  <2>4. QED
    BY <2>1, <2>3 DEF Octet16
<1>3. Octets16(v, k) \in Seq(Int) /\ Octets16(v, k + 1) \in Seq(Int) /\ Len(Octets16(v, k)) = k /\ Len(Octets16(v, k + 1)) = k + 1
  BY <1>1 DEF Octets16
<1>4. /\ \A j \in 1..k : Octets16(v, k + 1)[j] = Octets16(v, k)[j]
      /\ Octets16(v, k + 1)[k + 1] = Octet16(v, k + 1)
  BY DEF Octets16
<1>5. Octets16(v, k + 1) = Append(Octets16(v, k), Octet16(v, k + 1))
  <2>1. PICK a \in Seq(Int), b \in Seq(Int) : a = Octets16(v, k) /\ b = Octets16(v, k + 1)
    BY <1>3, Zenon
  <2>2. Octet16(v, k + 1) \in Int
    BY <1>1
  <2>3. Appended(Int, a, k, Octet16(v, k + 1), Append(a, Octet16(v, k + 1)))
    BY <1>3, <2>1, <2>2, AppendIs, Zenon
  <2>4. PICK u \in Seq(Int) : u = Append(a, Octet16(v, k + 1)) /\ Len(u) = k + 1
          /\ u[k + 1] = Octet16(v, k + 1) /\ \A i \in 1..k : u[i] = a[i]
    BY <2>3, Zenon DEF Appended
  <2>5. \A i \in 1..k + 1 : i \in 1..k \/ i = k + 1
    OBVIOUS
  <2>6. \A i \in 1..k + 1 : u[i] = b[i]
    BY <1>4, <2>1, <2>4, <2>5, Zenon
  <2>7. u = b
    BY <1>3, <2>1, <2>4, <2>6, SameRows
  <2>8. QED
    BY <2>1, <2>4, <2>7
<1>6. QED
  BY <1>2, <1>5


\* A turn of the loop of base 16.
LEMMA Turn16 ==
  ASSUME NEW t \in Seq(Int), NEW v, v = Values16(t), NEW i \in 0..Len(t) - 1
  PROVE  Base!Read16(Read16To(v, i), t[i + 1]) = Read16To(v, i + 1)
<1>1. /\ v \in Seq(Int) /\ Len(v) = Len(t) /\ i + 1 \in 1..Len(t)
      /\ v[i + 1] = Base!Value16(t[i + 1]) /\ v[i + 1] \in Int
  BY Values16Are
<1>2. Sound(v, i + 1) <=> Sound(v, i) /\ v[i + 1] # -1
  <2>1. 1..i + 1 = (1..i) \cup {i + 1}
    OBVIOUS
  <2>2. QED
    BY <2>1, Zenon DEF Sound
<1>3. CASE ~Sound(v, i + 1)
  <2>1. CASE Sound(v, i)
    BY <1>1, <1>2, <1>3, <2>1, Zenon DEF Base!Read16, Read16To
  <2>2. CASE ~Sound(v, i)
    <3>1. Base!Failed.bad
      BY DEF Base!Failed
    <3>2. QED
      BY <1>2, <2>2, <3>1, Zenon DEF Base!Read16, Read16To
  <2>3. QED
    BY <2>1, <2>2
<1>4. CASE Sound(v, i + 1)
  <2>1. PICK k \in Nat : i = 2 * k \/ i = 2 * k + 1
    <3>1. i = 2 * (i \div 2) \/ i = 2 * (i \div 2) + 1
      OBVIOUS
    <3>2. QED
      BY <3>1
  <2>2. PICK d : d = v[i + 1] /\ d \in Int
    BY <1>1
  <2>3. PICK r : r = Base!Progress(i, Pending16(v, i), Octets16(v, i \div 2))
    OBVIOUS
  <2>4. /\ r.len = i /\ r.val = Pending16(v, i) /\ r.out = Octets16(v, i \div 2) /\ r.bad = FALSE
        /\ Read16To(v, i) = r
    BY <1>2, <1>4, <2>3 DEF Base!Progress, Read16To
  <2>5. Read16To(v, i + 1) = Base!Progress(i + 1, Pending16(v, i + 1), Octets16(v, (i + 1) \div 2))
    BY <1>4, Zenon DEF Read16To
  <2>6. Base!Read16(r, t[i + 1]) =
          IF i % 2 = 0 THEN Base!Progress(i + 1, d * 16, r.out)
          ELSE Base!Progress(i + 1, 0, Append(r.out, r.val + d))
    BY <1>1, <1>2, <1>4, <2>2, <2>4, Zenon DEF Base!Read16
  <2>7. CASE i = 2 * k
    <3>1. i % 2 = 0 /\ (i + 1) % 2 = 1 /\ i \div 2 = k /\ (i + 1) \div 2 = k
      BY <2>7
    <3>2. Pending16(v, i + 1) = d * 16
      BY <2>2, <3>1, Zenon DEF Pending16
    <3>3. QED
      BY <2>4, <2>5, <2>6, <3>1, <3>2, Zenon
  <2>8. CASE i = 2 * k + 1
    <3>1. i % 2 = 1 /\ (i + 1) % 2 = 0 /\ i \div 2 = k /\ (i + 1) \div 2 = k + 1
      BY <2>8
    <3>2. Pending16(v, i + 1) = 0 /\ r.val = v[2 * k + 1] * 16 /\ i + 1 = 2 * k + 2
      BY <2>4, <2>8, <3>1 DEF Pending16
    <3>3. Append(r.out, r.val + d) = Octets16(v, k + 1)
      <4>1. d = v[2 * k + 2] /\ r.out = Octets16(v, k)
        BY <2>2, <2>4, <3>1, <3>2, Zenon
      <4>2. 2 * k + 2 <= Len(v)
        BY <1>1, <3>2
      <4>3. QED
        BY <1>1, <3>2, <4>1, <4>2, Octets16Grow, Zenon
    <3>4. i % 2 # 0
      BY <3>1
    <3>5. QED
      BY <2>4, <2>5, <2>6, <3>1, <3>2, <3>3, <3>4, Zenon
  <2>9. QED
    BY <2>1, <2>7, <2>8
<1>5. QED
  BY <1>3, <1>4

\* The loop of base 16.
Looped16(t, n, read) == read = [i \in 0..n |-> IF i = 0 THEN Base!Start ELSE Base!Read16(read[i - 1], t[i])]

LEMMA Loop16Is ==
  ASSUME NEW t
  PROVE  Base!Loop16(t) = (CHOOSE read : Looped16(t, Len(t), read))[Len(t)]
BY Zenon DEF Base!Loop16, Looped16

LEMMA Loop16Gives ==
  ASSUME NEW t \in Seq(Int), NEW v, v = Values16(t)
  PROVE  Base!Loop16(t) = Read16To(v, Len(t))
<1> DEFINE n == Len(t)
           f == [i \in 0..n |-> Read16To(v, i)]
<1>1. n \in Nat
  OBVIOUS
<1>2. Base!Start = Read16To(v, 0)
  <2>1. Sound(v, 0)
    BY DEF Sound
  <2>2. Pending16(v, 0) = 0 /\ 0 \div 2 = 0
    BY DEF Pending16
  <2>3. Octets16(v, 0) = <<>>
    BY DEF Octets16
  <2>4. QED
    BY <2>1, <2>2, <2>3, Zenon DEF Read16To, Base!Start
<1>3. ASSUME NEW i \in 0..n, i # 0
      PROVE  i - 1 \in 0..n /\ Read16To(v, i) = Base!Read16(Read16To(v, i - 1), t[i])
  <2>1. i - 1 \in 0..n - 1 /\ (i - 1) + 1 = i /\ i - 1 \in 0..n
    BY <1>1, <1>3
  <2>2. Base!Read16(Read16To(v, i - 1), t[(i - 1) + 1]) = Read16To(v, (i - 1) + 1)
    BY <2>1, Turn16
  <2>3. QED
    BY <2>1, <2>2
<1>4. Looped16(t, n, f)
  <2>1. \A i \in 0..n : f[i] = IF i = 0 THEN Base!Start ELSE Base!Read16(f[i - 1], t[i])
    BY <1>2, <1>3
  <2>2. f = [i \in 0..n |-> IF i = 0 THEN Base!Start ELSE Base!Read16(f[i - 1], t[i])]
    BY <2>1, Zenon
  <2> HIDE DEF f
  <2>3. QED
    BY <2>2, Zenon DEF Looped16
<1>5. PICK r : Looped16(t, n, r) /\ Base!Loop16(t) = r[n]
  BY <1>4, Loop16Is, Zenon
<1> DEFINE Bad == {i \in 0..n : r[i] # Read16To(v, i)}
<1>6. Bad = {}
  <2>1. SUFFICES ASSUME Bad # {} PROVE FALSE
    OBVIOUS
  <2>2. PICK k \in Bad : \A j \in Bad : k <= j
    BY <1>1, <2>1, SmallestNumber
  <2>3. k \in 0..n /\ r[k] # Read16To(v, k)
    OBVIOUS
  <2>4. \A i \in 0..n : r[i] = IF i = 0 THEN Base!Start ELSE Base!Read16(r[i - 1], t[i])
    BY <1>5 DEF Looped16
  <2>5. k # 0
    BY <1>2, <2>3, <2>4
  <2>6. k - 1 \in 0..n /\ ~(k <= k - 1)
    BY <1>1, <2>3, <2>5
  <2>7. r[k - 1] = Read16To(v, k - 1)
    BY <2>2, <2>6
  <2>8. QED
    BY <1>3, <2>3, <2>4, <2>5, <2>7
<1>7. r[n] = Read16To(v, n)
  BY <1>1, <1>6
<1>8. QED
  BY <1>5, <1>7

\* What base 16 decodes, in terms of the values of the characters.
Decoded16(v, n) == IF Sound(v, n) /\ n % 2 = 0 THEN Octets16(v, n \div 2) ELSE Base!Rejected

LEMMA Decodes16 ==
  ASSUME NEW text, NEW base \in {16, -16}, NEW t \in Seq(Int), t = Base!Before(text, {Base!NUL}),
         NEW v, v = Values16(t)
  PROVE  Base!base_decode(text, base) = Decoded16(v, Len(t))
<1>1. PICK r : r = Base!Loop16(t) /\ r = Read16To(v, Len(t))
  BY Loop16Gives
<1>2. Base!base_decode(text, base) = IF r.bad \/ r.len % 2 = 1 THEN Base!Rejected ELSE r.out
  BY <1>1, Zenon DEF Base!base_decode
<1>3. CASE Sound(v, Len(t))
  <2>1. ~r.bad /\ r.len = Len(t) /\ r.out = Octets16(v, Len(t) \div 2)
    BY <1>1, <1>3 DEF Read16To, Base!Progress
  <2>2. Len(t) % 2 = 0 <=> ~(Len(t) % 2 = 1)
    OBVIOUS
  <2>3. QED
    BY <1>2, <1>3, <2>1, <2>2, Zenon DEF Decoded16
<1>4. CASE ~Sound(v, Len(t))
  <2>1. r.bad
    BY <1>1, <1>4 DEF Read16To, Base!Failed
  <2>2. QED
    BY <1>2, <1>4, <2>1, Zenon DEF Decoded16
<1>5. QED
  BY <1>3, <1>4

\* The bits of the digits of base 16.
LEMMA Bits16 ==
  ASSUME NEW v, NEW j \in Nat \ {0}, NEW a \in 0..15, NEW b \in 0..15, v[2 * j - 1] = a, v[2 * j] = b
  PROVE  Base!Octet(v, 4, 8 * (j - 1)) = Octet16(v, j)
<1> DEFINE k == 8 * (j - 1)
<1>1. ASSUME NEW e \in 0..3 PROVE Base!Bit(v, 4, k + (e + 1)) = (a \div 2^(3 - e)) % 2
  <2>1. 1 + (((k + (e + 1)) - 1) \div 4) = 2 * j - 1 /\ ((k + (e + 1)) - 1) % 4 = e
    OBVIOUS
  <2>2. 4 - 1 - e = 3 - e
    OBVIOUS
  <2> HIDE DEF k
  <2>3. QED
    BY <2>1, <2>2 DEF Base!Bit
<1>2. ASSUME NEW e \in 0..3 PROVE Base!Bit(v, 4, k + (e + 5)) = (b \div 2^(3 - e)) % 2
  <2>1. 1 + (((k + (e + 5)) - 1) \div 4) = 2 * j /\ ((k + (e + 5)) - 1) % 4 = e
    OBVIOUS
  <2>2. 4 - 1 - e = 3 - e
    OBVIOUS
  <2> HIDE DEF k
  <2>3. QED
    BY <2>1, <2>2 DEF Base!Bit
<1> HIDE DEF k
<1>3. /\ Base!Bit(v, 4, k + 1) = (a \div 8) % 2 /\ Base!Bit(v, 4, k + 2) = (a \div 4) % 2
      /\ Base!Bit(v, 4, k + 3) = (a \div 2) % 2 /\ Base!Bit(v, 4, k + 4) = a % 2
  <2>1. 0 \in 0..3 /\ 1 \in 0..3 /\ 2 \in 0..3 /\ 3 \in 0..3
    OBVIOUS
  <2>2. 0 + 1 = 1 /\ 1 + 1 = 2 /\ 2 + 1 = 3 /\ 3 + 1 = 4
    OBVIOUS
  <2>3. 2^(3 - 0) = 8 /\ 2^(3 - 1) = 4 /\ 2^(3 - 2) = 2 /\ 2^(3 - 3) = 1
    OBVIOUS
  <2>4. a \div 1 = a
    OBVIOUS
  <2>5. QED
    BY <1>1, <2>1, <2>2, <2>3, <2>4, Zenon
<1>4. /\ Base!Bit(v, 4, k + 5) = (b \div 8) % 2 /\ Base!Bit(v, 4, k + 6) = (b \div 4) % 2
      /\ Base!Bit(v, 4, k + 7) = (b \div 2) % 2 /\ Base!Bit(v, 4, k + 8) = b % 2
  <2>1. 0 \in 0..3 /\ 1 \in 0..3 /\ 2 \in 0..3 /\ 3 \in 0..3
    OBVIOUS
  <2>2. 0 + 5 = 5 /\ 1 + 5 = 6 /\ 2 + 5 = 7 /\ 3 + 5 = 8
    OBVIOUS
  <2>3. 2^(3 - 0) = 8 /\ 2^(3 - 1) = 4 /\ 2^(3 - 2) = 2 /\ 2^(3 - 3) = 1
    OBVIOUS
  <2>4. b \div 1 = b
    OBVIOUS
  <2>5. QED
    BY <1>2, <2>1, <2>2, <2>3, <2>4, Zenon
<1>5. Base!Octet(v, 4, k) =
        128 * ((a \div 8) % 2) + 64 * ((a \div 4) % 2) + 32 * ((a \div 2) % 2) + 16 * (a % 2)
        + 8 * ((b \div 8) % 2) + 4 * ((b \div 4) % 2) + 2 * ((b \div 2) % 2) + (b % 2)
  BY <1>3, <1>4, Zenon DEF Base!Octet
<1>6. \A d \in 0..15 : 8 * ((d \div 8) % 2) + 4 * ((d \div 4) % 2) + 2 * ((d \div 2) % 2) + (d % 2) = d
  OBVIOUS
<1>7. Base!Octet(v, 4, k) = 16 * a + b
  BY <1>5, <1>6
<1>8. QED
  BY <1>7, Zenon DEF Octet16, k

\* Decoding base 16 gives what the text means.
LEMMA Means16 ==
  ASSUME NEW text, NEW base \in {16, -16}, NEW t \in Seq(Int), t = Base!Before(text, {Base!NUL})
  PROVE  Base!base_decode(text, base) = Base!Meaning(text, base)
<1>1. PICK v : v = Values16(t)
  OBVIOUS
<1>2. PICK n \in Nat : n = Len(t) /\ n = Len(v) /\ \A i \in 1..n : v[i] = -1 \/ v[i] \in 0..15
  <2>1. Len(t) \in Nat
    OBVIOUS
  <2>2. QED
    BY <1>1, <2>1, Values16Are, Zenon
<1>3. Base!Meaning(text, base) = Base!Octets(v, 4)
  BY <1>1, Zenon DEF Base!Meaning, Values16
<1>4. Base!Octets(v, 4) = IF ~Sound(v, n) \/ (4 * n) % 8 >= 4 THEN Base!Rejected
                          ELSE [j \in 1..(4 * n) \div 8 |-> Base!Octet(v, 4, 8 * (j - 1))]
  BY <1>2, Zenon DEF Base!Octets, Sound
<1>5. (4 * n) \div 8 = n \div 2 /\ ((4 * n) % 8 >= 4 <=> ~(n % 2 = 0))
  OBVIOUS
<1>6. ASSUME Sound(v, n), n % 2 = 0
      PROVE  [j \in 1..n \div 2 |-> Base!Octet(v, 4, 8 * (j - 1))] = Octets16(v, n \div 2)
  <2>1. ASSUME NEW j \in 1..n \div 2 PROVE Base!Octet(v, 4, 8 * (j - 1)) = Octet16(v, j)
    <3>1. 2 * j - 1 \in 1..n /\ 2 * j \in 1..n /\ j \in Nat \ {0}
      OBVIOUS
    <3>2. v[2 * j - 1] \in 0..15 /\ v[2 * j] \in 0..15
      <4>1. \A i \in 1..n : v[i] \in 0..15
        BY <1>2, <1>6, Zenon DEF Sound
      <4>2. QED
        BY <3>1, <4>1
    <3>3. QED
      BY <3>1, <3>2, Bits16
  <2>2. QED
    BY <2>1, Zenon DEF Octets16
<1>7. Base!base_decode(text, base) = Decoded16(v, n)
  <2>1. Base!base_decode(text, base) = Decoded16(v, Len(t))
    BY <1>1, Decodes16
  <2>2. QED
    BY <1>2, <2>1
<1>8. QED
  BY <1>3, <1>4, <1>5, <1>6, <1>7, Zenon DEF Decoded16

LEMMA ItemsOf ==
  ASSUME NEW V, NEW s \in Seq(V)
  PROVE  Len(s) \in Nat /\ \A i \in 1..Len(s) : s[i] \in V
OBVIOUS

\* A text up to the first of its end marks.
LEMMA BeforeIs ==
  ASSUME NEW t \in Seq(Int), NEW ends
  PROVE  \E n \in 0..Len(t) :
           /\ Base!Before(t, ends) = SubSeq(t, 1, n) /\ Base!Before(t, ends) \in Seq(Int)
           /\ Len(Base!Before(t, ends)) = n /\ \A i \in 1..n : Base!Before(t, ends)[i] = t[i]
           /\ \A i \in 1..n : t[i] \notin ends
           /\ n < Len(t) => t[n + 1] \in ends
<1> DEFINE Marks == {i \in 1..Len(t) : t[i] \in ends}
<1>1. Base!UpTo(t, ends) = IF Marks # {} THEN Base!Min(Marks) ELSE 0
  BY DEF Base!UpTo, Base!SelectInSeq
<1>2. PICK n \in 0..Len(t) :
        /\ Base!Before(t, ends) = SubSeq(t, 1, n) /\ \A i \in 1..n : t[i] \notin ends
        /\ n < Len(t) => t[n + 1] \in ends
  <2>1. CASE Marks = {}
    <3>1. Base!Before(t, ends) = t
      BY <1>1, <2>1, Zenon DEF Base!Before
    <3>2. t = SubSeq(t, 1, Len(t)) /\ Len(t) \in 0..Len(t)
      OBVIOUS
    <3>3. \A i \in 1..Len(t) : t[i] \notin ends
      BY <2>1
    <3>4. ~(Len(t) < Len(t))
      OBVIOUS
    <3>5. QED
      BY <3>1, <3>2, <3>3, <3>4, Zenon
  <2>2. CASE Marks # {}
    <3>1. PICK m \in Marks : \A k \in Marks : m <= k
      <4>1. Marks \subseteq 0..Len(t) /\ Len(t) \in Nat
        OBVIOUS
      <4> HIDE DEF Marks
      <4>2. QED
        BY <2>2, <4>1, SmallestNumber
    <3>2. PICK k \in Marks : k = Base!Min(Marks) /\ \A j \in Marks : k <= j
      <4> HIDE DEF Marks
      <4>1. QED
        BY <3>1 DEF Base!Min
    <3>3. Base!UpTo(t, ends) = k /\ k \in 1..Len(t) /\ t[k] \in ends
      BY <1>1, <2>2, <3>2
    <3>4. k # 0 /\ k - 1 \in 0..Len(t) /\ (k - 1) + 1 = k
      BY <3>3
    <3>5. Base!Before(t, ends) = SubSeq(t, 1, k - 1)
      BY <3>3, <3>4, Zenon DEF Base!Before
    <3>6. \A i \in 1..k - 1 : t[i] \notin ends
      <4>1. ASSUME NEW i \in 1..k - 1 PROVE t[i] \notin ends
        <5>1. i \in 1..Len(t) /\ ~(k <= i)
          BY <3>3
        <5>2. QED
          BY <3>2, <5>1
      <4>2. QED
        BY <4>1
    <3>7. QED
      BY <3>3, <3>4, <3>5, <3>6, Zenon
  <2>3. QED
    BY <2>1, <2>2
<1>3. PICK u : u = SubSeq(t, 1, n)
  OBVIOUS
<1>4. u \in Seq(Int) /\ Len(u) = n /\ \A i \in 1..n : u[i] = t[i]
  BY <1>3
<1>5. QED
  BY <1>2, <1>3, <1>4, Zenon

\* The characters of base 16.
LEMMA Digit16Is ==
  ASSUME NEW d \in 0..15, NEW base \in {16, -16}
  PROVE  /\ Base!base16_digit(d, base) \in Int /\ Base!base16_digit(d, base) # 0
         /\ Base!Value16(Base!base16_digit(d, base)) = d
<1>1. PICK c \in Int : /\ c = Base!base16_digit(d, base)
                       /\ (d < 10 /\ c = d + 48) \/ (d >= 10 /\ c = d + 55) \/ (d >= 10 /\ c = d + 87)
  BY DEF Base!base16_digit
<1>2. c # 0 /\ Base!Value16(c) = d
  <2>1. CASE d < 10 /\ c = d + 48
    BY <2>1 DEF Base!Value16
  <2>2. CASE d >= 10 /\ c = d + 55
    BY <2>2 DEF Base!Value16
  <2>3. CASE d >= 10 /\ c = d + 87
    BY <2>3 DEF Base!Value16
  <2>4. QED
    BY <1>1, <2>1, <2>2, <2>3
<1>3. QED
  BY <1>1, <1>2

Nibble(src, i) == IF i % 2 = 1 THEN src[(i + 1) \div 2] \div 16 ELSE src[i \div 2] % 16

\* Base 16 decodes what it has encoded.
LEMMA Inverts16 ==
  ASSUME NEW src \in Seq(0..255), NEW base \in {16, -16}
  PROVE  Base!base_decode(Base!base_encode(src, base), base) = src
<1>1. PICK n \in Nat : n = Len(src) /\ \A i \in 1..n : src[i] \in 0..255 /\ src[i] \in Int
  <2>1. Len(src) \in Nat /\ \A i \in 1..Len(src) : src[i] \in 0..255
    BY ItemsOf, Zenon
  <2>2. \A x \in 0..255 : x \in Int
    OBVIOUS
  <2>3. QED
    BY <2>1, <2>2, Zenon
<1>2. ASSUME NEW i \in 1..2 * n PROVE Nibble(src, i) \in 0..15
  <2>1. CASE i % 2 = 1
    <3>1. (i + 1) \div 2 \in 1..n
      BY <2>1
    <3>2. PICK c \in 0..255 : c = src[(i + 1) \div 2]
      BY <1>1, <3>1
    <3>3. c \div 16 \in 0..15
      OBVIOUS
    <3>4. QED
      BY <2>1, <3>2, <3>3 DEF Nibble
  <2>2. CASE ~(i % 2 = 1)
    <3>1. i \div 2 \in 1..n
      BY <2>2
    <3>2. PICK c \in 0..255 : c = src[i \div 2]
      BY <1>1, <3>1
    <3>3. c % 16 \in 0..15
      OBVIOUS
    <3>4. QED
      BY <2>2, <3>2, <3>3 DEF Nibble
  <2>3. QED
    BY <2>1, <2>2
<1>3. PICK t : t = [i \in 1..2 * n |-> Base!base16_digit(Nibble(src, i), base)] /\ t = Base!base_encode(src, base)
  BY <1>1, Zenon DEF Base!base_encode, Nibble
<1>4. /\ t \in Seq(Int) /\ Len(t) = 2 * n
      /\ \A i \in 1..2 * n : t[i] # 0 /\ Base!Value16(t[i]) = Nibble(src, i)
  <2>1. \A i \in 1..2 * n : /\ Base!base16_digit(Nibble(src, i), base) \in Int
                            /\ Base!base16_digit(Nibble(src, i), base) # 0
                            /\ Base!Value16(Base!base16_digit(Nibble(src, i), base)) = Nibble(src, i)
    BY <1>2, Digit16Is
  <2>2. QED
    BY <1>3, <2>1
<1>5. Base!Before(t, {Base!NUL}) = t
  <2>1. PICK k \in 0..Len(t) : Base!Before(t, {Base!NUL}) = SubSeq(t, 1, k) /\ (k < Len(t) => t[k + 1] \in {Base!NUL})
    BY <1>4, BeforeIs, Zenon
  <2>2. Base!NUL = 0
    BY DEF Base!NUL
  <2>3. k = 2 * n
    <3>1. ASSUME k < 2 * n PROVE FALSE
      <4>1. k + 1 \in 1..2 * n
        BY <3>1
      <4>2. QED
        BY <1>4, <2>1, <2>2, <3>1, <4>1
    <3>2. QED
      BY <1>4, <3>1
  <2>4. SubSeq(t, 1, 2 * n) = t
    BY <1>4
  <2>5. QED
    BY <2>1, <2>3, <2>4
<1>6. PICK v : v = Values16(t) /\ \A i \in 1..2 * n : v[i] = Nibble(src, i)
  BY <1>4, Values16Are, ZenonT(60)
<1>7. Base!base_decode(t, base) = Decoded16(v, 2 * n)
  <2>1. t \in Seq(Int) /\ t = Base!Before(t, {Base!NUL}) /\ v = Values16(t)
    BY <1>4, <1>5, <1>6, Zenon
  <2>2. Base!base_decode(t, base) = Decoded16(v, Len(t))
    BY <2>1, Decodes16, ZenonT(60)
  <2>3. QED
    BY <1>4, <2>2
<1>8. Sound(v, 2 * n)
  <2>1. \A d \in 0..15 : d # -1
    OBVIOUS
  <2>2. QED
    BY <1>2, <1>6, <2>1, Zenon DEF Sound
<1>9. Octets16(v, n) = src
  <2>1. ASSUME NEW j \in 1..n PROVE Octet16(v, j) = src[j]
    <3>1. PICK c \in 0..255 : c = src[j]
      BY <1>1
    <3>2. 2 * j - 1 \in 1..2 * n /\ 2 * j \in 1..2 * n /\ (2 * j - 1) % 2 = 1 /\ ~((2 * j) % 2 = 1)
          /\ ((2 * j - 1) + 1) \div 2 = j /\ (2 * j) \div 2 = j
      BY <1>1
    <3>3. v[2 * j - 1] = c \div 16 /\ v[2 * j] = c % 16
      BY <1>6, <3>1, <3>2, Zenon DEF Nibble
    <3>4. 16 * (c \div 16) + (c % 16) = c
      OBVIOUS
    <3>5. QED
      BY <3>1, <3>3, <3>4, Zenon DEF Octet16
  <2>2. Octets16(v, n) = [j \in 1..n |-> src[j]]
    BY <2>1, Zenon DEF Octets16
  <2>3. [j \in 1..n |-> src[j]] = src
    BY <1>1
  <2>4. QED
    BY <2>2, <2>3
<1>10. (2 * n) % 2 = 0 /\ (2 * n) \div 2 = n
  OBVIOUS
<1>11. QED
  BY <1>3, <1>7, <1>8, <1>9, <1>10, Zenon DEF Decoded16

\* Base 64: the j-th byte, of the digits it has bits of.
Octet64(v, j) ==
  LET i == j + ((j - 1) \div 3)
  IN CASE j % 3 = 1 -> v[i] * 4 + (v[i + 1] \div 16)
       [] j % 3 = 2 -> (v[i] % 16) * 16 + (v[i + 1] \div 4)
       [] j % 3 = 0 -> (v[i] % 4) * 64 + v[i + 1]
Octets64(v, n) == [j \in 1..n |-> Octet64(v, j)]
Pending64(v, i) ==
  CASE i % 4 = 0 -> 0
    [] i % 4 = 1 -> v[i] * 64
    [] i % 4 = 2 -> (v[i - 1] * 64 + v[i]) * 64
    [] i % 4 = 3 -> ((v[i - 2] * 64 + v[i - 1]) * 64 + v[i]) * 64
Read64To(v, i) ==
  IF Sound(v, i) THEN Base!Progress(i, Pending64(v, i), Octets64(v, 3 * (i \div 4))) ELSE Base!Failed

LEMMA Octet64Is ==
  ASSUME NEW v, NEW q \in Nat
  PROVE  /\ Octet64(v, 3 * q + 1) = v[4 * q + 1] * 4 + (v[4 * q + 2] \div 16)
         /\ Octet64(v, 3 * q + 2) = (v[4 * q + 2] % 16) * 16 + (v[4 * q + 3] \div 4)
         /\ Octet64(v, 3 * q + 3) = (v[4 * q + 3] % 4) * 64 + v[4 * q + 4]
<1>1. /\ (3 * q + 1) % 3 = 1 /\ (3 * q + 1) + (((3 * q + 1) - 1) \div 3) = 4 * q + 1
      /\ (3 * q + 2) % 3 = 2 /\ (3 * q + 2) + (((3 * q + 2) - 1) \div 3) = 4 * q + 2
      /\ (3 * q + 3) % 3 = 0 /\ (3 * q + 3) + (((3 * q + 3) - 1) \div 3) = 4 * q + 3
      /\ (4 * q + 1) + 1 = 4 * q + 2 /\ (4 * q + 2) + 1 = 4 * q + 3 /\ (4 * q + 3) + 1 = 4 * q + 4
  OBVIOUS
<1>2. 0 # 1 /\ 0 # 2 /\ 1 # 2
  OBVIOUS
<1>3. Octet64(v, 3 * q + 1) = v[4 * q + 1] * 4 + (v[4 * q + 2] \div 16)
  <2>1. Octet64(v, 3 * q + 1) =
          v[(3 * q + 1) + (((3 * q + 1) - 1) \div 3)] * 4 + (v[((3 * q + 1) + (((3 * q + 1) - 1) \div 3)) + 1] \div 16)
    BY <1>1, <1>2 DEF Octet64
  <2>2. QED
    BY <1>1, <2>1, Zenon
<1>4. Octet64(v, 3 * q + 2) = (v[4 * q + 2] % 16) * 16 + (v[4 * q + 3] \div 4)
  <2>1. Octet64(v, 3 * q + 2) =
          (v[(3 * q + 2) + (((3 * q + 2) - 1) \div 3)] % 16) * 16 + (v[((3 * q + 2) + (((3 * q + 2) - 1) \div 3)) + 1] \div 4)
    BY <1>1, <1>2 DEF Octet64
  <2>2. QED
    BY <1>1, <2>1, Zenon
<1>5. Octet64(v, 3 * q + 3) = (v[4 * q + 3] % 4) * 64 + v[4 * q + 4]
  <2>1. Octet64(v, 3 * q + 3) =
          (v[(3 * q + 3) + (((3 * q + 3) - 1) \div 3)] % 4) * 64 + v[((3 * q + 3) + (((3 * q + 3) - 1) \div 3)) + 1]
    BY <1>1, <1>2 DEF Octet64
  <2>2. QED
    BY <1>1, <2>1, Zenon
<1>6. QED
  BY <1>3, <1>4, <1>5

LEMMA Pending64Is ==
  ASSUME NEW v, NEW q \in Nat
  PROVE  /\ Pending64(v, 4 * q) = 0
         /\ Pending64(v, 4 * q + 1) = v[4 * q + 1] * 64
         /\ Pending64(v, 4 * q + 2) = (v[4 * q + 1] * 64 + v[4 * q + 2]) * 64
         /\ Pending64(v, 4 * q + 3) = ((v[4 * q + 1] * 64 + v[4 * q + 2]) * 64 + v[4 * q + 3]) * 64
<1>1. /\ (4 * q) % 4 = 0 /\ (4 * q + 1) % 4 = 1 /\ (4 * q + 2) % 4 = 2 /\ (4 * q + 3) % 4 = 3
      /\ (4 * q + 2) - 1 = 4 * q + 1 /\ (4 * q + 3) - 1 = 4 * q + 2 /\ (4 * q + 3) - 2 = 4 * q + 1
  OBVIOUS
<1>2. 0 # 1 /\ 0 # 2 /\ 0 # 3 /\ 1 # 2 /\ 1 # 3 /\ 2 # 3
  OBVIOUS
<1>3. Pending64(v, 4 * q) = 0 /\ Pending64(v, 4 * q + 1) = v[4 * q + 1] * 64
  BY <1>1, <1>2 DEF Pending64
<1>4. Pending64(v, 4 * q + 2) = (v[(4 * q + 2) - 1] * 64 + v[4 * q + 2]) * 64
  BY <1>1, <1>2 DEF Pending64
<1>5. Pending64(v, 4 * q + 3) = ((v[(4 * q + 3) - 2] * 64 + v[(4 * q + 3) - 1]) * 64 + v[4 * q + 3]) * 64
  BY <1>1, <1>2 DEF Pending64
<1>6. QED
  BY <1>1, <1>3, <1>4, <1>5, Zenon

\* The bytes of a group of four digits.
Composed(val, a, b, c, d) == val = ((a * 64 + b) * 64 + c) * 64 + d
Parted(val, a, b, c, d) ==
  Base!Bytes(val) = <<a * 4 + (b \div 16), (b % 16) * 16 + (c \div 4), (c % 4) * 64 + d>>

LEMMA GroupOf64 ==
  ASSUME NEW a \in 0..63, NEW b \in 0..63, NEW c \in 0..63, NEW d \in 0..63,
         NEW val, Composed(val, a, b, c, d)
  PROVE  Parted(val, a, b, c, d)
<1>1. /\ val \div 65536 = a * 4 + (b \div 16) /\ (val \div 256) % 256 = (b % 16) * 16 + (c \div 4)
      /\ val % 256 = (c % 4) * 64 + d
  BY DEF Composed
<1>2. QED
  BY <1>1 DEF Base!Bytes, Parted

LEMMA Octets64Row ==
  ASSUME NEW v, NEW n \in Nat, \A j \in 1..n : Octet64(v, j) \in Int
  PROVE  \E o \in Seq(Int) : o = Octets64(v, n) /\ Len(o) = n /\ \A j \in 1..n : o[j] = Octet64(v, j)
<1>1. /\ Octets64(v, n) \in Seq(Int) /\ Len(Octets64(v, n)) = n
      /\ \A j \in 1..n : Octets64(v, n)[j] = Octet64(v, j)
  BY DEF Octets64
<1>2. QED
  BY <1>1, Zenon

Triple(w, x, y, z) == w \in Seq(Int) /\ Len(w) = 3 /\ w[1] = x /\ w[2] = y /\ w[3] = z

LEMMA TripleIs ==
  ASSUME NEW x \in Int, NEW y \in Int, NEW z \in Int
  PROVE  Triple(<<x, y, z>>, x, y, z)
<1>1. /\ <<x, y, z>> \in Seq(Int) /\ Len(<<x, y, z>>) = 3
      /\ <<x, y, z>>[1] = x /\ <<x, y, z>>[2] = y /\ <<x, y, z>>[3] = z
  OBVIOUS
<1>2. QED
  BY <1>1 DEF Triple

\* The values of a sound text are digits.
LEMMA SoundDigits ==
  ASSUME NEW t \in Seq(Int), NEW v, v = Values64(t), NEW n \in 0..Len(t), Sound(v, n)
  PROVE  \A i \in 1..n : v[i] \in 0..63
<1>1. \A i \in 1..n : i \in 1..Len(t)
  OBVIOUS
<1>2. \A i \in 1..n : v[i] = -1 \/ v[i] \in 0..63
  BY <1>1, Values64Are, Zenon
<1>3. QED
  BY <1>2, Zenon DEF Sound

\* One more group of four digits.
LEMMA Octets64Grow ==
  ASSUME NEW q \in Nat, NEW v, \A i \in 1..4 * q + 4 : v[i] \in 0..63,
         NEW val, val = ((v[4 * q + 1] * 64 + v[4 * q + 2]) * 64 + v[4 * q + 3]) * 64 + v[4 * q + 4]
  PROVE  Octets64(v, 3 * q) \o Base!Bytes(val) = Octets64(v, 3 * (q + 1))
<1>1. \A p \in 0..q : 4 * p + 1 \in 1..4 * q + 4 /\ 4 * p + 2 \in 1..4 * q + 4 /\ 4 * p + 3 \in 1..4 * q + 4 /\ 4 * p + 4 \in 1..4 * q + 4
  OBVIOUS
<1>2. ASSUME NEW j \in 1..3 * q + 3 PROVE Octet64(v, j) \in Int
  <2>1. PICK p \in 0..q : j = 3 * p + 1 \/ j = 3 * p + 2 \/ j = 3 * p + 3
    <3>1. (j - 1) \div 3 \in 0..q
      OBVIOUS
    <3>2. \/ j = 3 * ((j - 1) \div 3) + 1 \/ j = 3 * ((j - 1) \div 3) + 2 \/ j = 3 * ((j - 1) \div 3) + 3
      OBVIOUS
    <3>3. QED
      BY <3>1, <3>2, Zenon
  <2>2. PICK a \in 0..63, b \in 0..63, c \in 0..63, d \in 0..63 :
          a = v[4 * p + 1] /\ b = v[4 * p + 2] /\ c = v[4 * p + 3] /\ d = v[4 * p + 4]
    BY <1>1, Zenon
  <2>3. p \in Nat
    OBVIOUS
  <2>4. \/ Octet64(v, j) = a * 4 + (b \div 16) \/ Octet64(v, j) = (b % 16) * 16 + (c \div 4)
        \/ Octet64(v, j) = (c % 4) * 64 + d
    <3>1. /\ Octet64(v, 3 * p + 1) = a * 4 + (b \div 16) /\ Octet64(v, 3 * p + 2) = (b % 16) * 16 + (c \div 4)
          /\ Octet64(v, 3 * p + 3) = (c % 4) * 64 + d
      BY <2>2, <2>3, Octet64Is, Zenon
    <3>2. QED
      BY <2>1, <3>1, Zenon
  <2>5. a * 4 + (b \div 16) \in Int /\ (b % 16) * 16 + (c \div 4) \in Int /\ (c % 4) * 64 + d \in Int
    OBVIOUS
  <2>6. QED
    BY <2>4, <2>5, Zenon
<1>3. PICK o \in Seq(Int) : o = Octets64(v, 3 * q) /\ Len(o) = 3 * q /\ \A j \in 1..3 * q : o[j] = Octet64(v, j)
  <2>1. 3 * q \in Nat /\ \A j \in 1..3 * q : j \in 1..3 * q + 3
    OBVIOUS
  <2>2. QED
    BY <1>2, <2>1, Octets64Row, Zenon
<1>4. PICK u \in Seq(Int) : u = Octets64(v, 3 * (q + 1)) /\ Len(u) = 3 * q + 3 /\ \A j \in 1..3 * q + 3 : u[j] = Octet64(v, j)
  <2>1. 3 * (q + 1) = 3 * q + 3 /\ 3 * q + 3 \in Nat
    OBVIOUS
  <2>2. QED
    BY <1>2, <2>1, Octets64Row, Zenon
<1>5. PICK a \in 0..63, b \in 0..63, c \in 0..63, d \in 0..63 :
        a = v[4 * q + 1] /\ b = v[4 * q + 2] /\ c = v[4 * q + 3] /\ d = v[4 * q + 4]
  <2>1. q \in 0..q
    OBVIOUS
  <2>2. QED
    BY <1>1, <2>1, Zenon
<1>6. PICK x \in Int, y \in Int, z \in Int : Base!Bytes(val) = <<x, y, z>>
        /\ x = Octet64(v, 3 * q + 1) /\ y = Octet64(v, 3 * q + 2) /\ z = Octet64(v, 3 * q + 3)
  <2>1. Base!Bytes(val) = <<a * 4 + (b \div 16), (b % 16) * 16 + (c \div 4), (c % 4) * 64 + d>>
    <3>1. Composed(val, a, b, c, d)
      BY <1>5 DEF Composed
    <3>2. Parted(val, a, b, c, d)
      BY <3>1, GroupOf64, Zenon
    <3>3. QED
      BY <3>2, Zenon DEF Parted
  <2>2. /\ a * 4 + (b \div 16) = Octet64(v, 3 * q + 1) /\ (b % 16) * 16 + (c \div 4) = Octet64(v, 3 * q + 2)
        /\ (c % 4) * 64 + d = Octet64(v, 3 * q + 3)
    BY <1>5, Octet64Is, Zenon
  <2>3. a * 4 + (b \div 16) \in Int /\ (b % 16) * 16 + (c \div 4) \in Int /\ (c % 4) * 64 + d \in Int
    OBVIOUS
  <2>4. QED
    BY <2>1, <2>2, <2>3, Zenon
<1>7. PICK w \in Seq(Int) : w = <<x, y, z>> /\ Len(w) = 3 /\ w[1] = x /\ w[2] = y /\ w[3] = z
  <2>1. Triple(<<x, y, z>>, x, y, z)
    BY TripleIs
  <2>2. PICK w : w = <<x, y, z>>
    OBVIOUS
  <2>3. QED
    BY <2>1, <2>2, Zenon DEF Triple
<1>8. PICK s \in Seq(Int) : s = o \o w /\ Len(s) = 3 * q + 3 /\ (\A j \in 1..3 * q : s[j] = o[j])
        /\ \A j \in 1..3 : s[3 * q + j] = w[j]
  <2>1. Two(Int, o, 3 * q, w, 3, o \o w)
    BY <1>3, <1>7, InTwo, ZenonT(60)
  <2>2. QED
    BY <2>1, Zenon DEF Two
<1>9. ASSUME NEW j \in 1..3 * q + 3 PROVE s[j] = u[j]
  <2>1. j \in 1..3 * q \/ j = 3 * q + 1 \/ j = 3 * q + 2 \/ j = 3 * q + 3
    OBVIOUS
  <2>2. CASE j \in 1..3 * q
    BY <1>3, <1>4, <1>8, <2>2, Zenon
  <2>3. 1 \in 1..3 /\ 2 \in 1..3 /\ 3 \in 1..3
    OBVIOUS
  <2>4. /\ s[3 * q + 1] = Octet64(v, 3 * q + 1) /\ s[3 * q + 2] = Octet64(v, 3 * q + 2)
        /\ s[3 * q + 3] = Octet64(v, 3 * q + 3)
    BY <1>6, <1>7, <1>8, <2>3, Zenon
  <2>5. u[j] = Octet64(v, j)
    BY <1>4, Zenon
  <2>6. QED
    BY <2>1, <2>2, <2>4, <2>5, Zenon
<1>10. s = u
  BY <1>4, <1>8, <1>9, SameRows
<1>11. QED
  BY <1>3, <1>4, <1>6, <1>7, <1>8, <1>10, Zenon


\* A turn of the loop of base 64.
Reads64(t, v, i) == Base!Read64(Read64To(v, i), t[i + 1]) = Read64To(v, i + 1)

LEMMA Turn64 ==
  ASSUME NEW t \in Seq(Int), NEW v, v = Values64(t), NEW i \in 0..Len(t) - 1
  PROVE  Reads64(t, v, i)
<1>1. /\ v \in Seq(Int) /\ Len(v) = Len(t) /\ i + 1 \in 1..Len(t)
      /\ v[i + 1] = Base!Value64(t[i + 1]) /\ v[i + 1] \in Int
  BY Values64Are
<1>2. Sound(v, i + 1) <=> Sound(v, i) /\ v[i + 1] # -1
  <2>1. 1..i + 1 = (1..i) \cup {i + 1}
    OBVIOUS
  <2>2. QED
    BY <2>1, Zenon DEF Sound
<1>3. CASE ~Sound(v, i + 1)
  <2>1. CASE Sound(v, i)
    BY <1>1, <1>2, <1>3, <2>1, Zenon DEF Base!Read64, Read64To, Reads64
  <2>2. CASE ~Sound(v, i)
    <3>1. Base!Failed.bad
      BY DEF Base!Failed
    <3>2. QED
      BY <1>2, <2>2, <3>1, Zenon DEF Base!Read64, Read64To, Reads64
  <2>3. QED
    BY <2>1, <2>2
<1>4. CASE Sound(v, i + 1)
  <2>1. PICK q \in Nat : i = 4 * q \/ i = 4 * q + 1 \/ i = 4 * q + 2 \/ i = 4 * q + 3
    <3>1. \/ i = 4 * (i \div 4) \/ i = 4 * (i \div 4) + 1 \/ i = 4 * (i \div 4) + 2 \/ i = 4 * (i \div 4) + 3
      OBVIOUS
    <3>2. i \div 4 \in Nat
      OBVIOUS
    <3>3. QED
      BY <3>1, <3>2, Zenon
  <2>2. PICK d : d = v[i + 1] /\ d \in Int
    BY <1>1
  <2>3. PICK r : r = Read64To(v, i) /\ r.len = i /\ r.val = Pending64(v, i)
                 /\ r.out = Octets64(v, 3 * (i \div 4)) /\ ~r.bad
    <3>1. PICK r : r = Base!Progress(i, Pending64(v, i), Octets64(v, 3 * (i \div 4)))
      OBVIOUS
    <3>2. r.len = i /\ r.val = Pending64(v, i) /\ r.out = Octets64(v, 3 * (i \div 4)) /\ ~r.bad
      BY <3>1 DEF Base!Progress
    <3>3. r = Read64To(v, i)
      BY <1>2, <1>4, <3>1, Zenon DEF Read64To
    <3>4. QED
      BY <3>2, <3>3, Zenon
  <2>4. Read64To(v, i + 1) = Base!Progress(i + 1, Pending64(v, i + 1), Octets64(v, 3 * ((i + 1) \div 4)))
    BY <1>4, Zenon DEF Read64To
  <2>5. Base!Read64(r, t[i + 1]) =
          IF (i + 1) % 4 # 0 THEN Base!Progress(i + 1, (r.val + d) * 64, r.out)
          ELSE Base!Progress(i + 1, 0, r.out \o Base!Bytes(r.val + d))
    BY <1>1, <1>2, <1>4, <2>2, <2>3, Zenon DEF Base!Read64
  <2>6. CASE i # 4 * q + 3
    <3>1. (i + 1) % 4 # 0 /\ (i + 1) \div 4 = i \div 4
      BY <2>1, <2>6
    <3>2. Pending64(v, i + 1) = (r.val + d) * 64
      <4>1. CASE i = 4 * q
        <5>1. r.val = 0 /\ Pending64(v, i + 1) = d * 64
          BY <2>2, <2>3, <4>1, Pending64Is, ZenonT(60)
        <5>2. QED
          BY <2>2, <5>1
      <4>2. CASE i = 4 * q + 1
        <5>1. i + 1 = 4 * q + 2
          BY <4>2
        <5>2. r.val = v[4 * q + 1] * 64 /\ Pending64(v, i + 1) = (v[4 * q + 1] * 64 + d) * 64
          BY <2>2, <2>3, <4>2, <5>1, Pending64Is, ZenonT(60)
        <5>3. QED
          BY <5>2, Zenon
      <4>3. CASE i = 4 * q + 2
        <5>1. i + 1 = 4 * q + 3
          BY <4>3
        <5>2. r.val = (v[4 * q + 1] * 64 + v[4 * q + 2]) * 64
          BY <2>3, <4>3, Pending64Is, Zenon
        <5>3. Pending64(v, i + 1) = ((v[4 * q + 1] * 64 + v[4 * q + 2]) * 64 + d) * 64
          BY <2>2, <5>1, Pending64Is, ZenonT(60)
        <5>4. QED
          BY <5>2, <5>3, Zenon
      <4>4. QED
        BY <2>1, <2>6, <4>1, <4>2, <4>3
    <3>3. QED
      BY <2>3, <2>4, <2>5, <3>1, <3>2, Zenon DEF Reads64
  <2>7. CASE i = 4 * q + 3
    <3>1. (i + 1) % 4 = 0 /\ i \div 4 = q /\ (i + 1) \div 4 = q + 1 /\ i + 1 = 4 * q + 4 /\ i + 1 = 4 * (q + 1)
          /\ q + 1 \in Nat
      BY <2>7
    <3>2. r.val = ((v[4 * q + 1] * 64 + v[4 * q + 2]) * 64 + v[4 * q + 3]) * 64
      BY <2>3, <2>7, Pending64Is, Zenon
    <3>3. Pending64(v, i + 1) = 0
      <4>1. PICK m \in Nat : m = q + 1 /\ i + 1 = 4 * m
        BY <3>1
      <4>2. Pending64(v, 4 * m) = 0
        BY Pending64Is
      <4>3. QED
        BY <4>1, <4>2, Zenon
    <3>4. \A k \in 1..4 * q + 4 : v[k] \in 0..63
      <4>1. 4 * q + 4 \in 0..Len(t)
        BY <1>1, <2>7
      <4>2. Sound(v, 4 * q + 4)
        BY <1>4, <3>1, Zenon
      <4>3. QED
        BY <4>1, <4>2, SoundDigits, Zenon
    <3>5. r.val + d = ((v[4 * q + 1] * 64 + v[4 * q + 2]) * 64 + v[4 * q + 3]) * 64 + v[4 * q + 4]
      BY <2>2, <3>1, <3>2, Zenon
    <3>6. Octets64(v, 3 * q) \o Base!Bytes(r.val + d) = Octets64(v, 3 * (q + 1))
      BY <3>4, <3>5, Octets64Grow, Zenon
    <3>7. QED
      BY <2>3, <2>4, <2>5, <3>1, <3>3, <3>6, Zenon DEF Reads64
  <2>8. QED
    BY <2>6, <2>7
<1>5. QED
  BY <1>3, <1>4

\* The loop of base 64.
Looped64(t, n, read) == read = [i \in 0..n |-> IF i = 0 THEN Base!Start ELSE Base!Read64(read[i - 1], t[i])]

LEMMA Loop64Is ==
  ASSUME NEW t
  PROVE  Base!Loop64(t) = (CHOOSE read : Looped64(t, Len(t), read))[Len(t)]
BY Zenon DEF Base!Loop64, Looped64

LEMMA Loop64Gives ==
  ASSUME NEW t \in Seq(Int), NEW v, v = Values64(t)
  PROVE  Base!Loop64(t) = Read64To(v, Len(t))
<1> DEFINE n == Len(t)
           f == [i \in 0..n |-> Read64To(v, i)]
<1>1. n \in Nat
  OBVIOUS
<1>2. Base!Start = Read64To(v, 0)
  <2>1. Sound(v, 0)
    BY DEF Sound
  <2>2. Pending64(v, 0) = 0 /\ 3 * (0 \div 4) = 0
    BY DEF Pending64
  <2>3. Octets64(v, 0) = <<>>
    BY DEF Octets64
  <2>4. QED
    BY <2>1, <2>2, <2>3, Zenon DEF Read64To, Base!Start
<1>3. ASSUME NEW i \in 0..n, i # 0
      PROVE  i - 1 \in 0..n /\ Read64To(v, i) = Base!Read64(Read64To(v, i - 1), t[i])
  <2>1. i - 1 \in 0..n - 1 /\ (i - 1) + 1 = i /\ i - 1 \in 0..n
    BY <1>1, <1>3
  <2>2. Base!Read64(Read64To(v, i - 1), t[(i - 1) + 1]) = Read64To(v, (i - 1) + 1)
    BY <2>1, Turn64, Zenon DEF Reads64
  <2>3. QED
    BY <2>1, <2>2
<1>4. Looped64(t, n, f)
  <2>1. \A i \in 0..n : f[i] = IF i = 0 THEN Base!Start ELSE Base!Read64(f[i - 1], t[i])
    BY <1>2, <1>3
  <2>2. f = [i \in 0..n |-> IF i = 0 THEN Base!Start ELSE Base!Read64(f[i - 1], t[i])]
    BY <2>1, Zenon
  <2> HIDE DEF f
  <2>3. QED
    BY <2>2, Zenon DEF Looped64
<1>5. PICK r : Looped64(t, n, r) /\ Base!Loop64(t) = r[n]
  BY <1>4, Loop64Is, Zenon
<1> DEFINE Bad == {i \in 0..n : r[i] # Read64To(v, i)}
<1>6. Bad = {}
  <2>1. SUFFICES ASSUME Bad # {} PROVE FALSE
    OBVIOUS
  <2>2. PICK k \in Bad : \A j \in Bad : k <= j
    BY <1>1, <2>1, SmallestNumber
  <2>3. k \in 0..n /\ r[k] # Read64To(v, k)
    OBVIOUS
  <2>4. \A i \in 0..n : r[i] = IF i = 0 THEN Base!Start ELSE Base!Read64(r[i - 1], t[i])
    BY <1>5 DEF Looped64
  <2>5. k # 0
    BY <1>2, <2>3, <2>4
  <2>6. k - 1 \in 0..n /\ ~(k <= k - 1)
    BY <1>1, <2>3, <2>5
  <2>7. r[k - 1] = Read64To(v, k - 1)
    BY <2>2, <2>6
  <2>8. QED
    BY <1>3, <2>3, <2>4, <2>5, <2>7
<1>7. r[n] = Read64To(v, n)
  BY <1>1, <1>6
<1>8. QED
  BY <1>5, <1>7

LEMMA Octet64Int ==
  ASSUME NEW m \in Nat, NEW v, \A i \in 1..m : v[i] \in 0..63,
         NEW j \in Nat \ {0}, j + ((j - 1) \div 3) + 1 <= m
  PROVE  Octet64(v, j) \in Int
<1>1. PICK i \in 1..m : i = j + ((j - 1) \div 3) /\ i + 1 \in 1..m
  OBVIOUS
<1>2. PICK a \in 0..63, b \in 0..63 : a = v[i] /\ b = v[i + 1]
  BY <1>1, Zenon
<1>3. a * 4 + (b \div 16) \in Int /\ (a % 16) * 16 + (b \div 4) \in Int /\ (a % 4) * 64 + b \in Int
  OBVIOUS
<1>4. \/ j % 3 = 1 \/ j % 3 = 2 \/ j % 3 = 0
  OBVIOUS
<1>5. 0 # 1 /\ 0 # 2 /\ 1 # 2
  OBVIOUS
<1>6. \/ Octet64(v, j) = a * 4 + (b \div 16) \/ Octet64(v, j) = (a % 16) * 16 + (b \div 4)
      \/ Octet64(v, j) = (a % 4) * 64 + b
  <2>1. CASE j % 3 = 1
    BY <1>1, <1>2, <1>5, <2>1 DEF Octet64
  <2>2. CASE j % 3 = 2
    BY <1>1, <1>2, <1>5, <2>2 DEF Octet64
  <2>3. CASE j % 3 = 0
    BY <1>1, <1>2, <1>5, <2>3 DEF Octet64
  <2>4. QED
    BY <1>4, <2>1, <2>2, <2>3
<1>7. QED
  BY <1>3, <1>6, Zenon

\* One more byte.
LEMMA Octets64Append ==
  ASSUME NEW v, NEW k \in Nat, \A j \in 1..k + 1 : Octet64(v, j) \in Int
  PROVE  Octets64(v, k + 1) = Append(Octets64(v, k), Octet64(v, k + 1)) /\ Octets64(v, k) \in Seq(Int)
<1>1. k + 1 \in Nat /\ (\A j \in 1..k : j \in 1..k + 1) /\ k + 1 \in 1..k + 1
  OBVIOUS
<1>2. PICK a \in Seq(Int) : a = Octets64(v, k) /\ Len(a) = k /\ \A j \in 1..k : a[j] = Octet64(v, j)
  BY <1>1, Octets64Row, Zenon
<1>3. PICK b \in Seq(Int) : b = Octets64(v, k + 1) /\ Len(b) = k + 1 /\ \A j \in 1..k + 1 : b[j] = Octet64(v, j)
  BY <1>1, Octets64Row, Zenon
<1>4. PICK u \in Seq(Int) : u = Append(a, Octet64(v, k + 1)) /\ Len(u) = k + 1
        /\ u[k + 1] = Octet64(v, k + 1) /\ \A i \in 1..k : u[i] = a[i]
  <2>1. Appended(Int, a, k, Octet64(v, k + 1), Append(a, Octet64(v, k + 1)))
    BY <1>1, <1>2, AppendIs, Zenon
  <2>2. QED
    BY <2>1, Zenon DEF Appended
<1>5. \A i \in 1..k + 1 : i \in 1..k \/ i = k + 1
  OBVIOUS
<1>6. \A i \in 1..k + 1 : u[i] = b[i]
  BY <1>1, <1>2, <1>3, <1>4, <1>5, Zenon
<1>7. u = b
  BY <1>3, <1>4, <1>6, SameRows
<1>8. QED
  BY <1>2, <1>3, <1>4, <1>7

LEMMA AppendTwo ==
  ASSUME NEW s \in Seq(Int), NEW x \in Int, NEW y \in Int
  PROVE  s \o <<x, y>> = Append(Append(s, x), y)
OBVIOUS

\* What is left of a value at the end.
Upper(val) == (val \div 65536) % 256
Middle(val) == (val \div 256) % 256

OfThree(val, a, b, c) == val = ((a * 64 + b) * 64 + c) * 64
OfTwo(val, a, b) == val = (a * 64 + b) * 64
ThreeEnd(val, a, b, c) == Upper(val) = a * 4 + (b \div 16) /\ Middle(val) = (b % 16) * 16 + (c \div 4)
TwoEnd(val, a, b) == (val \div 1024) % 256 = a * 4 + (b \div 16)

LEMMA TailOfThree ==
  ASSUME NEW a \in 0..63, NEW b \in 0..63, NEW c \in 0..63, NEW val, OfThree(val, a, b, c)
  PROVE  ThreeEnd(val, a, b, c)
<1>1. PICK h \in 0..3, l \in 0..15, g \in 0..15, k \in 0..3 :
        h = b \div 16 /\ l = b % 16 /\ g = c \div 4 /\ k = c % 4 /\ b = 16 * h + l /\ c = 4 * g + k
  <2>1. /\ b \div 16 \in 0..3 /\ b % 16 \in 0..15 /\ c \div 4 \in 0..15 /\ c % 4 \in 0..3
        /\ b = 16 * (b \div 16) + (b % 16) /\ c = 4 * (c \div 4) + (c % 4)
    OBVIOUS
  <2>2. QED
    BY <2>1, Zenon
<1>2. val = (a * 4 + h) * 65536 + (l * 4096 + g * 256 + k * 64)
  BY <1>1 DEF OfThree
<1>3. val \div 65536 = a * 4 + h
  BY <1>2
<1>4. val \div 256 = (a * 4 + h) * 256 + (l * 16 + g)
  BY <1>2
<1>5. (val \div 256) % 256 = l * 16 + g
  BY <1>4
<1>6. QED
  BY <1>1, <1>3, <1>5 DEF Upper, Middle, ThreeEnd

LEMMA TailOfTwo ==
  ASSUME NEW a \in 0..63, NEW b \in 0..63, NEW val, OfTwo(val, a, b)
  PROVE  TwoEnd(val, a, b)
<1>1. PICK h \in 0..3, l \in 0..15 : h = b \div 16 /\ b = 16 * h + l
  <2>1. b \div 16 \in 0..3 /\ b % 16 \in 0..15 /\ b = 16 * (b \div 16) + (b % 16)
    OBVIOUS
  <2>2. QED
    BY <2>1, Zenon
<1>2. val = (a * 4 + h) * 1024 + l * 64
  BY <1>1 DEF OfTwo
<1>3. val \div 1024 = a * 4 + h
  BY <1>2
<1>4. QED
  BY <1>1, <1>3 DEF TwoEnd

TailsTo(r, e) ==
  /\ e = 0 => Base!Tail64(r) = r.out
  /\ e = 1 => Base!Tail64(r) = Base!Rejected
  /\ e = 2 => Base!Tail64(r) = Append(r.out, (r.val \div 1024) % 256)
  /\ e = 3 => Base!Tail64(r) = r.out \o <<Upper(r.val), Middle(r.val)>>

LEMMA TailCases ==
  ASSUME NEW r, NEW e, e = r.len % 4
  PROVE  TailsTo(r, e)
<1>1. Base!Tail64(r) =
        CASE e = 3 -> r.out \o <<Upper(r.val), Middle(r.val)>>
          [] e = 2 -> Append(r.out, (r.val \div 1024) % 256)
          [] e = 1 -> Base!Rejected
          [] OTHER -> r.out
  BY SMT DEF Base!Tail64, Upper, Middle
<1> DEFINE A == r.out \o <<Upper(r.val), Middle(r.val)>>
           B == Append(r.out, (r.val \div 1024) % 256)
<1>2. Base!Tail64(r) = CASE e = 3 -> A [] e = 2 -> B [] e = 1 -> Base!Rejected [] OTHER -> r.out
  BY <1>1
<1> HIDE DEF A, B
<1>3. /\ e = 0 => Base!Tail64(r) = r.out
      /\ e = 1 => Base!Tail64(r) = Base!Rejected
      /\ e = 2 => Base!Tail64(r) = B
      /\ e = 3 => Base!Tail64(r) = A
  BY <1>2
<1>4. QED
  BY <1>3 DEF A, B, TailsTo

Decoded64(v, n) == IF ~Sound(v, n) \/ n % 4 = 1 THEN Base!Rejected ELSE Octets64(v, (6 * n) \div 8)

Pends(r, v, n, q) == r.len = n /\ r.val = Pending64(v, n) /\ r.out = Octets64(v, 3 * q)
Ends64(r, v, n, e) ==
  Base!Tail64(r) = IF e = 1 THEN Base!Rejected ELSE Octets64(v, (6 * n) \div 8)

LEMMA Tail64Is ==
  ASSUME NEW r, NEW v, NEW q \in Nat, NEW e \in 0..3, NEW n, n = 4 * q + e,
         \A i \in 1..n : v[i] \in 0..63, Pends(r, v, n, q)
  PROVE  Ends64(r, v, n, e)
<1> SUFFICES Base!Tail64(r) = IF e = 1 THEN Base!Rejected ELSE Octets64(v, (6 * n) \div 8)
  BY Zenon DEF Ends64
<1>1. n \in Nat /\ n % 4 = e /\ r.len % 4 = e
  BY DEF Pends
<1>p. r.len = n /\ r.val = Pending64(v, n) /\ r.out = Octets64(v, 3 * q)
  BY Zenon DEF Pends
<1>t. TailsTo(r, e)
  BY <1>1, TailCases
<1>2. \A j \in Nat \ {0} : j + ((j - 1) \div 3) + 1 <= n => Octet64(v, j) \in Int
  BY <1>1, Octet64Int
<1>3. CASE e = 0
  <2>1. (6 * n) \div 8 = 3 * q
    BY <1>3
  <2>2. Base!Tail64(r) = r.out
    BY <1>t, <1>3, Zenon DEF TailsTo
  <2>3. QED
    BY <1>3, <1>p, <2>1, <2>2
<1>4. CASE e = 1
  BY <1>t, <1>4, Zenon DEF TailsTo
<1>5. CASE e = 2
  <2>1. (6 * n) \div 8 = 3 * q + 1 /\ 3 * q \in Nat /\ 4 * q + 1 \in 1..n /\ 4 * q + 2 \in 1..n
    BY <1>5
  <2>2. PICK a \in 0..63, b \in 0..63 : a = v[4 * q + 1] /\ b = v[4 * q + 2]
    BY <2>1, Zenon
  <2>3. r.val = (a * 64 + b) * 64
    <3>1. n = 4 * q + 2
      BY <1>5
    <3>2. Pending64(v, 4 * q + 2) = (v[4 * q + 1] * 64 + v[4 * q + 2]) * 64
      BY Pending64Is
    <3>3. QED
      BY <1>p, <2>2, <3>1, <3>2, Zenon
  <2>4. Base!Tail64(r) = Append(r.out, (r.val \div 1024) % 256)
    BY <1>t, <1>5, ZenonT(60) DEF TailsTo
  <2>5. (r.val \div 1024) % 256 = a * 4 + (b \div 16)
    <3>1. TwoEnd(r.val, a, b)
      BY <2>3, TailOfTwo, Zenon DEF OfTwo
    <3>2. QED
      BY <3>1, ZenonT(60) DEF TwoEnd
  <2>6. a * 4 + (b \div 16) = Octet64(v, 3 * q + 1)
    BY <2>2, Octet64Is, Zenon
  <2>7. \A j \in 1..3 * q + 1 : Octet64(v, j) \in Int
    <3>1. \A j \in 1..3 * q + 1 : j \in Nat \ {0} /\ j + ((j - 1) \div 3) + 1 <= n
      BY <1>5
    <3>2. QED
      BY <1>2, <3>1, Zenon
  <2>8. Octets64(v, 3 * q + 1) = Append(Octets64(v, 3 * q), Octet64(v, 3 * q + 1))
    BY <2>1, <2>7, Octets64Append, Zenon
  <2>9. e # 1
    BY <1>5
  <2>10. Base!Tail64(r) = Octets64(v, 3 * q + 1)
    BY <1>p, <2>4, <2>5, <2>6, <2>8
  <2>11. QED
    BY <2>1, <2>9, <2>10
<1>6. CASE e = 3
  <2>1. /\ (6 * n) \div 8 = 3 * q + 2 /\ 3 * q \in Nat /\ 3 * q + 1 \in Nat /\ (3 * q + 1) + 1 = 3 * q + 2
        /\ 4 * q + 1 \in 1..n /\ 4 * q + 2 \in 1..n /\ 4 * q + 3 \in 1..n
    BY <1>6
  <2>2. PICK a \in 0..63, b \in 0..63, c \in 0..63 : a = v[4 * q + 1] /\ b = v[4 * q + 2] /\ c = v[4 * q + 3]
    BY <2>1, Zenon
  <2>3. r.val = ((a * 64 + b) * 64 + c) * 64
    <3>1. n = 4 * q + 3
      BY <1>6
    <3>2. Pending64(v, 4 * q + 3) = ((v[4 * q + 1] * 64 + v[4 * q + 2]) * 64 + v[4 * q + 3]) * 64
      BY Pending64Is
    <3>3. QED
      BY <1>p, <2>2, <3>1, <3>2, Zenon
  <2>4. Base!Tail64(r) = r.out \o <<Upper(r.val), Middle(r.val)>>
    BY <1>t, <1>6, Zenon DEF TailsTo
  <2>5. Upper(r.val) = a * 4 + (b \div 16) /\ Middle(r.val) = (b % 16) * 16 + (c \div 4)
    <3>1. ThreeEnd(r.val, a, b, c)
      BY <2>3, TailOfThree, Zenon DEF OfThree
    <3>2. QED
      BY <3>1, Zenon DEF ThreeEnd
  <2>6. a * 4 + (b \div 16) = Octet64(v, 3 * q + 1) /\ (b % 16) * 16 + (c \div 4) = Octet64(v, 3 * q + 2)
    BY <2>2, Octet64Is, Zenon
  <2>7. \A j \in 1..(3 * q + 1) + 1 : Octet64(v, j) \in Int
    <3>1. \A j \in 1..(3 * q + 1) + 1 : j \in Nat \ {0} /\ j + ((j - 1) \div 3) + 1 <= n
      BY <1>6
    <3>2. QED
      BY <1>2, <3>1, Zenon
  <2>8. PICK x \in Int, y \in Int : x = Octet64(v, 3 * q + 1) /\ y = Octet64(v, 3 * q + 2)
    <3>1. 3 * q + 1 \in 1..(3 * q + 1) + 1 /\ 3 * q + 2 \in 1..(3 * q + 1) + 1
      BY <2>1
    <3>2. QED
      BY <2>7, <3>1, Zenon
  <2>9. PICK o \in Seq(Int) : o = Octets64(v, 3 * q) /\ Octets64(v, 3 * q + 1) = Append(o, x)
    <3>1. \A j \in 1..3 * q + 1 : Octet64(v, j) \in Int
      BY <2>7
    <3>2. QED
      BY <2>1, <2>8, <3>1, Octets64Append, Zenon
  <2>10. Octets64(v, (3 * q + 1) + 1) = Append(Octets64(v, 3 * q + 1), Octet64(v, (3 * q + 1) + 1))
    BY <2>1, <2>7, Octets64Append, Zenon
  <2>11. Octets64(v, 3 * q + 2) = Append(Append(o, x), y)
    BY <2>1, <2>8, <2>9, <2>10, Zenon
  <2>12. Base!Tail64(r) = o \o <<x, y>>
    BY <1>p, <2>4, <2>5, <2>6, <2>8, <2>9
  <2>13. o \o <<x, y>> = Append(Append(o, x), y)
    BY <2>8, <2>9, AppendTwo, Zenon
  <2>14. e # 1
    BY <1>6
  <2>15. QED
    BY <2>1, <2>11, <2>12, <2>13, <2>14
<1>7. QED
  BY <1>3, <1>4, <1>5, <1>6

\* What base 64 decodes, in terms of the values of the characters.
LEMMA Decodes64 ==
  ASSUME NEW text, NEW base \in {64, -64}, NEW t \in Seq(Int), t = Base!Before(text, {Base!NUL, Base!Equals}),
         NEW v, v = Values64(t)
  PROVE  Base!base_decode(text, base) = Decoded64(v, Len(t))
<1>1. PICK r : r = Base!Loop64(t) /\ r = Read64To(v, Len(t))
  BY Loop64Gives
<1>2. Base!base_decode(text, base) = IF r.bad THEN Base!Rejected ELSE Base!Tail64(r)
  <2>1. base \notin {16, -16}
    OBVIOUS
  <2>2. QED
    BY <1>1, <2>1, Zenon DEF Base!base_decode
<1>3. CASE Sound(v, Len(t))
  <2>1. ~r.bad /\ r.len = Len(t) /\ r.val = Pending64(v, Len(t)) /\ r.out = Octets64(v, 3 * (Len(t) \div 4))
    BY <1>1, <1>3 DEF Read64To, Base!Progress
  <2>2. PICK n \in Nat, q \in Nat, e \in 0..3 : n = Len(t) /\ q = n \div 4 /\ e = n % 4 /\ n = 4 * q + e
    <3>1. /\ Len(t) \in Nat /\ Len(t) \div 4 \in Nat /\ Len(t) % 4 \in 0..3
          /\ Len(t) = 4 * (Len(t) \div 4) + (Len(t) % 4)
      OBVIOUS
    <3>2. QED
      BY <3>1, Zenon
  <2>3. \A i \in 1..n : v[i] \in 0..63
    <3>1. n \in 0..Len(t)
      BY <2>2
    <3>2. QED
      BY <1>3, <2>2, <3>1, SoundDigits, Zenon
  <2>4. Ends64(r, v, n, e)
    <3>1. Pends(r, v, n, q)
      BY <2>1, <2>2, Zenon DEF Pends
    <3>2. QED
      BY <2>2, <2>3, <3>1, Tail64Is, Zenon
  <2>5. QED
    BY <1>2, <1>3, <2>1, <2>2, <2>4, Zenon DEF Decoded64, Ends64
<1>4. CASE ~Sound(v, Len(t))
  <2>1. r.bad
    BY <1>1, <1>4 DEF Read64To, Base!Failed
  <2>2. QED
    BY <1>2, <1>4, <2>1, Zenon DEF Decoded64
<1>5. QED
  BY <1>3, <1>4

\* The bits of the digits of base 64.
BitOf(d, e) ==
  CASE e = 0 -> (d \div 32) % 2 [] e = 1 -> (d \div 16) % 2 [] e = 2 -> (d \div 8) % 2
    [] e = 3 -> (d \div 4) % 2 [] e = 4 -> (d \div 2) % 2 [] e = 5 -> d % 2

LEMMA Bit64 ==
  ASSUME NEW v, NEW i \in Nat \ {0}, NEW e \in 0..5, NEW d \in 0..63, d = v[i], NEW k, k = 6 * (i - 1) + e + 1
  PROVE  Base!Bit(v, 6, k) = BitOf(d, e)
<1>1. 1 + ((k - 1) \div 6) = i /\ (k - 1) % 6 = e
  OBVIOUS
<1>2. Base!Bit(v, 6, k) = (d \div 2^(6 - 1 - e)) % 2
  BY <1>1, Zenon DEF Base!Bit
<1>3. CASE e = 0
  BY <1>2, <1>3 DEF BitOf
<1>4. CASE e = 1
  BY <1>2, <1>4 DEF BitOf
<1>5. CASE e = 2
  BY <1>2, <1>5 DEF BitOf
<1>6. CASE e = 3
  BY <1>2, <1>6 DEF BitOf
<1>7. CASE e = 4
  BY <1>2, <1>7 DEF BitOf
<1>8. CASE e = 5
  BY <1>2, <1>8 DEF BitOf
<1>9. QED
  BY <1>3, <1>4, <1>5, <1>6, <1>7, <1>8

Eight(a, b, c, d, e, f, g, h) == 128 * a + 64 * b + 32 * c + 16 * d + 8 * e + 4 * f + 2 * g + h

LEMMA FirstBits ==
  ASSUME NEW a \in 0..63, NEW b \in 0..63
  PROVE  Eight(BitOf(a, 0), BitOf(a, 1), BitOf(a, 2), BitOf(a, 3), BitOf(a, 4), BitOf(a, 5), BitOf(b, 0), BitOf(b, 1))
           = a * 4 + (b \div 16)
<1>1. /\ BitOf(a, 0) = (a \div 32) % 2 /\ BitOf(a, 1) = (a \div 16) % 2 /\ BitOf(a, 2) = (a \div 8) % 2
      /\ BitOf(a, 3) = (a \div 4) % 2 /\ BitOf(a, 4) = (a \div 2) % 2 /\ BitOf(a, 5) = a % 2
      /\ BitOf(b, 0) = (b \div 32) % 2 /\ BitOf(b, 1) = (b \div 16) % 2
  BY DEF BitOf
<1>2. 32 * ((a \div 32) % 2) + 16 * ((a \div 16) % 2) + 8 * ((a \div 8) % 2) + 4 * ((a \div 4) % 2)
      + 2 * ((a \div 2) % 2) + (a % 2) = a
  OBVIOUS
<1>3. 2 * ((b \div 32) % 2) + ((b \div 16) % 2) = b \div 16
  OBVIOUS
<1>4. 128 * ((a \div 32) % 2) + 64 * ((a \div 16) % 2) + 32 * ((a \div 8) % 2) + 16 * ((a \div 4) % 2)
      + 8 * ((a \div 2) % 2) + 4 * (a % 2) = a * 4
  BY <1>2
<1>5. 128 * ((a \div 32) % 2) + 64 * ((a \div 16) % 2) + 32 * ((a \div 8) % 2) + 16 * ((a \div 4) % 2)
      + 8 * ((a \div 2) % 2) + 4 * (a % 2) + 2 * ((b \div 32) % 2) + ((b \div 16) % 2) = a * 4 + (b \div 16)
  BY <1>3, <1>4
<1>6. QED
  BY <1>1, <1>5, Zenon DEF Eight

LEMMA SecondBits ==
  ASSUME NEW a \in 0..63, NEW b \in 0..63
  PROVE  Eight(BitOf(a, 2), BitOf(a, 3), BitOf(a, 4), BitOf(a, 5), BitOf(b, 0), BitOf(b, 1), BitOf(b, 2), BitOf(b, 3))
           = (a % 16) * 16 + (b \div 4)
<1>1. /\ BitOf(a, 2) = (a \div 8) % 2 /\ BitOf(a, 3) = (a \div 4) % 2 /\ BitOf(a, 4) = (a \div 2) % 2
      /\ BitOf(a, 5) = a % 2 /\ BitOf(b, 0) = (b \div 32) % 2 /\ BitOf(b, 1) = (b \div 16) % 2
      /\ BitOf(b, 2) = (b \div 8) % 2 /\ BitOf(b, 3) = (b \div 4) % 2
  BY DEF BitOf
<1>2. 8 * ((a \div 8) % 2) + 4 * ((a \div 4) % 2) + 2 * ((a \div 2) % 2) + (a % 2) = a % 16
  OBVIOUS
<1>3. 8 * ((b \div 32) % 2) + 4 * ((b \div 16) % 2) + 2 * ((b \div 8) % 2) + ((b \div 4) % 2) = b \div 4
  OBVIOUS
<1>4. 128 * ((a \div 8) % 2) + 64 * ((a \div 4) % 2) + 32 * ((a \div 2) % 2) + 16 * (a % 2) = (a % 16) * 16
  BY <1>2
<1>5. 128 * ((a \div 8) % 2) + 64 * ((a \div 4) % 2) + 32 * ((a \div 2) % 2) + 16 * (a % 2)
      + 8 * ((b \div 32) % 2) + 4 * ((b \div 16) % 2) + 2 * ((b \div 8) % 2) + ((b \div 4) % 2)
      = (a % 16) * 16 + (b \div 4)
  BY <1>3, <1>4
<1>6. QED
  BY <1>1, <1>5, Zenon DEF Eight

LEMMA ThirdBits ==
  ASSUME NEW a \in 0..63, NEW b \in 0..63
  PROVE  Eight(BitOf(a, 4), BitOf(a, 5), BitOf(b, 0), BitOf(b, 1), BitOf(b, 2), BitOf(b, 3), BitOf(b, 4), BitOf(b, 5))
           = (a % 4) * 64 + b
<1>1. /\ BitOf(a, 4) = (a \div 2) % 2 /\ BitOf(a, 5) = a % 2
      /\ BitOf(b, 0) = (b \div 32) % 2 /\ BitOf(b, 1) = (b \div 16) % 2 /\ BitOf(b, 2) = (b \div 8) % 2
      /\ BitOf(b, 3) = (b \div 4) % 2 /\ BitOf(b, 4) = (b \div 2) % 2 /\ BitOf(b, 5) = b % 2
  BY DEF BitOf
<1>2. 2 * ((a \div 2) % 2) + (a % 2) = a % 4
  OBVIOUS
<1>3. 32 * ((b \div 32) % 2) + 16 * ((b \div 16) % 2) + 8 * ((b \div 8) % 2) + 4 * ((b \div 4) % 2)
      + 2 * ((b \div 2) % 2) + (b % 2) = b
  OBVIOUS
<1>4. QED
  BY <1>1, <1>2, <1>3 DEF Eight

LEMMA OctetIs ==
  ASSUME NEW v, NEW k
  PROVE  Base!Octet(v, 6, k) =
           Eight(Base!Bit(v, 6, k + 1), Base!Bit(v, 6, k + 2), Base!Bit(v, 6, k + 3), Base!Bit(v, 6, k + 4),
                 Base!Bit(v, 6, k + 5), Base!Bit(v, 6, k + 6), Base!Bit(v, 6, k + 7), Base!Bit(v, 6, k + 8))
BY Zenon DEF Base!Octet, Eight

\* Bit e of the i-th digit.
BitAt(v, i, e, k) == Base!Bit(v, 6, k) = BitOf(v[i], e)

LEMMA BitAtIs ==
  ASSUME NEW v, NEW i \in Nat \ {0}, v[i] \in 0..63, NEW k \in Int, NEW e \in 0..5, k = 6 * (i - 1) + e + 1
  PROVE  BitAt(v, i, e, k)
BY Bit64 DEF BitAt

LEMMA Octets64Bits ==
  ASSUME NEW v, NEW j \in Nat \ {0}, NEW i, i = j + ((j - 1) \div 3), v[i] \in 0..63, v[i + 1] \in 0..63
  PROVE  Base!Octet(v, 6, 8 * (j - 1)) = Octet64(v, j)
<1>1. PICK p \in Nat, k \in Nat : k = 8 * (j - 1) /\ p = (j - 1) \div 3 /\ (j = 3 * p + 1 \/ j = 3 * p + 2 \/ j = 3 * p + 3)
  <2>1. /\ 8 * (j - 1) \in Nat /\ (j - 1) \div 3 \in Nat
        /\ \/ j = 3 * ((j - 1) \div 3) + 1 \/ j = 3 * ((j - 1) \div 3) + 2 \/ j = 3 * ((j - 1) \div 3) + 3
    OBVIOUS
  <2>2. QED
    BY <2>1, Zenon
<1>2. PICK a \in 0..63, b \in 0..63 : a = v[i] /\ b = v[i + 1]
  BY Zenon
<1>3. i \in Nat \ {0} /\ i + 1 \in Nat \ {0} /\ i = j + p
  BY <1>1
<1>4. \A x \in 1..8 : k + x \in Int
  BY <1>1
<1>5. CASE j = 3 * p + 1
  <2>1. /\ k + 1 = 6 * (i - 1) + 0 + 1 /\ k + 2 = 6 * (i - 1) + 1 + 1 /\ k + 3 = 6 * (i - 1) + 2 + 1
        /\ k + 4 = 6 * (i - 1) + 3 + 1 /\ k + 5 = 6 * (i - 1) + 4 + 1 /\ k + 6 = 6 * (i - 1) + 5 + 1
        /\ k + 7 = 6 * ((i + 1) - 1) + 0 + 1 /\ k + 8 = 6 * ((i + 1) - 1) + 1 + 1
    BY <1>1, <1>3, <1>5
  <2>2. /\ BitAt(v, i, 0, k + 1) /\ BitAt(v, i, 1, k + 2) /\ BitAt(v, i, 2, k + 3) /\ BitAt(v, i, 3, k + 4)
        /\ BitAt(v, i, 4, k + 5) /\ BitAt(v, i, 5, k + 6)
        /\ BitAt(v, i + 1, 0, k + 7) /\ BitAt(v, i + 1, 1, k + 8)
    BY <1>2, <1>3, <1>4, <2>1, BitAtIs
  <2>3. Base!Octet(v, 6, k) = a * 4 + (b \div 16)
    <3>1. Base!Octet(v, 6, k) = Eight(BitOf(a, 0), BitOf(a, 1), BitOf(a, 2), BitOf(a, 3), BitOf(a, 4), BitOf(a, 5),
                                      BitOf(b, 0), BitOf(b, 1))
      BY <1>2, <2>2, OctetIs, Zenon DEF BitAt
    <3>2. QED
      BY <3>1, FirstBits, Zenon
  <2>4. Octet64(v, j) = a * 4 + (b \div 16)
    <3>1. i = 4 * p + 1 /\ i + 1 = 4 * p + 2
      BY <1>3, <1>5
    <3>2. Octet64(v, 3 * p + 1) = v[4 * p + 1] * 4 + (v[4 * p + 2] \div 16)
      BY <1>1, Octet64Is
    <3>3. QED
      BY <1>2, <1>5, <3>1, <3>2, Zenon
  <2>5. QED
    BY <1>1, <2>3, <2>4, Zenon
<1>6. CASE j = 3 * p + 2
  <2>1. /\ k + 1 = 6 * (i - 1) + 2 + 1 /\ k + 2 = 6 * (i - 1) + 3 + 1 /\ k + 3 = 6 * (i - 1) + 4 + 1
        /\ k + 4 = 6 * (i - 1) + 5 + 1 /\ k + 5 = 6 * ((i + 1) - 1) + 0 + 1 /\ k + 6 = 6 * ((i + 1) - 1) + 1 + 1
        /\ k + 7 = 6 * ((i + 1) - 1) + 2 + 1 /\ k + 8 = 6 * ((i + 1) - 1) + 3 + 1
    BY <1>1, <1>3, <1>6
  <2>2. /\ BitAt(v, i, 2, k + 1) /\ BitAt(v, i, 3, k + 2) /\ BitAt(v, i, 4, k + 3) /\ BitAt(v, i, 5, k + 4)
        /\ BitAt(v, i + 1, 0, k + 5) /\ BitAt(v, i + 1, 1, k + 6)
        /\ BitAt(v, i + 1, 2, k + 7) /\ BitAt(v, i + 1, 3, k + 8)
    BY <1>2, <1>3, <1>4, <2>1, BitAtIs
  <2>3. Base!Octet(v, 6, k) = (a % 16) * 16 + (b \div 4)
    <3>1. Base!Octet(v, 6, k) = Eight(BitOf(a, 2), BitOf(a, 3), BitOf(a, 4), BitOf(a, 5), BitOf(b, 0), BitOf(b, 1),
                                      BitOf(b, 2), BitOf(b, 3))
      BY <1>2, <2>2, OctetIs, Zenon DEF BitAt
    <3>2. QED
      BY <3>1, SecondBits, Zenon
  <2>4. Octet64(v, j) = (a % 16) * 16 + (b \div 4)
    <3>1. i = 4 * p + 2 /\ i + 1 = 4 * p + 3
      BY <1>3, <1>6
    <3>2. Octet64(v, 3 * p + 2) = (v[4 * p + 2] % 16) * 16 + (v[4 * p + 3] \div 4)
      BY <1>1, Octet64Is
    <3>3. QED
      BY <1>2, <1>6, <3>1, <3>2, Zenon
  <2>5. QED
    BY <1>1, <2>3, <2>4, Zenon
<1>7. CASE j = 3 * p + 3
  <2>1. /\ k + 1 = 6 * (i - 1) + 4 + 1 /\ k + 2 = 6 * (i - 1) + 5 + 1 /\ k + 3 = 6 * ((i + 1) - 1) + 0 + 1
        /\ k + 4 = 6 * ((i + 1) - 1) + 1 + 1 /\ k + 5 = 6 * ((i + 1) - 1) + 2 + 1
        /\ k + 6 = 6 * ((i + 1) - 1) + 3 + 1 /\ k + 7 = 6 * ((i + 1) - 1) + 4 + 1
        /\ k + 8 = 6 * ((i + 1) - 1) + 5 + 1
    BY <1>1, <1>3, <1>7
  <2>2. /\ BitAt(v, i, 4, k + 1) /\ BitAt(v, i, 5, k + 2) /\ BitAt(v, i + 1, 0, k + 3) /\ BitAt(v, i + 1, 1, k + 4)
        /\ BitAt(v, i + 1, 2, k + 5) /\ BitAt(v, i + 1, 3, k + 6)
        /\ BitAt(v, i + 1, 4, k + 7) /\ BitAt(v, i + 1, 5, k + 8)
    BY <1>2, <1>3, <1>4, <2>1, BitAtIs
  <2>3. Base!Octet(v, 6, k) = (a % 4) * 64 + b
    <3>1. Base!Octet(v, 6, k) = Eight(BitOf(a, 4), BitOf(a, 5), BitOf(b, 0), BitOf(b, 1), BitOf(b, 2), BitOf(b, 3),
                                      BitOf(b, 4), BitOf(b, 5))
      BY <1>2, <2>2, OctetIs, Zenon DEF BitAt
    <3>2. QED
      BY <3>1, ThirdBits, ZenonT(60)
  <2>4. Octet64(v, j) = (a % 4) * 64 + b
    <3>1. i = 4 * p + 3 /\ i + 1 = 4 * p + 4
      BY <1>3, <1>7
    <3>2. Octet64(v, 3 * p + 3) = (v[4 * p + 3] % 4) * 64 + v[4 * p + 4]
      BY <1>1, Octet64Is
    <3>3. QED
      BY <1>2, <1>7, <3>1, <3>2, Zenon
  <2>5. QED
    BY <1>1, <2>3, <2>4, Zenon
<1>8. QED
  BY <1>1, <1>5, <1>6, <1>7

\* Decoding base 64 gives what the text means.
LEMMA Means64 ==
  ASSUME NEW text, NEW base \in {64, -64}, NEW t \in Seq(Int), t = Base!Before(text, {Base!NUL, Base!Equals})
  PROVE  Base!base_decode(text, base) = Base!Meaning(text, base)
<1>1. PICK v : v = Values64(t)
  OBVIOUS
<1>2. PICK n \in Nat : n = Len(t) /\ n = Len(v)
  <2>1. Len(t) \in Nat
    OBVIOUS
  <2>2. QED
    BY <1>1, <2>1, Values64Are, Zenon
<1>3. Base!Meaning(text, base) = Base!Octets(v, 6)
  <2>1. base \notin {16, -16}
    OBVIOUS
  <2>2. QED
    BY <1>1, <2>1, Zenon DEF Base!Meaning, Values64
<1>4. Base!Octets(v, 6) = IF ~Sound(v, n) \/ (6 * n) % 8 >= 6 THEN Base!Rejected
                          ELSE [j \in 1..(6 * n) \div 8 |-> Base!Octet(v, 6, 8 * (j - 1))]
  BY <1>2, Zenon DEF Base!Octets, Sound
<1>5. (6 * n) % 8 >= 6 <=> n % 4 = 1
  OBVIOUS
<1>6. ASSUME Sound(v, n)
      PROVE  [j \in 1..(6 * n) \div 8 |-> Base!Octet(v, 6, 8 * (j - 1))] = Octets64(v, (6 * n) \div 8)
  <2>1. ASSUME NEW j \in 1..(6 * n) \div 8 PROVE Base!Octet(v, 6, 8 * (j - 1)) = Octet64(v, j)
    <3>1. PICK i \in 1..n : i = j + ((j - 1) \div 3) /\ i + 1 \in 1..n /\ j \in Nat \ {0}
      <4>1. j + ((j - 1) \div 3) \in 1..n /\ (j + ((j - 1) \div 3)) + 1 \in 1..n /\ j \in Nat \ {0}
        OBVIOUS
      <4>2. QED
        BY <4>1, Zenon
    <3>2. v[i] \in 0..63 /\ v[i + 1] \in 0..63
      <4>1. n \in 0..Len(t)
        BY <1>2
      <4>2. QED
        BY <1>1, <1>6, <3>1, <4>1, SoundDigits, Zenon
    <3>3. QED
      BY <3>1, <3>2, Octets64Bits, Zenon
  <2>2. QED
    BY <2>1, Zenon DEF Octets64
<1>7. Base!base_decode(text, base) = Decoded64(v, n)
  <2>1. Base!base_decode(text, base) = Decoded64(v, Len(t))
    BY <1>1, Decodes64, ZenonT(60)
  <2>2. QED
    BY <1>2, <2>1
<1>8. QED
  BY <1>3, <1>4, <1>5, <1>6, <1>7, Zenon DEF Decoded64

\* The characters of base 64.
LEMMA Alphabet64 ==
  ASSUME NEW d \in 0..63
  PROVE  \E c \in Int : /\ c = Base!base64_alphabet(d) /\ c # 0 /\ c # 61 /\ Base!Value64(c) = d
<1>1. PICK c \in Int : /\ c = Base!base64_alphabet(d)
                       /\ \/ d < 26 /\ c = 65 + d
                          \/ d \in 26..51 /\ c = 97 + d - 26
                          \/ d \in 52..61 /\ c = 48 + d - 52
                          \/ d = 62 /\ c = 43
                          \/ d = 63 /\ c = 47
  <2>1. CASE d < 26
    <3>1. Base!base64_alphabet(d) = 65 + d
      BY <2>1 DEF Base!base64_alphabet
    <3>2. QED
      BY <2>1, <3>1
  <2>2. CASE d \in 26..51
    <3>1. Base!base64_alphabet(d) = 97 + d - 26
      BY <2>2 DEF Base!base64_alphabet
    <3>2. QED
      BY <2>2, <3>1
  <2>3. CASE d \in 52..61
    <3>1. Base!base64_alphabet(d) = 48 + d - 52
      BY <2>3 DEF Base!base64_alphabet
    <3>2. QED
      BY <2>3, <3>1
  <2>4. CASE d = 62
    <3>1. Base!base64_alphabet(d) = 43
      BY <2>4 DEF Base!base64_alphabet
    <3>2. QED
      BY <2>4, <3>1
  <2>5. CASE d = 63
    <3>1. Base!base64_alphabet(d) = 47
      BY <2>5 DEF Base!base64_alphabet
    <3>2. QED
      BY <2>5, <3>1
  <2>6. QED
    BY <2>1, <2>2, <2>3, <2>4, <2>5
<1>2. c # 0 /\ c # 61 /\ Base!Value64(c) = d
  <2>1. CASE d < 26 /\ c = 65 + d
    BY <2>1 DEF Base!Value64
  <2>2. CASE d \in 26..51 /\ c = 97 + d - 26
    BY <2>2 DEF Base!Value64
  <2>3. CASE d \in 52..61 /\ c = 48 + d - 52
    BY <2>3 DEF Base!Value64
  <2>4. CASE d = 62 /\ c = 43
    BY <2>4 DEF Base!Value64
  <2>5. CASE d = 63 /\ c = 47
    BY <2>5 DEF Base!Value64
  <2>6. QED
    BY <1>1, <2>1, <2>2, <2>3, <2>4, <2>5
<1>3. QED
  BY <1>1, <1>2, Zenon

\* The i-th digit of three bytes.
Sextet(a, b, c, i) ==
  CASE i = 1 -> a \div 4 [] i = 2 -> (a % 4) * 16 + (b \div 16) [] i = 3 -> (b % 16) * 4 + (c \div 64) [] i = 4 -> c % 64

AByte == 0..255
ADigit == 0..63

\* Three bytes, the halves of their digits and their digits.
Shared(a, b, c, g, h, l, k, x, y, z, w) ==
  /\ x \in 0..63 /\ g \in 0..3 /\ h \in 0..15 /\ l \in 0..15 /\ k \in 0..3 /\ w \in 0..63
  /\ a = 4 * x + g /\ y = g * 16 + h /\ b = 16 * h + l /\ z = l * 4 + k /\ c = 64 * k + w
Sextets(a, b, c, x, y, z, w) ==
  x = Sextet(a, b, c, 1) /\ y = Sextet(a, b, c, 2) /\ z = Sextet(a, b, c, 3) /\ w = Sextet(a, b, c, 4)

LEMMA SharedIs ==
  ASSUME NEW a \in AByte, NEW b \in AByte, NEW c \in AByte
  PROVE  Shared(a, b, c, a % 4, b \div 16, b % 16, c \div 64,
                a \div 4, (a % 4) * 16 + (b \div 16), (b % 16) * 4 + (c \div 64), c % 64)
<1>1. /\ a \div 4 \in 0..63 /\ a % 4 \in 0..3 /\ b \div 16 \in 0..15 /\ b % 16 \in 0..15
      /\ c \div 64 \in 0..3 /\ c % 64 \in 0..63
  BY SMT DEF AByte
<1>2. a = 4 * (a \div 4) + (a % 4) /\ b = 16 * (b \div 16) + (b % 16) /\ c = 64 * (c \div 64) + (c % 64)
  BY SMT DEF AByte
<1>3. QED
  BY <1>1, <1>2, SMT DEF Shared

LEMMA SextetsAre ==
  ASSUME NEW a, NEW b, NEW c
  PROVE  Sextets(a, b, c, a \div 4, (a % 4) * 16 + (b \div 16), (b % 16) * 4 + (c \div 64), c % 64)
BY SMT DEF Sextet, Sextets

LEMMA SextetIs ==
  ASSUME NEW a \in AByte, NEW b \in AByte, NEW c \in AByte
  PROVE  \E g, h, l, k, x, y, z, w : Shared(a, b, c, g, h, l, k, x, y, z, w) /\ Sextets(a, b, c, x, y, z, w)
BY SharedIs, SextetsAre, Zenon

LEMMA DigitsShared ==
  ASSUME NEW a, NEW b, NEW c, NEW g, NEW h, NEW l, NEW k, NEW x, NEW y, NEW z, NEW w,
         Shared(a, b, c, g, h, l, k, x, y, z, w)
  PROVE  x \in ADigit /\ y \in ADigit /\ z \in ADigit /\ w \in ADigit
BY SMT DEF Shared, ADigit

LEMMA SextetIn ==
  ASSUME NEW a \in AByte, NEW b \in AByte, NEW c \in AByte, NEW i \in 1..4
  PROVE  Sextet(a, b, c, i) \in ADigit
<1>1. PICK x \in ADigit, y \in ADigit, z \in ADigit, w \in ADigit : Sextets(a, b, c, x, y, z, w)
  BY SextetIs, DigitsShared, Zenon
<1>2. i = 1 \/ i = 2 \/ i = 3 \/ i = 4
  OBVIOUS
<1>3. QED
  BY <1>1, <1>2, Zenon DEF Sextets

\* The d-th last digit of a value.
DigitOf(val, d, x) == Base!Digit64(val, d) = Base!base64_alphabet(x)
Power64(d) == 64^d
Part64(val, d) == (val \div Power64(d)) % 64

LEMMA DigitIs ==
  ASSUME NEW val, NEW d, NEW x, Part64(val, d) = x
  PROVE  DigitOf(val, d, x)
BY Zenon DEF DigitOf, Part64, Power64, Base!Digit64

Sum64(val, x, y, z, w) == val = x * 262144 + y * 4096 + z * 64 + w

LEMMA PowersOf64 == Power64(0) = 1 /\ Power64(1) = 64 /\ Power64(2) = 4096 /\ Power64(3) = 262144
BY SMT DEF Power64

\* Digits whose value val is.
Summed(val, x, y, z, w) ==
  x \in ADigit /\ y \in ADigit /\ z \in ADigit /\ w \in ADigit /\ Sum64(val, x, y, z, w)
Parts64(val, x, y, z, w) == Part64(val, 3) = x /\ Part64(val, 2) = y /\ Part64(val, 1) = z /\ Part64(val, 0) = w

LEMMA PartsOfSum ==
  ASSUME NEW x, NEW y, NEW z, NEW w, NEW val, Summed(val, x, y, z, w)
  PROVE  Parts64(val, x, y, z, w)
<1>1. val = x * 262144 + y * 4096 + z * 64 + w /\ x \in 0..63 /\ y \in 0..63 /\ z \in 0..63 /\ w \in 0..63
  BY SMT DEF Summed, Sum64, ADigit
<1>2. (val \div 262144) % 64 = x
  <2>1. val \div 262144 = x
    BY <1>1, SMT
  <2>2. QED
    BY <1>1, <2>1, SMT
<1>3. (val \div 4096) % 64 = y
  <2>1. val \div 4096 = x * 64 + y
    BY <1>1, SMT
  <2>2. QED
    BY <1>1, <2>1, SMT
<1>4. (val \div 64) % 64 = z
  <2>1. val \div 64 = (x * 64 + y) * 64 + z
    BY <1>1, SMT
  <2>2. QED
    BY <1>1, <2>1, SMT
<1>5. (val \div 1) % 64 = w
  BY <1>1, SMT
<1>6. QED
  BY <1>2, <1>3, <1>4, <1>5, PowersOf64, SMT DEF Part64, Parts64

\* The digits of three bytes, of two and of one, whose other bytes are zero.
OfThreeBytes(val, a, b, c) == val = a * 65536 + b * 256 + c
OfTwoBytes(val, a, b, c) == c = 0 /\ val = (a * 256 + b) * 4
OfOneByte(val, a, b, c) == b = 0 /\ c = 0 /\ val = a * 16

SumOfTwo(val, x, y, z, w) == Summed(val, 0, x, y, z) /\ w = 0
SumOfOne(val, x, y, z, w) == Summed(val, 0, 0, x, y) /\ z = 0 /\ w = 0

LEMMA Sums ==
  ASSUME NEW a, NEW b, NEW c, NEW g, NEW h, NEW l, NEW k, NEW x, NEW y, NEW z, NEW w, NEW val,
         Shared(a, b, c, g, h, l, k, x, y, z, w)
  PROVE  /\ OfThreeBytes(val, a, b, c) => Summed(val, x, y, z, w)
         /\ OfTwoBytes(val, a, b, c) => SumOfTwo(val, x, y, z, w)
         /\ OfOneByte(val, a, b, c) => SumOfOne(val, x, y, z, w)
<1>1. OfThreeBytes(val, a, b, c) => Summed(val, x, y, z, w)
  BY SMT DEF Shared, OfThreeBytes, Summed, Sum64, ADigit
<1>2. OfTwoBytes(val, a, b, c) => SumOfTwo(val, x, y, z, w)
  BY SMT DEF Shared, OfTwoBytes, SumOfTwo, Summed, Sum64, ADigit
<1>3. OfOneByte(val, a, b, c) => SumOfOne(val, x, y, z, w)
  BY SMT DEF Shared, OfOneByte, SumOfOne, Summed, Sum64, ADigit
<1>4. QED
  BY <1>1, <1>2, <1>3, Zenon

\* The last digits of a value.
FourDigits(val, x, y, z, w) == DigitOf(val, 3, x) /\ DigitOf(val, 2, y) /\ DigitOf(val, 1, z) /\ DigitOf(val, 0, w)

LEMMA SumDigits ==
  ASSUME NEW x, NEW y, NEW z, NEW w, NEW val, Summed(val, x, y, z, w)
  PROVE  FourDigits(val, x, y, z, w)
<1>1. Parts64(val, x, y, z, w)
  BY PartsOfSum, Zenon
<1>2. DigitOf(val, 3, x)
  BY <1>1, DigitIs, Zenon DEF Parts64
<1>3. DigitOf(val, 2, y)
  BY <1>1, DigitIs, Zenon DEF Parts64
<1>4. DigitOf(val, 1, z)
  BY <1>1, DigitIs, Zenon DEF Parts64
<1>5. DigitOf(val, 0, w)
  BY <1>1, DigitIs, Zenon DEF Parts64
<1>6. QED
  BY <1>2, <1>3, <1>4, <1>5, Zenon DEF FourDigits

DigitsOfThree(val, a, b, c) ==
  /\ DigitOf(val, 3, Sextet(a, b, c, 1)) /\ DigitOf(val, 2, Sextet(a, b, c, 2))
  /\ DigitOf(val, 1, Sextet(a, b, c, 3)) /\ DigitOf(val, 0, Sextet(a, b, c, 4))
DigitsOfTwo(val, a, b, c) ==
  /\ DigitOf(val, 2, Sextet(a, b, c, 1)) /\ DigitOf(val, 1, Sextet(a, b, c, 2))
  /\ DigitOf(val, 0, Sextet(a, b, c, 3)) /\ Sextet(a, b, c, 4) = 0
DigitsOfOne(val, a, b, c) ==
  /\ DigitOf(val, 1, Sextet(a, b, c, 1)) /\ DigitOf(val, 0, Sextet(a, b, c, 2))
  /\ Sextet(a, b, c, 3) = 0 /\ Sextet(a, b, c, 4) = 0

LEMMA DigitsOf ==
  ASSUME NEW a \in AByte, NEW b \in AByte, NEW c \in AByte, NEW val
  PROVE  /\ OfThreeBytes(val, a, b, c) => DigitsOfThree(val, a, b, c)
         /\ OfTwoBytes(val, a, b, c) => DigitsOfTwo(val, a, b, c)
         /\ OfOneByte(val, a, b, c) => DigitsOfOne(val, a, b, c)
<1>1. PICK g, h, l, k, x, y, z, w : Shared(a, b, c, g, h, l, k, x, y, z, w) /\ Sextets(a, b, c, x, y, z, w)
  BY SextetIs, Zenon
<1>2. ASSUME OfThreeBytes(val, a, b, c) PROVE DigitsOfThree(val, a, b, c)
  <2>1. Summed(val, x, y, z, w)
    BY <1>1, <1>2, Sums, Zenon
  <2>2. FourDigits(val, x, y, z, w)
    BY <2>1, SumDigits, Zenon
  <2>3. QED
    BY <1>1, <2>2, Zenon DEF FourDigits, DigitsOfThree, Sextets
<1>3. ASSUME OfTwoBytes(val, a, b, c) PROVE DigitsOfTwo(val, a, b, c)
  <2>1. SumOfTwo(val, x, y, z, w)
    BY <1>1, <1>3, Sums, Zenon
  <2>2. FourDigits(val, 0, x, y, z) /\ w = 0
    BY <2>1, SumDigits, Zenon DEF SumOfTwo
  <2>3. QED
    BY <1>1, <2>2, Zenon DEF FourDigits, DigitsOfTwo, Sextets
<1>4. ASSUME OfOneByte(val, a, b, c) PROVE DigitsOfOne(val, a, b, c)
  <2>1. SumOfOne(val, x, y, z, w)
    BY <1>1, <1>4, Sums, Zenon
  <2>2. FourDigits(val, 0, 0, x, y) /\ z = 0 /\ w = 0
    BY <2>1, SumDigits, Zenon DEF SumOfOne
  <2>3. QED
    BY <1>1, <2>2, Zenon DEF FourDigits, DigitsOfOne, Sextets
<1>5. QED
  BY <1>2, <1>3, <1>4, Zenon

\* A group of base 64: k bytes, which are a, b and c filled up with zeros.
GroupedAs(G, k, padded, a, b, c) ==
  /\ G \in Seq(Int) /\ Len(G) = IF padded THEN 4 ELSE k + 1
  /\ \A i \in 1..k + 1 : G[i] = Base!base64_alphabet(Sextet(a, b, c, i))
  /\ \A i \in k + 2..Len(G) : G[i] = 61

DigitsAre(val, k, a, b, c) == \A i \in 1..k + 1 : DigitOf(val, k + 1 - i, Sextet(a, b, c, i))

LEMMA GroupRow ==
  ASSUME NEW k \in 1..3, NEW val, NEW a \in AByte, NEW b \in AByte, NEW c \in AByte, NEW padded \in BOOLEAN,
         DigitsAre(val, k, a, b, c)
  PROVE  GroupedAs([i \in 1..k + 1 |-> Base!Digit64(val, k + 1 - i)]
                   \o [i \in 1..IF padded THEN 3 - k ELSE 0 |-> Base!Equals], k, padded, a, b, c)
<1> DEFINE D == [i \in 1..k + 1 |-> Base!Digit64(val, k + 1 - i)]
           p == IF padded THEN 3 - k ELSE 0
           P == [i \in 1..p |-> Base!Equals]
<1>1. ASSUME NEW i \in 1..k + 1
      PROVE  Base!Digit64(val, k + 1 - i) \in Int
             /\ Base!Digit64(val, k + 1 - i) = Base!base64_alphabet(Sextet(a, b, c, i))
  <2>1. i \in 1..4
    OBVIOUS
  <2>2. PICK d \in 0..63 : d = Sextet(a, b, c, i)
    BY <2>1, SextetIn DEF ADigit
  <2>3. Base!base64_alphabet(d) \in Int
    BY Alphabet64
  <2>4. Base!Digit64(val, k + 1 - i) = Base!base64_alphabet(d)
    BY <2>2, Zenon DEF DigitsAre, DigitOf
  <2>5. QED
    BY <2>2, <2>3, <2>4
<1>2. D \in Seq(Int) /\ Len(D) = k + 1 /\ \A i \in 1..k + 1 : D[i] = Base!base64_alphabet(Sextet(a, b, c, i))
  <2>1. \A i \in 1..k + 1 : Base!Digit64(val, k + 1 - i) \in Int
    BY <1>1
  <2>2. k + 1 \in Nat
    OBVIOUS
  <2>3. D \in Seq(Int) /\ Len(D) = k + 1
    BY <2>1, <2>2
  <2>4. QED
    BY <1>1, <2>3
<1>3. p \in Nat /\ k + 1 + p = IF padded THEN 4 ELSE k + 1
  OBVIOUS
<1>4. Base!Equals = 61
  BY DEF Base!Equals
<1>5. P \in Seq(Int) /\ Len(P) = p /\ \A i \in 1..p : P[i] = 61
  <2> HIDE DEF p
  <2>1. QED
    BY <1>3, <1>4
<1>6. PICK G \in Seq(Int) : G = D \o P /\ Len(G) = (k + 1) + p /\ (\A i \in 1..k + 1 : G[i] = D[i])
        /\ \A i \in 1..p : G[(k + 1) + i] = P[i]
  <2> HIDE DEF D, P, p
  <2>1. PICK x, y \in Nat : x = Len(D) /\ y = Len(P) /\ Two(Int, D, x, P, y, D \o P)
    BY <1>2, <1>5, InTwo, Zenon
  <2>2. x = k + 1 /\ y = p
    BY <1>2, <1>5, <2>1
  <2>3. QED
    BY <2>1, <2>2, Zenon DEF Two
<1> HIDE DEF D, P, p
<1>7. \A i \in k + 2..Len(G) : G[i] = 61
  <2>1. ASSUME NEW i \in k + 2..Len(G) PROVE G[i] = 61
    <3>1. PICK j \in 1..p : i = (k + 1) + j
      <4>1. i - (k + 1) \in 1..p /\ i = (k + 1) + (i - (k + 1))
        BY <1>3, <1>6
      <4>2. QED
        BY <4>1
    <3>2. QED
      BY <1>5, <1>6, <3>1, Zenon
  <2>2. QED
    BY <2>1
<1>8. Len(G) = IF padded THEN 4 ELSE k + 1
  BY <1>3, <1>6
<1>9. GroupedAs(G, k, padded, a, b, c)
  BY <1>2, <1>6, <1>7, <1>8, Zenon DEF GroupedAs
<1>10. QED
  BY <1>6, <1>9, Zenon DEF D, P, p

\* The k bytes at hand.
AtHand(src, k, a, b, c) ==
  /\ k = Len(src) /\ k \in 1..3
  /\ a = src[1] /\ (k >= 2 => b = src[2]) /\ (k = 3 => c = src[3])
  /\ (k < 2 => b = 0) /\ (k < 3 => c = 0)

LEMMA Group64Is ==
  ASSUME NEW src, NEW k, NEW a \in AByte, NEW b \in AByte, NEW c \in AByte, AtHand(src, k, a, b, c),
         NEW padded \in BOOLEAN
  PROVE  GroupedAs(Base!Group64(src, padded), k, padded, a, b, c)
<1>1. PICK val : val = Base!Joined(src)
  OBVIOUS
<1>2. k = Len(src) /\ k \in 1..3
  BY Zenon DEF AtHand
<1>3. DigitsAre(val, k, a, b, c)
  <2>1. CASE k = 3
    <3>1. OfThreeBytes(val, a, b, c)
      BY <1>1, <2>1, SMT DEF AtHand, Base!Joined, OfThreeBytes
    <3>2. DigitsOfThree(val, a, b, c)
      BY <3>1, DigitsOf, Zenon
    <3>3. \A i \in 1..k + 1 : (i = 1 /\ k + 1 - i = 3) \/ (i = 2 /\ k + 1 - i = 2) \/ (i = 3 /\ k + 1 - i = 1) \/ (i = 4 /\ k + 1 - i = 0)
      BY <2>1, SMT
    <3>4. QED
      BY <3>2, <3>3, Zenon DEF DigitsAre, DigitsOfThree
  <2>2. CASE k = 2
    <3>1. OfTwoBytes(val, a, b, c)
      BY <1>1, <2>2, SMT DEF AtHand, Base!Joined, OfTwoBytes
    <3>2. DigitsOfTwo(val, a, b, c)
      BY <3>1, DigitsOf, Zenon
    <3>3. \A i \in 1..k + 1 : (i = 1 /\ k + 1 - i = 2) \/ (i = 2 /\ k + 1 - i = 1) \/ (i = 3 /\ k + 1 - i = 0)
      BY <2>2, SMT
    <3>4. QED
      BY <3>2, <3>3, Zenon DEF DigitsAre, DigitsOfTwo
  <2>3. CASE k = 1
    <3>1. OfOneByte(val, a, b, c)
      BY <1>1, <2>3, SMT DEF AtHand, Base!Joined, OfOneByte
    <3>2. DigitsOfOne(val, a, b, c)
      BY <3>1, DigitsOf, Zenon
    <3>3. \A i \in 1..k + 1 : (i = 1 /\ k + 1 - i = 1) \/ (i = 2 /\ k + 1 - i = 0)
      BY <2>3, SMT
    <3>4. QED
      BY <3>2, <3>3, Zenon DEF DigitsAre, DigitsOfOne
  <2>4. QED
    BY <1>2, <2>1, <2>2, <2>3
<1>4. Base!Group64(src, padded) =
        [i \in 1..k + 1 |-> Base!Digit64(val, k + 1 - i)] \o [i \in 1..IF padded THEN 3 - k ELSE 0 |-> Base!Equals]
  BY <1>1, <1>2, Zenon DEF Base!Group64
<1>5. GroupedAs([i \in 1..k + 1 |-> Base!Digit64(val, k + 1 - i)] \o [i \in 1..IF padded THEN 3 - k ELSE 0 |-> Base!Equals],
              k, padded, a, b, c)
  BY <1>2, <1>3, GroupRow
<1>6. QED
  BY <1>4, <1>5, Zenon

\* The j-th of n bytes, filled up with zeros, and the i-th digit of all.
Filled(src, n, j) == IF j <= n THEN src[j] ELSE 0
Digit(src, n, i) ==
  LET q == (i - 1) \div 4
  IN Sextet(Filled(src, n, 3 * q + 1), Filled(src, n, 3 * q + 2), Filled(src, n, 3 * q + 3), 1 + ((i - 1) % 4))
DigitCount(n) == (4 * n + 2) \div 3

LEMMA FilledIn ==
  ASSUME NEW src, NEW n \in Nat, \A i \in 1..n : src[i] \in AByte, NEW j \in Nat \ {0}
  PROVE  Filled(src, n, j) \in AByte
<1>1. 0 \in AByte
  BY DEF AByte
<1>2. j <= n => j \in 1..n
  OBVIOUS
<1>3. QED
  BY <1>1, <1>2, Zenon DEF Filled

\* The g-th group, of k bytes.
GroupSize(n, g) == IF 3 * g <= n THEN 3 ELSE n - 3 * (g - 1)
GroupAt(src, base, g) == Base!Group64(SubSeq(src, 3 * g - 2, Base!Min2(3 * g, Len(src))), base = 64)
GroupIs(src, n, base, g) ==
  GroupedAs(GroupAt(src, base, g), GroupSize(n, g), base = 64,
          Filled(src, n, 3 * g - 2), Filled(src, n, 3 * g - 1), Filled(src, n, 3 * g))

LEMMA GroupAtIs ==
  ASSUME NEW src \in Seq(0..255), NEW n \in Nat, n = Len(src), \A i \in 1..n : src[i] \in AByte,
         NEW base \in {64, -64}, NEW g \in 1..(n + 2) \div 3
  PROVE  GroupIs(src, n, base, g) /\ GroupSize(n, g) \in 1..3
<1>1. PICK k \in 1..3 : k = GroupSize(n, g)
  BY DEF GroupSize
<1>2. PICK w \in Seq(0..255) : w = SubSeq(src, 3 * g - 2, Base!Min2(3 * g, n)) /\ Len(w) = k
        /\ \A i \in 1..k : w[i] = src[(3 * g - 2 + i) - 1]
  <2>1. PICK m \in Int : m = Base!Min2(3 * g, n) /\ m = IF 3 * g < n THEN 3 * g ELSE n
    <3>1. Base!Min2(3 * g, n) = IF 3 * g < n THEN 3 * g ELSE n
      BY Zenon DEF Base!Min2
    <3>2. (IF 3 * g < n THEN 3 * g ELSE n) \in Int
      OBVIOUS
    <3>3. QED
      BY <3>1, <3>2, Zenon
  <2>2. m <= n /\ m <= Len(src) /\ (m - (3 * g - 2)) + 1 = k /\ 3 * g - 2 <= m + 1
    <3>1. k = IF 3 * g <= n THEN 3 ELSE n - 3 * (g - 1)
      BY <1>1, Zenon DEF GroupSize
    <3>2. CASE 3 * g <= n
      BY <2>1, <3>1, <3>2
    <3>3. CASE ~(3 * g <= n)
      BY <2>1, <3>1, <3>3
    <3>4. QED
      BY <3>2, <3>3
  <2>3. PICK l \in Int : l = 3 * g - 2 /\ 1 <= l
    BY <2>1
  <2>4. /\ SubSeq(src, l, m) \in Seq(0..255) /\ Len(SubSeq(src, l, m)) = (m - l) + 1
        /\ \A i \in 1..(m - l) + 1 : SubSeq(src, l, m)[i] = src[(l + i) - 1]
    <3>1. l <= m + 1
      BY <2>2, <2>3
    <3>2. PICK V : V = 0..255
      OBVIOUS
    <3>3. src \in Seq(V)
      BY <3>2, Zenon
    <3>4. /\ SubSeq(src, l, m) \in Seq(V) /\ Len(SubSeq(src, l, m)) = (m - l) + 1
          /\ \A i \in 1..(m - l) + 1 : SubSeq(src, l, m)[i] = src[(l + i) - 1]
      BY <2>2, <2>3, <3>1, <3>3, Cut
    <3>5. QED
      BY <3>2, <3>4, Zenon
  <2>5. PICK w \in Seq(0..255) : w = SubSeq(src, l, m)
    BY <2>4
  <2>6. (m - l) + 1 = k
    BY <2>2, <2>3
  <2>7. QED
    BY <2>1, <2>3, <2>4, <2>5, <2>6, Zenon
<1>3. AtHand(w, k, Filled(src, n, 3 * g - 2), Filled(src, n, 3 * g - 1), Filled(src, n, 3 * g))
  <2>1. k >= 1 => 3 * g - 2 <= n /\ w[1] = src[3 * g - 2]
    <3>1. 1 \in 1..k /\ (3 * g - 2 + 1) - 1 = 3 * g - 2 /\ 3 * g - 2 <= n
      BY <1>1 DEF GroupSize
    <3>2. QED
      BY <1>2, <3>1
  <2>2. k >= 2 => 3 * g - 1 <= n /\ w[2] = src[3 * g - 1]
    <3>1. (3 * g - 2 + 2) - 1 = 3 * g - 1 /\ (k >= 2 => 2 \in 1..k /\ 3 * g - 1 <= n)
      BY <1>1 DEF GroupSize
    <3>2. QED
      BY <1>2, <3>1
  <2>3. k = 3 => 3 * g <= n /\ w[3] = src[3 * g]
    <3>1. (3 * g - 2 + 3) - 1 = 3 * g /\ (k = 3 => 3 \in 1..k /\ 3 * g <= n)
      BY <1>1 DEF GroupSize
    <3>2. QED
      BY <1>2, <3>1
  <2>4. (k < 2 => ~(3 * g - 1 <= n)) /\ (k < 3 => ~(3 * g <= n)) /\ k >= 1
    BY <1>1 DEF GroupSize
  <2>5. k \in 1..3 /\ k = Len(w)
    BY <1>2
  <2>6. QED
    BY <2>1, <2>2, <2>3, <2>4, <2>5 DEF AtHand, Filled
<1>4. /\ Filled(src, n, 3 * g - 2) \in AByte /\ Filled(src, n, 3 * g - 1) \in AByte
      /\ Filled(src, n, 3 * g) \in AByte
  <2>1. 3 * g - 2 \in Nat \ {0} /\ 3 * g - 1 \in Nat \ {0} /\ 3 * g \in Nat \ {0}
    OBVIOUS
  <2>2. QED
    BY <2>1, FilledIn, Zenon
<1>5. (base = 64) \in BOOLEAN
  OBVIOUS
<1>6. GroupedAs(Base!Group64(w, base = 64), k, base = 64,
              Filled(src, n, 3 * g - 2), Filled(src, n, 3 * g - 1), Filled(src, n, 3 * g))
  BY <1>3, <1>4, <1>5, Group64Is, Zenon
<1>7. QED
  BY <1>1, <1>2, <1>6, Zenon DEF GroupIs, GroupAt

\* What base 64 encodes: the digits and then the filling.
RowsOf64(src, n, t) ==
  /\ t \in Seq(Int) /\ DigitCount(n) <= Len(t)
  /\ \A i \in 1..DigitCount(n) : t[i] = Base!base64_alphabet(Digit(src, n, i))
  /\ \A i \in DigitCount(n) + 1..Len(t) : t[i] = 61

\* Where the i-th character is: in the g-th of s groups at e.
PlacedAt(n, s, z, i, g, e) ==
  /\ g \in 1..s /\ e \in 1..4
  /\ g = (i + 3) \div 4 /\ e = 1 + ((i - 1) % 4) /\ i = 4 * (g - 1) + e /\ (i - 1) \div 4 = g - 1
  /\ g = s => e <= z
  /\ g # s => GroupSize(n, g) = 3 /\ i <= DigitCount(n)
  /\ e <= GroupSize(n, g) + 1 <=> i <= DigitCount(n)

LEMMA CharacterAt ==
  ASSUME NEW n \in Nat, NEW s \in Nat \ {0}, s = (n + 2) \div 3, NEW z \in 0..4, NEW i \in 1..4 * (s - 1) + z
  PROVE  \E g, e : PlacedAt(n, s, z, i, g, e)
<1>1. PICK g \in Int, e \in 1..4 :
        g = (i + 3) \div 4 /\ e = 1 + ((i - 1) % 4) /\ i = 4 * (g - 1) + e /\ (i - 1) \div 4 = g - 1
  <2>1. /\ (i + 3) \div 4 \in Int /\ 1 + ((i - 1) % 4) \in 1..4
        /\ i = 4 * ((i + 3) \div 4 - 1) + (1 + ((i - 1) % 4)) /\ (i - 1) \div 4 = (i + 3) \div 4 - 1
    OBVIOUS
  <2>2. QED
    BY <2>1, Zenon
<1>2. g \in 1..s /\ (g = s => e <= z)
  BY <1>1
<1>3. 3 * s <= n + 2 /\ n + 2 < 3 * s + 3
  OBVIOUS
<1>4. g # s => 3 * g <= n
  BY <1>2, <1>3
<1>5. DigitCount(n) = IF 3 * s <= n THEN 4 * s ELSE 4 * (s - 1) + (n - 3 * (s - 1)) + 1
  BY <1>3 DEF DigitCount
<1>6. g # s => GroupSize(n, g) = 3 /\ i <= DigitCount(n)
  BY <1>1, <1>2, <1>3, <1>4, <1>5 DEF GroupSize
<1>7. e <= GroupSize(n, g) + 1 <=> i <= DigitCount(n)
  <2>1. CASE g # s
    BY <1>1, <1>6, <2>1
  <2>2. CASE g = s
    BY <1>1, <1>3, <1>5, <2>2 DEF GroupSize
  <2>3. QED
    BY <2>1, <2>2
<1>8. PlacedAt(n, s, z, i, g, e)
  BY <1>1, <1>2, <1>6, <1>7, Zenon DEF PlacedAt
<1>9. QED
  BY <1>8

LEMMA Rows64 ==
  ASSUME NEW src \in Seq(0..255), NEW n \in Nat, n = Len(src), \A i \in 1..n : src[i] \in AByte,
         NEW base \in {64, -64}
  PROVE  RowsOf64(src, n, Base!base_encode(src, base))
<1>1. PICK s \in Nat : s = (n + 2) \div 3
  OBVIOUS
<1> DEFINE G(g) == GroupAt(src, base, g)
           total == IF s = 0 THEN 0 ELSE 4 * (s - 1) + Len(G(s))
<1>2. Base!base_encode(src, base) = [i \in 1..total |-> G((i + 3) \div 4)[1 + ((i - 1) % 4)]]
  <2>1. base \notin {16, -16}
    OBVIOUS
  <2>2. QED
    BY <1>1, <2>1, Zenon DEF Base!base_encode, GroupAt
<1>3. CASE s = 0
  <2>1. n = 0
    BY <1>1, <1>3
  <2>2. DigitCount(n) = 0
    BY <2>1 DEF DigitCount
  <2>3. total = 0
    BY <1>3
  <2>4. PICK t : t = [i \in 1..0 |-> G((i + 3) \div 4)[1 + ((i - 1) % 4)]] /\ t = Base!base_encode(src, base)
    BY <1>2, <2>3, Zenon
  <2>5. t \in Seq(Int) /\ Len(t) = 0
    <3> HIDE DEF G
    <3>1. QED
      BY <2>4
  <2>6. RowsOf64(src, n, t)
    BY <2>2, <2>5 DEF RowsOf64
  <2>7. QED
    BY <2>4, <2>6, Zenon
<1>4. CASE s # 0
  <2>1. \A g \in 1..s : GroupIs(src, n, base, g) /\ GroupSize(n, g) \in 1..3
    BY <1>1, GroupAtIs, Zenon
  <2>2. ASSUME NEW g \in 1..s
        PROVE  /\ G(g) \in Seq(Int) /\ Len(G(g)) = IF base = 64 THEN 4 ELSE GroupSize(n, g) + 1
               /\ GroupSize(n, g) \in 1..3
               /\ \A i \in 1..GroupSize(n, g) + 1 : G(g)[i] =
                    Base!base64_alphabet(Sextet(Filled(src, n, 3 * g - 2), Filled(src, n, 3 * g - 1), Filled(src, n, 3 * g), i))
               /\ \A i \in GroupSize(n, g) + 2..Len(G(g)) : G(g)[i] = 61
    BY <2>1, Zenon DEF GroupIs, GroupedAs
  <2>3. s \in 1..s /\ s \in Nat \ {0}
    BY <1>1, <1>4
  <2>4. PICK z \in 0..4 : z = Len(G(s)) /\ z = IF base = 64 THEN 4 ELSE GroupSize(n, s) + 1
    <3>1. GroupSize(n, s) \in 1..3 /\ Len(G(s)) = IF base = 64 THEN 4 ELSE GroupSize(n, s) + 1
      BY <2>2, <2>3, Zenon
    <3> HIDE DEF G
    <3>2. QED
      BY <3>1
  <2>5. total = 4 * (s - 1) + z
    BY <1>4, <2>4, Zenon
  <2>6. PICK total2 \in Nat : total2 = 4 * (s - 1) + z
    BY <2>3
  <2>7. PICK t : t = [i \in 1..total2 |-> G((i + 3) \div 4)[1 + ((i - 1) % 4)]] /\ t = Base!base_encode(src, base)
    BY <1>2, <2>5, <2>6, Zenon
  <2> HIDE DEF G, total
  <2>8. ASSUME NEW i \in 1..total2
        PROVE  /\ G((i + 3) \div 4)[1 + ((i - 1) % 4)] \in Int
               /\ i <= DigitCount(n) => G((i + 3) \div 4)[1 + ((i - 1) % 4)] = Base!base64_alphabet(Digit(src, n, i))
               /\ ~(i <= DigitCount(n)) => G((i + 3) \div 4)[1 + ((i - 1) % 4)] = 61
    <3>1. PICK g \in 1..s, e \in 1..4 :
           /\ g = (i + 3) \div 4 /\ e = 1 + ((i - 1) % 4) /\ i = 4 * (g - 1) + e /\ (i - 1) \div 4 = g - 1
           /\ g = s => e <= z
           /\ g # s => GroupSize(n, g) = 3 /\ i <= DigitCount(n)
           /\ e <= GroupSize(n, g) + 1 <=> i <= DigitCount(n)
      <4>1. i \in 1..4 * (s - 1) + z
        BY <2>6, Zenon
      <4>2. PICK g, e : PlacedAt(n, s, z, i, g, e)
        BY <1>1, <2>3, <4>1, CharacterAt, Zenon
      <4>3. QED
        BY <4>2, Zenon DEF PlacedAt
    <3>2. e \in 1..Len(G(g)) /\ Len(G(g)) \in Nat
      <4>1. Len(G(g)) = (IF base = 64 THEN 4 ELSE GroupSize(n, g) + 1) /\ GroupSize(n, g) \in 1..3
        BY <2>2
      <4>2. CASE g = s
        <5>1. Len(G(g)) = z
          BY <2>4, <4>2, Zenon
        <5>2. QED
          BY <3>1, <4>2, <5>1
      <4>3. CASE g # s
        BY <3>1, <4>1, <4>3
      <4>4. QED
        BY <4>2, <4>3
    <3>3. G(g)[e] \in Int
      BY <2>2, <3>2, ItemsOf, Zenon
    <3>4. ASSUME i <= DigitCount(n) PROVE G(g)[e] = Base!base64_alphabet(Digit(src, n, i))
      <4>1. e \in 1..GroupSize(n, g) + 1
        <5>1. GroupSize(n, g) \in 1..3
          BY <2>2
        <5>2. QED
          BY <3>1, <3>4, <5>1
      <4>2. 3 * (g - 1) + 1 = 3 * g - 2 /\ 3 * (g - 1) + 2 = 3 * g - 1 /\ 3 * (g - 1) + 3 = 3 * g
        OBVIOUS
      <4>3. Digit(src, n, i) = Sextet(Filled(src, n, 3 * g - 2), Filled(src, n, 3 * g - 1), Filled(src, n, 3 * g), e)
        BY <3>1, <4>2, Zenon DEF Digit
      <4>4. QED
        BY <2>2, <4>1, <4>3, ZenonT(60)
    <3>5. ASSUME ~(i <= DigitCount(n)) PROVE G(g)[e] = 61
      <4>1. e \in GroupSize(n, g) + 2..Len(G(g))
        <5>1. GroupSize(n, g) \in 1..3
          BY <2>2
        <5>2. QED
          BY <3>1, <3>2, <3>5, <5>1
      <4>2. QED
        BY <2>2, <4>1, Zenon
    <3>6. QED
      BY <3>1, <3>3, <3>4, <3>5, Zenon
  <2>9. t \in Seq(Int) /\ Len(t) = total2 /\ \A i \in 1..total2 : t[i] = G((i + 3) \div 4)[1 + ((i - 1) % 4)]
    <3>1. \A i \in 1..total2 : G((i + 3) \div 4)[1 + ((i - 1) % 4)] \in Int
      BY <2>8, Zenon
    <3>2. QED
      BY <2>7, <3>1
  <2>10. PICK m \in Nat : m = DigitCount(n)
    BY DEF DigitCount
  <2>11. m <= total2
    <3>1. m = IF 3 * s <= n THEN 4 * s ELSE 4 * (s - 1) + (n - 3 * (s - 1)) + 1
      <4>1. 3 * s <= n + 2 /\ n + 2 < 3 * s + 3
        BY <1>1
      <4>2. QED
        BY <2>10, <4>1 DEF DigitCount
    <3>2. z >= GroupSize(n, s) + 1
      <4>1. GroupSize(n, s) \in 1..3
        BY <2>2, <2>3, Zenon
      <4>2. QED
        BY <2>4, <4>1
    <3>3. QED
      BY <1>1, <2>3, <2>6, <3>1, <3>2 DEF GroupSize
  <2>12. \A i \in 1..m : t[i] = Base!base64_alphabet(Digit(src, n, i))
    <3>1. \A i \in 1..m : i \in 1..total2 /\ i <= m
      BY <2>11
    <3>2. QED
      BY <2>8, <2>9, <2>10, <3>1, Zenon
  <2>13. \A i \in m + 1..total2 : t[i] = 61
    <3>1. ASSUME NEW i \in m + 1..total2 PROVE t[i] = 61
      <4>1. i \in 1..total2 /\ ~(i <= m)
        BY <2>6
      <4>2. ~(i <= DigitCount(n))
        BY <2>10, <4>1, Zenon
      <4>3. G((i + 3) \div 4)[1 + ((i - 1) % 4)] = 61
        BY <2>8, <4>1, <4>2, Zenon
      <4>4. QED
        BY <2>9, <4>1, <4>3, Zenon
    <3>2. QED
      BY <3>1
  <2>14. RowsOf64(src, n, t)
    BY <2>9, <2>10, <2>11, <2>12, <2>13, Zenon DEF RowsOf64
  <2>15. QED
    BY <2>7, <2>14, Zenon
<1>5. QED
  BY <1>3, <1>4

\* The digits of three bytes give the bytes.
OctetsOf(a, b, c, x, y, z, w) ==
  a = x * 4 + (y \div 16) /\ b = (y % 16) * 16 + (z \div 4) /\ c = (z % 4) * 64 + w

LEMMA BytesBack ==
  ASSUME NEW a, NEW b, NEW c, NEW g, NEW h, NEW l, NEW k, NEW x, NEW y, NEW z, NEW w,
         Shared(a, b, c, g, h, l, k, x, y, z, w)
  PROVE  OctetsOf(a, b, c, x, y, z, w)
<1>1. y \div 16 = g /\ y % 16 = h /\ z \div 4 = l /\ z % 4 = k
  BY SMT DEF Shared
<1>2. QED
  BY <1>1, SMT DEF Shared, OctetsOf

LEMMA ThreeBack ==
  ASSUME NEW a \in AByte, NEW b \in AByte, NEW c \in AByte
  PROVE  OctetsOf(a, b, c, Sextet(a, b, c, 1), Sextet(a, b, c, 2), Sextet(a, b, c, 3), Sextet(a, b, c, 4))
<1>1. PICK g, h, l, k, x, y, z, w : Shared(a, b, c, g, h, l, k, x, y, z, w) /\ Sextets(a, b, c, x, y, z, w)
  BY SextetIs, Zenon
<1>2. OctetsOf(a, b, c, x, y, z, w)
  BY <1>1, BytesBack, Zenon
<1>3. QED
  BY <1>1, <1>2, Zenon DEF Sextets

\* The digits of the q-th group.
DigitOfGroup(src, n, q, e) ==
  Digit(src, n, 4 * q + e)
    = Sextet(Filled(src, n, 3 * q + 1), Filled(src, n, 3 * q + 2), Filled(src, n, 3 * q + 3), e)

LEMMA DigitAt ==
  ASSUME NEW src, NEW n, NEW q \in Nat, NEW e \in 1..4
  PROVE  DigitOfGroup(src, n, q, e)
<1>1. ((4 * q + e) - 1) \div 4 = q /\ 1 + (((4 * q + e) - 1) % 4) = e
  OBVIOUS
<1>2. QED
  BY <1>1, Zenon DEF Digit, DigitOfGroup

\* The bytes the digits give are the ones encoded.
OctetBack(src, n, v, j) == Octet64(v, j) = src[j]

LEMMA OctetsBack ==
  ASSUME NEW src, NEW n \in Nat, \A i \in 1..n : src[i] \in AByte,
         NEW v, \A i \in 1..DigitCount(n) : v[i] = Digit(src, n, i), NEW j \in 1..n
  PROVE  OctetBack(src, n, v, j)
<1>1. PICK q \in Nat : j = 3 * q + 1 \/ j = 3 * q + 2 \/ j = 3 * q + 3
  <2>1. /\ (j - 1) \div 3 \in Nat
        /\ \/ j = 3 * ((j - 1) \div 3) + 1 \/ j = 3 * ((j - 1) \div 3) + 2 \/ j = 3 * ((j - 1) \div 3) + 3
    OBVIOUS
  <2>2. QED
    BY <2>1, Zenon
<1>2. PICK a \in AByte, b \in AByte, c \in AByte :
        a = Filled(src, n, 3 * q + 1) /\ b = Filled(src, n, 3 * q + 2) /\ c = Filled(src, n, 3 * q + 3)
  <2>1. 3 * q + 1 \in Nat \ {0} /\ 3 * q + 2 \in Nat \ {0} /\ 3 * q + 3 \in Nat \ {0}
    OBVIOUS
  <2>2. QED
    BY <2>1, FilledIn, Zenon
<1>3. OctetsOf(a, b, c, Sextet(a, b, c, 1), Sextet(a, b, c, 2), Sextet(a, b, c, 3), Sextet(a, b, c, 4))
  BY ThreeBack
<1>4. /\ Digit(src, n, 4 * q + 1) = Sextet(a, b, c, 1) /\ Digit(src, n, 4 * q + 2) = Sextet(a, b, c, 2)
      /\ Digit(src, n, 4 * q + 3) = Sextet(a, b, c, 3) /\ Digit(src, n, 4 * q + 4) = Sextet(a, b, c, 4)
  <2>1. 1 \in 1..4 /\ 2 \in 1..4 /\ 3 \in 1..4 /\ 4 \in 1..4
    OBVIOUS
  <2>2. DigitOfGroup(src, n, q, 1) /\ DigitOfGroup(src, n, q, 2) /\ DigitOfGroup(src, n, q, 3) /\ DigitOfGroup(src, n, q, 4)
    BY <2>1, DigitAt
  <2>3. QED
    BY <1>2, <2>2, Zenon DEF DigitOfGroup
<1>5. 4 * q + 1 \in Nat \ {0} /\ 4 * q + 2 \in Nat \ {0} /\ 4 * q + 3 \in Nat \ {0} /\ 4 * q + 4 \in Nat \ {0}
  OBVIOUS
<1>6. CASE j = 3 * q + 1
  <2>1. 4 * q + 1 \in 1..DigitCount(n) /\ 4 * q + 2 \in 1..DigitCount(n)
    BY <1>6 DEF DigitCount
  <2>2. Octet64(v, 3 * q + 1) = Sextet(a, b, c, 1) * 4 + (Sextet(a, b, c, 2) \div 16)
    <3>1. v[4 * q + 1] = Sextet(a, b, c, 1) /\ v[4 * q + 2] = Sextet(a, b, c, 2)
      BY <1>4, <2>1, Zenon
    <3>2. Octet64(v, 3 * q + 1) = v[4 * q + 1] * 4 + (v[4 * q + 2] \div 16)
      BY Octet64Is, Zenon
    <3>3. QED
      BY <3>1, <3>2, Zenon
  <2>3. a = src[j]
    BY <1>2, <1>6 DEF Filled
  <2>4. QED
    BY <1>3, <1>6, <2>2, <2>3, Zenon DEF OctetsOf, OctetBack
<1>7. CASE j = 3 * q + 2
  <2>1. 4 * q + 2 \in 1..DigitCount(n) /\ 4 * q + 3 \in 1..DigitCount(n)
    BY <1>7 DEF DigitCount
  <2>2. Octet64(v, 3 * q + 2) = (Sextet(a, b, c, 2) % 16) * 16 + (Sextet(a, b, c, 3) \div 4)
    <3>1. v[4 * q + 2] = Sextet(a, b, c, 2) /\ v[4 * q + 3] = Sextet(a, b, c, 3)
      BY <1>4, <2>1, Zenon
    <3>2. Octet64(v, 3 * q + 2) = (v[4 * q + 2] % 16) * 16 + (v[4 * q + 3] \div 4)
      BY Octet64Is, Zenon
    <3>3. QED
      BY <3>1, <3>2, Zenon
  <2>3. b = src[j]
    BY <1>2, <1>7 DEF Filled
  <2>4. QED
    BY <1>3, <1>7, <2>2, <2>3, Zenon DEF OctetsOf, OctetBack
<1>8. CASE j = 3 * q + 3
  <2>1. 4 * q + 3 \in 1..DigitCount(n) /\ 4 * q + 4 \in 1..DigitCount(n)
    BY <1>8 DEF DigitCount
  <2>2. Octet64(v, 3 * q + 3) = (Sextet(a, b, c, 3) % 4) * 64 + Sextet(a, b, c, 4)
    <3>1. v[4 * q + 3] = Sextet(a, b, c, 3) /\ v[4 * q + 4] = Sextet(a, b, c, 4)
      BY <1>4, <2>1, Zenon
    <3>2. Octet64(v, 3 * q + 3) = (v[4 * q + 3] % 4) * 64 + v[4 * q + 4]
      BY Octet64Is, Zenon
    <3>3. QED
      BY <3>1, <3>2, Zenon
  <2>3. c = src[j]
    BY <1>2, <1>8 DEF Filled
  <2>4. QED
    BY <1>3, <1>8, <2>2, <2>3, Zenon DEF OctetsOf, OctetBack
<1>9. QED
  BY <1>1, <1>6, <1>7, <1>8

\* Base 64 decodes what it has encoded.
LEMMA DigitIn ==
  ASSUME NEW src, NEW n \in Nat, \A i \in 1..n : src[i] \in AByte, NEW i \in Nat \ {0}
  PROVE  Digit(src, n, i) \in 0..63
<1>1. PICK q \in Nat, e \in 1..4 : q = (i - 1) \div 4 /\ e = 1 + ((i - 1) % 4)
  OBVIOUS
<1>2. 3 * q + 1 \in Nat \ {0} /\ 3 * q + 2 \in Nat \ {0} /\ 3 * q + 3 \in Nat \ {0}
  OBVIOUS
<1>3. /\ Filled(src, n, 3 * q + 1) \in AByte /\ Filled(src, n, 3 * q + 2) \in AByte
      /\ Filled(src, n, 3 * q + 3) \in AByte
  BY <1>2, FilledIn, Zenon
<1>4. Sextet(Filled(src, n, 3 * q + 1), Filled(src, n, 3 * q + 2), Filled(src, n, 3 * q + 3), e) \in ADigit
  BY <1>3, SextetIn, Zenon
<1>5. Digit(src, n, i) \in ADigit
  BY <1>1, <1>4, Zenon DEF Digit
<1>6. QED
  BY <1>5, Zenon DEF ADigit

LEMMA Inverts64 ==
  ASSUME NEW src \in Seq(0..255), NEW base \in {64, -64}
  PROVE  Base!base_decode(Base!base_encode(src, base), base) = src
<1>1. PICK n \in Nat : n = Len(src) /\ \A i \in 1..n : src[i] \in AByte /\ src[i] \in Int
  <2>1. Len(src) \in Nat /\ \A i \in 1..Len(src) : src[i] \in 0..255
    BY ItemsOf, Zenon
  <2>2. \A x \in 0..255 : x \in Int
    OBVIOUS
  <2>3. QED
    BY <2>1, <2>2, Zenon DEF AByte
<1>2. PICK m \in Nat : m = DigitCount(n) /\ m % 4 # 1 /\ (6 * m) \div 8 = n
  <2>1. DigitCount(n) \in Nat /\ DigitCount(n) % 4 # 1 /\ (6 * DigitCount(n)) \div 8 = n
    BY DEF DigitCount
  <2>2. QED
    BY <2>1, Zenon
<1>3. PICK t : t = Base!base_encode(src, base)
  OBVIOUS
<1>4. RowsOf64(src, n, t)
  BY <1>1, <1>3, Rows64
<1>5. t \in Seq(Int) /\ m <= Len(t) /\ (\A i \in m + 1..Len(t) : t[i] = 61)
  BY <1>2, <1>4, Zenon DEF RowsOf64
<1>6. \A i \in 1..m : t[i] # 0 /\ t[i] # 61 /\ Base!Value64(t[i]) = Digit(src, n, i) /\ Digit(src, n, i) \in 0..63
  <2>1. ASSUME NEW i \in 1..m
        PROVE  t[i] # 0 /\ t[i] # 61 /\ Base!Value64(t[i]) = Digit(src, n, i) /\ Digit(src, n, i) \in 0..63
    <3>1. i \in Nat \ {0} /\ i \in 1..DigitCount(n)
      BY <1>2
    <3>2. PICK d \in 0..63 : d = Digit(src, n, i)
      BY <1>1, <3>1, DigitIn, Zenon
    <3>3. PICK c \in Int : c = Base!base64_alphabet(d) /\ c # 0 /\ c # 61 /\ Base!Value64(c) = d
      BY Alphabet64, Zenon
    <3>4. t[i] = c
      BY <1>4, <3>1, <3>2, <3>3, Zenon DEF RowsOf64
    <3>5. QED
      BY <3>2, <3>3, <3>4
  <2>2. QED
    BY <2>1
<1>7. PICK ends : ends = {Base!NUL, Base!Equals} /\ ends = {0, 61}
  BY DEF Base!NUL, Base!Equals
<1>8. PICK u \in Seq(Int) : u = Base!Before(t, ends) /\ Len(u) = m /\ \A i \in 1..m : u[i] = t[i]
  <2>1. PICK p \in 0..Len(t) :
           /\ Base!Before(t, ends) = SubSeq(t, 1, p) /\ Base!Before(t, ends) \in Seq(Int)
           /\ Len(Base!Before(t, ends)) = p /\ \A i \in 1..p : Base!Before(t, ends)[i] = t[i]
           /\ \A i \in 1..p : t[i] \notin ends
           /\ p < Len(t) => t[p + 1] \in ends
    BY <1>5, BeforeIs, Zenon
  <2>2. ~(p < m)
    <3>1. SUFFICES ASSUME p < m PROVE FALSE
      OBVIOUS
    <3>2. p < Len(t) /\ p + 1 \in 1..m
      BY <1>5, <3>1
    <3>3. QED
      BY <1>6, <1>7, <2>1, <3>2
  <2>3. ~(p > m)
    <3>1. SUFFICES ASSUME p > m PROVE FALSE
      OBVIOUS
    <3>2. m + 1 \in m + 1..Len(t) /\ m + 1 \in 1..p
      BY <2>1, <3>1
    <3>3. t[m + 1] = 61 /\ t[m + 1] \notin ends
      BY <1>5, <2>1, <3>2, Zenon
    <3>4. QED
      BY <1>7, <3>3
  <2>4. p = m
    BY <2>2, <2>3
  <2>5. QED
    BY <2>1, <2>4, Zenon
<1>9. PICK v : v = Values64(u) /\ \A i \in 1..m : v[i] = Digit(src, n, i)
  <2>1. PICK v : v = Values64(u)
    OBVIOUS
  <2>2. \A i \in 1..m : v[i] = Base!Value64(u[i])
    BY <1>8, <2>1, Values64Are, Zenon
  <2>3. ASSUME NEW i \in 1..m PROVE v[i] = Digit(src, n, i)
    <3>1. Base!Value64(t[i]) = Digit(src, n, i)
      BY <1>6, Zenon
    <3>2. u[i] = t[i] /\ v[i] = Base!Value64(u[i])
      BY <1>8, <2>2, Zenon
    <3>3. QED
      BY <3>1, <3>2, Zenon
  <2>4. QED
    BY <2>1, <2>3
<1>10. Base!base_decode(t, base) = Decoded64(v, m)
  <2>1. u \in Seq(Int) /\ u = Base!Before(t, {Base!NUL, Base!Equals}) /\ v = Values64(u)
    BY <1>7, <1>8, <1>9, Zenon
  <2>2. Base!base_decode(t, base) = Decoded64(v, Len(u))
    BY <2>1, Decodes64, ZenonT(60)
  <2>3. QED
    BY <1>8, <2>2
<1>11. Sound(v, m)
  <2>1. \A d \in 0..63 : d # -1
    OBVIOUS
  <2>2. QED
    BY <1>6, <1>9, <2>1, Zenon DEF Sound
<1>12. Octets64(v, n) = src
  <2>1. \A j \in 1..n : Octet64(v, j) = src[j]
    BY <1>1, <1>2, <1>9, OctetsBack, ZenonT(60) DEF OctetBack
  <2>2. Octets64(v, n) = [j \in 1..n |-> src[j]]
    BY <2>1, Zenon DEF Octets64
  <2>3. [j \in 1..n |-> src[j]] = src
    BY <1>1
  <2>4. QED
    BY <2>2, <2>3
<1>13. QED
  BY <1>2, <1>3, <1>10, <1>11, <1>12, Zenon DEF Decoded64

\* Base encoding is inverted, and texts mean what their digits say.
LEMMA BytesAreIntegers ==
  ASSUME NEW s \in Seq(0..255)
  PROVE  s \in Seq(Int)
<1>1. PICK n \in Nat : n = Len(s) /\ \A i \in 1..n : s[i] \in Int
  <2>1. Len(s) \in Nat /\ \A i \in 1..Len(s) : s[i] \in 0..255
    BY ItemsOf, Zenon
  <2>2. \A x \in 0..255 : x \in Int
    OBVIOUS
  <2>3. QED
    BY <2>1, <2>2, Zenon
<1>2. s = [i \in 1..n |-> s[i]]
  BY <1>1
<1>3. [i \in 1..n |-> s[i]] \in Seq(Int)
  BY <1>1
<1>4. QED
  BY <1>2, <1>3, Zenon

LEMMA BaseRight ==
  ASSUME NEW src \in Seq(0..255)
  PROVE  Base!InvertsBases(src)
<1>1. src \in Seq(Int)
  BY BytesAreIntegers
<1>2. ASSUME NEW base \in {16, -16}
      PROVE  Base!base_decode(Base!base_encode(src, base), base) = src /\ Base!base_decode(src, base) = Base!Meaning(src, base)
  <2>1. PICK t \in Seq(Int) : t = Base!Before(src, {Base!NUL})
    BY <1>1, BeforeIs, Zenon
  <2>2. QED
    BY <2>1, Means16, Inverts16, Zenon
<1>3. ASSUME NEW base \in {64, -64}
      PROVE  Base!base_decode(Base!base_encode(src, base), base) = src /\ Base!base_decode(src, base) = Base!Meaning(src, base)
  <2>1. PICK t \in Seq(Int) : t = Base!Before(src, {Base!NUL, Base!Equals})
    BY <1>1, BeforeIs, Zenon
  <2>2. QED
    BY <2>1, Means64, Inverts64, ZenonT(60)
<1>4. Base!Bases = {16, -16} \cup {64, -64}
  BY DEF Base!Bases
<1>5. QED
  BY <1>2, <1>3, <1>4, Zenon DEF Base!InvertsBases

\* The input of the base encoding is a sequence of bytes.
BaseInput == unit = "base" => input \in Seq(0..255)

LEMMA BaseBytes == Alphabet("base") \subseteq 0..255
BY InputsAssumption DEF Alphabet

LEMMA AppendsByte ==
  ASSUME NEW q \in Seq(0..255), NEW x \in 0..255
  PROVE  Append(q, x) \in Seq(0..255)
OBVIOUS

LEMMA BaseInputKeeps ==
  ASSUME BaseInput, [Next]_<<unit, socketVars, fileVars, streamVars, hashVars, cipherVars, vectorVars, input>>
  PROVE  BaseInput'
<1>1. SUFFICES ASSUME unit' = "base" PROVE input' \in Seq(0..255)
  BY Zenon DEF BaseInput
<1>2. unit = "base" /\ input \in Seq(0..255)
  BY <1>1, InputGrows, Zenon DEF BaseInput
<1>3. CASE input' = input
  BY <1>2, <1>3, Zenon
<1>4. CASE \E x \in Alphabet(unit) : input' = Append(input, x)
  <2>1. PICK x \in 0..255 : input' = Append(input, x)
    BY <1>2, <1>4, BaseBytes, Zenon
  <2>2. QED
    BY <1>2, <2>1, AppendsByte, Zenon
<1>5. QED
  BY <1>1, <1>3, <1>4, InputGrows, Zenon

\* The input of the decoder of UTF-8 is a sequence of bytes, that of the encoders one of codes.
UnicodeInput ==
  /\ unit = "utf8" => input \in Seq(0..255)
  /\ unit = "codes" => input \in Seq(Nat) /\ Codes21(input)

LEMMA Utf8Bytes == Alphabet("utf8") \subseteq 0..255
BY InputsAssumption DEF Alphabet

LEMMA CodesAre ==
  ASSUME NEW x \in Alphabet("codes")
  PROVE  x \in Nat /\ Code21(x)
BY InputsAssumption DEF Alphabet, Code21

LEMMA AppendsCode ==
  ASSUME NEW q \in Seq(Nat), Codes21(q), NEW x \in Nat, Code21(x)
  PROVE  Append(q, x) \in Seq(Nat) /\ Codes21(Append(q, x))
<1>1. Append(q, x) \in Seq(Nat) /\ Len(q) \in Nat /\ Len(Append(q, x)) = Len(q) + 1
      /\ Append(q, x)[Len(q) + 1] = x /\ \A i \in 1..Len(q) : Append(q, x)[i] = q[i]
  OBVIOUS
<1>2. \A i \in 1..Len(q) + 1 : i \in 1..Len(q) \/ i = Len(q) + 1
  BY <1>1
<1>3. QED
  BY <1>1, <1>2, Zenon DEF Codes21

LEMMA UnicodeInputKeeps ==
  ASSUME UnicodeInput, [Next]_<<unit, socketVars, fileVars, streamVars, hashVars, cipherVars, vectorVars, input>>
  PROVE  UnicodeInput'
<1>1. CASE input' = input
  BY <1>1, InputGrows, Zenon DEF UnicodeInput
<1>2. CASE \E x \in Alphabet(unit) : input' = Append(input, x)
  <2>1. ASSUME unit' = "utf8" PROVE input' \in Seq(0..255)
    <3>1. unit = "utf8" /\ input \in Seq(0..255)
      BY <2>1, InputGrows, Zenon DEF UnicodeInput
    <3>2. PICK x \in 0..255 : input' = Append(input, x)
      BY <1>2, <3>1, Utf8Bytes, Zenon
    <3>3. QED
      BY <3>1, <3>2, AppendsByte, Zenon
  <2>2. ASSUME unit' = "codes" PROVE input' \in Seq(Nat) /\ Codes21(input')
    <3>1. unit = "codes" /\ input \in Seq(Nat) /\ Codes21(input)
      BY <2>2, InputGrows, Zenon DEF UnicodeInput
    <3>2. PICK x \in Nat : Code21(x) /\ input' = Append(input, x)
      BY <1>2, <3>1, CodesAre, Zenon
    <3>3. QED
      BY <3>1, <3>2, AppendsCode, Zenon
  <2>3. QED
    BY <2>1, <2>2, Zenon DEF UnicodeInput, Codes21
<1>3. QED
  BY <1>1, <1>2, InputGrows, Zenon

-----------------------------------------------------------------------------
\* The components together.

allVars == <<unit, socketVars, fileVars, streamVars, hashVars, cipherVars, vectorVars, input>>

\* What a step does to each component: it is one of its own steps or leaves it alone.
LEMMA EachMoves ==
  ASSUME [Next]_allVars
  PROVE  /\ [Sockets!Next]_Sockets!vars
         /\ [File!Next]_File!vars
         /\ [Random!Next]_Random!vars
         /\ [Hasher!Next]_Hasher!vars
         /\ [Items!Next]_Items!vars
         /\ unit' = unit /\ (unit = "cipher" => [Aes!Next]_Aes!vars)
<1>1. CASE UNCHANGED allVars
  BY <1>1 DEF allVars, socketVars, fileVars, streamVars, hashVars, vectorVars, cipherVars,
              Sockets!vars, File!vars, Random!vars, Hasher!vars, Items!vars, Aes!vars
<1>2. CASE Next
  BY <1>2, Zenon DEF Next, Moves, socketVars, fileVars, streamVars, hashVars, vectorVars, cipherVars,
              Sockets!vars, File!vars, Random!vars, Hasher!vars, Items!vars, Aes!vars
<1>3. QED
  BY <1>1, <1>2

\* A socket closes its own descriptors only, but for descriptor 0.
THEOREM SocketsCloseTheirOwn == Spec => ClosesItsOwn
<1>1. Init => SocketInv
  BY SocketStarts DEF Init
<1>2. SocketInv /\ [Next]_allVars => SocketInv'
  BY EachMoves, SocketKeepsInv
<1>3. SocketInv /\ [Next]_allVars => [\A f \in Sockets!Fd :
            file[f] # Closed /\ file'[f] = Closed =>
              \/ file[f] = last'.socket
              \/ f = 0 /\ (robbed \/ Sockets!Has(last'.socket, {"bound", "closed"}))]_Sockets!vars
  BY EachMoves, SocketClosesItsOwn
<1>4. QED
  BY <1>1, <1>2, <1>3, PTL DEF Spec, ClosesItsOwn, Sockets!ClosesItsOwn, allVars

\* The sockets lose descriptors and blocks where LosesOnlyThere says and nowhere else.
THEOREM SocketsLoseOnlyThere == Spec => LosesOnlyThere
<1>1. Init => SocketInv /\ LossTypes
  BY SocketStarts, LossesStart DEF Init
<1>2. SocketInv /\ LossTypes /\ [Next]_allVars => SocketInv' /\ LossTypes'
  BY EachMoves, SocketKeepsInv, LossesExplained
<1>3. SocketInv /\ LossTypes /\ [Next]_allVars =>
        [LET s == last'.socket
             gone == file'[sock[s].fd] = s
         IN /\ ~(Sockets!LostFds' \subseteq Sockets!LostFds) =>
                 \/ last'.step = "accept" /\ error' # <<>>
                 \/ last'.step = "bind" /\ Sockets!Has(s, {"open"}) /\ sock'[s].status = "bound"
                 \/ last'.step \in {"close", "stream_close"} /\ gone /\ heap' # heap
                 \/ last'.step = "stream_dispose" /\ gone /\ Sockets!Has(s, {"stream"})
            /\ Sockets!LostBlocks' - Sockets!LostBlocks =
                 CASE last'.step \in {"connect", "init"} /\ call'[s] = Sockets!Idle -> call[s].list
                   [] last'.step = "close" /\ call[s] # Sockets!Idle /\ heap' # heap -> 3
                   [] last'.step \in {"stream_close", "stream_ask"} /\ error' # <<>> /\ ~Head(error').message -> 3
                   [] OTHER -> 0]_Sockets!vars
  BY EachMoves, LossesAreNamed
<1>4. QED
  BY <1>1, <1>2, <1>3, PTL DEF Spec, LosesOnlyThere, Sockets!LosesOnlyThere, allVars

\* The stream over a file keeps to it.
THEOREM FilesAreKept == Spec => KeepsToItsFile
<1>1. Init => FileInv
  BY FileStarts DEF Init
<1>2. FileInv /\ [Next]_allVars => FileInv'
  BY EachMoves, FileKeeps
<1>3. FileInv /\ [Next]_allVars => [FileKept]_File!vars
  BY EachMoves, FileKeepsToIt
<1>4. QED
  BY <1>1, <1>2, <1>3, PTL DEF Spec, KeepsToItsFile, File!KeepsToItsFile, FileKept, allVars

\* The random stream reads on where it was left, and goes where its seeks say.
THEOREM RandomReadsOn == Spec => ReadsOn
<1>1. Init => RandomInv
  BY RandomStarts DEF Init
<1>2. RandomInv /\ [Next]_allVars => RandomInv'
  BY EachMoves, RandomKeeps
<1>3. RandomInv /\ [Next]_allVars => [ReadOn]_Random!vars
  BY EachMoves, RandomKeeps
<1>4. QED
  BY <1>1, <1>2, <1>3, PTL DEF Spec, ReadsOn, Random!ReadsOn, ReadOn, allVars

\* Vectors edit their items as their calls say.
THEOREM VectorsEdit == Spec => EditsItems
<1>1. Init => ItemsInv
  BY ItemsStart DEF Init
<1>2. ItemsInv /\ [Next]_allVars => ItemsInv'
  BY EachMoves, ItemsKeep
<1>3. ItemsInv /\ [Next]_allVars =>
        [LET idx == edit'.idx
             n == Len(edit'.run.items)
         IN /\ count' <= capacity'
            /\ count' = (count + n) - edit'.gone
            /\ SubSeq(Items!Items', 1, idx) = SubSeq(Items!Items, 1, idx)
            /\ SubSeq(Items!Items', idx + n + 1, count') = SubSeq(Items!Items, idx + edit'.gone + 1, count)
            /\ Items!Stale(edit') \/ SubSeq(Items!Items', idx + 1, idx + n) = edit'.run.items]_Items!vars
  BY EachMoves, ItemsKeep, Zenon DEF EditedItems
<1>4. QED
  BY <1>1, <1>2, <1>3, PTL DEF Spec, EditsItems, Items!EditsItems, allVars

\* Digests, double digests and HMACs are those of the whole message, however it was written.
THEOREM DigestsAreRight == Spec => DigestOfMessage
<1>1. Init => HashInv
  BY HashStarts DEF Init
<1>2. HashInv /\ [Next]_allVars => HashInv'
  BY EachMoves, HashKeeps
<1>3. HashInv => DigestOfMessage
  BY RightIs DEF HashInv, DigestOfMessage
<1>4. QED
  BY <1>1, <1>2, <1>3, PTL DEF Spec, allVars

\* What is decrypted is what was encrypted, and what the padding needs for that.
THEOREM CiphersInvert == Spec => CipherInverts
<1>1. Init => (unit = "cipher" => CipherInv)
  BY CipherStarts DEF Init
<1>2. (unit = "cipher" => CipherInv) /\ [Next]_allVars => (unit = "cipher" => CipherInv)'
  <2>1. ASSUME unit = "cipher" => CipherInv, [Next]_allVars, unit' = "cipher" PROVE CipherInv'
    <3>1. CipherInv /\ [Aes!Next]_Aes!vars
      BY <2>1, EachMoves
    <3>2. QED
      BY <3>1, CipherKeeps, Zenon
  <2>2. QED
    BY <2>1, Zenon
<1>3. (unit = "cipher" => CipherInv) => CipherInverts
  BY CipherRight DEF CipherInverts
<1>4. QED
  BY <1>1, <1>2, <1>3, PTL DEF Spec, allVars

\* Every sequence of keys is sorted, and equal keys stay in their order.
THEOREM SortsAreStable == Spec => SortIsStable
<1>1. Init => SortInput
  <2>1. <<>> \in Seq(Int)
    OBVIOUS
  <2>2. QED
    BY <2>1, Zenon DEF Init, SortInput
<1>2. SortInput /\ [Next]_allVars => SortInput'
  BY SortInputKeeps, Zenon DEF allVars
<1>3. SortInput => SortIsStable
  BY SortRight, Zenon DEF SortInput, SortIsStable
<1>4. QED
  BY <1>1, <1>2, <1>3, PTL DEF Spec, allVars

\* Decoding inverts encoding in every base, and a text of any bytes is decoded to what its digits
\* mean or rejected.
THEOREM BasesInvert == Spec => BaseInverts
<1>1. Init => BaseInput
  <2>1. <<>> \in Seq(0..255)
    OBVIOUS
  <2>2. QED
    BY <2>1, Zenon DEF Init, BaseInput
<1>2. BaseInput /\ [Next]_allVars => BaseInput'
  BY BaseInputKeeps, Zenon DEF allVars
<1>3. BaseInput => BaseInverts
  BY BaseRight, Zenon DEF BaseInput, BaseInverts
<1>4. QED
  BY <1>1, <1>2, <1>3, PTL DEF Spec, allVars

\* A text of any bytes is decoded from UTF-8 if and only if it has the structure of UTF-8, to the
\* numbers of its characters; decoding inverts encoding in UTF-8 and UTF-16, and UTF-16 is decoded
\* without an error if and only if its surrogates come in pairs.
THEOREM UnicodesInvert == Spec => UnicodeInverts
<1>1. Init => UnicodeInput
  <2>1. <<>> \in Seq(0..255) /\ <<>> \in Seq(Nat) /\ Codes21(<<>>)
    BY DEF Codes21
  <2>2. QED
    BY <2>1, Zenon DEF Init, UnicodeInput
<1>2. UnicodeInput /\ [Next]_allVars => UnicodeInput'
  BY UnicodeInputKeeps, Zenon DEF allVars
<1>3. UnicodeInput => UnicodeInverts
  BY Utf8Decodes, CodesInvert, Zenon DEF UnicodeInput, UnicodeInverts
<1>4. QED
  BY <1>1, <1>2, <1>3, PTL DEF Spec, allVars
=============================================================================
