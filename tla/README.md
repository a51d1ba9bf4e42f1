# A verification of libvial in TLA+

libvial is a small C library: reference counted strings and blocks, containers, streams,
sockets, text encodings, JSON, hashing and encryption. It has almost no documentation, so
the code is the specification and these modules are translations of it. Paths are those of
the repository.

## 1. Inventory

| Component | Source | State it keeps | Operations | What is hard, what makes it correct |
|---|---|---|---|---|
| Shared pointers | `src/sharedptr.c` | a header before each block: `dispose`, `count`, `flag` | make, malloc, take, leave | the only code meant for several threads: a spin lock around a plain `count++`/`count--`; the block is destroyed after the lock is released. The count must be exact, the object disposed once, nothing used after it is freed |
| Map | `src/collections/map.c`, `collections/map.h` | a tree of nodes with cached heights, `size` | init, put, get, contains, remove, foreach, dispose | long sequences of puts and removes; cached heights that must stay right for the next rotation; entries disposed of exactly when they leave |
| Vector | `collections/vector.h` | `data`, `length`, `capacity` | reserve, shrink, add, addall, insert, insertall, remove | growth, element moves |
| String builder | `src/text/stringbuilder.c` | `data`, `length`, `capacity` | append, insert, delete, reverse, set_char, extract | tails moved by the right number of characters |
| String | `src/string.c` | a shared pointer to `length`, characters | new, take, leave, concat, format | client of shared pointers |
| Streams | `src/io/stream/*.c` | position, size, buffer, file handle, hasher | capabilities, close, flush, seek, position, available, read, write, dispose | seeks past the end, growth, failure in the middle of a call |
| Sockets, net stream | `src/io/net/*.c` | file descriptor, timeouts | resolve, init, bind, listen, accept, connect, read, write | partial transfers, timeouts, descriptors on error paths |
| Errors | `src/error.c` | cause chain, stack trace | new, throw, rethrow, free | chains freed once; a caller that replaces an error must free it |
| JSON | `src/encoding/json.c` | reference counted values, arrays, maps | constructors, push, put, get, encode, decode | ownership of children, error paths of the decoder, depth limit |
| Encodings | `src/encoding/base_encoding.c`, `unicode.c` | decoder state | base16/64, UTF-8/16 | chunk boundaries, incomplete input |
| Hash, MAC | `src/crypto/sha256.c`, `hmac_sha256.c` | chaining state, partial block, length | init, update, done | any split of the input gives the same digest |
| Ciphers | `src/crypto/aes.c`, `chacha20.c`, `pkcs7_pad.c` | key schedule, chaining vector, counter | key, encrypt, decrypt, modes, pad | partial blocks, chaining, counter |
| Random | `src/random.c`, `src/crypto/secure_random.c` | generator state, key stream position | range, seed, stream reads and seeks | rejection loop, position accounting |
| Sorting | `src/sort/msort.c`, `sort/isort.h` | none | msort, isort | stability, permutation |
| Types, functions, time | `src/types.c`, `func.c`, `utime.c` | none | type tests, comparators, time conversion | small pure helpers |
| Assembly | `src/asm/intel_aes.s` | none | AES-NI rounds | out of reach: machine instructions |

How they interact: strings and JSON values live in shared pointers; a JSON object is a map
from strings to JSON values and disposes of both; every stream is called through the virtual
table of `vial_stream` and reports through the errors; the hash stream feeds SHA-256, the net
stream the socket, the random stream ChaCha20.

## 2. Modules

| Module | Role |
|---|---|
| `SharedObject` | abstract: an object with owned references, disposed by the owner of the last one |
| `SharedPtr` | the header, the lock and the steps of take and leave |
| `SharedPtrProofs` | its inductive invariant, and that it implements `SharedObject` |
| `Dictionary` | abstract: a dictionary that owns its entries |
| `MapNode` | heights, rotations and `node_rebalance` of one node |
| `Map` | the operations of `vial_map` on the tree |
| `MapProofs` | the tree stays a search tree, implements `Dictionary`, and stays balanced where the code keeps it so |
| `ByteStream` | abstract: a file in memory |
| `MemStream` | the fields and virtual functions of `vial_memstream` |
| `MemStreamProofs` | its invariant, where it loses memory, and that it implements `ByteStream` |
| `StringBuilder` | the block and the operations of `vial_stringbuilder` |
| `StringBuilderProofs` | its invariant, and that every call edits the text as it says |
| `NetStream` | the read and write loops at the two ends of a connection |
| `NetStreamProofs` | order, completeness and timeout of the connection |
| `JsonHeap` | ownership of JSON values, with cascading disposal |
| `JsonParser` | the recursive descent of the decoder, its error path and the encoder |
| `JsonDecoder` | extends `JsonParser`: the language, and what decoder and encoder promise about it |
| `JsonProofs` | the counts are exact inside every cascade, disposal is single, nothing leaks; the decoder owns what it built |
| `ErrorChain` | errors with their causes and frames, as the blocks they own |
| `SocketTable` | extends `ErrorChain`: the table of descriptors under sockets and net streams |
| `FileStream` | the stream over a `FILE` |
| `KeyStream` | the random stream's place in the key stream |
| `Sha256` | SHA-256, HMAC and the hash stream over an open compression function |
| `Cipher` | the modes and the padding over an open block cipher |
| `Vector` | the macros of vectors |
| `BaseEncoding`, `Unicode`, `MergeSort` | pure algorithms as operators, with reference definitions |
| `MCSharedPtr`, `MCMap`, `MCMemStream`, `MCStringBuilder`, `MCNetStream`, `MCJsonHeap`, `MCJsonDecoder`, `MCUnits` | instances for TLC |
| `Units` | composes the modules from `SocketTable` to `MergeSort`, which do not interact: `unit`, chosen at the start, is the one that moves |
| `UnitProofs` | the invariants of those components and what follows from them |
| `OperatorProofs` | induction by a smallest counterexample, what it gives for the sums of the library, and the proofs about `Unicode` |
| `Encodings` | `Unicode` under the name that `Units` and `OperatorProofs` share |

A definition whose comment begins with "Mutant:" is a bug that could have been written in the
place of the definition after it. The specifications do not use it: it is there to see that
the property it is listed with in `PROJECT.json` notices. "Bound" in a comment marks a
constant that only limits the instance.

### SharedPtr

`block` is the allocation, `count` and `flag` are the fields of the header, and `pc`, `ref`
and `reg` the control state and the one local of each thread's call. `owner` is not in the
code: it says which thread each reference belongs to, the contract under which take and leave
may be called. Every access to the header is an action: `TakeLock`, `TakeLoad`, `TakeStore`
and `TakeUnlock` are lines 47 to 53, `LeaveLock` to `LeaveFree` lines 60 to 75, with the test
`count != 1` at line 63 apart from the load and the store of `count--`. A turn of the spin
loop that finds the flag set changes nothing and is a stuttering step. `Give` is no call of the
library: a program hands a reference, a string or a JSON value, to another of its threads. The block may be allocated again after it was freed.

`HasAtomics = FALSE` is the build with `__STDC_NO_ATOMICS__`, which compiles no lock;
`LockAssumption` says that such a build has one thread, because with two it makes no promise.

`SharedObject` knows only owned references and disposal. The mapping is the identity on
`owner` and reads "disposed" off `block`; the lock, the count and the program counters
disappear.

### MapNode and Map

A tree is a record with its subtrees inside (`Nil` is `NULL`), and `root`, `size` are the
fields of the map. The recursive C functions become operators that return the new tree: the C
code also rewrites one child pointer per level and never shares a node. Each is a recursive function
over `Trees`, the trees inside the one it is called with. `height` is kept as
the code keeps it, right or wrong. The rotations read the children a height promises; where
the C code would follow `NULL` the result is the value `Crash`, which `Rebuilt` carries to the root and
`crashed` records. `released` lists what the last call disposed of, in order. `Put`, `Remove`,
`Dispose` and `Reinit` are the macros of `map.h` with the functions they call. A get is not an
action: it changes nothing, and `Lookup` is what the refinement maps every key with.

### MemStream

`buf` (the cells of the block, or `Null`), `allocated`, `size`, `position` and `resizeable`
are the fields of the struct; `call` is the last call and its outcome. Each virtual function
is an action, errors included, and growth inside `seek` and `write` is part of these actions.
`AllocOutcome` decides whether an allocation may fail; the code tests none of them, so after a
failing `realloc` the action goes on with `NULL` as the code does: `lost` records the block
that nobody can free any more, `crashed` a copy to `NULL`. `ByteStream` is a file: a sequence
of bytes and a position.

### StringBuilder

`buffer`, `length` and `capacity` are the fields; `null` says that `buffer` is `NULL`, as after
`init_cstr`, `dispose` and `extract_cstr`. The numbers and strings that may be appended
and inserted all reach the block as a run of characters, a "piece" here. `memmove` and `memcpy`
act on cells, so the model does with a wrong length what the code does; where they would leave
the block, the behaviour is undefined, `outside` becomes `TRUE` and nothing further is said.
`Reverse` of a builder whose `buffer` is `NULL` is such a case: the loop compares with the address
before `NULL` and follows `NULL`. With an empty block of `malloc(0)` it does nothing. Copies of no
characters from or to `NULL` are taken to do nothing.

### NetStream

Two ends of one connection. `fd` and `open` tell apart what the stream believes of its
descriptor and what the kernel knows, `wire` is what has been sent and not received, and
`call` holds the locals of the loop an end is in: bytes done, size, buffer. `Enter`, `Send`,
`Recv`, `LateTest`, `Sleep`, `Finish` are the lines of `impl_read` and `impl_write`; a call
that fails goes through `Throw`. `send` and `recv` move any number of bytes that the network
and the call allow, fail in the ways `Faults` names, and block otherwise, because
`vial_socket_init` makes blocking sockets. The code does not ask for `MSG_NOSIGNAL`: a `send` to a
peer that is gone raises `SIGPIPE`, and the model is of a program that ignores that signal and sees
the error. The test for the write timeout (`netstream.c:90-92`) is left out: it is reached when
`send` returns 0, which for bytes on a connection it does not. `Connected` is the kernel's: whether
the descriptor is open. `Tick` is the clock. `written`, `received`,
`failed` and `silence` record what the clients did and saw.

### JsonHeap

`block` maps an address to the value allocated there (type, count, values), `held` counts the
references each thread's clients own, and `stack` is the recursion of `dispose_array` and
`dispose_object`: a frame for each container being disposed of, with the values it still has
to leave. The counting part of a take or leave is one step, which is what the refinement of
`SharedPtr` shows; the cascade interleaves with the other threads at every value. `lost`
counts the references that `push_move` and `put_move` drop when the type does not match. The
clients own what they use, change a container only while no other thread can reach it
(`Private`) and build no cycles (`Acyclic`): the code checks neither, and nothing in it could
work otherwise.

### JsonParser and JsonDecoder

The text is a sequence of tokens, made up while it is read: brackets, commas, colons, the end,
scalars (numbers and the three words) and quoted strings with their characters. White space is
skipped around every token and left out; of a number only what `%g` prints of it matters. `open` is
the C stack: a frame for each `parse_value` inside a container, with the values so far and the
key in hand; its length is the parameter `level`. `phase` is the place in the innermost call:
before a value, before or behind an item, behind a key, or on the way out with an error, where
each `Unwind` is one return through `parse_error`: the invalid item is stored, the container
left, and the result is the next invalid item. `allocated` counts blocks, key copies included.
`Reencode` is a client that encodes a result and decodes the encoding.

What a value allocates (`Blocks`) and how it is written (`append_value`) are functions by recursion over the
parts of the value, which are at most `MaxLevel` levels deep. `JsonDecoder` adds what is promised:
`Values`, `Items` and `Members` define the language a second time and without a machine: a
text is taken apart at every place, and the set of values it denotes has at most one element.

### ErrorChain and SocketTable

An error is a sequence, the head caused by the tail; `ErrorBlocks` is what `vial_error_free`
frees: structs, messages, frames. `SocketTable` has one table of descriptors for the process:
`file[f]` says for which socket `f` was opened, `sock[s].fd` is what the struct holds, and
`status` what its client may do with it (none, open, the second socket of a bind, taken over by
a stream, a closed stream). The kernel gives out the lowest free descriptor, so that a number
kept too long soon names somebody else's file. `vial_socket_initconn` is modelled step by step
(`Resolve`, `ConnInit`, `ConnConnect`, `ConnClose`, `ConnNotFound`) with other sockets' calls between
its steps, every other call is one action. `heap` counts the blocks of errors and address
lists; `LostBlocks` and `LostFds` are those nobody refers to. `Ask` and `StreamAsk` stand for the calls
that matter to the table by their errors only.

### FileStream, KeyStream

`FileStream` has the stream's pointer, whether the file is still open behind it, and the file's
position and length. Each virtual function is an action with a parameter that says which of its
calls to the C library fails. `KeyStream` has `state[12]` of ChaCha20 as `counter` and `used_bytes`
as `used`; a block of the key stream is known by its number alone. The counter wraps around at
`Blocks`, in the code 2^32. `at` is not in the code: the place the next byte should come from.

### Sha256, Cipher

The compression function and the block cipher are left open. A digest is the sequence of blocks
that were compressed, so two digests are equal only if the blocks are; `E` and `D` of `Cipher` are
inverse to each other and otherwise free. Bytes and blocks are sets of marks and exclusive or is
the symmetric difference, which keeps its laws (`x ^ y ^ y = x`) and mixes nothing up. In `Cipher`
one context encrypts and another decrypts, in calls of different sizes, in place or not; the
memory of a call is modelled cell by cell because in place the order of reads and writes matters.

### Vector

`values`, `size` and `capacity` are the fields; what lies behind `size` is kept as the code leaves it.
The calls are macros, so that an item which the client takes from the vector itself (`Own`) is
read where the macro has it: after the block has grown and the tail has moved (`Seen`). A `memcpy`
of overlapping cells and an add of `vial_vector_last`, whose reading and `size++` no sequence point
separates, may have any of the outcomes a build can give them.

### BaseEncoding, Unicode, MergeSort

Operators from inputs to outputs. A loop carries its locals (the value, the length, the state of a
decoder) from one turn to the next: it is a recursive function over the turn (`Loop16`, `Loop64`; in
`Unicode` the loop is the client's, `Utf8`, `Utf16`, `Written8`, `Written16`). `Or` is the bitwise or of a
few low bits and the shifted rest. So are the turns of a merge; the recursion of the sort is one over the
count, and there is a row of sorted parts for each count, one for each start. What a text means in
`BaseEncoding` (`Meaning`) reads it bit by bit and has no loop. `vial_utf8_encode` writes four
bytes and returns how many count; those behind them are scratch and left out, with the shift by
32 bits that can only reach them.

## 3. What the runs show

| Run | Instance | Shows |
|---|---|---|
| `sharedptr` | 3 threads, 3 references | `CountExact`, `NoUseAfterFree`, `LockExclusive` in every interleaving; `ImplementsObject`; `Reclaimed` under fairness |
| `map` | 7 keys, one value; 4 keys, two values | `VisitsInOrder`, `ImplementsDictionary`; `PutKeepsBalance`, and `RemoveKeepsBalance` and `BalancedNeverCrashes` with their exceptions |
| `map_tie`, `map_crash` | 8, 7 keys | the two findings about removal |
| `memstream` | blocks of 2, growth to 4 bytes, any allocation may fail | `ImplementsStream` but for calls that run out of memory, `InBounds`, `FailureChangesNothing`, `OnlyGrowthLoses` |
| `stringbuilder` | 2 characters, texts to 4, pieces to 2 | `InBlock`, `CallsEdit`, `OverrunsOnlyThere` |
| `stringbuilder_insert` | the same | the finding about `insert_char_array` |
| `netstream` | 2 bytes one way, window 2, every fault | `InOrder`, `NothingLost`, `TimeoutMeansEnd`, `EndsAfterClose` |
| `netstream_silent` | 2 bytes one way, window 1, no faults | the finding about the timeout |
| `json_heap` | 2 threads, 3 addresses, 2 references and 2 items | `CountsExact`, `DisposedOnce`, `NothingLeaks` |
| `json_decoder` | texts of 9 tokens, 2 levels, 2 items | `DecodesAsMeant`, `OwnsWhatItBuilt`, `EncodingDecodes` |
| `units` | each of ten components by itself, see below | the ten properties below |

What the properties of the last two say:

- `DecodesAsMeant`: an accepted text is in the language and denotes the result; a rejected one
  could not have been completed any more. One comma may stand behind any item, a repeated key
  replaces, a value may be `MaxLevel` containers deep and no deeper.
- `OwnsWhatItBuilt`: at each step, those of the way out with an error included, exactly the
  blocks of the open containers and their keys are allocated.
- `EncodingDecodes`: an encoding decodes to the encoded value with its numbers rounded to six
  digits, but for numbers printed as something the decoder does not read (`nan`).
- `ClosesItsOwn`: a socket closes the descriptor that was opened for it. Exceptions: the second
  socket of a bind and a closed stream hold descriptor 0 and may close it.
- `LosesOnlyThere`: descriptors, address lists and errors are lost in the named places of the
  code and nowhere else, and no more of them than stated.
- `KeepsToItsFile`: a file is touched after it was closed only if that close had failed; which
  calls may move the file, and what `available` says past the end.
- `ReadsOn`: whatever seeks and reads of any size went before, bytes are read on from where the
  last call left off, around the end of the key stream; a seek from the current position and the
  reported position are one block too far.
- `DigestOfMessage`: digest, double digest and MAC of a message written in any pieces are those of
  a reference definition that pads the message as a whole.
- `CipherInverts`: decryption inverts encryption in every mode; the padding comes off again
  exactly when its length was computed from the message's, not the block's, or, by chance, when the
  last byte of a message of whole blocks is 0: `vial_pkcs7_size` takes whatever is there for the padding.
- `EditsItems`: every macro edits the items as it says, inside the block. Exceptions: an item of the
  vector itself from behind the place of an insert, and `vial_vector_last` in an add; then only the
  inserted items are wrong.
- `BaseInverts`, `UnicodeInverts`: decoding inverts encoding, and texts of any characters are accepted exactly
  when they have the structure, as what their digits or bytes mean.
- `SortIsStable`: a stable, sorted permutation.

Why these bounds:

- Three threads are one more than a race needs: two race for the flag while a third is past
  its clear and still uses the block. Three references bring the count to 3, so that
  increments and decrements meet on both sides of the test `count != 1`.
- Removal goes wrong first at 5 keys (stale heights), 7 keys (a rotation over `NULL`) and 8
  keys (the tie); `map` contains the first two and every shape of up to seven nodes, and
  `map_tie` has the eight keys of the third. Second values
  matter only to `released` and to lookups, which four keys exercise with all shapes of
  removal (none, one, two children, a successor below the right child).
- A stream of the caller's of 0, 1 or 2 bytes and growth to 4 contain a growth that doubles,
  one that must exceed the double, a seek past the end with the gap it leaves, and writes that
  start before and end after the end. Two bytes that differ show a byte in the wrong place.
- Pieces of 2 characters in texts of up to 4 contain a tail longer than, as long as and
  shorter than the piece, the only distinction the wrong length of the `memmove` makes.
- Two bytes can be sent in one or two parts, received in one or two, lost between them by an
  error, and separated by a pause; the two directions of the connection do not interact but
  through the close.
- Three addresses make a container in a container with a value that is shared; two references
  make a count that goes through both branches of leave.

- A text of 9 tokens has a container in a container with two members or two items, optional and
  doubled commas, a repeated key, a value one level too deep, and an error at each place of each of
  them, with the encodings of all values up to that size read back.
- Two sockets and descriptors 0 to 2 let one socket get the number another has kept; up to two
  addresses make an `initconn` that fails once and then connects or fails again; two lost blocks
  or descriptors are one more than a loss needs to be noticed.
- A file of up to two bytes, with positions up to three, and a `size_t` of sixteen values show
  the wrap-around of `available`. A key stream of three blocks of two bytes and moves of up to
  seven have reads within, across and around the end of the stream.
- Hash blocks of 4 bytes with the length at 3 keep the two cases of the code (a message ends in
  front of the length field or in it); messages and keys of up to 9 have no, one and two whole
  blocks with every rest. Cipher blocks of 4 and messages of up to 9 do the same.
- Vectors of up to four items, of two kinds, and runs of up to two: a growth that doubles and one
  by more, a run of the vector's own in front of, across and behind the place it is inserted at.
- Five characters make a base 64 group and one digit more, over an alphabet with digits of every
  range, both ends of them and what is none; five bytes make the longest character and one
  more, over bytes of all classes; five codes come from the boundaries of the lengths. Sorting
  goes to seven elements, an uneven split at each of three levels, with three keys so that equal
  ones occur.

`CHECK_DEADLOCK FALSE` is stated where the bounds stop the clients (a text at its limit, a
crashed map or an overrun block ends the program, an input of the longest length is the last). The
shared pointers and the net stream are checked for deadlock.

Fairness. `SharedPtr`: weak fairness of each thread's step inside a call: a scheduler runs
every thread that can run; the lock itself is not fair, so no property says that a thread gets
it. Nothing forces a thread to begin a call. `NetStream`: weak fairness of each side's call
(a blocking call returns once the kernel has something for it) and of the clock; a side is not
forced to write, read or close. No other
specification needs fairness: its properties are about what may happen.

## 4. What is proved

For every value of the constants, under the assumptions named `...Assumption` in each module.

- `SharedPtr`, for any number of threads and references and for both builds: `TypeOK`, `CountExact`,
  `LockExclusive`, `NoUseAfterFree`, and the refinement `ImplementsObject`.
  `CountExact` alone is not inductive: a thread that stores `reg[t] + 1` needs to know that
  the register still holds the count (`LoadedInv`), which needs the lock to exclude
  (`LockInv`); a leave that found 1 must be the only owner until it frees (`LastInv`), which
  needs the count to be the number of references; a call must own the reference it works with
  (`CallsInv`, `BlockInv`). `Inv` is their conjunction. Counting rests on `HeldAdd`,
  `HeldRemove` and `OnlyOne`, lemmas about the cardinality of the set of references. The
  refinement then maps each step under `Inv`.
- `Map`, for any finite set of integer keys and any values: the five properties of the run `map`.
  - The invariant `MapInv`: unless the program has crashed, `root` is a search tree over a finite set of
    entries, as many as `size` says. `Search(t, E)` says it with a certificate, since a tree has no
    depth to induct over: there is a set of pairs of a tree and a set of entries, with `<<t, E>>` in it,
    in which every node has its own entry and its two subtrees the entries below and above
    (`Vouches`). Balance is no part of it, because the code does not keep it.
  - Induction over a tree (`TreeInduction`) refutes the counterexample with the smallest set of entries.
    A tree has no more levels than entries, so `Trees` has every tree inside and each recursion has
    the one solution its definition asks for (`AllSolvable`, `SolutionsAgree`); `LookupTurn`,
    `TreePutTurn` and their like are what the proofs use.
  - `LookupFinds`, `InOrderLists`, `PostOrderDrains`, `TreePutFits` and `TreeRemoveFits` say what each
    function makes of a search tree, stale heights or not; a rotation either crashes or leaves the
    entries as they are (`RebalanceFits`). `VisitsInOrder` and `ImplementsDictionary` follow. An operation
    that crashes has disposed of what it found and leaves the tree in place, which is also a
    step of the dictionary.
  - `RebalanceRestores`: if the two subtrees of a node are good (exact heights, even) and differ by
    at most two, `node_rebalance` returns a good node and follows no `NULL`, unless the node
    leans to the left over an even child, the case of the finding `map_tie`. The proof goes by the
    four rotations, and says how high the result is (`Settled`).
  - `PutKeepsBalance`: a subtree grows by one level at most and is uneven when it has
    (`Grown`), so that the node above neither leans nor stays too high after its rotation.
    `RemoveKeepsBalance`: a subtree loses one level at most (`Shrunk`), also when it comes out
    unbalanced because of a deep successor, whose path keeps its stale heights: so the nodes
    above still find the side they rotate intact, and nothing crashes (`BalancedNeverCrashes`).
- `MemStream`, for any buffers, sizes and outcomes of the allocations: `TypeOK` and `InBounds`
  are inductive together; `FailureChangesNothing` and `OnlyGrowthLoses` follow from the actions and
  the invariant. `ImplementsStream`: the content is the first `size` cells, the limit the block of a
  stream that cannot grow; each call that does not run out of memory is the call of `ByteStream` with
  the same result. `NullAssumption` keeps the null pointer apart from numbers and blocks.
- `StringBuilder`: `TypeOK /\ InBlock` is inductive; from it `OverrunsOnlyThere` (only an
  insert or a delete that moves more characters than the tail has leaves the block, and the reversal
  of a builder without one) and `CallsEdit`:
  insert and delete are moves and copies of cells, and `InsertedCells` and `ClosedCells` say what
  those make of a block; an append, an insert and a delete are then one splice.
- `NetStream`, for any timeout, window, faults and sizes: `InOrder`, `NothingLost` and
  `TimeoutMeansEnd`. The bytes on their way to a side are what it has received, what its call has in
  hand and what is on the wire, one sequence (`Stream`). Every step leaves that sequence alone,
  extends it by the next bytes, drops a part out of it after a failed read, or skips bytes that were
  never sent after a failed write (`StreamStep`). It stays in order under all four, and complete as
  long as nobody has failed. For the timeout, a call that waits has found its peer closed and the
  wire empty, which nothing undoes (`EndInv`), and `silence` is the time of the wait.
- `JsonHeap`, for any number of threads, addresses, references and items: `CountsExact`,
  `DisposedOnce` and `NothingLeaks`. The invariant `Good` says that the references held by clients,
  those inside blocks that nobody disposes of, those that open frames have still to leave and the
  lost ones add up to the count, that it is positive while the block is allocated, and that each
  frame has a block of its own. It is needed for all blocks at once, since a cascade moves
  references from a block to its frame and from there to nowhere, one at a time. The sums are
  over finite sets (`OperatorProofs`), and each action changes one term. `NothingLeaks` needs two more
  facts: clients never close a cycle, and a value that nobody reaches from outside would have a
  holder that nobody reaches either; following the holders in a finite heap comes back to
  the same block, which would be a cycle.
- `JsonParser`, for any text and any deepest level: `OwnsWhatItBuilt`. The invariant (`ParserInv`) gives
  each frame a container whose depth fits under the limit (`Nested`) and a key exactly when the next value
  needs one (`HasKey`): without the depths a container stored in another could be too deep for `Blocks` to
  count, and without the keys a value could be stored under none. A value is `Deep` if some set vouches
  for its depth; from this follows that `Inside` holds all its parts, that `Blocks` obeys its own
  recursion (`BlocksTurn`), and what a push, or a put under a new or an old key, adds
  (`StoredFits`). Each step then changes one term of a sum over the stack.
- `Units`: every step is a step of the chosen component and leaves the others alone (`EachMoves`),
  so that each has an invariant of its own, for all of its constants. The inputs of the operators
  are sequences over any sets of bytes, numbers of Unicode and keys (`InputsAssumption`):
  - sockets, `ClosesItsOwn` and `LosesOnlyThere`: a socket that is open, taken over by a stream, or
    between the steps of `initconn` owns its descriptor; a bound or closed one holds 0
    (`SocketInv`). What is lost is a difference of sums, and each action changes one term of each.
  - file stream, `KeepsToItsFile`: a pointer to a closed file is left by a failed close, or by a
    call that was undefined already.
  - random stream, `ReadsOn`: `counter` is the block after `bytes`, and `at` is `bytes`
    blocks and `used` bytes (`RandomInv`); reads of any length are these bytes modulo the stream.
  - vector, `EditsItems`: the size is within the capacity, which is that of the block
    (`ItemsInv`); moves and copies as for the string builder.
  - SHA-256 and HMAC, `DigestOfMessage`: between two calls the hasher has absorbed the message: its
    blocks are the whole blocks, its buffer the rest, its bits those of the blocks (`HashInv`,
    `Absorbed`). An update appends to what was absorbed on each of the ways through the code, and the
    padding then makes the blocks that the reference definition makes of the whole message.
  - cipher, `CipherInverts`: what was decrypted is the front of the message, and what was encrypted
    and not yet decrypted is a chain of blocks from the vector of the decrypting context to that of the
    encrypting one (`CipherInv`, `Sealed`). Encryption extends the chain at its end and decryption
    takes blocks off its front, however the calls are cut. The loops over the
    memory of a call are shown to be that chain in place or not, because each block is
    read before its cell is written. The padding (`PaddedWhole`): the last byte is of the message only
    if the blocks end inside it, and then has any value.
  - merge sort, `SortIsStable`: a merge of two ordered parts, the elements of the left one having the
    earlier places, is ordered by key and place and has the elements of both; each turn
    adds the least of what is left. The halves of the recursion are shorter, so this holds for rows of any
    length.
  - base encoding, `BaseInverts`, for texts and bytes of any length: after each turn of a decoder the
    length, the value and the bytes are functions of the digits read so far (`Read16To`, `Read64To`), or a
    character was no digit; so what comes out is given digit by digit (`Decodes16`, `Decodes64`). A byte is
    then the eight bits behind its place (`Means16`, `Means64`). An encoding consists of groups, each digit
    of which is known from the bytes (`Group64Is`, `Rows64`), and ends before its filling, wherever the
    filling begins (`BeforeIs`); put into the same formula the digits give the bytes back (`Inverts16`,
    `Inverts64`).
  - Unicode, `UnicodeInverts`, for texts and codes of any length: after each byte the decoder of UTF-8 has
    either reported an error, which it never takes back (`Sticky8`), and then the text is not well
    formed (`Sound8`); or the bytes so far are whole characters and perhaps the beginning of one,
    and it has the numbers of the former and the bits of the latter (`Between8`, `Amid8`,
    `PartOf`). What is written behind a complete text is read again as one more character (`Reads8`,
    `Reads16`), of one to four bytes or of one or two units. The bits that the decoders combine do not
    overlap, so that their `Or` is a sum (`OrIsSum`). The decoder of UTF-16 is between the
    surrogates of a pair if and only if the last unit was a first one (`Sound16`).

TLAPS 1.4.5 with these provers has no induction over an arbitrary property. Where a proof needs it, a
set of counterexamples is written down and its smallest member refuted (`SmallestNumber`,
`SmallestSet`): so for the turns of a loop, the elements of a sum, the rows of the sort and the trees of
the map. The recursions of `Cipher`, `BaseEncoding`, `Unicode`, `MergeSort` and `Map` are recursive functions for that reason.

Only model-checked:

- liveness (`Reclaimed`, `EndsAfterClose`): TLAPS 1.4.5 does not do `ENABLED` and fairness;
- `DecodesAsMeant` and `EncodingDecodes`: they rest on `RECURSIVE` operators over texts and values, and in a
  module that reaches one the prover loses arithmetic.

## 5. Findings

1. `map_tie`: a node that leans to the left over an even child is rotated twice, which may
   unbalance the child (`map.c:105`). The right side is treated correctly.
2. `map_crash`: removing a node whose successor lies below its right child leaves stale heights
   on that path (`map.c:151`); a later removal may then rotate over a child that is `NULL`
   (`map.c:69`).
3. `stringbuilder_insert`: inserting a piece in front of a longer tail loses the end of the
   text (`src/text/stringbuilder.c:141`); in front of a shorter one it may leave the block.
4. `netstream_silent`: the read timeout cannot interrupt a read whose peer is silent
   (`src/io/net/netstream.c:57`); it only ends the wait after the end of the stream.

Lookups and `foreach` stay correct in an unbalanced map that has not crashed
(`VisitsInOrder`, `ImplementsDictionary`).

The exceptions in `OverrunsOnlyThere`, `ClosesItsOwn`, `LosesOnlyThere`, `KeepsToItsFile`, `ReadsOn`, `EncodingDecodes`, `CipherInverts` and `EditsItems` are further
behaviour a maintainer will want to look at; they are not findings because no document,
comment or test of the repository says otherwise.

## 6. Left out, and assumptions

- Integers are mathematical. No instance can reach the overflow of a count, size or clock.
- Allocations succeed, except in `MemStream`, where an unchecked `realloc` has consequences
  that last beyond the call.
- One map, one stream, one builder: they have no lock and are used by one thread at a time.
- The kernel's side of a socket is external: reliable, ordered delivery until a fault.
- The order in which a disposed object leaves its values is arbitrary in `JsonHeap`; the code
  uses the post-order of its tree.
- A memory stream that closes or forgets the caller's buffer, and `vial_memstream_copyto`: who
  owns the buffer is nowhere said.
- Sockets: the conversions between the library's and the kernel's addresses, printing them, and
  the Windows build. Clients use a socket only between its opening and its closing, look at an
  error before their next call, and hand a socket to one stream.
- The random stream is seeded by an external source; what its constructor does when that
  fails is left out.
- Not modelled at all: the rounds and key schedules of AES, ChaCha20 and SHA-256 and the assembly,
  which are arithmetic over fixed tables that known answers settle; the generator of `random.c` and the loop over it,
  whose properties are statistical; strings, types, functions and time, which have no state;
  the statistics stream and `vial_stream_print`, which start from an interface pointer that is one field off, so
  that no call of them has a meaning to model; `isort.h`, which does not compile and is used nowhere.

## 7. Plan

What can be modelled faithfully is modelled. What is left is to prove more of it:

`DecodesAsMeant` and `EncodingDecodes`, with the three sets of the language as one recursive function over
the parts of a text.
