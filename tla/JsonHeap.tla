------------------------------ MODULE JsonHeap ------------------------------
(***************************************************************************)
(* The life of JSON values (src/src/encoding/json.c): strings, arrays and  *)
(* objects live in shared pointers, their values are references that the   *)
(* container owns and leaves when it is disposed of.  Threads share the    *)
(* values.  A take and the counting part of a leave are one step each,     *)
(* which is what SharedPtr shows of them; the cascade of leaves that       *)
(* disposes of a container runs step by step, between those of the others. *)
(***************************************************************************)
EXTENDS Integers, Sequences, FiniteSets, Functions

CONSTANTS
  Thread,   \* the threads of the program
  Addr,     \* where shared pointers may be allocated
  Key,      \* the keys of objects
  Scalar,   \* any value without a shared pointer: null, a number, invalid...
  Free,     \* the content of an address that is not allocated
  MaxCount, \* bound: the references to one block
  MaxItems, \* bound: the length of an array
  MaxLost   \* bound: how many references clients lose by a push or put that does not match

ASSUME ScalarAssumption == Scalar \notin Addr
ASSUME BoundAssumption == MaxCount \in Nat /\ MaxItems \in Nat /\ MaxLost \in Nat

VARIABLES
  block, \* what is allocated: its type, its count and, by position or key, its values
  held,  \* how many references to each block the clients of a thread own
  stack, \* the leaves a thread is in: the block being disposed of, and the values left to leave
  lost   \* how many references push_move and put_move have dropped

vars == <<block, held, stack, lost>>

Value == Addr \cup {Scalar}
Container == {"array", "object"}
Kind == Container \cup {"string"}

\* The values of a container, by position or by key, and what is in an allocated block.
Tables == Seq(Value) \cup UNION {[K -> Value] : K \in {K \in SUBSET Key : IsFiniteSet(K)}}
Content == [type : Kind, count : Nat, values : Tables]

ASSUME FreeAssumption == Free \notin Content
ASSUME FiniteAssumption == IsFiniteSet(Thread) /\ IsFiniteSet(Addr)

Live == {a \in Addr : block[a] # Free}

Init ==
  /\ block = [a \in Addr |-> Free]
  /\ held = [t \in Thread |-> [a \in Addr |-> 0]]
  /\ stack = [t \in Thread |-> <<>>]
  /\ lost = [a \in Addr |-> 0]

-----------------------------------------------------------------------------
\* What the clients keep to.

\* Where a table of values refers to a.
Places(values, a) == {i \in DOMAIN values : values[i] = a}

\* The blocks that can be reached from a set of blocks, in at most n steps.
Reachable(from) ==
  LET reach[n \in 0..Cardinality(Addr)] ==
        IF n = 0 THEN from
        ELSE LET near == reach[n - 1]
             IN near \cup {a \in Addr : \E b \in near : block[b] # Free /\ Places(block[b].values, a) # {}}
  IN reach[Cardinality(Addr)]

HeldBy(t) == {a \in Addr : held[t][a] > 0}
InStack(t) ==
  {a \in Addr : \E i \in 1..Len(stack[t]) : stack[t][i].block = a \/ Places(stack[t][i].rest, a) # {}}

\* A client only uses references it owns, and changes a container while no other thread can
\* reach it: the containers have no lock of their own.
Idle(t) == stack[t] = <<>>
Mine(t, v) == v = Scalar \/ v \in HeldBy(t)
Private(t, a) ==
  /\ a \in HeldBy(t)
  /\ \A u \in Thread \ {t} : a \notin Reachable(HeldBy(u) \cup InStack(u))

\* A client builds no cycles: they are never disposed of.
Acyclic(a, v) == a \notin Reachable({v} \cap Addr)

-----------------------------------------------------------------------------
\* vial_sharedptr_take and vial_json_take, which does nothing for scalars.
Counted(v, n) == IF v = Scalar THEN block ELSE [block EXCEPT ![v].count = @ + n]
Owned(t, v, n) == IF v = Scalar THEN held ELSE [held EXCEPT ![t][v] = @ + n]
Room(v) == ~(v \in Addr /\ block[v].count = MaxCount)

\* create_str, create_array, create_object
Create(t, a, type) ==
  /\ Idle(t)
  /\ block[a] = Free
  /\ block' = [block EXCEPT ![a] = [type |-> type, count |-> 1, values |-> <<>>]]
  /\ held' = Owned(t, a, 1)
  /\ UNCHANGED <<stack, lost>>

Take(t, a) ==
  /\ Idle(t) /\ a \in HeldBy(t) /\ Room(a)
  /\ block' = Counted(a, 1)
  /\ held' = Owned(t, a, 1)
  /\ UNCHANGED <<stack, lost>>

\* Handing a reference to a client of another thread.
Send(t, u, a) ==
  /\ Idle(t) /\ a \in HeldBy(t)
  /\ held' = [held EXCEPT ![t][a] = @ - 1, ![u][a] = @ + 1]
  /\ UNCHANGED <<block, stack, lost>>

\* vial_json_leave by a client: the steps that follow are those of Leaving.
Leave(t, a) ==
  /\ Idle(t) /\ a \in HeldBy(t)
  /\ held' = Owned(t, a, -1)
  /\ stack' = [stack EXCEPT ![t] = <<[block |-> Scalar, rest |-> <<a>>]>>]
  /\ UNCHANGED <<block, lost>>

\* vial_json_at and vial_json_get lend the value; the client takes it before it leaves the
\* container.
TakeFrom(t, a, i) ==
  LET v == block[a].values[i]
  IN /\ Idle(t) /\ a \in HeldBy(t) /\ i \in DOMAIN block[a].values /\ Room(v)
     /\ block' = Counted(v, 1)
     /\ held' = Owned(t, v, 1)
     /\ UNCHANGED <<stack, lost>>

\* vial_json_push_move and vial_json_put_move give the container the client's reference to v
\* (taken = 0); vial_json_push and vial_json_put give it one they take first (taken = 1).
Given(t, v, taken) == held' = Owned(t, v, taken - 1)

\* The type does not match: the reference is moved into no container and nobody leaves it.
Mismatch(t, v, taken) ==
  /\ SumFunctionOnSet(lost, Addr) < MaxLost
  /\ block' = Counted(v, taken)
  /\ lost' = IF v = Scalar THEN lost ELSE [lost EXCEPT ![v] = @ + 1]
  /\ UNCHANGED stack

Push(t, a, v, taken) ==
  /\ Idle(t) /\ (taken = 1 => Room(v))
  /\ Given(t, v, taken)
  /\ \/ block[a].type # "array" /\ Mismatch(t, v, taken)
     \/ /\ block[a].type = "array" /\ Len(block[a].values) < MaxItems
        /\ block' = [Counted(v, taken) EXCEPT ![a].values = Append(@, v)]
        /\ UNCHANGED <<stack, lost>>

\* Mutant: the reference is not taken.
PutUntaken(t, a, k, v, taken) ==
  LET old == block[a].values
  IN /\ Idle(t) /\ block[a].type = "object"
     /\ block' = [block EXCEPT ![a].values =
                    [i \in DOMAIN old \cup {k} |-> IF i = k THEN v ELSE old[i]]]
     /\ UNCHANGED <<held, stack, lost>>

\* Mutant: the value that is replaced is not left.
PutKeeps(t, a, k, v, taken) ==
  LET old == block[a].values
  IN /\ Idle(t) /\ block[a].type = "object" /\ (taken = 1 => Room(v))
     /\ Given(t, v, taken)
     /\ block' = [Counted(v, taken) EXCEPT ![a].values =
                    [i \in DOMAIN old \cup {k} |-> IF i = k THEN v ELSE old[i]]]
     /\ UNCHANGED <<stack, lost>>

\* The map disposes of the value under the same key before the new one is stored; nobody else
\* sees the container in between.
Put(t, a, k, v, taken) ==
  LET old == block[a].values
  IN /\ Idle(t) /\ (taken = 1 => Room(v))
     /\ Given(t, v, taken)
     /\ \/ block[a].type # "object" /\ Mismatch(t, v, taken)
        \/ /\ block[a].type = "object"
           /\ block' = [Counted(v, taken) EXCEPT ![a].values =
                          [i \in DOMAIN old \cup {k} |-> IF i = k THEN v ELSE old[i]]]
           /\ stack' = IF k \notin DOMAIN old THEN stack
                       ELSE [stack EXCEPT ![t] = <<[block |-> Scalar, rest |-> <<old[k]>>]>>]
           /\ UNCHANGED lost

-----------------------------------------------------------------------------
Top(t) == stack[t][Len(stack[t])]
Below(t) == SubSeq(stack[t], 1, Len(stack[t]) - 1)
Without(values, i) == [j \in DOMAIN values \ {i} |-> values[j]]

\* Mutant: the disposal starts one reference early.
LeaveNextEarly(t, i) ==
  LET v == Top(t).rest[i]
      popped == [Top(t) EXCEPT !.rest = Without(@, i)]
  IN /\ IF v \in Addr
        THEN stack' = [stack EXCEPT ![t] =
               Below(t) \o <<popped, [block |-> v, rest |-> block[v].values]>>]
        ELSE stack' = [stack EXCEPT ![t] = Append(Below(t), popped)]
     /\ UNCHANGED <<block, held, lost>>

\* vial_json_leave of one of the values, in whatever order (an array's is from the first to the
\* last, an object's the post-order of its tree): nothing for a scalar, one reference less, or
\* the start of its disposal when the count is 1.
LeaveNext(t, i) ==
  LET v == Top(t).rest[i]
      popped == [Top(t) EXCEPT !.rest = Without(@, i)]
  IN /\ \/ /\ ~(v \in Addr /\ block[v].count = 1)
           /\ stack' = [stack EXCEPT ![t] = Append(Below(t), popped)]
           /\ block' = Counted(v, -1)
        \/ /\ v \in Addr /\ block[v].count = 1
           /\ stack' = [stack EXCEPT ![t] =
                Below(t) \o <<popped, [block |-> v, rest |-> block[v].values]>>]
           /\ UNCHANGED block
     /\ UNCHANGED <<held, lost>>

\* dispose_array or dispose_object has returned: free(sp).
Finish(t) ==
  /\ DOMAIN Top(t).rest = {}
  /\ block' = IF Top(t).block = Scalar THEN block ELSE [block EXCEPT ![Top(t).block] = Free]
  /\ stack' = [stack EXCEPT ![t] = Below(t)]
  /\ UNCHANGED <<held, lost>>

Leaving(t) ==
  /\ ~Idle(t)
  /\ \/ Finish(t)
     \/ \E i \in DOMAIN Top(t).rest : LeaveNext(t, i)

Next ==
  \E t \in Thread :
    \/ Leaving(t)
    \/ \E a \in Addr :
         \/ \E type \in Kind : Create(t, a, type)
         \/ Take(t, a) \/ Leave(t, a)
         \/ \E u \in Thread \ {t} : Send(t, u, a)
         \/ a \in HeldBy(t) /\ \E i \in DOMAIN block[a].values : TakeFrom(t, a, i)
         \/ /\ Private(t, a)
            /\ \E v \in Value :
                 /\ Mine(t, v) /\ Acyclic(a, v)
                 /\ \E taken \in 0..1 :
                      Push(t, a, v, taken) \/ \E k \in Key : Put(t, a, k, v, taken)

Spec == Init /\ [][Next]_vars

-----------------------------------------------------------------------------
\* The frames of all threads, and the blocks they are disposing of.
Frames == UNION {{<<t, i>> : i \in 1..Len(stack[t])} : t \in Thread}
FrameOf(f) == stack[f[1]][f[2]]
Dying == {FrameOf(f).block : f \in Frames} \ {Scalar}

\* How many references to a there are: those clients own, those in containers, those a disposal
\* has still to leave, and those that were lost.
References(a) ==
  SumFunctionOnSet([t \in Thread |-> held[t][a]], Thread)
  + Cardinality(UNION {{<<b, i>> : i \in Places(block[b].values, a)} : b \in Live \ Dying})
  + Cardinality(UNION {{<<f, i>> : i \in Places(FrameOf(f).rest, a)} : f \in Frames})
  + lost[a]

\* The count of a block is the number of references to it; a block being disposed of has none
\* left, in any thread, and a free address has none at all.  No other block has a count of 0.
CountsExact ==
  \A a \in Addr :
    /\ References(a) = IF a \in Live \ Dying THEN block[a].count ELSE 0
    /\ a \in Live => block[a].count > 0

\* A block is disposed of by one thread, once, and is not freed while a client owns it, a
\* container holds it or a disposal has still to leave it or its values.
DisposedOnce ==
  /\ \A f, g \in Frames : FrameOf(f).block = FrameOf(g).block /\ FrameOf(f).block # Scalar => f = g
  /\ \A t \in Thread : HeldBy(t) \cup InStack(t) \subseteq Live \cup {Scalar}
  /\ \A b \in Live \ Dying : Range(block[b].values) \subseteq Live \cup {Scalar}

\* Nothing leaks: what is allocated can be reached from a client or a disposal, unless a push or
\* put to a value of another type has lost the reference to it, or to what it is in.
NothingLeaks ==
  Live \subseteq Reachable((UNION {HeldBy(t) \cup InStack(t) : t \in Thread})
                          \cup {a \in Addr : lost[a] > 0})
=============================================================================
