------------------------------- MODULE Vector -------------------------------
(***************************************************************************)
(* Vectors (src/include/vial/collections/vector.h).  The calls are macros: *)
(* what the client writes for an item is evaluated where the macro has it, *)
(* after the block has grown and the tail has moved, so that an item of    *)
(* the vector itself may be another one by then.  Allocations succeed.     *)
(***************************************************************************)
EXTENDS Integers, Sequences

CONSTANTS
  Item,    \* the items of the client
  Uninit,  \* the content of memory nobody has written
  MaxSize, \* bound: the largest size
  MaxRun   \* bound: the most items of a call

VARIABLES
  values,    \* the cells of the block, from 0; NULL is the block without cells
  size,
  capacity,
  call       \* the last call: the place, how many items went and came, whose they were

vars == <<values, size, capacity, call>>

Items == [i \in 1..size |-> values[i - 1]]
Larger(a, b) == IF a > b THEN a ELSE b

\* A run of items: the client's, or those of the vector itself from the one at start.
Client(items) == [own |-> FALSE, start |-> 0, items |-> items]
Own(start, n) == [own |-> TRUE, start |-> start, items |-> SubSeq(Items, start + 1, start + n)]
Runs(n) == {Client(items) : items \in [1..n -> Item]} \cup {Own(start, n) : start \in 0..size - n}

Called(op, idx, gone, run) == call' = [op |-> op, idx |-> idx, gone |-> gone, run |-> run]

Init ==
  /\ values = <<>> /\ size = 0 /\ capacity = 0
  /\ call = [op |-> "init", idx |-> 0, gone |-> 0, run |-> Client(<<>>)]

\* Mutant: twice the capacity is taken to be enough.
ReservedDouble(n) == IF capacity < n THEN 2 * capacity ELSE capacity

\* _vial_vector_reserve
Reserved(n) == IF capacity < n THEN Larger(2 * capacity, n) ELSE capacity

\* realloc
Resized(n) == [i \in 0..n - 1 |-> IF i < capacity THEN values[i] ELSE Uninit]

\* memmove of the tail from idx to the place to, and memcpy to a place.
Moved(cells, to, idx) ==
  [i \in DOMAIN cells |-> IF i \in to..to + (size - idx) - 1 THEN cells[i - to + idx] ELSE cells[i]]
Copied(cells, to, items) ==
  [i \in DOMAIN cells |-> IF i \in to..to + Len(items) - 1 THEN items[i - to + 1] ELSE cells[i]]

\* What a run is when it is read from these cells.
Seen(run, cells) ==
  [i \in 1..Len(run.items) |-> IF run.own THEN cells[run.start + i - 1] ELSE run.items[i]]

Reserve(n) ==
  /\ values' = Resized(Reserved(n)) /\ capacity' = Reserved(n)
  /\ Called("reserve", 0, 0, Client(<<>>))
  /\ UNCHANGED size

Shrink ==
  /\ values' = Resized(size) /\ capacity' = size
  /\ Called("shrink", 0, 0, Client(<<>>))
  /\ UNCHANGED size

\* vial_vector_add
Add(run) ==
  LET cells == Resized(Reserved(size + 1))
  IN /\ values' = Copied(cells, size, Seen(run, cells))
     /\ capacity' = Reserved(size + 1) /\ size' = size + 1
     /\ Called("add", size, 0, run)

\* vial_vector_add of vial_vector_last: nothing orders size++ and the reading of size - 1.
AddLast ==
  LET cells == Resized(Reserved(size + 1))
  IN /\ size > 0
     /\ \E seen \in {size - 1, size} : values' = Copied(cells, size, <<cells[seen]>>)
     /\ capacity' = Reserved(size + 1) /\ size' = size + 1
     /\ Called("add_last", size, 0, Own(size - 1, 1))

\* vial_vector_addall
AddAll(run) ==
  LET n == Len(run.items)
      cells == Resized(Reserved(size + n))
  IN /\ values' = Copied(cells, size, Seen(run, cells))
     /\ capacity' = Reserved(size + n) /\ size' = size + n
     /\ Called("addall", size, 0, run)

\* vial_vector_insert
Insert(idx, run) ==
  LET cells == Moved(Resized(Reserved(size + 1)), idx + 1, idx)
  IN /\ values' = Copied(cells, idx, Seen(run, cells))
     /\ capacity' = Reserved(size + 1) /\ size' = size + 1
     /\ Called("insert", idx, 0, run)

\* Does the memcpy of insertall copy cells onto themselves?
Overlaps(run, idx) == run.own /\ run.start < idx + Len(run.items) /\ idx < run.start + Len(run.items)

\* vial_vector_insertall; memcpy may leave anything where its operands overlap.
InsertAll(idx, run) ==
  LET n == Len(run.items)
      cells == Moved(Resized(Reserved(size + n)), idx + n, idx)
  IN /\ \E copied \in IF Overlaps(run, idx) THEN [1..n -> Item] ELSE {Seen(run, cells)} :
          values' = Copied(cells, idx, copied)
     /\ capacity' = Reserved(size + n) /\ size' = size + n
     /\ Called("insertall", idx, 0, run)

\* vial_vector_remove
Remove(idx) ==
  /\ values' = [i \in DOMAIN values |-> IF i \in idx..size - 2 THEN values[i + 1] ELSE values[i]]
  /\ size' = size - 1
  /\ Called("remove", idx, 1, Client(<<>>))
  /\ UNCHANGED capacity

Clear ==
  /\ size' = 0
  /\ Called("clear", 0, size, Client(<<>>))
  /\ UNCHANGED <<values, capacity>>

\* vial_vector_dispose, and vial_vector_init for the next use.
Dispose ==
  /\ values' = <<>> /\ size' = 0 /\ capacity' = 0
  /\ Called("dispose", 0, size, Client(<<>>))

Next ==
  \/ \E n \in 0..MaxSize : Reserve(n)
  \/ \E n \in 0..MaxRun, idx \in 0..size :
     /\ size + n <= MaxSize
     /\ \E run \in Runs(n) :
          \/ InsertAll(idx, run)
          \/ n = 1 /\ Insert(idx, run)
          \/ n = 1 /\ idx = size /\ Add(run)
          \/ idx = size /\ AddAll(run)
  \/ size < MaxSize /\ AddLast
  \/ \E idx \in 0..size - 1 : Remove(idx)
  \/ Shrink \/ Clear \/ Dispose

-----------------------------------------------------------------------------
\* An item that is another one when the macro reads it: the last one while it is counted, and
\* items of the vector behind the place where they are inserted.
Stale(c) ==
  \/ c.op = "add_last"
  \/ c.op = "insert" /\ c.run.own /\ c.run.start > c.idx
  \/ c.op = "insertall" /\ c.run.own /\ c.run.start + Len(c.run.items) > c.idx

\* Every call does to the items what it is meant to, through any sequence of growths, shrinks and
\* removals, and the items stay inside the block; where the inserted items are read too late,
\* the others are still right.
EditsItems ==
  [][LET idx == call'.idx
         n == Len(call'.run.items)
     IN /\ size' <= capacity'
        /\ size' = (size + n) - call'.gone
        /\ SubSeq(Items', 1, idx) = SubSeq(Items, 1, idx)
        /\ SubSeq(Items', idx + n + 1, size') = SubSeq(Items, idx + call'.gone + 1, size)
        /\ Stale(call') \/ SubSeq(Items', idx + 1, idx + n) = call'.run.items]_vars
=============================================================================
