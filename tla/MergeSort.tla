----------------------------- MODULE MergeSort -----------------------------
(***************************************************************************)
(* Merge sort (src/src/sort/msort.c).  An element is a key and the place   *)
(* it had at first; comp compares the keys.                                *)
(***************************************************************************)
EXTENDS Integers, Sequences

comp(a, b) == a[1] - b[1]

Start == [l |-> 1, r |-> 1, res |-> <<>>]
TakeLeft(m, left) == [l |-> m.l + 1, r |-> m.r, res |-> Append(m.res, left[m.l])]
TakeRight(m, right) == [l |-> m.l, r |-> m.r + 1, res |-> Append(m.res, right[m.r])]

\* Mutant: of two equal elements the right one comes first.
MergeRightFirst(left, right) ==
  LET count == Len(left) + Len(right)
      merged[i \in 0..count] ==
        IF i = 0 THEN Start
        ELSE LET m == merged[i - 1]
             IN IF m.l <= Len(left) /\ (m.r > Len(right) \/ comp(left[m.l], right[m.r]) < 0)
                THEN TakeLeft(m, left) ELSE TakeRight(m, right)
  IN IF left # <<>> /\ comp(left[Len(left)], right[1]) < 0 THEN left \o right
     ELSE merged[count].res

\* vial_msort_merge: halves that are in order stay as they are; of two equal elements the left
\* one comes first.
merge(left, right) ==
  LET count == Len(left) + Len(right)
      merged[i \in 0..count] ==
        IF i = 0 THEN Start
        ELSE LET m == merged[i - 1]
             IN IF m.l <= Len(left) /\ (m.r > Len(right) \/ comp(left[m.l], right[m.r]) <= 0)
                THEN TakeLeft(m, left) ELSE TakeRight(m, right)
  IN IF left # <<>> /\ comp(left[Len(left)], right[1]) <= 0 THEN left \o right
     ELSE merged[count].res

\* vial_msort_tmp: count elements from the one at start; the left half is the larger one.
Sorted(s) ==
  LET sorted[count \in 0..Len(s)] ==
        [start \in 1..(Len(s) + 1) - count |->
           IF count < 2 THEN SubSeq(s, start, start + count - 1)
           ELSE LET half == (count + 1) \div 2
                IN merge(sorted[half][start], sorted[count - half][start + half])]
  IN sorted[Len(s)][1]

\* vial_msort: the same elements, in the order of their keys, and equal ones in their old order.
SortsStably(keys) ==
  LET elements == [i \in 1..Len(keys) |-> <<keys[i], i>>]
      result == Sorted(elements)
  IN /\ Len(result) = Len(keys)
     /\ {result[i] : i \in 1..Len(keys)} = {elements[i] : i \in 1..Len(keys)}
     /\ \A i \in 1..Len(keys) - 1 :
          \/ result[i][1] < result[i + 1][1]
          \/ result[i][1] = result[i + 1][1] /\ result[i][2] < result[i + 1][2]
=============================================================================
