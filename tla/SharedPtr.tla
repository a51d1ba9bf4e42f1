------------------------------ MODULE SharedPtr ------------------------------
(***************************************************************************)
(* The reference counted block of src/src/sharedptr.c: one block, shared   *)
(* by threads that call vial_sharedptr_take and vial_sharedptr_leave.      *)
(* Every access to the header (the flag, and the loads and stores of the   *)
(* volatile count) is a step of its own, so the calls interleave as they   *)
(* do in the program.                                                      *)
(*                                                                         *)
(* owner is the users' side of the contract, not a field of the header: a  *)
(* reference belongs to a thread, which may take another one only while it *)
(* owns one, leaves each one it owns once, and may hand one to another     *)
(* thread (how strings and JSON values travel).  A new reference starts to *)
(* exist when the incremented count is stored; a reference that is left    *)
(* ceases to exist when the decremented count is stored, or with the       *)
(* block.  Once free, the block may be allocated again (malloc returns the *)
(* same address), so the model has no end state.                           *)
(***************************************************************************)
EXTENDS Integers, FiniteSets

CONSTANTS
  Thread,     \* the threads
  Ref,        \* the references that can exist at one time (bounds the count)
  None,       \* no thread
  HasAtomics  \* FALSE: the build defines __STDC_NO_ATOMICS__, no lock is compiled in

ASSUME RefAssumption == IsFiniteSet(Ref)
ASSUME NoneAssumption == None \notin Thread
ASSUME AtomicsAssumption == HasAtomics \in BOOLEAN
\* Without the lock the block is usable from one thread only.
ASSUME LockAssumption == HasAtomics \/ \A t, u \in Thread : t = u

VARIABLES
  block,   \* "free": not allocated; "live"; "disposed": dispose(ptr) ran, free did not
  count,   \* sp->count
  flag,    \* sp->flag, TRUE when set
  pc,      \* pc[t]: the next step of the call thread t is in, "idle" outside calls
  ref,     \* ref[t]: the reference the call of t creates or gives up
  reg,     \* reg[t]: the count t loaded for its count++ or count--
  owner    \* owner[r]: the thread reference r belongs to, None if r does not exist

vars == <<block, count, flag, pc, ref, reg, owner>>

Held == {r \in Ref : owner[r] # None}

TakePC == {"take_lock", "take_load", "take_store", "take_unlock"}
LeavePC == {"leave_lock", "leave_test", "leave_load", "leave_store", "leave_unlock",
            "leave_last", "leave_dispose", "leave_free"}

\* The steps between the atomic_flag_test_and_set that succeeded and the clear.
Critical == {"take_load", "take_store", "take_unlock", "leave_test", "leave_load",
             "leave_store", "leave_unlock", "leave_last"}

\* The steps of a take before its reference exists, of a leave while it still does.
BeforeStore == {"take_lock", "take_load", "take_store"}
HoldsRef == LeavePC \ {"leave_unlock"}
Last == {"leave_last", "leave_dispose", "leave_free"}

Init ==
  /\ block = "free"
  /\ count = 0
  /\ flag = FALSE
  /\ pc = [t \in Thread |-> "idle"]
  /\ ref \in [Thread -> Ref]
  /\ \A t, u \in Thread : ref[t] = ref[u]
  /\ reg = [t \in Thread |-> 0]
  /\ owner = [r \in Ref |-> None]

\* Mutant: the loop ignores what the test-and-set returned.
TestAndSetIgnored ==
  flag' = TRUE

\* One iteration of do {} while (atomic_flag_test_and_set(..)) that ends the loop.
\* An iteration that finds the flag set changes nothing.
TestAndSet ==
  IF HasAtomics THEN ~flag /\ flag' = TRUE ELSE UNCHANGED flag

Clear ==
  IF HasAtomics THEN flag' = FALSE ELSE UNCHANGED flag

Goto(t, from, to) ==
  /\ pc[t] = from
  /\ pc' = [pc EXCEPT ![t] = to]

\* vial_sharedptr_make: nobody else knows the address before it returns.
Make(t, r) ==
  /\ pc[t] = "idle"
  /\ block = "free"
  /\ block' = "live"
  /\ count' = 1
  /\ flag' = FALSE
  /\ owner' = [owner EXCEPT ![r] = t]
  /\ UNCHANGED <<pc, ref, reg>>

\* A thread passes a reference it owns on to another thread, outside any call.
Give(t, u, r) ==
  /\ pc[t] = "idle"
  /\ owner[r] = t
  /\ u # t
  /\ owner' = [owner EXCEPT ![r] = u]
  /\ UNCHANGED <<block, count, flag, pc, ref, reg>>

(***************************************************************************)
(* vial_sharedptr_take                                                     *)
(***************************************************************************)
\* r names the reference the call will create: not in use, nor promised to another call.
TakeCall(t, r) ==
  /\ Goto(t, "idle", "take_lock")
  /\ \E q \in Ref : owner[q] = t
  /\ owner[r] = None
  /\ \A u \in Thread : pc[u] \in BeforeStore => ref[u] # r
  /\ ref' = [ref EXCEPT ![t] = r]
  /\ UNCHANGED <<block, count, flag, reg, owner>>

TakeLock(t) ==
  /\ Goto(t, "take_lock", "take_load")
  /\ TestAndSet
  /\ UNCHANGED <<block, count, ref, reg, owner>>

TakeLoad(t) ==
  /\ Goto(t, "take_load", "take_store")
  /\ reg' = [reg EXCEPT ![t] = count]
  /\ UNCHANGED <<block, count, flag, ref, owner>>

TakeStore(t) ==
  /\ Goto(t, "take_store", "take_unlock")
  /\ count' = reg[t] + 1
  /\ owner' = [owner EXCEPT ![ref[t]] = t]
  /\ UNCHANGED <<block, flag, ref, reg>>

TakeUnlock(t) ==
  /\ Goto(t, "take_unlock", "idle")
  /\ Clear
  /\ UNCHANGED <<block, count, ref, reg, owner>>

(***************************************************************************)
(* vial_sharedptr_leave                                                    *)
(***************************************************************************)
LeaveCall(t, r) ==
  /\ Goto(t, "idle", "leave_lock")
  /\ owner[r] = t
  /\ ref' = [ref EXCEPT ![t] = r]
  /\ UNCHANGED <<block, count, flag, reg, owner>>

LeaveLock(t) ==
  /\ Goto(t, "leave_lock", "leave_test")
  /\ TestAndSet
  /\ UNCHANGED <<block, count, ref, reg, owner>>

\* Mutants: the wrong boundary, in either direction.
LeaveTestTooEarly(t) ==
  /\ Goto(t, "leave_test", IF count > 2 THEN "leave_load" ELSE "leave_last")
  /\ UNCHANGED <<block, count, flag, ref, reg, owner>>
LeaveTestTooLate(t) ==
  /\ Goto(t, "leave_test", IF count > 0 THEN "leave_load" ELSE "leave_last")
  /\ UNCHANGED <<block, count, flag, ref, reg, owner>>

LeaveTest(t) ==
  /\ Goto(t, "leave_test", IF count > 1 THEN "leave_load" ELSE "leave_last")
  /\ UNCHANGED <<block, count, flag, ref, reg, owner>>

LeaveLoad(t) ==
  /\ Goto(t, "leave_load", "leave_store")
  /\ reg' = [reg EXCEPT ![t] = count]
  /\ UNCHANGED <<block, count, flag, ref, owner>>

LeaveStore(t) ==
  /\ Goto(t, "leave_store", "leave_unlock")
  /\ count' = reg[t] - 1
  /\ owner' = [owner EXCEPT ![ref[t]] = None]
  /\ UNCHANGED <<block, flag, ref, reg>>

LeaveUnlock(t) ==
  /\ Goto(t, "leave_unlock", "idle")
  /\ Clear
  /\ UNCHANGED <<block, count, ref, reg, owner>>

\* The last reference: the count stays 1, the flag is cleared before dispose.
LeaveLast(t) ==
  /\ Goto(t, "leave_last", "leave_dispose")
  /\ Clear
  /\ UNCHANGED <<block, count, ref, reg, owner>>

LeaveDispose(t) ==
  /\ Goto(t, "leave_dispose", "leave_free")
  /\ block' = "disposed"
  /\ UNCHANGED <<count, flag, ref, reg, owner>>

LeaveFree(t) ==
  /\ Goto(t, "leave_free", "idle")
  /\ block' = "free"
  /\ owner' = [owner EXCEPT ![ref[t]] = None]
  /\ UNCHANGED <<count, flag, ref, reg>>

\* The steps of a call that has begun: a thread inside a call keeps running.
Step(t) ==
  \/ TakeLock(t) \/ TakeLoad(t) \/ TakeStore(t) \/ TakeUnlock(t)
  \/ LeaveLock(t) \/ LeaveTest(t) \/ LeaveLoad(t) \/ LeaveStore(t) \/ LeaveUnlock(t)
  \/ LeaveLast(t) \/ LeaveDispose(t) \/ LeaveFree(t)

Call(t, r) ==
  \/ Make(t, r)
  \/ TakeCall(t, r)
  \/ LeaveCall(t, r)
  \/ \E u \in Thread : Give(t, u, r)

Next ==
  \E t \in Thread : Step(t) \/ \E r \in Ref : Call(t, r)

Spec == Init /\ [][Next]_vars

\* The operating system runs every thread; nothing makes the spin lock fair, and
\* nothing makes a thread start a call.
Fairness == \A t \in Thread : WF_vars(Step(t))

FairSpec == Spec /\ Fairness

-----------------------------------------------------------------------------
TypeOK ==
  /\ block \in {"free", "live", "disposed"}
  /\ count \in Nat
  /\ flag \in BOOLEAN
  /\ pc \in [Thread -> {"idle"} \cup TakePC \cup LeavePC]
  /\ ref \in [Thread -> Ref]
  /\ reg \in [Thread -> Nat]
  /\ owner \in [Ref -> Thread \cup {None}]

\* The count in the header is the number of references that exist, in every state of
\* every interleaving and not only between calls (count++ and count-- of
\* vial_sharedptr_take and vial_sharedptr_leave lose no update).
CountExact ==
  block # "free" => count = Cardinality(Held)

\* No call touches the header or the object after free(sp), and none but the last
\* leave touches it after dispose(ptr): the leave that found count > 1 still clears
\* the flag after it has given its own reference up.
NoUseAfterFree ==
  /\ \A t \in Thread : pc[t] \in TakePC \cup LeavePC => block # "free"
  /\ block = "disposed" =>
       \E t \in Thread : pc[t] = "leave_free" /\ \A u \in Thread \ {t} : pc[u] = "idle"

\* At most one thread is between its successful test-and-set and its clear, and the
\* flag is set exactly then (in a build with atomics): no path leaves it set behind.
LockExclusive ==
  /\ \A t, u \in Thread : pc[t] \in Critical /\ pc[u] \in Critical => t = u
  /\ HasAtomics => (flag <=> \E t \in Thread : pc[t] \in Critical)

\* Refinement: the header, the lock and the steps of the calls implement the object of
\* SharedObject - disposed once, by whoever gives up the last reference.
Object == INSTANCE SharedObject
ImplementsObject == Object!Spec

\* When every reference that exists is being left and nobody is taking one, the block is
\* disposed and freed: racing leaves cannot each decide that another one is the last.
AllLeaving ==
  /\ block = "live"
  /\ \A t \in Thread : pc[t] \notin BeforeStore
  /\ \A r \in Held : \E t \in Thread : pc[t] \in HoldsRef /\ ref[t] = r
Reclaimed == AllLeaving ~> block = "free"

=============================================================================
