--------------------------- MODULE SharedPtrProofs ---------------------------
(***************************************************************************)
(* Proofs about SharedPtr for any number of threads and references.        *)
(***************************************************************************)
EXTENDS SharedPtr, FiniteSetTheorems, TLAPS

\* What each thread's position in its call says about the references it owns.
CallsInv ==
  /\ \A t \in Thread : pc[t] \in TakePC => \E r \in Ref : owner[r] = t
  /\ \A t \in Thread : pc[t] \in HoldsRef => owner[ref[t]] = t
  /\ \A t \in Thread : pc[t] \in BeforeStore => owner[ref[t]] = None
  /\ \A t, u \in Thread :
       pc[t] \in BeforeStore /\ pc[u] \in BeforeStore /\ t # u => ref[t] # ref[u]

\* The value loaded is the value of the count until it is stored back.
LoadedInv ==
  /\ \A t \in Thread : pc[t] \in {"take_store", "leave_store"} => reg[t] = count
  /\ \A t \in Thread : pc[t] \in {"leave_load", "leave_store"} => count > 1
  /\ \A t \in Thread : pc[t] = "leave_unlock" => Held # {}

\* The spin lock excludes; it is held exactly inside the critical section.
LockInv ==
  /\ \A t, u \in Thread : pc[t] \in Critical /\ pc[u] \in Critical => t = u
  /\ HasAtomics => (flag <=> \E t \in Thread : pc[t] \in Critical)

\* The thread that found the count at one is alone with the block.
LastInv ==
  \A t \in Thread : pc[t] \in Last =>
    /\ Held = {ref[t]}
    /\ \A u \in Thread : u # t => pc[u] = "idle"

\* The state of the block, the references and the calls agree.
BlockInv ==
  /\ block = "free" => Held = {} /\ \A t \in Thread : pc[t] = "idle"
  /\ block # "free" => Held # {}
  /\ block = "disposed" <=> \E t \in Thread : pc[t] = "leave_free"

Inv == TypeOK /\ CallsInv /\ LoadedInv /\ LockInv /\ LastInv /\ BlockInv /\ CountExact

-----------------------------------------------------------------------------
\* The references that exist are finitely many, so their number is a natural number.
LEMMA HeldFinite == IsFiniteSet(Held) /\ Cardinality(Held) \in Nat
  BY RefAssumption, FS_Subset, FS_CardinalityType DEF Held

\* A reference that comes to exist adds one to the number of references.
LEMMA HeldAdd ==
  ASSUME TypeOK, NEW t \in Thread, NEW r \in Ref, owner[r] = None,
         owner' = [owner EXCEPT ![r] = t]
  PROVE  /\ Held' = Held \cup {r}
         /\ Cardinality(Held') = Cardinality(Held) + 1
  <1>1. Held' = Held \cup {r}
    BY NoneAssumption DEF TypeOK, Held
  <1>2. r \notin Held
    BY DEF Held
  <1>3. QED
    BY <1>1, <1>2, HeldFinite, FS_AddElement

\* A reference that ceases to exist takes one from the number of references.
LEMMA HeldRemove ==
  ASSUME TypeOK, NEW r \in Ref, owner[r] # None,
         owner' = [owner EXCEPT ![r] = None]
  PROVE  /\ Held' = Held \ {r}
         /\ Cardinality(Held') = Cardinality(Held) - 1
  <1>1. Held' = Held \ {r}
    BY DEF TypeOK, Held
  <1>2. r \in Held
    BY DEF Held
  <1>3. QED
    BY <1>1, <1>2, HeldFinite, FS_RemoveElement

\* Handing a reference over changes no count.
LEMMA HeldHanded ==
  ASSUME TypeOK, NEW u \in Thread, NEW r \in Ref, owner[r] # None,
         owner' = [owner EXCEPT ![r] = u]
  PROVE  Held' = Held
  BY NoneAssumption DEF TypeOK, Held

\* A count of one and a reference in hand: there is no other reference.
LEMMA OnlyOne ==
  ASSUME NEW r \in Held, Cardinality(Held) <= 1
  PROVE  Held = {r}
  <1>1. Cardinality(Held \ {r}) = Cardinality(Held) - 1 /\ IsFiniteSet(Held \ {r})
    BY HeldFinite, FS_RemoveElement
  <1>2. Cardinality(Held \ {r}) = 0
    BY <1>1, HeldFinite, FS_CardinalityType
  <1>3. Held \ {r} = {}
    BY <1>1, <1>2, FS_EmptySet
  <1>4. QED
    BY <1>3

LEMMA InitInv == Init => Inv
  <1> SUFFICES ASSUME Init PROVE Inv
    OBVIOUS
  <1>1. Held = {}
    BY DEF Init, Held
  <1>2. TypeOK
    <2>1. flag \in BOOLEAN
      BY Zenon DEF Init
    <2>2. QED
      BY <2>1 DEF Init, TypeOK
  <1>3. QED
    BY <1>1, <1>2 DEF Init, Inv, CallsInv, LoadedInv, LockInv, LastInv, BlockInv, CountExact,
      TakePC, LeavePC, HoldsRef, BeforeStore, Critical, Last

LEMMA MakeInv ==
  ASSUME Inv, NEW t \in Thread, NEW r \in Ref, Make(t, r)
  PROVE  Inv'
  <1> USE DEF TakePC, LeavePC, HoldsRef, BeforeStore, Critical, Last
  <1> USE NoneAssumption DEF Inv, TypeOK, Make
  <1>1. /\ \A u \in Thread : pc'[u] = "idle"
        /\ Held = {}
        /\ owner[r] = None
    BY DEF BlockInv, Held
  <1>2. Held' = {r} /\ Cardinality(Held') = 1
    <2>1. Cardinality(Held) = 0
      BY <1>1, FS_EmptySet
    <2>2. Held' = Held \cup {r} /\ Cardinality(Held') = Cardinality(Held) + 1
      BY <1>1, HeldAdd
    <2>3. QED
      BY <1>1, <2>1, <2>2
  <1>3. flag' \in BOOLEAN
    BY Zenon
  <1>4. TypeOK'
    BY <1>3
  <1>5. CallsInv' /\ LoadedInv' /\ LastInv'
    BY <1>1 DEF CallsInv, LoadedInv, LastInv
  <1>6. LockInv'
    <2>1. flag' = FALSE /\ \A u \in Thread : pc'[u] \notin Critical
      BY <1>1
    <2>2. QED
      BY <2>1, Zenon DEF LockInv
  <1>7. BlockInv'
    BY <1>1, <1>2 DEF BlockInv
  <1>8. CountExact'
    BY <1>2 DEF CountExact
  <1>9. QED
    BY <1>4, <1>5, <1>6, <1>7, <1>8

LEMMA GiveInv ==
  ASSUME Inv, NEW t \in Thread, NEW u \in Thread, NEW r \in Ref, Give(t, u, r)
  PROVE  Inv'
  <1> USE DEF TakePC, LeavePC, HoldsRef, BeforeStore, Critical, Last
  <1> USE NoneAssumption DEF Inv, TypeOK
  <1>1. TypeOK'
    BY DEF Give
  <1>2. CallsInv'
    BY DEF Give, CallsInv
  <1>3. LoadedInv'
    BY DEF Give, CallsInv, LoadedInv, LockInv, Held
  <1>4. LockInv'
    BY DEF Give, LockInv
  <1>5. LastInv'
    BY DEF Give, CallsInv, LastInv, BlockInv, Held
  <1>6. BlockInv'
    BY DEF Give, BlockInv, CallsInv, LastInv, Held
  <1>7. CountExact'
    BY DEF Give, CountExact, Held
  <1>8. QED
    BY <1>1, <1>2, <1>3, <1>4, <1>5, <1>6, <1>7

LEMMA TakeCallInv ==
  ASSUME Inv, NEW t \in Thread, NEW r \in Ref, TakeCall(t, r)
  PROVE  Inv'
  <1> USE DEF TakePC, LeavePC, HoldsRef, BeforeStore, Critical, Last
  <1> USE NoneAssumption DEF Inv, TypeOK
  <1>1. TypeOK'
    BY DEF TakeCall, Goto
  <1>2. CallsInv'
    BY DEF TakeCall, Goto, CallsInv
  <1>3. LoadedInv'
    BY DEF TakeCall, Goto, CallsInv, LoadedInv, LockInv, Held
  <1>4. LockInv'
    BY DEF TakeCall, Goto, LockInv
  <1>5. LastInv'
    BY DEF TakeCall, Goto, CallsInv, LastInv, BlockInv, Held
  <1>6. BlockInv'
    BY DEF TakeCall, Goto, BlockInv, CallsInv, LastInv, Held
  <1>7. CountExact'
    BY DEF TakeCall, Goto, CountExact, Held
  <1>8. QED
    BY <1>1, <1>2, <1>3, <1>4, <1>5, <1>6, <1>7

LEMMA TakeLockInv ==
  ASSUME Inv, NEW t \in Thread, TakeLock(t)
  PROVE  Inv'
  <1> USE DEF TakePC, LeavePC, HoldsRef, BeforeStore, Critical, Last
  <1> USE NoneAssumption DEF Inv, TypeOK
  <1>1. TypeOK'
    BY DEF TakeLock, Goto, TestAndSet
  <1>2. CallsInv'
    BY DEF TakeLock, Goto, TestAndSet, CallsInv
  <1>3. LoadedInv'
    BY DEF TakeLock, Goto, TestAndSet, CallsInv, LoadedInv, LockInv, Held
  <1>4. LockInv'
    <2>1. CASE HasAtomics
      <3>1. ~flag /\ flag' = TRUE
        BY <2>1 DEF TakeLock, TestAndSet
      <3>2. \A u \in Thread : pc[u] \notin Critical
        BY <2>1, <3>1, Zenon DEF LockInv
      <3>3. \A u \in Thread : pc'[u] \in Critical <=> u = t
        BY <3>2 DEF TakeLock, Goto
      <3>4. QED
        BY <3>1, <3>3, Zenon DEF LockInv
    <2>2. CASE ~HasAtomics
      BY <2>2, LockAssumption, Zenon DEF LockInv
    <2>3. QED
      BY <2>1, <2>2
  <1>5. LastInv'
    BY DEF TakeLock, Goto, TestAndSet, CallsInv, LastInv, BlockInv, Held
  <1>6. BlockInv'
    BY DEF TakeLock, Goto, TestAndSet, BlockInv, CallsInv, LastInv, Held
  <1>7. CountExact'
    BY DEF TakeLock, Goto, TestAndSet, CountExact, Held
  <1>8. QED
    BY <1>1, <1>2, <1>3, <1>4, <1>5, <1>6, <1>7

LEMMA TakeLoadInv ==
  ASSUME Inv, NEW t \in Thread, TakeLoad(t)
  PROVE  Inv'
  <1> USE DEF TakePC, LeavePC, HoldsRef, BeforeStore, Critical, Last
  <1> USE NoneAssumption DEF Inv, TypeOK
  <1>1. TypeOK'
    BY DEF TakeLoad, Goto
  <1>2. CallsInv'
    BY DEF TakeLoad, Goto, CallsInv
  <1>3. LoadedInv'
    BY DEF TakeLoad, Goto, CallsInv, LoadedInv, LockInv, Held
  <1>4. LockInv'
    BY DEF TakeLoad, Goto, LockInv
  <1>5. LastInv'
    BY DEF TakeLoad, Goto, CallsInv, LastInv, BlockInv, Held
  <1>6. BlockInv'
    BY DEF TakeLoad, Goto, BlockInv, CallsInv, LastInv, Held
  <1>7. CountExact'
    BY DEF TakeLoad, Goto, CountExact, Held
  <1>8. QED
    BY <1>1, <1>2, <1>3, <1>4, <1>5, <1>6, <1>7

LEMMA TakeStoreInv ==
  ASSUME Inv, NEW t \in Thread, TakeStore(t)
  PROVE  Inv'
  <1> USE DEF TakePC, LeavePC, HoldsRef, BeforeStore, Critical, Last
  <1> USE NoneAssumption DEF Inv, TypeOK
  <1>1. TypeOK'
    BY DEF TakeStore, Goto
  <1>2. CallsInv'
    BY DEF TakeStore, Goto, CallsInv
  <1>3. LoadedInv'
    BY DEF TakeStore, Goto, CallsInv, LoadedInv, LockInv, Held
  <1>4. LockInv'
    BY DEF TakeStore, Goto, LockInv
  <1>5. LastInv'
    BY DEF TakeStore, Goto, CallsInv, LastInv, BlockInv, Held
  <1>6. BlockInv'
    BY DEF TakeStore, Goto, BlockInv, CallsInv, LastInv, Held
  <1>7. CountExact'
    <2>1. block # "free" /\ reg[t] = count /\ owner[ref[t]] = None
      BY DEF TakeStore, Goto, BlockInv, LoadedInv, CallsInv
    <2>2. Cardinality(Held') = Cardinality(Held) + 1
      BY <2>1, HeldAdd DEF TakeStore
    <2>3. QED
      BY <2>1, <2>2 DEF TakeStore, CountExact
  <1>8. QED
    BY <1>1, <1>2, <1>3, <1>4, <1>5, <1>6, <1>7

LEMMA TakeUnlockInv ==
  ASSUME Inv, NEW t \in Thread, TakeUnlock(t)
  PROVE  Inv'
  <1> USE DEF TakePC, LeavePC, HoldsRef, BeforeStore, Critical, Last
  <1> USE NoneAssumption DEF Inv, TypeOK
  <1>1. TypeOK'
    BY DEF TakeUnlock, Goto, Clear
  <1>2. CallsInv'
    BY DEF TakeUnlock, Goto, Clear, CallsInv
  <1>3. LoadedInv'
    BY DEF TakeUnlock, Goto, Clear, CallsInv, LoadedInv, LockInv, Held
  <1>4. LockInv'
    BY DEF TakeUnlock, Goto, Clear, LockInv
  <1>5. LastInv'
    BY DEF TakeUnlock, Goto, Clear, CallsInv, LastInv, BlockInv, Held
  <1>6. BlockInv'
    BY DEF TakeUnlock, Goto, Clear, BlockInv, CallsInv, LastInv, Held
  <1>7. CountExact'
    BY DEF TakeUnlock, Goto, Clear, CountExact, Held
  <1>8. QED
    BY <1>1, <1>2, <1>3, <1>4, <1>5, <1>6, <1>7

LEMMA LeaveCallInv ==
  ASSUME Inv, NEW t \in Thread, NEW r \in Ref, LeaveCall(t, r)
  PROVE  Inv'
  <1> USE DEF TakePC, LeavePC, HoldsRef, BeforeStore, Critical, Last
  <1> USE NoneAssumption DEF Inv, TypeOK
  <1>1. TypeOK'
    BY DEF LeaveCall, Goto
  <1>2. CallsInv'
    BY DEF LeaveCall, Goto, CallsInv
  <1>3. LoadedInv'
    BY DEF LeaveCall, Goto, CallsInv, LoadedInv, LockInv, Held
  <1>4. LockInv'
    BY DEF LeaveCall, Goto, LockInv
  <1>5. LastInv'
    BY DEF LeaveCall, Goto, CallsInv, LastInv, BlockInv, Held
  <1>6. BlockInv'
    BY DEF LeaveCall, Goto, BlockInv, CallsInv, LastInv, Held
  <1>7. CountExact'
    BY DEF LeaveCall, Goto, CountExact, Held
  <1>8. QED
    BY <1>1, <1>2, <1>3, <1>4, <1>5, <1>6, <1>7

LEMMA LeaveLockInv ==
  ASSUME Inv, NEW t \in Thread, LeaveLock(t)
  PROVE  Inv'
  <1> USE DEF TakePC, LeavePC, HoldsRef, BeforeStore, Critical, Last
  <1> USE NoneAssumption DEF Inv, TypeOK
  <1>1. TypeOK'
    BY DEF LeaveLock, Goto, TestAndSet
  <1>2. CallsInv'
    BY DEF LeaveLock, Goto, TestAndSet, CallsInv
  <1>3. LoadedInv'
    BY DEF LeaveLock, Goto, TestAndSet, CallsInv, LoadedInv, LockInv, Held
  <1>4. LockInv'
    <2>1. CASE HasAtomics
      <3>1. ~flag /\ flag' = TRUE
        BY <2>1 DEF LeaveLock, TestAndSet
      <3>2. \A u \in Thread : pc[u] \notin Critical
        BY <2>1, <3>1, Zenon DEF LockInv
      <3>3. \A u \in Thread : pc'[u] \in Critical <=> u = t
        BY <3>2 DEF LeaveLock, Goto
      <3>4. QED
        BY <3>1, <3>3, Zenon DEF LockInv
    <2>2. CASE ~HasAtomics
      BY <2>2, LockAssumption, Zenon DEF LockInv
    <2>3. QED
      BY <2>1, <2>2
  <1>5. LastInv'
    BY DEF LeaveLock, Goto, TestAndSet, CallsInv, LastInv, BlockInv, Held
  <1>6. BlockInv'
    BY DEF LeaveLock, Goto, TestAndSet, BlockInv, CallsInv, LastInv, Held
  <1>7. CountExact'
    BY DEF LeaveLock, Goto, TestAndSet, CountExact, Held
  <1>8. QED
    BY <1>1, <1>2, <1>3, <1>4, <1>5, <1>6, <1>7

LEMMA LeaveTestInv ==
  ASSUME Inv, NEW t \in Thread, LeaveTest(t)
  PROVE  Inv'
  <1> USE DEF TakePC, LeavePC, HoldsRef, BeforeStore, Critical, Last
  <1> USE NoneAssumption DEF Inv, TypeOK
  <1>1. TypeOK'
    BY DEF LeaveTest, Goto
  <1>2. CallsInv'
    BY DEF LeaveTest, Goto, CallsInv
  <1>3. LoadedInv'
    BY DEF LeaveTest, Goto, CallsInv, LoadedInv, LockInv, Held
  <1>4. LockInv'
    BY DEF LeaveTest, Goto, LockInv
  <1>5. LastInv'
    <2>1. CASE count > 1
      BY <2>1 DEF LeaveTest, Goto, LastInv, Held
    <2>2. CASE ~(count > 1)
      <3>1. owner[ref[t]] = t /\ ref[t] \in Held /\ block # "free"
        BY DEF LeaveTest, Goto, CallsInv, BlockInv, Held
      <3>2. Held = {ref[t]}
        BY <2>2, <3>1, HeldFinite, OnlyOne DEF CountExact
      <3>3. ASSUME NEW u \in Thread, u # t
            PROVE  pc[u] = "idle"
        <4>1. \A r \in Ref : owner[r] # u
          BY <3>1, <3>2, <3>3 DEF Held
        <4>2. pc[u] \notin TakePC \cup HoldsRef
          BY <4>1 DEF CallsInv
        <4>3. pc[u] # "leave_unlock"
          BY <3>3 DEF LockInv, LeaveTest, Goto
        <4>4. QED
          BY <4>2, <4>3
      <3>4. Held' = Held
        BY DEF LeaveTest, Held
      <3>5. QED
        BY <3>2, <3>3, <3>4 DEF LeaveTest, Goto, LastInv
    <2>3. QED
      BY <2>1, <2>2
  <1>6. BlockInv'
    BY DEF LeaveTest, Goto, BlockInv, CallsInv, LastInv, Held
  <1>7. CountExact'
    BY DEF LeaveTest, Goto, CountExact, Held
  <1>8. QED
    BY <1>1, <1>2, <1>3, <1>4, <1>5, <1>6, <1>7

LEMMA LeaveLoadInv ==
  ASSUME Inv, NEW t \in Thread, LeaveLoad(t)
  PROVE  Inv'
  <1> USE DEF TakePC, LeavePC, HoldsRef, BeforeStore, Critical, Last
  <1> USE NoneAssumption DEF Inv, TypeOK
  <1>1. TypeOK'
    BY DEF LeaveLoad, Goto
  <1>2. CallsInv'
    BY DEF LeaveLoad, Goto, CallsInv
  <1>3. LoadedInv'
    BY DEF LeaveLoad, Goto, CallsInv, LoadedInv, LockInv, Held
  <1>4. LockInv'
    BY DEF LeaveLoad, Goto, LockInv
  <1>5. LastInv'
    BY DEF LeaveLoad, Goto, CallsInv, LastInv, BlockInv, Held
  <1>6. BlockInv'
    BY DEF LeaveLoad, Goto, BlockInv, CallsInv, LastInv, Held
  <1>7. CountExact'
    BY DEF LeaveLoad, Goto, CountExact, Held
  <1>8. QED
    BY <1>1, <1>2, <1>3, <1>4, <1>5, <1>6, <1>7

LEMMA LeaveStoreInv ==
  ASSUME Inv, NEW t \in Thread, LeaveStore(t)
  PROVE  Inv'
  <1> USE DEF TakePC, LeavePC, HoldsRef, BeforeStore, Critical, Last
  <1> USE NoneAssumption DEF Inv, TypeOK
  <1>0. /\ owner[ref[t]] = t
           /\ block = "live"
           /\ reg[t] = count
           /\ count > 1
    BY DEF LeaveStore, Goto, CallsInv, LoadedInv, BlockInv, LastInv, Held
  <1>a. /\ Cardinality(Held') = Cardinality(Held) - 1
        /\ Held' # {}
    <2>1. /\ Cardinality(Held) = count
          /\ Cardinality(Held') = Cardinality(Held) - 1
      BY <1>0, HeldRemove DEF LeaveStore, CountExact
    <2>2. Cardinality({}) = 0
      BY FS_EmptySet
    <2>3. Cardinality(Held') # 0
      BY <1>0, <2>1
    <2>4. QED
      BY <2>1, <2>2, <2>3
  <1>1. TypeOK'
    BY <1>0 DEF LeaveStore, Goto
  <1>2. CallsInv'
    BY DEF LeaveStore, Goto, CallsInv
  <1>3. LoadedInv'
    BY <1>a DEF LeaveStore, Goto, LoadedInv, LockInv
  <1>4. LockInv'
    BY DEF LeaveStore, Goto, LockInv
  <1>5. LastInv'
    BY DEF LeaveStore, Goto, CallsInv, LastInv, BlockInv, Held
  <1>6. BlockInv'
    BY <1>0, <1>a DEF LeaveStore, Goto, BlockInv
  <1>7. CountExact'
    BY <1>0, <1>a DEF LeaveStore, CountExact
  <1>8. QED
    BY <1>1, <1>2, <1>3, <1>4, <1>5, <1>6, <1>7

LEMMA LeaveUnlockInv ==
  ASSUME Inv, NEW t \in Thread, LeaveUnlock(t)
  PROVE  Inv'
  <1> USE DEF TakePC, LeavePC, HoldsRef, BeforeStore, Critical, Last
  <1> USE NoneAssumption DEF Inv, TypeOK
  <1>1. TypeOK'
    BY DEF LeaveUnlock, Goto, Clear
  <1>2. CallsInv'
    BY DEF LeaveUnlock, Goto, Clear, CallsInv
  <1>3. LoadedInv'
    BY DEF LeaveUnlock, Goto, Clear, CallsInv, LoadedInv, LockInv, Held
  <1>4. LockInv'
    BY DEF LeaveUnlock, Goto, Clear, LockInv
  <1>5. LastInv'
    BY DEF LeaveUnlock, Goto, Clear, CallsInv, LastInv, BlockInv, Held
  <1>6. BlockInv'
    BY DEF LeaveUnlock, Goto, Clear, BlockInv, CallsInv, LastInv, Held
  <1>7. CountExact'
    BY DEF LeaveUnlock, Goto, Clear, CountExact, Held
  <1>8. QED
    BY <1>1, <1>2, <1>3, <1>4, <1>5, <1>6, <1>7

LEMMA LeaveLastInv ==
  ASSUME Inv, NEW t \in Thread, LeaveLast(t)
  PROVE  Inv'
  <1> USE DEF TakePC, LeavePC, HoldsRef, BeforeStore, Critical, Last
  <1> USE NoneAssumption DEF Inv, TypeOK
  <1>1. TypeOK'
    BY DEF LeaveLast, Goto, Clear
  <1>2. CallsInv'
    BY DEF LeaveLast, Goto, Clear, CallsInv
  <1>3. LoadedInv'
    BY DEF LeaveLast, Goto, Clear, CallsInv, LoadedInv, LockInv, Held
  <1>4. LockInv'
    BY DEF LeaveLast, Goto, Clear, LockInv
  <1>5. LastInv'
    BY DEF LeaveLast, Goto, Clear, CallsInv, LastInv, BlockInv, Held
  <1>6. BlockInv'
    BY DEF LeaveLast, Goto, Clear, BlockInv, CallsInv, LastInv, Held
  <1>7. CountExact'
    BY DEF LeaveLast, Goto, Clear, CountExact, Held
  <1>8. QED
    BY <1>1, <1>2, <1>3, <1>4, <1>5, <1>6, <1>7

LEMMA LeaveDisposeInv ==
  ASSUME Inv, NEW t \in Thread, LeaveDispose(t)
  PROVE  Inv'
  <1> USE DEF TakePC, LeavePC, HoldsRef, BeforeStore, Critical, Last
  <1> USE NoneAssumption DEF Inv, TypeOK
  <1>1. TypeOK'
    BY DEF LeaveDispose, Goto
  <1>2. CallsInv'
    BY DEF LeaveDispose, Goto, CallsInv
  <1>3. LoadedInv'
    BY DEF LeaveDispose, Goto, CallsInv, LoadedInv, LockInv, Held
  <1>4. LockInv'
    BY DEF LeaveDispose, Goto, LockInv
  <1>5. LastInv'
    BY DEF LeaveDispose, Goto, CallsInv, LastInv, BlockInv, Held
  <1>6. BlockInv'
    BY DEF LeaveDispose, Goto, BlockInv, CallsInv, LastInv, Held
  <1>7. CountExact'
    BY DEF LeaveDispose, Goto, CountExact, BlockInv, Held
  <1>8. QED
    BY <1>1, <1>2, <1>3, <1>4, <1>5, <1>6, <1>7

LEMMA LeaveFreeInv ==
  ASSUME Inv, NEW t \in Thread, LeaveFree(t)
  PROVE  Inv'
  <1> USE DEF TakePC, LeavePC, HoldsRef, BeforeStore, Critical, Last
  <1> USE NoneAssumption DEF Inv, TypeOK
  <1>1. TypeOK'
    BY DEF LeaveFree, Goto
  <1>2. CallsInv'
    BY DEF LeaveFree, Goto, CallsInv
  <1>3. LoadedInv'
    BY DEF LeaveFree, Goto, LoadedInv, LastInv
  <1>4. LockInv'
    BY DEF LeaveFree, Goto, LockInv
  <1>5. LastInv'
    BY DEF LeaveFree, Goto, CallsInv, LastInv, BlockInv, Held
  <1>6. BlockInv'
    BY DEF LeaveFree, Goto, BlockInv, CallsInv, LastInv, Held
  <1>7. CountExact'
    BY DEF LeaveFree, Goto, CountExact, Held
  <1>8. QED
    BY <1>1, <1>2, <1>3, <1>4, <1>5, <1>6, <1>7

LEMMA StutterInv ==
  ASSUME Inv, UNCHANGED vars
  PROVE  Inv'
  BY Zenon DEF Inv, TypeOK, CallsInv, LoadedInv, LockInv, LastInv, BlockInv, CountExact, Held, vars

\* Every step of every call keeps the invariant.
LEMMA StepInv == Inv /\ [Next]_vars => Inv'
  <1> SUFFICES ASSUME Inv, [Next]_vars PROVE Inv'
    OBVIOUS
  <1>1. ASSUME NEW t \in Thread, Step(t)
        PROVE  Inv'
    BY <1>1, TakeLockInv, TakeLoadInv, TakeStoreInv, TakeUnlockInv, LeaveLockInv, LeaveTestInv,
       LeaveLoadInv, LeaveStoreInv, LeaveUnlockInv, LeaveLastInv, LeaveDisposeInv, LeaveFreeInv
       DEF Step
  <1>2. ASSUME NEW t \in Thread, NEW r \in Ref, Call(t, r)
        PROVE  Inv'
    BY <1>2, MakeInv, GiveInv, TakeCallInv, LeaveCallInv DEF Call
  <1>3. CASE UNCHANGED vars
    BY <1>3, StutterInv
  <1>4. QED
    BY <1>1, <1>2, <1>3 DEF Next

THEOREM Invariance == Spec => []Inv
  BY InitInv, StepInv, PTL DEF Spec

\* Every variable keeps its type: in particular count stays an integer and a reference is
\* always with one thread or with nobody.
THEOREM TypeCorrect == Spec => []TypeOK
  <1>1. Inv => TypeOK
    BY DEF Inv
  <1>2. QED
    BY <1>1, Invariance, PTL

\* The count is the number of references that exist, for any number of threads racing in
\* vial_sharedptr_take and vial_sharedptr_leave.
THEOREM CountIsExact == Spec => []CountExact
  <1>1. Inv => CountExact
    BY DEF Inv
  <1>2. QED
    BY <1>1, Invariance, PTL

\* The flag excludes: one thread at most is between its test-and-set and its clear.
THEOREM LockExcludes == Spec => []LockExclusive
  <1>1. Inv => LockExclusive
    BY Zenon DEF Inv, LockInv, LockExclusive
  <1>2. QED
    BY <1>1, Invariance, PTL

\* No call touches the block once it is freed, and only the last leave does once the
\* object is disposed.
THEOREM NoAccessAfterFree == Spec => []NoUseAfterFree
  <1>1. Inv => NoUseAfterFree
    BY DEF Inv, BlockInv, LastInv, NoUseAfterFree, TakePC, LeavePC, Last
  <1>2. QED
    BY <1>1, Invariance, PTL

-----------------------------------------------------------------------------
LEMMA ObjectInit == Init => Object!Init
  BY DEF Init, Object!Init

LEMMA ObjectStep == Inv /\ [Next]_vars => [Object!Next]_(Object!objVars)
  <1> SUFFICES ASSUME Inv, [Next]_vars
               PROVE  Object!Next \/ UNCHANGED Object!objVars
    OBVIOUS
  <1> USE DEF TakePC, LeavePC, HoldsRef, BeforeStore, Critical, Last, Object!objVars, Object!Held, Held
  <1>1. ASSUME NEW t \in Thread, NEW r \in Ref, Make(t, r)
        PROVE  Object!New(t, r)
    BY <1>1 DEF Make, Object!New
  <1>2. ASSUME NEW t \in Thread, NEW u \in Thread, NEW r \in Ref, Give(t, u, r)
        PROVE  Object!Hand(t, u, r)
    BY <1>2, NoneAssumption DEF Give, Object!Hand, Inv, TypeOK, CallsInv, BlockInv, LastInv
  <1>3. ASSUME NEW t \in Thread, TakeStore(t)
        PROVE  Object!Copy(t, ref[t])
    BY <1>3, NoneAssumption DEF TakeStore, Goto, Object!Copy, Inv, TypeOK, CallsInv, BlockInv, LastInv
  <1>4. ASSUME NEW t \in Thread, LeaveStore(t)
        PROVE  Object!Drop(t, ref[t])
    <2>1. block = "live" /\ owner[ref[t]] = t /\ Cardinality(Held) > 1
      BY <1>4, NoneAssumption
         DEF LeaveStore, Goto, Inv, TypeOK, CallsInv, LoadedInv, BlockInv, LastInv, CountExact
    <2>2. Held # {ref[t]}
      <3>1. Cardinality({ref[t]}) = 1
        BY FS_Singleton
      <3>2. Cardinality(Held) # Cardinality({ref[t]})
        BY <2>1, <3>1
      <3>3. QED
        BY <3>2, Zenon
    <2>3. QED
      BY <1>4, <2>1, <2>2 DEF LeaveStore, Object!Drop
  <1>5. ASSUME NEW t \in Thread, LeaveDispose(t)
        PROVE  Object!DisposeLast(t, ref[t])
    BY <1>5 DEF LeaveDispose, Goto, Object!DisposeLast, Inv, TypeOK, CallsInv, BlockInv, LastInv
  <1>6. ASSUME NEW t \in Thread, LeaveFree(t)
        PROVE  Object!Reclaim(t, ref[t])
    BY <1>6 DEF LeaveFree, Goto, Object!Reclaim, Inv, TypeOK, CallsInv, BlockInv, LastInv
  <1>7. ASSUME NEW t \in Thread,
               \/ TakeLock(t) \/ TakeLoad(t) \/ TakeUnlock(t)
               \/ LeaveLock(t) \/ LeaveTest(t) \/ LeaveLoad(t) \/ LeaveUnlock(t) \/ LeaveLast(t)
               \/ \E r \in Ref : TakeCall(t, r) \/ LeaveCall(t, r)
        PROVE  UNCHANGED Object!objVars
    BY <1>7 DEF TakeLock, TakeLoad, TakeUnlock, LeaveLock, LeaveTest, LeaveLoad, LeaveUnlock,
       LeaveLast, TakeCall, LeaveCall
  <1>8. CASE UNCHANGED vars
    BY <1>8 DEF vars
  <1>9. \A t \in Thread : ref[t] \in Ref
    BY DEF Inv, TypeOK
  <1>10. QED
    BY <1>1, <1>2, <1>3, <1>4, <1>5, <1>6, <1>7, <1>8, <1>9, Zenon DEF Next, Step, Call, Object!Next

\* The spin lock and the count implement an object that is disposed once, by the thread
\* that gives up the last reference, and never used again.
THEOREM Refinement == Spec => ImplementsObject
  <1>1. Spec => []Inv
    BY Invariance
  <1>2. QED
    BY <1>1, ObjectInit, ObjectStep, PTL DEF Spec, ImplementsObject, Object!Spec

=============================================================================
