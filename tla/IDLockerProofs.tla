--------------------------- MODULE IDLockerProofs ----------------------------
(***************************************************************************)
(* For any finite number of threads, any ids and any addresses: IDLocker   *)
(* keeps its inductive invariant Inv, and implements RWLocks.              *)
(***************************************************************************)
EXTENDS IDLocker, FiniteSetTheorems, TLAPS

\* The sets of threads the counters count are finite.
LEMMA ThreadSetsFinite ==
  \A i : /\ IsFiniteSet(ReadersOf(i))
         /\ IsFiniteSet(WritersOf(i))
         /\ IsFiniteSet(SharedOwners(i))
         /\ IsFiniteSet(ExclusiveOwners(i))
  BY ThreadsAssumption, FS_Subset
     DEF ReadersOf, WritersOf, SharedOwners, ExclusiveOwners

\* Adding a thread to a finite set of threads adds one to its cardinality.
LEMMA CardinalityAdd ==
  ASSUME NEW S, IsFiniteSet(S), NEW x, x \notin S
  PROVE  Cardinality(S \cup {x}) = Cardinality(S) + 1
  BY FS_AddElement

\* Removing a thread from a finite set takes one from its cardinality.
LEMMA CardinalityRemove ==
  ASSUME NEW S, IsFiniteSet(S), NEW x \in S
  PROVE  /\ Cardinality(S \ {x}) = Cardinality(S) - 1
         /\ Cardinality(S) \in Nat \ {0}
  <1>1. Cardinality(S) \in Nat
    BY FS_CardinalityType
  <1>2. Cardinality(S) # 0
    BY FS_EmptySet
  <1>3. Cardinality(S \ {x}) = Cardinality(S) - 1
    BY FS_RemoveElement
  <1> QED BY <1>1, <1>2, <1>3

\* Counters are zero exactly when nobody waits or holds.
LEMMA CardinalityZero ==
  ASSUME NEW S, IsFiniteSet(S)
  PROVE  /\ Cardinality(S) \in Nat
         /\ Cardinality(S) = 0 <=> S = {}
  BY FS_EmptySet, FS_CardinalityType

\* The invariant holds initially: the map is empty and no thread has asked.
LEMMA InitInv == Init => Inv
  <1> SUFFICES ASSUME Init PROVE Inv
    OBVIOUS
  <1>1. TypeOK
    BY DEF Init, TypeOK, NewIDState, PC
  <1>2. \A i \in Ids : ReadersOf(i) = {} /\ WritersOf(i) = {}
    BY DEF Init, ReadersOf, WritersOf
  <1>3. \A i \in Ids : ExclusiveOwners(i) = {}
    BY DEF Init, ExclusiveOwners
  <1>4. MapInjective /\ CountersExact
    BY DEF Init, MapInjective, CountersExact
  <1>5. ReferenceLive
    BY DEF Init, ReferenceLive
  <1>6. NoLeakedState
    BY <1>2 DEF Init, NoLeakedState
  <1>7. MutualExclusion
    BY <1>3 DEF MutualExclusion
  <1> QED BY <1>1, <1>4, <1>5, <1>6, <1>7 DEF Inv

-----------------------------------------------------------------------------
\* The first half of AcquireSharedLock keeps the invariant: the caller is
\* counted before the global mutex is released.
LEMMA AcquireSharedInv ==
  ASSUME Inv, NEW t \in Threads, NEW i \in Ids, AcquireSharedLock(t, i)
  PROVE  Inv'
  <1> USE DEF Inv
  <1>0. PICK r \in Subscript(i) :
          /\ id_map' = [id_map EXCEPT ![i] = r]
          /\ heap' = [heap EXCEPT ![r] = [StateOf(i) EXCEPT !.reader_count = @ + 1]]
          /\ ref' = [ref EXCEPT ![t] = r]
          /\ id' = [id EXCEPT ![t] = i]
    BY DEF AcquireSharedLock, CountIn
  <1>1. pc[t] = "idle" /\ pc' = [pc EXCEPT ![t] = "wait_shared"]
    BY DEF AcquireSharedLock
  <1>2. /\ r \in Refs /\ r # NoRef
        /\ id_map[i] # NoRef => r = id_map[i]
        /\ id_map[i] = NoRef => \A j \in Ids : id_map[j] # r
    BY <1>0, RefsAssumption DEF Subscript, TypeOK
  <1>3. /\ ReadersOf(i)' = ReadersOf(i) \cup {t}
        /\ t \notin ReadersOf(i)
        /\ \A j \in Ids : j # i => ReadersOf(j)' = ReadersOf(j)
        /\ \A j \in Ids : /\ WritersOf(j)' = WritersOf(j)
                          /\ SharedOwners(j)' = SharedOwners(j)
                          /\ ExclusiveOwners(j)' = ExclusiveOwners(j)
    BY <1>0, <1>1 DEF ReadersOf, WritersOf, SharedOwners, ExclusiveOwners, TypeOK
  <1>4. TypeOK'
    <2>1. StateOf(i) \in [reader_count: Nat, writer_count: Nat, shared: Nat,
                          exclusive: BOOLEAN, blocked: BOOLEAN]
      BY <1>2 DEF StateOf, NewIDState, TypeOK
    <2> QED BY <1>0, <1>1, <1>2, <2>1 DEF TypeOK, PC
  <1>5. MapInjective'
    BY <1>0, <1>2 DEF MapInjective, TypeOK
  <1>6. ReferenceLive'
    BY <1>0, <1>1, <1>2 DEF ReferenceLive, TypeOK
  <1>7. NoLeakedState'
    BY <1>0, <1>2, <1>3 DEF NoLeakedState, TypeOK
  <1>8. MutualExclusion'
    BY <1>3 DEF MutualExclusion
  <1>9. CountersExact'
    <2> SUFFICES ASSUME NEW j \in Ids, id_map'[j] # NoRef
                 PROVE  /\ heap'[id_map'[j]].reader_count = Cardinality(ReadersOf(j)')
                        /\ heap'[id_map'[j]].writer_count = Cardinality(WritersOf(j))
                        /\ heap'[id_map'[j]].shared = Cardinality(SharedOwners(j))
                        /\ heap'[id_map'[j]].exclusive <=> ExclusiveOwners(j) # {}
      BY <1>3 DEF CountersExact
    <2>1. CASE j # i
      <3>1. id_map'[j] = id_map[j] /\ id_map[j] # r
        BY <2>1, <1>0, <1>2 DEF MapInjective, TypeOK
      <3> QED BY <2>1, <3>1, <1>0, <1>3 DEF CountersExact, TypeOK
    <2>2. CASE j = i /\ id_map[i] # NoRef
      <3>1. Cardinality(ReadersOf(i)') = Cardinality(ReadersOf(i)) + 1
        BY <1>3, ThreadSetsFinite, CardinalityAdd
      <3> QED BY <2>2, <3>1, <1>0, <1>2 DEF CountersExact, StateOf, TypeOK
    <2>3. CASE j = i /\ id_map[i] = NoRef
      <3>1. ReadersOf(i) = {} /\ WritersOf(i) = {}
        BY <2>3 DEF NoLeakedState
      <3>2. SharedOwners(i) = {} /\ ExclusiveOwners(i) = {}
        BY <3>1 DEF ReadersOf, WritersOf, SharedOwners, ExclusiveOwners
      <3>3. Cardinality(ReadersOf(i)') = Cardinality(ReadersOf(i)) + 1
        BY <1>3, ThreadSetsFinite, CardinalityAdd
      <3>4. Cardinality({}) = 0
        BY FS_EmptySet
      <3> QED BY <2>3, <3>1, <3>2, <3>3, <3>4, <1>0, <1>2
              DEF StateOf, NewIDState, TypeOK
    <2> QED BY <2>1, <2>2, <2>3
  <1> QED BY <1>4, <1>5, <1>6, <1>7, <1>8, <1>9

\* The first half of AcquireExclusiveLock keeps the invariant: the caller is
\* counted before the global mutex is released.
LEMMA AcquireExclusiveInv ==
  ASSUME Inv, NEW t \in Threads, NEW i \in Ids, AcquireExclusiveLock(t, i)
  PROVE  Inv'
  <1> USE DEF Inv
  <1>0. PICK r \in Subscript(i) :
          /\ id_map' = [id_map EXCEPT ![i] = r]
          /\ heap' = [heap EXCEPT ![r] = [StateOf(i) EXCEPT !.writer_count = @ + 1]]
          /\ ref' = [ref EXCEPT ![t] = r]
          /\ id' = [id EXCEPT ![t] = i]
    BY DEF AcquireExclusiveLock, CountIn
  <1>1. pc[t] = "idle" /\ pc' = [pc EXCEPT ![t] = "wait_exclusive"]
    BY DEF AcquireExclusiveLock
  <1>2. /\ r \in Refs /\ r # NoRef
        /\ id_map[i] # NoRef => r = id_map[i]
        /\ id_map[i] = NoRef => \A j \in Ids : id_map[j] # r
    BY <1>0, RefsAssumption DEF Subscript, TypeOK
  <1>3. /\ WritersOf(i)' = WritersOf(i) \cup {t}
        /\ t \notin WritersOf(i)
        /\ \A j \in Ids : j # i => WritersOf(j)' = WritersOf(j)
        /\ \A j \in Ids : /\ ReadersOf(j)' = ReadersOf(j)
                          /\ SharedOwners(j)' = SharedOwners(j)
                          /\ ExclusiveOwners(j)' = ExclusiveOwners(j)
    BY <1>0, <1>1 DEF ReadersOf, WritersOf, SharedOwners, ExclusiveOwners, TypeOK
  <1>4. TypeOK'
    <2>1. StateOf(i) \in [reader_count: Nat, writer_count: Nat, shared: Nat,
                          exclusive: BOOLEAN, blocked: BOOLEAN]
      BY <1>2 DEF StateOf, NewIDState, TypeOK
    <2> QED BY <1>0, <1>1, <1>2, <2>1 DEF TypeOK, PC
  <1>5. MapInjective'
    BY <1>0, <1>2 DEF MapInjective, TypeOK
  <1>6. ReferenceLive'
    BY <1>0, <1>1, <1>2 DEF ReferenceLive, TypeOK
  <1>7. NoLeakedState'
    BY <1>0, <1>2, <1>3 DEF NoLeakedState, TypeOK
  <1>8. MutualExclusion'
    BY <1>3 DEF MutualExclusion
  <1>9. CountersExact'
    <2> SUFFICES ASSUME NEW j \in Ids, id_map'[j] # NoRef
                 PROVE  /\ heap'[id_map'[j]].reader_count = Cardinality(ReadersOf(j))
                        /\ heap'[id_map'[j]].writer_count = Cardinality(WritersOf(j)')
                        /\ heap'[id_map'[j]].shared = Cardinality(SharedOwners(j))
                        /\ heap'[id_map'[j]].exclusive <=> ExclusiveOwners(j) # {}
      BY <1>3 DEF CountersExact
    <2>1. CASE j # i
      <3>1. id_map'[j] = id_map[j] /\ id_map[j] # r
        BY <2>1, <1>0, <1>2 DEF MapInjective, TypeOK
      <3> QED BY <2>1, <3>1, <1>0, <1>3 DEF CountersExact, TypeOK
    <2>2. CASE j = i /\ id_map[i] # NoRef
      <3>1. Cardinality(WritersOf(i)') = Cardinality(WritersOf(i)) + 1
        BY <1>3, ThreadSetsFinite, CardinalityAdd
      <3> QED BY <2>2, <3>1, <1>0, <1>2 DEF CountersExact, StateOf, TypeOK
    <2>3. CASE j = i /\ id_map[i] = NoRef
      <3>1. ReadersOf(i) = {} /\ WritersOf(i) = {}
        BY <2>3 DEF NoLeakedState
      <3>2. SharedOwners(i) = {} /\ ExclusiveOwners(i) = {}
        BY <3>1 DEF ReadersOf, WritersOf, SharedOwners, ExclusiveOwners
      <3>3. Cardinality(WritersOf(i)') = Cardinality(WritersOf(i)) + 1
        BY <1>3, ThreadSetsFinite, CardinalityAdd
      <3>4. Cardinality({}) = 0
        BY FS_EmptySet
      <3> QED BY <2>3, <3>1, <3>2, <3>3, <3>4, <1>0, <1>2
              DEF StateOf, NewIDState, TypeOK
    <2> QED BY <2>1, <2>2, <2>3
  <1> QED BY <1>4, <1>5, <1>6, <1>7, <1>8, <1>9


\* lock_shared() through the reference keeps the invariant: the reference is
\* the live IDState of the id, so its mutex tells who holds the id.
LEMMA LockSharedInv ==
  ASSUME Inv, NEW t \in Threads, LockShared(t)
  PROVE  Inv'
  <1> USE DEF Inv
  <1>0. PICK i \in Ids, r \in Refs :
          i = id[t] /\ r = ref[t] /\ id_map[i] = r /\ r # NoRef
    BY RefsAssumption DEF LockShared, ReferenceLive, TypeOK
  <1>1. /\ pc[t] = "wait_shared" /\ pc' = [pc EXCEPT ![t] = "shared"]
        /\ heap' = [heap EXCEPT ![r].shared = @ + 1]
        /\ id_map' = id_map /\ id' = id /\ ref' = ref
        /\ ~heap[r].exclusive
    BY <1>0 DEF LockShared
  <1>3. /\ SharedOwners(i)' = SharedOwners(i) \cup {t}
        /\ t \notin SharedOwners(i)
        /\ \A j \in Ids : j # i => SharedOwners(j)' = SharedOwners(j)
        /\ \A j \in Ids : /\ ReadersOf(j)' = ReadersOf(j)
                          /\ WritersOf(j)' = WritersOf(j)
                          /\ ExclusiveOwners(j)' = ExclusiveOwners(j)
    BY <1>0, <1>1 DEF ReadersOf, WritersOf, SharedOwners, ExclusiveOwners, TypeOK
  <1>4. TypeOK'
    BY <1>1, <1>0 DEF TypeOK, PC
  <1>5. MapInjective' /\ ReferenceLive' /\ NoLeakedState'
    BY <1>1, <1>0, <1>3 DEF MapInjective, ReferenceLive, NoLeakedState, TypeOK
  <1>6. ExclusiveOwners(i) = {}
    BY <1>1, <1>0 DEF CountersExact
  <1>7. MutualExclusion'
    BY <1>0, <1>3, <1>6 DEF MutualExclusion
  <1>8. CountersExact'
    <2>1. Cardinality(SharedOwners(i)') = Cardinality(SharedOwners(i)) + 1
      BY <1>3, ThreadSetsFinite, CardinalityAdd
    <2>2. ASSUME NEW j \in Ids, j # i, id_map[j] # NoRef
          PROVE  heap'[id_map[j]] = heap[id_map[j]]
      BY <2>2, <1>1, <1>0 DEF MapInjective, TypeOK
    <2>3. /\ heap'[r].shared = heap[r].shared + 1
          /\ heap'[r].reader_count = heap[r].reader_count
          /\ heap'[r].writer_count = heap[r].writer_count
          /\ heap'[r].exclusive = heap[r].exclusive
      BY <1>1, <1>0 DEF TypeOK
    <2> SUFFICES ASSUME NEW j \in Ids, id_map[j] # NoRef
                 PROVE  /\ heap'[id_map[j]].reader_count = Cardinality(ReadersOf(j))
                        /\ heap'[id_map[j]].writer_count = Cardinality(WritersOf(j))
                        /\ heap'[id_map[j]].shared = Cardinality(SharedOwners(j)')
                        /\ heap'[id_map[j]].exclusive <=> ExclusiveOwners(j) # {}
      BY <1>1, <1>3 DEF CountersExact
    <2>4. CASE j = i
      BY <2>4, <2>1, <2>3, <1>0 DEF CountersExact
    <2>5. CASE j # i
      BY <2>5, <2>2, <1>3 DEF CountersExact
    <2> QED BY <2>4, <2>5
  <1> QED BY <1>4, <1>5, <1>7, <1>8

\* A writer that finds the mutex owned changes nothing the invariant is about.
LEMMA BlockReadersInv ==
  ASSUME Inv, NEW t \in Threads, BlockReaders(t)
  PROVE  Inv'
  <1> USE DEF Inv
  <1>1. /\ pc[t] = "wait_exclusive"
        /\ heap' = [heap EXCEPT ![ref[t]].blocked = TRUE]
        /\ id_map' = id_map /\ id' = id /\ ref' = ref /\ pc' = pc
    BY DEF BlockReaders
  <1>2. ref[t] \in Refs
    BY <1>1 DEF ReferenceLive, TypeOK
  <1>3. \A j \in Ids : /\ ReadersOf(j)' = ReadersOf(j)
                       /\ WritersOf(j)' = WritersOf(j)
                       /\ SharedOwners(j)' = SharedOwners(j)
                       /\ ExclusiveOwners(j)' = ExclusiveOwners(j)
    BY <1>1 DEF ReadersOf, WritersOf, SharedOwners, ExclusiveOwners
  <1>4. TypeOK'
    BY <1>1, <1>2 DEF TypeOK
  <1>5. \A q \in Refs : /\ heap'[q].shared = heap[q].shared
                        /\ heap'[q].reader_count = heap[q].reader_count
                        /\ heap'[q].writer_count = heap[q].writer_count
                        /\ heap'[q].exclusive = heap[q].exclusive
    BY <1>1, <1>2 DEF TypeOK
  <1>6. CountersExact'
    BY <1>1, <1>3, <1>5 DEF CountersExact, TypeOK
  <1> QED BY <1>1, <1>3, <1>4, <1>6
          DEF MapInjective, ReferenceLive, NoLeakedState, MutualExclusion

\* lock() through the reference keeps the invariant.
LEMMA LockExclusiveInv ==
  ASSUME Inv, NEW t \in Threads, LockExclusive(t)
  PROVE  Inv'
  <1> USE DEF Inv
  <1>0. PICK i \in Ids, r \in Refs :
          i = id[t] /\ r = ref[t] /\ id_map[i] = r /\ r # NoRef
    BY RefsAssumption DEF LockExclusive, ReferenceLive, TypeOK
  <1>1. /\ pc[t] = "wait_exclusive" /\ pc' = [pc EXCEPT ![t] = "exclusive"]
        /\ heap' = [heap EXCEPT ![r].exclusive = TRUE]
        /\ id_map' = id_map /\ id' = id /\ ref' = ref
        /\ ~heap[r].exclusive /\ heap[r].shared = 0
    BY <1>0 DEF LockExclusive
  <1>3. /\ ExclusiveOwners(i)' = ExclusiveOwners(i) \cup {t}
        /\ \A j \in Ids : j # i => ExclusiveOwners(j)' = ExclusiveOwners(j)
        /\ \A j \in Ids : /\ ReadersOf(j)' = ReadersOf(j)
                          /\ WritersOf(j)' = WritersOf(j)
                          /\ SharedOwners(j)' = SharedOwners(j)
    BY <1>0, <1>1 DEF ReadersOf, WritersOf, SharedOwners, ExclusiveOwners, TypeOK
  <1>4. TypeOK'
    BY <1>1, <1>0 DEF TypeOK, PC
  <1>5. MapInjective' /\ ReferenceLive' /\ NoLeakedState'
    BY <1>1, <1>0, <1>3 DEF MapInjective, ReferenceLive, NoLeakedState, TypeOK
  <1>6. ExclusiveOwners(i) = {} /\ SharedOwners(i) = {}
    <2>1. /\ heap[r].shared = Cardinality(SharedOwners(i))
          /\ heap[r].exclusive <=> ExclusiveOwners(i) # {}
      BY <1>0 DEF CountersExact
    <2>2. IsFiniteSet(SharedOwners(i))
      BY ThreadSetsFinite
    <2> QED BY <1>1, <2>1, <2>2, CardinalityZero
  <1>7. MutualExclusion'
    BY <1>0, <1>3, <1>6 DEF MutualExclusion
  <1>8. CountersExact'
    <2>1. ASSUME NEW j \in Ids, j # i, id_map[j] # NoRef
          PROVE  heap'[id_map[j]] = heap[id_map[j]]
      BY <2>1, <1>1, <1>0 DEF MapInjective, TypeOK
    <2>2. /\ heap'[r].shared = heap[r].shared
          /\ heap'[r].reader_count = heap[r].reader_count
          /\ heap'[r].writer_count = heap[r].writer_count
          /\ heap'[r].exclusive = TRUE
      BY <1>1, <1>0 DEF TypeOK
    <2> SUFFICES ASSUME NEW j \in Ids, id_map[j] # NoRef
                 PROVE  /\ heap'[id_map[j]].reader_count = Cardinality(ReadersOf(j))
                        /\ heap'[id_map[j]].writer_count = Cardinality(WritersOf(j))
                        /\ heap'[id_map[j]].shared = Cardinality(SharedOwners(j))
                        /\ heap'[id_map[j]].exclusive <=> ExclusiveOwners(j)' # {}
      BY <1>1, <1>3 DEF CountersExact
    <2>4. CASE j = i
      BY <2>4, <2>2, <1>0, <1>3 DEF CountersExact
    <2>5. CASE j # i
      BY <2>5, <2>1, <1>3 DEF CountersExact
    <2> QED BY <2>4, <2>5
  <1> QED BY <1>4, <1>5, <1>7, <1>8

\* ReleaseSharedLock keeps the invariant: the IDState is erased only when the
\* counters show that nobody else waits for it or holds it.
LEMMA ReleaseSharedInv ==
  ASSUME Inv, NEW t \in Threads, ReleaseSharedLock(t)
  PROVE  Inv'
  <1> USE DEF Inv
  <1>0. PICK i \in Ids, r \in Refs :
          i = id[t] /\ r = ref[t] /\ id_map[i] = r /\ r # NoRef
    BY RefsAssumption DEF ReleaseSharedLock, ReferenceLive, TypeOK
  <1> DEFINE s == [UnlockShared(heap[r]) EXCEPT !.reader_count = @ - 1]
  <1>1. /\ pc[t] = "shared" /\ pc' = [pc EXCEPT ![t] = "idle"]
        /\ id_map' = [id_map EXCEPT ![i] = Cleanup(s, r)]
        /\ heap' = [heap EXCEPT ![r] = s]
        /\ ref' = [ref EXCEPT ![t] = NoRef]
        /\ id' = id
    BY <1>0 DEF ReleaseSharedLock, CountOut, Subscript, StateOf
  <1>2. /\ ReadersOf(i)' = ReadersOf(i) \ {t} /\ t \in ReadersOf(i)
        /\ SharedOwners(i)' = SharedOwners(i) \ {t} /\ t \in SharedOwners(i)
        /\ \A j \in Ids : j # i => /\ ReadersOf(j)' = ReadersOf(j)
                                    /\ SharedOwners(j)' = SharedOwners(j)
        /\ \A j \in Ids : /\ WritersOf(j)' = WritersOf(j)
                          /\ ExclusiveOwners(j)' = ExclusiveOwners(j)
    BY <1>0, <1>1 DEF ReadersOf, WritersOf, SharedOwners, ExclusiveOwners, TypeOK
  <1>3. /\ Cardinality(ReadersOf(i)') = Cardinality(ReadersOf(i)) - 1
        /\ Cardinality(ReadersOf(i)) \in Nat \ {0}
    BY <1>2, ThreadSetsFinite, CardinalityRemove
  <1>4. /\ Cardinality(SharedOwners(i)') = Cardinality(SharedOwners(i)) - 1
        /\ Cardinality(SharedOwners(i)) \in Nat \ {0}
    BY <1>2, ThreadSetsFinite, CardinalityRemove
  <1>5. /\ heap[r].reader_count = Cardinality(ReadersOf(i))
        /\ heap[r].writer_count = Cardinality(WritersOf(i))
        /\ heap[r].shared = Cardinality(SharedOwners(i))
        /\ heap[r].exclusive <=> ExclusiveOwners(i) # {}
    BY <1>0 DEF CountersExact
  <1>6. heap[r] \in [reader_count: Nat, writer_count: Nat, shared: Nat,
                     exclusive: BOOLEAN, blocked: BOOLEAN]
    BY DEF TypeOK
  <1>7. /\ s \in [reader_count: Nat, writer_count: Nat, shared: Nat,
                   exclusive: BOOLEAN, blocked: BOOLEAN]
        /\ s.reader_count = heap[r].reader_count - 1
        /\ s.writer_count = heap[r].writer_count
        /\ s.shared = heap[r].shared - 1
        /\ s.exclusive = heap[r].exclusive
    <2> DEFINE u == UnlockShared(heap[r])
    <2>1. /\ u \in [reader_count: Nat, writer_count: Nat, shared: Nat,
                     exclusive: BOOLEAN, blocked: BOOLEAN]
          /\ u.reader_count = heap[r].reader_count
          /\ u.writer_count = heap[r].writer_count
          /\ u.shared = heap[r].shared - 1
          /\ u.exclusive = heap[r].exclusive
      <3> DEFINE b == IF heap[r].shared = 1 THEN FALSE ELSE heap[r].blocked
                 n == heap[r].shared - 1
      <3>1. n \in Nat
        BY <1>4, <1>5
      <3>2. b \in BOOLEAN
        BY <1>6
      <3>3. u = [heap[r] EXCEPT !.shared = n, !.blocked = b]
        BY DEF UnlockShared
      <3> HIDE DEF b, u
      <3> QED BY <1>6, <3>1, <3>2, <3>3
    <2>2. s = [u EXCEPT !.reader_count = u.reader_count - 1]
      OBVIOUS
    <2> HIDE DEF u, s
    <2> QED BY <1>3, <1>5, <2>1, <2>2
  <1> HIDE DEF s
  <1>8. TypeOK'
    BY <1>0, <1>1, <1>7 DEF TypeOK, PC, Cleanup
  <1>9. MapInjective'
    BY <1>0, <1>1 DEF MapInjective, TypeOK, Cleanup
  <1>10. id_map'[i] # NoRef <=> ReadersOf(i)' \cup WritersOf(i)' # {}
    <2>1. s.reader_count = Cardinality(ReadersOf(i)') /\ s.writer_count = Cardinality(WritersOf(i)')
      BY <1>2, <1>3, <1>5, <1>7
    <2>2. IsFiniteSet(ReadersOf(i)') /\ IsFiniteSet(WritersOf(i)')
      BY <1>2, ThreadSetsFinite, FS_Subset
    <2>3. /\ s.reader_count = 0 <=> ReadersOf(i)' = {}
          /\ s.writer_count = 0 <=> WritersOf(i)' = {}
      BY <2>1, <2>2, CardinalityZero
    <2> QED BY <1>0, <1>1, <2>3 DEF Cleanup, TypeOK
  <1>11. \A j \in Ids : j # i => id_map'[j] = id_map[j]
    BY <1>1 DEF TypeOK
  <1>12. id_map'[i] \in {r, NoRef}
    BY <1>0, <1>1 DEF Cleanup, TypeOK
  <1>13. ReferenceLive'
    <2> SUFFICES ASSUME NEW u \in Threads, pc'[u] # "idle"
                 PROVE  ref'[u] # NoRef /\ id_map'[id'[u]] = ref'[u]
      BY DEF ReferenceLive
    <2>1. u # t /\ pc[u] # "idle" /\ pc'[u] = pc[u] /\ ref'[u] = ref[u] /\ id'[u] = id[u]
      BY <1>1 DEF TypeOK
    <2>2. ref[u] # NoRef /\ id_map[id[u]] = ref[u] /\ id[u] \in Ids
      BY <2>1 DEF ReferenceLive, TypeOK
    <2>3. CASE id[u] # i
      BY <2>1, <2>2, <2>3, <1>11
    <2>4. CASE id[u] = i
      <3>1. u \in ReadersOf(i)' \cup WritersOf(i)'
        BY <2>1, <2>4, <1>1 DEF ReadersOf, WritersOf, TypeOK, PC
      <3> QED BY <3>1, <2>1, <2>2, <2>4, <1>0, <1>10, <1>12
    <2> QED BY <2>3, <2>4
  <1>14. NoLeakedState'
    BY <1>2, <1>10, <1>11 DEF NoLeakedState
  <1>15. MutualExclusion'
    BY <1>2 DEF MutualExclusion
  <1>16. CountersExact'
    <2> SUFFICES ASSUME NEW j \in Ids, id_map'[j] # NoRef
                 PROVE  /\ heap'[id_map'[j]].reader_count = Cardinality(ReadersOf(j)')
                        /\ heap'[id_map'[j]].writer_count = Cardinality(WritersOf(j)')
                        /\ heap'[id_map'[j]].shared = Cardinality(SharedOwners(j)')
                        /\ heap'[id_map'[j]].exclusive <=> ExclusiveOwners(j)' # {}
      BY DEF CountersExact
    <2>1. CASE j = i
      <3>1. heap'[id_map'[j]] = s
        BY <2>1, <1>0, <1>1, <1>12 DEF TypeOK
      <3> QED BY <2>1, <3>1, <1>2, <1>3, <1>4, <1>5, <1>7
    <2>2. CASE j # i
      <3>1. heap'[id_map'[j]] = heap[id_map[j]] /\ id_map[j] # NoRef
        BY <2>2, <1>0, <1>1, <1>11 DEF MapInjective, TypeOK
      <3> QED BY <2>2, <3>1, <1>2 DEF CountersExact
    <2> QED BY <2>1, <2>2
  <1> QED BY <1>8, <1>9, <1>13, <1>14, <1>15, <1>16

\* ReleaseExclusiveLock keeps the invariant: the IDState is erased only when the
\* counters show that nobody else waits for it or holds it.
LEMMA ReleaseExclusiveInv ==
  ASSUME Inv, NEW t \in Threads, ReleaseExclusiveLock(t)
  PROVE  Inv'
  <1> USE DEF Inv
  <1>0. PICK i \in Ids, r \in Refs :
          i = id[t] /\ r = ref[t] /\ id_map[i] = r /\ r # NoRef
    BY RefsAssumption DEF ReleaseExclusiveLock, ReferenceLive, TypeOK
  <1> DEFINE s == [Unlock(heap[r]) EXCEPT !.writer_count = @ - 1]
  <1>1. /\ pc[t] = "exclusive" /\ pc' = [pc EXCEPT ![t] = "idle"]
        /\ id_map' = [id_map EXCEPT ![i] = Cleanup(s, r)]
        /\ heap' = [heap EXCEPT ![r] = s]
        /\ ref' = [ref EXCEPT ![t] = NoRef]
        /\ id' = id
    BY <1>0 DEF ReleaseExclusiveLock, CountOut, Subscript, StateOf
  <1>2. /\ WritersOf(i)' = WritersOf(i) \ {t} /\ t \in WritersOf(i)
        /\ ExclusiveOwners(i)' = ExclusiveOwners(i) \ {t} /\ t \in ExclusiveOwners(i)
        /\ \A j \in Ids : j # i => /\ WritersOf(j)' = WritersOf(j)
                                    /\ ExclusiveOwners(j)' = ExclusiveOwners(j)
        /\ \A j \in Ids : /\ ReadersOf(j)' = ReadersOf(j)
                          /\ SharedOwners(j)' = SharedOwners(j)
    BY <1>0, <1>1 DEF ReadersOf, WritersOf, SharedOwners, ExclusiveOwners, TypeOK
  <1>3. /\ Cardinality(WritersOf(i)') = Cardinality(WritersOf(i)) - 1
        /\ Cardinality(WritersOf(i)) \in Nat \ {0}
    BY <1>2, ThreadSetsFinite, CardinalityRemove
  <1>4. ExclusiveOwners(i)' = {}
    BY <1>2 DEF MutualExclusion
  <1>5. /\ heap[r].reader_count = Cardinality(ReadersOf(i))
        /\ heap[r].writer_count = Cardinality(WritersOf(i))
        /\ heap[r].shared = Cardinality(SharedOwners(i))
        /\ heap[r].exclusive <=> ExclusiveOwners(i) # {}
    BY <1>0 DEF CountersExact
  <1>6. heap[r] \in [reader_count: Nat, writer_count: Nat, shared: Nat,
                     exclusive: BOOLEAN, blocked: BOOLEAN]
    BY DEF TypeOK
  <1>7. /\ s \in [reader_count: Nat, writer_count: Nat, shared: Nat,
                   exclusive: BOOLEAN, blocked: BOOLEAN]
        /\ s.writer_count = heap[r].writer_count - 1
        /\ s.reader_count = heap[r].reader_count
        /\ s.shared = heap[r].shared
        /\ s.exclusive = FALSE
    <2> DEFINE u == Unlock(heap[r])
    <2>1. /\ u \in [reader_count: Nat, writer_count: Nat, shared: Nat,
                     exclusive: BOOLEAN, blocked: BOOLEAN]
          /\ u.reader_count = heap[r].reader_count
          /\ u.writer_count = heap[r].writer_count
          /\ u.shared = heap[r].shared
          /\ u.exclusive = FALSE
      BY <1>6 DEF Unlock
    <2>2. s = [u EXCEPT !.writer_count = u.writer_count - 1]
      OBVIOUS
    <2> HIDE DEF u, s
    <2> QED BY <1>3, <1>5, <2>1, <2>2
  <1> HIDE DEF s
  <1>8. TypeOK'
    BY <1>0, <1>1, <1>7 DEF TypeOK, PC, Cleanup
  <1>9. MapInjective'
    BY <1>0, <1>1 DEF MapInjective, TypeOK, Cleanup
  <1>10. id_map'[i] # NoRef <=> ReadersOf(i)' \cup WritersOf(i)' # {}
    <2>1. s.reader_count = Cardinality(ReadersOf(i)') /\ s.writer_count = Cardinality(WritersOf(i)')
      BY <1>2, <1>3, <1>5, <1>7
    <2>2. IsFiniteSet(ReadersOf(i)') /\ IsFiniteSet(WritersOf(i)')
      BY <1>2, ThreadSetsFinite, FS_Subset
    <2>3. /\ s.reader_count = 0 <=> ReadersOf(i)' = {}
          /\ s.writer_count = 0 <=> WritersOf(i)' = {}
      BY <2>1, <2>2, CardinalityZero
    <2> QED BY <1>0, <1>1, <2>3 DEF Cleanup, TypeOK
  <1>11. \A j \in Ids : j # i => id_map'[j] = id_map[j]
    BY <1>1 DEF TypeOK
  <1>12. id_map'[i] \in {r, NoRef}
    BY <1>0, <1>1 DEF Cleanup, TypeOK
  <1>13. ReferenceLive'
    <2> SUFFICES ASSUME NEW u \in Threads, pc'[u] # "idle"
                 PROVE  ref'[u] # NoRef /\ id_map'[id'[u]] = ref'[u]
      BY DEF ReferenceLive
    <2>1. u # t /\ pc[u] # "idle" /\ pc'[u] = pc[u] /\ ref'[u] = ref[u] /\ id'[u] = id[u]
      BY <1>1 DEF TypeOK
    <2>2. ref[u] # NoRef /\ id_map[id[u]] = ref[u] /\ id[u] \in Ids
      BY <2>1 DEF ReferenceLive, TypeOK
    <2>3. CASE id[u] # i
      BY <2>1, <2>2, <2>3, <1>11
    <2>4. CASE id[u] = i
      <3>1. u \in ReadersOf(i)' \cup WritersOf(i)'
        BY <2>1, <2>4, <1>1 DEF ReadersOf, WritersOf, TypeOK, PC
      <3> QED BY <3>1, <2>1, <2>2, <2>4, <1>0, <1>10, <1>12
    <2> QED BY <2>3, <2>4
  <1>14. NoLeakedState'
    BY <1>2, <1>10, <1>11 DEF NoLeakedState
  <1>15. MutualExclusion'
    BY <1>2 DEF MutualExclusion
  <1>16. CountersExact'
    <2> SUFFICES ASSUME NEW j \in Ids, id_map'[j] # NoRef
                 PROVE  /\ heap'[id_map'[j]].reader_count = Cardinality(ReadersOf(j)')
                        /\ heap'[id_map'[j]].writer_count = Cardinality(WritersOf(j)')
                        /\ heap'[id_map'[j]].shared = Cardinality(SharedOwners(j)')
                        /\ heap'[id_map'[j]].exclusive <=> ExclusiveOwners(j)' # {}
      BY DEF CountersExact
    <2>1. CASE j = i
      <3>1. heap'[id_map'[j]] = s
        BY <2>1, <1>0, <1>1, <1>12 DEF TypeOK
      <3> QED BY <2>1, <3>1, <1>2, <1>3, <1>5, <1>7, <1>4
    <2>2. CASE j # i
      <3>1. heap'[id_map'[j]] = heap[id_map[j]] /\ id_map[j] # NoRef
        BY <2>2, <1>0, <1>1, <1>11 DEF MapInjective, TypeOK
      <3> QED BY <2>2, <3>1, <1>2 DEF CountersExact
    <2> QED BY <2>1, <2>2
  <1> QED BY <1>8, <1>9, <1>13, <1>14, <1>15, <1>16

-----------------------------------------------------------------------------
\* Every step of the locker keeps the invariant.
LEMMA NextInv == Inv /\ [Next]_vars => Inv'
  <1> SUFFICES ASSUME Inv, [Next]_vars PROVE Inv'
    OBVIOUS
  <1>1. CASE UNCHANGED vars
    <2>1. \A i \in Ids : /\ ReadersOf(i)' = ReadersOf(i)
                         /\ WritersOf(i)' = WritersOf(i)
                         /\ SharedOwners(i)' = SharedOwners(i)
                         /\ ExclusiveOwners(i)' = ExclusiveOwners(i)
      BY <1>1 DEF vars, ReadersOf, WritersOf, SharedOwners, ExclusiveOwners
    <2>2. TypeOK' /\ MapInjective' /\ ReferenceLive'
      BY <1>1 DEF vars, Inv, TypeOK, MapInjective, ReferenceLive
    <2>3. CountersExact'
      BY <1>1, <2>1 DEF vars, Inv, CountersExact
    <2>4. NoLeakedState' /\ MutualExclusion'
      BY <1>1, <2>1 DEF vars, Inv, NoLeakedState, MutualExclusion
    <2> QED BY <2>2, <2>3, <2>4 DEF Inv
  <1>2. ASSUME NEW t \in Threads, NEW i \in Ids,
               AcquireSharedLock(t, i) \/ AcquireExclusiveLock(t, i)
        PROVE  Inv'
    BY <1>2, AcquireSharedInv, AcquireExclusiveInv
  <1>3. ASSUME NEW t \in Threads, LockShared(t) \/ BlockReaders(t) \/ LockExclusive(t)
        PROVE  Inv'
    BY <1>3, LockSharedInv, BlockReadersInv, LockExclusiveInv
  <1>4. ASSUME NEW t \in Threads, ReleaseSharedLock(t) \/ ReleaseExclusiveLock(t)
        PROVE  Inv'
    BY <1>4, ReleaseSharedInv, ReleaseExclusiveInv
  <1> QED BY <1>1, <1>2, <1>3, <1>4 DEF Next

\* The inductive invariant of IDLocker, for any number of threads and ids.
THEOREM Invariance == Spec => []Inv
  BY InitInv, NextInv, PTL DEF Spec

\* Types, and the DCHECKs that the counters of an IDState never go below zero.
THEOREM TypeCorrect == Spec => []TypeOK
  <1>1. Inv => TypeOK
    BY DEF Inv
  <1> QED BY Invariance, <1>1, PTL

\* A writer excludes everybody else from its id.
THEOREM Exclusion == Spec => []MutualExclusion
  <1>1. Inv => MutualExclusion
    BY DEF Inv
  <1> QED BY Invariance, <1>1, PTL

\* The reference to an IDState that Acquire*Lock uses after it has released the
\* global mutex never dangles.
THEOREM NoDanglingReference == Spec => []ReferenceLive
  <1>1. Inv => ReferenceLive
    BY DEF Inv
  <1> QED BY Invariance, <1>1, PTL

\* id_map_ holds an IDState exactly for the ids someone waits for or holds.
THEOREM NoLeak == Spec => []NoLeakedState
  <1>1. Inv => NoLeakedState
    BY DEF Inv
  <1> QED BY Invariance, <1>1, PTL

-----------------------------------------------------------------------------
\* A step of the locker is a grant or a release of the lock per id, or a step
\* its callers do not see.
LEMMA StepRefines == Inv /\ [Next]_vars => [RW!RWNext]_(RW!rwVars)
  <1> SUFFICES ASSUME Inv, [Next]_vars PROVE [RW!RWNext]_(RW!rwVars)
    OBVIOUS
  <1> USE DEF Inv, TypeOK
  <1> DEFINE R == [i \in Ids |-> SharedOwners(i)]
             W == [i \in Ids |-> ExclusiveOwners(i)]
  <1>1. ASSUME \A i \in Ids : /\ SharedOwners(i)' = SharedOwners(i)
                              /\ ExclusiveOwners(i)' = ExclusiveOwners(i)
        PROVE  UNCHANGED RW!rwVars
    BY <1>1 DEF RW!rwVars
  <1>2. CASE UNCHANGED vars
    BY <1>1, <1>2 DEF vars, SharedOwners, ExclusiveOwners
  <1>3. ASSUME NEW t \in Threads, NEW i \in Ids,
               AcquireSharedLock(t, i) \/ AcquireExclusiveLock(t, i)
        PROVE  UNCHANGED RW!rwVars
    <2>1. /\ pc[t] = "idle"
          /\ \E p \in {"wait_shared", "wait_exclusive"} : pc' = [pc EXCEPT ![t] = p]
          /\ id' = [id EXCEPT ![t] = i]
      BY <1>3 DEF AcquireSharedLock, AcquireExclusiveLock, CountIn
    <2> QED BY <2>1, <1>1 DEF SharedOwners, ExclusiveOwners
  <1>4. ASSUME NEW t \in Threads, BlockReaders(t)
        PROVE  UNCHANGED RW!rwVars
    BY <1>4, <1>1 DEF BlockReaders, SharedOwners, ExclusiveOwners
  <1>5. ASSUME NEW t \in Threads, LockShared(t)
        PROVE  RW!RWNext
    <2>0. PICK i \in Ids : i = id[t]
      OBVIOUS
    <2>1. /\ pc[t] = "wait_shared" /\ pc' = [pc EXCEPT ![t] = "shared"] /\ id' = id
          /\ ~heap[id_map[i]].exclusive /\ id_map[i] # NoRef
      BY <1>5, <2>0 DEF LockShared, ReferenceLive
    <2>2. ExclusiveOwners(i) = {}
      BY <2>1 DEF CountersExact
    <2>3. /\ t \notin SharedOwners(i)
          /\ R' = [R EXCEPT ![i] = @ \cup {t}]
          /\ W' = W
      BY ZenonT(60), <2>0, <2>1 DEF SharedOwners, ExclusiveOwners
    <2>4. RW!GrantShared(t, i)
      BY <2>2, <2>3 DEF RW!GrantShared
    <2> QED BY <2>4 DEF RW!RWNext
  <1>6. ASSUME NEW t \in Threads, LockExclusive(t)
        PROVE  RW!RWNext
    <2>0. PICK i \in Ids : i = id[t]
      OBVIOUS
    <2>1. /\ pc[t] = "wait_exclusive" /\ pc' = [pc EXCEPT ![t] = "exclusive"] /\ id' = id
          /\ ~heap[id_map[i]].exclusive /\ heap[id_map[i]].shared = 0
          /\ id_map[i] # NoRef
      BY <1>6, <2>0 DEF LockExclusive, ReferenceLive
    <2>2. Cardinality(SharedOwners(i)) = 0 /\ ExclusiveOwners(i) = {}
      BY <2>1 DEF CountersExact
    <2>3. SharedOwners(i) = {}
      <3>1. IsFiniteSet(SharedOwners(i))
        BY ThreadSetsFinite
      <3> QED BY <2>2, <3>1, CardinalityZero
    <2>4. /\ R' = R
          /\ ExclusiveOwners(i)' = ExclusiveOwners(i) \cup {t}
          /\ \A j \in Ids : j # i => ExclusiveOwners(j)' = ExclusiveOwners(j)
      BY <2>0, <2>1 DEF SharedOwners, ExclusiveOwners
    <2>5. W' = [W EXCEPT ![i] = {t}]
      BY <2>2, <2>4
    <2>6. RW!GrantExclusive(t, i)
      BY <2>2, <2>3, <2>4, <2>5 DEF RW!GrantExclusive
    <2> QED BY <2>6 DEF RW!RWNext
  <1>7. ASSUME NEW t \in Threads, ReleaseSharedLock(t)
        PROVE  RW!RWNext
    <2>0. PICK i \in Ids : i = id[t]
      OBVIOUS
    <2>1. pc[t] = "shared" /\ pc' = [pc EXCEPT ![t] = "idle"] /\ id' = id
      BY <1>7 DEF ReleaseSharedLock, CountOut
    <2>2. /\ t \in SharedOwners(i)
          /\ R' = [R EXCEPT ![i] = @ \ {t}]
          /\ W' = W
      BY ZenonT(60), <2>0, <2>1 DEF SharedOwners, ExclusiveOwners
    <2>3. RW!DropShared(t, i)
      BY <2>2 DEF RW!DropShared
    <2> QED BY <2>3 DEF RW!RWNext
  <1>8. ASSUME NEW t \in Threads, ReleaseExclusiveLock(t)
        PROVE  RW!RWNext
    <2>0. PICK i \in Ids : i = id[t]
      OBVIOUS
    <2>1. pc[t] = "exclusive" /\ pc' = [pc EXCEPT ![t] = "idle"] /\ id' = id
      BY <1>8 DEF ReleaseExclusiveLock, CountOut
    <2>2. /\ t \in ExclusiveOwners(i)
          /\ W' = [W EXCEPT ![i] = @ \ {t}]
          /\ R' = R
      BY <2>0, <2>1 DEF SharedOwners, ExclusiveOwners
    <2>3. RW!DropExclusive(t, i)
      BY <2>2 DEF RW!DropExclusive
    <2> QED BY <2>3 DEF RW!RWNext
  <1> QED BY <1>2, <1>3, <1>4, <1>5, <1>6, <1>7, <1>8 DEF Next

\* IDLocker implements one reader/writer lock per id, so that its callers may
\* be verified against RWLocks alone.
THEOREM Implementation == Spec => ImplementsRWLocks
  <1>1. Init => RW!RWInit
    BY DEF Init, RW!RWInit, SharedOwners, ExclusiveOwners
  <1> QED BY <1>1, Invariance, StepRefines, PTL DEF Spec, ImplementsRWLocks, RW!RWSpec

=============================================================================
