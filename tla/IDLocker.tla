------------------------------ MODULE IDLocker -------------------------------
(***************************************************************************)
(* gpl_util/base/id_locker.{h,cc}: a locker that hands out reader/writer   *)
(* locks on ids.  An IDState is created when an id is first asked for and  *)
(* erased when its two counters are back to zero.                          *)
(*                                                                         *)
(* A call to Acquire*Lock is two steps: the section under the global       *)
(* mutex_ that finds or creates the IDState and counts the caller, and,    *)
(* after mutex_ is released, the blocking lock of the IDState's own mutex  *)
(* through the C++ reference taken in the first step.  A call to           *)
(* Release*Lock is one section under mutex_.                               *)
(*                                                                         *)
(* IDStates live at addresses (Refs) that are reused after an erase, so    *)
(* that a reference kept across an erase is visible as such.               *)
(***************************************************************************)
EXTENDS Integers, FiniteSets

CONSTANTS Threads,  \* the calling threads
          Ids,      \* the ids they lock
          Refs,     \* the addresses an IDState can be allocated at
          NoRef     \* the id is not a key of id_map_

ASSUME ThreadsAssumption == IsFiniteSet(Threads)

ASSUME RefsAssumption == NoRef \notin Refs

VARIABLES id_map,   \* id_map_: the address of the IDState of each id
          heap,     \* the IDState at each address
          pc,       \* where each thread is
          id,       \* the argument of each thread's Acquire/Release call
          ref       \* the reference 'id_state' each thread holds

vars == <<id_map, heap, pc, id, ref>>

\* IDState: two counters and a boost::shared_mutex, which is the number of its
\* shared owners, whether it has an exclusive owner, and whether a waiting
\* writer keeps new readers out ('exclusive_waiting_blocked').
NewIDState == [reader_count |-> 0, writer_count |-> 0,
               shared |-> 0, exclusive |-> FALSE, blocked |-> FALSE]

\* boost::shared_mutex: unlock_shared() of the last reader and unlock() let the
\* blocked readers in again.
UnlockShared(s) == [s EXCEPT !.shared = @ - 1,
                             !.blocked = IF s.shared = 1 THEN FALSE ELSE @]
Unlock(s) == [s EXCEPT !.exclusive = FALSE, !.blocked = FALSE]

PC == {"idle", "wait_shared", "wait_exclusive", "shared", "exclusive"}

Init ==
  /\ id_map = [i \in Ids |-> NoRef]
  /\ heap = [r \in Refs |-> NewIDState]
  /\ pc = [t \in Threads |-> "idle"]
  /\ id \in [Threads -> Ids]
  /\ ref = [t \in Threads |-> NoRef]

-----------------------------------------------------------------------------
\* id_map_[i]: the address of the entry, or any free one when the key is absent.
Subscript(i) ==
  IF id_map[i] # NoRef THEN {id_map[i]}
                       ELSE Refs \ {id_map[j] : j \in Ids}

\* The IDState that id_map_[i] yields, default-constructed when it is absent.
StateOf(i) == IF id_map[i] # NoRef THEN heap[id_map[i]] ELSE NewIDState

\* Mutants of Cleanup: the waiting writers, or the readers, are forgotten.
CleanupForgetsWriters(s, r) == IF s.reader_count = 0 THEN NoRef ELSE r
CleanupForgetsReaders(s, r) == IF s.writer_count = 0 THEN NoRef ELSE r

\* MaybeCleanupIDStateLocked, as the new value of id_map_[i].
Cleanup(s, r) ==
  IF s.reader_count = 0 /\ s.writer_count = 0 THEN NoRef ELSE r

\* Finds or creates the IDState of i, updates it to s, and leaves mutex_.
CountIn(t, i, s) ==
  \E r \in Subscript(i) :
    /\ id_map' = [id_map EXCEPT ![i] = r]
    /\ heap' = [heap EXCEPT ![r] = s]
    /\ ref' = [ref EXCEPT ![t] = r]
    /\ id' = [id EXCEPT ![t] = i]

\* Stores the updated IDState s of i and erases it if its counters are zero.
CountOut(t, i, s) ==
  \E r \in Subscript(i) :
    /\ id_map' = [id_map EXCEPT ![i] = Cleanup(s, r)]
    /\ heap' = [heap EXCEPT ![r] = s]
    /\ ref' = [ref EXCEPT ![t] = NoRef]
    /\ UNCHANGED id

AcquireSharedLock(t, i) ==
  /\ pc[t] = "idle"
  /\ CountIn(t, i, [StateOf(i) EXCEPT !.reader_count = @ + 1])
  /\ pc' = [pc EXCEPT ![t] = "wait_shared"]

\* id_state.mutex.lock_shared() returns.
LockShared(t) ==
  /\ pc[t] = "wait_shared"
  /\ ~heap[ref[t]].exclusive /\ ~heap[ref[t]].blocked
  /\ heap' = [heap EXCEPT ![ref[t]].shared = @ + 1]
  /\ pc' = [pc EXCEPT ![t] = "shared"]
  /\ UNCHANGED <<id_map, id, ref>>

ReleaseSharedLock(t) ==
  /\ pc[t] = "shared"
  /\ CountOut(t, id[t],
              [UnlockShared(StateOf(id[t])) EXCEPT !.reader_count = @ - 1])
  /\ pc' = [pc EXCEPT ![t] = "idle"]

AcquireExclusiveLock(t, i) ==
  /\ pc[t] = "idle"
  /\ CountIn(t, i, [StateOf(i) EXCEPT !.writer_count = @ + 1])
  /\ pc' = [pc EXCEPT ![t] = "wait_exclusive"]

\* id_state.mutex.lock() finds the mutex owned, and from then on keeps new
\* readers out.
BlockReaders(t) ==
  /\ pc[t] = "wait_exclusive"
  /\ heap[ref[t]].exclusive \/ heap[ref[t]].shared # 0
  /\ ~heap[ref[t]].blocked
  /\ heap' = [heap EXCEPT ![ref[t]].blocked = TRUE]
  /\ UNCHANGED <<id_map, pc, id, ref>>

\* id_state.mutex.lock() returns.
LockExclusive(t) ==
  /\ pc[t] = "wait_exclusive"
  /\ ~heap[ref[t]].exclusive
  /\ heap[ref[t]].shared = 0
  /\ heap' = [heap EXCEPT ![ref[t]].exclusive = TRUE]
  /\ pc' = [pc EXCEPT ![t] = "exclusive"]
  /\ UNCHANGED <<id_map, id, ref>>

\* Mutants of ReleaseExclusiveLock: the IDState is not cleaned up; its mutex
\* is not unlocked.
ReleaseExclusiveLockNoCleanup(t) ==
  /\ pc[t] = "exclusive"
  /\ heap' = [heap EXCEPT ![id_map[id[t]]].writer_count = @ - 1,
                          ![id_map[id[t]]].exclusive = FALSE]
  /\ ref' = [ref EXCEPT ![t] = NoRef]
  /\ pc' = [pc EXCEPT ![t] = "idle"]
  /\ UNCHANGED <<id_map, id>>

ReleaseExclusiveLockNoUnlock(t) ==
  /\ pc[t] = "exclusive"
  /\ CountOut(t, id[t], [StateOf(id[t]) EXCEPT !.writer_count = @ - 1])
  /\ pc' = [pc EXCEPT ![t] = "idle"]

ReleaseExclusiveLock(t) ==
  /\ pc[t] = "exclusive"
  /\ CountOut(t, id[t],
              [Unlock(StateOf(id[t])) EXCEPT !.writer_count = @ - 1])
  /\ pc' = [pc EXCEPT ![t] = "idle"]

Next ==
  \E t \in Threads :
    \/ \E i \in Ids : AcquireSharedLock(t, i) \/ AcquireExclusiveLock(t, i)
    \/ LockShared(t)
    \/ BlockReaders(t)
    \/ LockExclusive(t)
    \/ ReleaseSharedLock(t)
    \/ ReleaseExclusiveLock(t)

Spec == Init /\ [][Next]_vars

\* Holders release (a ScopedRunner does it in SmbProxy). boost::shared_mutex is
\* documented as fair, with priority to neither readers nor writers: a waiter
\* that could lock it again and again does so in the end.
Fairness ==
  \A t \in Threads :
    /\ WF_vars(ReleaseSharedLock(t) \/ ReleaseExclusiveLock(t))
    /\ WF_vars(BlockReaders(t))
    /\ SF_vars(LockShared(t))
    /\ SF_vars(LockExclusive(t))

FairSpec == Spec /\ Fairness

-----------------------------------------------------------------------------
\* The threads between the two steps of an acquire or holding the lock.
ReadersOf(i) == {t \in Threads : pc[t] \in {"wait_shared", "shared"} /\ id[t] = i}
WritersOf(i) == {t \in Threads : pc[t] \in {"wait_exclusive", "exclusive"} /\ id[t] = i}

SharedOwners(i) == {t \in Threads : pc[t] = "shared" /\ id[t] = i}
ExclusiveOwners(i) == {t \in Threads : pc[t] = "exclusive" /\ id[t] = i}

\* Types of the variables; the DCHECKs on the counters (they never go below
\* zero) are the Nat of reader_count and writer_count.
TypeOK ==
  /\ id_map \in [Ids -> Refs \cup {NoRef}]
  /\ heap \in [Refs -> [reader_count: Nat, writer_count: Nat, shared: Nat,
                        exclusive: BOOLEAN, blocked: BOOLEAN]]
  /\ pc \in [Threads -> PC]
  /\ id \in [Threads -> Ids]
  /\ ref \in [Threads -> Refs \cup {NoRef}]

\* A reader never shares an id with a writer, nor two writers an id, whatever
\* IDStates were erased and created again in between.
MutualExclusion ==
  \A i \in Ids :
    \A t \in ExclusiveOwners(i) :
      SharedOwners(i) = {} /\ ExclusiveOwners(i) = {t}

\* The reference a thread took under mutex_ and uses after releasing it still
\* designates the IDState that id_map_ has for its id: nobody erased it, or
\* erased and recreated it elsewhere, while the thread waited or held the lock.
ReferenceLive ==
  \A t \in Threads :
    pc[t] # "idle" => ref[t] # NoRef /\ id_map[id[t]] = ref[t]

\* An IDState exists exactly while a thread waits for or holds its lock: the
\* map never leaks an entry (the destructor complains about those).
NoLeakedState ==
  \A i \in Ids : id_map[i] # NoRef <=> ReadersOf(i) \cup WritersOf(i) # {}

\* Distinct ids have distinct IDStates.
MapInjective ==
  \A i, j \in Ids : id_map[i] # NoRef /\ id_map[i] = id_map[j] => i = j

\* The counters of an IDState are the numbers of threads that wait for or own
\* its mutex, and the mutex is owned by the threads that hold the lock.
CountersExact ==
  \A i \in Ids : id_map[i] # NoRef =>
    LET s == heap[id_map[i]] IN
      /\ s.reader_count = Cardinality(ReadersOf(i))
      /\ s.writer_count = Cardinality(WritersOf(i))
      /\ s.shared = Cardinality(SharedOwners(i))
      /\ s.exclusive <=> ExclusiveOwners(i) # {}

\* The inductive invariant of the proofs.
Inv ==
  /\ TypeOK
  /\ MapInjective
  /\ CountersExact
  /\ ReferenceLive
  /\ NoLeakedState
  /\ MutualExclusion

\* Who asks for a lock gets it.
AcquireReturns ==
  \A t \in Threads :
    pc[t] \in {"wait_shared", "wait_exclusive"} ~> pc[t] \in {"shared", "exclusive"}

\* The lock per id that callers see.
RW == INSTANCE RWLocks WITH readers <- [i \in Ids |-> SharedOwners(i)],
                            writers <- [i \in Ids |-> ExclusiveOwners(i)]

\* IDLocker implements one reader/writer lock per id.
ImplementsRWLocks == RW!RWSpec

=============================================================================
