------------------------------- MODULE RWLocks -------------------------------
(***************************************************************************)
(* What gpl_util::IDLocker promises its callers: one reader/writer lock    *)
(* per id.  An id is held by any number of readers or by one writer.       *)
(*                                                                         *)
(* No lock state, counters or map is visible here.  IDLocker is shown to   *)
(* implement this module, and FileHandleCache takes its locks from it.     *)
(***************************************************************************)
EXTENDS FiniteSets

CONSTANTS Threads,   \* the threads that call the locker
          Ids        \* the ids that can be locked (file paths in SmbProxy)

VARIABLES readers,   \* readers[i]: the threads with a shared lock on i
          writers    \* writers[i]: the threads with an exclusive lock on i

rwVars == <<readers, writers>>

RWInit ==
  /\ readers = [i \in Ids |-> {}]
  /\ writers = [i \in Ids |-> {}]

\* AcquireSharedLock(id) returns in thread t.
GrantShared(t, i) ==
  /\ writers[i] = {}
  /\ t \notin readers[i]
  /\ readers' = [readers EXCEPT ![i] = @ \cup {t}]
  /\ UNCHANGED writers

\* AcquireExclusiveLock(id) returns in thread t.
GrantExclusive(t, i) ==
  /\ writers[i] = {}
  /\ readers[i] = {}
  /\ writers' = [writers EXCEPT ![i] = {t}]
  /\ UNCHANGED readers

\* ReleaseSharedLock(id) by a thread that holds it.
DropShared(t, i) ==
  /\ t \in readers[i]
  /\ readers' = [readers EXCEPT ![i] = @ \ {t}]
  /\ UNCHANGED writers

\* ReleaseExclusiveLock(id) by the thread that holds it.
DropExclusive(t, i) ==
  /\ t \in writers[i]
  /\ writers' = [writers EXCEPT ![i] = @ \ {t}]
  /\ UNCHANGED readers

RWNext ==
  \E t \in Threads, i \in Ids :
    \/ GrantShared(t, i)
    \/ GrantExclusive(t, i)
    \/ DropShared(t, i)
    \/ DropExclusive(t, i)

RWSpec == RWInit /\ [][RWNext]_rwVars

=============================================================================
