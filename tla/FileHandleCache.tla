--------------------------- MODULE FileHandleCache ---------------------------
(***************************************************************************)
(* The cache of restored files that are already open                       *)
(* (gpl_util/smb/ops/fetch_file_handle_op.cc): SmbProxy::file_handles_map_ *)
(* with one FileHandlesEntry per task, each an LRUCache from path to the   *)
(* outcome of opening it, and FetchFileHandleOp, which makes sure that a   *)
(* path is created by one thread only.                                     *)
(*                                                                         *)
(* The lock on a path is one of RWLocks, which IDLocker implements; the    *)
(* proxy takes exclusive locks only.  An entry of the cache is "ok",       *)
(* "error", or "stale": an error older than                                *)
(* smb_proxy_open_error_cache_duration_secs.                               *)
(***************************************************************************)
EXTENDS LRUCache, FiniteSets

CONSTANTS
  Threads, Tasks,
  Paths,        \* file_path_: the paths of temporary files
  Objects,      \* the FileHandlesEntry objects
  NoObject,
  AlarmInWindow \* may AlarmHandler run while GetFileHandlesEntry holds an
                \* iterator and no lock?

ASSUME FileHandleAssumption ==
  /\ Tasks # {} /\ Paths # {} /\ NoObject \notin Objects /\ AlarmInWindow \in BOOLEAN

VARIABLES
  file_handles_map,  \* the FileHandlesEntry of each task, or NoObject
  handles,           \* the contents of the FileHandlesEntry objects
  writers,           \* the exclusive locks of id_locker_
  files,             \* the paths that exist on the SMB server
  ops                \* the FetchFileHandleOp of each thread

fhVars == <<file_handles_map, handles, writers, files, ops>>

IdLocks == INSTANCE RWLocks WITH Ids <- Paths, readers <- [p \in Paths |-> {}]

NewHandles == [cache |-> <<>>, expired |-> FALSE]

\* pc: "find" has not got its FileHandlesEntry; "deref" has emplaced it and holds
\* the iterator; "done" has the result, and maybe the lock.
NoOp == [pc |-> "idle", task |-> CHOOSE k \in Tasks : TRUE,
         path |-> CHOOSE p \in Paths : TRUE, object |-> NoObject, result |-> "none"]

FHInit ==
  /\ file_handles_map = [k \in Tasks |-> NoObject]
  /\ handles = [o \in Objects |-> NewHandles]
  /\ writers = [p \in Paths |-> {}]
  /\ files = {}
  /\ ops = [t \in Threads |-> NoOp]

InMap == {o \in Objects : \E k \in Tasks : file_handles_map[k] = o}

FreeObjects == {o \in Objects \ InMap : \A t \in Threads : ops[t].object # o}

\* The objects whose last shared_ptr goes when the objects in S remain in use are
\* destroyed, and ~LRUCache clears their caches.
DestroyedBut(S) == [o \in Objects |-> IF o \in S THEN handles[o] ELSE NewHandles]

-----------------------------------------------------------------------------
\* GetFileHandlesEntry, under the shared lock: an entry that is there is used
\* and its access time set.
GetFileHandlesEntry(t, k, p) ==
  LET o == file_handles_map[k] IN
  /\ ops[t].pc = "idle"
  /\ ops' = [ops EXCEPT ![t] = [NoOp EXCEPT !.pc = IF o = NoObject THEN "find" ELSE "lookup",
                                            !.task = k, !.path = p, !.object = o]]
  /\ handles' = IF o = NoObject THEN handles ELSE [handles EXCEPT ![o].expired = FALSE]
  /\ UNCHANGED <<file_handles_map, writers, files>>

\* Under the exclusive lock: look again, create the entry if need be. Its
\* last_access_time_usecs is not initialized: it may look recent or not.
EmplaceEntry(t) ==
  LET k == ops[t].task IN
  /\ ops[t].pc = "find"
  /\ \/ /\ file_handles_map[k] # NoObject
        /\ ops' = [ops EXCEPT ![t].pc = "deref", ![t].object = file_handles_map[k]]
        /\ UNCHANGED <<file_handles_map, handles>>
     \/ /\ file_handles_map[k] = NoObject
        /\ \E o \in FreeObjects, garbage \in BOOLEAN :
             /\ file_handles_map' = [file_handles_map EXCEPT ![k] = o]
             /\ handles' = [handles EXCEPT ![o].expired = garbage]
             /\ ops' = [ops EXCEPT ![t].pc = "deref", ![t].object = o]
  /\ UNCHANGED <<writers, files>>

\* With the exclusive lock gone: it->second, and the access time.
DerefEntry(t) ==
  /\ ops[t].pc = "deref"
  /\ handles' = [handles EXCEPT ![ops[t].object].expired = FALSE]
  /\ ops' = [ops EXCEPT ![t].pc = "lookup"]
  /\ UNCHANGED <<file_handles_map, writers, files>>

\* LookupFileHandle (under the entry's mutex): a hit that is not a stale error
\* is the result of the op.
LookupFileHandle(t, miss) ==
  LET o == ops[t].object
      p == ops[t].path
      cache == handles[o].cache
      hit == p \in Keys(cache) /\ ValueOf(cache, p) # "stale"
  IN
  /\ handles' = [handles EXCEPT ![o].cache = Lookup(cache, p)]
  /\ ops' = [ops EXCEPT ![t].pc = IF hit THEN "done" ELSE miss,
                        ![t].result = IF ~hit THEN @
                                      ELSE IF ValueOf(cache, p) = "ok" THEN "cached"
                                      ELSE "error"]
  /\ UNCHANGED <<file_handles_map, files>>

\* FetchFileHandle: look, then lock the path.
FirstLookup(t) ==
  /\ ops[t].pc = "lookup"
  /\ LookupFileHandle(t, "lock")
  /\ UNCHANGED writers

AcquireLock(t) ==
  /\ ops[t].pc = "lock"
  /\ IdLocks!GrantExclusive(t, ops[t].path)
  /\ ops' = [ops EXCEPT ![t].pc = "relookup"]
  /\ UNCHANGED <<file_handles_map, handles, files>>

\* FetchFileHandleLocked: look again.
SecondLookup(t) ==
  /\ ops[t].pc = "relookup"
  /\ LookupFileHandle(t, "open")
  /\ UNCHANGED writers

\* CreateDirectoryHelper fails: the error is not cached.
CreateParentFails(t) ==
  /\ ops[t].pc = "open"
  /\ ops' = [ops EXCEPT ![t].pc = "done", ![t].result = "error"]
  /\ UNCHANGED <<file_handles_map, handles, writers, files>>

\* Mutant of OpenFile: a file that GetEntityMetadata failed on is taken to be missing.
OpenFileOrCreate(t) ==
  /\ ops[t].pc = "open"
  /\ \/ /\ ops[t].path \in files
        /\ ops' = [ops EXCEPT ![t].pc = "add", ![t].result = "ok"]
     \/ ops' = [ops EXCEPT ![t].pc = "create"]
  /\ UNCHANGED <<file_handles_map, handles, writers, files>>

\* The parent is there; GetEntityMetadata tells whether the file is.
OpenFile(t) ==
  /\ ops[t].pc = "open"
  /\ \/ /\ ops[t].path \in files
        /\ ops' = [ops EXCEPT ![t].pc = "add", ![t].result = "ok"]
     \/ /\ ops[t].path \notin files
        /\ ops' = [ops EXCEPT ![t].pc = "create"]
     \/ ops' = [ops EXCEPT ![t].pc = "add", ![t].result = "error"]
  /\ UNCHANGED <<file_handles_map, handles, writers, files>>

\* smbc_wrapper_create_object: a path that exists cannot be created.
CreateFile(t) ==
  /\ ops[t].pc = "create"
  /\ \/ /\ ops[t].path \notin files
        /\ files' = files \cup {ops[t].path}
        /\ ops' = [ops EXCEPT ![t].pc = "add", ![t].result = "ok"]
     \/ /\ ops' = [ops EXCEPT ![t].pc = "add", ![t].result = "error"]
        /\ UNCHANGED files
  /\ UNCHANGED <<file_handles_map, handles, writers>>

\* AddToLRUCache (under the entry's mutex).
AddToLRUCache(t) ==
  LET o == ops[t].object IN
  /\ ops[t].pc = "add"
  /\ handles' = [handles EXCEPT ![o].cache = Insert(@, ops[t].path, ops[t].result)]
  /\ ops' = [ops EXCEPT ![t].pc = "done"]
  /\ UNCHANGED <<file_handles_map, writers, files>>

\* The op is destroyed: lock_releaser_ releases the path, if it was locked.
FinishFetch(t) ==
  LET p == ops[t].path IN
  /\ ops[t].pc = "done"
  /\ IF t \in writers[p] THEN IdLocks!DropExclusive(t, p) ELSE UNCHANGED writers
  /\ ops' = [ops EXCEPT ![t] = NoOp]
  /\ handles' = DestroyedBut(InMap \cup {ops[u].object : u \in Threads \ {t}})
  /\ UNCHANGED <<file_handles_map, files>>

-----------------------------------------------------------------------------
\* AlarmHandler drops the entries whose access time is over an hour ago.
PurgeFileHandles ==
  /\ AlarmInWindow \/ \A t \in Threads : ops[t].pc # "deref"
  /\ file_handles_map' = [k \in Tasks |->
       LET o == file_handles_map[k]
       IN IF o # NoObject /\ handles[o].expired THEN NoObject ELSE o]
  /\ handles' = DestroyedBut({o \in InMap : ~handles[o].expired}
                             \cup {ops[t].object : t \in Threads})
  /\ UNCHANGED <<writers, files, ops>>

\* An hour passes without an access of the entry.
EntryExpires(o) ==
  /\ o \in InMap
  /\ handles' = [handles EXCEPT ![o].expired = TRUE]
  /\ UNCHANGED <<file_handles_map, writers, files, ops>>

\* IsErrorStale becomes true of an error.
ErrorGoesStale(o, i) ==
  /\ o \notin FreeObjects
  /\ handles[o].cache[i].value = "error"
  /\ handles' = [handles EXCEPT ![o].cache[i].value = "stale"]
  /\ UNCHANGED <<file_handles_map, writers, files, ops>>

FetchStep(t) ==
  \/ EmplaceEntry(t)
  \/ DerefEntry(t)
  \/ FirstLookup(t)
  \/ AcquireLock(t)
  \/ SecondLookup(t)
  \/ CreateParentFails(t)
  \/ OpenFile(t)
  \/ CreateFile(t)
  \/ AddToLRUCache(t)

CacheStep ==
  \/ PurgeFileHandles
  \/ \E o \in Objects : EntryExpires(o) \/ \E i \in DOMAIN handles[o].cache : ErrorGoesStale(o, i)

FHNext ==
  \/ \E t \in Threads : \/ \E k \in Tasks, p \in Paths : GetFileHandlesEntry(t, k, p)
                        \/ FetchStep(t)
                        \/ FinishFetch(t)
  \/ CacheStep

FHSpec == FHInit /\ [][FHNext]_fhVars

\* A thread in an op goes on; IDLocker's callers get their lock again and again.
FHFairness ==
  \A t \in Threads : /\ WF_fhVars(FetchStep(t) \/ FinishFetch(t))
                     /\ SF_fhVars(AcquireLock(t))

FHFairSpec == FHSpec /\ FHFairness

-----------------------------------------------------------------------------
EntryType == [key: Paths, value: {"ok", "error", "stale"}]
HandlesType == [cache: Seq(EntryType), expired: BOOLEAN]
FetchPcs == {"find", "deref", "lookup", "lock", "relookup", "open", "create", "add"}

\* The ops, when a thread may also be at other places and have other results.
OpType(pcs, results) ==
  [pc: FetchPcs \cup {"idle", "done"} \cup pcs, task: Tasks, path: Paths,
   object: Objects \cup {NoObject}, result: {"none", "ok", "cached", "error"} \cup results]

CacheTypeOK ==
  /\ file_handles_map \in [Tasks -> Objects \cup {NoObject}]
  /\ handles \in [Objects -> HandlesType]
  /\ writers \in [Paths -> SUBSET Threads]
  /\ files \subseteq Paths

FHTypeOK == CacheTypeOK /\ ops \in [Threads -> OpType({}, {})]

\* Nobody creates a file that is there: between GetEntityMetadata saying that it
\* is not and the create, in however many threads and tasks the same path is
\* fetched, it stays so.
NoCreateCollision ==
  \A t \in Threads : ops[t].pc = "create" => ops[t].path \notin files

\* A handle cached without error belongs to a file that was created, whichever
\* FileHandlesEntry object it sits in.
CachedMeansCreated ==
  \A o \in Objects \ FreeObjects : \A i \in DOMAIN handles[o].cache :
    handles[o].cache[i].value = "ok" => handles[o].cache[i].key \in files

\* The paths with a handle that is cached without error.
CachedOk == {p \in Paths : \E o \in Objects :
               [key |-> p, value |-> "ok"] \in ToSet(handles[o].cache)}

\* Why NoCreateCollision holds: whoever opens or creates a file has its lock.
FetchLocked ==
  /\ \A p \in Paths : \A t, u \in writers[p] : t = u
  /\ \A t \in Threads :
       /\ ops[t].pc \in FetchPcs \ {"find"} => ops[t].object \in Objects
       /\ ops[t].pc \in {"relookup", "open", "create", "add"} => t \in writers[ops[t].path]
       /\ ops[t].pc = "add" => ops[t].result \in {"ok", "error"}

\* Why CachedMeansCreated holds: what is about to be cached was created, too.
FetchedCreated ==
  /\ CachedOk \subseteq files
  /\ \A t \in Threads : ops[t].result \in {"ok", "cached"} => ops[t].path \in files

FetchInv == FetchLocked /\ NoCreateCollision /\ FetchedCreated

\* The DCHECK in AddToLRUCache: the path has no entry at all.
NothingToReplace ==
  \A t \in Threads :
    ops[t].pc = "add" => ops[t].path \notin Keys(handles[ops[t].object].cache)

\* The iterator that GetFileHandlesEntry dereferences after it gave the lock back
\* still points into file_handles_map_.
IteratorValid ==
  \A t \in Threads :
    ops[t].pc = "deref" => file_handles_map[ops[t].task] = ops[t].object

\* Every FetchFileHandleOp returns, however many wait for the same path.
FetchReturns == \A t \in Threads : ops[t].pc # "idle" ~> ops[t].pc = "idle"

=============================================================================
