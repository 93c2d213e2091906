# cohesity-smb-proxy in TLA+

TLA+ models of the SMB proxy: a gRPC server that backs up and restores files of
SMB shares through a wrapper around Samba (`smbc_wrapper`, not part of the
repository). The models follow the code, not its comments; where the two
disagree a run or a variant of a run shows the difference (see *Findings* and
*Further disagreements*).

## The system

Paths are relative to `src/gpl_util` unless they start with `apache_util`.

| Component | State | Operations | Hard because |
|---|---|---|---|
| `base/id_locker` | `id_map_`: per id two counters and a shared mutex | acquire/release, shared/exclusive | the id's state is used after the global mutex is released, and is erased when the counters are zero |
| `base/thread_pool` | queue, semaphore, workers, `stopped_` | `Init`, `QueueWork`, worker loop, `WaitAndCleanUp` | queue and semaphore change separately; termination |
| `base/lru_cache.h` | list and map | `Insert`, `Lookup`, `Remove`, `Clear` | eviction at the limit |
| connection pool (`smb/smb_proxy`) | `task_cache_map_`; per task active and inactive connections | `GetOrCreateSmbConnection`, `ReleaseSmbConnection`, `ShutdownSmbConnection`, `SmbProxyPurgeTask`, `AlarmHandler` | two levels of locks, no lock during use, time limits, cookies that come late or twice |
| handles of a connection (`smb/smb_proxy`) | `fh_lru_list`, `fh_lru_map` | `UpdateFileHandle`, `PurgeFileHandle` | a purge closes handles others use; handle numbers are reused; most of what moves or removes a file purges nothing |
| reads and writes (`smb/smb_proxy`) | progress of one call | `SmbProxyFetchFileData`, `SmbProxyWriteFileData` and their helpers | short transfers, retries, 32-bit sizes |
| open-file cache of restores (`smb/ops/fetch_file_handle_op`) | `file_handles_map_`: per task an LRU cache of outcomes | `FetchFileHandleOp`, purge by `AlarmHandler` | lookup without the lock, cached errors that expire |
| restore (`smb/ops/create_restore_files_op`, `write_files_data_op`, `finalize_restore_files_op`) | files on the server, the cache above | the three RPCs | many steps that fail or crash in between, retried by clients, run at the same time |
| `MkDirWithParents` (`smb/util`) | directories on the server | create with parents, clean up | concurrent calls for overlapping paths without a lock |
| `smb/ops/rename_entity_op`, `create_symlink_op` | retry counter, connection | one server call, for a symlink after a deletion if told to, retried with new connections | an answer is lost after the server did its part |
| `smb/ops/verify_share_op`, `apache_util/net` | addresses, last error | rounds over the addresses of a server | state kept from one address to the next; pooled connections |
| `smb/ops/delete_entity_op` | cookies of the directories | list, delete, recurse | listing while deleting, while others create; errors that are ignored |
| `grpclib/grpc_async_service` | contexts on a completion queue, a thread pool | `Proceed`, `StartServer`, `StopServer` | contexts change threads; shutdown while pollers run |
| self-monitoring (`base/util`, `smb/smb_proxy_exec`) | a parent and a child process | fork, status request, kill, wait; memory check | processes die at any time; a port that is still in use; 64-bit limits |
| `apache_util`: errors, scope guards, HTTP status page, resolver, protos | | | I/O and plain data |

A gRPC polling thread runs one RPC at a time. An RPC takes a connection of its
task out of the pool, uses it with no lock held, and gives it back. A directory
listing keeps its connection between calls; the client names it by a cookie.
`AlarmHandler` runs every so often in a thread of its own and closes what was
not used for some time, judging by last access. Restores go through the
open-file cache, which serialises threads on one path with the `IDLocker`.

What makes each part correct:
- *locks*: readers and writers exclude each other per id, no thread ever uses an
  erased state, and none is left behind;
- *pool*: one thread per connection; a connection in use is open; every open
  connection is used, pooled, or waiting for a client, and one left behind is
  closed in the end; a listing continues in its own directory;
- *handles*: a cached handle is open on the file its path means now, and a transfer
  goes to its own file;
- *transfers*: the bytes reported read or written are those of the file;
- *restore*: a committed file consists of all its new chunks and nothing else, no
  acknowledged chunk is lost, an existing file is only replaced when it may be;
- *directories*: racing calls succeed, and cleaning up removes only one's own;
- *deletion*: success means that the directory is gone, a deletion nobody disturbs
  succeeds, and every deletion ends;
- *thread pool*: a worker that is woken finds its work, all work is run, and cleaning
  up waits for it and ends;
- *gRPC service*: an event finds its context alive and in the right state, every
  method keeps listening, every RPC is answered, the destruction ends;
- *self-monitoring*: one child and one listener at a time, none without a parent,
  none killed that works, and the proxy serves again after every fault.

## Modules

| Module | Models | Composes |
|---|---|---|
| `RWLocks` | what `IDLocker` promises | |
| `IDLocker` | `base/id_locker.{h,cc}`; implements `RWLocks` | |
| `IDLockerProofs` | theorems about `IDLocker` | `IDLocker` |
| `ConnectionPool` | the connection pool and the RPCs that use it | |
| `ConnectionPoolProofs` | theorems about it | `ConnectionPool` |
| `ConnectionHandles` | the handles of a connection; whatever moves or removes a file, with a purge (the target of a rename, temporary files) or without; the retry loops of `RenameEntityOp` and `CreateSymlinkOp` | |
| `ConnectionHandlesProofs` | theorems about it | `ConnectionHandles` |
| `FileTransfer` | reading and writing in pieces | |
| `FileTransferProofs` | theorems about it | `FileTransfer` |
| `LRUCache` | `base/lru_cache.h` as operators, used by the two modules below | |
| `FileHandleCache` | the open-file cache and `FetchFileHandleOp` | `LRUCache`, `RWLocks` |
| `RestoreFiles` | the three restore RPCs in three modes, their client, crashes | `FileHandleCache` |
| `RestoreFilesProofs` | theorems about `LRUCache`, `FileHandleCache` and `RestoreFiles` | `RestoreFiles` |
| `MakeDirs` | `MkDirWithParents` | |
| `DeleteTree` | `DeleteEntityOp` of a directory, next to calls that create directories | `MakeDirs` |
| `DeleteTreeProofs` | theorems about `MakeDirs` and `DeleteTree` | `DeleteTree` |
| `ThreadPool` | `base/thread_pool.{h,cc}` | |
| `GrpcService` | `grpclib/grpc_async_service.{h,cc}`, with the gRPC runtime | `ThreadPool` |
| `GrpcServiceProofs` | theorems about `ThreadPool` and `GrpcService` | `GrpcService` |
| `SelfMonitor` | the monitoring parent, its children, the wait for the port, the memory check | |
| `SelfMonitorProofs` | theorems about it | `SelfMonitor` |
| `VerifyShare` | `VerifyShareOp` and `MaybeResolveIPv4` | |

`MC<module>` extends a module for TLC; the cfg files give the constants
(`FileHandles.cfg` and `ThreadPool.cfg` those of `FileHandleCache` and `ThreadPool`,
which need no such module). A
definition that is named after another one with something added
(`LookupNoSplice`) and called a mutant in its comment is a wrong version of
it; no specification uses it. `PROJECT.json` says which property it must break.

### How state and actions correspond to the code

- **IDLocker.** `id_map`, and a `heap` of `IDState` records at addresses, so that
  a reference kept after an erase would be seen. `Acquire*Lock` is two actions:
  under the global mutex (count in, take the address), then the lock of the id's
  own mutex. `boost::shared_mutex` is external: counts of owners and a flag by
  which a waiting writer keeps new readers out (`BlockReaders`).
- **ConnectionPool.** `task_cache_map`, `entries`, `conns` are the structures of
  the code; `threads` says where each RPC is, `cookies` what clients can still
  send. One action per critical section: `GetTaskEntry` under the map's lock;
  `FindByCookie`, `ReuseInactive`, `CreateConnection`, `CreateFails` under the
  task's; then the use, and `LookupForRelease`, `ReleaseSmbConnection` the same
  way. Times are ages in ticks. What clients may do is in constants: `Resend`
  (the same cookie again), `LongRpcs` (longer than the time limits),
  `PurgeBusy` (purging a task that is in use).
- **ConnectionHandles.** `fh_lru[c]` is list and map at once. `opened[c]` says of each handle
  number where the file now is on which the server has it open (`Gone` when it was
  deleted), as handles follow their file when it is renamed; `files` are the paths at which
  there is a file. `SmbPath` is `GetSmbPath`. A transfer is a step for the lookup, one for
  each try, and `UpdateFileHandle`; a try may open the handle which the next ones use, and
  one that is told that the file is not there or access is denied returns without
  `UpdateFileHandle`. `lost` (history) has the handles that nobody knows any more, because
  of that or because closing them failed. The wrapper is taken to leave the handle alone
  when a try fails. `PurgeFileHandle` is one step over all connections; only the target of
  a rename and a temporary file are purged, while the source of a rename, Finalize's
  rename, `DeleteEntityOp` (alone, or called by `SmbProxyCreateSymlink`) and the deletions of
  a restore's final path purge nothing. The server refuses to replace a file that is
  open. `ReplaceBusy` says whether clients replace a file while another RPC is on it,
  `CachedPaths` which files they transfer with `cache_handle`, `MovedPaths` which they rename
  away or remove. `RetryOp` is a call that fails with `kRetry` after the server may have
  done its part: the connection is shut down with its handles, and `Reconnect` takes
  another one. A file is opened under any number that is free: which one the server's
  library takes is not known here.
- **FileTransfer.** `file` is the file byte by byte, `call` the local variables of
  the call. Every try is a step that transfers 1 to all bytes of the piece or
  fails. Sizes are cast to `uint32` as in the code. The `size` of a write is that of its data,
  which the code does not check. A failing `DCHECK` does not stop the program (release build).
- **LRUCache, FileHandleCache.** Each `FileHandlesEntry` object holds an LRU list
  from path to `ok`, `error` or `stale`. `GetFileHandlesEntry` is a step for the
  emplace and one for the use of the iterator after the unlock. The path lock is
  taken from `RWLocks`.
- **RestoreFiles.** `data` (chunks that are whole in each temporary file), `origin` (who wrote
  what is in it, history) and `final` (the
  restored file) are the server, `client` is what the client was told, `mode` how each
  path is restored: `volume` (the temporary file is opened through the cache),
  `overwrite` (`overwrite_existing_tmp`) or `uptier` (`nas_uptier_task`, where the
  file takes the place of a symlink). Every server call is a step that may fail. A write may
  leave a part of its chunk and may not be answered; it is one step, as pieces of different
  chunks do each other no harm, and clients start over or give a file up only with no RPC
  under way for it, so that no write comes later. A symlink is a regular file for
  `GetEntityMetadata` (`util.cc:229-231`).
  `CrashProxy` loses the memory of the proxy and keeps the server. Files are regular,
  not empty and no hard links, and `header.root_dir` is empty.
- **MakeDirs.** Every call to the server is a step; `newly_created_dirs` is the
  code's. `before`, `failed` and `own` are history.
- **DeleteTree.** `ops[e].frames` is the stack of `DeleteDir`; `seen` and `cookie` are the
  position of the listing. `ListChildren` gives any part of what was not listed yet,
  leaves out children with errors, and may fail as a whole, which the code does not
  notice. `disturbed` (others changed the tree) and `leftover` (listings left open)
  are history.
- **ThreadPool.** Queue and semaphore are separate variables changed in separate
  steps; `outstanding` is history.
- **GrpcService.** `ctxs` are the `RpcContext`s with `status_` and `lock_`, `events` what
  `cq_->Next` will return, `polls[w]` where a worker is in the polling function. A
  `Proceed` is a step for taking the lock, one for each call to the runtime or
  the handler, and one for the stores at its end, because the runtime may deliver the
  event in between. The main thread's steps are those of `StartServer`, `StopServer` and
  the destructors in their order.
- **SelfMonitor.** `procs` are the children with the state that `waitpid` will report,
  `parent` is the loop of `StartSelfMonitoring`. A tick is a second; processes that can
  go on do so before it. The status request takes no time: its deadline is longer
  than the sleep, but a child that is hung, stopped or not there does not answer within it.
  `GetResidentMemoryLimit` converts between unsigned and signed numbers of
  `LimitWidth` bits.
- **VerifyShare.** The local variables of `Start`; `Works` says what may come of a call
  to an address, `Pooled` which connections the task has in its pool.

## Runs

Passing runs; each property is explained where it is defined.

| Run | Shows |
|---|---|
| `id_locker` | 3 threads, 2 ids, 3 addresses: exclusion, no dangling reference, nothing left in the map, every acquire returns, refinement of `RWLocks` |
| `pool_clients` | 2 threads, 3 connections, listings, reads, purges of idle tasks, alarms at any time; clients that neither resend nor take too long: one thread per connection, open while used, none leaked, listings stay in their directory |
| `pool_leftovers` | one thread, cookies that come late or twice, abandoned listings, `SmbProxyCreateEntity`; fairness: whatever is left behind is closed eventually, also in `active_connection_map` |
| `restore` | a file of 3 chunks, 3 threads, each of the three modes, failures, writes that stop half way or are not answered, crashes, clients that start over: one thread creates the temporary file, which is there after a Create; committed files are whole (in the volume and overwrite modes), acknowledged chunks stay, nothing of earlier attempts is in the new file, an old file is kept until it may go |
| `delete_tree` | a thread deletes a tree of 4 directories and 2 files (one read-only) in pages of 2, another creates directories in it: deletions succeed, mean what they say and return; racing creators do no harm, and a failing one removes nothing that was there before it |
| `grpc_service` | 2 polling threads, 1 method, 2 RPCs, clients that leave, destruction at any time after the threads have registered: events meet the right state, no deleted context is used by a polling thread, methods keep listening, RPCs are answered, the destruction ends with no one at the queue |
| `self_monitor` | up to 4 faults: one child, one listener, no orphan, no healthy child killed, the proxy serves again |
| `transfer` | bytes are right after short transfers and retries, for sizes that a `uint32` can say |
| `handles` | 2 threads, 2 connections, 3 files of which 2 are transferred with cached handles and one is renamed away and removed; transfers with a second try, renames, finalizes, deletions, symlinks and restores that do not replace a file in the middle of a transfer, on connections that break and whose closes fail: cached handles are valid, transfers go to their own file, no handle is forgotten but by an early return or a failed close, and a rename finds its target purged |

The type invariants of all modules, and some properties that follow from others or say
less, are not part of the runs but hold on the same instances: put them into the cfg
to check them. The same goes for the inductive invariants of the proofs (`PoolInv` and
`AllAccountedFor` with `PoolClients.cfg`, `MonitorInv` and `ServesInTime` with
`SelfMonitor.cfg`, `ThreadsInv` and `ItemsOnce` with `ThreadPool.cfg`, `GrpcInv` and `ListensInv`
with `GrpcService.cfg`, `CreatesMissing`, `MakeInv` and `DeleteInv` with `DeleteTree.cfg`,
`FetchInv` with `FileHandles.cfg`, `RestoreInv` with `Restore.cfg` and `RestoreCache.cfg`, `HandlesInv` with
`Handles.cfg`, `TransferInv` with `Transfer.cfg`), for `CallReturns` and `OnlyRangeWritten` with `Transfer.cfg`,
and three configurations of their own: `FileHandles.cfg` (module `FileHandleCache`:
nothing is cached that was not created, and every op returns), `RestoreCache.cfg` (module
`MCRestoreFiles`: two files in any modes, so that the LRU cache evicts entries in the middle of restores:
`NoCreateCollision`, `CreatedHasTmpFile`) and `ThreadPool.cfg`
(module `ThreadPool`: two cleaners; all work is run, and the clean-up waits and returns).

### Findings

Three runs are expected to fail. They show behaviour of the code that contradicts
what the repository says; `PROJECT.json` quotes the lines.

| Run | What happens |
|---|---|
| `restore_error` | a Create that failed is skipped when retried |
| `uptier_retry` | a Finalize that failed to replace the symlink deletes the temporary file; retried, it takes the symlink for the restored file and succeeds |
| `verify_share` | after one address has failed, no other is accepted, and the retries are in vain |

### Further disagreements

Each of the following is a variant of a run: take its cfg, change the constant,
check the property alone, and TLC ends with the counterexample described. Most
constants grant clients or the scheduler a freedom that the passing run withholds;
where no constant is named the property is about something the passing run's
properties do not ask.

| Configuration, constant | Property | What happens |
|---|---|---|
| `PoolClients.cfg`, `Resend = TRUE` | `OneThreadPerConnection` | a cookie that is sent again, after a timeout say, puts two threads on a connection, which "should only be held and used by one thread at the same time" (`smb_proxy.h:212-214`) |
| `PoolClients.cfg`, `Resend = TRUE` | `ResumesOwnDirectory` | a late cookie continues a listing of another directory |
| `PoolClients.cfg`, `LongRpcs = TRUE` | `UsedIsOpen` | `AlarmHandler` shuts down a connection that a long RPC uses |
| `PoolClients.cfg`, `PurgeBusy = TRUE` | `NoLeakedConnection` | the connections of a task whose purge was refused, or came before its RPC had one, are leaked |
| `PoolClients.cfg`, `PurgeBusy = TRUE` | `RefusedPurgeKeepsTask` | a purge that is refused because a connection is in use has taken the task out of the task cache all the same |
| `PoolClients.cfg`, `PurgeBusy = TRUE` | `ReleaseFindsConnection` | a task is purged while an RPC of it runs and the next RPC makes a new entry: the first one releases its connection into an entry that does not have it, and reaches the `DLOG(FATAL)` of `smb_proxy.cc:1161` |
| `PoolLeftovers.cfg` | `ActiveMeansUsed` | `SmbProxyCreateEntity` never releases its connection |
| `FileHandles.cfg` | `NothingToReplace` | an expired error is still in the cache when the handle is added (fails a `DCHECK`) |
| `FileHandles.cfg`, `AlarmInWindow = TRUE` | `IteratorValid` | the entry's iterator is used without the lock while `AlarmHandler` erases |
| `RestoreCache.cfg`, `Restarts = {"volume"}` | `CreatedHasTmpFile` | a restore repeated under the same task trusts the cache and creates nothing |
| `RestoreUptier.cfg`, `StatFails = TRUE` | `SymlinkReplaced` | a Finalize that cannot read the symlink returns the result of its search for the temporary file, which is no error |
| `Restore.cfg`, `Resend = TRUE` | `RestoredComplete` | a Create that still runs deletes the committed file |
| `DeleteTree.cfg` | `CleansUpOwn` | a failed call removes a directory another call created |
| `DeleteTree.cfg`, `RootDir = TRUE` | `DeleteSucceeds` | `DeleteDir` lists `root_dir` + `root_dir` + path, sees nothing, and cannot delete the directory |
| `DeleteTree.cfg` | `ClosesListings` | an error leaves a listing open for `AlarmHandler` to close |
| `ThreadPool.cfg` | `EveryCleanUpWaits` | a second `WaitAndCleanUp` does not wait |
| `Transfer.cfg` | `WritesWholePieces` | a short write is returned without an error |
| `Transfer.cfg`, `Sizes = {1, 9}` | `FetchedIsFile` | a read of more than 2^32 bytes returns the size modulo 2^32 |
| `Transfer.cfg`, `FileLen = 10`, `Sizes = {1, 9}` | `WrittenIsFile` | of a write of more than 2^32 bytes the size modulo 2^32 is written, none when a stubbed file has that many |
| `Handles.cfg`, one more path `p1` whose `SmbPath` is `s1`, `ClientPaths = {p1, s2, s3}`, `CachedPaths = {p1, s2}` | `CachedHandleValid`, `TransfersOwnFile` | a temporary file is purged under another form of its path, and the handle of the deleted file stays cached |
| `Handles.cfg`, `CachedPaths = {s1, s2}`, `MovedPaths = {s1, s3}` | `RenamePurged` | a handle cached under the source of a rename is open on the target afterwards, and the next rename to the target does not purge it |
| the same, `Rpcs = {"transfer", "remove"}` | `TransfersOwnFile` | a transfer uses the handle of a file that was deleted and created again, since deletions purge nothing, although `smb_proxy.h:381-384` says that it should be purged |
| `Handles.cfg`, `ReplaceBusy = TRUE` | `CachedHandleValid`, `TransfersOwnFile`, `RenamePurged` | a purge in the middle of a transfer closes its handle, or comes before the handle is cached |
| `GrpcService.cfg` | `DrainSparesUsed` | `StopServer`'s drain deletes a context that a polling thread is still leaving |
| `GrpcService.cfg`, `Workers = {w1}`, `Items = {i1}` | `StopReturns` | every polling thread ends on a failed event while `server_->Shutdown()` still waits for an RPC that none of them takes |
| `SelfMonitor.cfg`, `KillAnytime = TRUE` | `NoOrphan` | a parent killed between `fork` and its child's `prctl` leaves the child alone |
| `SelfMonitor.cfg`, `RlimCur = 7`, `Allowance = 0` | `CrashedOverLimit` | an unlimited `RLIMIT_RSS` becomes -1 as an `int64` (`util.cc:152`), and the memory check (`util.cc:176`) ends a process within its limit |
| `VerifyShare.cfg`, `Pooled <- OnePooled` | `WorkingIpWorks` | an address is reported that was never connected to: the pool gave a connection to another one |

`RefusedPurgeKeepsTask`, `CleansUpOwn` and `WritesWholePieces` are action properties and `StopReturns` is a
liveness property (PROPERTY, not INVARIANT, in the cfg). The program destroys its
`GrpcAsyncService` at no time, so the two about `StopServer` concern other users of the class.

Read in the code and not modelled: `MaybeResolveIPv4` takes only the first address of every
answer, so that it finds all of them only if the resolver rotates; a finalize that is
retried for a hard link fails with `kAlreadyExists`
(`finalize_restore_files_op.cc:195-206`).

### Bounds

Threads and connections: the races are between two, and three connections let
one be in use, one pooled and one kept by a listing; three threads where a
reader, a waiting writer and a releasing thread meet (`IDLocker`). The cache of a restore
loses its entries when a task's expires; in `RestoreCache.cfg` it holds one entry for two
paths, so that evictions happen all the time. A connection has two handle numbers, one for
the cached handle and one for the next, so that numbers are given out again at once. Ages go to 2 ticks because the
code compares with two limits; `MaxFetched` 1 or 2 distinguishes a matching
counter from another one. Two chunks distinguish a whole file from a part, and three let two Creates of a
file run while a third one's chunk is written.
Pieces of 2 bytes in ranges of 3 give a full and a rest piece; `Uint32` = 8 stands
for 2^32.  `MaxRetries` 1 allows
one lost answer and one that ends the op. Two polling threads let a context change
threads, and two RPCs let one arrive while the other is answered. With a second method
(`NumMethods = 2`, `MaxRpcs = 1`, `StopEarly = TRUE`) the invariants hold as well, in 2.5
million states. Pages of 2 for up to 4 entries give a full page, a rest and a
listing that has not begun; one deleter is enough because another one is, to it,
like a thread that cleans up. Four faults allow the parent and two children to
die in a row; the child tries to get the port as often (3) as the sleep has seconds,
as with the flags' defaults of 10 and 10, and a start (2) is shorter than the sleep.
Limits of 3 bits have both signs.
Three addresses: one that fails, one that may, one that works. Symmetry is over
threads, connections, objects, chunks and the files of a restore, none of which
an action or the set of modes tells apart, and only in runs without liveness properties.

Deadlock is not checked where the system may end: restores in which every
client is done and no restart is allowed, deletions that have returned, the thread pool
and the gRPC service after their clean-up, `VerifyShareOp` after its return, and the
monitor when the faults are used up.

### Fairness

Weak fairness of the steps of each thread: the operating system schedules them
and calls to the server have timeouts. `Tick` and `AlarmHandler` are fair because
time passes and the alarm is periodic. Locks need strong fairness for the waiting
step (`LockShared`, `LockExclusive`, `AcquireLock`): a lock that is free again and
again is granted at some point; holders are assumed to release, which in the proxy
they do at the end of an RPC. In `ThreadPool` work items are assumed to return.
In `GrpcService` the polling threads, the main thread (but not its decision to stop) and
the gRPC runtime go on; clients need not send anything. In `SelfMonitor` the parent,
the children and time go on; no fault has to happen, and nobody has to continue a
stopped process, which `ServesAgain` allows for. In `DeleteTree` only the deleting
thread is fair: `DeleteReturns` needs no help from the others.

## Proofs

The theorems hold for every value of the constants that satisfies the `ASSUME`s of the
models and the hypotheses of the theorem. In each module an inductive invariant is
proved first, one lemma per action, and the properties follow from it. Where a
hypothesis restricts the clients, *Further disagreements* shows what the code
does without it: the hypotheses are the ones the properties need.

| Module | Proved | For |
|---|---|---|
| `IDLockerProofs` | `TypeOK`, `MutualExclusion`, `ReferenceLive`, `NoLeakedState`, refinement of `RWLocks` | any finite set of threads, any ids and addresses |
| `ConnectionPoolProofs` | `TypeOK`; `OneThreadPerConnection`, `UsedIsOpen`, `ResumesOwnDirectory`; `NoLeakedConnection` | `TypeOK`: all clients; the others: `CarefulClients` (`Resend`, `LongRpcs` and `PurgeBusy` are false); the last one: no `SmbProxyCreateEntity` |
| `ConnectionHandlesProofs` | `TypeOK`; `CachedHandleValid`, `TransfersOwnFile`, `NoLeakedHandle`, `RenamePurged` | `TypeOK`: all clients; the others: `CarefulClients` (paths in the form the server has them, no file replaced while another RPC is on it, no file transferred with `cache_handle` that may be renamed away or removed), any lost connections and answers, retries, early returns and failed closes |
| `FileTransferProofs` | `TypeOK`, `OnlyRangeWritten`; `FetchedIsFile`, `WrittenIsFile` | any file, ranges, size of the pieces, number of retries, short transfers and errors; the last two: sizes that fit in a `uint32` (`SizesFit`: the service takes messages of 20 MB at most, which limits writes but not reads) |
| `GrpcServiceProofs`, of the pool | `TypeOK`, `WorkIsThere`, `CleanUpWaits`, `ItemsOnce` | any finite sets of workers and of callers of `WaitAndCleanUp` |
| `GrpcServiceProofs`, of the service | `GrpcTypeOK`, `EveryMethodListens`, `EventMeetsStatus`, `NoUseAfterDelete`, `QueueOutlivesPollers`; the service uses its pool as `ThreadPool` says (`PoolRefined`), so that `WorkIsThere` holds in it too | any number of threads, methods and RPCs, also when the service is destroyed before all threads registered (`StopEarly`) |
| `DeleteTreeProofs` | `TreeTypeOK`, `ExistingKept`, `MakeRaceIsHarmless`, `OkMeansGone`; `DeleteSucceeds` | any threads, deleters, directories, files, sizes of pages and errors; the last one: no `root_dir` (`~RootDir`) |
| `SelfMonitorProofs` | `TypeOK`; `OneChild`, `OneListener`, `NoOrphan`; `ServesInTime`, `HealthyNotKilled` | `TypeOK`: always; the others: a parent that is not killed between `fork` and `prctl` (`~KillAnytime`); the last two: a start is shorter than the parent's sleep (`StartsInTime`) |
| `RestoreFilesProofs` | of `FHSpec`: `FHTypeOK`, `NoCreateCollision`, `CachedMeansCreated`; of restores: `TypeOK`, `NoCreateCollision`, `RestoredComplete`, `WrittenKept`, `CreatedHasTmpFile`, `OverwriteClears`, `OnlyNewData`, `OldFileKept` | of `FHSpec`: all callers; of restores: `CarefulClients` (no Create sent again while it runs, no volume restore repeated under its task, the symlink of an uptier task there at the beginning), any failures, partial and unanswered writes, evictions and crashes |

### The invariants and why they are needed

**IDLocker.** `MutualExclusion` alone is not inductive: whether the clean-up may erase a
state depends on the counters, and these must be known to count exactly the threads
between acquire and release. `Inv` therefore adds `CountersExact` (the
counters are the cardinalities of the sets of threads that wait or hold, and the
mutex's counts those of the holders) and `MapInjective` (no two ids share a
state, so that counting in one does not disturb another). The lemmas that count use that
adding or removing a thread changes a cardinality by one. `StepRefines` maps each action
to a step of `RWLocks` or a stutter.

**ConnectionPool.** That a thread is alone on its connection cannot be seen from the
threads: the next one may get it from a list, from a cookie, or as a new one. `PoolInv`
says for each connection where it is and who may take it: an entry belongs to one task or
one purge (`EntriesOwned`); a task with RPCs keeps its entry, as its access time is recent
(`BusyStays`); a connection is in at most one entry, and there either active or
inactive (`ConnsPlaced`); what a thread has is active and open (`HeldIsActive`); a
connection that a thread has, or its client's cookie names, is claimed by no one else
(`ClaimsExclusive`); a cookie, and a thread that comes with one, is for the directory
its connection is reading (`ListingsKept`). `NoLeakedConnection` needs the converse
as well, that each active connection has a claim (`AllAccountedFor`). Most actions
move one connection of one thread: `OneConnectionStep` says once what such a step has to
respect. `RemoveAtProperties` and `WithoutProperties` are about the inactive list.

**ConnectionHandles.** A handle is a number that is given out again after it was closed, and
it follows its file, so a list of handles says nothing unless it is known what every open
number stands for. `HandlesInv` says that a list has each path and each number once (`Sound`),
that what is open is open on a file that is transferred with `cache_handle` (`OpenIsFile`), that
a cached number is on its path's file (`CachedHandleValid`), is not lost, and is gone
from every list before its file is replaced (`CachedIsOpen`), that lost numbers are
open, so that they are not given out again (`LostIsOpen`), and that the handle of a transfer
is the one cached for its path, or a new one (`OwnHandle`). A purge then closes only handles
that no RPC has, because the RPCs on one file are transfers or a single other one
(`OpsAlone`). That files which are renamed away have no handles is what `CachedPaths` and
`MovedPaths` are kept apart for: *Further disagreements* shows the code without it. Most steps leave lists, handles and files alone: one lemma says what
they may do to the RPCs.

**FileTransfer.** The properties are about a call that has returned; `TransferInv` says what
holds between two tries. A try that was cut short leaves bytes in the buffer that do not
count, and these are the bytes of the file that the next try reads again, so that the buffer
is always a beginning of the range (`BufferIsFile`). In a write the bytes that count
are in the file, and those beyond the last piece are there from the beginning, as a stubbed
file has zeros where its trailing zeros are left out (`WrittenSoFar`). That a call which
returns without error has nothing left to do (`Running`) gives the properties.
`ReplaceIs` is about `std::string::replace`, `StubbedSizeIs` about the trailing zeros.

**ThreadPool.** `WorkIsThere` counts: `Balance` says that the queue is as long as the
semaphore is high, plus the workers that passed it and have taken nothing yet, plus
the posts still to come. For the clean-up the null work items must come last in the queue
(`PillsLast`), work that is outstanding is queued or being run (`ItemsKept`), and only one
call cleans up (`OneCleanUp`). That no item is run twice is `ItemsOnce`, inductive by itself.

**GrpcService.** The completion queue can be faster than the thread that started
the operation, which has yet to store the new `status_`. `ContextInv` says of each
context which operation or event it has, one at most, who has its lock, and which status
goes with it, before and after the pending store; `ServiceInv` how far the set-up or the
destruction has come and what exists then; `DownInv` that `cq_` shuts down only with no RPC
in progress, and the pool only with nothing left in `cq_`. Together with
`ThreadsInv` of the pool they are inductive, and every step is shown to be a step of
`ThreadPool` or a stutter.

`EveryMethodListens` is an equation between the number of contexts that listen to a method
and that of the threads that registered it. In between, a request takes a context, and the
thread that gets the event puts a new one in its place. A context counts as listening until
it is replaced (`Taken`, `Listens`). `ListensInv` adds that no request fails before the
server goes down. From `GrpcInv` it is known that a taken context is in the queue or with one
thread, and from `ItemsOnce` that a thread is counted once, among those that registered or
with the item that is done. One lemma per action says by how much the two sides change.

**MakeDirs.** A clean-up must not remove what was there before the call, which is long ago
when it runs: `CreatesMissing` says of every moment that what has been there since the call
began is still there, and is neither on the list of directories to make nor on the
one to remove. For `MakeRaceIsHarmless`, `PathToMake` says that the list to make is a path
whose topmost directory has its parent on the server, so that a creation fails only
when the directory has appeared meanwhile, which the check then sees. It needs that nobody
removes directories, hence the deleters without an op in `MakeInv`: while no call fails none
cleans up either.

**DeleteTree.** `DeleteInv` says what an op knows that nobody disturbs (`OpKnows`): in every
frame of the recursion, `todo` is exactly what was listed and is still there, and after
the last page everything was listed (`FrameKnows`); each frame is for a child of the one
below it. So when the loop ends the directory is empty, and the server has no reason to
refuse. A deletion changes what one frame knows and must leave the others alone: their
directories are different, because a path never comes back to itself (`FramesApart`). This
is where `DirsAssumption` is used that no directory is below itself. `OkMeansGone` needs none
of this: it holds also for ops that are disturbed, because an op can only report success in
the step that removes its directory (`OkStep`).

**SelfMonitor.** `Charge` says that every live child but the one the parent waits for has
been sent a `SIGKILL`, `DiesWithParent` that a child past its first step gets one when the
parent dies, `ReportedDead` that only the dead are reported, `BindsAlone` and
`ListensAlone` that the port a child found free is free until it listens. For `HealthyNotKilled` time matters: `ServesInTime`
compares the seconds a child still needs with those the parent still sleeps.

**FileHandleCache and RestoreFiles.** In `FetchInv` the lock of the path is held
wherever the code creates, opens or caches (`FetchLocked`), so the file that a thread is
about to create is not there (`NoCreateCollision`), and entries without error,
also in objects that a thread still refers to after `AlarmHandler` dropped them, are of
files that were created. In a restore the files also go away, so `RestoreInv` says per
file how its RPCs take turns: while a Create runs the client has not been told that
all is created, so nothing is being finalized (`CreatesInTurn`); a
finalize is the only one for its file (`FinalizesAlone`); in a volume restore the temporary
file once made (`Made`) stays until the rename, so what the cache says remains true;
what the server has follows from what the client was told (`ServerHas`), and each op
has done what its place in the code says (`OpAchieves`). A rename then only happens with
all chunks written. `CacheOps` has what the proofs need of `lru_cache.h`: entries are
only reordered or dropped but for the new one, and a value found is that of an entry.

### Only model-checked

Liveness under fairness and `ENABLED` are beyond the prover, and so is what a
recursive definition computes for all inputs. So `AcquireReturns`, `LeftoversPurged`,
`RpcAnswered`, `ShutdownEnds`, `DeleteReturns` and `ServesAgain` are only model-checked.
Every invariant and every action property of the passing runs is proved. `VerifyShare`
has no theorem: its run is expected to fail.

## Assumptions and what is not modelled

- `smbc_wrapper` is external: it does or fails what it is asked, may transfer less
  data than asked, and gives closed handle numbers out again.
- Two connections of a task never have the same `creation_time_usecs`.
- Restores of hard links, directories, symlinks and empty files: the first depend on
  temporary paths that only the client, which is not in the repository, determines; the
  others are created by one call with nothing to interleave. Restores with a `root_dir`.
- The deletion of a single entity that is neither a directory nor in one: one call.
- A connection that becomes unusable in the middle of a restore.
- Metadata of files, ACLs, error texts, flags, HTTP pages, logging.
- Allocation failures, but for the memory context of a read; how resident memory is read.

## Plan

1. *Done*: locks, pool, handles with the reconnecting operations, transfers, open-file
   cache, restores in three modes, directories and their deletion, thread pool, gRPC
   service, self-monitoring, share verification; the proofs above.
2. *Next in the models*: `root_dir` and hard links in `RestoreFiles`; restores on a connection
   that becomes unusable; a clock that repeats values and the two levels of locks in
   `ConnectionPool`.
3. *Next theorems*: what the models gain. Every safety property of the runs has one.
