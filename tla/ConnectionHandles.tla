-------------------------- MODULE ConnectionHandles --------------------------
(***************************************************************************)
(* The open file handles that each SMB connection keeps                    *)
(* (SmbConnection::fh_lru_list and fh_lru_map, gpl_util/smb/smb_proxy.cc): *)
(* transfers with cache_handle, which find and add them, UpdateFileHandle, *)
(* which closes the oldest, PurgeFileHandle, which RenameEntityOp calls    *)
(* for the file it replaces and CreateRestoreFilesOp for the temporary     *)
(* file it deleted; and every operation that moves or removes a file       *)
(* without a purge: the source of a rename, the rename of Finalize,        *)
(* DeleteEntityOp, and the deletions of a restore's final path.            *)
(*                                                                         *)
(* A handle is cached under the path the client sent; the server knows the *)
(* file by SmbPath of it.  A handle of a connection is a small number, and *)
(* a number that was closed is given out again.  A handle stays on its     *)
(* file when the file is renamed, so the model keeps for each handle the   *)
(* path at which its file is now, or Gone.                                 *)
(***************************************************************************)
EXTENDS Integers, SequencesExt

CONSTANTS
  Threads, Conns,
  Paths,        \* paths as clients and the proxy write them
  ClientPaths,  \* those that clients send
  CachedPaths,  \* those that clients transfer with cache_handle
  MovedPaths,   \* those that clients rename away or remove
  SmbPath,      \* GetSmbPath
  MaxHandles,   \* smb_proxy_max_fh_cache_size
  MaxOpen,      \* bound on the handles that a connection has open
  MaxRetries,   \* smb_proxy_file_max_write_retries, ..._read_retries
  Rpcs,         \* the kinds of RPC the clients send
  ReplaceBusy,  \* may a client replace a file while another RPC is on it?
  NoPath, NoConn, Gone

ASSUME HandlesAssumption ==
  /\ ClientPaths \subseteq Paths /\ SmbPath \in [Paths -> Paths]
  /\ CachedPaths \subseteq ClientPaths /\ MovedPaths \subseteq ClientPaths
  /\ NoPath \notin Paths /\ Gone \notin Paths /\ Gone # NoPath /\ NoConn \notin Conns
  /\ MaxHandles \in Nat \ {0} /\ MaxOpen \in Nat
  /\ MaxRetries \in Nat
  /\ Rpcs \subseteq {"transfer", "rename", "finalize", "remove", "symlink", "restore"}
  /\ ReplaceBusy \in BOOLEAN

VARIABLES
  fh_lru,   \* the cached handles of each connection, the oldest first
  opened,   \* where the file is now that each handle of a connection is open on
  lost,     \* the open handles that the proxy has forgotten
  files,    \* the SMB paths at which there is a file
  ops       \* the RPC of each thread

vars == <<fh_lru, opened, lost, files, ops>>

\* SMBC_WRAPPER_INVALID_FNUM, and the handles of a connection; one that is not open is
\* on NoPath.
InvalidFnum == 0
Fnums == 1..MaxOpen

\* source: the path that a rename moves, or that a restore's file will have.
NoOp == [pc |-> "idle", conn |-> NoConn, path |-> NoPath, source |-> NoPath,
         fnum |-> InvalidFnum, num_retries |-> 0]

Init ==
  /\ fh_lru = [c \in Conns |-> <<>>]
  /\ opened = [c \in Conns |-> [f \in Fnums |-> NoPath]]
  /\ lost = [c \in Conns |-> {}]
  /\ files = {SmbPath[p] : p \in ClientPaths}
  /\ ops = [t \in Threads |-> NoOp]

-----------------------------------------------------------------------------
Cached(c) == {h.path : h \in ToSet(fh_lru[c])}

\* Mutant of FnumOf: the newest handle, whatever its path.
FnumOfNewest(c, p) == IF fh_lru[c] # <<>> THEN Last(fh_lru[c]).fnum ELSE InvalidFnum

\* The lookup in fh_lru_map.
FnumOf(c, p) ==
  IF p \in Cached(c) THEN (CHOOSE h \in ToSet(fh_lru[c]) : h.path = p).fnum ELSE InvalidFnum

\* fh_lru_map knows the node of the path, which is erased from the list.
Erase(list, p) ==
  IF \E i \in DOMAIN list : list[i].path = p
    THEN RemoveAt(list, CHOOSE i \in DOMAIN list : list[i].path = p) ELSE list

FreeConns == {c \in Conns : \A t \in Threads : ops[t].conn # c}

\* smbc_wrapper_close_fnum on the handle fnums[c] of each connection c. Where it
\* fails, that is only logged: the handle stays open and nobody knows it any more.
CloseFnums(fnums) ==
  \E failed \in SUBSET Conns :
    /\ opened' = [c \in Conns |-> [f \in Fnums |->
                   IF f = fnums[c] /\ c \notin failed THEN NoPath ELSE opened[c][f]]]
    /\ lost' = [c \in Conns |-> lost[c] \cup
                   {f \in Fnums : f = fnums[c] /\ c \in failed /\ opened[c][f] # NoPath}]

\* The file at p is now at q: its handles stay open.
Moved(p, q) ==
  [c \in Conns |-> [f \in Fnums |-> IF opened[c][f] = p THEN q ELSE opened[c][f]]]

\* smbc_wrapper_delete_object and its like; the handles on the file are no longer good
\* for anything.
Delete(p) == files' = files \ {p} /\ opened' = Moved(p, Gone)

\* A file comes to be at p, where there was none.
Create(p) == p \notin files /\ files' = files \cup {p}

\* The handles that are open on the file at p.
OpenOn(p) == {h \in Conns \X Fnums : opened[h[1]][h[2]] = p}

\* smbc_wrapper_rename: the server refuses to rename what is not there, as after an
\* earlier try that was done, and to replace a file unless told so, or one that is open.
Rename(q, p, replace) ==
  /\ q \in files /\ (p \in files => replace /\ OpenOn(p) = {})
  /\ files' = (files \ {q}) \cup {p} /\ opened' = Moved(q, p)

\* A try of a call on the server may also come to nothing.
Try(call) == call \/ UNCHANGED <<files, opened>>

-----------------------------------------------------------------------------
Transferring == {"lookup", "transfer", "update"}

\* The files that the RPC of t is on.
FilesOf(t) == IF ops[t].pc = "idle" THEN {} ELSE {SmbPath[ops[t].path], SmbPath[ops[t].source]}

\* The client sends an RPC; GetOrCreateSmbConnection gives it a connection that
\* nobody uses.
StartRpc(t, pc, p, q, c) ==
  /\ ops[t].pc = "idle" /\ c \in FreeConns
  /\ ReplaceBusy \/ \A u \in Threads :
       {SmbPath[p], SmbPath[q]} \cap FilesOf(u) # {} => {pc, ops[u].pc} \subseteq Transferring
  /\ ops' = [ops EXCEPT ![t] = [NoOp EXCEPT !.pc = pc, !.conn = c, !.path = p, !.source = q]]
  /\ UNCHANGED <<fh_lru, opened, lost, files>>

\* SmbProxyFetchFileData or SmbProxyWriteFileData with cache_handle: a connection that
\* has the handle is preferred.
StartTransfer(t, p, c) ==
  /\ "transfer" \in Rpcs /\ p \in CachedPaths
  /\ (\E d \in FreeConns : p \in Cached(d)) => p \in Cached(c)
  /\ StartRpc(t, "lookup", p, p, c)

\* ReadBytesFromOffset or WriteBytesToOffset of a piece begins with the lookup of the
\* handle, under the connection's mutex.
LookupHandle(t) ==
  LET op == ops[t] IN
  /\ op.pc = "lookup"
  /\ ops' = [ops EXCEPT ![t] = [op EXCEPT !.pc = "transfer", !.num_retries = 0,
                                          !.fnum = FnumOf(op.conn, op.path)]]
  /\ UNCHANGED <<fh_lru, opened, lost, files>>

\* What follows a try that failed, or was short: the next, or after the last the end;
\* the handle is kept if there is one.
Retried(op) ==
  IF op.num_retries < MaxRetries THEN [op EXCEPT !.num_retries = @ + 1]
  ELSE IF op.fnum # InvalidFnum THEN [op EXCEPT !.num_retries = @ + 1, !.pc = "update"]
  ELSE NoOp

\* One try. Without a handle the file is opened, and the handle stays for the tries that
\* follow. The transfer returns at once, without UpdateFileHandle, when it is told
\* kNonExistent or kPermissionDenied or has no memory context: a handle that is not cached is
\* forgotten then.
Transfer(t) ==
  LET c == ops[t].conn
      p == ops[t].path
  IN
  /\ ops[t].pc = "transfer"
  /\ \E g \in Fnums \cup {InvalidFnum} :
       LET op == [ops[t] EXCEPT !.fnum = g] IN
       /\ \/ g = ops[t].fnum /\ UNCHANGED opened
          \/ /\ ops[t].fnum = InvalidFnum /\ SmbPath[p] \in files
             /\ g # InvalidFnum /\ opened[c][g] = NoPath
             /\ opened' = [opened EXCEPT ![c][g] = SmbPath[p]]
       /\ \/ /\ g # InvalidFnum /\ opened'[c][g] # NoPath
             /\ ops' = [ops EXCEPT ![t] = [op EXCEPT !.pc = "update"]]
             /\ UNCHANGED lost
          \/ /\ ops' = [ops EXCEPT ![t] = Retried(op)]
             /\ UNCHANGED lost
          \/ /\ ops' = [ops EXCEPT ![t] = NoOp]
             /\ lost' = [lost EXCEPT ![c] = @ \cup
                          {f \in {g} \cap Fnums : opened'[c][f] # NoPath /\ p \notin Cached(c)}]
  /\ UNCHANGED <<fh_lru, files>>

\* The connection is unusable: ShutdownSmbConnection closes its handles, and the
\* task will have a new connection instead.
ShutdownSmbConnection(c) ==
  /\ opened' = [opened EXCEPT ![c] = [f \in Fnums |-> NoPath]]
  /\ lost' = [lost EXCEPT ![c] = {}]
  /\ fh_lru' = [fh_lru EXCEPT ![c] = <<>>]

\* A transfer ends with kRetry, or a write with kPermissionDenied.
ConnectionLost(t) ==
  /\ ops[t].pc = "transfer"
  /\ ShutdownSmbConnection(ops[t].conn)
  /\ ops' = [ops EXCEPT ![t] = NoOp]
  /\ UNCHANGED files

\* Mutant of UpdateFileHandle: the oldest handle is dropped, not closed.
UpdateFileHandleNoClose(t) ==
  LET c == ops[t].conn
      list == Append(Erase(fh_lru[c], ops[t].path),
                     [path |-> ops[t].path, fnum |-> ops[t].fnum])
  IN
  /\ ops[t].pc = "update"
  /\ fh_lru' = [fh_lru EXCEPT ![c] = IF Len(list) > MaxHandles THEN Tail(list) ELSE list]
  /\ ops' = [ops EXCEPT ![t] = NoOp]
  /\ UNCHANGED <<opened, lost, files>>

\* UpdateFileHandle, under the connection's mutex: the handle becomes the newest;
\* the oldest is closed when there are too many. A piece that was transferred may be
\* followed by another.
UpdateFileHandle(t) ==
  LET c == ops[t].conn
      list == Append(Erase(fh_lru[c], ops[t].path),
                     [path |-> ops[t].path, fnum |-> ops[t].fnum])
      full == Len(list) > MaxHandles
  IN
  /\ ops[t].pc = "update"
  /\ fh_lru' = [fh_lru EXCEPT ![c] = IF full THEN Tail(list) ELSE list]
  /\ CloseFnums([d \in Conns |-> IF d = c /\ full THEN Head(list).fnum ELSE InvalidFnum])
  /\ \/ ops' = [ops EXCEPT ![t] = NoOp]
     \/ /\ ops[t].num_retries <= MaxRetries
        /\ ops' = [ops EXCEPT ![t].pc = "lookup", ![t].fnum = InvalidFnum]
  /\ UNCHANGED files

-----------------------------------------------------------------------------
\* Mutant of PurgeFileHandle: only the inactive connections are searched.
PurgeFileHandleInactive(p) ==
  /\ CloseFnums([c \in Conns |-> IF c \in FreeConns THEN FnumOf(c, p) ELSE InvalidFnum])
  /\ fh_lru' = [c \in Conns |-> IF c \in FreeConns THEN Erase(fh_lru[c], p) ELSE fh_lru[c]]

\* PurgeFileHandle: closes and forgets the handle of p in all connections of the
\* task, those in use by other threads too. One step: it has the task's lock, and
\* each connection's while it works on that connection.
PurgeFileHandle(p) ==
  /\ CloseFnums([c \in Conns |-> FnumOf(c, p)])
  /\ fh_lru' = [c \in Conns |-> Erase(fh_lru[c], p)]

\* RenameEntityOp with replace_if_exists begins with a purge, and without one not.
StartRename(t, p, q, c) ==
  /\ "rename" \in Rpcs /\ q \in MovedPaths /\ SmbPath[q] # SmbPath[p]
  /\ \E pc \in {"purge", "move"} : StartRpc(t, pc, p, q, c)

\* The handles of the target are purged, those of the source are not.
PurgeTarget(t) ==
  /\ ops[t].pc = "purge" /\ ops[t].conn # NoConn
  /\ PurgeFileHandle(ops[t].path)
  /\ ops' = [ops EXCEPT ![t].pc = "rename"]
  /\ UNCHANGED files

\* The server's part in the call, done or refused.
RenameEntity(t) ==
  LET op == ops[t] IN
  /\ op.pc \in {"rename", "move"} /\ op.conn # NoConn
  /\ Try(Rename(SmbPath[op.source], SmbPath[op.path], op.pc = "rename"))
  /\ ops' = [ops EXCEPT ![t].pc = IF @ = "rename" THEN "renamed" ELSE "moved"]
  /\ UNCHANGED <<fh_lru, lost>>

\* FinalizeRestoreFilesOp renames the temporary file, over the symlink in an uptier,
\* and purges nothing.
StartFinalize(t, p, q, c) ==
  /\ "finalize" \in Rpcs /\ q \in MovedPaths /\ SmbPath[q] # SmbPath[p]
  /\ StartRpc(t, "finalize", p, q, c)

FinalizeRename(t) ==
  LET op == ops[t] IN
  /\ op.pc = "finalize"
  /\ \E replace \in BOOLEAN : Try(Rename(SmbPath[op.source], SmbPath[op.path], replace))
  /\ ops' = [ops EXCEPT ![t] = NoOp]
  /\ UNCHANGED <<fh_lru, lost>>

\* SmbProxyDeleteEntity, and SmbProxyCreateSymlink with or without delete_entity. Nothing
\* is purged.
StartRemove(t, p, c) ==
  /\ "remove" \in Rpcs /\ p \in MovedPaths
  /\ StartRpc(t, "remove", p, p, c)

StartSymlink(t, p, c) ==
  /\ "symlink" \in Rpcs
  /\ \/ StartRpc(t, "symlink", p, p, c)
     \/ p \in MovedPaths /\ StartRpc(t, "unlink", p, p, c)

\* DeleteEntityOp; CreateSymlinkOp follows only a deletion that succeeded, with a
\* connection of its own.
RemoveEntity(t) ==
  LET p == SmbPath[ops[t].path] IN
  /\ ops[t].pc \in {"remove", "unlink"}
  /\ Try(Delete(p))
  /\ \/ ops' = [ops EXCEPT ![t] = NoOp]
     \/ /\ ops[t].pc = "unlink" /\ p \in files /\ p \notin files'
        /\ ops' = [ops EXCEPT ![t].pc = "symlink", ![t].conn = NoConn]
  /\ UNCHANGED <<fh_lru, lost>>

\* A path that is there is left alone.
CreateSymlink(t) ==
  /\ ops[t].pc = "symlink" /\ ops[t].conn # NoConn
  /\ Create(SmbPath[ops[t].path]) \/ UNCHANGED files
  /\ ops' = [ops EXCEPT ![t].pc = "linked"]
  /\ UNCHANGED <<fh_lru, opened, lost>>

\* What a new try begins with, by where the last one was.
TryFrom == [renamed |-> "purge", moved |-> "move", linked |-> "symlink"]

\* The answer of a rename or a symlink arrives ...
EndOp(t) ==
  /\ ops[t].pc \in DOMAIN TryFrom
  /\ ops' = [ops EXCEPT ![t] = NoOp]
  /\ UNCHANGED <<fh_lru, opened, lost, files>>

\* Mutant of RetryOp: the connection is shut down, but its handles stay in the cache.
RetryOpKeepsHandles(t) ==
  LET op == ops[t] IN
  /\ op.pc \in DOMAIN TryFrom
  /\ opened' = [opened EXCEPT ![op.conn] = [f \in Fnums |-> NoPath]]
  /\ lost' = [lost EXCEPT ![op.conn] = {}]
  /\ ops' = [ops EXCEPT ![t] =
               IF op.num_retries = MaxRetries THEN NoOp
               ELSE [op EXCEPT !.pc = TryFrom[@], !.conn = NoConn, !.num_retries = @ + 1]]
  /\ UNCHANGED <<fh_lru, files>>

\* ... or the call fails with kRetry: the connection is shut down and given up for
\* another one; in the end the op fails with kTimeout.
RetryOp(t) ==
  LET op == ops[t] IN
  /\ op.pc \in DOMAIN TryFrom
  /\ ShutdownSmbConnection(op.conn)
  /\ ops' = [ops EXCEPT ![t] =
               IF op.num_retries = MaxRetries THEN NoOp
               ELSE [op EXCEPT !.pc = TryFrom[@], !.conn = NoConn, !.num_retries = @ + 1]]
  /\ UNCHANGED files

\* GetOrCreateSmbConnection of the next try.
Reconnect(t) ==
  /\ ops[t].pc # "idle" /\ ops[t].conn = NoConn
  /\ \/ \E c \in FreeConns : ops' = [ops EXCEPT ![t].conn = c]
     \/ ops' = [ops EXCEPT ![t] = NoOp]
  /\ UNCHANGED <<fh_lru, opened, lost, files>>

-----------------------------------------------------------------------------
\* CreateRestoreFilesOp with overwrite_existing_tmp, of the temporary file p of q.
StartRestore(t, p, q, c) ==
  /\ "restore" \in Rpcs /\ q \in MovedPaths /\ SmbPath[q] # SmbPath[p]
  /\ \E pc \in {"existing", "delete"} : StartRpc(t, pc, p, q, c)

\* DeleteExistingEntity and DeleteNewEntity: the entity at the final path is deleted,
\* without a purge. In an uptier the second leaves it alone.
DeleteFinal(t) ==
  LET q == SmbPath[ops[t].source] IN
  /\ ops[t].pc \in {"existing", "new"}
  /\ Try(Delete(q))
  /\ \/ ops' = [ops EXCEPT ![t] = NoOp]
     \/ /\ q \notin files' \/ ops[t].pc = "new"
        /\ ops' = [ops EXCEPT ![t].pc = IF @ = "existing" THEN "delete" ELSE "create"]
  /\ UNCHANGED <<fh_lru, lost>>

\* DeleteTmpEntity deletes the file at tmp_path ...
DeleteTmpEntity(t) ==
  /\ ops[t].pc = "delete"
  /\ Try(Delete(SmbPath[ops[t].path]))
  /\ ops' = [ops EXCEPT ![t].pc = "forget"]
  /\ UNCHANGED <<fh_lru, lost>>

\* ... and purges the handles of tmp_path, which is the SMB path, whether or not it is
\* deleted.
PurgeTmpHandle(t) ==
  LET p == SmbPath[ops[t].path] IN
  /\ ops[t].pc = "forget"
  /\ PurgeFileHandle(p)
  /\ \/ ops' = [ops EXCEPT ![t] = NoOp]
     \/ p \notin files /\ ops' = [ops EXCEPT ![t].pc = "new"]
  /\ UNCHANGED files

CreateRegularFile(t) ==
  /\ ops[t].pc = "create"
  /\ Create(SmbPath[ops[t].path]) \/ UNCHANGED files
  /\ ops' = [ops EXCEPT ![t] = NoOp]
  /\ UNCHANGED <<fh_lru, opened, lost>>

-----------------------------------------------------------------------------
Next ==
  \E t \in Threads :
    \/ \E p \in ClientPaths, c \in Conns :
         \/ StartTransfer(t, p, c)
         \/ StartRemove(t, p, c)
         \/ StartSymlink(t, p, c)
         \/ \E q \in MovedPaths :
              \/ StartRename(t, p, q, c)
              \/ StartFinalize(t, p, q, c)
              \/ StartRestore(t, p, q, c)
    \/ LookupHandle(t)
    \/ Transfer(t)
    \/ ConnectionLost(t)
    \/ UpdateFileHandle(t)
    \/ PurgeTarget(t)
    \/ RenameEntity(t)
    \/ FinalizeRename(t)
    \/ RemoveEntity(t)
    \/ CreateSymlink(t)
    \/ EndOp(t)
    \/ RetryOp(t)
    \/ Reconnect(t)
    \/ DeleteFinal(t)
    \/ DeleteTmpEntity(t)
    \/ PurgeTmpHandle(t)
    \/ CreateRegularFile(t)

Spec == Init /\ [][Next]_vars

-----------------------------------------------------------------------------
HandleType == [path: Paths, fnum: Fnums]
Moving == {"purge", "rename", "renamed", "move", "moved", "finalize"}
Restoring == {"existing", "delete", "forget", "new", "create"}
OpType ==
  [pc: Transferring \cup Moving \cup Restoring \cup
       {"idle", "remove", "unlink", "symlink", "linked"},
   conn: Conns \cup {NoConn}, path: Paths \cup {NoPath}, source: Paths \cup {NoPath},
   fnum: Fnums \cup {InvalidFnum}, num_retries: 0..(MaxRetries + 1)]

TypeOK ==
  /\ fh_lru \in [Conns -> Seq(HandleType)] /\ \A c \in Conns : Len(fh_lru[c]) <= MaxHandles
  /\ opened \in [Conns -> [Fnums -> Paths \cup {Gone, NoPath}]]
  /\ lost \in [Conns -> SUBSET Fnums]
  /\ files \subseteq Paths
  /\ ops \in [Threads -> OpType]

\* A handle that is cached for a path is open, and on the file that is at the path now: a
\* handle to a file that was "removed and recreated" must not stay in the cache. Only
\* DeleteTmpEntity may have deleted the file, and is about to purge the handle.
CachedHandleValid ==
  \A c \in Conns : \A h \in ToSet(fh_lru[c]) :
    \/ opened[c][h.fnum] = SmbPath[h.path]
    \/ /\ opened[c][h.fnum] = Gone
       /\ \E t \in Threads : ops[t].pc = "forget" /\ SmbPath[ops[t].path] = SmbPath[h.path]

\* The handle through which a transfer reads or writes is open on the file at its path and
\* on no other: handles are numbers that the connection gives out again, and follow their
\* file when it is renamed.
TransfersOwnFile ==
  \A t \in Threads : ops[t].pc \in Transferring /\ ops[t].fnum # InvalidFnum =>
    opened[ops[t].conn][ops[t].fnum] = SmbPath[ops[t].path]

\* Every handle that is open is cached, or in use, or one of those that a failed close
\* or a transfer's early return has lost.
NoLeakedHandle ==
  \A c \in Conns, f \in Fnums : opened[c][f] # NoPath =>
    \/ \E h \in ToSet(fh_lru[c]) : h.fnum = f
    \/ \E t \in Threads : ops[t].conn = c /\ ops[t].fnum = f
    \/ f \in lost[c]

\* When RenameEntityOp sends the rename, no connection of the task has a cached handle
\* on the target, which would make the server refuse it: "close any file handles for the
\* target file that are cached by the task" (rename_entity_op.cc).
RenamePurged ==
  \A t \in Threads : ops[t].pc = "rename" =>
    \A c \in Conns : \A h \in ToSet(fh_lru[c]) : opened[c][h.fnum] # SmbPath[ops[t].path]

-----------------------------------------------------------------------------
(***************************************************************************)
(* Why these properties hold, for clients that do what the constants of    *)
(* Handles.cfg say.                                                        *)
(***************************************************************************)
\* A client writes a path as the server does, replaces no file while another RPC is on it,
\* and transfers no file with cache_handle that it may rename away or remove.
CarefulClients ==
  ~ReplaceBusy /\ (\A p \in ClientPaths : SmbPath[p] = p) /\ CachedPaths \cap MovedPaths = {}

\* fh_lru_list has each path once, as fh_lru_map has, and each handle.
Sound(list) ==
  \A i, j \in DOMAIN list :
    list[i].path = list[j].path \/ list[i].fnum = list[j].fnum => i = j

\* The arguments of an RPC, and what it has by then.
OpNamed(op) ==
  /\ IF op.pc = "idle" THEN op = NoOp ELSE op.path \in ClientPaths /\ op.source \in ClientPaths
  /\ op.pc \notin {"idle", "purge", "move", "symlink"} => op.conn # NoConn
  /\ op.pc \in Transferring => op.path \in CachedPaths
  /\ op.pc \in {"remove", "unlink"} => op.path \in MovedPaths
  /\ op.pc \in Moving \cup Restoring => op.source \in MovedPaths
  /\ IF op.pc = "update" THEN op.fnum # InvalidFnum ELSE op.num_retries <= MaxRetries
  /\ op.pc \notin {"transfer", "update"} => op.fnum = InvalidFnum

OpsNamed == \A t \in Threads : OpNamed(ops[t])

\* A connection is used by one RPC, and the RPCs on one file are transfers, or one is.
OpsAlone ==
  /\ \A t, u \in Threads : t # u /\ ops[t].conn = ops[u].conn => ops[t].conn = NoConn
  /\ \A t, u \in Threads : t # u /\ FilesOf(t) \cap FilesOf(u) # {} => ops[t].pc \in Transferring

\* What is open on a path is on a file, and the path is one that is transferred.
OpenIsFile ==
  \A c \in Conns, f \in Fnums : opened[c][f] \in Paths => opened[c][f] \in files \cap CachedPaths

\* A handle that is lost is open.
LostIsOpen == \A c \in Conns : \A f \in lost[c] : opened[c][f] # NoPath

\* A handle that is cached is not lost, and its path's file is not about to be replaced.
CachedIsOpen ==
  \A c \in Conns : \A h \in ToSet(fh_lru[c]) :
    /\ h.path \in CachedPaths /\ h.fnum \notin lost[c]
    /\ \A t \in Threads : ops[t].pc \in {"rename", "new", "create"} => ops[t].path # h.path

\* The handle of a transfer is the one that is cached for its path, or else new.
OwnHandle(t) ==
  LET c == ops[t].conn
      f == ops[t].fnum
  IN
  /\ ops[t].pc \in {"transfer", "update"} =>
       \A h \in ToSet(fh_lru[c]) : h.path = ops[t].path <=> h.fnum = f
  /\ f # InvalidFnum => f \notin lost[c]

HandlesInv ==
  /\ \A c \in Conns : Sound(fh_lru[c])
  /\ OpsNamed /\ OpsAlone /\ OpenIsFile /\ LostIsOpen /\ CachedIsOpen
  /\ CachedHandleValid /\ TransfersOwnFile /\ NoLeakedHandle
  /\ \A t \in Threads : OwnHandle(t)

=============================================================================
