---------------------------- MODULE RestoreFiles -----------------------------
(***************************************************************************)
(* Restoring files: SmbProxyCreateRestoreFiles, SmbProxyWriteFilesData and *)
(* SmbProxyFinalizeRestoreFiles (create_restore_files_op.cc,               *)
(* write_files_data_op.cc, finalize_restore_files_op.cc) on top of         *)
(* FileHandleCache, for regular, non-empty files that are no hardlinks.    *)
(*                                                                         *)
(* A file is written chunk by chunk to a temporary file, which is then     *)
(* renamed to the file.  A path is restored in one of three modes:         *)
(*   volume     overwrite_existing_tmp is false: each chunk is a work unit *)
(*              with a Create RPC of its own, and many run at a time;      *)
(*   overwrite  overwrite_existing_tmp: a file has one Create RPC;         *)
(*   uptier     the same with nas_uptier_task: the file takes the place of *)
(*              the symlink that was left when it was moved away.          *)
(* A path stands for a file and for its temporary file; header.root_dir is *)
(* empty.                                                                  *)
(***************************************************************************)
EXTENDS FileHandleCache

CONSTANTS
  Chunks,      \* the parts of a file
  Existing,    \* the paths where a file, or an uptiered symlink, was before the restore
  NoFile, OldFile,
  Modes,       \* how the paths may be restored
  Resend,      \* may a client send a Create again while the first one runs?
  Restarts,    \* the modes in which the client may start over
  StatFails,   \* may the server fail to find the symlink of an uptier task?
  Crashes      \* may the proxy crash and be started again?

ASSUME RestoreAssumption ==
  /\ Existing \subseteq Paths
  /\ Modes \subseteq [Paths -> {"volume", "overwrite", "uptier"}]
  /\ {Resend, StatFails, Crashes} \subseteq BOOLEAN
  /\ IsFiniteSet(Threads) /\ IsFiniteSet(Chunks) /\ Chunks # {}
  /\ NoFile # OldFile /\ \A s \in SUBSET Chunks : s # NoFile /\ s # OldFile

VARIABLES
  data,     \* the chunks that each temporary file has whole
  origin,   \* who wrote what is in it: nobody ("none"), the client since it last started
            \* ("this"), or also the client before it started over ("earlier")
  final,    \* each restored file: NoFile, OldFile or the chunks in it
  client,   \* what the client knows of each file
  mode      \* how each path is restored

vars == <<fhVars, data, origin, final, client, mode>>
serverVars == <<data, origin, final, mode>>

NewClient == [created |-> {}, written |-> {}, phase |-> "open"]

Init ==
  /\ FHInit
  /\ data = [p \in Paths |-> {}] /\ origin = [p \in Paths |-> "none"]
  /\ final = [p \in Paths |-> IF p \in Existing THEN OldFile ELSE NoFile]
  /\ client = [p \in Paths |-> NewClient]
  /\ mode \in Modes

\* overwrite_existing_tmp and nas_uptier_task.
Overwrite(p) == mode[p] # "volume"
Uptier(p) == mode[p] = "uptier"

\* The temporary file is deleted or renamed.
RemoveTmp(p) ==
  /\ files' = files \ {p}
  /\ data' = [data EXCEPT ![p] = {}]
  /\ origin' = [origin EXCEPT ![p] = "none"]

\* The op of thread t goes to pc, with this result.
Step(t, pc, result) == ops' = [ops EXCEPT ![t].pc = pc, ![t].result = result]

Finalizing(t) == ops[t].pc \in {"stat", "rename", "renamed", "abort"}
Creating(t) == ops[t].pc # "idle" /\ ~Finalizing(t)
CreatorsOf(p) == {t \in Threads : Creating(t) /\ ops[t].path = p}

-----------------------------------------------------------------------------
\* CreateRestoreFilesOp

\* Mutant of FirstDelete: nothing is deleted.
FirstDeleteNothing(p) == IF Overwrite(p) THEN "make" ELSE "done"

\* DeleteAndCreateEntity goes on with the temporary file, or without.
DeleteAndCreate(p) == IF Overwrite(p) THEN "tmp" ELSE "delete"

\* HandleEntity: the steps of an entity start here.
FirstDelete(p) ==
  IF p \in Existing /\ ~Uptier(p) THEN "existing" ELSE DeleteAndCreate(p)

\* A Create RPC: HandleNextEntity fetches the handle of the temporary file in a
\* volume restore.
CreateRestoreFiles(t, k, p) ==
  /\ client[p].phase = "open" /\ client[p].created # Chunks
  /\ Resend \/ Cardinality(CreatorsOf(p))
                 < IF Overwrite(p) THEN 1 ELSE Cardinality(Chunks \ client[p].created)
  /\ IF Overwrite(p)
       THEN /\ ops[t].pc = "idle"
            /\ ops' = [ops EXCEPT ![t] = [NoOp EXCEPT !.pc = FirstDelete(p), !.path = p]]
            /\ UNCHANGED <<file_handles_map, handles, writers, files>>
       ELSE GetFileHandlesEntry(t, k, p)
  /\ UNCHANGED <<serverVars, client>>

\* HandleNextEntity goes on to HandleEntity unless the handle was cached.
HandleEntity(t) ==
  /\ ops[t].pc = "done" /\ ops[t].result = "ok"
  /\ Step(t, FirstDelete(ops[t].path), "ok")
  /\ UNCHANGED <<file_handles_map, handles, writers, files, serverVars, client>>

\* DeleteExistingEntity, by DeleteEntityOp; kNonExistent is no error.
DeleteExistingEntity(t) ==
  LET p == ops[t].path IN
  /\ ops[t].pc = "existing"
  /\ \/ /\ final' = [final EXCEPT ![p] = NoFile]
        /\ Step(t, DeleteAndCreate(p), "ok")
     \/ Step(t, "done", "error") /\ UNCHANGED final
  /\ UNCHANGED <<file_handles_map, handles, writers, files, data, origin, mode, client>>

\* Mutant of DeleteTmpEntity: a temporary file that cannot be deleted is used as it is.
DeleteTmpEntityInUse(t) ==
  LET p == ops[t].path IN
  /\ ops[t].pc = "tmp"
  /\ \/ RemoveTmp(p) /\ Step(t, "delete", "ok")
     \/ /\ Step(t, "done", IF p \in files THEN "handled" ELSE "error")
        /\ UNCHANGED <<files, data, origin>>
  /\ UNCHANGED <<file_handles_map, handles, writers, final, mode, client>>

\* DeleteTmpEntity; kNonExistent is no error.
DeleteTmpEntity(t) ==
  LET p == ops[t].path IN
  /\ ops[t].pc = "tmp"
  /\ \/ RemoveTmp(p) /\ Step(t, "delete", "ok")
     \/ Step(t, "done", "error") /\ UNCHANGED <<files, data, origin>>
  /\ UNCHANGED <<file_handles_map, handles, writers, final, mode, client>>

\* Mutant of DeleteNewEntity: it deletes the symlink of an uptier task.
DeleteNewEntityAlways(t) ==
  LET p == ops[t].path IN
  /\ ops[t].pc = "delete"
  /\ \/ /\ final' = [final EXCEPT ![p] = NoFile]
        /\ IF Overwrite(p) THEN Step(t, "make", "ok")
                           ELSE \E r \in {"handled", "error"} : Step(t, "done", r)
     \/ Step(t, "done", "error") /\ UNCHANGED final
  /\ UNCHANGED <<file_handles_map, handles, writers, files, data, origin, mode, client>>

\* DeleteNewEntity, then CreateEntity: a volume restore is done once the parent
\* directory is there. An uptier task deletes nothing.
DeleteNewEntity(t) ==
  LET p == ops[t].path IN
  /\ ops[t].pc = "delete"
  /\ \/ /\ final' = IF Uptier(p) THEN final ELSE [final EXCEPT ![p] = NoFile]
        /\ IF Overwrite(p) THEN Step(t, "make", "ok")
                           ELSE \E r \in {"handled", "error"} : Step(t, "done", r)
     \/ Step(t, "done", "error") /\ UNCHANGED final
  /\ UNCHANGED <<file_handles_map, handles, writers, files, data, origin, mode, client>>

\* Mutant of CreateRegularFile: it does not set the error.
CreateRegularFileNoError(t) ==
  /\ ops[t].pc = "make"
  /\ files' = files \cup {ops[t].path} \/ UNCHANGED files
  /\ Step(t, "done", "handled")
  /\ UNCHANGED <<file_handles_map, handles, writers, serverVars, client>>

\* CreateRegularFile creates the temporary file.
CreateRegularFile(t) ==
  /\ ops[t].pc = "make"
  /\ \/ /\ ops[t].path \notin files
        /\ files' = files \cup {ops[t].path}
        /\ Step(t, "done", "handled")
     \/ Step(t, "done", "error") /\ UNCHANGED files
  /\ UNCHANGED <<file_handles_map, handles, writers, serverVars, client>>

\* The RPC returns; FetchFileHandleOp is destroyed and unlocks the path. A work
\* unit whose Create succeeded may write its chunk.
CreateReturns(t) ==
  LET p == ops[t].path IN
  /\ ops[t].result # "ok"
  /\ FinishFetch(t)
  /\ IF ops[t].result = "error" \/ client[p].phase # "open" \/ client[p].created = Chunks
       THEN UNCHANGED client
       ELSE \E c \in Chunks \ client[p].created :
              client' = [client EXCEPT ![p].created = IF Overwrite(p) THEN Chunks ELSE @ \cup {c}]
  /\ UNCHANGED serverVars

-----------------------------------------------------------------------------
\* Mutant of WriteFilesData: it writes a new file over the temporary file.
WriteFilesDataAnew(p, c) ==
  /\ client[p].phase = "open" /\ c \in client[p].created
  /\ p \in files
  /\ data' = [data EXCEPT ![p] = {c}]
  /\ origin' = [origin EXCEPT ![p] = "this"]
  /\ client' = [client EXCEPT ![p].written = @ \cup {c}]
  /\ UNCHANGED <<fhVars, final, mode>>

\* WriteFilesDataOp: WriteFileDataHelper writes the chunk to the temporary file, if it
\* is there, piece by piece. It may fail before, between and after the pieces, and the
\* answer may be lost. (Pieces of several writes do each other no harm, and clients
\* start over or give up only when no RPC is under way: one step is enough.)
WriteFilesData(p, c) ==
  /\ client[p].phase = "open" /\ c \in client[p].created
  /\ \E done \in {"nothing", "part", "whole"}, ok \in BOOLEAN :
       /\ (done # "nothing" => p \in files) /\ (ok => done = "whole")
       /\ data' = IF done = "whole" THEN [data EXCEPT ![p] = @ \cup {c}] ELSE data
       /\ origin' = IF done # "nothing" /\ origin[p] = "none"
                      THEN [origin EXCEPT ![p] = "this"] ELSE origin
       /\ client' = IF ok THEN [client EXCEPT ![p].written = @ \cup {c}] ELSE client
  /\ UNCHANGED <<fhVars, final, mode>>

-----------------------------------------------------------------------------
\* FinalizeRestoreFilesOp

\* With should_commit, once all chunks are written.
FinalizeRestoreFiles(t, p) ==
  /\ ops[t].pc = "idle"
  /\ client[p].phase = "open" /\ client[p].written = Chunks
  /\ client' = [client EXCEPT ![p].phase = "finalizing"]
  /\ ops' = [ops EXCEPT ![t] = [NoOp EXCEPT !.pc = "stat", !.path = p]]
  /\ UNCHANGED <<file_handles_map, handles, writers, files, serverVars>>

\* Without, when the client gives the file up.
AbortRestoreFiles(t, p) ==
  /\ ops[t].pc = "idle"
  /\ client[p].phase = "open"
  /\ \A u \in Threads : ops[u].pc = "idle" \/ ops[u].path # p
  /\ client' = [client EXCEPT ![p].phase = "finalizing"]
  /\ ops' = [ops EXCEPT ![t] = [NoOp EXCEPT !.pc = "abort", !.path = p]]
  /\ UNCHANGED <<file_handles_map, handles, writers, files, serverVars>>

FinalizeReturns(t, phase) ==
  /\ ops' = [ops EXCEPT ![t] = NoOp]
  /\ client' = [client EXCEPT ![ops[t].path].phase = phase]

\* HandleNextEntity without should_commit deletes the temporary file.
DeleteTmpFile(t) ==
  LET p == ops[t].path IN
  /\ ops[t].pc = "abort"
  /\ \/ RemoveTmp(p) /\ FinalizeReturns(t, "aborted")
     \/ FinalizeReturns(t, "open") /\ UNCHANGED <<files, data, origin>>
  /\ UNCHANGED <<file_handles_map, handles, writers, final, mode>>

\* RenameEntity looks for the temporary file.
StatTmpFile(t) ==
  /\ ops[t].pc = "stat"
  /\ \/ /\ Step(t, IF ops[t].path \in files THEN "rename" ELSE "renamed", "none")
        /\ UNCHANGED client
     \/ FinalizeReturns(t, "open")
  /\ UNCHANGED <<file_handles_map, handles, writers, files, serverVars>>

\* Mutant of RenameEntity: the result of the rename is not checked.
RenameEntityUnchecked(t) ==
  LET p == ops[t].path IN
  /\ ops[t].pc = "rename"
  /\ FinalizeReturns(t, "committed")
  /\ UNCHANGED <<file_handles_map, handles, writers, files, serverVars>>

\* Case 1 of an uptier task: the file takes the place of the symlink; when it does
\* not, the temporary file is deleted, if that can be done. A symlink that is not
\* found ends the op without an error: what it returns is the result of the earlier
\* search for the temporary file.
ReplaceSymlink(t) ==
  LET p == ops[t].path IN
  /\ ops[t].pc = "rename" /\ Uptier(p)
  /\ \/ /\ final[p] = OldFile
        /\ final' = [final EXCEPT ![p] = data[p]]
        /\ RemoveTmp(p)
        /\ \E phase \in {"committed", "open"} : FinalizeReturns(t, phase)
     \/ /\ final[p] # NoFile
        /\ RemoveTmp(p) \/ UNCHANGED <<files, data, origin>>
        /\ FinalizeReturns(t, "open") /\ UNCHANGED final
     \/ /\ final[p] = NoFile \/ StatFails
        /\ FinalizeReturns(t, "committed") /\ UNCHANGED <<files, data, origin, final>>
  /\ UNCHANGED <<file_handles_map, handles, writers, mode>>

\* Case 1: the rename, which does not replace a file, and SetEntityAttribute,
\* which may fail when the file has been renamed.
RenameEntity(t) ==
  LET p == ops[t].path IN
  /\ ops[t].pc = "rename" /\ ~Uptier(p)
  /\ \/ /\ p \in files /\ final[p] = NoFile
        /\ final' = [final EXCEPT ![p] = data[p]]
        /\ RemoveTmp(p)
        /\ \E phase \in {"committed", "open"} : FinalizeReturns(t, phase)
     \/ FinalizeReturns(t, "open") /\ UNCHANGED <<files, data, origin, final>>
  /\ UNCHANGED <<file_handles_map, handles, writers, mode>>

\* Case 2: an earlier attempt has renamed it. (The symlink of an uptier task, a reparse
\* point, is a regular file for GetEntityMetadata.)
AlreadyRenamed(t) ==
  LET p == ops[t].path IN
  /\ ops[t].pc = "renamed"
  /\ \/ final[p] # NoFile /\ FinalizeReturns(t, "committed")
     \/ FinalizeReturns(t, "open")
  /\ UNCHANGED <<file_handles_map, handles, writers, files, serverVars>>

-----------------------------------------------------------------------------
\* The client starts over, with no RPC under way for the file.
RestartClient(p) ==
  /\ mode[p] \in Restarts
  /\ \A t \in Threads : ops[t].pc = "idle" \/ ops[t].path # p
  /\ client' = [client EXCEPT ![p] = NewClient]
  /\ origin' = [origin EXCEPT ![p] = IF @ = "none" THEN "none" ELSE "earlier"]
  /\ UNCHANGED <<fhVars, data, final, mode>>

\* The proxy crashes; its RPCs fail, its memory is gone.
CrashProxy ==
  /\ Crashes
  /\ ops' = [t \in Threads |-> NoOp]
  /\ file_handles_map' = [k \in Tasks |-> NoObject]
  /\ handles' = [o \in Objects |-> NewHandles]
  /\ writers' = [p \in Paths |-> {}]
  /\ client' = [p \in Paths |->
       IF client[p].phase = "finalizing" THEN [client[p] EXCEPT !.phase = "open"]
                                         ELSE client[p]]
  /\ UNCHANGED <<files, serverVars>>

CreateStep(t) ==
  \/ HandleEntity(t)
  \/ DeleteExistingEntity(t)
  \/ DeleteTmpEntity(t)
  \/ DeleteNewEntity(t)
  \/ CreateRegularFile(t)
  \/ CreateReturns(t)

FinalizeStep(t) ==
  \/ DeleteTmpFile(t)
  \/ StatTmpFile(t)
  \/ ReplaceSymlink(t)
  \/ RenameEntity(t)
  \/ AlreadyRenamed(t)

Next ==
  \/ \E t \in Threads :
       \/ \E p \in Paths : \/ \E k \in Tasks : CreateRestoreFiles(t, k, p)
                           \/ FinalizeRestoreFiles(t, p)
                           \/ AbortRestoreFiles(t, p)
       \/ FetchStep(t) /\ UNCHANGED <<serverVars, client>>
       \/ CreateStep(t)
       \/ FinalizeStep(t)
  \/ \E p \in Paths, c \in Chunks : WriteFilesData(p, c)
  \/ CacheStep /\ UNCHANGED <<serverVars, client>>
  \/ \E p \in Paths : RestartClient(p)
  \/ CrashProxy

Spec == Init /\ [][Next]_vars

-----------------------------------------------------------------------------
RestorePcs == {"existing", "tmp", "delete", "make", "stat", "rename", "renamed", "abort"}
ClientType == [created: SUBSET Chunks, written: SUBSET Chunks,
               phase: {"open", "finalizing", "committed", "aborted"}]

TypeOK ==
  /\ CacheTypeOK /\ ops \in [Threads -> OpType(RestorePcs, {"handled"})]
  /\ data \in [Paths -> SUBSET Chunks] /\ origin \in [Paths -> {"none", "this", "earlier"}]
  /\ client \in [Paths -> ClientType] /\ mode \in Modes
  /\ final \in [Paths -> {NoFile, OldFile} \cup SUBSET Chunks]

\* A file whose commit was acknowledged is there, with all its chunks and nothing
\* of the file that was there before: FinalizeRestoreFiles may be retried after
\* the rename, and other Create RPCs delete what they find under its name.
RestoredComplete ==
  \A p \in Paths : client[p].phase = "committed" /\ ~Uptier(p) => final[p] = Chunks

\* The same for an uptier task: "2. Temporary file does not exist. This may happen if
\* previous incarnation of restore operation has already renamed the temporary file."
\* and "3. If 1 and 2 does not apply fail the rename operation."
SymlinkReplaced ==
  \A p \in Paths : client[p].phase = "committed" /\ Uptier(p) => final[p] = Chunks

\* An acknowledged write is not lost by other work units of the file, by evictions
\* or by crashes of the proxy: it is in the temporary file, or in the file
\* once that was renamed. (A failed commit of an uptier task deletes it.)
WrittenKept ==
  \A p \in Paths : client[p].phase = "open" /\ ~Uptier(p) =>
    client[p].written \subseteq (IF p \in files THEN data[p]
                                 ELSE IF final[p] \in {NoFile, OldFile} THEN {} ELSE final[p])

\* After a successful Create the temporary file is there to be written, until it is
\* renamed: HandleNextEntity skips the creation when the handle is cached
\* ("the tmp file has already been opened and cached - bail out (nothing to do)").
CreatedHasTmpFile ==
  \A p \in Paths : client[p].phase = "open" /\ client[p].created # {} /\ ~Uptier(p) =>
    p \in files \/ final[p] = Chunks

\* When no Create is under way for a file that was created, the file it replaces is
\* gone ("Once the existing_entity is deleted or existing entity does not exist,
\* ..."), and the rename can succeed.
Cleared(p) ==
  /\ client[p].phase = "open" /\ client[p].created # {}
  /\ \A t \in Threads : ops[t].pc = "idle" \/ ops[t].path # p
  => final[p] # OldFile

CreatedMeansCleared == \A p \in Paths : ~Uptier(p) => Cleared(p)

\* The same for overwrite_existing_tmp, which does not depend on what is cached.
OverwriteClears == \A p \in Paths : mode[p] = "overwrite" => Cleared(p)

\* overwrite_existing_tmp: after a successful Create the temporary file has nothing of an
\* earlier attempt of the client, acknowledged or not.
OnlyNewData ==
  \A p \in Paths : Overwrite(p) /\ client[p].phase = "open" /\ client[p].created # {}
    => origin[p] # "earlier"

\* A volume restore leaves the file it replaces alone until its own temporary file
\* is open: when that cannot be created, the old file survives. The symlink of an
\* uptier task gives way to the complete file only.
OldFileKept ==
  [][\A p \in Paths : final[p] = OldFile /\ final'[p] # OldFile =>
       CASE mode[p] = "volume"    -> p \in files
         [] mode[p] = "overwrite" -> TRUE
         [] mode[p] = "uptier"    -> final'[p] = Chunks]_vars

-----------------------------------------------------------------------------
(***************************************************************************)
(* Why these properties hold, for clients that do what the constants of    *)
(* Restore.cfg say.                                                        *)
(***************************************************************************)
\* A client does not send a Create again while it runs and does not repeat a volume
\* restore under the same task; the symlink of an uptier task was there.
CarefulClients ==
  /\ ~Resend /\ "volume" \notin Restarts
  /\ \A m \in Modes, p \in Paths : m[p] = "uptier" => p \in Existing

\* Which steps an op may be at in which mode.
OpFollowsMode(t) ==
  LET p == ops[t].path IN
  /\ ops[t].pc \in FetchPcs => ~Overwrite(p)
  /\ ops[t].pc \in {"tmp", "make"} => Overwrite(p)
  /\ ops[t].pc = "existing" => ~Uptier(p)
  /\ ops[t].pc = "idle" => ops[t].result = "none"
  /\ ops[t].pc = "done" => ops[t].result # "none"
  /\ ops[t].pc = "done" /\ ops[t].result \in {"ok", "cached"} => ~Overwrite(p)

\* No Create is under way when all of a file is created, and when it is finalized, no
\* other RPC at all.
CreatesInTurn(p) ==
  /\ Cardinality(CreatorsOf(p))
       <= IF Overwrite(p) THEN 1 ELSE Cardinality(Chunks \ client[p].created)
  /\ CreatorsOf(p) # {} => client[p].phase = "open" /\ client[p].created # Chunks

FinalizesAlone(t) ==
  LET p == ops[t].path IN
  Finalizing(t) =>
    /\ client[p].phase = "finalizing"
    /\ \A u \in Threads : u # t => ops[u].pc = "idle" \/ ops[u].path # p
    /\ ops[t].pc # "abort" => client[p].written = Chunks
    /\ ops[t].pc = "rename" => p \in files
    /\ ops[t].pc = "renamed" => p \notin files

Unfinished(p) == client[p].phase \in {"open", "finalizing"}

\* A temporary file that was opened is there, or was renamed or given up.
Made(p) ==
  p \in files \/ (final[p] = Chunks /\ client[p].created = Chunks) \/ client[p].phase = "aborted"

\* What the server and the caches have of a file, given what its client was told.
ServerHas(p) ==
  /\ client[p].written \subseteq client[p].created
  /\ Overwrite(p) /\ client[p].created # {} => client[p].created = Chunks
  /\ final[p] \in {NoFile, OldFile, Chunks} /\ (Uptier(p) => final[p] # NoFile)
  /\ p \notin files => origin[p] = "none"
  /\ origin[p] = "none" => data[p] = {}
  /\ Unfinished(p) /\ p \in files => client[p].written \subseteq data[p]
  /\ client[p].phase = "committed" =>
       client[p].created = Chunks /\ (~Uptier(p) => final[p] = Chunks)
  /\ Unfinished(p) /\ client[p].created # {} =>
       /\ Uptier(p) \/ p \in files \/ (final[p] = Chunks /\ client[p].created = Chunks)
       /\ mode[p] = "overwrite" => final[p] # OldFile
       /\ Overwrite(p) => origin[p] # "earlier"
  /\ p \in CachedOk => ~Overwrite(p) /\ Made(p)

\* What an op has achieved on the server.
OpAchieves(t) ==
  LET p == ops[t].path IN
  /\ ~Overwrite(p) /\ ops[t].result \in {"ok", "cached", "handled"} => Made(p)
  /\ ~Overwrite(p) /\ ops[t].pc \in {"existing", "delete"} => ops[t].result = "ok"
  /\ Overwrite(p) /\ ops[t].pc \in {"delete", "make"} => p \notin files
  /\ mode[p] = "overwrite" /\ ops[t].pc = "make" => final[p] = NoFile
  /\ Overwrite(p) /\ ops[t].pc = "done" /\ ops[t].result = "handled" =>
       p \in files /\ origin[p] = "none" /\ (mode[p] = "overwrite" => final[p] = NoFile)

RestoreInv ==
  /\ FetchLocked /\ NoCreateCollision
  /\ \A p \in Paths : CreatesInTurn(p) /\ ServerHas(p)
  /\ \A t \in Threads : OpFollowsMode(t) /\ FinalizesAlone(t) /\ OpAchieves(t)

=============================================================================
