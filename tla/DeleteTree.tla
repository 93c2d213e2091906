----------------------------- MODULE DeleteTree ------------------------------
(***************************************************************************)
(* DeleteEntityOp of a directory (gpl_util/smb/ops/delete_entity_op.cc):   *)
(* list a part of the directory, delete what was listed, subdirectories by *)
(* recursion, ask for the next part with the cookie, and delete the empty  *)
(* directory in the end, while threads in MkDirWithParents and other       *)
(* deletions change the same tree.                                         *)
(*                                                                         *)
(* Every call to the server is a step that may fail.  A listing names each *)
(* entry once; an entry that appears or disappears while it runs may be in *)
(* it or not.  While a listing is not at its end it keeps a connection.    *)
(***************************************************************************)
EXTENDS MakeDirs

CONSTANTS
  Deleters,    \* the threads that may call SmbProxyDeleteEntity
  Files,       \* the files that may be there in the beginning
  DirOf,       \* the directory of a file
  ReadOnly,    \* the files that cannot be deleted before their attributes are cleared
  PageSize,    \* the most that one call lists
  RootDir      \* is header.root_dir set?

ASSUME TreeAssumption ==
  /\ Deleters \subseteq Threads
  /\ Dirs \cap Files = {} /\ DirOf \in [Files -> Dirs] /\ ReadOnly \subseteq Files
  /\ PageSize \in Nat \ {0} /\ RootDir \in BOOLEAN

VARIABLES
  files,       \* the files on the server
  readonly,    \* those among them that cannot be deleted
  ops,         \* the op of each deleter
  disturbed    \* deleters whose op ran when somebody else changed the tree (history)

treeVars == <<files, readonly, ops, disturbed>>
allVars == <<vars, treeVars>>

\* A frame of DeleteDir's recursion: todo is what the last call listed, seen all that
\* was listed so far, and cookie says whether there is more.
Frame(d) == [dir |-> d, todo |-> {}, seen |-> {}, cookie |-> TRUE]

\* pc: "list" and "child" in the loop, "clear" and "again" in DeleteFile of file.
\* leftover holds the directories whose listing was left open by the op.
NoOp == [pc |-> "idle", frames |-> <<>>, file |-> NoDir, result |-> "none", leftover |-> {}]

TreeInit ==
  /\ Init
  /\ files = {f \in Files : DirOf[f] \in dirs}
  /\ readonly = files \cap ReadOnly
  /\ ops = [e \in Deleters |-> NoOp]
  /\ disturbed = {}

Entries(d) == Children(d) \cup {f \in files : DirOf[f] = d}
Running(e) == ops[e].pc # "idle"
Top(e) == Last(ops[e].frames)

\* The other ops that run notice a change of the tree.
Disturb(e) == disturbed' = disturbed \cup {o \in Deleters \ {e} : Running(o)}

\* The op goes on with frame f in place of the last one.
WithTop(e, pc, f) ==
  ops' = [ops EXCEPT ![e].pc = pc, ![e].frames = Append(Front(@), f)]

\* DeleteDir returns an error from every frame; listings that are not at their end
\* stay open.
ReturnError(e) ==
  LET open == {k \in DOMAIN ops[e].frames :
                 ops[e].frames[k].cookie /\ ops[e].frames[k].seen # {}} IN
  ops' = [ops EXCEPT ![e] = [NoOp EXCEPT !.result = "error",
                               !.leftover = {ops[e].frames[k].dir : k \in open}]]

SmbProxyDeleteEntity(e, d) ==
  /\ ops[e].pc = "idle" /\ ops[e].result = "none" /\ calls[e].pc = "idle" /\ d \in dirs
  /\ ops' = [ops EXCEPT ![e] = [NoOp EXCEPT !.pc = "list", !.frames = <<Frame(d)>>]]
  /\ UNCHANGED <<vars, files, readonly, disturbed>>

\* SmbProxyFetchChildrenMetadata with the path and the header of the op.  The path has
\* the root directory in it already, so that a root_dir makes it another path, where
\* there is nothing.  An error, with or without a lost connection, is not looked at.
ListChildren(e) ==
  LET f == Top(e)
      rest == Entries(f.dir) \ f.seen
  IN
  /\ ops[e].pc = "list"
  /\ \/ /\ ~RootDir /\ f.dir \in dirs
        /\ \E page \in SUBSET rest :
             /\ Cardinality(page) <= PageSize
             /\ \E more \in BOOLEAN :
                  /\ more => page # {}
                  /\ ~more => page = rest
                  /\ \E skipped \in SUBSET page :   \* children with an error
                       /\ WithTop(e, "child", [f EXCEPT !.todo = page \ skipped,
                                         !.seen = @ \cup page, !.cookie = more])
                       /\ failed' = (failed \/ skipped # {})
     \/ /\ WithTop(e, "child", [f EXCEPT !.cookie = FALSE])
        /\ failed' = (failed \/ (~RootDir /\ f.dir \in dirs))
  /\ UNCHANGED <<dirs, calls, before, files, readonly, disturbed>>

\* Mutant of NextPage: the cookie in the result is not used.
NextPageNever(e) ==
  /\ ops[e].pc = "child" /\ Top(e).todo = {} /\ Top(e).cookie
  /\ WithTop(e, "child", [Top(e) EXCEPT !.cookie = FALSE])
  /\ UNCHANGED <<vars, files, readonly, disturbed>>

\* Mutant of NextPage: the listing begins again.
NextPageRestarts(e) ==
  /\ ops[e].pc = "child" /\ Top(e).todo = {} /\ Top(e).cookie
  /\ WithTop(e, "list", [Top(e) EXCEPT !.seen = {}])
  /\ UNCHANGED <<vars, files, readonly, disturbed>>

\* All that was listed is deleted, and there is a cookie.
NextPage(e) ==
  /\ ops[e].pc = "child" /\ Top(e).todo = {} /\ Top(e).cookie
  /\ ops' = [ops EXCEPT ![e].pc = "list"]
  /\ UNCHANGED <<vars, files, readonly, disturbed>>

DeleteSubdir(e) ==
  /\ ops[e].pc = "child"
  /\ \E d \in Top(e).todo \cap Dirs :
       ops' = [ops EXCEPT ![e].pc = "list", ![e].frames = Append(@, Frame(d))]
  /\ UNCHANGED <<vars, files, readonly, disturbed>>

\* DeleteFileHelper(x): the file is deleted, or the op ends with the error.
FileDeleted(e, x) ==
  /\ x \in files \ readonly
  /\ files' = files \ {x}
  /\ WithTop(e, "child", [Top(e) EXCEPT !.todo = @ \ {x}])
  /\ Disturb(e) /\ UNCHANGED <<failed, readonly>>

FileNotDeleted(e, x) ==
  /\ ReturnError(e)
  /\ failed' = (failed \/ x \in files \ readonly)
  /\ UNCHANGED <<files, readonly, disturbed>>

\* DeleteFile: DeleteFileHelper, and once more after ClearFileAttributes when the
\* error is kCannotDelete.
DeleteFile(e) ==
  /\ ops[e].pc = "child"
  /\ \E x \in Top(e).todo \cap Files :
       \/ FileDeleted(e, x)
       \/ x \notin readonly /\ FileNotDeleted(e, x)
       \/ /\ x \in readonly
          /\ ops' = [ops EXCEPT ![e].pc = "clear", ![e].file = x]
          /\ UNCHANGED <<files, readonly, failed, disturbed>>
  /\ UNCHANGED <<dirs, calls, before>>

\* The error of the deletion is returned when the attributes cannot be cleared.
ClearFileAttributes(e) ==
  LET x == ops[e].file IN
  /\ ops[e].pc = "clear"
  /\ \/ /\ x \in files
        /\ readonly' = readonly \ {x}
        /\ ops' = [ops EXCEPT ![e].pc = "again"]
        /\ UNCHANGED failed
     \/ /\ ReturnError(e)
        /\ failed' = (failed \/ x \in files)
        /\ UNCHANGED readonly
  /\ UNCHANGED <<dirs, calls, before, files, disturbed>>

DeleteFileAgain(e) ==
  LET x == ops[e].file IN
  /\ ops[e].pc = "again"
  /\ FileDeleted(e, x) \/ FileNotDeleted(e, x)
  /\ UNCHANGED <<dirs, calls, before>>

\* DeleteDir returns to the frame that called it, or the op is done.
ReturnOk(e) ==
  LET outer == Front(ops[e].frames) IN
  ops' = [ops EXCEPT ![e] =
    IF outer = <<>> THEN [NoOp EXCEPT !.result = "ok"]
    ELSE [@ EXCEPT !.pc = "child",
            !.frames = Append(Front(outer), [Last(outer) EXCEPT !.todo = @ \ {Top(e).dir}])]]

\* Mutant of DeleteEmptyDir: its error is not returned.
DeleteEmptyDirIgnored(e) ==
  LET d == Top(e).dir IN
  /\ ops[e].pc = "child" /\ Top(e).todo = {} /\ ~Top(e).cookie
  /\ ReturnOk(e)
  /\ dirs' = IF Entries(d) = {} THEN dirs \ {d} ELSE dirs
  /\ ForgetRemoved
  /\ UNCHANGED <<calls, files, readonly, failed, disturbed>>

\* DeleteEmptyDir: the server deletes no directory that has entries.
DeleteEmptyDir(e) ==
  LET d == Top(e).dir IN
  /\ ops[e].pc = "child" /\ Top(e).todo = {} /\ ~Top(e).cookie
  /\ \/ /\ d \in dirs /\ Entries(d) = {}
        /\ dirs' = dirs \ {d}
        /\ ForgetRemoved
        /\ ReturnOk(e) /\ Disturb(e)
        /\ UNCHANGED failed
     \/ /\ ReturnError(e)
        /\ failed' = (failed \/ (d \in dirs /\ Entries(d) = {}))
        /\ UNCHANGED <<dirs, before, disturbed>>
  /\ UNCHANGED <<calls, files, readonly>>

DeleteStep(e) ==
  \/ ListChildren(e) \/ NextPage(e) \/ DeleteSubdir(e) \/ DeleteFile(e)
  \/ ClearFileAttributes(e) \/ DeleteFileAgain(e) \/ DeleteEmptyDir(e)

\* A step of MkDirWithParents, which may disturb an op.  A thread runs one RPC at a time.
MakeStep ==
  /\ \E t \in Threads : (t \in Deleters => ~Running(t)) /\ MakeDirStep(t)
  /\ disturbed' = IF dirs' = dirs THEN disturbed
                  ELSE disturbed \cup {e \in Deleters : Running(e)}
  /\ UNCHANGED <<files, readonly, ops>>

TreeNext ==
  \/ MakeStep
  \/ \E e \in Deleters : (\E d \in Dirs : SmbProxyDeleteEntity(e, d)) \/ DeleteStep(e)

TreeSpec == TreeInit /\ [][TreeNext]_allVars

\* A thread in an RPC goes on.
TreeFairSpec == TreeSpec /\ \A e \in Deleters : WF_allVars(DeleteStep(e))

-----------------------------------------------------------------------------
FrameType ==
  [dir: Dirs, todo: SUBSET (Dirs \cup Files), seen: SUBSET (Dirs \cup Files), cookie: BOOLEAN]
OpType ==
  [pc: {"idle", "list", "child", "clear", "again"}, frames: Seq(FrameType),
   file: Files \cup {NoDir}, result: {"none", "ok", "error"}, leftover: SUBSET Dirs]

TreeTypeOK ==
  /\ TypeOK /\ files \subseteq Files /\ readonly \subseteq Files /\ disturbed \subseteq Deleters
  /\ ops \in [Deleters -> OpType]
  /\ \A e \in Deleters :
       /\ Running(e) => ops[e].frames # <<>>
       /\ ops[e].pc \in {"clear", "again"} => ops[e].file \in Files

\* "If the directory is not empty, it deletes all the children entities first, and then
\* deletes the directory": as long as the server does what it is asked, and nobody
\* else changes the tree, a deletion succeeds, however many calls its listings take.
DeleteSucceeds ==
  ~failed => \A e \in Deleters \ disturbed : ops[e].result # "error"

\* As long as nothing is deleted, the "race between multiple threads trying to create
\* same directory" makes no MkDirWithParents fail.
MakeRaceIsHarmless == (\A e \in Deleters : ops[e] = NoOp) => RaceIsHarmless

\* An op that ignored an error of a listing, or of a child, does not report success
\* for a directory with something left in it: the directory is gone when it returns.
OkMeansGone ==
  [][\A e \in Deleters : ops'[e].result = "ok" /\ ops[e].result # "ok" =>
       \E d \in Dirs : /\ ops[e].frames[1].dir = d /\ d \notin dirs'
                       /\ \A f \in files' : DirOf[f] # d
                       /\ \A c \in dirs' : Parent[c] # d]_allVars

\* "If we let the alarm handler to purge instead, it will need to close it because it
\* will be treated as left over handle": an op leaves no listing open when it returns.
ClosesListings == \A e \in Deleters : ops[e].leftover = {}

-----------------------------------------------------------------------------
(***************************************************************************)
(* Why MakeRaceIsHarmless and DeleteSucceeds hold.                         *)
(***************************************************************************)
MakeInv == ~failed /\ (\A e \in Deleters : ops[e] = NoOp) => PathToMake

\* A frame of an op that nobody disturbs knows what is in its directory: todo is what
\* it has listed and not deleted yet, and after the last call everything was listed.
FrameKnows(f) ==
  /\ f.dir \in dirs
  /\ f.todo = Entries(f.dir) \cap f.seen
  /\ ~f.cookie => Entries(f.dir) \subseteq f.seen

OpKnows(o) ==
  /\ \A k \in DOMAIN o.frames : FrameKnows(o.frames[k])
  /\ \A k \in 1..(Len(o.frames) - 1) : o.frames[k + 1].dir \in o.frames[k].todo
  /\ o.pc = "list" => Last(o.frames).todo = {} /\ Last(o.frames).cookie
  /\ o.pc \in {"clear", "again"} => o.file \in Last(o.frames).todo
  /\ o.pc = "again" => o.file \notin readonly

DeleteInv ==
  ~failed => \A e \in Deleters \ disturbed :
               ops[e].result # "error" /\ (Running(e) => OpKnows(ops[e]))

-----------------------------------------------------------------------------
\* Every op returns, also while others add to the tree.
DeleteReturns == \A e \in Deleters : Running(e) ~> ~Running(e)

=============================================================================
