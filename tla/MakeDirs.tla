------------------------------ MODULE MakeDirs -------------------------------
(***************************************************************************)
(* MkDirWithParents (gpl_util/smb/util.cc): create a directory and its     *)
(* missing parents, and remove what was created when that fails.  Threads  *)
(* call it at the same time for paths that share parents, with no lock.    *)
(*                                                                         *)
(* Every call to the SMB server is a step.  The root of the share is not a *)
(* member of Dirs.                                                         *)
(***************************************************************************)
EXTENDS Integers, SequencesExt

CONSTANTS
  Threads,
  Dirs,          \* the directories
  Parent,        \* the parent of a directory, NoDir when it is the root
  NoDir

ASSUME DirsAssumption ==
  /\ NoDir \notin Dirs /\ Parent \in [Dirs -> Dirs \cup {NoDir}]
  \* no directory is below itself: the path of the parent is the shorter one
  /\ \A S \in SUBSET Dirs : S # {} => \E d \in S : Parent[d] \notin S

VARIABLES
  dirs,     \* the directories on the server
  calls,    \* the call of each thread
  before,   \* before[t]: what has been there since t's call began (history)
  failed    \* has the server failed a call for reasons of its own? (history)

vars == <<dirs, calls, before, failed>>

\* pc: "stat" looks whether path is there; "make" creates todo, which holds the
\* missing directories, the topmost first; "clean" removes newly_created_dirs.  own is
\* what the call created itself (history).
NoCall == [pc |-> "idle", path |-> NoDir, todo |-> <<>>, newly_created_dirs |-> <<>>,
           own |-> {}]

Children(d) == {e \in dirs : Parent[e] = d}

Init ==
  /\ dirs \in {S \in SUBSET Dirs : \A d \in S : Parent[d] \in S \cup {NoDir}}
  /\ calls = [t \in Threads |-> NoCall]
  /\ before = [t \in Threads |-> {}]
  /\ failed = FALSE

MkDirWithParents(t, d) ==
  /\ calls[t].pc = "idle"
  /\ calls' = [calls EXCEPT ![t] = [NoCall EXCEPT !.pc = "stat", !.path = d]]
  /\ before' = [before EXCEPT ![t] = dirs]
  /\ UNCHANGED <<dirs, failed>>

\* The call returns, or first cleans up.
Return(t) == calls' = [calls EXCEPT ![t] = NoCall] /\ before' = [before EXCEPT ![t] = {}]
GoOn(t, call) == calls' = [calls EXCEPT ![t] = call] /\ UNCHANGED before
Fail(t) == GoOn(t, [calls[t] EXCEPT !.pc = "clean"])

\* The server fails a call of thread t, which gives up.
ServerError(t) == Fail(t) /\ failed' = TRUE

\* MkDirWithParentsInternal on the way up: GetEntityMetadata of the path. A
\* directory that is there needs no parents.
StatDir(t) ==
  LET d == calls[t].path
      missing == [calls[t] EXCEPT !.todo = <<d>> \o @]
  IN
  /\ calls[t].pc = "stat"
  /\ \/ /\ d \in dirs
        /\ IF calls[t].todo = <<>> THEN Return(t)
                                   ELSE GoOn(t, [calls[t] EXCEPT !.pc = "make"])
        /\ UNCHANGED failed
     \/ /\ d \notin dirs
        /\ GoOn(t, IF Parent[d] = NoDir THEN [missing EXCEPT !.pc = "make"]
                                        ELSE [missing EXCEPT !.path = Parent[d]])
        /\ UNCHANGED failed
     \/ ServerError(t)
  /\ UNCHANGED dirs

\* The directory d of thread t is taken care of; created are those it created itself.
NextDir(t, d, created) ==
  IF Len(calls[t].todo) = 1
    THEN Return(t)
    ELSE GoOn(t, [calls[t] EXCEPT !.pc = "make", !.todo = Tail(@),
                    !.newly_created_dirs = Append(@, d), !.own = @ \cup created])

\* Mutant of CreateDirectoryWithChecks: a collision is an error.
CreateDirectoryNoChecks(t) ==
  LET d == Head(calls[t].todo) IN
  /\ calls[t].pc = "make"
  /\ \/ /\ d \notin dirs /\ Parent[d] \in dirs \cup {NoDir}
        /\ dirs' = dirs \cup {d}
        /\ NextDir(t, d, {d})
        /\ UNCHANGED failed
     \/ /\ d \in dirs \/ Parent[d] \notin dirs \cup {NoDir}
        /\ Fail(t)
        /\ UNCHANGED <<dirs, failed>>
     \/ ServerError(t) /\ UNCHANGED dirs

\* On the way down: CreateDirectoryWithChecks. When the directory has appeared
\* since, it is as good as created, and entered into newly_created_dirs.
CreateDirectoryWithChecks(t) ==
  LET d == Head(calls[t].todo) IN
  /\ calls[t].pc = "make"
  /\ \/ /\ d \notin dirs /\ Parent[d] \in dirs \cup {NoDir}
        /\ dirs' = dirs \cup {d}
        /\ NextDir(t, d, {d})
        /\ UNCHANGED failed
     \/ /\ d \in dirs
        /\ GoOn(t, [calls[t] EXCEPT !.pc = "check"])
        /\ UNCHANGED <<dirs, failed>>
     \/ /\ Parent[d] \notin dirs \cup {NoDir}
        /\ Fail(t)
        /\ UNCHANGED <<dirs, failed>>
     \/ ServerError(t) /\ UNCHANGED dirs

\* Its GetEntityMetadata after the collision.
CheckCollision(t) ==
  LET d == Head(calls[t].todo) IN
  /\ calls[t].pc = "check"
  /\ \/ d \in dirs /\ NextDir(t, d, {}) /\ UNCHANGED failed
     \/ d \notin dirs /\ Fail(t) /\ UNCHANGED failed
     \/ ServerError(t)
  /\ UNCHANGED dirs

\* Of what was there when a call began, a directory that is removed is no longer.
ForgetRemoved == before' = [u \in Threads |-> before[u] \cap dirs']

\* Mutant of CleanUp: all the missing directories are removed, up to the path.
CleanUpTooFar(t) ==
  LET path == calls[t].path IN
  /\ calls[t].pc = "clean"
  /\ dirs' = IF path \in dirs /\ Children(path) = {} THEN dirs \ {path} ELSE dirs
  /\ calls' = [calls EXCEPT ![t] = NoCall]
  /\ ForgetRemoved
  /\ UNCHANGED failed

\* MkDirWithParents cleans up, the last directory first; a directory that cannot
\* be removed ends it.
CleanUp(t) ==
  LET list == calls[t].newly_created_dirs
      d == Last(list)
      removable == list # <<>> /\ d \in dirs /\ Children(d) = {}
  IN
  /\ calls[t].pc = "clean"
  /\ \/ /\ removable
        /\ dirs' = dirs \ {d}
        /\ calls' = [calls EXCEPT ![t].newly_created_dirs = Front(@)]
        /\ ForgetRemoved
        /\ UNCHANGED failed
     \/ /\ Return(t)
        /\ failed' = (failed \/ removable)
        /\ UNCHANGED dirs

MakeDirStep(t) ==
  \/ \E d \in Dirs : MkDirWithParents(t, d)
  \/ StatDir(t)
  \/ CreateDirectoryWithChecks(t)
  \/ CheckCollision(t)
  \/ CleanUp(t)

Next == \E t \in Threads : MakeDirStep(t)

Spec == Init /\ [][Next]_vars

-----------------------------------------------------------------------------
CallType ==
  [pc: {"idle", "stat", "make", "check", "clean"}, path: Dirs \cup {NoDir}, todo: Seq(Dirs),
   newly_created_dirs: Seq(Dirs), own: SUBSET Dirs]

TypeOK ==
  /\ dirs \subseteq Dirs /\ before \in [Threads -> SUBSET Dirs] /\ failed \in BOOLEAN
  /\ calls \in [Threads -> CallType]
  /\ \A t \in Threads :
       /\ calls[t].pc \in {"make", "check"} => calls[t].todo # <<>>
       /\ calls[t].pc = "stat" => calls[t].path \in Dirs

\* As long as the server has failed no call, the "race between multiple threads
\* trying to create same directory" makes none fail.
RaceIsHarmless ==
  ~failed => \A t \in Threads : calls[t].pc # "clean"

\* "We do not remove directories that already existed before this function call":
\* what has been there since the call began is not removed by its clean-up.
ExistingKept ==
  [][\A t \in Threads : calls[t].pc = "clean" /\ calls'[t] # calls[t]
       => before[t] \subseteq dirs']_vars

\* The clean-up removes "newly created dirs" of its own call only: another call
\* may have told its caller that the directory is there.
CleansUpOwn ==
  [][\A t \in Threads : calls[t].pc = "clean" /\ calls'[t] # calls[t]
       => dirs \ dirs' \subseteq calls[t].own]_vars

-----------------------------------------------------------------------------
\* Why ExistingKept holds: what a call creates, or takes for created, was missing when
\* it looked, and so after the call began.
CreatesMissing ==
  \A t \in Threads :
    /\ before[t] \subseteq dirs
    /\ ToSet(calls[t].todo) \cap before[t] = {}
    /\ ToSet(calls[t].newly_created_dirs) \cap before[t] = {}

\* Why RaceIsHarmless holds: todo is a path, and the parent of its first directory is there.
OnPath(c) ==
  /\ c.pc # "clean"
  /\ \A k \in 1..(Len(c.todo) - 1) : Parent[c.todo[k + 1]] = c.todo[k]
  /\ c.pc \in {"make", "check"} => Parent[Head(c.todo)] \in dirs \cup {NoDir}
  /\ c.pc = "check" => Head(c.todo) \in dirs
  /\ c.pc = "stat" /\ c.todo # <<>> => c.path = Parent[Head(c.todo)]

PathToMake == \A t \in Threads : OnPath(calls[t])

=============================================================================
