--------------------------- MODULE ConnectionPool ----------------------------
(***************************************************************************)
(* The SMB connections of SmbProxy (gpl_util/smb/smb_proxy.{h,cc}): the    *)
(* task cache, the connections each task keeps for reuse, the RPC handlers *)
(* that take connections out of it and put them back, SmbProxyPurgeTask    *)
(* and the periodic AlarmHandler.                                          *)
(*                                                                         *)
(* A thread is a gRPC polling thread; it runs one RPC at a time.  A step   *)
(* is a section under state_->mutex_ (the map) or under a TaskCacheEntry's *)
(* mutex (its two collections), or the use of a connection in between;     *)
(* nothing is locked while a connection is used.                           *)
(*                                                                         *)
(* Times are kept as ages: the ticks since the last access, up to the      *)
(* largest age the code can tell apart.  A connection is its               *)
(* creation_time_usecs, which the code takes to be unique.                 *)
(***************************************************************************)
EXTENDS Integers, SequencesExt

CONSTANTS
  Threads,       \* the gRPC polling threads
  Tasks,         \* the task keys
  Entries,       \* the TaskCacheEntry objects
  Conns,         \* the SmbConnection objects; bounds how many are ever created
  Dirs,          \* the directories that clients list
  NoEntry, NoConn, NoDir,
  Rpcs,          \* the kinds of RPC the clients send
  Resend,        \* may a client send a cookie again, having lost the response?
  LongRpcs,      \* may an RPC outlast smb_proxy_task_cache_inactive_secs?
  PurgeBusy,     \* may a client purge a task that still has RPCs or listings?
  TaskInactive,  \* smb_proxy_task_cache_inactive_secs, in ticks
  ConnInactive,  \* smb_proxy_connection_cache_inactive_secs, in ticks
  MaxLag,        \* bound on the ticks AlarmHandler waits for a lock
  MaxFetched     \* bound on children_fetched

ASSUME PoolAssumption ==
  /\ NoEntry \notin Entries /\ NoConn \notin Conns /\ NoDir \notin Dirs /\ Tasks # {}
  /\ Rpcs \subseteq {"root", "file", "list", "create", "purge"}
  /\ {Resend, LongRpcs, PurgeBusy} \subseteq BOOLEAN
  /\ {TaskInactive, ConnInactive, MaxLag, MaxFetched} \subseteq Nat

VARIABLES
  task_cache_map,  \* the TaskCacheEntry of each task, or NoEntry
  entries,         \* the contents of the TaskCacheEntry objects
  conns,           \* the contents of the SmbConnection objects
  threads,         \* what each thread is doing
  cookies          \* the listings that clients can ask to continue

vars == <<task_cache_map, entries, conns, threads, cookies>>

NewEntry == [active |-> {}, inactive |-> <<>>, idle |-> 0]
NewConn == [status |-> "none", idle |-> 0, dir |-> NoDir, fetched |-> 0]

\* pc: "entry" has the task's entry and waits for its mutex; "using" has the
\* connection; "drop" has shut it down; "release" has looked the entry up again
\* to give the connection back; "purge" has taken the entry out of the map.
Idle == [pc |-> "idle", rpc |-> "none", task |-> CHOOSE k \in Tasks : TRUE,
         dir |-> NoDir, cookie |-> NoConn, fetched |-> 0,
         entry |-> NoEntry, conn |-> NoConn, reuse |-> TRUE]

Init ==
  /\ task_cache_map = [k \in Tasks |-> NoEntry]
  /\ entries = [e \in Entries |-> NewEntry]
  /\ conns = [c \in Conns |-> NewConn]
  /\ threads = [t \in Threads |-> Idle]
  /\ cookies = {}

-----------------------------------------------------------------------------
\* Helpers

Pooled(e) == ToSet(entries[e].inactive)

Mapped == {e \in Entries : \E k \in Tasks : task_cache_map[k] = e}

Holds(t, c) == threads[t].pc \in {"using", "drop", "release"} /\ threads[t].conn = c

Busy(k) == \E t \in Threads : threads[t].pc # "idle" /\ threads[t].task = k

\* ShutdownSmbConnection: closes the handles and the connection. dir_handle is
\* left as it was.
Shutdown(cs, S) == [c \in Conns |-> IF c \in S THEN [cs[c] EXCEPT !.status = "closed"]
                                               ELSE cs[c]]

\* An entry object no shared_ptr refers to.
FreeEntries ==
  {e \in Entries \ Mapped :
     \A t \in Threads : threads[t].pc \in {"entry", "release", "purge"} => threads[t].entry # e}

-----------------------------------------------------------------------------
\* GetOrCreateSmbConnection, first section (under mutex_): find or create the
\* task's entry and refresh its access time.
GetTaskEntry(t, r, k, d, c, n) ==
  /\ threads[t].pc = "idle"
  /\ \E e \in IF task_cache_map[k] = NoEntry THEN FreeEntries ELSE {task_cache_map[k]} :
       /\ task_cache_map' = [task_cache_map EXCEPT ![k] = e]
       /\ entries' = [entries EXCEPT ![e] =
                        [(IF task_cache_map[k] = NoEntry THEN NewEntry ELSE @)
                           EXCEPT !.idle = 0]]
       /\ threads' = [threads EXCEPT ![t] =
                        [Idle EXCEPT !.pc = "entry", !.rpc = r, !.task = k, !.dir = d,
                                     !.cookie = c, !.fetched = n, !.entry = e]]
  /\ UNCHANGED conns

\* An RPC that opens with any connection of the task.
StartRpc(t, r, k) ==
  /\ r \in Rpcs \ {"purge", "list"}
  /\ GetTaskEntry(t, r, k, NoDir, NoConn, 0)
  /\ UNCHANGED cookies

\* SmbProxyFetchChildrenMetadata from the beginning of directory d.
StartListing(t, k, d) ==
  /\ "list" \in Rpcs
  /\ GetTaskEntry(t, "list", k, d, NoConn, 0)
  /\ UNCHANGED cookies

\* SmbProxyFetchChildrenMetadata with a cookie from an earlier response. A
\* client that lost the response to this call may send the cookie again.
ContinueListing(t, ck) ==
  /\ GetTaskEntry(t, "list", ck.task, ck.dir, ck.conn, ck.fetched)
  /\ cookies' = IF Resend THEN cookies ELSE cookies \ {ck}

\* Second section (under the entry's mutex). With a cookie: the connection must
\* be active and at the same position.
FindByCookie(t) ==
  LET e == threads[t].entry
      c == threads[t].cookie
  IN
  /\ threads[t].pc = "entry" /\ c # NoConn
  /\ IF c \notin entries[e].active
       THEN /\ threads' = [threads EXCEPT ![t] = Idle]
            /\ UNCHANGED <<entries, conns>>
     ELSE IF conns[c].fetched # threads[t].fetched
       THEN /\ conns' = Shutdown(conns, {c})
            /\ entries' = [entries EXCEPT ![e].active = @ \ {c}]
            /\ threads' = [threads EXCEPT ![t] = Idle]
     ELSE /\ conns' = [conns EXCEPT ![c].idle = 0]
          /\ threads' = [threads EXCEPT ![t].pc = "using", ![t].conn = c,
                                        ![t].entry = NoEntry]
          /\ UNCHANGED entries
  /\ UNCHANGED <<task_cache_map, cookies>>

\* Mutant of ReuseInactive: the connection stays in the inactive list.
ReuseInactiveNoErase(t) ==
  LET e == threads[t].entry IN
  /\ threads[t].pc = "entry" /\ threads[t].cookie = NoConn
  /\ \E c \in Pooled(e) :
       /\ entries' = [entries EXCEPT ![e].active = @ \cup {c}]
       /\ threads' = [threads EXCEPT ![t].pc = "using", ![t].conn = c,
                                     ![t].entry = NoEntry]
  /\ UNCHANGED <<task_cache_map, conns, cookies>>

\* Without: an inactive connection, the one with the file's cached handle if
\* there is one (file RPCs), else the first.
ReuseInactive(t) ==
  LET e == threads[t].entry
      list == entries[e].inactive
  IN
  /\ threads[t].pc = "entry" /\ threads[t].cookie = NoConn
  /\ \E i \in DOMAIN list :
       /\ i = 1 \/ threads[t].rpc = "file"
       /\ entries' = [entries EXCEPT ![e].active = @ \cup {list[i]},
                                     ![e].inactive = RemoveAt(list, i)]
       /\ conns' = [conns EXCEPT ![list[i]].idle = 0]
       /\ threads' = [threads EXCEPT ![t].pc = "using", ![t].conn = list[i],
                                     ![t].entry = NoEntry]
  /\ UNCHANGED <<task_cache_map, cookies>>

\* Else a new connection.
CreateConnection(t) ==
  LET e == threads[t].entry IN
  /\ threads[t].pc = "entry" /\ threads[t].cookie = NoConn
  /\ entries[e].inactive = <<>>
  /\ \E c \in Conns :
       /\ conns[c].status = "none"
       /\ conns' = [conns EXCEPT ![c].status = "open"]
       /\ entries' = [entries EXCEPT ![e].active = @ \cup {c}]
       /\ threads' = [threads EXCEPT ![t].pc = "using", ![t].conn = c,
                                     ![t].entry = NoEntry]
  /\ UNCHANGED <<task_cache_map, cookies>>

\* All retries of the connect failed; the RPC returns the error.
CreateFails(t) ==
  /\ threads[t].pc = "entry" /\ threads[t].cookie = NoConn
  /\ entries[threads[t].entry].inactive = <<>>
  /\ threads' = [threads EXCEPT ![t] = Idle]
  /\ UNCHANGED <<task_cache_map, entries, conns, cookies>>

-----------------------------------------------------------------------------
\* Mutant of LookupForRelease: dir_handle is not reset.
LookupForReleaseKeepsDir(t, cs, reuse) ==
  LET c == threads[t].conn
      e == task_cache_map[threads[t].task]
  IN
  /\ conns' = [cs EXCEPT ![c].fetched = 0]
  /\ threads' = [threads EXCEPT ![t] =
                   IF e = NoEntry
                     THEN Idle
                     ELSE [@ EXCEPT !.pc = "release", !.entry = e, !.reuse = reuse]]
  /\ UNCHANGED <<task_cache_map, entries, cookies>>

\* ReleaseSmbConnection, first section (under mutex_): forget the listing, look
\* the task up again. cs is the connections so far.
LookupForRelease(t, cs, reuse) ==
  LET c == threads[t].conn
      e == task_cache_map[threads[t].task]
  IN
  /\ conns' = [cs EXCEPT ![c].dir = NoDir, ![c].fetched = 0]
  /\ threads' = [threads EXCEPT ![t] =
                   IF e = NoEntry
                     THEN Idle
                     ELSE [@ EXCEPT !.pc = "release", !.entry = e, !.reuse = reuse]]
  /\ UNCHANGED <<task_cache_map, entries, cookies>>

\* Second section (under the entry's mutex).
ReleaseSmbConnection(t) ==
  LET e == threads[t].entry
      c == threads[t].conn
  IN
  /\ threads[t].pc = "release"
  /\ entries' = [entries EXCEPT ![e].active = @ \ {c},
                                ![e].inactive = IF threads[t].reuse THEN Append(@, c) ELSE @]
  /\ conns' = IF threads[t].reuse THEN [conns EXCEPT ![c].idle = 0] ELSE conns
  /\ threads' = [threads EXCEPT ![t] = Idle]
  /\ UNCHANGED <<task_cache_map, cookies>>

\* The RPC is done with the connection and keeps it for reuse. A listing gets
\* here at the end of the directory and on errors that leave the connection
\* usable.
FinishRpc(t) ==
  /\ threads[t].pc = "using" /\ threads[t].rpc # "create"
  /\ LookupForRelease(t, conns, TRUE)

\* The connection turned out unusable, or the listing failed half way: shut
\* it down, then release it without reuse.
ShutdownInRpc(t) ==
  /\ threads[t].pc = "using" /\ threads[t].rpc \in {"file", "list"}
  /\ conns' = Shutdown(conns, {threads[t].conn})
  /\ threads' = [threads EXCEPT ![t].pc = "drop"]
  /\ UNCHANGED <<task_cache_map, entries, cookies>>

ReleaseAfterShutdown(t) ==
  /\ threads[t].pc = "drop"
  /\ LookupForRelease(t, conns, FALSE)

\* SmbProxyFetchChildrenMetadata: UpdateTaskAccessTime while it goes through the
\* children.
ListProgress(t) ==
  LET e == task_cache_map[threads[t].task] IN
  /\ threads[t].pc = "using" /\ threads[t].rpc = "list"
  /\ e # NoEntry
  /\ entries' = [entries EXCEPT ![e].idle = 0]
  /\ UNCHANGED <<task_cache_map, conns, threads, cookies>>

\* SmbProxyFetchChildrenMetadata returns a batch and a cookie; the connection
\* stays in active_connection_map with its directory handle open.
KeepListing(t) ==
  LET c == threads[t].conn
      d == IF conns[c].dir = NoDir THEN threads[t].dir ELSE conns[c].dir
      n == conns[c].fetched + 1
  IN
  /\ threads[t].pc = "using" /\ threads[t].rpc = "list"
  /\ n <= MaxFetched
  /\ conns' = [conns EXCEPT ![c].dir = d, ![c].fetched = n]
  /\ cookies' = cookies \cup {[task |-> threads[t].task, dir |-> threads[t].dir,
                               conn |-> c, fetched |-> n]}
  /\ threads' = [threads EXCEPT ![t] = Idle]
  /\ UNCHANGED <<task_cache_map, entries>>

\* SmbProxyCreateEntity returns without releasing its connection.
FinishCreateEntity(t) ==
  /\ threads[t].pc = "using" /\ threads[t].rpc = "create"
  /\ threads' = [threads EXCEPT ![t] = Idle]
  /\ UNCHANGED <<task_cache_map, entries, conns, cookies>>

-----------------------------------------------------------------------------
\* A client done with task k: none of its RPCs is running and it finished its
\* listings.
Finished(k) == ~Busy(k) /\ \A ck \in cookies : ck.task # k

\* SmbProxyPurgeTask, first section (under mutex_).
PurgeTask(t, k) ==
  /\ "purge" \in Rpcs
  /\ threads[t].pc = "idle"
  /\ task_cache_map[k] # NoEntry
  /\ PurgeBusy \/ Finished(k)
  /\ task_cache_map' = [task_cache_map EXCEPT ![k] = NoEntry]
  /\ threads' = [threads EXCEPT ![t] = [Idle EXCEPT !.pc = "purge", !.rpc = "purge",
                                             !.task = k, !.entry = task_cache_map[k]]]
  /\ UNCHANGED <<entries, conns, cookies>>

\* Mutant of PurgeAll: the inactive connections are only dropped.
PurgeAllActiveOnly(cs, e) == Shutdown(cs, entries[e].active)

\* The connections after PurgeTaskAndAllConnections(e) shut down those of e.
PurgeAll(cs, e) == Shutdown(cs, entries[e].active \cup Pooled(e))

\* PurgeTaskAndAllConnections without force: it refuses if the task has active
\* connections.
PurgeConnections(t) ==
  LET e == threads[t].entry IN
  /\ threads[t].pc = "purge"
  /\ IF entries[e].active # {}
       THEN UNCHANGED <<entries, conns>>
       ELSE /\ conns' = PurgeAll(conns, e)
            /\ entries' = [entries EXCEPT ![e].active = {}, ![e].inactive = <<>>]
  /\ threads' = [threads EXCEPT ![t] = Idle]
  /\ UNCHANGED <<task_cache_map, cookies>>

\* The list without the members of S, in the same order.
Without(list, S) ==
  LET keep == {i \in DOMAIN list : list[i] \notin S}
      rank(i) == Cardinality({j \in keep : j <= i})
  IN [n \in 1..Cardinality(keep) |-> list[CHOOSE i \in keep : rank(i) = n]]

\* The idle connections that MaybePurgeTaskIdleConnections(e) shuts down, when
\* it waited lag ticks for the entry's mutex.
IdleConns(e, lag) == {c \in Pooled(e) : conns[c].idle - lag > ConnInactive}

\* Mutants of IdleTasks: a task is inactive one tick early; a task with active
\* connections never is.
IdleTasksTooEarly(lag) ==
  {k \in Tasks : /\ task_cache_map[k] # NoEntry
                 /\ entries[task_cache_map[k]].idle - lag >= TaskInactive}
IdleTasksUnlessActive(lag) ==
  {k \in Tasks : /\ task_cache_map[k] # NoEntry
                 /\ entries[task_cache_map[k]].active = {}
                 /\ entries[task_cache_map[k]].idle - lag > TaskInactive}

\* The tasks AlarmHandler purges, when it read the clock lag ticks before it got
\* mutex_.
IdleTasks(lag) ==
  {k \in Tasks : /\ task_cache_map[k] # NoEntry
                 /\ entries[task_cache_map[k]].idle - lag > TaskInactive}

\* AlarmHandler, under mutex_ throughout: purges inactive tasks by force, and the
\* idle connections of the others.
AlarmHandler(lag, connLag) ==
  LET idle == IdleTasks(lag)
      purged == {task_cache_map[k] : k \in idle}
      kept == Mapped \ purged
  IN
  /\ task_cache_map' = [k \in Tasks |-> IF k \in idle THEN NoEntry ELSE task_cache_map[k]]
  /\ conns' = Shutdown(conns, (UNION {entries[e].active \cup Pooled(e) : e \in purged})
                              \cup (UNION {IdleConns(e, connLag) : e \in kept}))
  /\ entries' = [e \in Entries |->
       IF e \in purged THEN [entries[e] EXCEPT !.active = {}, !.inactive = <<>>]
       ELSE IF e \in kept
         THEN [entries[e] EXCEPT !.inactive = Without(@, IdleConns(e, connLag))]
       ELSE entries[e]]
  /\ UNCHANGED <<threads, cookies>>

\* Time passes. Unless LongRpcs, an RPC ends or refreshes its task's access time
\* before the task would count as inactive.
Tick ==
  /\ \A k \in Tasks : ~LongRpcs /\ Busy(k) /\ task_cache_map[k] # NoEntry
                        => entries[task_cache_map[k]].idle < TaskInactive
  /\ entries' = [e \in Entries |->
       IF e \in Mapped /\ entries[e].idle <= TaskInactive + MaxLag
         THEN [entries[e] EXCEPT !.idle = @ + 1] ELSE entries[e]]
  /\ conns' = [c \in Conns |->
       IF (\E e \in Mapped : c \in Pooled(e)) /\ conns[c].idle <= ConnInactive + MaxLag
         THEN [conns[c] EXCEPT !.idle = @ + 1] ELSE conns[c]]
  /\ UNCHANGED <<task_cache_map, threads, cookies>>

ThreadStep(t) ==
  \/ FindByCookie(t)
  \/ ReuseInactive(t)
  \/ CreateConnection(t)
  \/ CreateFails(t)
  \/ ReleaseSmbConnection(t)
  \/ FinishRpc(t)
  \/ ShutdownInRpc(t)
  \/ ReleaseAfterShutdown(t)
  \/ KeepListing(t)
  \/ FinishCreateEntity(t)
  \/ PurgeConnections(t)

ClientRequest(t) ==
  \/ \E k \in Tasks : \/ \E r \in Rpcs : StartRpc(t, r, k)
                      \/ \E d \in Dirs : StartListing(t, k, d)
                      \/ PurgeTask(t, k)
  \/ \E ck \in cookies : ContinueListing(t, ck)

Next ==
  \/ \E t \in Threads : ThreadStep(t) \/ ListProgress(t) \/ ClientRequest(t)
  \/ \E lag, connLag \in 0..MaxLag : AlarmHandler(lag, connLag)
  \/ Tick

Spec == Init /\ [][Next]_vars

\* Threads run, time passes, and the alarm thread keeps calling AlarmHandler and
\* now and then gets its locks without delay. Clients promise nothing.
Fairness ==
  /\ \A t \in Threads : WF_vars(ThreadStep(t))
  /\ WF_vars(AlarmHandler(0, 0))
  /\ WF_vars(Tick)

FairSpec == Spec /\ Fairness

-----------------------------------------------------------------------------
EntryType ==
  [active: SUBSET Conns, inactive: Seq(Conns), idle: 0..(TaskInactive + MaxLag + 1)]

ConnType ==
  [status: {"none", "open", "closed"}, idle: 0..(ConnInactive + MaxLag + 1),
   dir: Dirs \cup {NoDir}, fetched: 0..MaxFetched]

ThreadType ==
  {th \in [pc: {"idle", "entry", "using", "drop", "release", "purge"},
           rpc: Rpcs \cup {"none"}, task: Tasks, dir: Dirs \cup {NoDir},
           cookie: Conns \cup {NoConn}, fetched: 0..MaxFetched,
           entry: Entries \cup {NoEntry}, conn: Conns \cup {NoConn}, reuse: BOOLEAN] :
     /\ th.pc \in {"entry", "release", "purge"} <=> th.entry \in Entries
     /\ th.pc \in {"using", "drop", "release"} <=> th.conn \in Conns
     /\ th.rpc = "list" => th.dir \in Dirs}

TypeOK ==
  /\ task_cache_map \in [Tasks -> Entries \cup {NoEntry}]
  /\ entries \in [Entries -> EntryType]
  /\ conns \in [Conns -> ConnType]
  /\ threads \in [Threads -> ThreadType]
  /\ cookies # {} => "list" \in Rpcs
  /\ cookies \subseteq [task: Tasks, dir: Dirs, conn: Conns, fetched: 1..MaxFetched]

\* SmbConnection "should only be held and used by one thread at the same time",
\* because libsmbclient is not thread-safe for each connection.
OneThreadPerConnection ==
  \A t, u \in Threads, c \in Conns : Holds(t, c) /\ Holds(u, c) => t = u

\* No connection is shut down under an RPC that is using it: AlarmHandler purges
\* tasks by force, on the ground that their connections are not used now.
UsedIsOpen ==
  \A t \in Threads : threads[t].pc = "using" => conns[threads[t].conn].status = "open"

\* What ReleaseSmbConnection gives back is in active_connection_map of the entry
\* it looked up ("Failed to find the connection in active_connection_map for
\* task", DLOG(FATAL), says the code that it must be). A task that is purged
\* in between has another entry, or none, after its next RPC.
ReleaseFindsConnection ==
  \A t \in Threads : threads[t].pc = "release" =>
    threads[t].conn \in entries[threads[t].entry].active

\* PurgeTaskAndAllConnections fails for a task whose connections are "actively
\* being used": a purge that failed leaves the task in the task cache.
RefusedPurgeKeepsTask ==
  [][\A t \in Threads :
       PurgeConnections(t) /\ entries[threads[t].entry].active # {}
         => task_cache_map'[threads[t].task] = threads[t].entry]_vars

\* An open connection is in the task cache, where AlarmHandler can purge it, or
\* a thread is about to put it there or to shut it down.
NoLeakedConnection ==
  \A c \in Conns : conns[c].status = "open" =>
    \/ \E t \in Threads : Holds(t, c)
    \/ \E e \in Entries \ FreeEntries : c \in entries[e].active \cup Pooled(e)

\* active_connection_map is "for actively used SMB share connections": a thread
\* uses it, or it waits for the client to continue a listing.
ActiveMeansUsed ==
  \A e \in Mapped : \A c \in entries[e].active :
    conns[c].dir # NoDir \/ \E t \in Threads : Holds(t, c)

\* A listing that a cookie continues is a listing of the directory the client
\* asks for.
ResumesOwnDirectory ==
  \A t \in Threads :
    threads[t].pc = "using" /\ threads[t].cookie # NoConn
      => conns[threads[t].conn].dir = threads[t].dir

\* The clients that the comments in smb_proxy.h have in mind: they never repeat
\* a cookie, purge a task only when they are done with it, and no RPC outlasts
\* the task's inactivity timeout.
CarefulClients == ~Resend /\ ~LongRpcs /\ ~PurgeBusy

\* The entries that the task cache, or a thread in SmbProxyPurgeTask, refers to.
InUse(e) ==
  e \in Mapped \/ \E t \in Threads : threads[t].pc = "purge" /\ threads[t].entry = e

Has(e) == entries[e].active \cup Pooled(e)

\* The connection that only thread t may take or use: the one it has, or the one
\* its client's cookie names.
Claim(t) == IF threads[t].pc = "entry" THEN threads[t].cookie ELSE threads[t].conn

\* An entry belongs to one task or to one purge.
EntriesOwned ==
  /\ \A j, k \in Tasks : task_cache_map[j] = task_cache_map[k] /\ task_cache_map[j] # NoEntry
                           => j = k
  /\ \A t \in Threads : threads[t].pc = "purge" =>
       /\ threads[t].entry \notin Mapped
       /\ \A u \in Threads : threads[u].pc = "purge" /\ threads[u].entry = threads[t].entry
                               => t = u

\* A task stays in the cache, and is not idle, while one of its RPCs runs.
BusyStays ==
  \A t \in Threads : threads[t].pc \in {"entry", "using", "drop", "release"} =>
    LET e == task_cache_map[threads[t].task] IN
    /\ e \in Entries /\ entries[e].idle <= TaskInactive
    /\ threads[t].pc \in {"entry", "release"} => threads[t].entry = e

\* A connection is in one place of one entry; an inactive one is open and lists
\* no directory.
ConnsPlaced ==
  \A e \in Entries : InUse(e) =>
    /\ \A f \in Entries : InUse(f) /\ f # e => Has(e) \cap Has(f) = {}
    /\ entries[e].active \cap Pooled(e) = {}
    /\ IsInjective(entries[e].inactive)
    /\ \A c \in entries[e].active : conns[c].status # "none"
    /\ \A c \in Pooled(e) : conns[c].status = "open" /\ conns[c].dir = NoDir

\* The connection of an RPC is active in its task's entry, and in the state the
\* RPC left it in.
HeldIsActive ==
  \A t \in Threads : threads[t].pc \in {"using", "drop", "release"} =>
    LET c == threads[t].conn IN
    /\ c \in entries[task_cache_map[threads[t].task]].active
    /\ threads[t].pc = "using" => conns[c].status = "open"
    /\ threads[t].pc = "drop" => conns[c].status = "closed"
    /\ threads[t].pc = "release" =>
         conns[c].status = (IF threads[t].reuse THEN "open" ELSE "closed") /\ conns[c].dir = NoDir

\* A connection has one thread or one cookie.
ClaimsExclusive ==
  /\ \A t, u \in Threads : Claim(t) # NoConn /\ Claim(t) = Claim(u) => t = u
  /\ \A t \in Threads, ck \in cookies : Claim(t) # ck.conn
  /\ \A ck, dk \in cookies : ck.conn = dk.conn => ck = dk

\* What a cookie names was created; if it is still in the cache, it is active in
\* the cookie's task, open, and lists the cookie's directory.
Resumable(c, k, d) ==
  /\ conns[c].status # "none"
  /\ \A e \in Entries : InUse(e) /\ c \in Has(e) =>
       /\ e = task_cache_map[k] /\ c \in entries[e].active
       /\ conns[c].status = "open" /\ conns[c].dir = d

ListingsKept ==
  /\ \A c \in Conns : conns[c].status = "none" => conns[c].dir = NoDir
  /\ \A ck \in cookies : Resumable(ck.conn, ck.task, ck.dir)
  /\ \A t \in Threads :
       LET th == threads[t] IN
       /\ th.cookie # NoConn => th.rpc = "list"
       /\ th.pc = "entry" /\ th.cookie # NoConn => Resumable(th.cookie, th.task, th.dir)
       /\ th.pc = "using" =>
            conns[th.conn].dir = IF th.cookie = NoConn THEN NoDir ELSE th.dir

\* With careful clients, this is inductive.
PoolInv ==
  /\ TypeOK
  /\ EntriesOwned
  /\ BusyStays
  /\ ConnsPlaced
  /\ HeldIsActive
  /\ ClaimsExclusive
  /\ ListingsKept

\* Unless SmbProxyCreateEntity runs: an active connection has a thread or a
\* cookie of its task, a purge meets no active one, and no open connection is
\* outside the entries in use.
AllAccountedFor ==
  /\ \A k \in Tasks : task_cache_map[k] # NoEntry =>
       \A c \in entries[task_cache_map[k]].active :
         \/ \E t \in Threads : Claim(t) = c /\ threads[t].task = k
         \/ \E ck \in cookies : ck.conn = c /\ ck.task = k
  /\ \A t \in Threads : threads[t].pc = "purge" => entries[threads[t].entry].active = {}
  /\ \A c \in Conns : conns[c].status = "open" => \E e \in Entries : InUse(e) /\ c \in Has(e)

\* When the clients are gone, whatever they left behind, all connections are
\* shut down in the end.
LeftoversPurged ==
  <>[](\A t \in Threads : threads[t].pc = "idle")
    => <>[](\A c \in Conns : conns[c].status # "open")

=============================================================================
