----------------------------- MODULE ThreadPool ------------------------------
(***************************************************************************)
(* gpl_util::ThreadPool (gpl_util/base/thread_pool.cc): a queue under a    *)
(* mutex, a semaphore that counts it, and worker threads that null work    *)
(* items tell to terminate.                                                *)
(*                                                                         *)
(* The queue and the semaphore are changed in separate steps.  A work item *)
(* returns; that is the caller's responsibility.                           *)
(***************************************************************************)
EXTENDS Integers, SequencesExt

CONSTANTS
  Workers,    \* the threads that Init creates
  Items,      \* the work items; each is queued once
  Cleaners,   \* the threads that call WaitAndCleanUp
  Null        \* the null work item

ASSUME PoolOfThreads ==
  /\ Workers # {} /\ IsFiniteSet(Workers) /\ IsFiniteSet(Cleaners)
  /\ Null \notin Items /\ Null \notin Workers

VARIABLES
  work_items_queue,
  pending_work_items,   \* the value of pending_work_items_sem_
  stopped,
  workers,              \* the state of each worker, with the item it has
  queuing,              \* the items in the queue whose sem_post is to come
  cleaners,             \* the state of each WaitAndCleanUp, with the pills it posted
  done,                 \* the items that have been run
  outstanding           \* the items queued when WaitAndCleanUp began (history)

vars == <<work_items_queue, pending_work_items, stopped, workers, queuing, cleaners,
          done, outstanding>>

\* Init has not run: no worker exists.
PoolInit ==
  /\ work_items_queue = <<>>
  /\ pending_work_items = 0
  /\ stopped = FALSE
  /\ workers = [w \in Workers |-> [pc |-> "none", item |-> Null]]
  /\ queuing = {}
  /\ cleaners = [c \in Cleaners |-> [pc |-> "idle", pills |-> 0]]
  /\ done = {}
  /\ outstanding = {}

\* Init creates the workers.
StartWorkers ==
  /\ \A w \in Workers : workers[w].pc = "none"
  /\ workers' = [w \in Workers |-> [pc |-> "wait", item |-> Null]]
  /\ UNCHANGED <<work_items_queue, pending_work_items, stopped, queuing, cleaners, done,
                 outstanding>>

Queued(i) == i \in ToSet(work_items_queue) \/ i \in done \/ \E w \in Workers : workers[w].item = i

\* QueueWork: the item enters the queue, then the semaphore is posted.
QueueWork(i) ==
  /\ ~Queued(i)
  /\ work_items_queue' = Append(work_items_queue, i)
  /\ queuing' = queuing \cup {i}
  /\ UNCHANGED <<pending_work_items, stopped, workers, cleaners, done, outstanding>>

PostWork(i) ==
  /\ i \in queuing
  /\ queuing' = queuing \ {i}
  /\ pending_work_items' = pending_work_items + 1
  /\ UNCHANGED <<work_items_queue, stopped, workers, cleaners, done, outstanding>>

-----------------------------------------------------------------------------
\* A worker: sem_wait, take the front of the queue, run it or terminate.
WaitForWork(w) ==
  /\ workers[w].pc = "wait" /\ pending_work_items > 0
  /\ pending_work_items' = pending_work_items - 1
  /\ workers' = [workers EXCEPT ![w].pc = "take"]
  /\ UNCHANGED <<work_items_queue, stopped, queuing, cleaners, done, outstanding>>

TakeWork(w) ==
  /\ workers[w].pc = "take" /\ work_items_queue # <<>>
  /\ work_items_queue' = Tail(work_items_queue)
  /\ workers' = [workers EXCEPT ![w] =
       IF Head(work_items_queue) = Null THEN [pc |-> "ended", item |-> Null]
                                        ELSE [pc |-> "run", item |-> Head(work_items_queue)]]
  /\ UNCHANGED <<pending_work_items, stopped, queuing, cleaners, done, outstanding>>

RunWork(w) ==
  /\ workers[w].pc = "run"
  /\ done' = done \cup {workers[w].item}
  /\ workers' = [workers EXCEPT ![w] = [pc |-> "wait", item |-> Null]]
  /\ UNCHANGED <<work_items_queue, pending_work_items, stopped, queuing, cleaners,
                 outstanding>>

-----------------------------------------------------------------------------
\* WaitAndCleanUp: the first call goes on when there are workers, any other
\* returns.
WaitAndCleanUp(c) ==
  LET goesOn == ~stopped /\ \E w \in Workers : workers[w].pc # "none" IN
  /\ cleaners[c].pc = "idle"
  /\ stopped' = TRUE
  /\ cleaners' = [cleaners EXCEPT ![c].pc = IF goesOn THEN "push" ELSE "returned"]
  /\ outstanding' = IF goesOn THEN {i \in Items \ done : Queued(i)} ELSE outstanding
  /\ UNCHANGED <<work_items_queue, pending_work_items, workers, queuing, done>>

\* A null work item per worker.
PushPill(c) ==
  /\ cleaners[c].pc = "push"
  /\ work_items_queue' = Append(work_items_queue, Null)
  /\ cleaners' = [cleaners EXCEPT ![c] = [pc |-> "post", pills |-> @.pills + 1]]
  /\ UNCHANGED <<pending_work_items, stopped, workers, queuing, done, outstanding>>

\* Mutant of PostPill: the semaphore is posted twice.
PostPillTwice(c) ==
  /\ cleaners[c].pc = "post"
  /\ pending_work_items' = pending_work_items + 2
  /\ cleaners' = [cleaners EXCEPT ![c].pc = IF cleaners[c].pills = Cardinality(Workers)
                                              THEN "join" ELSE "push"]
  /\ UNCHANGED <<work_items_queue, stopped, workers, queuing, done, outstanding>>

PostPill(c) ==
  /\ cleaners[c].pc = "post"
  /\ pending_work_items' = pending_work_items + 1
  /\ cleaners' = [cleaners EXCEPT ![c].pc = IF cleaners[c].pills = Cardinality(Workers)
                                              THEN "join" ELSE "push"]
  /\ UNCHANGED <<work_items_queue, stopped, workers, queuing, done, outstanding>>

JoinWorkers(c) ==
  /\ cleaners[c].pc = "join"
  /\ \A w \in Workers : workers[w].pc = "ended"
  /\ cleaners' = [cleaners EXCEPT ![c].pc = "returned"]
  /\ UNCHANGED <<work_items_queue, pending_work_items, stopped, workers, queuing, done,
                 outstanding>>

WorkerStep(w) == WaitForWork(w) \/ TakeWork(w) \/ RunWork(w)
CleanerStep(c) == PushPill(c) \/ PostPill(c) \/ JoinWorkers(c)

Next ==
  \/ StartWorkers
  \/ \E i \in Items : QueueWork(i) \/ PostWork(i)
  \/ \E w \in Workers : WorkerStep(w)
  \/ \E c \in Cleaners : WaitAndCleanUp(c) \/ CleanerStep(c)

Spec == PoolInit /\ [][Next]_vars

\* Threads that are in a call or in the worker loop go on.
Fairness ==
  /\ \A i \in Items : WF_vars(PostWork(i))
  /\ \A w \in Workers : WF_vars(WorkerStep(w))
  /\ \A c \in Cleaners : WF_vars(CleanerStep(c))

FairSpec == Spec /\ Fairness

-----------------------------------------------------------------------------
WorkerType == [pc: {"none", "wait", "take", "run", "ended"}, item: Items \cup {Null}]
CleanerType == [pc: {"idle", "push", "post", "join", "returned"}, pills: 0..Cardinality(Workers)]

TypeOK ==
  /\ work_items_queue \in Seq(Items \cup {Null})
  /\ pending_work_items \in Nat /\ stopped \in BOOLEAN
  /\ workers \in [Workers -> WorkerType] /\ cleaners \in [Cleaners -> CleanerType]
  /\ queuing \subseteq Items /\ done \subseteq Items /\ outstanding \subseteq Items

Taking == {w \in Workers : workers[w].pc = "take"}
Posting == {c \in Cleaners : cleaners[c].pc = "post"}

\* A worker that got through the semaphore finds an item in the queue (the DCHECK
\* in the worker loop): the semaphore never promises more than the queue has.
WorkIsThere == Len(work_items_queue) >= pending_work_items + Cardinality(Taking)

\* "Waits until all outstanding work items are done": when the call that cleans up
\* returns, what was queued before it has been run and no worker is left.
CleanUpWaits ==
  \A c \in Cleaners : cleaners[c].pc = "returned" /\ cleaners[c].pills > 0 =>
    outstanding \subseteq done /\ \A w \in Workers : workers[w].pc = "ended"

\* The same, of every call of WaitAndCleanUp.
EveryCleanUpWaits ==
  \A c \in Cleaners : cleaners[c].pc = "returned" =>
    outstanding \subseteq done

-----------------------------------------------------------------------------
(***************************************************************************)
(* Why WorkIsThere and CleanUpWaits hold, as an invariant of every step.   *)
(***************************************************************************)
\* What is in the queue is promised by the semaphore, or to a worker that takes it, or
\* about to be posted.
Balance ==
  /\ IsFiniteSet(queuing)
  /\ Len(work_items_queue) = pending_work_items + Cardinality(Taking)
                               + Cardinality(queuing) + Cardinality(Posting)

\* An item that entered the queue is in it, or with a worker, or done.
ItemsKept ==
  /\ \A i \in queuing \cup outstanding : Queued(i)
  /\ \A w \in Workers : workers[w].pc = "run" <=> workers[w].item # Null

\* One call cleans up, the first.
OneCleanUp ==
  \A c \in Cleaners :
    /\ cleaners[c].pc = "idle" => cleaners[c].pills = 0
    /\ cleaners[c].pc # "idle" => stopped
    /\ cleaners[c].pc = "push" => cleaners[c].pills < Cardinality(Workers)
    /\ cleaners[c].pc \in {"post", "join"} => cleaners[c].pills > 0

\* The null work items come after what was outstanding, so that no worker ends before.
PillsLast ==
  /\ ~stopped => /\ Null \notin ToSet(work_items_queue)
                 /\ \A w \in Workers : workers[w].pc # "ended"
  /\ \A m, n \in DOMAIN work_items_queue :
       m < n /\ work_items_queue[m] = Null => work_items_queue[n] \notin outstanding
  /\ \A w \in Workers : workers[w].pc = "ended" =>
       ToSet(work_items_queue) \cap outstanding = {}

ThreadsInv == Balance /\ ItemsKept /\ OneCleanUp /\ PillsLast /\ CleanUpWaits

\* An item is in one place: in the queue, with one worker, or done.  So it is run once.
ItemsOnce ==
  /\ \A m, n \in DOMAIN work_items_queue :
       work_items_queue[m] = work_items_queue[n] /\ work_items_queue[m] # Null => m = n
  /\ \A i \in ToSet(work_items_queue) \ {Null} :
       i \notin done /\ \A w \in Workers : workers[w].item # i
  /\ \A w \in Workers :
       /\ workers[w].item \notin done
       /\ \A v \in Workers : workers[v].item = workers[w].item /\ v # w => workers[w].item = Null

-----------------------------------------------------------------------------
\* Every call of WaitAndCleanUp returns: each worker gets its null work item.
CleanUpReturns ==
  \A c \in Cleaners : cleaners[c].pc # "idle" ~> cleaners[c].pc = "returned"

\* What is queued on a pool that is initialized and not stopped is run.
WorkIsRun ==
  \A i \in Items :
    (Queued(i) /\ ~stopped /\ \E w \in Workers : workers[w].pc # "none") ~> i \in done

=============================================================================
