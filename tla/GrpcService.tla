----------------------------- MODULE GrpcService -----------------------------
(***************************************************************************)
(* GrpcAsyncService and RpcContext (gpl_util/grpclib/grpc_async_service):  *)
(* polling functions run by a ThreadPool take the events of one completion *)
(* queue; each event names the context that goes on with it.               *)
(*                                                                         *)
(* A context's lock is held while a thread is in its Proceed.  Contexts    *)
(* are numbered as they are allocated and no number is used twice, so that *)
(* a use of a deleted one shows.  A store into a deleted context changes   *)
(* nothing here.  The main thread starts the server and, in the end,       *)
(* destroys the service; the program never does, other users may.          *)
(***************************************************************************)
EXTENDS ThreadPool

CONSTANTS
  NumMethods,     \* the RPC methods of RegisterRpcMethods
  MaxRpcs,        \* bound on the RPCs that clients send
  ClientsLeave,   \* a client may be gone when its answer is sent
  StopEarly       \* the service may be destroyed before the pollers have registered

ASSUME ServiceAssumption ==
  /\ NumMethods \in Nat \ {0} /\ MaxRpcs \in Nat
  /\ ClientsLeave \in BOOLEAN /\ StopEarly \in BOOLEAN
  /\ Cardinality(Cleaners) = 1   \* ~ThreadPool is the only one to clean up

Methods == 1..NumMethods

VARIABLES
  ctxs,             \* the contexts ever allocated
  events,           \* what cq_->Next will return, in order
  polls,            \* where each worker is in the polling function
  server,           \* of server_: "none", "up", or "down" once it shuts down
  cq,               \* of cq_: "none", "open", "shut" or "destroyed"
  server_started,
  main,             \* where the main thread is
  rpcs              \* the number of RPCs so far

poolVars == <<work_items_queue, pending_work_items, stopped, workers, queuing, cleaners,
              done, outstanding>>
grpcVars == <<ctxs, events, polls, server, cq, server_started, main, rpcs>>
allVars == <<poolVars, grpcVars>>

NoEvent == [ctx |-> 0, kind |-> "none", ok |-> TRUE]

\* The state of a polling function: the method it registers, the event it proceeds
\* with, and the context it allocated last.
NotPolling == [pc |-> "idle", method |-> 1, event |-> NoEvent, new |-> 0]

AtNext == [NotPolling EXCEPT !.pc = "next"]

GrpcInit ==
  /\ PoolInit
  /\ ctxs = <<>> /\ events = <<>> /\ rpcs = 0
  /\ polls = [w \in Workers |-> NotPolling]
  /\ server = "none" /\ cq = "none" /\ server_started = FALSE
  /\ main = "init"

Freed(c) == ctxs[c].status \in {"deleted", "drained"}

Ctxs == 1..Len(ctxs)

\* The operations a context has under way in the gRPC runtime.
Pending == {c \in Ctxs : ctxs[c].op # "none"}

-----------------------------------------------------------------------------
\* The constructor has the pool start its threads.
Construct ==
  /\ main = "init" /\ StartWorkers
  /\ main' = "constructed"
  /\ UNCHANGED <<ctxs, events, polls, server, cq, server_started, rpcs>>

\* StartServer: the port is free, the server listens and the main thread goes on to
\* queue the polling functions.
StartServer ==
  /\ main = "constructed"
  /\ server' = "up" /\ cq' = "open" /\ server_started' = TRUE /\ main' = "queue"
  /\ UNCHANGED <<poolVars, ctxs, events, polls, rpcs>>

\* thread_pool_->QueueWork(polling_func) as often as there are threads; the items are
\* the same function, so it does not matter which one is next.
QueuePoller ==
  /\ main = "queue" /\ queuing = {}
  /\ \E i \in Items : ~Queued(i)
  /\ QueueWork(CHOOSE i \in Items : ~Queued(i))
  /\ UNCHANGED grpcVars

PostPoller(i) == PostWork(i) /\ UNCHANGED grpcVars

Started ==
  /\ main = "queue" /\ queuing = {} /\ \A i \in Items : Queued(i)
  /\ main' = "serve"
  /\ UNCHANGED <<poolVars, ctxs, events, polls, server, cq, server_started, rpcs>>

-----------------------------------------------------------------------------
\* The gRPC runtime: a request finds a context that waits for its method; the
\* answer is sent; a server that shuts down fails what still waits.
Complete(c, ok) ==
  /\ ctxs' = [ctxs EXCEPT ![c].op = "none"]
  /\ events' = Append(events, [ctx |-> c, kind |-> ctxs[c].op, ok |-> ok])
  /\ UNCHANGED <<poolVars, polls, server, cq, server_started, main>>

RpcArrives(c) ==
  /\ server = "up" /\ rpcs < MaxRpcs
  /\ ctxs[c].op = "request" /\ Complete(c, TRUE)
  /\ rpcs' = rpcs + 1

AnswerSent(c, ok) ==
  /\ ctxs[c].op = "finish" /\ (ok \/ ClientsLeave) /\ Complete(c, ok)
  /\ UNCHANGED rpcs

RequestFails(c) ==
  /\ server = "down"
  /\ ctxs[c].op = "request" /\ Complete(c, FALSE)
  /\ UNCHANGED rpcs

-----------------------------------------------------------------------------
\* The polling function.
StartPolling(w) ==
  /\ workers[w].pc = "run" /\ polls[w].pc = "idle"
  /\ polls' = [polls EXCEPT ![w].pc = "register"]
  /\ UNCHANGED <<poolVars, ctxs, events, server, cq, server_started, main, rpcs>>

\* A new context in its CREATE step, up to start_request_fn_: it is locked by w and
\* its request is with the runtime.  A queue that was shut down takes no request:
\* the runtime aborts the process, here the thread stays.
NewContext(w, method) ==
  /\ cq = "open"
  /\ ctxs' = Append(ctxs, [status |-> "CREATE", method |-> method, lock |-> w,
                           op |-> "request"])

\* Mutant of LeaveContext: the lock is not released.
LeaveContextLocked(c, status) ==
  ctxs' = IF Freed(c) THEN ctxs ELSE [ctxs EXCEPT ![c].status = status]

\* The last stores of Proceed: the new status, and the lock is released.
LeaveContext(c, status) ==
  ctxs' = IF Freed(c) THEN ctxs
          ELSE [ctxs EXCEPT ![c].status = status, ![c].lock = Null]

\* RegisterRpcMethods, one method after the other.
RegisterRpcMethod(w) ==
  /\ polls[w].pc = "register" /\ NewContext(w, polls[w].method)
  /\ polls' = [polls EXCEPT ![w].pc = "registered", ![w].new = Len(ctxs) + 1]
  /\ UNCHANGED <<poolVars, events, server, cq, server_started, main, rpcs>>

MethodRegistered(w) ==
  /\ polls[w].pc = "registered" /\ LeaveContext(polls[w].new, "PROCESS")
  /\ polls' = [polls EXCEPT ![w] =
       IF @.method < NumMethods
         THEN [NotPolling EXCEPT !.pc = "register", !.method = polls[w].method + 1]
         ELSE AtNext]
  /\ UNCHANGED <<poolVars, events, server, cq, server_started, main, rpcs>>

\* cq_->Next returns false when the queue is shut down and nothing is to come.
NoMoreEvents == cq = "shut" /\ events = <<>> /\ Pending = {}

\* An event that failed ends the thread once the server stops.
NextEvent(w) ==
  /\ polls[w].pc = "next" /\ events # <<>>
  /\ events' = Tail(events)
  /\ polls' = [polls EXCEPT ![w] =
       IF ~Head(events).ok /\ ~server_started
         THEN [NotPolling EXCEPT !.pc = "ended"]
         ELSE [NotPolling EXCEPT !.pc = "proceed", !.event = Head(events)]]
  /\ UNCHANGED <<poolVars, ctxs, server, cq, server_started, main, rpcs>>

\* Mutant of NextReturnsFalse: the loop goes on.
NextFalseGoesOn(w) ==
  /\ polls[w].pc = "next" /\ NoMoreEvents
  /\ UNCHANGED <<poolVars, grpcVars>>

NextReturnsFalse(w) ==
  /\ polls[w].pc = "next" /\ NoMoreEvents
  /\ polls' = [polls EXCEPT ![w].pc = "ended"]
  /\ UNCHANGED <<poolVars, ctxs, events, server, cq, server_started, main, rpcs>>

-----------------------------------------------------------------------------
\* RpcContext::Proceed.

\* Mutant of LockContext: there is no lock_.
LockContextNever(w) ==
  /\ polls[w].pc = "proceed"
  /\ polls' = [polls EXCEPT ![w].pc = ctxs[polls[w].event.ctx].status]
  /\ ctxs' = [ctxs EXCEPT ![polls[w].event.ctx].lock = w]
  /\ UNCHANGED <<poolVars, events, server, cq, server_started, main, rpcs>>

\* lock_.lock(), then the branch that status_ says.
LockContext(w) ==
  LET c == polls[w].event.ctx IN
  /\ polls[w].pc = "proceed" /\ ctxs[c].lock = Null
  /\ polls' = [polls EXCEPT ![w].pc = ctxs[c].status]
  /\ ctxs' = [ctxs EXCEPT ![c].lock = w]
  /\ UNCHANGED <<poolVars, events, server, cq, server_started, main, rpcs>>

\* Mutant of ReplaceContext: there is no new context.
ReplaceContextNever(w) ==
  /\ polls[w].pc = "PROCESS"
  /\ polls' = [polls EXCEPT ![w].pc = "replaced", ![w].new = polls[w].event.ctx]
  /\ UNCHANGED <<poolVars, ctxs, events, server, cq, server_started, main, rpcs>>

\* PROCESS: a new context takes the place of this one before the request is served.
ReplaceContext(w) ==
  /\ polls[w].pc = "PROCESS"
  /\ NewContext(w, ctxs[polls[w].event.ctx].method)
  /\ polls' = [polls EXCEPT ![w].pc = "replaced", ![w].new = Len(ctxs) + 1]
  /\ UNCHANGED <<poolVars, events, server, cq, server_started, main, rpcs>>

ContextReplaced(w) ==
  /\ polls[w].pc = "replaced" /\ LeaveContext(polls[w].new, "PROCESS")
  /\ polls' = [polls EXCEPT ![w].pc = IF polls[w].event.ok THEN "serve" ELSE "FINISH"]
  /\ UNCHANGED <<poolVars, events, server, cq, server_started, main, rpcs>>

\* Mutant of Serve: the context is unlocked when Finish is called, not after it.
ServeUnlocked(w) ==
  /\ polls[w].pc = "serve"
  /\ ctxs' = [ctxs EXCEPT ![polls[w].event.ctx] =
                [@ EXCEPT !.op = "finish", !.status = "FINISH", !.lock = Null]]
  /\ polls' = [polls EXCEPT ![w].pc = "answered"]
  /\ UNCHANGED <<poolVars, events, server, cq, server_started, main, rpcs>>

\* process_data_fn_ returns, and responder_.Finish gives the answer to the runtime.
Serve(w) ==
  /\ polls[w].pc = "serve"
  /\ ctxs' = [ctxs EXCEPT ![polls[w].event.ctx].op = "finish"]
  /\ polls' = [polls EXCEPT ![w].pc = "answered"]
  /\ UNCHANGED <<poolVars, events, server, cq, server_started, main, rpcs>>

Answered(w) ==
  /\ polls[w].pc = "answered" /\ LeaveContext(polls[w].event.ctx, "FINISH")
  /\ polls' = [polls EXCEPT ![w] = AtNext]
  /\ UNCHANGED <<poolVars, events, server, cq, server_started, main, rpcs>>

\* FINISH, and PROCESS of an event that failed: unlock and delete this.
DeleteContext(w) ==
  /\ polls[w].pc = "FINISH"
  /\ ctxs' = [ctxs EXCEPT ![polls[w].event.ctx].status = "deleted",
                          ![polls[w].event.ctx].lock = Null]
  /\ polls' = [polls EXCEPT ![w] = AtNext]
  /\ UNCHANGED <<poolVars, events, server, cq, server_started, main, rpcs>>

\* The polling function returns to the worker loop.
EndPolling(w) ==
  /\ polls[w].pc = "ended" /\ RunWork(w)
  /\ polls' = [polls EXCEPT ![w] = NotPolling]
  /\ UNCHANGED <<ctxs, events, server, cq, server_started, main, rpcs>>

PollStep(w) ==
  \/ StartPolling(w) \/ RegisterRpcMethod(w) \/ MethodRegistered(w)
  \/ NextEvent(w) \/ NextReturnsFalse(w) \/ LockContext(w)
  \/ ReplaceContext(w) \/ ContextReplaced(w) \/ Serve(w) \/ Answered(w)
  \/ DeleteContext(w) \/ EndPolling(w)
  \/ (WaitForWork(w) \/ TakeWork(w)) /\ UNCHANGED grpcVars

-----------------------------------------------------------------------------
\* ~GrpcAsyncService: StopServer, then the members in the reverse order of their
\* declaration, thread_pool_ before cq_.
Registered == \A w \in Workers : polls[w].pc \notin {"idle", "register", "registered"}

StopServer ==
  /\ main = "serve" /\ (StopEarly \/ Registered)
  /\ server_started' = FALSE /\ main' = "stopping"
  /\ UNCHANGED <<poolVars, ctxs, events, polls, server, cq, rpcs>>

ServerShutdown ==
  /\ main = "stopping"
  /\ server' = "down" /\ main' = "shutdown"
  /\ UNCHANGED <<poolVars, ctxs, events, polls, cq, server_started, rpcs>>

\* The contexts with a request whose answer has not been sent.
InProgress ==
  {c \in Ctxs :
     \/ ctxs[c].op = "finish"
     \/ \E e \in ToSet(events) : e.ctx = c /\ e.kind = "request" /\ e.ok
     \/ \E w \in Workers : /\ polls[w].event.ctx = c /\ polls[w].event.kind = "request"
                           /\ polls[w].event.ok
                           /\ polls[w].pc \in {"proceed", "PROCESS", "replaced", "serve"}}

\* server_->Shutdown() returns when no RPC is in progress; cq_->Shutdown() follows.
CqShutdown ==
  /\ main = "shutdown" /\ InProgress = {}
  /\ cq' = "shut" /\ main' = "drain"
  /\ UNCHANGED <<poolVars, ctxs, events, polls, server, server_started, rpcs>>

\* The draining loop deletes the contexts without their locks.
Drain ==
  /\ main = "drain" /\ events # <<>>
  /\ events' = Tail(events)
  /\ ctxs' = [ctxs EXCEPT ![Head(events).ctx].status = "drained"]
  /\ UNCHANGED <<poolVars, polls, server, cq, server_started, main, rpcs>>

\* Mutant of Drained: the queue is not drained.
DrainedNot(c) ==
  /\ main = "drain" /\ WaitAndCleanUp(c)
  /\ main' = "cleanUp"
  /\ UNCHANGED <<ctxs, events, polls, server, cq, server_started, rpcs>>

\* The loop ends, and ~ThreadPool begins.
Drained(c) ==
  /\ main = "drain" /\ NoMoreEvents /\ WaitAndCleanUp(c)
  /\ main' = "cleanUp"
  /\ UNCHANGED <<ctxs, events, polls, server, cq, server_started, rpcs>>

CleanUp(c) == CleanerStep(c) /\ UNCHANGED grpcVars

DestroyCq(c) ==
  /\ main = "cleanUp" /\ cleaners[c].pc = "returned"
  /\ cq' = "destroyed" /\ main' = "destroyed"
  /\ UNCHANGED <<poolVars, ctxs, events, polls, server, server_started, rpcs>>

MainStep ==
  \/ Construct \/ StartServer \/ QueuePoller \/ Started
  \/ \E i \in Items : PostPoller(i)
  \/ ServerShutdown \/ CqShutdown \/ Drain
  \/ \E c \in Cleaners : Drained(c) \/ CleanUp(c) \/ DestroyCq(c)

RuntimeStep ==
  \E c \in Ctxs : RequestFails(c) \/ \E ok \in BOOLEAN : AnswerSent(c, ok)

GrpcNext ==
  \/ MainStep \/ StopServer
  \/ RuntimeStep \/ \E c \in Ctxs : RpcArrives(c)
  \/ \E w \in Workers : PollStep(w)

GrpcSpec == GrpcInit /\ [][GrpcNext]_allVars

\* Threads and the runtime go on.  Clients need not send anything, and nothing
\* makes the main thread destroy the service.
GrpcFairSpec ==
  /\ GrpcSpec
  /\ WF_allVars(MainStep) /\ WF_allVars(RuntimeStep)
  /\ \A w \in Workers : WF_allVars(PollStep(w))

-----------------------------------------------------------------------------
CtxType ==
  [status: {"CREATE", "PROCESS", "FINISH", "deleted", "drained"}, method: Methods,
   lock: Workers \cup {Null}, op: {"none", "request", "finish"}]
EventType == [ctx: Nat, kind: {"none", "request", "finish"}, ok: BOOLEAN]
PollType ==
  [pc: {"idle", "register", "registered", "next", "ended", "proceed", "CREATE", "PROCESS",
        "replaced", "serve", "answered", "FINISH", "deleted", "drained"},
   method: Methods, event: EventType, new: Nat]

GrpcTypeOK ==
  /\ ctxs \in Seq(CtxType) /\ events \in Seq(EventType) /\ polls \in [Workers -> PollType]
  /\ server \in {"none", "up", "down"} /\ cq \in {"none", "open", "shut", "destroyed"}
  /\ server_started \in BOOLEAN /\ rpcs \in 0..MaxRpcs
  /\ main \in {"init", "constructed", "queue", "serve", "stopping", "shutdown", "drain",
               "cleanUp", "destroyed"}

\* The contexts that thread w is in a Proceed of.
InProceed(w) ==
  (IF polls[w].pc \in {"registered", "replaced"} THEN {polls[w].new} ELSE {})
  \cup
  (IF polls[w].pc \in {"proceed", "PROCESS", "replaced", "serve", "answered", "FINISH"}
     THEN {polls[w].event.ctx} ELSE {})

\* The lock is what makes a thread that takes an event see the status its request or
\* its answer left behind, although the event may come before Proceed has stored it
\* (the TODO in Proceed for a status that is not FINISH): a request is served, and
\* an answer that was sent ends the context.
EventMeetsStatus ==
  \A w \in Workers :
    /\ polls[w].pc \in {"PROCESS", "replaced", "serve"} => polls[w].event.kind = "request"
    /\ polls[w].pc = "FINISH" => polls[w].event.kind = "finish"
    /\ polls[w].pc \notin {"CREATE", "deleted", "drained"}

\* No thread is in the Proceed of a context that another polling thread deleted, and
\* no event or operation of such a context is left.
NoUseAfterDelete ==
  \A c \in Ctxs : ctxs[c].status = "deleted" =>
    /\ ctxs[c].op = "none" /\ \A e \in ToSet(events) : e.ctx # c
    /\ \A w \in Workers : c \notin InProceed(w)

\* The same of the contexts that StopServer deletes while it drains the queue ("A
\* lock to protect the Context object", which the draining loop does not take).
DrainSparesUsed ==
  \A c \in Ctxs : ctxs[c].status = "drained" =>
    \A w \in Workers : c \notin InProceed(w)

\* Context c waits for its method, or was taken by a request and is not yet replaced.
Taken(w, c) ==
  /\ polls[w].event.ctx = c /\ polls[w].event.kind = "request"
  /\ polls[w].pc \in {"proceed", "PROCESS"}

Listens(c) ==
  \/ ctxs[c].op = "request"
  \/ \E e \in ToSet(events) : e.ctx = c /\ e.kind = "request"
  \/ \E w \in Workers : Taken(w, c)

Listening(m) == {c \in Ctxs : ctxs[c].method = m /\ Listens(c)}

\* Thread w has registered method m, and is still polling or will return.
HasRegistered(w, m) ==
  \/ polls[w].pc \notin {"idle", "register", "registered"}
  \/ polls[w].pc = "register" /\ polls[w].method > m
  \/ polls[w].pc = "registered" /\ polls[w].method >= m

RegisteredFor(m) == {w \in Workers : HasRegistered(w, m)}

\* No RPC method ever runs out of contexts that wait for it: while the server is up,
\* every context that was taken by a request and is not yet replaced is in the hands of a
\* polling thread or in the queue before one, and each thread has brought one in.
EveryMethodListens ==
  server = "up" => \A m \in Methods :
    Cardinality(Listening(m)) = Cardinality(done) + Cardinality(RegisteredFor(m))

\* cq_ "always outlives the RPCs": when it is destroyed no thread polls it, and it is
\* empty, as the runtime demands.
QueueOutlivesPollers ==
  cq = "destroyed" =>
    /\ \A w \in Workers : workers[w].pc = "ended" /\ polls[w].pc = "idle"
    /\ events = <<>> /\ Pending = {}

-----------------------------------------------------------------------------
(***************************************************************************)
(* Why EventMeetsStatus, NoUseAfterDelete and QueueOutlivesPollers hold.   *)
(***************************************************************************)
\* The locks that thread w has: of the context it creates, and of its event's.
LocksNew(w, c) == polls[w].pc \in {"registered", "replaced"} /\ polls[w].new = c
LocksOld(w, c) ==
  /\ polls[w].pc \in {"PROCESS", "replaced", "serve", "answered", "FINISH"}
  /\ polls[w].event.ctx = c

\* Thread w goes on with an event of context c, and nobody else will.
HasEvent(w, c) ==
  /\ polls[w].pc \in {"proceed", "PROCESS", "replaced", "serve", "FINISH"}
  /\ polls[w].event.ctx = c

Answering(w, c) == polls[w].pc = "answered" /\ polls[w].event.ctx = c

\* An operation of this kind is under way, or its event is on its way to a Proceed.
Waits(c, kind) ==
  \/ ctxs[c].op = kind
  \/ \E e \in ToSet(events) : e.ctx = c /\ e.kind = kind
  \/ \E w \in Workers : HasEvent(w, c) /\ polls[w].event.kind = kind

\* Threads and events name contexts, and only a server that shuts down fails requests.
KnownContexts ==
  /\ \A e \in ToSet(events) :
       /\ e.ctx \in Ctxs /\ e.kind # "none"
       /\ e.kind = "request" /\ ~e.ok => ~server_started
  /\ \A w \in Workers :
       /\ polls[w].pc \in {"registered", "replaced"} => polls[w].new \in Ctxs
       /\ polls[w].pc \in {"proceed", "PROCESS", "replaced", "serve", "answered", "FINISH"} =>
            /\ polls[w].event.ctx \in Ctxs /\ polls[w].event.kind # "none"
            /\ polls[w].event.kind = "request" => polls[w].event.ok

LocksHeld ==
  \A w \in Workers, c \in Ctxs : LocksNew(w, c) \/ LocksOld(w, c) => ctxs[c].lock = w

\* Of each context at most one operation is under way, or one event is.
OneEvent ==
  /\ \A m, n \in DOMAIN events : events[m].ctx = events[n].ctx => m = n
  /\ \A e \in ToSet(events) : ctxs[e.ctx].op = "none"
  /\ \A w \in Workers, c \in Ctxs : HasEvent(w, c) =>
       /\ ctxs[c].op = "none" /\ \A e \in ToSet(events) : e.ctx # c
       /\ \A v \in Workers : HasEvent(v, c) => v = w

FreedUnused ==
  \A c \in Ctxs : Freed(c) =>
    /\ ctxs[c].op = "none" /\ \A e \in ToSet(events) : e.ctx # c
    /\ \A w \in Workers : /\ ~HasEvent(w, c)
                          /\ ctxs[c].status = "deleted" => ~LocksNew(w, c) /\ ~Answering(w, c)

\* The status may lag behind the kind of the event, but not once the lock is free.
StatusLags ==
  /\ \A c \in Ctxs :
       /\ ctxs[c].status = "CREATE" => \E w \in Workers : LocksNew(w, c)
       /\ Waits(c, "request") => ctxs[c].status \in {"CREATE", "PROCESS"}
       /\ Waits(c, "finish") => \/ ctxs[c].status = "FINISH"
                               \/ \E w \in Workers : Answering(w, c)
  /\ \A w \in Workers, c \in Ctxs :
       /\ LocksNew(w, c) => ctxs[c].status \in {"CREATE", "drained"}
       /\ Answering(w, c) => ctxs[c].status \in {"PROCESS", "drained"} /\ ~Waits(c, "request")
       /\ LocksOld(w, c) /\ polls[w].pc \notin {"answered", "FINISH"} => ctxs[c].status = "PROCESS"

ContextInv ==
  KnownContexts /\ LocksHeld /\ OneEvent /\ FreedUnused /\ StatusLags /\ EventMeetsStatus

\* What has been set up, and what is over, where the main thread is.
ServiceInv ==
  /\ (cq = "none") <=> (main \in {"init", "constructed"})
  /\ (cq = "open") <=> (main \in {"queue", "serve", "stopping", "shutdown"})
  /\ (cq = "destroyed") <=> (main = "destroyed")
  /\ (server = "down") <=> (main \in {"shutdown", "drain", "cleanUp", "destroyed"})
  /\ server_started => main \in {"queue", "serve"}
  /\ cq = "none" => ctxs = <<>> /\ events = <<>>
  /\ main # "init" => \A w \in Workers : workers[w].pc # "none"
  /\ \A w \in Workers : polls[w].pc # "idle" => workers[w].pc = "run"

\* cq_ shuts down when no RPC is in progress, and the thread pool when nothing is left
\* in cq_; then neither comes back.
DownInv ==
  /\ cq \in {"shut", "destroyed"} => InProgress = {}
  /\ main \in {"cleanUp", "destroyed"} => events = <<>> /\ Pending = {}
  /\ main \notin {"cleanUp", "destroyed"} =>
       ~stopped /\ \A c \in Cleaners : cleaners[c].pc = "idle"
  /\ \A c \in Cleaners : cleaners[c].pc = "returned" => cleaners[c].pills > 0
  /\ main = "destroyed" => \E c \in Cleaners : cleaners[c].pc = "returned"

GrpcInv == ContextInv /\ ServiceInv /\ DownInv

\* Why EveryMethodListens holds: no request fails before the server shuts down, and a
\* polling function is run once, from the first method on.
ListensInv ==
  /\ IsFiniteSet(done) /\ \A w \in Workers : polls[w].pc = "idle" => polls[w].method = 1
  /\ server # "down" =>
       /\ \A e \in ToSet(events) : e.kind = "request" => e.ok
       /\ \A m \in Methods :
            Cardinality(Listening(m)) = Cardinality(done) + Cardinality(RegisteredFor(m))

-----------------------------------------------------------------------------
\* While the service is not being stopped every RPC that arrived is answered (clients
\* send MaxRpcs of them at most, so that none is in progress in the end).
RpcAnswered == InProgress # {} ~> (InProgress = {} \/ main \notin {"queue", "serve"})

\* Once server_->Shutdown() has returned the destruction ends: the draining loop, the
\* polling functions and the pool's clean-up, each of which waits for the others.
ShutdownEnds == main = "drain" ~> main = "destroyed"

\* The destruction ends, whenever it begins.
StopReturns == main = "stopping" ~> main = "destroyed"

=============================================================================
