-------------------------- MODULE GrpcServiceProofs --------------------------
(***************************************************************************)
(* Theorems about ThreadPool, for any finite sets of workers and of        *)
(* threads that clean up, and any work items: TypeOK, WorkIsThere,         *)
(* CleanUpWaits and ItemsOnce. Then about the service that runs its        *)
(* polling functions in such a pool, for any workers, methods and bounds:  *)
(* it uses the pool as ThreadPool says, GrpcInv with what follows from it, *)
(* and EveryMethodListens.                                                 *)
(***************************************************************************)
EXTENDS GrpcService, FiniteSetTheorems, SequenceTheorems, TLAPS

-----------------------------------------------------------------------------
(* The thread pool. *)

\* The queue, with an item at its end or without its front.
LEMMA QueueChanges ==
  ASSUME NEW S, NEW q \in Seq(S)
  PROVE  /\ Len(q) \in Nat /\ DOMAIN q = 1..Len(q) /\ \A n \in DOMAIN q : q[n] \in S
         /\ \A x \in S : /\ Append(q, x) \in Seq(S)
                         /\ Len(Append(q, x)) = Len(q) + 1
                         /\ DOMAIN Append(q, x) = 1..(Len(q) + 1)
                         /\ \A n \in 1..Len(q) : Append(q, x)[n] = q[n]
                         /\ Append(q, x)[Len(q) + 1] = x
                         /\ ToSet(Append(q, x)) = ToSet(q) \cup {x}
         /\ q # <<>> => /\ Tail(q) \in Seq(S) /\ Head(q) \in S
                        /\ Len(q) > 0
                        /\ Len(Tail(q)) = Len(q) - 1
                        /\ DOMAIN Tail(q) = 1..(Len(q) - 1)
                        /\ \A n \in 1..(Len(q) - 1) : Tail(q)[n] = q[n + 1]
                        /\ Head(q) = q[1]
                        /\ ToSet(q) = ToSet(Tail(q)) \cup {Head(q)}
  <1>1. /\ Len(q) \in Nat /\ DOMAIN q = 1..Len(q) /\ \A n \in DOMAIN q : q[n] \in S
    BY LenProperties
  <1>2. ASSUME NEW x \in S
        PROVE  /\ Append(q, x) \in Seq(S)
               /\ Len(Append(q, x)) = Len(q) + 1
               /\ DOMAIN Append(q, x) = 1..(Len(q) + 1)
               /\ \A n \in 1..Len(q) : Append(q, x)[n] = q[n]
               /\ Append(q, x)[Len(q) + 1] = x
               /\ ToSet(Append(q, x)) = ToSet(q) \cup {x}
    <2>1. /\ Append(q, x) \in Seq(S)
          /\ Len(Append(q, x)) = Len(q) + 1
          /\ \A n \in 1..Len(q) : Append(q, x)[n] = q[n]
          /\ Append(q, x)[Len(q) + 1] = x
      BY AppendProperties
    <2>2. DOMAIN Append(q, x) = 1..(Len(q) + 1)
      BY <2>1, LenProperties
    <2> DEFINE r == Append(q, x)
    <2> HIDE DEF r
    <2>3. ToSet(r) = ToSet(q) \cup {x}
      <3>1. /\ DOMAIN r = 1..(Len(q) + 1) /\ \A n \in 1..Len(q) : r[n] = q[n]
            /\ r[Len(q) + 1] = x
        BY <2>1, <2>2 DEF r
      <3>2. /\ \A n \in DOMAIN r : n \in 1..Len(q) \/ n = Len(q) + 1
            /\ \A n \in 1..Len(q) : n \in DOMAIN r
            /\ Len(q) + 1 \in DOMAIN r
        BY <1>1, <3>1
      <3> QED BY <1>1, <3>1, <3>2 DEF ToSet
    <2> QED BY <2>1, <2>2, <2>3 DEF r
  <1>3. ASSUME q # <<>>
        PROVE  /\ Tail(q) \in Seq(S) /\ Head(q) \in S
               /\ Len(q) > 0
               /\ Len(Tail(q)) = Len(q) - 1
               /\ DOMAIN Tail(q) = 1..(Len(q) - 1)
               /\ \A n \in 1..(Len(q) - 1) : Tail(q)[n] = q[n + 1]
               /\ Head(q) = q[1]
               /\ ToSet(q) = ToSet(Tail(q)) \cup {Head(q)}
    <2>1. Len(q) > 0
      BY <1>1, <1>3, EmptySeq
    <2>2. Tail(q) \in Seq(S) /\ Head(q) \in S /\ Len(Tail(q)) = Len(q) - 1 /\ Head(q) = q[1]
      BY <1>1, <1>3, <2>1, HeadTailProperties
    <2>3. DOMAIN Tail(q) = 1..(Len(q) - 1)
      BY <2>2, LenProperties
    <2>4. \A n \in 1..(Len(q) - 1) : Tail(q)[n] = q[n + 1]
      BY <1>1, <1>3, <2>2, HeadTailProperties
    <2> HIDE DEF Tail
    <2>5. ToSet(q) = ToSet(Tail(q)) \cup {Head(q)}
      <3>1. ASSUME NEW x \in ToSet(q) PROVE x \in ToSet(Tail(q)) \cup {Head(q)}
        <4>1. PICK n \in 1..Len(q) : x = q[n]
          BY <1>1 DEF ToSet
        <4>2. CASE n = 1
          BY <2>2, <4>1, <4>2
        <4>3. CASE n # 1
          <5>1. n - 1 \in 1..(Len(q) - 1) /\ (n - 1) + 1 = n
            BY <1>1, <4>1, <4>3
          <5>2. Tail(q)[n - 1] = x
            BY <2>4, <4>1, <5>1
          <5> QED BY <2>3, <5>1, <5>2 DEF ToSet
        <4> QED BY <4>2, <4>3
      <3>2. ASSUME NEW x \in ToSet(Tail(q)) \cup {Head(q)} PROVE x \in ToSet(q)
        <4>1. CASE x = Head(q)
          <5>1. 1 \in 1..Len(q)
            BY <1>1, <2>1
          <5> QED BY <1>1, <2>2, <4>1, <5>1 DEF ToSet
        <4>2. CASE x \in ToSet(Tail(q))
          <5>1. PICK n \in 1..(Len(q) - 1) : x = Tail(q)[n]
            BY <2>3, <4>2 DEF ToSet
          <5>2. n + 1 \in 1..Len(q) /\ x = q[n + 1]
            BY <1>1, <2>4, <5>1
          <5> QED BY <1>1, <5>2 DEF ToSet
        <4> QED BY <4>1, <4>2
      <3> QED BY <3>1, <3>2
    <2> QED BY <2>1, <2>2, <2>3, <2>4, <2>5
  <1> QED BY <1>1, <1>2, <1>3

\* The workers that take an item and the threads that post a null one can be counted.
LEMMA Counted ==
  ASSUME TypeOK
  PROVE  /\ IsFiniteSet(Taking) /\ IsFiniteSet(Posting)
         /\ Cardinality(Taking) \in Nat /\ Cardinality(Posting) \in Nat
         /\ Cardinality(Workers) \in Nat \ {0}
         /\ IsFiniteSet(queuing) => Cardinality(queuing) \in Nat
         /\ Null \notin Items
  <1>1. Taking \subseteq Workers /\ Posting \subseteq Cleaners
    BY DEF Taking, Posting
  <1>2. IsFiniteSet(Workers) /\ IsFiniteSet(Cleaners) /\ Workers # {} /\ Null \notin Items
    BY PoolOfThreads
  <1>3. IsFiniteSet(Taking) /\ IsFiniteSet(Posting)
    BY <1>1, <1>2, FS_Subset
  <1>4. Cardinality(Workers) \in Nat \ {0}
    BY <1>2, FS_CardinalityType, FS_EmptySet
  <1> QED BY <1>2, <1>3, <1>4, FS_CardinalityType

\* The records of a worker and of a thread that cleans up.
LEMMA ThreadRecords ==
  ASSUME TypeOK
  PROVE  /\ \A w \in Workers : /\ workers[w].pc \in {"none", "wait", "take", "run", "ended"}
                               /\ workers[w].item \in Items \cup {Null}
                               /\ \A x \in {"wait", "take", "run", "ended"} :
                                    /\ [workers[w] EXCEPT !.pc = x] \in WorkerType
                                    /\ [workers[w] EXCEPT !.pc = x].pc = x
                                    /\ [workers[w] EXCEPT !.pc = x].item = workers[w].item
         /\ \A c \in Cleaners : /\ cleaners[c].pc \in {"idle", "push", "post", "join", "returned"}
                                /\ cleaners[c].pills \in 0..Cardinality(Workers)
                                /\ \A x \in {"push", "join", "returned"} :
                                     /\ [cleaners[c] EXCEPT !.pc = x] \in CleanerType
                                     /\ [cleaners[c] EXCEPT !.pc = x].pc = x
                                     /\ [cleaners[c] EXCEPT !.pc = x].pills = cleaners[c].pills
         /\ \A w \in Workers, r \in WorkerType : [workers EXCEPT ![w] = r] \in [Workers -> WorkerType]
         /\ \A c \in Cleaners, r \in CleanerType :
              [cleaners EXCEPT ![c] = r] \in [Cleaners -> CleanerType]
  BY DEF TypeOK, WorkerType, CleanerType

-----------------------------------------------------------------------------
\* StartWorkers: nobody has an item yet.
LEMMA StartWorkersInv ==
  ASSUME TypeOK, ThreadsInv, StartWorkers
  PROVE  TypeOK' /\ ThreadsInv'
  <1>1. /\ workers' = [w \in Workers |-> [pc |-> "wait", item |-> Null]]
        /\ \A w \in Workers : workers[w].pc = "none"
        /\ work_items_queue' = work_items_queue /\ pending_work_items' = pending_work_items
        /\ stopped' = stopped /\ queuing' = queuing /\ cleaners' = cleaners /\ done' = done
        /\ outstanding' = outstanding
    BY DEF StartWorkers
  <1>2. /\ workers' \in [Workers -> WorkerType]
        /\ \A w \in Workers : workers'[w].pc = "wait" /\ workers'[w].item = Null
    BY <1>1 DEF WorkerType
  <1>3. TypeOK'
    BY <1>1, <1>2 DEF TypeOK
  <1>4. Taking' = Taking /\ Posting' = Posting
    BY <1>1, <1>2 DEF Taking, Posting
  <1>5. Balance'
    BY <1>1, <1>4 DEF Balance, ThreadsInv
  <1>6. \A i \in Items : Queued(i) => Queued(i)'
    <2>1. \A w \in Workers : workers[w].item = Null
      BY <1>1 DEF ThreadsInv, ItemsKept
    <2> QED BY <1>1, <2>1, Counted DEF Queued
  <1>7. ItemsKept'
    BY <1>1, <1>2, <1>6 DEF ThreadsInv, ItemsKept, TypeOK
  <1>8. OneCleanUp'
    BY <1>1 DEF ThreadsInv, OneCleanUp
  <1>9. PillsLast'
    BY <1>1, <1>2 DEF ThreadsInv, PillsLast
  <1>10. CleanUpWaits'
    <2>1. \A c \in Cleaners : ~(cleaners[c].pc = "returned" /\ cleaners[c].pills > 0)
      BY <1>1, PoolOfThreads DEF ThreadsInv, CleanUpWaits
    <2> QED BY <1>1, <2>1 DEF CleanUpWaits
  <1> QED BY <1>3, <1>5, <1>7, <1>8, <1>9, <1>10 DEF ThreadsInv

\* QueueWork: the item was not outstanding, so that it may come after a null one.
LEMMA QueueWorkInv ==
  ASSUME TypeOK, ThreadsInv, NEW i \in Items, QueueWork(i)
  PROVE  TypeOK' /\ ThreadsInv'
  <1> DEFINE q == work_items_queue
  <1>1. /\ workers' = workers /\ ~Queued(i)
        /\ q' = Append(q, i) /\ pending_work_items' = pending_work_items
        /\ stopped' = stopped /\ queuing' = queuing \cup {i} /\ cleaners' = cleaners
        /\ done' = done /\ outstanding' = outstanding
    BY DEF QueueWork
  <1>2. /\ Len(q) \in Nat /\ DOMAIN q = 1..Len(q)
        /\ q' \in Seq(Items \cup {Null}) /\ Len(q') = Len(q) + 1
        /\ DOMAIN q' = 1..(Len(q) + 1) /\ \A n \in 1..Len(q) : q'[n] = q[n]
        /\ q'[Len(q) + 1] = i /\ ToSet(q') = ToSet(q) \cup {i}
    BY <1>1, QueueChanges DEF TypeOK
  <1>3. TypeOK'
    BY <1>1, <1>2 DEF TypeOK
  <1>4. i \notin queuing /\ i \notin outstanding /\ i # Null
    BY <1>1, Counted DEF ThreadsInv, ItemsKept
  <1>5. Balance'
    <2>1. Taking' = Taking /\ Posting' = Posting
      BY <1>1 DEF Taking, Posting
    <2>2. IsFiniteSet(queuing) /\ pending_work_items \in Nat
      BY DEF ThreadsInv, Balance, TypeOK
    <2>3. IsFiniteSet(queuing') /\ Cardinality(queuing') = Cardinality(queuing) + 1
      BY <1>1, <1>4, <2>2, FS_AddElement
    <2> QED BY <1>1, <1>2, <2>1, <2>2, <2>3, Counted DEF ThreadsInv, Balance
  <1>6. \A x : Queued(x) => Queued(x)'
    BY <1>1, <1>2 DEF Queued
  <1>7. ItemsKept'
    <2>1. Queued(i)'
      BY <1>2 DEF Queued
    <2> QED BY <1>1, <1>6, <2>1 DEF ThreadsInv, ItemsKept
  <1>8. OneCleanUp'
    BY <1>1 DEF ThreadsInv, OneCleanUp
  <1>9. PillsLast'
    <2>1. ~stopped => Null \notin ToSet(q')
      BY <1>2, <1>4 DEF ThreadsInv, PillsLast
    <2>2. ASSUME NEW m \in DOMAIN q', NEW n \in DOMAIN q', m < n, q'[m] = Null
          PROVE  q'[n] \notin outstanding
      <3>1. CASE n = Len(q) + 1
        BY <1>2, <1>4, <3>1
      <3>2. CASE n # Len(q) + 1
        <4>1. m \in DOMAIN q /\ n \in DOMAIN q
          BY <1>2, <2>2, <3>2
        <4> QED BY <1>2, <2>2, <4>1 DEF ThreadsInv, PillsLast
      <3> QED BY <3>1, <3>2
    <2>3. \A w \in Workers : workers[w].pc = "ended" => ToSet(q') \cap outstanding = {}
      BY <1>2, <1>4 DEF ThreadsInv, PillsLast
    <2> HIDE DEF q
    <2> QED BY <1>1, <2>1, <2>2, <2>3 DEF ThreadsInv, PillsLast, q
  <1>10. CleanUpWaits'
    BY <1>1 DEF ThreadsInv, CleanUpWaits
  <1> QED BY <1>3, <1>5, <1>7, <1>8, <1>9, <1>10 DEF ThreadsInv

\* PostWork: the semaphore promises what was about to be posted.
LEMMA PostWorkInv ==
  ASSUME TypeOK, ThreadsInv, NEW i \in Items, PostWork(i)
  PROVE  TypeOK' /\ ThreadsInv'
  <1>1. /\ workers' = workers /\ i \in queuing
        /\ work_items_queue' = work_items_queue /\ pending_work_items' = pending_work_items + 1
        /\ stopped' = stopped /\ queuing' = queuing \ {i} /\ cleaners' = cleaners
        /\ done' = done /\ outstanding' = outstanding
    BY DEF PostWork
  <1>2. TypeOK'
    BY <1>1 DEF TypeOK
  <1>3. Balance'
    <2>1. Taking' = Taking /\ Posting' = Posting
      BY <1>1 DEF Taking, Posting
    <2>2. IsFiniteSet(queuing) /\ pending_work_items \in Nat /\ Len(work_items_queue) \in Nat
      BY LenProperties DEF ThreadsInv, Balance, TypeOK
    <2>3. IsFiniteSet(queuing') /\ Cardinality(queuing') = Cardinality(queuing) - 1
      BY <1>1, <2>2, FS_RemoveElement
    <2> QED BY <1>1, <2>1, <2>2, <2>3, Counted DEF ThreadsInv, Balance
  <1>4. \A x : Queued(x) => Queued(x)'
    BY <1>1 DEF Queued
  <1>5. ItemsKept' /\ OneCleanUp' /\ CleanUpWaits'
    BY <1>1, <1>4 DEF ThreadsInv, ItemsKept, OneCleanUp, CleanUpWaits
  <1>6. PillsLast'
    BY <1>1 DEF ThreadsInv, PillsLast
  <1> QED BY <1>2, <1>3, <1>5, <1>6 DEF ThreadsInv

\* WaitForWork: the semaphore's promise passes to the worker.
LEMMA WaitForWorkInv ==
  ASSUME TypeOK, ThreadsInv, NEW w \in Workers, WaitForWork(w)
  PROVE  TypeOK' /\ ThreadsInv'
  <1> DEFINE r == [workers[w] EXCEPT !.pc = "take"]
  <1>1. /\ workers[w].pc = "wait" /\ pending_work_items > 0
        /\ workers' = [workers EXCEPT ![w] = r]
        /\ work_items_queue' = work_items_queue /\ pending_work_items' = pending_work_items - 1
        /\ stopped' = stopped /\ queuing' = queuing /\ cleaners' = cleaners
        /\ done' = done /\ outstanding' = outstanding
    BY DEF WaitForWork
  <1>2. r \in WorkerType /\ r.pc = "take" /\ r.item = workers[w].item
    BY ThreadRecords
  <1> HIDE DEF r
  <1>3. /\ workers' \in [Workers -> WorkerType] /\ workers'[w] = r
        /\ \A v \in Workers : v # w => workers'[v] = workers[v]
    BY <1>1, <1>2, ThreadRecords DEF TypeOK
  <1>4. TypeOK'
    BY <1>1, <1>3 DEF TypeOK
  <1>5. Balance'
    <2>1. Taking' = Taking \cup {w} /\ w \notin Taking /\ Posting' = Posting
      BY <1>1, <1>2, <1>3 DEF Taking, Posting
    <2>2. Cardinality(Taking') = Cardinality(Taking) + 1
      BY <2>1, Counted, FS_AddElement
    <2>3. pending_work_items \in Nat /\ Len(work_items_queue) \in Nat
      BY LenProperties DEF TypeOK
    <2> QED BY SMTT(30), <1>1, <2>1, <2>2, <2>3, Counted DEF ThreadsInv, Balance
  <1>6. \A x : Queued(x) => Queued(x)'
    BY <1>1, <1>2, <1>3 DEF Queued
  <1>7. ItemsKept'
    BY <1>1, <1>2, <1>3, <1>6 DEF ThreadsInv, ItemsKept
  <1>8. OneCleanUp'
    BY <1>1 DEF ThreadsInv, OneCleanUp
  <1>9. \A v \in Workers : workers'[v].pc = "ended" <=> workers[v].pc = "ended"
    BY <1>1, <1>2, <1>3
  <1>10. PillsLast'
    BY <1>1, <1>9 DEF ThreadsInv, PillsLast
  <1>11. CleanUpWaits'
    BY <1>1, <1>9 DEF ThreadsInv, CleanUpWaits
  <1> QED BY <1>4, <1>5, <1>7, <1>8, <1>10, <1>11 DEF ThreadsInv

\* TakeWork: the front of the queue goes to the worker; a null one ends it, and then
\* what is behind was not outstanding.
LEMMA TakeWorkInv ==
  ASSUME TypeOK, ThreadsInv, NEW w \in Workers, TakeWork(w)
  PROVE  TypeOK' /\ ThreadsInv'
  <1> DEFINE q == work_items_queue
             x == Head(q)
             r == IF x = Null THEN [pc |-> "ended", item |-> Null] ELSE [pc |-> "run", item |-> x]
  <1>1. /\ workers[w].pc = "take" /\ q # <<>>
        /\ workers' = [workers EXCEPT ![w] = r]
        /\ q' = Tail(q) /\ pending_work_items' = pending_work_items
        /\ stopped' = stopped /\ queuing' = queuing /\ cleaners' = cleaners
        /\ done' = done /\ outstanding' = outstanding
    BY DEF TakeWork
  <1>2. /\ Len(q) \in Nat /\ Len(q) > 0 /\ DOMAIN q = 1..Len(q)
        /\ q' \in Seq(Items \cup {Null}) /\ Len(q') = Len(q) - 1 /\ x \in Items \cup {Null}
        /\ DOMAIN q' = 1..(Len(q) - 1) /\ \A n \in 1..(Len(q) - 1) : q'[n] = q[n + 1]
        /\ x = q[1] /\ ToSet(q) = ToSet(q') \cup {x}
    <2>1. q \in Seq(Items \cup {Null})
      BY DEF TypeOK
    <2> HIDE DEF q
    <2> QED BY <1>1, <2>1, QueueChanges
  <1>3. /\ r \in WorkerType /\ r.item = x
        /\ r.pc = IF x = Null THEN "ended" ELSE "run"
    BY <1>2 DEF WorkerType
  <1> HIDE DEF r, q, x
  <1>4. /\ workers' \in [Workers -> WorkerType] /\ workers'[w] = r
        /\ \A v \in Workers : v # w => workers'[v] = workers[v]
    BY <1>1, <1>3, ThreadRecords DEF TypeOK
  <1>5. TypeOK'
    BY <1>1, <1>2, <1>4 DEF TypeOK, q
  <1>6. Balance'
    <2>1. Taking' = Taking \ {w} /\ w \in Taking /\ Posting' = Posting
      BY <1>1, <1>3, <1>4 DEF Taking, Posting
    <2>2. Cardinality(Taking') = Cardinality(Taking) - 1
      BY <2>1, Counted, FS_RemoveElement
    <2>3. pending_work_items \in Nat
      BY DEF TypeOK
    <2> QED BY <1>1, <1>2, <2>1, <2>2, <2>3, Counted DEF ThreadsInv, Balance, q
  <1>7. \A i \in Items : Queued(i) => Queued(i)'
    <2>1. workers[w].item = Null
      BY <1>1 DEF ThreadsInv, ItemsKept
    <2> QED BY <1>1, <1>2, <1>3, <1>4, <2>1, Counted DEF Queued, q
  <1>8. ItemsKept'
    BY <1>1, <1>3, <1>4, <1>7 DEF ThreadsInv, ItemsKept, TypeOK
  <1>9. OneCleanUp'
    BY <1>1 DEF ThreadsInv, OneCleanUp
  <1>10. PillsLast'
    <2>1. ~stopped => Null \notin ToSet(q') /\ \A v \in Workers : workers'[v].pc # "ended"
      BY <1>2, <1>3, <1>4 DEF ThreadsInv, PillsLast, q
    <2>2. ASSUME NEW m \in DOMAIN q', NEW n \in DOMAIN q', m < n, q'[m] = Null
          PROVE  q'[n] \notin outstanding
      <3>1. m + 1 \in DOMAIN q /\ n + 1 \in DOMAIN q /\ m + 1 < n + 1
        BY <1>2, <2>2
      <3>2. q'[m] = q[m + 1] /\ q'[n] = q[n + 1]
        BY <1>2
      <3> QED BY <2>2, <3>1, <3>2 DEF ThreadsInv, PillsLast, q
    <2>3. ASSUME NEW v \in Workers, workers'[v].pc = "ended"
          PROVE  ToSet(q') \cap outstanding = {}
      <3>1. CASE workers[v].pc = "ended"
        BY <1>2, <3>1 DEF ThreadsInv, PillsLast, q
      <3>2. CASE workers[v].pc # "ended"
        <4>1. x = Null
          BY <1>3, <1>4, <2>3, <3>2
        <4> SUFFICES ASSUME NEW y \in ToSet(q') PROVE y \notin outstanding
          OBVIOUS
        <4>2. PICK n \in 1..(Len(q) - 1) : y = q'[n]
          BY <1>2 DEF ToSet
        <4>3. 1 \in DOMAIN q /\ n + 1 \in DOMAIN q /\ 1 < n + 1 /\ y = q[n + 1]
          BY <1>2, <4>2
        <4> QED BY <1>2, <4>1, <4>3 DEF ThreadsInv, PillsLast, q
      <3> QED BY <3>1, <3>2
    <2> QED BY <1>1, <2>1, <2>2, <2>3 DEF PillsLast, q
  <1>11. CleanUpWaits'
    <2>1. \A c \in Cleaners : ~(cleaners[c].pc = "returned" /\ cleaners[c].pills > 0)
      BY <1>1 DEF ThreadsInv, CleanUpWaits
    <2> QED BY <1>1, <2>1 DEF CleanUpWaits
  <1> QED BY <1>5, <1>6, <1>8, <1>9, <1>10, <1>11 DEF ThreadsInv

\* RunWork: the item is done.
LEMMA RunWorkInv ==
  ASSUME TypeOK, ThreadsInv, NEW w \in Workers, RunWork(w)
  PROVE  TypeOK' /\ ThreadsInv'
  <1> DEFINE r == [pc |-> "wait", item |-> Null]
  <1>1. /\ workers[w].pc = "run" /\ workers' = [workers EXCEPT ![w] = r]
        /\ work_items_queue' = work_items_queue /\ pending_work_items' = pending_work_items
        /\ stopped' = stopped /\ queuing' = queuing /\ cleaners' = cleaners
        /\ done' = done \cup {workers[w].item} /\ outstanding' = outstanding
    BY DEF RunWork
  <1>2. r \in WorkerType /\ r.pc = "wait" /\ r.item = Null
    BY DEF WorkerType
  <1> HIDE DEF r
  <1>3. /\ workers' \in [Workers -> WorkerType] /\ workers'[w] = r
        /\ \A v \in Workers : v # w => workers'[v] = workers[v]
    BY <1>1, <1>2, ThreadRecords DEF TypeOK
  <1>4. workers[w].item \in Items
    BY <1>1, ThreadRecords DEF ThreadsInv, ItemsKept
  <1>5. TypeOK'
    BY <1>1, <1>3, <1>4 DEF TypeOK
  <1>6. Taking' = Taking /\ Posting' = Posting
    BY <1>1, <1>2, <1>3 DEF Taking, Posting
  <1>7. Balance'
    BY <1>1, <1>6 DEF ThreadsInv, Balance
  <1>8. \A i \in Items : Queued(i) => Queued(i)'
    BY <1>1, <1>3, Counted DEF Queued
  <1>9. ItemsKept'
    BY <1>1, <1>2, <1>3, <1>8 DEF ThreadsInv, ItemsKept, TypeOK
  <1>10. OneCleanUp'
    BY <1>1 DEF ThreadsInv, OneCleanUp
  <1>11. \A v \in Workers : workers'[v].pc = "ended" <=> workers[v].pc = "ended"
    BY <1>1, <1>2, <1>3
  <1>12. PillsLast'
    BY <1>1, <1>11 DEF ThreadsInv, PillsLast
  <1>13. CleanUpWaits'
    BY <1>1, <1>11 DEF ThreadsInv, CleanUpWaits
  <1> QED BY <1>5, <1>7, <1>9, <1>10, <1>12, <1>13 DEF ThreadsInv

-----------------------------------------------------------------------------
\* WaitAndCleanUp: the first call finds no null work item, and every item that was
\* queued and is not done is outstanding from then on.
LEMMA WaitAndCleanUpInv ==
  ASSUME TypeOK, ThreadsInv, NEW c \in Cleaners, WaitAndCleanUp(c)
  PROVE  TypeOK' /\ ThreadsInv'
  <1> DEFINE goesOn == ~stopped /\ \E w \in Workers : workers[w].pc # "none"
             pc == IF goesOn THEN "push" ELSE "returned"
             r == [cleaners[c] EXCEPT !.pc = pc]
  <1>1. /\ cleaners[c].pc = "idle" /\ stopped' = TRUE
        /\ cleaners' = [cleaners EXCEPT ![c] = r]
        /\ outstanding' = IF goesOn THEN {i \in Items \ done : Queued(i)} ELSE outstanding
        /\ work_items_queue' = work_items_queue /\ pending_work_items' = pending_work_items
        /\ workers' = workers /\ queuing' = queuing /\ done' = done
    BY DEF WaitAndCleanUp
  <1>2. pc \in {"push", "returned"}
    OBVIOUS
  <1> HIDE DEF goesOn, pc
  <1>3. r \in CleanerType /\ r.pc = pc /\ r.pills = 0
    <2>1. pc \in {"push", "join", "returned"} /\ cleaners[c].pills = 0
      BY <1>1, <1>2 DEF ThreadsInv, OneCleanUp
    <2>2. r \in CleanerType /\ r.pc = pc /\ r.pills = cleaners[c].pills
      BY <2>1, ThreadRecords, ZenonT(60)
    <2> QED BY <2>1, <2>2
  <1> HIDE DEF r
  <1>4. /\ cleaners' \in [Cleaners -> CleanerType] /\ cleaners'[c] = r
        /\ \A d \in Cleaners : d # c => cleaners'[d] = cleaners[d]
    BY <1>1, <1>3, ThreadRecords DEF TypeOK
  <1>5. outstanding' \subseteq Items
    BY <1>1 DEF TypeOK
  <1>6. TypeOK'
    BY <1>1, <1>4, <1>5 DEF TypeOK
  <1>7. Taking' = Taking /\ Posting' = Posting
    BY <1>1, <1>2, <1>3, <1>4 DEF Taking, Posting
  <1>8. Balance'
    BY <1>1, <1>7 DEF ThreadsInv, Balance
  <1>9. ItemsKept'
    <2>1. \A x : Queued(x) => Queued(x)'
      BY <1>1 DEF Queued
    <2> QED BY <1>1, <2>1 DEF ThreadsInv, ItemsKept
  <1>10. OneCleanUp'
    <2>1. 0 < Cardinality(Workers)
      BY Counted
    <2> QED BY <1>1, <1>2, <1>3, <1>4, <2>1 DEF ThreadsInv, OneCleanUp
  <1>11. goesOn => /\ \A n \in DOMAIN work_items_queue : work_items_queue[n] # Null
                   /\ \A w \in Workers : workers[w].pc # "ended"
    BY DEF goesOn, ThreadsInv, PillsLast, ToSet
  <1>12. PillsLast'
    <2>1. CASE goesOn
      BY <1>1, <1>11, <2>1 DEF PillsLast
    <2>2. CASE ~goesOn
      BY <1>1, <2>2 DEF ThreadsInv, PillsLast
    <2> QED BY <2>1, <2>2
  <1>13. CleanUpWaits'
    <2>1. ~(cleaners'[c].pills > 0)
      BY <1>3, <1>4
    <2>2. CASE goesOn
      <3>1. \A d \in Cleaners : cleaners[d].pc = "idle"
        BY <2>2 DEF goesOn, ThreadsInv, OneCleanUp
      <3> QED BY <1>4, <2>1, <3>1 DEF CleanUpWaits
    <2>3. CASE ~goesOn
      BY <1>1, <1>4, <2>1, <2>3 DEF ThreadsInv, CleanUpWaits
    <2> QED BY <2>2, <2>3
  <1> QED BY <1>6, <1>8, <1>9, <1>10, <1>12, <1>13 DEF ThreadsInv

\* PushPill: a null work item behind what is outstanding.
LEMMA PushPillInv ==
  ASSUME TypeOK, ThreadsInv, NEW c \in Cleaners, PushPill(c)
  PROVE  TypeOK' /\ ThreadsInv'
  <1> DEFINE q == work_items_queue
             r == [pc |-> "post", pills |-> cleaners[c].pills + 1]
  <1>1. /\ cleaners[c].pc = "push" /\ cleaners' = [cleaners EXCEPT ![c] = r]
        /\ q' = Append(q, Null) /\ pending_work_items' = pending_work_items
        /\ stopped' = stopped /\ queuing' = queuing /\ workers' = workers
        /\ done' = done /\ outstanding' = outstanding
    BY DEF PushPill
  <1>2. /\ Len(q) \in Nat /\ DOMAIN q = 1..Len(q)
        /\ q' \in Seq(Items \cup {Null}) /\ Len(q') = Len(q) + 1
        /\ DOMAIN q' = 1..(Len(q) + 1) /\ \A n \in 1..Len(q) : q'[n] = q[n]
        /\ q'[Len(q) + 1] = Null /\ ToSet(q') = ToSet(q) \cup {Null}
    <2>1. q \in Seq(Items \cup {Null})
      BY DEF TypeOK
    <2> HIDE DEF q
    <2> QED BY <1>1, <2>1, QueueChanges
  <1>3. /\ cleaners[c].pills \in Nat /\ cleaners[c].pills < Cardinality(Workers)
        /\ Cardinality(Workers) \in Nat /\ stopped
    <2>1. Cardinality(Workers) \in Nat /\ cleaners[c].pills \in 0..Cardinality(Workers)
      BY ThreadRecords, Counted
    <2>2. cleaners[c].pills < Cardinality(Workers) /\ stopped
      BY <1>1 DEF ThreadsInv, OneCleanUp
    <2> QED BY <2>1, <2>2
  <1>4. r \in CleanerType /\ r.pc = "post" /\ r.pills > 0
    BY <1>3 DEF CleanerType
  <1> HIDE DEF r, q
  <1>5. /\ cleaners' \in [Cleaners -> CleanerType] /\ cleaners'[c] = r
        /\ \A d \in Cleaners : d # c => cleaners'[d] = cleaners[d]
    BY <1>1, <1>4, ThreadRecords DEF TypeOK
  <1>6. TypeOK'
    BY <1>1, <1>2, <1>5 DEF TypeOK, q
  <1>7. Balance'
    <2>1. Posting' = Posting \cup {c} /\ c \notin Posting /\ Taking' = Taking
      BY <1>1, <1>4, <1>5 DEF Taking, Posting
    <2>2. Cardinality(Posting') = Cardinality(Posting) + 1
      BY <2>1, Counted, FS_AddElement
    <2>3. pending_work_items \in Nat
      BY DEF TypeOK
    <2> QED BY <1>1, <1>2, <2>1, <2>2, <2>3, Counted DEF ThreadsInv, Balance, q
  <1>8. ItemsKept'
    <2>1. \A x : Queued(x) => Queued(x)'
      BY <1>1, <1>2 DEF Queued, q
    <2> QED BY <1>1, <2>1 DEF ThreadsInv, ItemsKept
  <1>9. OneCleanUp'
    BY <1>1, <1>3, <1>4, <1>5 DEF ThreadsInv, OneCleanUp
  <1>10. PillsLast'
    <2>1. Null \notin outstanding
      BY Counted DEF TypeOK
    <2>2. ASSUME NEW m \in DOMAIN q', NEW n \in DOMAIN q', m < n, q'[m] = Null
          PROVE  q'[n] \notin outstanding
      <3>1. CASE n = Len(q) + 1
        BY <1>2, <2>1, <3>1
      <3>2. CASE n # Len(q) + 1
        <4>1. m \in DOMAIN q /\ n \in DOMAIN q
          BY <1>2, <2>2, <3>2
        <4> QED BY <1>2, <2>2, <4>1 DEF ThreadsInv, PillsLast, q
      <3> QED BY <3>1, <3>2
    <2>3. \A w \in Workers : workers[w].pc = "ended" => ToSet(q') \cap outstanding = {}
      BY <1>2, <2>1 DEF ThreadsInv, PillsLast, q
    <2> QED BY <1>1, <1>3, <2>2, <2>3 DEF PillsLast, q
  <1>11. CleanUpWaits'
    BY <1>1, <1>4, <1>5 DEF ThreadsInv, CleanUpWaits
  <1> QED BY <1>6, <1>7, <1>8, <1>9, <1>10, <1>11 DEF ThreadsInv

\* PostPill: the semaphore promises the null work item.
LEMMA PostPillInv ==
  ASSUME TypeOK, ThreadsInv, NEW c \in Cleaners, PostPill(c)
  PROVE  TypeOK' /\ ThreadsInv'
  <1> DEFINE pc == IF cleaners[c].pills = Cardinality(Workers) THEN "join" ELSE "push"
             r == [cleaners[c] EXCEPT !.pc = pc]
  <1>1. /\ cleaners[c].pc = "post" /\ cleaners' = [cleaners EXCEPT ![c] = r]
        /\ work_items_queue' = work_items_queue /\ pending_work_items' = pending_work_items + 1
        /\ stopped' = stopped /\ queuing' = queuing /\ workers' = workers
        /\ done' = done /\ outstanding' = outstanding
    BY DEF PostPill
  <1>2. /\ cleaners[c].pills \in 0..Cardinality(Workers) /\ Cardinality(Workers) \in Nat
        /\ cleaners[c].pills > 0 /\ stopped
    BY <1>1, ThreadRecords, Counted DEF ThreadsInv, OneCleanUp
  <1>3. pc \in {"join", "push"} /\ (pc = "push" => cleaners[c].pills < Cardinality(Workers))
    BY <1>2
  <1> HIDE DEF pc
  <1>4. r \in CleanerType /\ r.pc = pc /\ r.pills = cleaners[c].pills
    <2>1. pc \in {"push", "join", "returned"}
      BY <1>3
    <2> QED BY <2>1, ThreadRecords, ZenonT(60)
  <1> HIDE DEF r
  <1>5. /\ cleaners' \in [Cleaners -> CleanerType] /\ cleaners'[c] = r
        /\ \A d \in Cleaners : d # c => cleaners'[d] = cleaners[d]
    BY <1>1, <1>4, ThreadRecords DEF TypeOK
  <1>6. TypeOK'
    BY <1>1, <1>5 DEF TypeOK
  <1>7. Balance'
    <2>1. Posting' = Posting \ {c} /\ c \in Posting /\ Taking' = Taking
      BY <1>1, <1>3, <1>4, <1>5 DEF Taking, Posting
    <2>2. Cardinality(Posting') = Cardinality(Posting) - 1
      BY <2>1, Counted, FS_RemoveElement
    <2>3. pending_work_items \in Nat /\ Len(work_items_queue) \in Nat
      BY LenProperties DEF TypeOK
    <2> QED BY <1>1, <2>1, <2>2, <2>3, Counted DEF ThreadsInv, Balance
  <1>8. ItemsKept'
    <2>1. \A x : Queued(x) => Queued(x)'
      BY <1>1 DEF Queued
    <2> QED BY <1>1, <2>1 DEF ThreadsInv, ItemsKept
  <1>9. OneCleanUp'
    BY <1>1, <1>2, <1>3, <1>4, <1>5 DEF ThreadsInv, OneCleanUp
  <1>10. PillsLast'
    BY <1>1 DEF ThreadsInv, PillsLast
  <1>11. CleanUpWaits'
    BY <1>1, <1>3, <1>4, <1>5 DEF ThreadsInv, CleanUpWaits
  <1> QED BY <1>6, <1>7, <1>8, <1>9, <1>10, <1>11 DEF ThreadsInv

\* JoinWorkers: all workers have ended, each after the outstanding items had left the
\* queue, and no item is left with them.
LEMMA JoinWorkersInv ==
  ASSUME TypeOK, ThreadsInv, NEW c \in Cleaners, JoinWorkers(c)
  PROVE  TypeOK' /\ ThreadsInv'
  <1> DEFINE r == [cleaners[c] EXCEPT !.pc = "returned"]
  <1>1. /\ cleaners[c].pc = "join" /\ cleaners' = [cleaners EXCEPT ![c] = r]
        /\ \A w \in Workers : workers[w].pc = "ended"
        /\ work_items_queue' = work_items_queue /\ pending_work_items' = pending_work_items
        /\ stopped' = stopped /\ queuing' = queuing /\ workers' = workers
        /\ done' = done /\ outstanding' = outstanding
    BY DEF JoinWorkers
  <1>2. r \in CleanerType /\ r.pc = "returned" /\ r.pills = cleaners[c].pills
    BY ThreadRecords
  <1> HIDE DEF r
  <1>3. /\ cleaners' \in [Cleaners -> CleanerType] /\ cleaners'[c] = r
        /\ \A d \in Cleaners : d # c => cleaners'[d] = cleaners[d]
    BY <1>1, <1>2, ThreadRecords DEF TypeOK
  <1>4. TypeOK'
    BY <1>1, <1>3 DEF TypeOK
  <1>5. Taking' = Taking /\ Posting' = Posting
    BY <1>1, <1>2, <1>3 DEF Taking, Posting
  <1>6. Balance'
    BY <1>1, <1>5 DEF ThreadsInv, Balance
  <1>7. ItemsKept'
    <2>1. \A x : Queued(x) => Queued(x)'
      BY <1>1 DEF Queued
    <2> QED BY <1>1, <2>1 DEF ThreadsInv, ItemsKept
  <1>8. OneCleanUp'
    BY <1>1, <1>2, <1>3 DEF ThreadsInv, OneCleanUp
  <1>9. PillsLast'
    BY <1>1 DEF ThreadsInv, PillsLast
  <1>10. outstanding \subseteq done
    <2>1. ToSet(work_items_queue) \cap outstanding = {}
      BY <1>1, PoolOfThreads DEF ThreadsInv, PillsLast
    <2>2. \A w \in Workers : workers[w].item = Null
      BY <1>1 DEF ThreadsInv, ItemsKept
    <2> QED BY <2>1, <2>2, Counted DEF ThreadsInv, ItemsKept, Queued, TypeOK
  <1>11. CleanUpWaits'
    BY <1>1, <1>10 DEF CleanUpWaits
  <1> QED BY <1>4, <1>6, <1>7, <1>8, <1>9, <1>11 DEF ThreadsInv

-----------------------------------------------------------------------------
\* The new pool.
LEMMA PoolInitInv ==
  ASSUME PoolInit
  PROVE  TypeOK /\ ThreadsInv
  <1>1. /\ work_items_queue = <<>> /\ pending_work_items = 0 /\ stopped = FALSE
        /\ workers = [w \in Workers |-> [pc |-> "none", item |-> Null]] /\ queuing = {}
        /\ cleaners = [c \in Cleaners |-> [pc |-> "idle", pills |-> 0]] /\ done = {}
        /\ outstanding = {}
    BY DEF PoolInit
  <1>2. Cardinality(Workers) \in Nat
    BY PoolOfThreads, FS_CardinalityType
  <1>3. \A w \in Workers : workers[w].pc = "none" /\ workers[w].item = Null
    BY <1>1
  <1>4. \A c \in Cleaners : cleaners[c].pc = "idle" /\ cleaners[c].pills = 0
    BY <1>1
  <1>5. TypeOK
    <2>1. workers \in [Workers -> WorkerType] /\ cleaners \in [Cleaners -> CleanerType]
      BY <1>1, <1>2 DEF WorkerType, CleanerType
    <2>2. work_items_queue \in Seq(Items \cup {Null})
      BY <1>1, EmptySeq
    <2> QED BY <1>1, <2>1, <2>2 DEF TypeOK
  <1>6. Taking = {} /\ Posting = {} /\ Len(work_items_queue) = 0 /\ DOMAIN work_items_queue = {}
    BY <1>1, <1>3, <1>4 DEF Taking, Posting
  <1>7. Balance
    BY <1>1, <1>6, FS_EmptySet DEF Balance
  <1>8. ItemsKept /\ OneCleanUp /\ CleanUpWaits
    BY <1>1, <1>3, <1>4 DEF ItemsKept, OneCleanUp, CleanUpWaits
  <1>9. PillsLast
    BY <1>1, <1>3, <1>6 DEF PillsLast, ToSet
  <1> QED BY <1>5, <1>7, <1>8, <1>9 DEF ThreadsInv

\* Every step keeps TypeOK and ThreadsInv.
LEMMA NextThreadsInv ==
  ASSUME TypeOK, ThreadsInv, [Next]_vars
  PROVE  TypeOK' /\ ThreadsInv'
  <1>1. CASE StartWorkers
    BY <1>1, StartWorkersInv
  <1>2. ASSUME NEW i \in Items, QueueWork(i) \/ PostWork(i) PROVE TypeOK' /\ ThreadsInv'
    BY <1>2, QueueWorkInv, PostWorkInv
  <1>3. ASSUME NEW w \in Workers, WorkerStep(w) PROVE TypeOK' /\ ThreadsInv'
    BY <1>3, WaitForWorkInv, TakeWorkInv, RunWorkInv DEF WorkerStep
  <1>4. ASSUME NEW c \in Cleaners, WaitAndCleanUp(c) \/ CleanerStep(c)
        PROVE  TypeOK' /\ ThreadsInv'
    BY <1>4, WaitAndCleanUpInv, PushPillInv, PostPillInv, JoinWorkersInv DEF CleanerStep
  <1>5. CASE UNCHANGED vars
    <2>1. /\ work_items_queue' = work_items_queue /\ pending_work_items' = pending_work_items
          /\ stopped' = stopped /\ queuing' = queuing /\ workers' = workers
          /\ cleaners' = cleaners /\ done' = done /\ outstanding' = outstanding
      BY <1>5 DEF vars
    <2>2. TypeOK' /\ Balance'
      BY <2>1 DEF TypeOK, ThreadsInv, Balance, Taking, Posting
    <2>3. ItemsKept' /\ OneCleanUp' /\ PillsLast' /\ CleanUpWaits'
      BY <2>1 DEF ThreadsInv, ItemsKept, OneCleanUp, PillsLast, CleanUpWaits, Queued
    <2> QED BY <2>2, <2>3 DEF ThreadsInv
  <1> QED BY <1>1, <1>2, <1>3, <1>4, <1>5 DEF Next

\* TypeOK and ThreadsInv hold in every behaviour of the pool.
THEOREM ThreadsInvariant == Spec => [](TypeOK /\ ThreadsInv)
  <1>1. PoolInit => TypeOK /\ ThreadsInv
    BY PoolInitInv
  <1>2. (TypeOK /\ ThreadsInv) /\ [Next]_vars => (TypeOK /\ ThreadsInv)'
    BY NextThreadsInv
  <1> QED BY <1>1, <1>2, PTL DEF Spec

\* The DCHECK of the worker loop: who was let through by the semaphore finds work.
THEOREM WorkIsThereHolds == Spec => []WorkIsThere
  <1>1. TypeOK /\ ThreadsInv => WorkIsThere
    <2> SUFFICES ASSUME TypeOK, ThreadsInv PROVE WorkIsThere
      OBVIOUS
    <2>1. pending_work_items \in Nat /\ Len(work_items_queue) \in Nat
      BY LenProperties DEF TypeOK
    <2> QED BY <2>1, Counted DEF ThreadsInv, Balance, WorkIsThere
  <1> QED BY <1>1, ThreadsInvariant, PTL

\* The call of WaitAndCleanUp that joins the workers returns when all that was queued
\* before it is done.
THEOREM CleanUpWaitsHolds == Spec => []CleanUpWaits
  <1>1. TypeOK /\ ThreadsInv => CleanUpWaits
    BY DEF ThreadsInv
  <1> QED BY <1>1, ThreadsInvariant, PTL

-----------------------------------------------------------------------------
\* An item that enters the queue was in no place, and it moves on from there.
LEMMA ItemsOnceNext ==
  ASSUME TypeOK, ThreadsInv, ItemsOnce, [Next]_vars
  PROVE  ItemsOnce'
  <1> DEFINE q == work_items_queue
  <1>0. /\ q \in Seq(Items \cup {Null}) /\ done \subseteq Items /\ Null \notin Items
        /\ \A w \in Workers : workers[w].item \in Items \cup {Null}
        /\ workers \in [Workers -> WorkerType]
    BY Counted, ThreadRecords DEF TypeOK
  <1>q. /\ Len(q) \in Nat /\ DOMAIN q = 1..Len(q) /\ \A n \in DOMAIN q : q[n] \in ToSet(q)
    BY <1>0, QueueChanges DEF ToSet
  <1> HIDE DEF q
  <1>1. ASSUME q' = q, done' = done, \A w \in Workers : workers'[w].item = workers[w].item
        PROVE  ItemsOnce'
    BY <1>1 DEF ItemsOnce, q
  <1>2. CASE StartWorkers
    <2>1. /\ q' = q /\ done' = done /\ \A w \in Workers : workers'[w].item = Null
      BY <1>2 DEF StartWorkers, q
    <2>2. \A w \in Workers : workers[w].item = Null
      BY <1>2 DEF StartWorkers, ThreadsInv, ItemsKept
    <2> QED BY <1>1, <2>1, <2>2
  <1>3. ASSUME NEW x \in Items \cup {Null}, q' = Append(q, x), x \in Items => ~Queued(x),
               done' = done, workers' = workers
        PROVE  ItemsOnce'
    <2>1. /\ DOMAIN q' = 1..(Len(q) + 1) /\ q'[Len(q) + 1] = x
          /\ \A n \in 1..Len(q) : q'[n] = q[n]
          /\ ToSet(q') = ToSet(q) \cup {x}
      BY <1>0, <1>3, QueueChanges
    <2>2. x # Null => /\ x \notin ToSet(q) /\ x \notin done
                      /\ \A w \in Workers : workers[w].item # x
      BY <1>0, <1>3 DEF Queued, q
    <2>3. ASSUME NEW m \in DOMAIN q', NEW n \in DOMAIN q', q'[m] = q'[n], q'[m] # Null
          PROVE  m = n
      <3>1. /\ m \in DOMAIN q \/ (m = Len(q) + 1 /\ q'[m] = x)
            /\ n \in DOMAIN q \/ (n = Len(q) + 1 /\ q'[n] = x)
        <4>1. /\ m \in 1..Len(q) \/ m = Len(q) + 1
              /\ n \in 1..Len(q) \/ n = Len(q) + 1
          BY <1>q, <2>1
        <4> QED BY <1>q, <2>1, <4>1
      <3>2. /\ m \in DOMAIN q => q'[m] = q[m] /\ q[m] \in ToSet(q)
            /\ n \in DOMAIN q => q'[n] = q[n] /\ q[n] \in ToSet(q)
        BY <1>q, <2>1
      <3> QED BY <2>2, <2>3, <3>1, <3>2 DEF ItemsOnce, q
    <2> QED BY <1>3, <2>1, <2>2, <2>3 DEF ItemsOnce, q
  <1>4. ASSUME NEW i \in Items, QueueWork(i) PROVE ItemsOnce'
    BY <1>3, <1>4 DEF QueueWork, q
  <1>5. ASSUME NEW w \in Workers, WaitForWork(w) PROVE ItemsOnce'
    <2>1. workers' = [workers EXCEPT ![w].pc = "take"] /\ q' = q /\ done' = done
      BY <1>5 DEF WaitForWork, q
    <2>2. \A v \in Workers : workers'[v].item = workers[v].item
      BY <1>0, <2>1 DEF WorkerType
    <2> QED BY <1>1, <2>1, <2>2
  <1>6. ASSUME NEW w \in Workers, TakeWork(w) PROVE ItemsOnce'
    <2> DEFINE x == Head(q)
    <2>1. q # <<>> /\ q' = Tail(q) /\ done' = done
      BY <1>6 DEF TakeWork, q
    <2>2. workers'[w].item = x /\ \A v \in Workers : v # w => workers'[v] = workers[v]
      BY <1>0, <1>6 DEF TakeWork, WorkerType, q
    <2>3. /\ DOMAIN q' = 1..(Len(q) - 1) /\ \A n \in 1..(Len(q) - 1) : q'[n] = q[n + 1]
          /\ x = q[1] /\ 1 \in DOMAIN q /\ ToSet(q) = ToSet(q') \cup {x}
      BY <1>0, <1>q, <2>1, QueueChanges
    <2> HIDE DEF x
    <2>4. \A n \in DOMAIN q' : q'[n] = q[n + 1] /\ n + 1 \in DOMAIN q /\ n + 1 # 1 /\ n \in Int
      BY <1>q, <2>3
    <2>5. x # Null => x \notin ToSet(q')
      <3>1. ASSUME x # Null, NEW n \in DOMAIN q', q'[n] = x PROVE FALSE
        BY <2>3, <2>4, <3>1 DEF ItemsOnce, q
      <3> QED BY <3>1 DEF ToSet
    <2>6. ASSUME NEW m \in DOMAIN q', NEW n \in DOMAIN q', q'[m] = q'[n], q'[m] # Null
          PROVE  m = n
      <3>1. m + 1 = n + 1
        BY <2>4, <2>6 DEF ItemsOnce, q
      <3> QED BY <2>4, <3>1
    <2>7. ASSUME NEW i \in ToSet(q') \ {Null}
          PROVE  i \notin done' /\ \A v \in Workers : workers'[v].item # i
      BY <2>1, <2>2, <2>3, <2>5 DEF ItemsOnce, q
    <2>8. /\ x \notin done
          /\ x # Null => \A v \in Workers : workers[v].item # x
      <3>1. x \in ToSet(q)
        BY <2>3
      <3> QED BY <1>0, <3>1 DEF ItemsOnce, q
    <2>9. ASSUME NEW u \in Workers
          PROVE  /\ workers'[u].item \notin done'
                 /\ \A v \in Workers : workers'[v].item = workers'[u].item /\ v # u
                                         => workers'[u].item = Null
      BY <2>1, <2>2, <2>8 DEF ItemsOnce
    <2> QED BY <2>6, <2>7, <2>9 DEF ItemsOnce, q
  <1>7. ASSUME NEW w \in Workers, RunWork(w) PROVE ItemsOnce'
    <2>1. /\ workers[w].item # Null /\ q' = q /\ done' = done \cup {workers[w].item}
          /\ workers'[w].item = Null /\ \A v \in Workers : v # w => workers'[v] = workers[v]
      BY <1>0, <1>7 DEF RunWork, WorkerType, ThreadsInv, ItemsKept, q
    <2> QED BY <1>0, <2>1 DEF ItemsOnce, q
  <1>8. ASSUME NEW c \in Cleaners, PushPill(c) PROVE ItemsOnce'
    BY <1>0, <1>3, <1>8 DEF PushPill, q
  <1>9. ASSUME NEW c \in Cleaners, WaitAndCleanUp(c) \/ PostPill(c) \/ JoinWorkers(c)
        PROVE  ItemsOnce'
    BY <1>1, <1>9 DEF WaitAndCleanUp, PostPill, JoinWorkers, q
  <1>10. ASSUME NEW i \in Items, PostWork(i) PROVE ItemsOnce'
    BY <1>1, <1>10 DEF PostWork, q
  <1>11. CASE UNCHANGED vars
    BY <1>1, <1>11 DEF vars, q
  <1> QED BY <1>2, <1>4, <1>5, <1>6, <1>7, <1>8, <1>9, <1>10, <1>11
          DEF Next, WorkerStep, CleanerStep

\* In the new pool there is no item.
LEMMA ItemsOnceInit ==
  ASSUME PoolInit
  PROVE  ItemsOnce
  <1>1. /\ DOMAIN work_items_queue = {} /\ done = {} /\ \A w \in Workers : workers[w].item = Null
    BY DEF PoolInit
  <1> QED BY <1>1 DEF ItemsOnce, ToSet

\* A work item is in the queue, with one worker or done, and never in two of these places:
\* the pool runs it once, for any number of workers.
THEOREM ItemsRunOnce == Spec => []ItemsOnce
  <1>1. PoolInit => ItemsOnce
    BY ItemsOnceInit
  <1>2. (TypeOK /\ ThreadsInv) /\ ItemsOnce /\ [Next]_vars => ItemsOnce'
    BY ItemsOnceNext
  <1> QED BY <1>1, <1>2, ThreadsInvariant, PTL DEF Spec

-----------------------------------------------------------------------------
(* The service. *)

\* The table of contexts as a function, changed at one place or made longer by one.
LEMMA CtxChanges ==
  ASSUME GrpcTypeOK
  PROVE  /\ Len(ctxs) \in Nat /\ ctxs \in [Ctxs -> CtxType] /\ DOMAIN ctxs = Ctxs
         /\ \A c \in Ctxs : ctxs[c] \in CtxType
         /\ \A c \in Ctxs, r \in CtxType :
              ctxs' = [ctxs EXCEPT ![c] = r]
                => /\ ctxs' \in Seq(CtxType) /\ Ctxs' = Ctxs /\ ctxs'[c] = r
                   /\ \A d \in Ctxs : d # c => ctxs'[d] = ctxs[d]
         /\ \A r \in CtxType :
              ctxs' = Append(ctxs, r)
                => /\ ctxs' \in Seq(CtxType) /\ Ctxs' = Ctxs \cup {Len(ctxs) + 1}
                   /\ ctxs'[Len(ctxs) + 1] = r /\ Len(ctxs) + 1 \notin Ctxs
                   /\ \A d \in Ctxs : ctxs'[d] = ctxs[d]
  <1>1. /\ ctxs \in Seq(CtxType) /\ Len(ctxs) \in Nat /\ ctxs \in [Ctxs -> CtxType]
        /\ DOMAIN ctxs = Ctxs /\ \A c \in Ctxs : ctxs[c] \in CtxType
    BY LenProperties DEF GrpcTypeOK, Ctxs
  <1>2. ASSUME NEW c \in Ctxs, NEW r \in CtxType, ctxs' = [ctxs EXCEPT ![c] = r]
        PROVE  /\ ctxs' \in Seq(CtxType) /\ Ctxs' = Ctxs /\ ctxs'[c] = r
               /\ \A d \in Ctxs : d # c => ctxs'[d] = ctxs[d]
    <2>1. ctxs' \in [1..Len(ctxs) -> CtxType]
      BY <1>1, <1>2 DEF Ctxs
    <2>2. ctxs' \in Seq(CtxType)
      BY <1>1, <2>1, IsASeq
    <2>3. Len(ctxs') = Len(ctxs)
      BY <1>1, <2>1, <2>2, LenProperties
    <2> QED BY <1>1, <1>2, <2>2, <2>3 DEF Ctxs
  <1>3. ASSUME NEW r \in CtxType, ctxs' = Append(ctxs, r)
        PROVE  /\ ctxs' \in Seq(CtxType) /\ Ctxs' = Ctxs \cup {Len(ctxs) + 1}
               /\ ctxs'[Len(ctxs) + 1] = r /\ Len(ctxs) + 1 \notin Ctxs
               /\ \A d \in Ctxs : ctxs'[d] = ctxs[d]
    <2>1. /\ ctxs' \in Seq(CtxType) /\ Len(ctxs') = Len(ctxs) + 1
          /\ ctxs'[Len(ctxs) + 1] = r /\ \A d \in 1..Len(ctxs) : ctxs'[d] = ctxs[d]
      BY <1>1, <1>3, AppendProperties
    <2> QED BY <1>1, <2>1 DEF Ctxs
  <1> QED BY <1>1, <1>2, <1>3

\* The record of one polling function changes.
LEMMA PollChanges ==
  ASSUME GrpcTypeOK, NEW w \in Workers, NEW r \in PollType, polls' = [polls EXCEPT ![w] = r]
  PROVE  /\ polls' \in [Workers -> PollType] /\ polls'[w] = r
         /\ \A v \in Workers : v # w => polls'[v] = polls[v]
  BY DEF GrpcTypeOK

\* The fields of a polling function's record, and of one with another pc.
LEMMA PollFields ==
  ASSUME NEW r \in PollType
  PROVE  /\ r.event \in EventType /\ r.method \in Methods /\ r.new \in Nat
         /\ \A x \in {"idle", "register", "registered", "next", "ended", "proceed", "CREATE",
                      "PROCESS", "replaced", "serve", "answered", "FINISH", "deleted",
                      "drained"} :
              /\ [r EXCEPT !.pc = x] \in PollType /\ [r EXCEPT !.pc = x].pc = x
              /\ [r EXCEPT !.pc = x].event = r.event /\ [r EXCEPT !.pc = x].new = r.new
         /\ \A x \in {"registered", "replaced"}, n \in Nat :
              /\ [r EXCEPT !.pc = x, !.new = n] \in PollType
              /\ [r EXCEPT !.pc = x, !.new = n].pc = x
              /\ [r EXCEPT !.pc = x, !.new = n].event = r.event
              /\ [r EXCEPT !.pc = x, !.new = n].new = n
  BY DEF PollType

\* The records that a polling function starts anew with.
LEMMA NewPolls ==
  /\ NotPolling \in PollType /\ NotPolling.pc = "idle"
  /\ AtNext \in PollType /\ AtNext.pc = "next"
  /\ \A m \in Methods : /\ [NotPolling EXCEPT !.pc = "register", !.method = m] \in PollType
                        /\ [NotPolling EXCEPT !.pc = "register", !.method = m].pc = "register"
  /\ [NotPolling EXCEPT !.pc = "ended"] \in PollType
  /\ [NotPolling EXCEPT !.pc = "ended"].pc = "ended"
  /\ \A e \in EventType : /\ [NotPolling EXCEPT !.pc = "proceed", !.event = e] \in PollType
                          /\ [NotPolling EXCEPT !.pc = "proceed", !.event = e].pc = "proceed"
                          /\ [NotPolling EXCEPT !.pc = "proceed", !.event = e].event = e
  <1>1. 1 \in Methods
    BY ServiceAssumption DEF Methods
  <1>2. NotPolling \in PollType /\ NotPolling.pc = "idle"
    BY <1>1 DEF NotPolling, PollType, EventType, NoEvent
  <1> QED BY <1>2 DEF AtNext, PollType

\* The fields of a context, and of one that changes.
LEMMA CtxFields ==
  ASSUME NEW r \in CtxType
  PROVE  /\ r.status \in {"CREATE", "PROCESS", "FINISH", "deleted", "drained"}
         /\ r.lock \in Workers \cup {Null} /\ r.op \in {"none", "request", "finish"}
         /\ r.method \in Methods
         /\ \A x \in {"none", "finish"} :
              /\ [r EXCEPT !.op = x] \in CtxType /\ [r EXCEPT !.op = x].op = x
              /\ [r EXCEPT !.op = x].status = r.status /\ [r EXCEPT !.op = x].lock = r.lock
         /\ \A w \in Workers :
              /\ [r EXCEPT !.lock = w] \in CtxType /\ [r EXCEPT !.lock = w].op = r.op
              /\ [r EXCEPT !.lock = w].status = r.status /\ [r EXCEPT !.lock = w].lock = w
         /\ [r EXCEPT !.status = "drained"] \in CtxType
         /\ [r EXCEPT !.status = "drained"].status = "drained"
         /\ [r EXCEPT !.status = "drained"].op = r.op
         /\ [r EXCEPT !.status = "drained"].lock = r.lock
         /\ \A x \in {"PROCESS", "FINISH", "deleted"} :
              /\ [r EXCEPT !.status = x, !.lock = Null] \in CtxType
              /\ [r EXCEPT !.status = x, !.lock = Null].status = x
              /\ [r EXCEPT !.status = x, !.lock = Null].op = r.op
              /\ [r EXCEPT !.status = x, !.lock = Null].lock = Null
  BY DEF CtxType

\* The completion queue: an event of a context that has none is added, or the front
\* is taken, and then no other event of its context is left.
LEMMA EventChanges ==
  ASSUME GrpcTypeOK, OneEvent
  PROVE  /\ \A e \in EventType :
              events' = Append(events, e) /\ (\A f \in ToSet(events) : f.ctx # e.ctx)
                => /\ events' \in Seq(EventType) /\ ToSet(events') = ToSet(events) \cup {e}
                   /\ \A m, n \in DOMAIN events' : events'[m].ctx = events'[n].ctx => m = n
         /\ events # <<>> =>
              /\ Head(events) \in EventType /\ Head(events) \in ToSet(events)
              /\ events' = Tail(events)
                   => /\ events' \in Seq(EventType)
                      /\ ToSet(events') = ToSet(events) \ {Head(events)}
                      /\ \A f \in ToSet(events') : f.ctx # Head(events).ctx
                      /\ \A m, n \in DOMAIN events' : events'[m].ctx = events'[n].ctx => m = n
  <1>0. events \in Seq(EventType)
    BY DEF GrpcTypeOK
  <1>u. \A m, n \in DOMAIN events : events[m].ctx = events[n].ctx => m = n
    BY DEF OneEvent
  <1>1. ASSUME NEW e \in EventType, events' = Append(events, e),
               \A f \in ToSet(events) : f.ctx # e.ctx
        PROVE  /\ events' \in Seq(EventType) /\ ToSet(events') = ToSet(events) \cup {e}
               /\ \A m, n \in DOMAIN events' : events'[m].ctx = events'[n].ctx => m = n
    <2>1. /\ Len(events) \in Nat /\ DOMAIN events = 1..Len(events)
          /\ events' \in Seq(EventType) /\ DOMAIN events' = 1..(Len(events) + 1)
          /\ \A n \in 1..Len(events) : events'[n] = events[n]
          /\ events'[Len(events) + 1] = e /\ ToSet(events') = ToSet(events) \cup {e}
      BY <1>0, <1>1, QueueChanges
    <2>2. \A n \in DOMAIN events : events[n].ctx # e.ctx
      BY <1>1 DEF ToSet
    <2>3. ASSUME NEW m \in DOMAIN events', NEW n \in DOMAIN events',
                 events'[m].ctx = events'[n].ctx
          PROVE  m = n
      <3>1. /\ m \in DOMAIN events \/ m = Len(events) + 1
            /\ n \in DOMAIN events \/ n = Len(events) + 1
        BY <2>1
      <3> QED BY <1>u, <2>1, <2>2, <2>3, <3>1
    <2> QED BY <2>1, <2>3
  <1>2. ASSUME events # <<>>
        PROVE  /\ Head(events) \in EventType /\ Head(events) \in ToSet(events)
               /\ events' = Tail(events)
                    => /\ events' \in Seq(EventType)
                       /\ ToSet(events') = ToSet(events) \ {Head(events)}
                       /\ \A f \in ToSet(events') : f.ctx # Head(events).ctx
                       /\ \A m, n \in DOMAIN events' : events'[m].ctx = events'[n].ctx => m = n
    <2> DEFINE h == Head(events)
    <2>1. /\ Tail(events) \in Seq(EventType) /\ h \in EventType
          /\ Len(events) \in Nat /\ Len(events) > 0 /\ DOMAIN events = 1..Len(events)
          /\ DOMAIN Tail(events) = 1..(Len(events) - 1)
          /\ \A n \in 1..(Len(events) - 1) : Tail(events)[n] = events[n + 1]
          /\ h = events[1] /\ ToSet(events) = ToSet(Tail(events)) \cup {h}
      BY <1>0, <1>2, QueueChanges
    <2> DEFINE t == Tail(events)
    <2> HIDE DEF h, t
    <2>2. \A n \in DOMAIN t : t[n] = events[n + 1] /\ n + 1 \in DOMAIN events /\ n + 1 # 1
      BY <2>1 DEF t
    <2>3. 1 \in DOMAIN events
      BY <2>1
    <2>4. \A n \in DOMAIN t : t[n].ctx # h.ctx
      BY <1>u, <2>1, <2>2, <2>3
    <2>5. \A f \in ToSet(t) : f.ctx # h.ctx
      BY <2>4 DEF ToSet
    <2>6. ToSet(t) = ToSet(events) \ {h}
      BY <2>1, <2>5 DEF t
    <2>7. ASSUME NEW m \in DOMAIN t, NEW n \in DOMAIN t, t[m].ctx = t[n].ctx
          PROVE  m = n
      <3>1. m + 1 = n + 1
        BY <1>u, <2>2, <2>7
      <3>2. m \in Int /\ n \in Int
        BY <2>1 DEF t
      <3> QED BY <3>1, <3>2
    <2> QED BY <2>1, <2>5, <2>6, <2>7 DEF h, t
  <1> QED BY <1>1, <1>2

-----------------------------------------------------------------------------
\* Who does not step keeps its locks and its event.
LEMMA OthersKeep ==
  ASSUME NEW w, \A v \in Workers : v # w => polls'[v] = polls[v]
  PROVE  \A v \in Workers : v # w =>
           \A d : /\ LocksNew(v, d)' <=> LocksNew(v, d)
                  /\ LocksOld(v, d)' <=> LocksOld(v, d)
                  /\ HasEvent(v, d)' <=> HasEvent(v, d)
                  /\ Answering(v, d)' <=> Answering(v, d)
  BY DEF LocksNew, LocksOld, HasEvent, Answering

\* When nothing that polls changes.
LEMMA AllKeep ==
  ASSUME polls' = polls
  PROVE  \A v \in Workers : \A d :
           /\ LocksNew(v, d)' <=> LocksNew(v, d)
           /\ LocksOld(v, d)' <=> LocksOld(v, d)
           /\ HasEvent(v, d)' <=> HasEvent(v, d)
           /\ Answering(v, d)' <=> Answering(v, d)
  BY DEF LocksNew, LocksOld, HasEvent, Answering

\* How the predicates on a thread hang together.
LEMMA HoldsFacts ==
  ASSUME NEW w, NEW c
  PROVE  /\ HasEvent(w, c) /\ polls[w].pc # "proceed" => LocksOld(w, c)
         /\ Answering(w, c) => LocksOld(w, c) /\ ~HasEvent(w, c)
         /\ LocksOld(w, c) => HasEvent(w, c) \/ Answering(w, c)
         /\ HasEvent(w, c) \/ Answering(w, c) => polls[w].event.ctx = c
         /\ LocksNew(w, c) => polls[w].new = c
  BY DEF LocksNew, LocksOld, HasEvent, Answering

\* The runtime completes an operation: its event takes its place.
LEMMA CompleteInv ==
  ASSUME GrpcTypeOK, ContextInv, NEW c \in Ctxs, NEW ok \in BOOLEAN,
         ctxs[c].op \in {"request", "finish"}, Complete(c, ok),
         ctxs[c].op = "request" /\ ~ok => ~server_started
  PROVE  /\ ctxs' \in Seq(CtxType) /\ events' \in Seq(EventType)
         /\ ContextInv'
  <1> DEFINE k == ctxs[c].op
             e == [ctx |-> c, kind |-> k, ok |-> ok]
             r == [ctxs[c] EXCEPT !.op = "none"]
  <1>1. /\ ctxs' = [ctxs EXCEPT ![c] = r] /\ events' = Append(events, e)
        /\ polls' = polls /\ server_started' = server_started
    BY DEF Complete
  <1>2. /\ r \in CtxType /\ r.op = "none" /\ r.status = ctxs[c].status /\ r.lock = ctxs[c].lock
    BY ZenonT(60), CtxChanges, CtxFields
  <1>3. e \in EventType /\ e.ctx = c /\ e.kind = k /\ e.ok = ok
    BY CtxChanges DEF EventType, Ctxs
  <1>4. /\ k \in {"request", "finish"} /\ k # "none" /\ \A f \in ToSet(events) : f.ctx # c
    BY DEF ContextInv, OneEvent
  <1> HIDE DEF r, e
  <1>5. /\ ctxs' \in Seq(CtxType) /\ Ctxs' = Ctxs /\ ctxs'[c] = r
        /\ \A d \in Ctxs : d # c => ctxs'[d] = ctxs[d]
    BY <1>1, <1>2, CtxChanges
  <1>6. /\ events' \in Seq(EventType) /\ ToSet(events') = ToSet(events) \cup {e}
        /\ \A m, n \in DOMAIN events' : events'[m].ctx = events'[n].ctx => m = n
    BY <1>1, <1>3, <1>4, EventChanges DEF ContextInv
  <1>7. \A v \in Workers : \A d : /\ LocksNew(v, d)' <=> LocksNew(v, d)
                                  /\ LocksOld(v, d)' <=> LocksOld(v, d)
                                  /\ HasEvent(v, d)' <=> HasEvent(v, d)
                                  /\ Answering(v, d)' <=> Answering(v, d)
    BY <1>1, AllKeep
  <1>8. /\ \A d \in Ctxs : /\ ctxs'[d].status = ctxs[d].status /\ ctxs'[d].lock = ctxs[d].lock
                           /\ d # c => ctxs'[d].op = ctxs[d].op
        /\ ctxs'[c].op = "none"
    BY <1>2, <1>5
  <1> HIDE DEF k
  <1>9. \A w \in Workers : ~HasEvent(w, c)
    BY <1>4 DEF ContextInv, OneEvent, k
  <1>10. KnownContexts'
    <2>1. k = "request" /\ ~ok => ~server_started
      BY DEF k
    <2> QED BY <1>1, <1>3, <1>4, <1>5, <1>6, <2>1 DEF ContextInv, KnownContexts
  <1>11. LocksHeld'
    BY <1>5, <1>7, <1>8 DEF ContextInv, LocksHeld
  <1>12. OneEvent'
    BY <1>3, <1>5, <1>6, <1>7, <1>8, <1>9 DEF ContextInv, OneEvent, KnownContexts
  <1>13. FreedUnused'
    <2>1. ~Freed(c)
      BY <1>4 DEF ContextInv, FreedUnused, k
    <2>2. \A d \in Ctxs : Freed(d)' <=> Freed(d)
      BY <1>8 DEF Freed
    <2> QED BY <1>3, <1>5, <1>6, <1>7, <1>8, <2>1, <2>2 DEF ContextInv, FreedUnused
  <1>14. \A d \in Ctxs, x \in {"request", "finish"} : Waits(d, x)' => Waits(d, x)
    BY <1>1, <1>3, <1>6, <1>7, <1>8 DEF Waits, k
  <1>15. StatusLags'
    BY <1>1, <1>5, <1>7, <1>8, <1>14 DEF ContextInv, StatusLags
  <1>16. EventMeetsStatus'
    BY <1>1 DEF ContextInv, EventMeetsStatus
  <1> QED BY <1>5, <1>6, <1>10, <1>11, <1>12, <1>13, <1>15, <1>16 DEF ContextInv

\* A thread that has neither lock nor event moves on to where it has none.
LEMMA IdleMovesInv ==
  ASSUME GrpcTypeOK, ContextInv, NEW w \in Workers, NEW r \in PollType,
         polls[w].pc \in {"idle", "register", "next", "ended"},
         r.pc \in {"idle", "register", "next", "ended"},
         polls' = [polls EXCEPT ![w] = r], ctxs' = ctxs, events' = events,
         server_started' = server_started
  PROVE  ContextInv'
  <1>1. polls'[w] = r /\ \A v \in Workers : v # w => polls'[v] = polls[v]
    BY PollChanges
  <1>2. \A v \in Workers : \A d : /\ LocksNew(v, d)' <=> LocksNew(v, d)
                                  /\ LocksOld(v, d)' <=> LocksOld(v, d)
                                  /\ HasEvent(v, d)' <=> HasEvent(v, d)
                                  /\ Answering(v, d)' <=> Answering(v, d)
    BY <1>1 DEF LocksNew, LocksOld, HasEvent, Answering
  <1>3. Ctxs' = Ctxs /\ \A d \in Ctxs : Freed(d)' <=> Freed(d)
    BY DEF Ctxs, Freed
  <1>4. \A d \in Ctxs, x \in {"request", "finish"} : Waits(d, x)' => Waits(d, x)
    BY <1>1, <1>2 DEF Waits, HasEvent
  <1>5. KnownContexts'
    BY <1>1, <1>3 DEF ContextInv, KnownContexts
  <1>6. LocksHeld' /\ OneEvent' /\ FreedUnused'
    BY <1>2, <1>3 DEF ContextInv, LocksHeld, OneEvent, FreedUnused
  <1>7. StatusLags'
    BY <1>1, <1>2, <1>3, <1>4 DEF ContextInv, StatusLags, LocksOld
  <1>8. EventMeetsStatus'
    BY <1>1 DEF ContextInv, EventMeetsStatus
  <1> QED BY <1>5, <1>6, <1>7, <1>8 DEF ContextInv

\* NextEvent: the thread takes the event over, or drops it.
LEMMA NextEventInv ==
  ASSUME GrpcTypeOK, ContextInv, NEW w \in Workers, NextEvent(w)
  PROVE  /\ events' \in Seq(EventType) /\ polls' \in [Workers -> PollType]
         /\ ContextInv'
  <1> DEFINE e == Head(events)
             r == IF ~e.ok /\ ~server_started
                    THEN [NotPolling EXCEPT !.pc = "ended"]
                    ELSE [NotPolling EXCEPT !.pc = "proceed", !.event = e]
  <1>1. /\ polls[w].pc = "next" /\ events # <<>> /\ events' = Tail(events)
        /\ polls' = [polls EXCEPT ![w] = r] /\ ctxs' = ctxs
        /\ server_started' = server_started
    BY DEF NextEvent
  <1>2. /\ e \in EventType /\ e \in ToSet(events) /\ events' \in Seq(EventType)
        /\ ToSet(events') = ToSet(events) \ {e}
        /\ \A f \in ToSet(events') : f.ctx # e.ctx
        /\ \A m, n \in DOMAIN events' : events'[m].ctx = events'[n].ctx => m = n
    BY <1>1, EventChanges DEF ContextInv
  <1> HIDE DEF e
  <1>3. /\ r \in PollType
        /\ r.pc = "ended" \/ (r.pc = "proceed" /\ r.event = e /\ (e.ok \/ server_started))
    BY <1>2, NewPolls
  <1> HIDE DEF r
  <1>4. /\ polls' \in [Workers -> PollType] /\ polls'[w] = r
        /\ \A v \in Workers : v # w => polls'[v] = polls[v]
    BY <1>1, <1>3, PollChanges
  <1>5. \A v \in Workers : v # w =>
          \A d : /\ LocksNew(v, d)' <=> LocksNew(v, d)
                 /\ LocksOld(v, d)' <=> LocksOld(v, d)
                 /\ HasEvent(v, d)' <=> HasEvent(v, d)
                 /\ Answering(v, d)' <=> Answering(v, d)
    BY <1>4, OthersKeep
  <1>6. \A d : /\ ~LocksNew(w, d) /\ ~LocksOld(w, d) /\ ~HasEvent(w, d) /\ ~Answering(w, d)
               /\ ~LocksNew(w, d)' /\ ~LocksOld(w, d)' /\ ~Answering(w, d)'
               /\ HasEvent(w, d)' => d = e.ctx /\ r.pc = "proceed"
    BY <1>1, <1>3, <1>4 DEF LocksNew, LocksOld, HasEvent, Answering
  <1>7. Ctxs' = Ctxs /\ \A d \in Ctxs : Freed(d)' <=> Freed(d)
    BY <1>1 DEF Ctxs, Freed
  <1>8. /\ e.ctx \in Ctxs /\ e.kind # "none" /\ (e.kind = "request" /\ ~e.ok => ~server_started)
        /\ ctxs[e.ctx].op = "none" /\ ~Freed(e.ctx) /\ \A v \in Workers : ~HasEvent(v, e.ctx)
    BY <1>2 DEF ContextInv, KnownContexts, OneEvent, FreedUnused
  <1>9. KnownContexts'
    <2>1. \A f \in ToSet(events') : f \in ToSet(events)
      BY <1>2
    <2> QED BY <1>1, <1>3, <1>4, <1>7, <1>8, <2>1 DEF ContextInv, KnownContexts
  <1>10. LocksHeld'
    BY <1>1, <1>5, <1>6, <1>7 DEF ContextInv, LocksHeld
  <1>11. OneEvent'
    <2>1. \A f \in ToSet(events') : ctxs'[f.ctx].op = "none"
      BY <1>1, <1>2 DEF ContextInv, OneEvent
    <2>2. ASSUME NEW v \in Workers, NEW d \in Ctxs, HasEvent(v, d)'
          PROVE  /\ ctxs'[d].op = "none" /\ \A f \in ToSet(events') : f.ctx # d
                 /\ \A u \in Workers : HasEvent(u, d)' => u = v
      <3>1. CASE v = w
        BY <1>1, <1>2, <1>5, <1>6, <1>8, <2>2, <3>1
      <3>2. CASE v # w
        <4>1. HasEvent(v, d)
          BY <1>5, <2>2, <3>2
        <4>2. d # e.ctx
          BY <1>8, <4>1
        <4> QED BY <1>1, <1>2, <1>5, <1>6, <4>1, <4>2 DEF ContextInv, OneEvent
      <3> QED BY <3>1, <3>2
    <2> QED BY <1>2, <1>7, <2>1, <2>2 DEF OneEvent
  <1>12. FreedUnused'
    BY <1>1, <1>2, <1>5, <1>6, <1>7, <1>8 DEF ContextInv, FreedUnused
  <1>13. \A d \in Ctxs, x \in {"request", "finish"} : Waits(d, x)' => Waits(d, x)
    BY <1>1, <1>2, <1>3, <1>4, <1>5, <1>6 DEF Waits
  <1>14. StatusLags'
    BY <1>1, <1>4, <1>5, <1>6, <1>7, <1>13 DEF ContextInv, StatusLags
  <1>15. EventMeetsStatus'
    BY <1>3, <1>4 DEF ContextInv, EventMeetsStatus
  <1> QED BY <1>2, <1>4, <1>9, <1>10, <1>11, <1>12, <1>14, <1>15 DEF ContextInv

\* A context is created, by RegisterRpcMethods or to take another's place: nobody
\* knows it yet but the runtime and the thread that has locked it.
LEMMA NewContextInv ==
  ASSUME GrpcTypeOK, ContextInv, NEW w \in Workers, NEW m \in Methods, NEW r \in PollType,
         NewContext(w, m), polls' = [polls EXCEPT ![w] = r],
         \/ polls[w].pc = "register" /\ r.pc = "registered"
         \/ polls[w].pc = "PROCESS" /\ r.pc = "replaced",
         r.event = polls[w].event, r.new = Len(ctxs) + 1,
         events' = events, server_started' = server_started
  PROVE  ctxs' \in Seq(CtxType) /\ ContextInv'
  <1>0. PICK n : n = Len(ctxs) + 1
    OBVIOUS
  <1> DEFINE x == [status |-> "CREATE", method |-> m, lock |-> w, op |-> "request"]
  <1>1. /\ x \in CtxType /\ x.status = "CREATE" /\ x.lock = w /\ x.op = "request"
        /\ ctxs' = Append(ctxs, x)
    BY DEF CtxType, NewContext
  <1> HIDE DEF x
  <1>2. /\ ctxs' \in Seq(CtxType) /\ Ctxs' = Ctxs \cup {n} /\ ctxs'[n] = x /\ n \notin Ctxs
        /\ \A d \in Ctxs : ctxs'[d] = ctxs[d]
    BY <1>0, <1>1, CtxChanges
  <1>3. polls'[w] = r /\ r.new = n /\ \A v \in Workers : v # w => polls'[v] = polls[v]
    BY <1>0, PollChanges
  <1>4. \A v \in Workers : v # w =>
          \A d : /\ LocksNew(v, d)' <=> LocksNew(v, d)
                 /\ LocksOld(v, d)' <=> LocksOld(v, d)
                 /\ HasEvent(v, d)' <=> HasEvent(v, d)
                 /\ Answering(v, d)' <=> Answering(v, d)
    BY <1>3, OthersKeep
  <1>5. \A d : /\ LocksOld(w, d)' <=> LocksOld(w, d)
               /\ HasEvent(w, d)' <=> HasEvent(w, d)
               /\ ~Answering(w, d) /\ ~Answering(w, d)'
               /\ ~LocksNew(w, d) /\ (LocksNew(w, d)' <=> d = n)
    BY <1>3 DEF LocksNew, LocksOld, HasEvent, Answering
  <1>6. /\ \A e \in ToSet(events) : e.ctx # n
        /\ \A v \in Workers : /\ ~HasEvent(v, n) /\ ~LocksOld(v, n)
                              /\ ~Answering(v, n) /\ ~LocksNew(v, n)
    BY <1>2 DEF ContextInv, KnownContexts, HasEvent, LocksOld, Answering, LocksNew
  <1>7. KnownContexts'
    BY <1>2, <1>3 DEF ContextInv, KnownContexts
  <1>8. LocksHeld'
    <2>1. ASSUME NEW v \in Workers, NEW d \in Ctxs', LocksNew(v, d)' \/ LocksOld(v, d)'
          PROVE  ctxs'[d].lock = v
      <3>1. CASE d = n
        BY <1>1, <1>2, <1>4, <1>5, <1>6, <2>1, <3>1
      <3>2. CASE d # n
        <4>1. d \in Ctxs /\ (LocksNew(v, d) \/ LocksOld(v, d))
          BY <1>2, <1>4, <1>5, <2>1, <3>2
        <4> QED BY <1>2, <4>1 DEF ContextInv, LocksHeld
      <3> QED BY <3>1, <3>2
    <2> QED BY <2>1 DEF LocksHeld
  <1>9. OneEvent'
    <2>1. \A e \in ToSet(events) : e.ctx \in Ctxs
      BY DEF ContextInv, KnownContexts
    <2>2. \A v \in Workers : \A d : HasEvent(v, d)' <=> HasEvent(v, d)
      BY <1>4, <1>5
    <2> QED BY <1>2, <1>6, <2>1, <2>2 DEF ContextInv, OneEvent
  <1>10. FreedUnused'
    <2>1. ASSUME NEW d \in Ctxs', Freed(d)'
          PROVE  /\ ctxs'[d].op = "none" /\ \A e \in ToSet(events') : e.ctx # d
                 /\ \A v \in Workers : /\ ~HasEvent(v, d)'
                                       /\ ctxs'[d].status = "deleted" =>
                                            ~LocksNew(v, d)' /\ ~Answering(v, d)'
      <3>1. d # n
        BY <1>1, <1>2, <2>1 DEF Freed
      <3>2. d \in Ctxs /\ Freed(d) /\ ctxs'[d] = ctxs[d]
        BY <1>2, <2>1, <3>1 DEF Freed
      <3> QED BY <1>4, <1>5, <3>1, <3>2 DEF ContextInv, FreedUnused
    <2> QED BY <2>1 DEF FreedUnused
  <1>11. /\ \A d \in Ctxs, k \in {"request", "finish"} : Waits(d, k)' => Waits(d, k)
         /\ ~Waits(n, "finish")'
    <2>1. \A v \in Workers : \A d : HasEvent(v, d)' <=> HasEvent(v, d)
      BY <1>4, <1>5
    <2>2. \A v \in Workers : polls'[v].event = polls[v].event
      BY <1>3
    <2> QED BY <1>1, <1>2, <1>6, <2>1, <2>2 DEF Waits
  <1>12. StatusLags'
    <2>1. ASSUME NEW d \in Ctxs'
          PROVE  /\ ctxs'[d].status = "CREATE" => \E v \in Workers : LocksNew(v, d)'
                 /\ Waits(d, "request")' => ctxs'[d].status \in {"CREATE", "PROCESS"}
                 /\ Waits(d, "finish")' => \/ ctxs'[d].status = "FINISH"
                                           \/ \E v \in Workers : Answering(v, d)'
      <3>1. CASE d = n
        BY <1>1, <1>2, <1>5, <1>11, <3>1
      <3>2. CASE d # n
        <4>1. d \in Ctxs /\ ctxs'[d] = ctxs[d]
          BY <1>2, <3>2
        <4> QED BY <1>4, <1>5, <1>11, <4>1 DEF ContextInv, StatusLags
      <3> QED BY <3>1, <3>2
    <2>2. ASSUME NEW v \in Workers, NEW d \in Ctxs'
          PROVE  /\ LocksNew(v, d)' => ctxs'[d].status \in {"CREATE", "drained"}
                 /\ Answering(v, d)' => /\ ctxs'[d].status \in {"PROCESS", "drained"}
                                        /\ ~Waits(d, "request")'
                 /\ LocksOld(v, d)' /\ polls'[v].pc \notin {"answered", "FINISH"} =>
                      ctxs'[d].status = "PROCESS"
      <3>1. CASE d = n
        BY <1>1, <1>2, <1>4, <1>5, <1>6, <3>1
      <3>2. CASE d # n
        <4>1. d \in Ctxs /\ ctxs'[d] = ctxs[d]
          BY <1>2, <3>2
        <4>2. polls'[v].pc \notin {"answered", "FINISH"} =>
                polls[v].pc \notin {"answered", "FINISH"}
          BY <1>3
        <4> QED BY <1>4, <1>5, <1>11, <3>2, <4>1, <4>2 DEF ContextInv, StatusLags
      <3> QED BY <3>1, <3>2
    <2> QED BY <2>1, <2>2 DEF StatusLags
  <1>13. EventMeetsStatus'
    BY <1>3 DEF ContextInv, EventMeetsStatus
  <1> QED BY <1>2, <1>7, <1>8, <1>9, <1>10, <1>12, <1>13 DEF ContextInv

\* The context that the thread has created is left: its status is PROCESS from then
\* on, unless StopServer has drained it meanwhile.
LEMMA LeaveNewInv ==
  ASSUME GrpcTypeOK, ContextInv, NEW w \in Workers, NEW r \in PollType,
         LeaveContext(polls[w].new, "PROCESS"), polls' = [polls EXCEPT ![w] = r],
         \/ polls[w].pc = "registered" /\ r.pc \in {"register", "next"}
         \/ polls[w].pc = "replaced" /\ r.pc = "serve" /\ r.event = polls[w].event,
         events' = events, server_started' = server_started
  PROVE  ctxs' \in Seq(CtxType) /\ ContextInv'
  <1>0. PICK c : c = polls[w].new
    OBVIOUS
  <1> DEFINE x == [ctxs[c] EXCEPT !.status = "PROCESS", !.lock = Null]
  <1>1. /\ c \in Ctxs /\ LocksNew(w, c) /\ ctxs[c].lock = w
        /\ ctxs[c].status \in {"CREATE", "drained"} /\ w # Null
    BY <1>0, PoolOfThreads DEF ContextInv, KnownContexts, LocksNew, LocksHeld, StatusLags
  <1>2. /\ x \in CtxType /\ x.status = "PROCESS" /\ x.lock = Null /\ x.op = ctxs[c].op
    <2>1. ctxs[c] \in CtxType
      BY <1>1, CtxChanges
    <2> QED BY <2>1 DEF CtxType
  <1> HIDE DEF x
  <1>3. /\ ctxs[c].status = "drained" => ctxs' = ctxs
        /\ ctxs[c].status = "CREATE" => ctxs' = [ctxs EXCEPT ![c] = x]
    BY <1>0, <1>1, CtxChanges DEF LeaveContext, Freed, x
  <1>4. /\ ctxs' \in Seq(CtxType) /\ Ctxs' = Ctxs
        /\ \A d \in Ctxs : d # c => ctxs'[d] = ctxs[d]
        /\ ctxs[c].status = "drained" => ctxs'[c] = ctxs[c]
        /\ ctxs[c].status = "CREATE" => ctxs'[c] = x
    <2>1. CASE ctxs[c].status = "drained"
      BY <1>3, <2>1 DEF GrpcTypeOK, Ctxs
    <2>2. CASE ctxs[c].status = "CREATE"
      BY <1>1, <1>2, <1>3, <2>2, CtxChanges
    <2> QED BY <1>1, <2>1, <2>2
  <1>5. polls'[w] = r /\ \A v \in Workers : v # w => polls'[v] = polls[v]
    BY PollChanges
  <1>6. \A v \in Workers : v # w =>
          \A d : /\ LocksNew(v, d)' <=> LocksNew(v, d)
                 /\ LocksOld(v, d)' <=> LocksOld(v, d)
                 /\ HasEvent(v, d)' <=> HasEvent(v, d)
                 /\ Answering(v, d)' <=> Answering(v, d)
    BY <1>5, OthersKeep
  <1>7. \A d : /\ LocksOld(w, d)' <=> LocksOld(w, d)
               /\ HasEvent(w, d)' <=> HasEvent(w, d)
               /\ ~Answering(w, d) /\ ~Answering(w, d)'
               /\ ~LocksNew(w, d)' /\ (LocksNew(w, d) => d = c)
    BY <1>0, <1>5 DEF LocksNew, LocksOld, HasEvent, Answering
  <1>8. /\ \A v \in Workers : v # w => ~LocksNew(v, c) /\ ~LocksOld(v, c) /\ ~Answering(v, c)
        /\ ~LocksOld(w, c)
    <2>1. \A v \in Workers : v # w => ~LocksNew(v, c) /\ ~LocksOld(v, c)
      BY <1>1 DEF ContextInv, LocksHeld
    <2>2. ~LocksOld(w, c)
      <3>1. LocksOld(w, c) => polls[w].pc \notin {"answered", "FINISH"}
        BY DEF LocksOld
      <3> QED BY <1>1, <3>1 DEF ContextInv, StatusLags
    <2> QED BY <2>1, <2>2, HoldsFacts
  <1>9. /\ \A d \in Ctxs : ctxs'[d].op = ctxs[d].op
        /\ \A d \in Ctxs : Freed(d)' <=> Freed(d)
        /\ \A d \in Ctxs : ctxs'[d].status = "CREATE" => d # c
        /\ \A d \in Ctxs : ctxs'[d].status # ctxs[d].status =>
             d = c /\ ctxs[c].status = "CREATE" /\ ctxs'[c].status = "PROCESS"
    BY <1>1, <1>2, <1>4 DEF Freed
  <1>10. KnownContexts'
    BY <1>4, <1>5 DEF ContextInv, KnownContexts
  <1>11. LocksHeld'
    BY <1>4, <1>6, <1>7, <1>8 DEF ContextInv, LocksHeld
  <1>12. \A v \in Workers : \A d : /\ HasEvent(v, d)' <=> HasEvent(v, d)
                                   /\ Answering(v, d)' <=> Answering(v, d)
                                   /\ LocksOld(v, d)' <=> LocksOld(v, d)
                                   /\ LocksNew(v, d)' => LocksNew(v, d)
    BY <1>6, <1>7
  <1>13. OneEvent'
    <2>1. \A e \in ToSet(events) : e.ctx \in Ctxs
      BY DEF ContextInv, KnownContexts
    <2> QED BY <1>4, <1>9, <1>12, <2>1 DEF ContextInv, OneEvent
  <1>14. FreedUnused'
    BY <1>4, <1>9, <1>12 DEF ContextInv, FreedUnused
  <1>15. \A d \in Ctxs, k \in {"request", "finish"} : Waits(d, k)' => Waits(d, k)
    <2>1. \A v \in Workers : \A d : HasEvent(v, d)' => polls'[v].event = polls[v].event
      BY <1>5 DEF HasEvent
    <2> QED BY <1>9, <1>12, <2>1 DEF Waits
  <1>16. StatusLags'
    <2>1. ASSUME NEW d \in Ctxs
          PROVE  /\ ctxs'[d].status = "CREATE" => \E v \in Workers : LocksNew(v, d)'
                 /\ Waits(d, "request")' => ctxs'[d].status \in {"CREATE", "PROCESS"}
                 /\ Waits(d, "finish")' => \/ ctxs'[d].status = "FINISH"
                                           \/ \E v \in Workers : Answering(v, d)'
      <3>1. CASE d = c
        <4>1. ctxs[c].status = "CREATE" => ~Waits(c, "finish")
          BY <1>1, <1>7, <1>8 DEF ContextInv, StatusLags
        <4>2. ctxs[c].status = "drained" => ~Waits(c, "finish") /\ ~Waits(c, "request")
          BY <1>1 DEF ContextInv, FreedUnused, Waits, Freed
        <4> QED BY <1>1, <1>2, <1>4, <1>9, <1>15, <3>1, <4>1, <4>2
      <3>2. CASE d # c
        BY <1>4, <1>6, <1>7, <1>12, <1>15, <3>2 DEF ContextInv, StatusLags
      <3> QED BY <3>1, <3>2
    <2>2. ASSUME NEW v \in Workers, NEW d \in Ctxs
          PROVE  /\ LocksNew(v, d)' => ctxs'[d].status \in {"CREATE", "drained"}
                 /\ Answering(v, d)' => /\ ctxs'[d].status \in {"PROCESS", "drained"}
                                        /\ ~Waits(d, "request")'
                 /\ LocksOld(v, d)' /\ polls'[v].pc \notin {"answered", "FINISH"} =>
                      ctxs'[d].status = "PROCESS"
      <3>1. CASE d = c
        BY <1>6, <1>7, <1>8, <1>12, <3>1
      <3>2. CASE d # c
        <4>1. polls'[v].pc \notin {"answered", "FINISH"} =>
                polls[v].pc \notin {"answered", "FINISH"}
          BY <1>5
        <4> QED BY <1>4, <1>12, <1>15, <3>2, <4>1 DEF ContextInv, StatusLags
      <3> QED BY <3>1, <3>2
    <2> QED BY <1>4, <2>1, <2>2 DEF StatusLags
  <1>17. EventMeetsStatus'
    BY <1>5 DEF ContextInv, EventMeetsStatus
  <1> QED BY <1>4, <1>10, <1>11, <1>13, <1>14, <1>16, <1>17 DEF ContextInv

\* LockContext: the lock is free, so that the status is what the event's operation
\* left behind.
LEMMA LockContextInv ==
  ASSUME GrpcTypeOK, ContextInv, NEW w \in Workers, LockContext(w)
  PROVE  /\ ctxs' \in Seq(CtxType) /\ polls' \in [Workers -> PollType]
         /\ ContextInv'
  <1>0. PICK c : c = polls[w].event.ctx
    OBVIOUS
  <1>1. /\ polls[w].pc = "proceed" /\ ctxs[c].lock = Null
        /\ c \in Ctxs /\ HasEvent(w, c) /\ w # Null /\ ctxs[c] \in CtxType
        /\ polls[w].event.kind \in {"request", "finish"}
        /\ polls[w].event.kind = "request" => polls[w].event.ok
        /\ ctxs[c].op = "none"
    <2>1. polls[w].pc = "proceed" /\ ctxs[c].lock = Null
      BY <1>0 DEF LockContext
    <2>2. c \in Ctxs /\ polls[w].event.kind # "none" /\ HasEvent(w, c)
      BY <1>0, <2>1 DEF ContextInv, KnownContexts, HasEvent
    <2>3. polls[w].event.kind \in {"none", "request", "finish"}
      <3>1. polls[w] \in PollType
        BY DEF GrpcTypeOK
      <3>2. polls[w].event \in EventType
        BY <3>1, PollFields
      <3> QED BY <3>2 DEF EventType
    <2> QED BY <2>1, <2>2, <2>3, CtxChanges, PoolOfThreads
         DEF ContextInv, KnownContexts, OneEvent
  <1>2. \A v \in Workers : ~LocksNew(v, c) /\ ~LocksOld(v, c) /\ ~Answering(v, c)
    <2>1. \A v \in Workers : ~LocksNew(v, c) /\ ~LocksOld(v, c)
      BY <1>1, PoolOfThreads DEF ContextInv, LocksHeld
    <2> QED BY <2>1, HoldsFacts
  <1>3. /\ polls[w].event.kind = "request" => ctxs[c].status = "PROCESS"
        /\ polls[w].event.kind = "finish" => ctxs[c].status = "FINISH"
    <2>1. Waits(c, polls[w].event.kind)
      BY <1>1 DEF Waits
    <2> QED BY <1>1, <1>2, <2>1 DEF ContextInv, StatusLags
  <1> DEFINE s == ctxs[c].status
             r == [polls[w] EXCEPT !.pc = s]
             x == [ctxs[c] EXCEPT !.lock = w]
  <1>4. /\ polls' = [polls EXCEPT ![w] = r] /\ ctxs' = [ctxs EXCEPT ![c] = x]
        /\ events' = events /\ server_started' = server_started
    BY <1>0 DEF LockContext
  <1>5. r \in PollType /\ r.pc = s /\ r.event = polls[w].event /\ s \in {"PROCESS", "FINISH"}
    <2>1. s \in {"PROCESS", "FINISH"} /\ polls[w] \in PollType
      BY <1>1, <1>3 DEF GrpcTypeOK
    <2> HIDE DEF s
    <2> QED BY <2>1 DEF PollType
  <1>6. x \in CtxType /\ x.lock = w /\ x.op = "none" /\ x.status = s
    BY <1>1 DEF CtxType
  <1> HIDE DEF x, r
  <1>7. /\ ctxs' \in Seq(CtxType) /\ Ctxs' = Ctxs /\ ctxs'[c] = x
        /\ \A d \in Ctxs : d # c => ctxs'[d] = ctxs[d]
    BY <1>1, <1>4, <1>6, CtxChanges
  <1>8. /\ polls' \in [Workers -> PollType] /\ polls'[w] = r
        /\ \A v \in Workers : v # w => polls'[v] = polls[v]
    BY <1>4, <1>5, PollChanges
  <1>9. \A v \in Workers : v # w =>
          \A d : /\ LocksNew(v, d)' <=> LocksNew(v, d)
                 /\ LocksOld(v, d)' <=> LocksOld(v, d)
                 /\ HasEvent(v, d)' <=> HasEvent(v, d)
                 /\ Answering(v, d)' <=> Answering(v, d)
    BY <1>8, OthersKeep
  <1>10. \A d : /\ HasEvent(w, d)' <=> HasEvent(w, d)
                /\ ~Answering(w, d) /\ ~Answering(w, d)'
                /\ ~LocksNew(w, d) /\ ~LocksNew(w, d)'
                /\ LocksOld(w, d)' => d = c
    BY <1>0, <1>1, <1>5, <1>8 DEF LocksNew, LocksOld, HasEvent, Answering
  <1>11. /\ \A d \in Ctxs : ctxs'[d].op = ctxs[d].op /\ ctxs'[d].status = ctxs[d].status
         /\ \A d \in Ctxs : Freed(d)' <=> Freed(d)
         /\ ctxs'[c].lock = w
    BY <1>1, <1>6, <1>7 DEF Freed
  <1>12. \A v \in Workers : \A d : /\ HasEvent(v, d)' <=> HasEvent(v, d)
                                   /\ Answering(v, d)' <=> Answering(v, d)
                                   /\ LocksNew(v, d)' <=> LocksNew(v, d)
    BY <1>9, <1>10
  <1> HIDE DEF s
  <1>13. KnownContexts'
    BY <1>0, <1>1, <1>4, <1>5, <1>7, <1>8 DEF ContextInv, KnownContexts
  <1>14. LocksHeld'
    BY <1>2, <1>7, <1>9, <1>10, <1>11 DEF ContextInv, LocksHeld
  <1>15. OneEvent'
    <2>1. \A e \in ToSet(events) : e.ctx \in Ctxs
      BY DEF ContextInv, KnownContexts
    <2> QED BY <1>4, <1>7, <1>11, <1>12, <2>1 DEF ContextInv, OneEvent
  <1>16. FreedUnused'
    BY <1>4, <1>7, <1>11, <1>12 DEF ContextInv, FreedUnused
  <1>17. \A d \in Ctxs, k \in {"request", "finish"} : Waits(d, k)' => Waits(d, k)
    <2>1. \A v \in Workers : polls'[v].event = polls[v].event
      BY <1>5, <1>8
    <2> QED BY <1>4, <1>11, <1>12, <2>1 DEF Waits
  <1>18. StatusLags'
    <2>1. ASSUME NEW v \in Workers, NEW d \in Ctxs, LocksOld(v, d)',
                 polls'[v].pc \notin {"answered", "FINISH"}
          PROVE  ctxs[d].status = "PROCESS"
      <3>1. CASE v = w
        BY <1>5, <1>8, <1>10, <2>1, <3>1 DEF s
      <3>2. CASE v # w
        BY <1>8, <1>9, <2>1, <3>2 DEF ContextInv, StatusLags
      <3> QED BY <3>1, <3>2
    <2> QED BY <1>7, <1>11, <1>12, <1>17, <2>1 DEF ContextInv, StatusLags
  <1>19. EventMeetsStatus'
    BY <1>1, <1>3, <1>5, <1>8 DEF ContextInv, EventMeetsStatus, s
  <1> QED BY <1>7, <1>8, <1>13, <1>14, <1>15, <1>16, <1>18, <1>19 DEF ContextInv

\* Serve: the answer is with the runtime, while the thread still has the lock.
LEMMA ServeInv ==
  ASSUME GrpcTypeOK, ContextInv, NEW w \in Workers, Serve(w)
  PROVE  /\ ctxs' \in Seq(CtxType) /\ polls' \in [Workers -> PollType]
         /\ ContextInv'
  <1>0. PICK c : c = polls[w].event.ctx
    OBVIOUS
  <1>1. /\ polls[w].pc = "serve" /\ c \in Ctxs /\ HasEvent(w, c) /\ LocksOld(w, c)
        /\ ctxs[c] \in CtxType /\ polls[w] \in PollType /\ ctxs[c].status = "PROCESS"
        /\ ctxs[c].op = "none" /\ \A e \in ToSet(events) : e.ctx # c
        /\ \A v \in Workers : v # w => ~HasEvent(v, c)
    <2>1. polls[w].pc = "serve" /\ c \in Ctxs /\ HasEvent(w, c) /\ LocksOld(w, c)
      BY <1>0 DEF Serve, ContextInv, KnownContexts, HasEvent, LocksOld
    <2>2. ctxs[c].status = "PROCESS"
      BY <2>1 DEF ContextInv, StatusLags
    <2>3. ctxs[c] \in CtxType /\ polls[w] \in PollType
      BY <2>1, CtxChanges DEF GrpcTypeOK
    <2>4. /\ ctxs[c].op = "none" /\ \A e \in ToSet(events) : e.ctx # c
          /\ \A v \in Workers : v # w => ~HasEvent(v, c)
      BY <2>1 DEF ContextInv, OneEvent
    <2> QED BY <2>1, <2>2, <2>3, <2>4
  <1> DEFINE r == [polls[w] EXCEPT !.pc = "answered"]
             x == [ctxs[c] EXCEPT !.op = "finish"]
  <1>2. /\ polls' = [polls EXCEPT ![w] = r] /\ ctxs' = [ctxs EXCEPT ![c] = x]
        /\ events' = events /\ server_started' = server_started
    BY <1>0 DEF Serve
  <1>3. r \in PollType /\ r.pc = "answered" /\ r.event = polls[w].event
    BY <1>1 DEF PollType
  <1>4. /\ x \in CtxType /\ x.op = "finish" /\ x.status = "PROCESS" /\ x.lock = ctxs[c].lock
    BY <1>1 DEF CtxType
  <1> HIDE DEF x, r
  <1>5. /\ ctxs' \in Seq(CtxType) /\ Ctxs' = Ctxs /\ ctxs'[c] = x
        /\ \A d \in Ctxs : d # c => ctxs'[d] = ctxs[d]
    BY <1>1, <1>2, <1>4, CtxChanges
  <1>6. /\ polls' \in [Workers -> PollType] /\ polls'[w] = r
        /\ \A v \in Workers : v # w => polls'[v] = polls[v]
    BY <1>2, <1>3, PollChanges
  <1>7. \A v \in Workers : v # w =>
          \A d : /\ LocksNew(v, d)' <=> LocksNew(v, d)
                 /\ LocksOld(v, d)' <=> LocksOld(v, d)
                 /\ HasEvent(v, d)' <=> HasEvent(v, d)
                 /\ Answering(v, d)' <=> Answering(v, d)
    BY <1>6, OthersKeep
  <1>8. \A d : /\ LocksOld(w, d)' <=> LocksOld(w, d)
               /\ ~LocksNew(w, d) /\ ~LocksNew(w, d)'
               /\ ~HasEvent(w, d)' /\ ~Answering(w, d)
               /\ Answering(w, d)' <=> d = c
               /\ LocksOld(w, d) => d = c
    BY <1>0, <1>1, <1>3, <1>6 DEF LocksNew, LocksOld, HasEvent, Answering
  <1>9. /\ \A d \in Ctxs : ctxs'[d].status = ctxs[d].status /\ ctxs'[d].lock = ctxs[d].lock
        /\ \A d \in Ctxs : d # c => ctxs'[d].op = ctxs[d].op
        /\ \A d \in Ctxs : Freed(d)' <=> Freed(d)
        /\ ~Freed(c)
    BY <1>1, <1>4, <1>5 DEF Freed
  <1>10. KnownContexts'
    BY <1>1, <1>2, <1>3, <1>5, <1>6 DEF ContextInv, KnownContexts
  <1>11. LocksHeld'
    BY <1>5, <1>7, <1>8, <1>9 DEF ContextInv, LocksHeld
  <1>12. \A v \in Workers : \A d : HasEvent(v, d)' => HasEvent(v, d) /\ d # c
    BY <1>1, <1>7, <1>8
  <1>13. OneEvent'
    <2>1. \A e \in ToSet(events) : e.ctx \in Ctxs /\ e.ctx # c
      BY <1>1 DEF ContextInv, KnownContexts
    <2> QED BY <1>2, <1>5, <1>9, <1>12, <2>1 DEF ContextInv, OneEvent
  <1>14. FreedUnused'
    <2>1. \A d \in Ctxs : Freed(d) => d # c
      BY <1>9
    <2> QED BY <1>2, <1>5, <1>7, <1>8, <1>9, <1>12, <2>1 DEF ContextInv, FreedUnused
  <1>15. /\ \A d \in Ctxs, k \in {"request", "finish"} : d # c => (Waits(d, k)' => Waits(d, k))
         /\ ~Waits(c, "request")'
    <2>1. \A v \in Workers : polls'[v].event = polls[v].event
      BY <1>3, <1>6
    <2> QED BY <1>1, <1>2, <1>4, <1>5, <1>9, <1>12, <2>1 DEF Waits
  <1>16. StatusLags'
    <2>1. ASSUME NEW d \in Ctxs
          PROVE  /\ ctxs'[d].status = "CREATE" => \E v \in Workers : LocksNew(v, d)'
                 /\ Waits(d, "request")' => ctxs'[d].status \in {"CREATE", "PROCESS"}
                 /\ Waits(d, "finish")' => \/ ctxs'[d].status = "FINISH"
                                           \/ \E v \in Workers : Answering(v, d)'
      <3>1. CASE d = c
        BY <1>1, <1>8, <1>9, <1>15, <3>1
      <3>2. CASE d # c
        BY <1>7, <1>8, <1>9, <1>15, <3>2 DEF ContextInv, StatusLags
      <3> QED BY <3>1, <3>2
    <2>2. ASSUME NEW v \in Workers, NEW d \in Ctxs
          PROVE  /\ LocksNew(v, d)' => ctxs'[d].status \in {"CREATE", "drained"}
                 /\ Answering(v, d)' => /\ ctxs'[d].status \in {"PROCESS", "drained"}
                                        /\ ~Waits(d, "request")'
                 /\ LocksOld(v, d)' /\ polls'[v].pc \notin {"answered", "FINISH"} =>
                      ctxs'[d].status = "PROCESS"
      <3>1. CASE v = w
        BY <1>1, <1>8, <1>9, <1>15, <3>1
      <3>2. CASE v # w
        <4>1. Answering(v, d)' => d # c
          BY <1>1, <1>7, <3>2, HoldsFacts DEF ContextInv, LocksHeld
        <4> QED BY <1>6, <1>7, <1>9, <1>15, <3>2, <4>1 DEF ContextInv, StatusLags
      <3> QED BY <3>1, <3>2
    <2> QED BY <1>5, <2>1, <2>2 DEF StatusLags
  <1>17. EventMeetsStatus'
    BY <1>3, <1>6 DEF ContextInv, EventMeetsStatus
  <1> QED BY <1>5, <1>6, <1>10, <1>11, <1>13, <1>14, <1>16, <1>17 DEF ContextInv

\* Answered: the context is left, with the status for the event of its answer.
LEMMA AnsweredInv ==
  ASSUME GrpcTypeOK, ContextInv, NEW w \in Workers, Answered(w)
  PROVE  /\ ctxs' \in Seq(CtxType) /\ polls' \in [Workers -> PollType]
         /\ ContextInv'
  <1>0. PICK c : c = polls[w].event.ctx
    OBVIOUS
  <1> DEFINE x == [ctxs[c] EXCEPT !.status = "FINISH", !.lock = Null]
  <1>1. /\ polls[w].pc = "answered" /\ c \in Ctxs /\ Answering(w, c) /\ LocksOld(w, c)
        /\ ctxs[c] \in CtxType /\ ctxs[c].status \in {"PROCESS", "drained"}
        /\ ctxs[c].lock = w /\ ~Waits(c, "request")
        /\ \A v \in Workers : v # w => ~LocksNew(v, c) /\ ~LocksOld(v, c)
    <2>1. polls[w].pc = "answered" /\ c \in Ctxs /\ Answering(w, c) /\ LocksOld(w, c)
      BY <1>0 DEF Answered, ContextInv, KnownContexts, Answering, LocksOld
    <2>2. ctxs[c].status \in {"PROCESS", "drained"} /\ ~Waits(c, "request")
      BY <2>1 DEF ContextInv, StatusLags
    <2>3. ctxs[c].lock = w /\ \A v \in Workers : v # w => ~LocksNew(v, c) /\ ~LocksOld(v, c)
      BY <2>1 DEF ContextInv, LocksHeld
    <2> QED BY <2>1, <2>2, <2>3, CtxChanges
  <1>2. x \in CtxType /\ x.status = "FINISH" /\ x.op = ctxs[c].op
    BY <1>1 DEF CtxType
  <1> HIDE DEF x
  <1>3. /\ polls' = [polls EXCEPT ![w] = AtNext]
        /\ ctxs[c].status = "drained" => ctxs' = ctxs
        /\ ctxs[c].status = "PROCESS" => ctxs' = [ctxs EXCEPT ![c] = x]
        /\ events' = events /\ server_started' = server_started
    BY <1>0, <1>1, CtxChanges DEF Answered, LeaveContext, Freed, x
  <1>4. /\ ctxs' \in Seq(CtxType) /\ Ctxs' = Ctxs
        /\ \A d \in Ctxs : d # c => ctxs'[d] = ctxs[d]
        /\ ctxs[c].status = "drained" => ctxs'[c] = ctxs[c]
        /\ ctxs[c].status = "PROCESS" => ctxs'[c] = x
    <2>1. CASE ctxs[c].status = "drained"
      BY <1>3, <2>1 DEF GrpcTypeOK, Ctxs
    <2>2. CASE ctxs[c].status = "PROCESS"
      BY <1>1, <1>2, <1>3, <2>2, CtxChanges
    <2> QED BY <1>1, <2>1, <2>2
  <1>5. /\ polls' \in [Workers -> PollType] /\ polls'[w] = AtNext /\ AtNext.pc = "next"
        /\ \A v \in Workers : v # w => polls'[v] = polls[v]
    BY <1>3, PollChanges, NewPolls
  <1>6. \A v \in Workers : v # w =>
          \A d : /\ LocksNew(v, d)' <=> LocksNew(v, d)
                 /\ LocksOld(v, d)' <=> LocksOld(v, d)
                 /\ HasEvent(v, d)' <=> HasEvent(v, d)
                 /\ Answering(v, d)' <=> Answering(v, d)
    BY <1>5, OthersKeep
  <1>7. \A d : /\ ~LocksOld(w, d)' /\ ~LocksNew(w, d)' /\ ~HasEvent(w, d)' /\ ~Answering(w, d)'
               /\ ~LocksNew(w, d) /\ ~HasEvent(w, d)
    BY <1>1, <1>5 DEF LocksNew, LocksOld, HasEvent, Answering
  <1>8. /\ \A d \in Ctxs : ctxs'[d].op = ctxs[d].op
        /\ \A d \in Ctxs : Freed(d)' <=> Freed(d)
    BY <1>1, <1>2, <1>4 DEF Freed
  <1>9. \A v \in Workers : \A d : /\ HasEvent(v, d)' <=> HasEvent(v, d)
                                  /\ LocksNew(v, d)' <=> LocksNew(v, d)
                                  /\ Answering(v, d)' => Answering(v, d) /\ v # w
                                  /\ LocksOld(v, d)' => LocksOld(v, d) /\ v # w
    BY <1>6, <1>7
  <1>10. KnownContexts'
    BY <1>3, <1>4, <1>5 DEF ContextInv, KnownContexts
  <1>11. LocksHeld'
    BY <1>1, <1>4, <1>7, <1>9 DEF ContextInv, LocksHeld
  <1>12. OneEvent'
    <2>1. \A e \in ToSet(events) : e.ctx \in Ctxs
      BY DEF ContextInv, KnownContexts
    <2> QED BY <1>3, <1>4, <1>8, <1>9, <2>1 DEF ContextInv, OneEvent
  <1>13. FreedUnused'
    <2>1. \A d \in Ctxs : Freed(d) => ctxs'[d].status = ctxs[d].status
      BY <1>1, <1>4 DEF Freed
    <2> QED BY <1>3, <1>4, <1>8, <1>9, <2>1 DEF ContextInv, FreedUnused
  <1>14. \A d \in Ctxs, k \in {"request", "finish"} : Waits(d, k)' => Waits(d, k)
    <2>1. \A v \in Workers : \A d : HasEvent(v, d)' => polls'[v].event = polls[v].event
      BY <1>5, <1>7
    <2> QED BY <1>3, <1>8, <1>9, <2>1 DEF Waits
  <1>15. StatusLags'
    <2>1. ASSUME NEW d \in Ctxs
          PROVE  /\ ctxs'[d].status = "CREATE" => \E v \in Workers : LocksNew(v, d)'
                 /\ Waits(d, "request")' => ctxs'[d].status \in {"CREATE", "PROCESS"}
                 /\ Waits(d, "finish")' => \/ ctxs'[d].status = "FINISH"
                                           \/ \E v \in Workers : Answering(v, d)'
      <3>1. CASE d = c
        <4>1. ctxs[c].status = "drained" => ~Waits(c, "finish")
          BY <1>1 DEF ContextInv, FreedUnused, Waits, Freed
        <4> QED BY <1>1, <1>2, <1>4, <1>14, <3>1, <4>1
      <3>2. CASE d # c
        <4>1. \A v \in Workers : Answering(v, d) => v # w
          BY <1>0, <3>2 DEF Answering
        <4> QED BY <1>4, <1>6, <1>9, <1>14, <3>2, <4>1 DEF ContextInv, StatusLags
      <3> QED BY <3>1, <3>2
    <2>2. ASSUME NEW v \in Workers, NEW d \in Ctxs
          PROVE  /\ LocksNew(v, d)' => ctxs'[d].status \in {"CREATE", "drained"}
                 /\ Answering(v, d)' => /\ ctxs'[d].status \in {"PROCESS", "drained"}
                                        /\ ~Waits(d, "request")'
                 /\ LocksOld(v, d)' /\ polls'[v].pc \notin {"answered", "FINISH"} =>
                      ctxs'[d].status = "PROCESS"
      <3>1. CASE d = c
        <4>1. Answering(v, c) => LocksOld(v, c)
          BY HoldsFacts
        <4> QED BY <1>1, <1>7, <1>9, <3>1, <4>1
      <3>2. CASE d # c
        BY <1>4, <1>5, <1>9, <1>14, <3>2 DEF ContextInv, StatusLags
      <3> QED BY <3>1, <3>2
    <2> QED BY <1>4, <2>1, <2>2 DEF StatusLags
  <1>16. EventMeetsStatus'
    BY <1>5 DEF ContextInv, EventMeetsStatus
  <1> QED BY <1>4, <1>5, <1>10, <1>11, <1>12, <1>13, <1>15, <1>16 DEF ContextInv

\* DeleteContext: the thread has the only event and the lock.
LEMMA DeleteContextInv ==
  ASSUME GrpcTypeOK, ContextInv, NEW w \in Workers, DeleteContext(w)
  PROVE  /\ ctxs' \in Seq(CtxType) /\ polls' \in [Workers -> PollType]
         /\ ContextInv'
  <1>0. PICK c : c = polls[w].event.ctx
    OBVIOUS
  <1> DEFINE x == [ctxs[c] EXCEPT !.status = "deleted", !.lock = Null]
  <1>1. /\ polls[w].pc = "FINISH" /\ c \in Ctxs /\ HasEvent(w, c) /\ LocksOld(w, c)
        /\ ctxs[c] \in CtxType /\ ctxs[c].op = "none" /\ \A e \in ToSet(events) : e.ctx # c
        /\ \A v \in Workers : v # w => /\ ~LocksNew(v, c) /\ ~LocksOld(v, c)
                                       /\ ~HasEvent(v, c) /\ ~Answering(v, c)
    <2>1. polls[w].pc = "FINISH" /\ c \in Ctxs /\ HasEvent(w, c) /\ LocksOld(w, c)
      BY <1>0 DEF DeleteContext, ContextInv, KnownContexts, HasEvent, LocksOld
    <2>2. \A v \in Workers : v # w => ~LocksNew(v, c) /\ ~LocksOld(v, c)
      BY <2>1 DEF ContextInv, LocksHeld
    <2>3. /\ ctxs[c].op = "none" /\ \A e \in ToSet(events) : e.ctx # c
          /\ \A v \in Workers : v # w => ~HasEvent(v, c)
      BY <2>1 DEF ContextInv, OneEvent
    <2> QED BY <2>1, <2>2, <2>3, CtxChanges, HoldsFacts
  <1>2. x \in CtxType /\ x.status = "deleted" /\ x.op = "none"
    BY <1>1 DEF CtxType
  <1>3. /\ polls' = [polls EXCEPT ![w] = AtNext] /\ ctxs' = [ctxs EXCEPT ![c] = x]
        /\ events' = events /\ server_started' = server_started
    BY <1>0, <1>1, CtxChanges DEF DeleteContext
  <1> HIDE DEF x
  <1>4. /\ ctxs' \in Seq(CtxType) /\ Ctxs' = Ctxs /\ ctxs'[c] = x
        /\ \A d \in Ctxs : d # c => ctxs'[d] = ctxs[d]
    BY <1>1, <1>2, <1>3, CtxChanges
  <1>5. /\ polls' \in [Workers -> PollType] /\ polls'[w] = AtNext /\ AtNext.pc = "next"
        /\ \A v \in Workers : v # w => polls'[v] = polls[v]
    BY <1>3, PollChanges, NewPolls
  <1>6. \A v \in Workers : v # w =>
          \A d : /\ LocksNew(v, d)' <=> LocksNew(v, d)
                 /\ LocksOld(v, d)' <=> LocksOld(v, d)
                 /\ HasEvent(v, d)' <=> HasEvent(v, d)
                 /\ Answering(v, d)' <=> Answering(v, d)
    BY <1>5, OthersKeep
  <1>7. \A d : /\ ~LocksOld(w, d)' /\ ~LocksNew(w, d)' /\ ~HasEvent(w, d)' /\ ~Answering(w, d)'
               /\ ~LocksNew(w, d) /\ ~Answering(w, d)
    BY <1>1, <1>5 DEF LocksNew, LocksOld, HasEvent, Answering
  <1>8. \A v \in Workers : \A d : /\ HasEvent(v, d)' => HasEvent(v, d) /\ v # w /\ d # c
                                  /\ LocksOld(v, d)' => LocksOld(v, d) /\ v # w /\ d # c
                                  /\ Answering(v, d)' => Answering(v, d) /\ d # c
                                  /\ LocksNew(v, d)' => LocksNew(v, d) /\ d # c
                                  /\ LocksNew(v, d) => LocksNew(v, d)'
                                  /\ Answering(v, d) => Answering(v, d)'
    BY <1>1, <1>6, <1>7
  <1>9. \A d \in Ctxs : ctxs'[d].op = ctxs[d].op
    BY <1>1, <1>2, <1>4
  <1>10. KnownContexts'
    BY <1>3, <1>4, <1>5 DEF ContextInv, KnownContexts
  <1>11. LocksHeld'
    BY <1>4, <1>8 DEF ContextInv, LocksHeld
  <1>12. OneEvent'
    <2>1. \A e \in ToSet(events) : e.ctx \in Ctxs
      BY DEF ContextInv, KnownContexts
    <2> QED BY <1>3, <1>4, <1>8, <1>9, <2>1 DEF ContextInv, OneEvent
  <1>13. FreedUnused'
    <2>1. \A d \in Ctxs : d # c => (Freed(d)' <=> Freed(d)) /\ ctxs'[d].status = ctxs[d].status
      BY <1>4 DEF Freed
    <2> QED BY <1>1, <1>3, <1>4, <1>8, <1>9, <2>1 DEF ContextInv, FreedUnused
  <1>14. \A d \in Ctxs, k \in {"request", "finish"} : Waits(d, k)' => Waits(d, k) /\ d # c
    <2>1. \A v \in Workers : \A d : HasEvent(v, d)' => polls'[v].event = polls[v].event
      BY <1>5, <1>7
    <2> QED BY <1>1, <1>3, <1>8, <1>9, <2>1 DEF Waits
  <1>15. StatusLags'
    <2>1. ASSUME NEW d \in Ctxs
          PROVE  /\ ctxs'[d].status = "CREATE" => \E v \in Workers : LocksNew(v, d)'
                 /\ Waits(d, "request")' => ctxs'[d].status \in {"CREATE", "PROCESS"}
                 /\ Waits(d, "finish")' => \/ ctxs'[d].status = "FINISH"
                                           \/ \E v \in Workers : Answering(v, d)'
      <3>1. CASE d = c
        BY <1>2, <1>4, <1>14, <3>1
      <3>2. CASE d # c
        BY <1>4, <1>8, <1>14, <3>2 DEF ContextInv, StatusLags
      <3> QED BY <3>1, <3>2
    <2>2. ASSUME NEW v \in Workers, NEW d \in Ctxs
          PROVE  /\ LocksNew(v, d)' => ctxs'[d].status \in {"CREATE", "drained"}
                 /\ Answering(v, d)' => /\ ctxs'[d].status \in {"PROCESS", "drained"}
                                        /\ ~Waits(d, "request")'
                 /\ LocksOld(v, d)' /\ polls'[v].pc \notin {"answered", "FINISH"} =>
                      ctxs'[d].status = "PROCESS"
      BY <1>4, <1>5, <1>8, <1>14 DEF ContextInv, StatusLags
    <2> QED BY <1>4, <2>1, <2>2 DEF StatusLags
  <1>16. EventMeetsStatus'
    BY <1>5 DEF ContextInv, EventMeetsStatus
  <1> QED BY <1>4, <1>5, <1>10, <1>11, <1>12, <1>13, <1>15, <1>16 DEF ContextInv

\* Drain: the event is taken out of the queue, so that nobody else has it; a thread may
\* still be about to leave the context.
LEMMA DrainInv ==
  ASSUME GrpcTypeOK, ContextInv, Drain
  PROVE  /\ ctxs' \in Seq(CtxType) /\ events' \in Seq(EventType)
         /\ ContextInv'
  <1> DEFINE e == Head(events)
  <1>0. PICK c : c = e.ctx
    OBVIOUS
  <1> DEFINE x == [ctxs[c] EXCEPT !.status = "drained"]
  <1>1. /\ events # <<>> /\ events' = Tail(events) /\ ctxs' = [ctxs EXCEPT ![c] = x]
        /\ polls' = polls /\ server_started' = server_started
    BY <1>0 DEF Drain
  <1>2. /\ e \in ToSet(events) /\ events' \in Seq(EventType)
        /\ ToSet(events') = ToSet(events) \ {e}
        /\ \A f \in ToSet(events') : f.ctx # c
        /\ \A m, n \in DOMAIN events' : events'[m].ctx = events'[n].ctx => m = n
    BY <1>0, <1>1, EventChanges DEF ContextInv
  <1> HIDE DEF e
  <1>3. /\ c \in Ctxs /\ ctxs[c] \in CtxType /\ ctxs[c].op = "none" /\ ~Freed(c)
        /\ \A v \in Workers : ~HasEvent(v, c)
    <2>1. c \in Ctxs /\ ctxs[c].op = "none"
      BY <1>0, <1>2 DEF ContextInv, KnownContexts, OneEvent
    <2> QED BY <1>0, <1>2, <2>1, CtxChanges DEF ContextInv, OneEvent, FreedUnused
  <1>4. x \in CtxType /\ x.status = "drained" /\ x.op = "none" /\ x.lock = ctxs[c].lock
    BY <1>3 DEF CtxType
  <1> HIDE DEF x
  <1>5. /\ ctxs' \in Seq(CtxType) /\ Ctxs' = Ctxs /\ ctxs'[c] = x
        /\ \A d \in Ctxs : d # c => ctxs'[d] = ctxs[d]
    BY <1>1, <1>3, <1>4, CtxChanges
  <1>6. \A v \in Workers : \A d : /\ LocksNew(v, d)' <=> LocksNew(v, d)
                                  /\ LocksOld(v, d)' <=> LocksOld(v, d)
                                  /\ HasEvent(v, d)' <=> HasEvent(v, d)
                                  /\ Answering(v, d)' <=> Answering(v, d)
    BY <1>1, AllKeep
  <1>7. \A d \in Ctxs : ctxs'[d].op = ctxs[d].op /\ ctxs'[d].lock = ctxs[d].lock
    BY <1>3, <1>4, <1>5
  <1>8. \A f \in ToSet(events') : f \in ToSet(events) /\ f.ctx \in Ctxs /\ f.ctx # c
    BY <1>2 DEF ContextInv, KnownContexts
  <1>9. KnownContexts'
    BY <1>1, <1>5, <1>8 DEF ContextInv, KnownContexts
  <1>10. LocksHeld'
    BY <1>5, <1>6, <1>7 DEF ContextInv, LocksHeld
  <1>11. OneEvent'
    BY <1>2, <1>5, <1>6, <1>7, <1>8 DEF ContextInv, OneEvent
  <1>12. FreedUnused'
    <2>1. \A d \in Ctxs : d # c => (Freed(d)' <=> Freed(d)) /\ ctxs'[d].status = ctxs[d].status
      BY <1>5 DEF Freed
    <2>2. ctxs'[c].status = "drained" /\ ctxs'[c].op = "none"
      BY <1>4, <1>5
    <2> QED BY <1>3, <1>5, <1>6, <1>7, <1>8, <2>1, <2>2 DEF ContextInv, FreedUnused
  <1>13. \A d \in Ctxs, k \in {"request", "finish"} : Waits(d, k)' => Waits(d, k) /\ d # c
    BY <1>1, <1>3, <1>6, <1>7, <1>8 DEF Waits
  <1>14. \A v \in Workers : LocksOld(v, c) => polls[v].pc = "answered"
    BY <1>3 DEF LocksOld, HasEvent
  <1>15. StatusLags'
    <2>1. ASSUME NEW d \in Ctxs
          PROVE  /\ ctxs'[d].status = "CREATE" => \E v \in Workers : LocksNew(v, d)'
                 /\ Waits(d, "request")' => ctxs'[d].status \in {"CREATE", "PROCESS"}
                 /\ Waits(d, "finish")' => \/ ctxs'[d].status = "FINISH"
                                           \/ \E v \in Workers : Answering(v, d)'
      <3>1. CASE d = c
        BY <1>4, <1>5, <1>13, <3>1
      <3>2. CASE d # c
        BY <1>5, <1>6, <1>13, <3>2 DEF ContextInv, StatusLags
      <3> QED BY <3>1, <3>2
    <2>2. ASSUME NEW v \in Workers, NEW d \in Ctxs
          PROVE  /\ LocksNew(v, d)' => ctxs'[d].status \in {"CREATE", "drained"}
                 /\ Answering(v, d)' => /\ ctxs'[d].status \in {"PROCESS", "drained"}
                                        /\ ~Waits(d, "request")'
                 /\ LocksOld(v, d)' /\ polls'[v].pc \notin {"answered", "FINISH"} =>
                      ctxs'[d].status = "PROCESS"
      <3>1. CASE d = c
        BY <1>1, <1>4, <1>5, <1>6, <1>13, <1>14, <3>1
      <3>2. CASE d # c
        BY <1>1, <1>5, <1>6, <1>13, <3>2 DEF ContextInv, StatusLags
      <3> QED BY <3>1, <3>2
    <2> QED BY <1>5, <2>1, <2>2 DEF StatusLags
  <1>16. EventMeetsStatus'
    BY <1>1 DEF ContextInv, EventMeetsStatus
  <1> QED BY <1>2, <1>5, <1>9, <1>10, <1>11, <1>12, <1>15, <1>16 DEF ContextInv

\* The main thread's steps that leave contexts, events and pollers alone.
LEMMA MainMovesInv ==
  ASSUME ContextInv, ctxs' = ctxs, events' = events, polls' = polls,
         server_started' => server_started \/ events = <<>>
  PROVE  ContextInv'
  <1>1. Ctxs' = Ctxs /\ \A c : Freed(c)' <=> Freed(c)
    BY DEF Ctxs, Freed
  <1>2. \A w \in Workers : \A c : /\ LocksNew(w, c)' <=> LocksNew(w, c)
                                  /\ LocksOld(w, c)' <=> LocksOld(w, c)
                                  /\ HasEvent(w, c)' <=> HasEvent(w, c)
                                  /\ Answering(w, c)' <=> Answering(w, c)
    BY AllKeep
  <1>3. \A c, k : Waits(c, k)' <=> Waits(c, k)
    BY <1>2 DEF Waits
  <1>4. KnownContexts'
    <2>1. ~server_started' \/ server_started \/ ToSet(events) = {}
      <3>1. ToSet(<<>>) = {}
        BY DEF ToSet
      <3> QED BY <3>1
    <2> QED BY <1>1, <2>1 DEF ContextInv, KnownContexts
  <1>5. LocksHeld'
    BY <1>1, <1>2 DEF ContextInv, LocksHeld
  <1>6. OneEvent'
    BY <1>1, <1>2 DEF ContextInv, OneEvent
  <1>7. FreedUnused'
    BY <1>1, <1>2 DEF ContextInv, FreedUnused
  <1>8. StatusLags'
    BY <1>1, <1>2, <1>3 DEF ContextInv, StatusLags
  <1>9. EventMeetsStatus'
    BY DEF ContextInv, EventMeetsStatus
  <1> QED BY <1>4, <1>5, <1>6, <1>7, <1>8, <1>9 DEF ContextInv

\* Every step of a polling thread keeps the types and the invariant of the contexts.
LEMMA PollStepInv ==
  ASSUME GrpcTypeOK, ContextInv, NEW w \in Workers, PollStep(w)
  PROVE  GrpcTypeOK' /\ ContextInv'
  <1> DEFINE p == polls[w]
  <1>0. p \in PollType /\ p.method \in Methods
    BY DEF GrpcTypeOK, PollType
  <1>1. CASE StartPolling(w)
    <2> DEFINE r == [p EXCEPT !.pc = "register"]
    <2>1. r \in PollType /\ r.pc = "register" /\ polls' = [polls EXCEPT ![w] = r]
      BY <1>0, <1>1 DEF PollType, StartPolling
    <2> HIDE DEF r
    <2>2. p.pc = "idle" /\ ctxs' = ctxs /\ events' = events /\ server_started' = server_started
      BY <1>1 DEF StartPolling
    <2>3. ContextInv' /\ polls' \in [Workers -> PollType]
      BY <2>1, <2>2, IdleMovesInv, PollChanges
    <2> QED BY <1>1, <2>2, <2>3 DEF GrpcTypeOK, StartPolling
  <1>2. CASE RegisterRpcMethod(w)
    <2> DEFINE r == [p EXCEPT !.pc = "registered", !.new = Len(ctxs) + 1]
    <2>1. Len(ctxs) + 1 \in Nat
      BY CtxChanges
    <2>2. /\ r \in PollType /\ r.pc = "registered" /\ r.new = Len(ctxs) + 1
          /\ r.event = polls[w].event /\ polls' = [polls EXCEPT ![w] = r]
      BY <1>0, <1>2, <2>1 DEF PollType, RegisterRpcMethod
    <2> HIDE DEF r
    <2>3. /\ p.pc = "register" /\ NewContext(w, p.method) /\ events' = events
          /\ server_started' = server_started
      BY <1>2 DEF RegisterRpcMethod
    <2>4. ContextInv' /\ ctxs' \in Seq(CtxType) /\ polls' \in [Workers -> PollType]
      BY <1>0, <2>2, <2>3, NewContextInv, PollChanges
    <2> QED BY <1>2, <2>4 DEF GrpcTypeOK, RegisterRpcMethod
  <1>3. CASE MethodRegistered(w)
    <2> DEFINE r == IF p.method < NumMethods
                      THEN [NotPolling EXCEPT !.pc = "register", !.method = p.method + 1]
                      ELSE AtNext
    <2>1. r \in PollType /\ r.pc \in {"register", "next"}
      <3>1. CASE p.method < NumMethods
        <4>1. p.method + 1 \in Methods
          BY <1>0, <3>1, ServiceAssumption DEF Methods
        <4> QED BY <3>1, <4>1, NewPolls
      <3>2. CASE ~(p.method < NumMethods)
        BY <3>2, NewPolls
      <3> QED BY <3>1, <3>2
    <2>2. polls' = [polls EXCEPT ![w] = r]
      BY <1>3 DEF MethodRegistered, GrpcTypeOK
    <2> HIDE DEF r
    <2>3. /\ p.pc = "registered" /\ LeaveContext(p.new, "PROCESS") /\ events' = events
          /\ server_started' = server_started
      BY <1>3 DEF MethodRegistered
    <2>4. ContextInv' /\ ctxs' \in Seq(CtxType) /\ polls' \in [Workers -> PollType]
      BY <2>1, <2>2, <2>3, LeaveNewInv, PollChanges
    <2> QED BY <1>3, <2>4 DEF GrpcTypeOK, MethodRegistered
  <1>4. CASE NextEvent(w)
    BY <1>4, NextEventInv DEF GrpcTypeOK, NextEvent
  <1>5. CASE NextReturnsFalse(w)
    <2> DEFINE r == [p EXCEPT !.pc = "ended"]
    <2>1. r \in PollType /\ r.pc = "ended" /\ polls' = [polls EXCEPT ![w] = r]
      BY <1>0, <1>5 DEF PollType, NextReturnsFalse
    <2> HIDE DEF r
    <2>2. p.pc = "next" /\ ctxs' = ctxs /\ events' = events /\ server_started' = server_started
      BY <1>5 DEF NextReturnsFalse
    <2>3. ContextInv' /\ polls' \in [Workers -> PollType]
      BY <2>1, <2>2, IdleMovesInv, PollChanges
    <2> QED BY <1>5, <2>2, <2>3 DEF GrpcTypeOK, NextReturnsFalse
  <1>6. CASE LockContext(w)
    BY <1>6, LockContextInv DEF GrpcTypeOK, LockContext
  <1>7. CASE ReplaceContext(w)
    <2> DEFINE r == [p EXCEPT !.pc = "replaced", !.new = Len(ctxs) + 1]
    <2>1. Len(ctxs) + 1 \in Nat
      BY CtxChanges
    <2>2. /\ r \in PollType /\ r.pc = "replaced" /\ r.new = Len(ctxs) + 1
          /\ r.event = polls[w].event /\ polls' = [polls EXCEPT ![w] = r]
      BY <1>0, <1>7, <2>1 DEF PollType, ReplaceContext
    <2> HIDE DEF r
    <2>3. PICK m : m = ctxs[p.event.ctx].method
      OBVIOUS
    <2>4. /\ p.pc = "PROCESS" /\ NewContext(w, m) /\ events' = events
          /\ server_started' = server_started
      BY <1>7, <2>3 DEF ReplaceContext
    <2>5. m \in Methods
      <3>1. p.event.ctx \in Ctxs
        BY <2>4 DEF ContextInv, KnownContexts
      <3> QED BY <2>3, <3>1, CtxChanges, CtxFields
    <2>6. ContextInv' /\ ctxs' \in Seq(CtxType) /\ polls' \in [Workers -> PollType]
      BY <2>2, <2>4, <2>5, NewContextInv, PollChanges
    <2> QED BY <1>7, <2>6 DEF GrpcTypeOK, ReplaceContext
  <1>8. CASE ContextReplaced(w)
    <2>1. p.pc = "replaced" /\ p.event.kind = "request" /\ p.event.ok
      BY <1>8 DEF ContextReplaced, ContextInv, KnownContexts, EventMeetsStatus
    <2> DEFINE r == [p EXCEPT !.pc = "serve"]
    <2>2. r \in PollType /\ r.pc = "serve" /\ r.event = polls[w].event
      BY <1>0 DEF PollType
    <2>3. polls' = [polls EXCEPT ![w] = r]
      BY <1>8, <2>1 DEF ContextReplaced, GrpcTypeOK
    <2> HIDE DEF r
    <2>4. /\ LeaveContext(p.new, "PROCESS") /\ events' = events
          /\ server_started' = server_started
      BY <1>8 DEF ContextReplaced
    <2>5. ContextInv' /\ ctxs' \in Seq(CtxType) /\ polls' \in [Workers -> PollType]
      BY <2>1, <2>2, <2>3, <2>4, LeaveNewInv, PollChanges
    <2> QED BY <1>8, <2>5 DEF GrpcTypeOK, ContextReplaced
  <1>9. CASE Serve(w)
    BY <1>9, ServeInv DEF GrpcTypeOK, Serve
  <1>10. CASE Answered(w)
    BY <1>10, AnsweredInv DEF GrpcTypeOK, Answered
  <1>11. CASE DeleteContext(w)
    BY <1>11, DeleteContextInv DEF GrpcTypeOK, DeleteContext
  <1>12. CASE EndPolling(w)
    <2>1. /\ p.pc = "ended" /\ polls' = [polls EXCEPT ![w] = NotPolling] /\ ctxs' = ctxs
          /\ events' = events /\ server_started' = server_started
      BY <1>12 DEF EndPolling
    <2>2. ContextInv' /\ polls' \in [Workers -> PollType]
      BY <2>1, NewPolls, IdleMovesInv, PollChanges
    <2> QED BY <1>12, <2>1, <2>2 DEF GrpcTypeOK, EndPolling
  <1>13. CASE UNCHANGED grpcVars
    <2>1. /\ ctxs' = ctxs /\ events' = events /\ polls' = polls /\ server' = server
          /\ cq' = cq /\ server_started' = server_started /\ main' = main /\ rpcs' = rpcs
      BY <1>13 DEF grpcVars
    <2>2. ContextInv'
      BY <2>1, MainMovesInv
    <2> QED BY <2>1, <2>2 DEF GrpcTypeOK
  <1> QED BY <1>1, <1>2, <1>3, <1>4, <1>5, <1>6, <1>7, <1>8, <1>9, <1>10, <1>11, <1>12, <1>13
          DEF PollStep

\* Every step of the service is a step of its thread pool, or leaves the pool alone.
LEMMA ServiceStepsPool ==
  ASSUME [GrpcNext]_allVars
  PROVE  [Next]_vars
  <1>1. UNCHANGED poolVars => UNCHANGED vars
    BY DEF poolVars, vars
  <1>2. CASE UNCHANGED allVars
    BY <1>1, <1>2 DEF allVars, poolVars
  <1>3. CASE Construct
    BY <1>3 DEF Construct, Next
  <1>4. CASE QueuePoller
    <2> DEFINE i == CHOOSE j \in Items : ~Queued(j)
    <2>1. i \in Items /\ QueueWork(i)
      BY <1>4 DEF QueuePoller
    <2> HIDE DEF i
    <2> QED BY <2>1 DEF Next
  <1>5. ASSUME NEW i \in Items, PostPoller(i) PROVE [Next]_vars
    BY <1>5 DEF PostPoller, Next
  <1>6. ASSUME NEW c \in Cleaners, Drained(c) PROVE [Next]_vars
    BY <1>6 DEF Drained, Next
  <1>7. ASSUME NEW c \in Cleaners, CleanUp(c) PROVE [Next]_vars
    BY <1>7 DEF CleanUp, Next
  <1>8. ASSUME NEW w \in Workers, EndPolling(w) PROVE [Next]_vars
    BY <1>8 DEF EndPolling, Next, WorkerStep
  <1>9. ASSUME NEW w \in Workers, WaitForWork(w) \/ TakeWork(w) PROVE [Next]_vars
    BY <1>9 DEF Next, WorkerStep
  <1>10. ASSUME \/ StartServer \/ Started \/ StopServer \/ ServerShutdown \/ CqShutdown \/ Drain
                \/ \E c \in Cleaners : DestroyCq(c)
                \/ RuntimeStep \/ \E c \in Ctxs : RpcArrives(c)
         PROVE  UNCHANGED vars
    BY <1>1, <1>10 DEF StartServer, Started, StopServer, ServerShutdown, CqShutdown, Drain,
                       DestroyCq, RuntimeStep, RpcArrives, RequestFails, AnswerSent, Complete
  <1>11. ASSUME NEW w \in Workers,
                \/ StartPolling(w) \/ RegisterRpcMethod(w) \/ MethodRegistered(w)
                \/ NextEvent(w) \/ NextReturnsFalse(w) \/ LockContext(w) \/ ReplaceContext(w)
                \/ ContextReplaced(w) \/ Serve(w) \/ Answered(w) \/ DeleteContext(w)
         PROVE  UNCHANGED vars
    BY <1>1, <1>11 DEF StartPolling, RegisterRpcMethod, MethodRegistered, NextEvent,
                       NextReturnsFalse, LockContext, ReplaceContext, ContextReplaced, Serve,
                       Answered, DeleteContext
  <1>12. ASSUME NEW w \in Workers, PollStep(w) PROVE [Next]_vars
    BY <1>8, <1>9, <1>11, <1>12 DEF PollStep
  <1>13. CASE MainStep
    BY <1>3, <1>4, <1>5, <1>6, <1>7, <1>10, <1>13 DEF MainStep
  <1> QED BY <1>2, <1>10, <1>12, <1>13 DEF GrpcNext

\* The steps of the main thread and of the runtime keep the types and the invariant of
\* the contexts too.
LEMMA ContextNext ==
  ASSUME GrpcTypeOK, ContextInv, ServiceInv, [GrpcNext]_allVars
  PROVE  GrpcTypeOK' /\ ContextInv'
  <1>1. CASE \/ Construct \/ QueuePoller \/ Started \/ (\E i \in Items : PostPoller(i))
             \/ StopServer \/ ServerShutdown \/ CqShutdown
             \/ (\E c \in Cleaners : Drained(c) \/ CleanUp(c) \/ DestroyCq(c))
             \/ UNCHANGED allVars
    <2>1. /\ ctxs' = ctxs /\ events' = events /\ polls' = polls /\ rpcs' = rpcs
          /\ server' \in {server, "down"} /\ cq' \in {cq, "shut", "destroyed"}
          /\ server_started' = server_started \/ server_started' = FALSE
          /\ main' \in {main, "constructed", "serve", "stopping", "shutdown", "drain", "cleanUp",
                        "destroyed"}
      BY <1>1 DEF Construct, QueuePoller, Started, PostPoller, StopServer, ServerShutdown,
                  CqShutdown, Drained, CleanUp, DestroyCq, allVars, grpcVars
    <2>2. ContextInv'
      <3>1. server_started' => server_started
        BY <2>1
      <3> QED BY <2>1, <3>1, MainMovesInv
    <2> QED BY <2>1, <2>2 DEF GrpcTypeOK
  <1>2. CASE StartServer
    <2>1. /\ ctxs' = ctxs /\ events' = events /\ polls' = polls /\ rpcs' = rpcs /\ events = <<>>
      BY <1>2 DEF StartServer, ServiceInv
    <2>2. ContextInv'
      BY <2>1, MainMovesInv
    <2> QED BY <1>2, <2>1, <2>2 DEF GrpcTypeOK, StartServer
  <1>3. CASE Drain
    BY <1>3, DrainInv DEF GrpcTypeOK, Drain
  <1>4. ASSUME NEW c \in Ctxs, NEW ok \in BOOLEAN, Complete(c, ok), rpcs' \in 0..MaxRpcs,
               \/ ctxs[c].op = "finish"
               \/ ctxs[c].op = "request" /\ (ok \/ server = "down")
        PROVE  GrpcTypeOK' /\ ContextInv'
    <2>1. server = "down" => ~server_started
      BY DEF ServiceInv
    <2>2. ctxs' \in Seq(CtxType) /\ events' \in Seq(EventType) /\ ContextInv'
      BY <1>4, <2>1, CompleteInv
    <2> QED BY <1>4, <2>2 DEF GrpcTypeOK, Complete
  <1>5. ASSUME NEW c \in Ctxs, RpcArrives(c) PROVE GrpcTypeOK' /\ ContextInv'
    <2>1. rpcs' \in 0..MaxRpcs
      BY <1>5, ServiceAssumption DEF RpcArrives, GrpcTypeOK
    <2> QED BY <1>4, <1>5, <2>1 DEF RpcArrives
  <1>6. CASE RuntimeStep
    <2>1. PICK c \in Ctxs : RequestFails(c) \/ \E ok \in BOOLEAN : AnswerSent(c, ok)
      BY <1>6 DEF RuntimeStep
    <2>2. rpcs' \in 0..MaxRpcs
      BY <2>1 DEF RequestFails, AnswerSent, GrpcTypeOK
    <2> QED BY <1>4, <2>1, <2>2 DEF RequestFails, AnswerSent
  <1>7. ASSUME NEW w \in Workers, PollStep(w) PROVE GrpcTypeOK' /\ ContextInv'
    BY <1>7, PollStepInv
  <1> QED BY <1>1, <1>2, <1>3, <1>5, <1>6, <1>7 DEF GrpcNext, MainStep

\* ServiceInv: where the main thread is goes with what it set up and took down.
LEMMA ServiceNext ==
  ASSUME TypeOK, GrpcTypeOK, ContextInv, ServiceInv, [GrpcNext]_allVars
  PROVE  ServiceInv'
  <1>0. \A w \in Workers : polls[w] \in PollType /\ workers[w] \in WorkerType
    BY DEF TypeOK, GrpcTypeOK
  <1> DEFINE Rest == /\ cq' = cq /\ server' = server /\ server_started' = server_started
                     /\ main' = main
             Empty == cq = "none" => ctxs' = ctxs /\ events' = events
             Flow == /\ (cq' = "none") <=> (main' \in {"init", "constructed"})
                     /\ (cq' = "open") <=> (main' \in {"queue", "serve", "stopping", "shutdown"})
                     /\ (cq' = "destroyed") <=> (main' = "destroyed")
                     /\ (server' = "down") <=>
                          (main' \in {"shutdown", "drain", "cleanUp", "destroyed"})
                     /\ server_started' => main' \in {"queue", "serve"}
                     /\ cq' = "none" => ctxs' = <<>> /\ events' = <<>>
             Threads == /\ main' # "init" => \A w \in Workers : workers'[w].pc # "none"
                        /\ \A w \in Workers : polls'[w].pc # "idle" => workers'[w].pc = "run"
  <1>1. ASSUME Rest, Empty PROVE Flow
    BY <1>1 DEF ServiceInv
  <1>2. ASSUME workers' = workers, polls' = polls, main # "init" \/ main' = main PROVE Threads
    BY <1>2 DEF ServiceInv
  <1>3. ASSUME Flow, Threads PROVE ServiceInv'
    BY <1>3 DEF ServiceInv
  <1>4. CASE Construct
    <2>1. Flow
      BY <1>4 DEF Construct, ServiceInv
    <2>2. Threads
      BY <1>4 DEF Construct, StartWorkers, ServiceInv
    <2> QED BY <1>3, <2>1, <2>2
  <1>5. CASE \/ StartServer \/ Started \/ StopServer \/ ServerShutdown \/ CqShutdown
             \/ \E c \in Cleaners : Drained(c) \/ DestroyCq(c)
    <2>1. /\ ctxs' = ctxs /\ events' = events /\ polls' = polls /\ workers' = workers
          /\ main # "init"
      BY <1>5 DEF StartServer, Started, StopServer, ServerShutdown, CqShutdown, Drained, DestroyCq,
                  WaitAndCleanUp, poolVars
    <2>2. Flow
      BY <1>5, <2>1 DEF StartServer, Started, StopServer, ServerShutdown, CqShutdown, Drained,
                  DestroyCq, ServiceInv
    <2> QED BY <1>2, <1>3, <2>1, <2>2
  <1>6. CASE \/ QueuePoller \/ (\E i \in Items : PostPoller(i)) \/ (\E c \in Cleaners : CleanUp(c))
             \/ UNCHANGED allVars
    <2>1. /\ ctxs' = ctxs /\ events' = events /\ polls' = polls /\ workers' = workers /\ Rest
      BY <1>6 DEF QueuePoller, PostPoller, CleanUp, QueueWork, PostWork, CleanerStep, PushPill,
                  PostPill, JoinWorkers, grpcVars, allVars, poolVars
    <2> QED BY <1>1, <1>2, <1>3, <2>1
  <1>7. CASE Drain
    <2>1. Rest /\ polls' = polls /\ workers' = workers /\ cq # "none"
      BY <1>7 DEF Drain, poolVars, ServiceInv
    <2> QED BY <1>1, <1>2, <1>3, <2>1
  <1>8. ASSUME NEW c \in Ctxs, NEW ok, Complete(c, ok) PROVE ServiceInv'
    <2>1. Rest /\ polls' = polls /\ workers' = workers
      BY <1>8 DEF Complete, poolVars
    <2>2. cq = "none" => Ctxs = {}
      BY DEF ServiceInv, Ctxs
    <2> QED BY <1>1, <1>2, <1>3, <2>1, <2>2
  <1>9. CASE RuntimeStep \/ \E c \in Ctxs : RpcArrives(c)
    BY <1>8, <1>9 DEF RuntimeStep, RpcArrives, RequestFails, AnswerSent
  <1>10. ASSUME NEW w \in Workers, PollStep(w) PROVE ServiceInv'
    <2>1. Rest
      BY <1>10 DEF PollStep, StartPolling, RegisterRpcMethod, MethodRegistered, NextEvent,
           NextReturnsFalse, LockContext, ReplaceContext, ContextReplaced, Serve, Answered,
           DeleteContext, EndPolling, grpcVars
    <2>2. ASSUME cq = "none" PROVE ctxs' = ctxs /\ events' = events
      <3>1. ctxs = <<>> /\ events = <<>> /\ Ctxs = {}
        BY <2>2 DEF ServiceInv, Ctxs
      <3>2. polls[w].pc \notin {"registered", "replaced", "proceed", "PROCESS", "serve", "answered",
                              "FINISH"}
        BY <3>1 DEF ContextInv, KnownContexts
      <3> QED BY <1>10, <2>2, <3>1, <3>2 DEF PollStep, StartPolling, RegisterRpcMethod,
           MethodRegistered, NextEvent, NextReturnsFalse, LockContext, ReplaceContext, NewContext,
           ContextReplaced, Serve, Answered, DeleteContext, EndPolling, grpcVars
    <2>3. Flow
      BY <1>1, <2>1, <2>2
    <2>4. CASE \/ StartPolling(w) \/ RegisterRpcMethod(w) \/ MethodRegistered(w)
               \/ NextEvent(w) \/ NextReturnsFalse(w) \/ LockContext(w) \/ ReplaceContext(w)
               \/ ContextReplaced(w) \/ Serve(w) \/ Answered(w) \/ DeleteContext(w)
      <3>1. workers' = workers
        BY <2>4 DEF StartPolling, RegisterRpcMethod, MethodRegistered, NextEvent,
                    NextReturnsFalse, LockContext, ReplaceContext, ContextReplaced, Serve,
                    Answered, DeleteContext, poolVars
      <3>2. \A v \in Workers : v # w => polls'[v] = polls[v]
        BY <2>4 DEF StartPolling, RegisterRpcMethod, MethodRegistered, NextEvent, GrpcTypeOK,
                    NextReturnsFalse, LockContext, ReplaceContext, ContextReplaced, Serve,
                    Answered, DeleteContext
      <3>3. workers[w].pc = "run"
        BY <2>4 DEF StartPolling, RegisterRpcMethod, MethodRegistered, NextEvent, ServiceInv,
                    NextReturnsFalse, LockContext, ReplaceContext, ContextReplaced, Serve,
                    Answered, DeleteContext
      <3>4. Threads
        BY <2>1, <3>1, <3>2, <3>3 DEF ServiceInv
      <3> QED BY <1>3, <2>3, <3>4
    <2>5. CASE EndPolling(w)
      <3>1. /\ \A v \in Workers : v # w => polls'[v] = polls[v] /\ workers'[v] = workers[v]
            /\ polls'[w].pc = "idle" /\ workers'[w].pc = "wait"
        BY <2>5, NewPolls DEF EndPolling, RunWork, GrpcTypeOK, TypeOK
      <3>2. \A v \in Workers : workers'[v].pc = "none" => workers[v].pc = "none"
        BY <3>1
      <3>3. \A v \in Workers : polls'[v].pc # "idle" => workers'[v].pc = "run"
        BY <3>1 DEF ServiceInv
      <3>4. Threads
        BY <2>1, <3>2, <3>3 DEF ServiceInv
      <3> QED BY <1>3, <2>3, <3>4
    <2>6. CASE (WaitForWork(w) \/ TakeWork(w)) /\ UNCHANGED grpcVars
      <3>1. /\ \A v \in Workers : v # w => workers'[v] = workers[v]
            /\ workers'[w].pc \in {"take", "run", "ended"} /\ workers[w].pc # "run"
        BY <2>6 DEF WaitForWork, TakeWork, TypeOK, WorkerType
      <3>2. polls' = polls
        BY <2>6 DEF grpcVars
      <3>3. Threads
        BY <2>1, <3>1, <3>2 DEF ServiceInv
      <3> QED BY <1>3, <2>3, <3>3
    <2> QED BY <1>10, <2>4, <2>5, <2>6 DEF PollStep
  <1> QED BY <1>4, <1>5, <1>6, <1>7, <1>9, <1>10 DEF GrpcNext, MainStep

\* Locks and statuses may change without a change of the operations under way.
LEMMA OpsKept ==
  ASSUME GrpcTypeOK, NEW c \in Ctxs,
         NEW s \in {"PROCESS", "FINISH", "deleted", "drained"}, NEW w \in Workers,
         \/ ctxs' = ctxs
         \/ ctxs' = [ctxs EXCEPT ![c].status = s]
         \/ ctxs' = [ctxs EXCEPT ![c].status = s, ![c].lock = Null]
         \/ ctxs' = [ctxs EXCEPT ![c].lock = w]
  PROVE  /\ Ctxs' = Ctxs
         /\ \A d \in Ctxs : ctxs'[d].op = ctxs[d].op /\ ctxs'[d].method = ctxs[d].method
  <1>0. ctxs[c] \in CtxType /\ ctxs \in [Ctxs -> CtxType]
    BY CtxChanges
  <1>1. CASE ctxs' = ctxs
    BY <1>1 DEF Ctxs
  <1>2. ASSUME NEW x \in CtxType, ctxs' = [ctxs EXCEPT ![c] = x], x.op = ctxs[c].op /\ x.method = ctxs[c].method
        PROVE  /\ Ctxs' = Ctxs
               /\ \A d \in Ctxs : ctxs'[d].op = ctxs[d].op /\ ctxs'[d].method = ctxs[d].method
    BY <1>2, CtxChanges
  <1>3. CASE ctxs' = [ctxs EXCEPT ![c].status = s]
    <2> DEFINE x == [ctxs[c] EXCEPT !.status = s]
    <2>1. x \in CtxType /\ x.op = ctxs[c].op /\ x.method = ctxs[c].method
      BY <1>0 DEF CtxType
    <2>2. ctxs' = [ctxs EXCEPT ![c] = x]
      BY <1>3
    <2> QED BY <1>2, <2>1, <2>2
  <1>4. CASE ctxs' = [ctxs EXCEPT ![c].status = s, ![c].lock = Null]
    <2> DEFINE x == [ctxs[c] EXCEPT !.status = s, !.lock = Null]
    <2>1. x \in CtxType /\ x.op = ctxs[c].op /\ x.method = ctxs[c].method
      BY <1>0 DEF CtxType
    <2>2. ctxs' = [ctxs EXCEPT ![c] = x]
      BY <1>0, <1>4
    <2> QED BY <1>2, <2>1, <2>2
  <1>5. CASE ctxs' = [ctxs EXCEPT ![c].lock = w]
    <2> DEFINE x == [ctxs[c] EXCEPT !.lock = w]
    <2>1. x \in CtxType /\ x.op = ctxs[c].op /\ x.method = ctxs[c].method
      BY <1>0 DEF CtxType
    <2>2. ctxs' = [ctxs EXCEPT ![c] = x]
      BY <1>5
    <2> QED BY <1>2, <2>1, <2>2
  <1> QED BY <1>1, <1>3, <1>4, <1>5

\* When cq_ is shut down no RPC begins, and once nothing is left in cq_ nothing comes.
LEMMA ShutNext ==
  ASSUME GrpcTypeOK, ContextInv, ServiceInv, cq \in {"shut", "destroyed"},
         InProgress = {}, [GrpcNext]_allVars
  PROVE  /\ InProgress' = {}
         /\ events = <<>> /\ Pending = {} => events' = <<>> /\ Pending' = {}
  <1>1. /\ main \in {"drain", "cleanUp", "destroyed"} /\ server = "down" /\ ~server_started
    BY DEF ServiceInv, GrpcTypeOK
  <1>2. /\ \A c \in Ctxs : ctxs[c].op # "finish"
        /\ \A e \in ToSet(events) : ~(e.kind = "request" /\ e.ok)
        /\ \A w \in Workers :
             /\ polls[w].pc \in {"proceed", "PROCESS", "replaced", "serve"} =>
                  polls[w].event.kind # "request"
             /\ polls[w].pc \notin {"PROCESS", "replaced", "serve"}
    <2>1. \A e \in ToSet(events) : e.ctx \in Ctxs
      BY DEF ContextInv, KnownContexts
    <2>2. \A w \in Workers :
             polls[w].pc \in {"proceed", "PROCESS", "replaced", "serve"} =>
               /\ polls[w].event.ctx \in Ctxs
               /\ polls[w].event.kind = "request" => polls[w].event.ok
      BY DEF ContextInv, KnownContexts
    <2>3. \A w \in Workers :
            polls[w].pc \in {"PROCESS", "replaced", "serve"} => polls[w].event.kind = "request"
      BY DEF ContextInv, EventMeetsStatus
    <2> QED BY <2>1, <2>2, <2>3 DEF InProgress
  <1> DEFINE Ops == Ctxs' = Ctxs /\ \A d \in Ctxs : ctxs'[d].op \in {ctxs[d].op, "none"}
             Evs == \A e \in ToSet(events') : ~(e.kind = "request" /\ e.ok)
             Pos == \A w \in Workers :
                      polls'[w].pc \in {"proceed", "PROCESS", "replaced", "serve"} =>
                        polls'[w].event.kind # "request"
             Goal == /\ InProgress' = {}
                     /\ events = <<>> /\ Pending = {} => events' = <<>> /\ Pending' = {}
  <1>3. ASSUME Ops, Evs, Pos, events = <<>> /\ Pending = {} => events' = <<>>
        PROVE  Goal
    <2>1. InProgress' = {}
      BY <1>2, <1>3 DEF InProgress
    <2> QED BY <1>3, <2>1 DEF Pending
  <1>4. ASSUME polls' = polls PROVE Pos
    BY <1>2, <1>4
  <1>5. ASSUME events' = events PROVE Evs
    BY <1>2, <1>5
  <1>6. ASSUME ctxs' = ctxs PROVE Ops
    BY <1>6 DEF Ctxs
  <1>7. ASSUME events # <<>>, events' = Tail(events)
        PROVE  Evs /\ Head(events) \in EventType /\ Head(events) \in ToSet(events)
    BY <1>2, <1>7, EventChanges DEF ContextInv
  <1>8. CASE \/ UNCHANGED allVars \/ Construct \/ StartServer \/ QueuePoller \/ Started
             \/ (\E i \in Items : PostPoller(i)) \/ StopServer \/ ServerShutdown \/ CqShutdown
             \/ (\E c \in Cleaners : Drained(c) \/ CleanUp(c) \/ DestroyCq(c))
    <2>1. ctxs' = ctxs /\ events' = events /\ polls' = polls
      BY <1>8 DEF Construct, StartServer, QueuePoller, Started, PostPoller, StopServer,
                  ServerShutdown, CqShutdown, Drained, CleanUp, DestroyCq, allVars, grpcVars
    <2> QED BY <1>3, <1>4, <1>5, <1>6, <2>1
  <1>9. CASE Drain
    <2>1. /\ events # <<>> /\ events' = Tail(events) /\ polls' = polls
          /\ ctxs' = [ctxs EXCEPT ![Head(events).ctx].status = "drained"]
      BY <1>9 DEF Drain
    <2>2. Head(events).ctx \in Ctxs
      BY <1>7, <2>1 DEF ContextInv, KnownContexts
    <2>3. Ops
      BY <2>1, <2>2, OpsKept, PoolOfThreads
    <2> QED BY <1>3, <1>4, <1>7, <2>1, <2>3
  <1>10. ASSUME NEW c \in Ctxs, RequestFails(c) PROVE Goal
    <2> DEFINE x == [ctxs[c] EXCEPT !.op = "none"]
               e == [ctx |-> c, kind |-> "request", ok |-> FALSE]
    <2>1. /\ ctxs[c].op = "request" /\ ctxs' = [ctxs EXCEPT ![c] = x] /\ events' = Append(events, e)
          /\ polls' = polls
      BY <1>10 DEF RequestFails, Complete
    <2>2. x \in CtxType /\ x.op = "none"
      BY CtxChanges DEF CtxType
    <2>3. e \in EventType /\ e.ctx = c /\ e.ok = FALSE /\ e.kind = "request"
      BY CtxChanges DEF EventType, Ctxs
    <2> HIDE DEF x, e
    <2>4. Ops
      BY <2>1, <2>2, CtxChanges
    <2>5. Evs
      <3>1. \A f \in ToSet(events) : f.ctx # e.ctx
        BY <2>1, <2>3 DEF ContextInv, OneEvent
      <3>2. ToSet(events') = ToSet(events) \cup {e}
        BY <2>1, <2>3, <3>1, EventChanges DEF ContextInv
      <3> QED BY <1>2, <2>3, <3>2
    <2>6. c \in Pending
      BY <2>1 DEF Pending
    <2> QED BY <1>3, <1>4, <2>1, <2>4, <2>5, <2>6
  <1>11. CASE RuntimeStep \/ \E c \in Ctxs : RpcArrives(c)
    BY <1>1, <1>2, <1>10, <1>11 DEF RuntimeStep, RpcArrives, AnswerSent
  <1>12. ASSUME NEW w \in Workers, PollStep(w) PROVE Goal
    <2>1. ASSUME NEW r, polls' = [polls EXCEPT ![w] = r],
                 r.pc \in {"proceed", "PROCESS", "replaced", "serve"} => r.event.kind # "request"
          PROVE  Pos
      BY <1>2, <2>1 DEF GrpcTypeOK
    <2>2. ~RegisterRpcMethod(w) /\ ~ReplaceContext(w)
      BY DEF RegisterRpcMethod, ReplaceContext, NewContext
    <2>3. ~ContextReplaced(w) /\ ~Serve(w)
      BY <1>2 DEF ContextReplaced, Serve
    <2>4. CASE StartPolling(w) \/ NextReturnsFalse(w)
      <3> DEFINE r == [polls[w] EXCEPT !.pc = IF polls[w].pc = "idle" THEN "register" ELSE "ended"]
      <3>1. ctxs' = ctxs /\ events' = events /\ polls' = [polls EXCEPT ![w] = r]
        BY <2>4 DEF StartPolling, NextReturnsFalse
      <3>2. r.pc \in {"register", "ended"}
        BY DEF GrpcTypeOK, PollType
      <3> HIDE DEF r
      <3>3. Pos
        BY <2>1, <3>1, <3>2
      <3> QED BY <1>3, <1>5, <1>6, <3>1, <3>3
    <2>5. CASE MethodRegistered(w)
      <3> DEFINE r == IF polls[w].method < NumMethods
                        THEN [NotPolling EXCEPT !.pc = "register", !.method = polls[w].method + 1]
                        ELSE AtNext
      <3>1. /\ events' = events /\ polls' = [polls EXCEPT ![w] = r]
            /\ polls[w].pc = "registered" /\ LeaveContext(polls[w].new, "PROCESS")
        BY <2>5 DEF MethodRegistered, GrpcTypeOK
      <3>2. r.pc \in {"register", "next"}
        BY DEF NotPolling, AtNext
      <3> HIDE DEF r
      <3>3. Pos
        BY <2>1, <3>1, <3>2
      <3>4. polls[w].new \in Ctxs
        BY <3>1 DEF ContextInv, KnownContexts
      <3>5. Ops
        BY <3>1, <3>4, OpsKept DEF LeaveContext
      <3> QED BY <1>3, <1>5, <3>1, <3>3, <3>5
    <2>6. CASE NextEvent(w)
      <3> DEFINE e == Head(events)
                 r == IF ~e.ok /\ ~server_started
                        THEN [NotPolling EXCEPT !.pc = "ended"]
                        ELSE [NotPolling EXCEPT !.pc = "proceed", !.event = e]
      <3>1. /\ ctxs' = ctxs /\ events # <<>> /\ events' = Tail(events)
            /\ polls' = [polls EXCEPT ![w] = r]
        BY <2>6 DEF NextEvent
      <3>2. e \in EventType /\ e \in ToSet(events) /\ Evs
        BY <1>7, <3>1
      <3>3. r.pc \in {"proceed", "PROCESS", "replaced", "serve"} => r.event.kind # "request"
        BY ZenonT(60), <1>1, <1>2, <3>2, NewPolls
      <3> HIDE DEF r
      <3>4. Pos
        BY <2>1, <3>1, <3>3
      <3> QED BY <1>3, <1>6, <3>1, <3>2, <3>4
    <2>7. CASE LockContext(w)
      <3> DEFINE r == [polls[w] EXCEPT !.pc = ctxs[polls[w].event.ctx].status]
      <3>1. /\ events' = events /\ polls' = [polls EXCEPT ![w] = r] /\ polls[w].pc = "proceed"
            /\ ctxs' = [ctxs EXCEPT ![polls[w].event.ctx].lock = w]
        BY <2>7 DEF LockContext
      <3>2. r.event = polls[w].event
        BY DEF GrpcTypeOK, PollType
      <3> HIDE DEF r
      <3>3. Pos
        BY <1>2, <2>1, <3>1, <3>2
      <3>4. polls[w].event.ctx \in Ctxs
        BY <3>1 DEF ContextInv, KnownContexts
      <3>5. Ops
        BY <3>1, <3>4, OpsKept
      <3> QED BY <1>3, <1>5, <3>1, <3>3, <3>5
    <2>8. CASE Answered(w) \/ DeleteContext(w)
      <3>1. /\ events' = events /\ polls' = [polls EXCEPT ![w] = AtNext]
            /\ polls[w].pc \in {"answered", "FINISH"}
            /\ \/ LeaveContext(polls[w].event.ctx, "FINISH")
               \/ ctxs' = [ctxs EXCEPT ![polls[w].event.ctx].status = "deleted",
                                       ![polls[w].event.ctx].lock = Null]
        BY <2>8 DEF Answered, DeleteContext
      <3>2. Pos
        BY <2>1, <3>1, NewPolls
      <3>3. polls[w].event.ctx \in Ctxs
        BY <3>1 DEF ContextInv, KnownContexts
      <3>4. Ops
        BY <3>1, <3>3, OpsKept DEF LeaveContext
      <3> QED BY <1>3, <1>5, <3>1, <3>2, <3>4
    <2>9. CASE EndPolling(w)
      <3>1. ctxs' = ctxs /\ events' = events /\ polls' = [polls EXCEPT ![w] = NotPolling]
        BY <2>9 DEF EndPolling
      <3>2. Pos
        BY <2>1, <3>1, NewPolls
      <3> QED BY <1>3, <1>5, <1>6, <3>1, <3>2
    <2>10. CASE UNCHANGED grpcVars
      BY <1>3, <1>4, <1>5, <1>6, <2>10 DEF grpcVars
    <2> QED BY <1>12, <2>2, <2>3, <2>4, <2>5, <2>6, <2>7, <2>8, <2>9, <2>10 DEF PollStep
  <1> QED BY <1>8, <1>9, <1>11, <1>12 DEF GrpcNext, MainStep

\* DownInv: the pool is cleaned up after cq_ is empty, by a call that waits for the workers.
LEMMA DownNext ==
  ASSUME TypeOK, ThreadsInv, GrpcTypeOK, ContextInv, ServiceInv, DownInv, [GrpcNext]_allVars
  PROVE  DownInv'
  <1>0. \A c \in Cleaners : cleaners[c] \in CleanerType
    BY DEF TypeOK
  <1>1. cq' \in {"shut", "destroyed"} => InProgress' = {}
    <2>1. CASE cq \in {"shut", "destroyed"}
      BY <2>1, ShutNext DEF DownInv
    <2>2. CASE CqShutdown
      <3>1. InProgress = {} /\ ctxs' = ctxs /\ events' = events /\ polls' = polls
        BY <2>2 DEF CqShutdown
      <3> QED BY <3>1 DEF InProgress, Ctxs
    <2>3. CASE cq \notin {"shut", "destroyed"} /\ ~CqShutdown
      <3>1. ASSUME NEW c \in Cleaners, DestroyCq(c) PROVE FALSE
        BY <2>3, <3>1 DEF DestroyCq, ServiceInv, GrpcTypeOK
      <3>2. ASSUME NEW w \in Workers, PollStep(w) PROVE cq' = cq
        BY <3>2 DEF PollStep, StartPolling, RegisterRpcMethod, MethodRegistered, NextEvent,
             NextReturnsFalse, LockContext, ReplaceContext, ContextReplaced, Serve, Answered,
             DeleteContext, EndPolling, grpcVars
      <3>3. CASE MainStep
        BY <2>3, <3>1, <3>3 DEF MainStep, Construct, StartServer, QueuePoller, Started, PostPoller,
             ServerShutdown, Drain, Drained, CleanUp, grpcVars
      <3>4. CASE StopServer \/ RuntimeStep \/ \E c \in Ctxs : RpcArrives(c)
        BY <2>3, <3>4 DEF StopServer, RuntimeStep, RpcArrives, RequestFails, AnswerSent, Complete
      <3>5. CASE UNCHANGED allVars
        BY <2>3, <3>5 DEF allVars, grpcVars
      <3> QED BY <2>3, <3>2, <3>3, <3>4, <3>5 DEF GrpcNext
    <2> QED BY <2>1, <2>2, <2>3
  <1>2. \/ main' = main
        \/ main' \notin {"cleanUp", "destroyed"} /\ main \notin {"cleanUp", "destroyed"}
        \/ \E c \in Cleaners : Drained(c) \/ DestroyCq(c)
    <2>1. ASSUME NEW w \in Workers, PollStep(w) PROVE main' = main
      BY <2>1 DEF PollStep, StartPolling, RegisterRpcMethod, MethodRegistered, NextEvent,
           NextReturnsFalse, LockContext, ReplaceContext, ContextReplaced, Serve, Answered,
           DeleteContext, EndPolling, grpcVars
    <2>2. CASE MainStep
      BY <2>2 DEF MainStep, Construct, StartServer, QueuePoller, Started, PostPoller,
           ServerShutdown, CqShutdown, Drain, CleanUp, grpcVars
    <2>3. CASE StopServer \/ RuntimeStep \/ \E c \in Ctxs : RpcArrives(c)
      BY <2>3 DEF StopServer, RuntimeStep, RpcArrives, RequestFails, AnswerSent, Complete
    <2>4. CASE UNCHANGED allVars
      BY <2>4 DEF allVars, grpcVars
    <2> QED BY <2>1, <2>2, <2>3, <2>4 DEF GrpcNext
  <1>3. main' \in {"cleanUp", "destroyed"} => events' = <<>> /\ Pending' = {}
    <2>1. ASSUME NEW c \in Cleaners, Drained(c) PROVE events' = <<>> /\ Pending' = {}
      BY <2>1 DEF Drained, NoMoreEvents, Pending, Ctxs
    <2>2. CASE main \in {"cleanUp", "destroyed"}
      <3>1. cq \in {"shut", "destroyed"} /\ events = <<>> /\ Pending = {} /\ InProgress = {}
        BY <2>2 DEF ServiceInv, DownInv, GrpcTypeOK
      <3> QED BY <3>1, ShutNext
    <2>3. ASSUME NEW c \in Cleaners, DestroyCq(c) PROVE main \in {"cleanUp", "destroyed"}
      BY <2>3 DEF DestroyCq
    <2> QED BY <1>2, <2>1, <2>2, <2>3
  <1>4. ASSUME NEW c \in Cleaners, Drained(c)
        PROVE  /\ main' = "cleanUp"
               /\ \A d \in Cleaners : cleaners'[d].pc # "returned"
    <2>1. /\ main = "drain" /\ main' = "cleanUp" /\ WaitAndCleanUp(c)
      BY <1>4 DEF Drained
    <2>2. ~stopped /\ (\A d \in Cleaners : cleaners[d].pc = "idle")
      BY <2>1 DEF DownInv
    <2>3. \E w \in Workers : workers[w].pc # "none"
      BY <2>1, PoolOfThreads DEF ServiceInv
    <2>4. cleaners' = [cleaners EXCEPT ![c].pc = "push"]
      BY <2>1, <2>2, <2>3 DEF WaitAndCleanUp
    <2> QED BY <1>0, <2>1, <2>2, <2>4 DEF TypeOK, CleanerType
  <1>5. ASSUME NEW c \in Cleaners, CleanUp(c)
        PROVE  /\ main \in {"cleanUp", "destroyed"} /\ main' = main
               /\ cleaners'[c].pc = "returned" => cleaners'[c].pills > 0
               /\ cleaners[c].pc # "returned"
               /\ \A d \in Cleaners : d # c => cleaners'[d] = cleaners[d]
    <2>1. cleaners[c].pc \in {"push", "post", "join"} /\ main' = main
      BY <1>5 DEF CleanUp, CleanerStep, PushPill, PostPill, JoinWorkers, grpcVars
    <2>2. main \in {"cleanUp", "destroyed"}
      BY <2>1 DEF DownInv
    <2>3. \A d \in Cleaners : d # c => cleaners'[d] = cleaners[d]
      BY <1>5 DEF CleanUp, CleanerStep, PushPill, PostPill, JoinWorkers, TypeOK
    <2>4. CASE PushPill(c) \/ PostPill(c)
      <3>1. cleaners'[c].pc # "returned"
        BY <1>0, <2>4 DEF PushPill, PostPill, TypeOK, CleanerType
      <3> QED BY <2>1, <2>2, <2>3, <3>1
    <2>5. CASE JoinWorkers(c)
      <3>1. cleaners'[c].pills = cleaners[c].pills /\ cleaners[c].pc = "join"
        BY <1>0, <2>5 DEF JoinWorkers, TypeOK, CleanerType
      <3>2. cleaners[c].pills > 0
        BY <3>1 DEF ThreadsInv, OneCleanUp
      <3> QED BY <2>1, <2>2, <2>3, <3>1, <3>2
    <2> QED BY <1>5, <2>4, <2>5 DEF CleanUp, CleanerStep
  <1>6. \/ cleaners' = cleaners /\ stopped' = stopped
        \/ \E c \in Cleaners : Drained(c) \/ CleanUp(c)
    <2>1. ASSUME NEW w \in Workers, PollStep(w) PROVE cleaners' = cleaners /\ stopped' = stopped
      BY <2>1 DEF PollStep, StartPolling, RegisterRpcMethod, MethodRegistered, NextEvent,
           NextReturnsFalse, LockContext, ReplaceContext, ContextReplaced, Serve, Answered,
           DeleteContext, EndPolling, RunWork, WaitForWork, TakeWork, poolVars
    <2>2. CASE MainStep
      BY <2>2 DEF MainStep, Construct, StartServer, QueuePoller, Started, PostPoller,
           ServerShutdown, CqShutdown, Drain, DestroyCq, StartWorkers, QueueWork, PostWork, poolVars
    <2>3. CASE StopServer \/ RuntimeStep \/ \E c \in Ctxs : RpcArrives(c)
      BY <2>3 DEF StopServer, RuntimeStep, RpcArrives, RequestFails, AnswerSent, Complete, poolVars
    <2>4. CASE UNCHANGED allVars
      BY <2>4 DEF allVars, poolVars
    <2> QED BY <2>1, <2>2, <2>3, <2>4 DEF GrpcNext
  <1>7. main' \notin {"cleanUp", "destroyed"} =>
          ~stopped' /\ \A c \in Cleaners : cleaners'[c].pc = "idle"
    <2> SUFFICES ASSUME main' \notin {"cleanUp", "destroyed"}
                 PROVE  ~stopped' /\ \A c \in Cleaners : cleaners'[c].pc = "idle"
      OBVIOUS
    <2>1. ASSUME NEW c \in Cleaners, DestroyCq(c) PROVE FALSE
      BY <2>1 DEF DestroyCq
    <2>2. main \notin {"cleanUp", "destroyed"}
      BY <1>2, <1>4, <2>1
    <2>3. cleaners' = cleaners /\ stopped' = stopped
      BY <1>4, <1>5, <1>6, <2>2
    <2>4. ~stopped /\ \A c \in Cleaners : cleaners[c].pc = "idle"
      BY <2>2 DEF DownInv
    <2> QED BY <2>3, <2>4
  <1>8. \A c \in Cleaners : cleaners'[c].pc = "returned" => cleaners'[c].pills > 0
    BY <1>4, <1>5, <1>6 DEF DownInv
  <1>9. main' = "destroyed" => \E c \in Cleaners : cleaners'[c].pc = "returned"
    <2> SUFFICES ASSUME main' = "destroyed"
                 PROVE  \E c \in Cleaners : cleaners'[c].pc = "returned"
      OBVIOUS
    <2>1. CASE main = "destroyed"
      <3>1. PICK c \in Cleaners : cleaners[c].pc = "returned"
        BY <2>1 DEF DownInv
      <3> QED BY <1>4, <1>5, <1>6, <3>1
    <2>2. ASSUME NEW c \in Cleaners, DestroyCq(c) PROVE cleaners'[c].pc = "returned"
      BY <2>2 DEF DestroyCq, poolVars
    <2> QED BY <1>2, <1>4, <2>1, <2>2
  <1> QED BY <1>1, <1>3, <1>7, <1>8, <1>9 DEF DownInv

\* Everything holds before the constructor runs.
LEMMA GrpcInitInv ==
  ASSUME GrpcInit
  PROVE  TypeOK /\ ThreadsInv /\ GrpcTypeOK /\ GrpcInv
  <1>1. TypeOK /\ ThreadsInv
    BY PoolInitInv DEF GrpcInit
  <1>2. /\ ctxs = <<>> /\ events = <<>> /\ rpcs = 0 /\ server = "none" /\ cq = "none"
        /\ server_started = FALSE /\ main = "init" /\ \A w \in Workers : polls[w] = NotPolling
        /\ polls \in [Workers -> PollType] /\ NotPolling.pc = "idle"
    BY NewPolls DEF GrpcInit
  <1>3. Ctxs = {} /\ ToSet(events) = {} /\ DOMAIN events = {}
    BY <1>2 DEF Ctxs, ToSet
  <1>4. GrpcTypeOK
    <2>1. ctxs \in Seq(CtxType) /\ events \in Seq(EventType)
      BY <1>2
    <2>2. rpcs \in 0..MaxRpcs
      BY <1>2, ServiceAssumption
    <2>3. server_started \in BOOLEAN
      BY <1>2
    <2> QED BY <1>2, <2>1, <2>2, <2>3 DEF GrpcTypeOK
  <1>5. \A w \in Workers : polls[w].pc = "idle"
    BY <1>2
  <1>6. ContextInv
    <2>1. KnownContexts
      BY <1>3, <1>5 DEF KnownContexts
    <2>2. LocksHeld /\ OneEvent /\ FreedUnused /\ StatusLags
      BY <1>3 DEF LocksHeld, OneEvent, FreedUnused, StatusLags
    <2>3. EventMeetsStatus
      BY <1>5 DEF EventMeetsStatus
    <2> QED BY <2>1, <2>2, <2>3 DEF ContextInv
  <1>7. ServiceInv
    BY <1>2, <1>5 DEF ServiceInv
  <1>8. DownInv
    <2>1. stopped = FALSE /\ \A c \in Cleaners : cleaners[c].pc = "idle"
      BY DEF GrpcInit, PoolInit
    <2> QED BY <1>2, <2>1 DEF DownInv
  <1> QED BY <1>1, <1>4, <1>6, <1>7, <1>8 DEF GrpcInv

\* The types and the inductive invariant of the service and of the pool it runs on:
\* which locks the polling threads hold, which events and operations a context has, what
\* its status may be meanwhile, and how far the set-up or the destruction has come.
THEOREM GrpcInvariant == GrpcSpec => [](TypeOK /\ ThreadsInv /\ GrpcTypeOK /\ GrpcInv)
  <1> DEFINE I == TypeOK /\ ThreadsInv /\ GrpcTypeOK /\ GrpcInv
  <1>1. GrpcInit => I
    BY GrpcInitInv
  <1>2. I /\ [GrpcNext]_allVars => I'
    <2> SUFFICES ASSUME I, [GrpcNext]_allVars PROVE I'
      OBVIOUS
    <2>1. TypeOK' /\ ThreadsInv'
      BY ServiceStepsPool, NextThreadsInv
    <2>2. GrpcTypeOK' /\ ContextInv'
      BY ContextNext DEF GrpcInv
    <2>3. ServiceInv'
      BY ServiceNext DEF GrpcInv
    <2>4. DownInv'
      BY DownNext DEF GrpcInv
    <2> QED BY <2>1, <2>2, <2>3, <2>4 DEF GrpcInv
  <1> QED BY <1>1, <1>2, PTL DEF GrpcSpec

\* Every field of the service has its type.
THEOREM GrpcTypeCorrect == GrpcSpec => []GrpcTypeOK
  BY GrpcInvariant, PTL

\* The thread pool of the service behaves as ThreadPool says, whatever polling functions,
\* the runtime and the main thread do.
THEOREM PoolRefined == GrpcSpec => Spec
  <1>1. GrpcInit => PoolInit
    BY DEF GrpcInit
  <1>2. [GrpcNext]_allVars => [Next]_vars
    BY ServiceStepsPool
  <1> QED BY <1>1, <1>2, PTL DEF GrpcSpec, Spec

\* So a worker of the service that got through the semaphore finds a polling function or a
\* null work item in the queue.
THEOREM ServiceWorkIsThere == GrpcSpec => []WorkIsThere
  BY PoolRefined, WorkIsThereHolds, PTL

\* RpcContext::Proceed: for every number of threads, methods and RPCs, a thread that has
\* the lock finds the status that the operation of its event left.
THEOREM EventMeetsStatusHolds == GrpcSpec => []EventMeetsStatus
  <1>1. GrpcInv => EventMeetsStatus
    BY DEF GrpcInv, ContextInv
  <1> QED BY <1>1, GrpcInvariant, PTL

\* delete this in Proceed: no other thread, event or operation uses the context.
THEOREM NoUseAfterDeleteHolds == GrpcSpec => []NoUseAfterDelete
  <1>1. GrpcInv => NoUseAfterDelete
    <2> SUFFICES ASSUME GrpcInv, NEW c \in Ctxs, ctxs[c].status = "deleted"
                 PROVE  /\ ctxs[c].op = "none" /\ \A e \in ToSet(events) : e.ctx # c
                        /\ \A w \in Workers : c \notin InProceed(w)
      BY DEF NoUseAfterDelete
    <2>1. Freed(c)
      BY DEF Freed
    <2>2. /\ ctxs[c].op = "none" /\ \A e \in ToSet(events) : e.ctx # c
          /\ \A w \in Workers : ~HasEvent(w, c) /\ ~LocksNew(w, c) /\ ~Answering(w, c)
      BY <2>1 DEF GrpcInv, ContextInv, FreedUnused
    <2> QED BY <2>2 DEF InProceed, HasEvent, LocksNew, Answering
  <1> QED BY <1>1, GrpcInvariant, PTL

\* ~GrpcAsyncService: cq_ is destroyed after the threads that poll it, and empty.
THEOREM QueueOutlivesPollersHolds == GrpcSpec => []QueueOutlivesPollers
  <1>1. ThreadsInv /\ GrpcInv => QueueOutlivesPollers
    <2> SUFFICES ASSUME ThreadsInv, GrpcInv, cq = "destroyed"
                 PROVE  /\ \A w \in Workers : workers[w].pc = "ended" /\ polls[w].pc = "idle"
                        /\ events = <<>> /\ Pending = {}
      BY DEF QueueOutlivesPollers
    <2>1. main = "destroyed"
      BY DEF GrpcInv, ServiceInv
    <2>2. PICK c \in Cleaners : cleaners[c].pc = "returned" /\ cleaners[c].pills > 0
      BY <2>1 DEF GrpcInv, DownInv
    <2>3. \A w \in Workers : workers[w].pc = "ended"
      BY <2>2 DEF ThreadsInv, CleanUpWaits
    <2>4. \A w \in Workers : polls[w].pc = "idle"
      BY <2>3 DEF GrpcInv, ServiceInv
    <2> QED BY <2>1, <2>3, <2>4 DEF GrpcInv, DownInv
  <1> QED BY <1>1, GrpcInvariant, PTL

-----------------------------------------------------------------------------
(* The contexts that listen. *)

\* The contexts that listen, the threads that registered and the items that are done can
\* be counted.
LEMMA ListenersCounted ==
  ASSUME GrpcTypeOK, IsFiniteSet(done)
  PROVE  /\ Cardinality(done) \in Nat
         /\ \A m \in Methods :
              /\ IsFiniteSet(Listening(m)) /\ Cardinality(Listening(m)) \in Nat
              /\ IsFiniteSet(RegisteredFor(m)) /\ Cardinality(RegisteredFor(m)) \in Nat
  <1>1. Cardinality(done) \in Nat
    BY FS_CardinalityType
  <1>2. ASSUME NEW m \in Methods
        PROVE  /\ IsFiniteSet(Listening(m)) /\ Cardinality(Listening(m)) \in Nat
               /\ IsFiniteSet(RegisteredFor(m)) /\ Cardinality(RegisteredFor(m)) \in Nat
    <2>1. Listening(m) \subseteq Ctxs /\ RegisteredFor(m) \subseteq Workers
      BY DEF Listening, RegisteredFor
    <2>2. IsFiniteSet(Ctxs)
      <3>1. Len(ctxs) \in Nat
        BY CtxChanges
      <3> QED BY <3>1, FS_Interval DEF Ctxs
    <2>3. IsFiniteSet(Workers)
      BY PoolOfThreads
    <2>4. IsFiniteSet(Listening(m)) /\ IsFiniteSet(RegisteredFor(m))
      BY <2>1, <2>2, <2>3, FS_Subset
    <2> QED BY <2>4, FS_CardinalityType
  <1> QED BY <1>1, <1>2

\* The step changes who listens, or who registered, for no method.
LEMMA ListeningKept ==
  ASSUME Ctxs' = Ctxs,
         \A d \in Ctxs : ctxs'[d].method = ctxs[d].method /\ (Listens(d)' <=> Listens(d)),
         \A v \in Workers, m \in Methods : HasRegistered(v, m)' <=> HasRegistered(v, m)
  PROVE  \A m \in Methods : /\ Listening(m)' = Listening(m)
                            /\ RegisteredFor(m)' = RegisteredFor(m)
  BY DEF Listening, RegisteredFor

\* A thread moves on with the same event, and changes no request.
LEMMA ThreadMovesOn ==
  ASSUME GrpcTypeOK, NEW w \in Workers, NEW r \in PollType, polls' = [polls EXCEPT ![w] = r],
         events' = events, Ctxs' = Ctxs,
         \A d \in Ctxs : /\ ctxs'[d].method = ctxs[d].method
                         /\ ctxs'[d].op = "request" <=> ctxs[d].op = "request"
                         /\ Taken(w, d)' <=> Taken(w, d),
         \A m \in Methods : HasRegistered(w, m)' <=> HasRegistered(w, m)
  PROVE  \A m \in Methods : /\ Listening(m)' = Listening(m)
                            /\ RegisteredFor(m)' = RegisteredFor(m)
  <1>1. polls'[w] = r /\ \A v \in Workers : v # w => polls'[v] = polls[v]
    BY PollChanges
  <1>2. \A v \in Workers, d \in Ctxs : Taken(v, d)' <=> Taken(v, d)
    BY <1>1 DEF Taken
  <1>3. \A v \in Workers, m \in Methods : HasRegistered(v, m)' <=> HasRegistered(v, m)
    BY <1>1 DEF HasRegistered
  <1>4. \A d \in Ctxs : Listens(d)' <=> Listens(d)
    BY <1>2 DEF Listens
  <1> QED BY <1>3, <1>4, ListeningKept

\* The runtime completes an operation: the request is still to be served.
LEMMA CompleteListens ==
  ASSUME GrpcTypeOK, ContextInv, NEW c \in Ctxs, NEW ok \in BOOLEAN,
         ctxs[c].op \in {"request", "finish"}, Complete(c, ok)
  PROVE  /\ \A m \in Methods : /\ Listening(m)' = Listening(m)
                               /\ RegisteredFor(m)' = RegisteredFor(m)
         /\ \A e \in ToSet(events') : \/ e \in ToSet(events)
                                      \/ e.kind = ctxs[c].op /\ e.ok = ok
  <1> DEFINE k == ctxs[c].op
             e == [ctx |-> c, kind |-> k, ok |-> ok]
             r == [ctxs[c] EXCEPT !.op = "none"]
  <1>1. /\ ctxs' = [ctxs EXCEPT ![c] = r] /\ events' = Append(events, e) /\ polls' = polls
    BY DEF Complete
  <1>2. r \in CtxType /\ r.op = "none" /\ r.method = ctxs[c].method
    <2>1. ctxs[c] \in CtxType
      BY CtxChanges
    <2> QED BY <2>1 DEF CtxType
  <1>3. e \in EventType /\ e.ctx = c /\ e.kind = k /\ e.ok = ok
    BY CtxChanges DEF EventType, Ctxs
  <1>4. k \in {"request", "finish"} /\ \A f \in ToSet(events) : f.ctx # c
    BY DEF ContextInv, OneEvent
  <1>5. k = ctxs[c].op
    OBVIOUS
  <1> HIDE DEF r, e, k
  <1>6. /\ Ctxs' = Ctxs /\ ctxs'[c] = r /\ \A d \in Ctxs : d # c => ctxs'[d] = ctxs[d]
    BY <1>1, <1>2, CtxChanges
  <1>7. ToSet(events') = ToSet(events) \cup {e}
    BY <1>1, <1>3, <1>4, EventChanges DEF ContextInv
  <1>8. \A d \in Ctxs, v \in Workers : Taken(v, d)' <=> Taken(v, d)
    BY <1>1 DEF Taken
  <1>9. \A v \in Workers, m \in Methods : HasRegistered(v, m)' <=> HasRegistered(v, m)
    BY <1>1 DEF HasRegistered
  <1>10. \A d \in Ctxs : Listens(d)' <=> Listens(d)
    BY <1>2, <1>3, <1>4, <1>5, <1>6, <1>7, <1>8 DEF Listens
  <1>11. \A d \in Ctxs : ctxs'[d].method = ctxs[d].method
    BY <1>2, <1>6
  <1> QED BY <1>3, <1>5, <1>6, <1>7, <1>9, <1>10, <1>11, ListeningKept

\* NextEvent: a request that was taken from the queue is now with the thread.
LEMMA NextEventListens ==
  ASSUME GrpcTypeOK, ContextInv, NEW w \in Workers, NextEvent(w),
         \A e \in ToSet(events) : e.kind = "request" => e.ok
  PROVE  /\ \A m \in Methods : /\ Listening(m)' = Listening(m)
                               /\ RegisteredFor(m)' = RegisteredFor(m)
         /\ \A e \in ToSet(events') : e \in ToSet(events)
  <1> DEFINE h == Head(events)
             p == [NotPolling EXCEPT !.pc = "proceed", !.event = h]
             x == [NotPolling EXCEPT !.pc = "ended"]
             r == IF ~h.ok /\ ~server_started THEN x ELSE p
  <1>1. /\ polls[w].pc = "next" /\ events # <<>> /\ events' = Tail(events)
        /\ polls' = [polls EXCEPT ![w] = r] /\ ctxs' = ctxs
    BY DEF NextEvent, GrpcTypeOK
  <1>2. /\ h \in EventType /\ h \in ToSet(events) /\ ToSet(events') = ToSet(events) \ {h}
        /\ \A f \in ToSet(events') : f.ctx # h.ctx
    BY <1>1, EventChanges DEF ContextInv
  <1> HIDE DEF h
  <1>3. /\ p \in PollType /\ p.pc = "proceed" /\ p.event = h /\ x \in PollType /\ x.pc = "ended"
    BY <1>2, NewPolls
  <1> HIDE DEF p, x
  <1>4. /\ r \in PollType /\ r.pc \in {"proceed", "ended"}
        /\ h.kind = "request" => r = p
        /\ r.pc = "proceed" => r = p
    BY <1>2, <1>3
  <1> HIDE DEF r
  <1>5. polls'[w] = r /\ \A v \in Workers : v # w => polls'[v] = polls[v]
    BY <1>1, <1>4, PollChanges
  <1>6. /\ \A d \in Ctxs, v \in Workers : v # w => (Taken(v, d)' <=> Taken(v, d))
        /\ \A d \in Ctxs : ~Taken(w, d)
        /\ \A d \in Ctxs : Taken(w, d)' <=> (h.kind = "request" /\ h.ctx = d)
    BY <1>1, <1>3, <1>4, <1>5 DEF Taken
  <1>7. \A v \in Workers, m \in Methods : HasRegistered(v, m)' <=> HasRegistered(v, m)
    BY <1>1, <1>4, <1>5 DEF HasRegistered
  <1>8. \A d \in Ctxs : Listens(d)' <=> Listens(d)
    BY <1>1, <1>2, <1>6 DEF Listens
  <1>9. Ctxs' = Ctxs /\ \A d \in Ctxs : ctxs'[d].method = ctxs[d].method
    BY <1>1 DEF Ctxs
  <1> QED BY <1>2, <1>7, <1>8, <1>9, ListeningKept

\* A new context listens, and the others as before.
LEMMA NewContextListens ==
  ASSUME GrpcTypeOK, NEW w \in Workers, NEW k \in Methods, NewContext(w, k),
         NEW n \in Nat, n = Len(ctxs) + 1
  PROVE  /\ Ctxs' = Ctxs \cup {n} /\ n \notin Ctxs
         /\ ctxs'[n].method = k /\ Listens(n)'
         /\ \A d \in Ctxs : ctxs'[d] = ctxs[d]
  <1> DEFINE r == [status |-> "CREATE", method |-> k, lock |-> w, op |-> "request"]
  <1>1. r \in CtxType /\ r.method = k /\ r.op = "request" /\ ctxs' = Append(ctxs, r)
    BY DEF NewContext, CtxType
  <1> HIDE DEF r
  <1>2. /\ Ctxs' = Ctxs \cup {n} /\ ctxs'[n] = r /\ n \notin Ctxs
        /\ \A d \in Ctxs : ctxs'[d] = ctxs[d]
    BY <1>1, CtxChanges
  <1> QED BY <1>1, <1>2 DEF Listens

\* RegisterRpcMethod: one more context, and one more thread, for its method.
LEMMA RegisterListens ==
  ASSUME GrpcTypeOK, ListensInv, NEW w \in Workers, RegisterRpcMethod(w)
  PROVE  \A m \in Methods : \E x \in {0, 1} :
           /\ Cardinality(Listening(m)') = Cardinality(Listening(m)) + x
           /\ Cardinality(RegisteredFor(m)') = Cardinality(RegisteredFor(m)) + x
  <1>1. PICK n : n = Len(ctxs) + 1
    OBVIOUS
  <1>2. PICK k : k = polls[w].method
    OBVIOUS
  <1> DEFINE r == [polls[w] EXCEPT !.pc = "registered", !.new = n]
  <1>3. n \in Nat /\ k \in Methods /\ polls[w] \in PollType
    BY <1>1, <1>2, CtxChanges DEF GrpcTypeOK, PollType
  <1>4. /\ polls[w].pc = "register" /\ NewContext(w, k) /\ events' = events
        /\ polls' = [polls EXCEPT ![w] = r]
    BY <1>1, <1>2 DEF RegisterRpcMethod, GrpcTypeOK
  <1>5. r \in PollType /\ r.pc = "registered" /\ r.method = k
    BY <1>2, <1>3 DEF PollType
  <1> HIDE DEF r
  <1>6. polls'[w] = r /\ \A v \in Workers : v # w => polls'[v] = polls[v]
    BY <1>4, <1>5, PollChanges
  <1>7. /\ Ctxs' = Ctxs \cup {n} /\ n \notin Ctxs /\ ctxs'[n].method = k /\ Listens(n)'
        /\ \A d \in Ctxs : ctxs'[d] = ctxs[d]
    BY <1>1, <1>3, <1>4, NewContextListens
  <1>8. \A v \in Workers, d \in Ctxs : Taken(v, d)' <=> Taken(v, d)
    BY <1>4, <1>5, <1>6 DEF Taken
  <1>9. \A d \in Ctxs : Listens(d)' <=> Listens(d)
    BY <1>4, <1>7, <1>8 DEF Listens
  <1>10. /\ \A v \in Workers, m \in Methods : v # w => (HasRegistered(v, m)' <=> HasRegistered(v, m))
         /\ \A m \in Methods : HasRegistered(w, m)' <=> (HasRegistered(w, m) \/ m = k)
         /\ ~HasRegistered(w, k)
    <2>1. \A m \in Methods : m \in Int
      BY DEF Methods
    <2> QED BY <1>2, <1>3, <1>4, <1>5, <1>6, <2>1 DEF HasRegistered
  <1>11. ASSUME NEW m \in Methods
         PROVE  \E x \in {0, 1} :
                  /\ Cardinality(Listening(m)') = Cardinality(Listening(m)) + x
                  /\ Cardinality(RegisteredFor(m)') = Cardinality(RegisteredFor(m)) + x
    <2>0. /\ IsFiniteSet(Listening(m)) /\ Cardinality(Listening(m)) \in Nat
          /\ IsFiniteSet(RegisteredFor(m)) /\ Cardinality(RegisteredFor(m)) \in Nat
      BY ListenersCounted DEF ListensInv
    <2>1. CASE m # k
      <3>1. Listening(m)' = Listening(m) /\ RegisteredFor(m)' = RegisteredFor(m)
        BY <1>7, <1>9, <1>10, <2>1 DEF Listening, RegisteredFor
      <3>2. /\ Cardinality(Listening(m)') = Cardinality(Listening(m)) + 0
            /\ Cardinality(RegisteredFor(m)') = Cardinality(RegisteredFor(m)) + 0
        BY <2>0, <3>1
      <3> QED BY <3>2
    <2>2. CASE m = k
      <3>1. /\ Listening(m)' = Listening(m) \cup {n} /\ n \notin Listening(m)
            /\ RegisteredFor(m)' = RegisteredFor(m) \cup {w} /\ w \notin RegisteredFor(m)
        BY <1>7, <1>9, <1>10, <2>2 DEF Listening, RegisteredFor
      <3>2. /\ Cardinality(Listening(m)') = Cardinality(Listening(m)) + 1
            /\ Cardinality(RegisteredFor(m)') = Cardinality(RegisteredFor(m)) + 1
        BY <2>0, <3>1, FS_AddElement
      <3> QED BY <3>2
    <2> QED BY <2>1, <2>2
  <1> QED BY <1>11

\* ReplaceContext: the new context listens in place of the old one.
LEMMA ReplaceListens ==
  ASSUME GrpcTypeOK, ContextInv, ListensInv, NEW w \in Workers, ReplaceContext(w)
  PROVE  \A m \in Methods : /\ Cardinality(Listening(m)') = Cardinality(Listening(m))
                            /\ RegisteredFor(m)' = RegisteredFor(m)
  <1>1. PICK n : n = Len(ctxs) + 1
    OBVIOUS
  <1>2. PICK c : c = polls[w].event.ctx
    OBVIOUS
  <1>3. PICK k : k = ctxs[c].method
    OBVIOUS
  <1> DEFINE r == [polls[w] EXCEPT !.pc = "replaced", !.new = n]
  <1>4. /\ polls[w].pc = "PROCESS" /\ NewContext(w, k) /\ events' = events
        /\ polls' = [polls EXCEPT ![w] = r]
    BY <1>1, <1>2, <1>3 DEF ReplaceContext, GrpcTypeOK
  <1>5. n \in Nat /\ polls[w] \in PollType /\ c \in Ctxs /\ polls[w].event.kind = "request"
    BY <1>1, <1>2, <1>4, CtxChanges DEF GrpcTypeOK, ContextInv, KnownContexts, EventMeetsStatus
  <1>6. k \in Methods
    BY <1>3, <1>5, CtxChanges, CtxFields
  <1>7. r \in PollType /\ r.pc = "replaced"
    BY <1>5 DEF PollType
  <1> HIDE DEF r
  <1>8. polls'[w] = r /\ \A v \in Workers : v # w => polls'[v] = polls[v]
    BY <1>4, <1>7, PollChanges
  <1>9. /\ Ctxs' = Ctxs \cup {n} /\ n \notin Ctxs /\ ctxs'[n].method = k /\ Listens(n)'
        /\ \A d \in Ctxs : ctxs'[d] = ctxs[d]
    BY <1>1, <1>4, <1>5, <1>6, NewContextListens
  <1>10. Taken(w, c) /\ HasEvent(w, c)
    BY <1>2, <1>4, <1>5 DEF Taken, HasEvent
  <1>11. /\ ctxs[c].op = "none" /\ \A e \in ToSet(events) : e.ctx # c
         /\ \A v \in Workers : v # w => ~Taken(v, c)
    <2>1. \A v \in Workers : Taken(v, c) => HasEvent(v, c)
      BY DEF Taken, HasEvent
    <2> QED BY <1>5, <1>10, <2>1 DEF ContextInv, OneEvent
  <1>12. /\ \A v \in Workers, d \in Ctxs : v # w => (Taken(v, d)' <=> Taken(v, d))
         /\ \A d \in Ctxs : ~Taken(w, d)' /\ (d # c => ~Taken(w, d))
    BY <1>2, <1>7, <1>8 DEF Taken
  <1>13. ~Listens(c)' /\ Listens(c) /\ \A d \in Ctxs : d # c => (Listens(d)' <=> Listens(d))
    BY <1>4, <1>5, <1>9, <1>10, <1>11, <1>12 DEF Listens
  <1>14. \A v \in Workers, m \in Methods : HasRegistered(v, m)' <=> HasRegistered(v, m)
    BY <1>4, <1>7, <1>8 DEF HasRegistered
  <1>15. ASSUME NEW m \in Methods
         PROVE  /\ Cardinality(Listening(m)') = Cardinality(Listening(m))
                /\ RegisteredFor(m)' = RegisteredFor(m)
    <2>0. RegisteredFor(m)' = RegisteredFor(m)
      BY <1>14 DEF RegisteredFor
    <2>1. CASE m # k
      <3>1. Listening(m)' = Listening(m)
        BY <1>3, <1>5, <1>9, <1>13, <2>1 DEF Listening
      <3> QED BY <2>0, <3>1
    <2>2. CASE m = k
      <3> DEFINE L == Listening(m)
                 K == L \ {c}
      <3>1. L' = K \cup {n} /\ n \notin K /\ c \in L
        BY <1>3, <1>5, <1>9, <1>13, <2>2 DEF Listening
      <3>2. IsFiniteSet(L) /\ Cardinality(L) \in Nat
        BY ListenersCounted DEF ListensInv
      <3> HIDE DEF L
      <3>3. IsFiniteSet(K) /\ Cardinality(K) = Cardinality(L) - 1
        BY <3>1, <3>2, FS_RemoveElement
      <3> HIDE DEF K
      <3>4. Cardinality(L') = Cardinality(K) + 1
        BY <3>1, <3>3, FS_AddElement
      <3>5. Cardinality(L') = Cardinality(L)
        BY <3>2, <3>3, <3>4
      <3> QED BY <2>0, <3>5 DEF L
    <2> QED BY <2>1, <2>2
  <1> QED BY <1>15

\* EndPolling: the thread returns, and its polling function is done for the first time.
LEMMA EndPollingListens ==
  ASSUME TypeOK, ThreadsInv, ItemsOnce, GrpcTypeOK, ListensInv, NEW w \in Workers, EndPolling(w)
  PROVE  /\ IsFiniteSet(done')
         /\ \A m \in Methods :
              /\ Listening(m)' = Listening(m)
              /\ Cardinality(done') + Cardinality(RegisteredFor(m)')
                   = Cardinality(done) + Cardinality(RegisteredFor(m))
  <1>1. /\ polls[w].pc = "ended" /\ polls' = [polls EXCEPT ![w] = NotPolling] /\ events' = events
        /\ ctxs' = ctxs /\ done' = done \cup {workers[w].item}
    BY DEF EndPolling, RunWork
  <1>2. workers[w].item \notin done /\ IsFiniteSet(done)
    BY DEF ItemsOnce, ListensInv
  <1>3. Cardinality(done') = Cardinality(done) + 1 /\ IsFiniteSet(done')
    BY <1>1, <1>2, FS_AddElement
  <1>4. polls'[w] = NotPolling /\ \A v \in Workers : v # w => polls'[v] = polls[v]
    BY <1>1, NewPolls, PollChanges
  <1>5. Ctxs' = Ctxs /\ \A d \in Ctxs : Listens(d)' <=> Listens(d)
    <2>1. \A v \in Workers, d \in Ctxs : Taken(v, d)' <=> Taken(v, d)
      <3>1. NotPolling.pc = "idle"
        BY NewPolls
      <3>2. \A v \in Workers : v = w => polls[v].pc = "ended" /\ polls'[v].pc = "idle"
        BY <1>1, <1>4, <3>1
      <3> QED BY <1>4, <3>2 DEF Taken
    <2> QED BY <1>1, <2>1 DEF Listens, Ctxs
  <1>6. ASSUME NEW m \in Methods
        PROVE  /\ Listening(m)' = Listening(m)
               /\ Cardinality(done') + Cardinality(RegisteredFor(m)')
                    = Cardinality(done) + Cardinality(RegisteredFor(m))
    <2>1. Listening(m)' = Listening(m)
      BY <1>1, <1>5 DEF Listening
    <2>2. RegisteredFor(m)' = RegisteredFor(m) \ {w} /\ w \in RegisteredFor(m)
      <3>1. ~HasRegistered(w, m)' /\ HasRegistered(w, m)
        BY <1>1, <1>4, NewPolls DEF HasRegistered
      <3>2. \A v \in Workers : v # w => (HasRegistered(v, m)' <=> HasRegistered(v, m))
        BY <1>4 DEF HasRegistered
      <3> QED BY <3>1, <3>2 DEF RegisteredFor
    <2>3. /\ IsFiniteSet(RegisteredFor(m)) /\ Cardinality(RegisteredFor(m)) \in Nat
          /\ Cardinality(done) \in Nat
      BY <1>2, ListenersCounted
    <2>4. Cardinality(RegisteredFor(m)') = Cardinality(RegisteredFor(m)) - 1
      BY <2>2, <2>3, FS_RemoveElement
    <2> QED BY <1>3, <2>1, <2>3, <2>4
  <1> QED BY <1>3, <1>6

\* The other steps of a polling thread change no request and nobody's registration.
LEMMA PollStepListens ==
  ASSUME GrpcTypeOK, ContextInv, EventMeetsStatus', ListensInv, NEW w \in Workers,
         \/ StartPolling(w) \/ MethodRegistered(w) \/ NextReturnsFalse(w) \/ LockContext(w)
         \/ ContextReplaced(w) \/ Serve(w) \/ Answered(w) \/ DeleteContext(w)
  PROVE  \A m \in Methods : Listening(m)' = Listening(m) /\ RegisteredFor(m)' = RegisteredFor(m)
  <1> DEFINE p == polls[w]
  <1>0. p \in PollType /\ p.method \in Methods /\ p.method \in Int /\ NumMethods \in Nat
    BY ServiceAssumption DEF GrpcTypeOK, PollType, Methods
  <1>m. \A m \in Methods : m \in Int /\ 1 <= m /\ m <= NumMethods
    BY <1>0 DEF Methods
  <1>1. ASSUME NEW r \in PollType, polls' = [polls EXCEPT ![w] = r], events' = events,
               Ctxs' = Ctxs,
               \A d \in Ctxs : /\ ctxs'[d].method = ctxs[d].method
                               /\ ctxs'[d].op = "request" <=> ctxs[d].op = "request",
               p.pc \notin {"proceed", "PROCESS"}, r.pc \notin {"proceed", "PROCESS"},
               \A m \in Methods : HasRegistered(w, m)' <=> HasRegistered(w, m)
        PROVE  \A m \in Methods : /\ Listening(m)' = Listening(m)
                                  /\ RegisteredFor(m)' = RegisteredFor(m)
    <2>1. polls'[w] = r
      BY <1>1, PollChanges
    <2>2. \A d \in Ctxs : Taken(w, d)' <=> Taken(w, d)
      BY <1>1, <2>1 DEF Taken
    <2> QED BY <1>1, <2>2, ThreadMovesOn
  <1>2. ASSUME NEW r \in PollType, polls' = [polls EXCEPT ![w] = r],
               p.pc \notin {"idle", "register", "registered"},
               r.pc \notin {"idle", "register", "registered"}
        PROVE  \A m \in Methods : HasRegistered(w, m)' <=> HasRegistered(w, m)
    <2>1. polls'[w] = r
      BY <1>2, PollChanges
    <2> QED BY <1>2, <2>1 DEF HasRegistered
  <1>3. CASE StartPolling(w)
    <2> DEFINE r == [p EXCEPT !.pc = "register"]
    <2>1. /\ p.pc = "idle" /\ ctxs' = ctxs /\ events' = events /\ polls' = [polls EXCEPT ![w] = r]
      BY <1>3 DEF StartPolling, GrpcTypeOK
    <2>2. r \in PollType /\ r.pc = "register" /\ r.method = p.method
      BY <1>0 DEF PollType
    <2> HIDE DEF r
    <2>3. r.method = 1 /\ polls'[w] = r
      BY <2>1, <2>2, PollChanges DEF ListensInv
    <2>4. \A m \in Methods : HasRegistered(w, m)' <=> HasRegistered(w, m)
      BY <1>m, <2>1, <2>2, <2>3 DEF HasRegistered
    <2> QED BY <1>1, <2>1, <2>2, <2>4 DEF Ctxs
  <1>4. CASE MethodRegistered(w)
    <2> DEFINE s == [NotPolling EXCEPT !.pc = "register", !.method = p.method + 1]
               r == IF p.method < NumMethods THEN s ELSE AtNext
    <2>1. /\ p.pc = "registered" /\ LeaveContext(p.new, "PROCESS") /\ events' = events
          /\ polls' = [polls EXCEPT ![w] = r]
      BY <1>4 DEF MethodRegistered, GrpcTypeOK
    <2>2. /\ r \in PollType
          /\ \/ p.method < NumMethods /\ r.pc = "register" /\ r.method = p.method + 1
             \/ p.method = NumMethods /\ r.pc = "next"
      <3>1. CASE p.method < NumMethods
        <4>1. p.method + 1 \in Methods
          BY <1>0, <3>1 DEF Methods
        <4>2. s \in PollType /\ s.pc = "register" /\ s.method = p.method + 1
          BY <4>1, NewPolls DEF NotPolling
        <4> QED BY <3>1, <4>2
      <3>2. CASE ~(p.method < NumMethods)
        <4>1. p.method = NumMethods
          BY <1>0, <1>m, <3>2
        <4> QED BY <3>2, <4>1, NewPolls
      <3> QED BY <3>1, <3>2
    <2> HIDE DEF r
    <2>3. polls'[w] = r
      BY <2>1, <2>2, PollChanges
    <2>4. \A m \in Methods : HasRegistered(w, m)' <=> HasRegistered(w, m)
      BY <1>0, <1>m, <2>1, <2>2, <2>3 DEF HasRegistered
    <2>5. /\ Ctxs' = Ctxs
          /\ \A d \in Ctxs : ctxs'[d].op = ctxs[d].op /\ ctxs'[d].method = ctxs[d].method
      <3>1. p.new \in Ctxs
        BY <2>1 DEF ContextInv, KnownContexts
      <3> QED BY <2>1, <3>1, OpsKept DEF LeaveContext
    <2> QED BY <1>1, <2>1, <2>2, <2>4, <2>5
  <1>5. CASE NextReturnsFalse(w)
    <2> DEFINE r == [p EXCEPT !.pc = "ended"]
    <2>1. /\ p.pc = "next" /\ ctxs' = ctxs /\ events' = events /\ polls' = [polls EXCEPT ![w] = r]
      BY <1>5 DEF NextReturnsFalse, GrpcTypeOK
    <2>2. r \in PollType /\ r.pc = "ended"
      BY <1>0 DEF PollType
    <2> HIDE DEF r
    <2> QED BY <1>1, <1>2, <2>1, <2>2 DEF Ctxs
  <1>6. CASE LockContext(w)
    <2>1. PICK c : c = p.event.ctx
      OBVIOUS
    <2>2. PICK st : st = ctxs[c].status
      OBVIOUS
    <2> DEFINE r == [p EXCEPT !.pc = st]
    <2>3. /\ p.pc = "proceed" /\ events' = events /\ polls' = [polls EXCEPT ![w] = r]
          /\ ctxs' = [ctxs EXCEPT ![c].lock = w]
      BY <1>6, <2>1, <2>2 DEF LockContext, GrpcTypeOK
    <2>4. c \in Ctxs /\ p.event.kind # "none"
      BY <2>1, <2>3 DEF ContextInv, KnownContexts
    <2>5. st \in {"CREATE", "PROCESS", "FINISH", "deleted", "drained"}
      BY <2>2, <2>4, CtxChanges, CtxFields
    <2>6. r \in PollType /\ r.pc = st /\ r.event = p.event
      BY <1>0, <2>5 DEF PollType
    <2> HIDE DEF r
    <2>7. polls'[w] = r
      BY <2>3, <2>6, PollChanges
    <2>8. \/ st = "PROCESS" /\ p.event.kind = "request"
          \/ st = "FINISH" /\ p.event.kind = "finish"
      BY <2>5, <2>6, <2>7 DEF EventMeetsStatus
    <2>9. \A d \in Ctxs : Taken(w, d)' <=> Taken(w, d)
      BY <2>3, <2>6, <2>7, <2>8 DEF Taken
    <2>10. \A m \in Methods : HasRegistered(w, m)' <=> HasRegistered(w, m)
      BY <1>2, <2>3, <2>6, <2>8
    <2>11. /\ Ctxs' = Ctxs
           /\ \A d \in Ctxs : ctxs'[d].op = ctxs[d].op /\ ctxs'[d].method = ctxs[d].method
      BY <2>3, <2>4, OpsKept
    <2> QED BY <2>3, <2>6, <2>9, <2>10, <2>11, ThreadMovesOn
  <1>7. CASE ContextReplaced(w)
    <2>1. PICK x : x = IF p.event.ok THEN "serve" ELSE "FINISH"
      OBVIOUS
    <2> DEFINE r == [p EXCEPT !.pc = x]
    <2>2. /\ p.pc = "replaced" /\ LeaveContext(p.new, "PROCESS") /\ events' = events
          /\ polls' = [polls EXCEPT ![w] = r]
      BY <1>7, <2>1 DEF ContextReplaced, GrpcTypeOK
    <2>3. x \in {"serve", "FINISH"}
      BY <2>1
    <2>4. r \in PollType /\ r.pc = x
      BY <1>0, <2>3 DEF PollType
    <2> HIDE DEF r
    <2>5. /\ Ctxs' = Ctxs
          /\ \A d \in Ctxs : ctxs'[d].op = ctxs[d].op /\ ctxs'[d].method = ctxs[d].method
      <3>1. p.new \in Ctxs
        BY <2>2 DEF ContextInv, KnownContexts
      <3> QED BY <2>2, <3>1, OpsKept DEF LeaveContext
    <2> QED BY <1>1, <1>2, <2>2, <2>3, <2>4, <2>5
  <1>8. CASE Serve(w)
    <2>1. PICK c : c = p.event.ctx
      OBVIOUS
    <2> DEFINE r == [p EXCEPT !.pc = "answered"]
               x == [ctxs[c] EXCEPT !.op = "finish"]
    <2>2. /\ p.pc = "serve" /\ events' = events /\ polls' = [polls EXCEPT ![w] = r]
          /\ ctxs' = [ctxs EXCEPT ![c] = x]
      BY <1>8, <2>1 DEF Serve, GrpcTypeOK
    <2>3. c \in Ctxs /\ HasEvent(w, c)
      BY <2>1, <2>2 DEF ContextInv, KnownContexts, HasEvent
    <2>4. ctxs[c].op = "none" /\ ctxs[c] \in CtxType
      BY <2>3, CtxChanges DEF ContextInv, OneEvent
    <2>5. x \in CtxType /\ x.op = "finish" /\ x.method = ctxs[c].method
      BY <2>4 DEF CtxType
    <2>6. r \in PollType /\ r.pc = "answered"
      BY <1>0 DEF PollType
    <2> HIDE DEF r, x
    <2>7. Ctxs' = Ctxs /\ ctxs'[c] = x /\ \A d \in Ctxs : d # c => ctxs'[d] = ctxs[d]
      BY <2>2, <2>3, <2>5, CtxChanges
    <2>8. \A d \in Ctxs : /\ ctxs'[d].method = ctxs[d].method
                          /\ ctxs'[d].op = "request" <=> ctxs[d].op = "request"
      BY <2>4, <2>5, <2>7
    <2> QED BY <1>1, <1>2, <2>2, <2>6, <2>7, <2>8
  <1>9. CASE Answered(w) \/ DeleteContext(w)
    <2>1. /\ events' = events /\ polls' = [polls EXCEPT ![w] = AtNext]
          /\ p.pc \in {"answered", "FINISH"}
          /\ \/ LeaveContext(p.event.ctx, "FINISH")
             \/ ctxs' = [ctxs EXCEPT ![p.event.ctx].status = "deleted",
                                     ![p.event.ctx].lock = Null]
      BY <1>9 DEF Answered, DeleteContext
    <2>2. p.event.ctx \in Ctxs
      BY <2>1 DEF ContextInv, KnownContexts
    <2>3. /\ Ctxs' = Ctxs
          /\ \A d \in Ctxs : ctxs'[d].op = ctxs[d].op /\ ctxs'[d].method = ctxs[d].method
      BY <2>1, <2>2, OpsKept DEF LeaveContext
    <2> QED BY <1>1, <1>2, <2>1, <2>3, NewPolls
  <1> QED BY <1>3, <1>4, <1>5, <1>6, <1>7, <1>8, <1>9

\* ListensInv is kept by every step.
LEMMA ListensNext ==
  ASSUME TypeOK, ThreadsInv, ItemsOnce, GrpcTypeOK, ContextInv, ServiceInv, EventMeetsStatus',
         ListensInv, [GrpcNext]_allVars
  PROVE  ListensInv'
  <1>0. /\ IsFiniteSet(done) /\ Cardinality(done) \in Nat
        /\ \A m \in Methods : /\ Cardinality(Listening(m)) \in Nat
                              /\ Cardinality(RegisteredFor(m)) \in Nat
    BY ListenersCounted DEF ListensInv
  <1> DEFINE Counts == \A m \in Methods :
               Cardinality(Listening(m)) = Cardinality(done) + Cardinality(RegisteredFor(m))
             Oks == \A e \in ToSet(events) : e.kind = "request" => e.ok
             Kept == /\ done' = done
                     /\ \A m \in Methods : /\ Listening(m)' = Listening(m)
                                           /\ RegisteredFor(m)' = RegisteredFor(m)
             Idle == \A v \in Workers : polls[v].pc = "idle" => polls[v].method = 1
  <1>h. /\ IsFiniteSet(done) /\ Idle /\ (server # "down" => Oks /\ Counts)
    BY DEF ListensInv
  <1>i. IsFiniteSet(done') /\ Idle' /\ (server' # "down" => Oks' /\ Counts') => ListensInv'
    BY DEF ListensInv
  <1>k. Kept => IsFiniteSet(done') /\ (Counts => Counts')
    BY <1>0
  <1> HIDE DEF Counts, Kept, Oks
  <1>1. \A w \in Workers, r \in PollType :
          polls' = [polls EXCEPT ![w] = r] /\ r.pc # "idle" => Idle'
    <2> SUFFICES ASSUME NEW w \in Workers, NEW r \in PollType,
                        polls' = [polls EXCEPT ![w] = r], r.pc # "idle"
                 PROVE  Idle'
      OBVIOUS
    <2>1. polls'[w] = r /\ \A v \in Workers : v # w => polls'[v] = polls[v]
      BY PollChanges
    <2> QED BY <1>h, <2>1
  <1>s. ASSUME ctxs' = ctxs, events' = events, polls' = polls, done' = done,
               server' # "down" => server # "down"
        PROVE  ListensInv'
    <2>1. /\ Ctxs' = Ctxs
          /\ \A v \in Workers : \A d : Taken(v, d)' <=> Taken(v, d)
          /\ \A v \in Workers, m \in Methods : HasRegistered(v, m)' <=> HasRegistered(v, m)
      BY <1>s DEF Ctxs, Taken, HasRegistered
    <2>2. \A d \in Ctxs : ctxs'[d].method = ctxs[d].method /\ (Listens(d)' <=> Listens(d))
      BY <1>s, <2>1 DEF Listens
    <2>3. Kept
      BY <1>s, <2>1, <2>2, ListeningKept DEF Kept
    <2>4. Idle' /\ (Oks => Oks')
      BY <1>h, <1>s DEF Oks
    <2> QED BY <1>h, <1>i, <1>k, <1>s, <2>3, <2>4
  <1>2. CASE UNCHANGED allVars
    BY <1>2, <1>s DEF allVars, poolVars, grpcVars
  <1>3. ASSUME NEW c \in Ctxs, NEW ok \in BOOLEAN,
               \/ RpcArrives(c) \/ AnswerSent(c, ok) \/ RequestFails(c)
        PROVE  ListensInv'
    <2>1. PICK b \in BOOLEAN :
            /\ Complete(c, b) /\ ctxs[c].op \in {"request", "finish"}
            /\ server # "down" /\ ctxs[c].op = "request" => b
      BY <1>3 DEF RpcArrives, AnswerSent, RequestFails
    <2>2. polls' = polls /\ server' = server /\ done' = done
      BY <2>1 DEF Complete, poolVars
    <2>3. /\ \A m \in Methods : /\ Listening(m)' = Listening(m)
                                /\ RegisteredFor(m)' = RegisteredFor(m)
          /\ \A e \in ToSet(events') : \/ e \in ToSet(events)
                                       \/ e.kind = ctxs[c].op /\ e.ok = b
      BY <2>1, CompleteListens
    <2>4. Kept /\ Idle'
      BY <1>h, <2>2, <2>3 DEF Kept
    <2>5. server # "down" /\ Oks => Oks'
      BY <2>1, <2>3 DEF Oks
    <2> QED BY <1>h, <1>i, <1>k, <2>2, <2>4, <2>5
  <1>4. ASSUME NEW w \in Workers, PollStep(w) PROVE ListensInv'
    <2>0. polls[w] \in PollType
      BY DEF GrpcTypeOK
    <2>1. CASE \/ StartPolling(w) \/ MethodRegistered(w) \/ NextReturnsFalse(w) \/ LockContext(w)
               \/ ContextReplaced(w) \/ Serve(w) \/ Answered(w) \/ DeleteContext(w)
      <3>1. events' = events /\ server' = server /\ done' = done
        BY <2>1 DEF StartPolling, MethodRegistered, NextReturnsFalse, LockContext,
             ContextReplaced, Serve, Answered, DeleteContext, poolVars
      <3>2. Kept
        BY <2>1, <3>1, PollStepListens DEF Kept
      <3>3. Oks => Oks'
        BY <3>1 DEF Oks
      <3>4. \A v \in Workers : polls'[v].pc = "idle" => polls'[v] = polls[v]
        <4>1. ASSUME NEW r, polls' = [polls EXCEPT ![w] = r], r.pc # "idle"
              PROVE  \A v \in Workers : polls'[v].pc = "idle" => polls'[v] = polls[v]
          BY <4>1 DEF GrpcTypeOK
        <4>2. CASE StartPolling(w) \/ NextReturnsFalse(w) \/ Serve(w)
          <5>1. PICK x \in {"register", "ended", "answered"} :
                  polls' = [polls EXCEPT ![w] = [polls[w] EXCEPT !.pc = x]]
            BY <4>2 DEF StartPolling, NextReturnsFalse, Serve, GrpcTypeOK
          <5>2. [polls[w] EXCEPT !.pc = x].pc = x
            BY <2>0 DEF PollType
          <5> QED BY <4>1, <5>1, <5>2
        <4>3. CASE MethodRegistered(w)
          <5> DEFINE s == [NotPolling EXCEPT !.pc = "register", !.method = polls[w].method + 1]
                     r == IF polls[w].method < NumMethods THEN s ELSE AtNext
          <5>1. polls' = [polls EXCEPT ![w] = r]
            BY <4>3 DEF MethodRegistered, GrpcTypeOK
          <5>2. s.pc = "register" /\ AtNext.pc = "next"
            BY DEF NotPolling, AtNext
          <5>3. r.pc # "idle"
            BY <5>2
          <5> HIDE DEF r
          <5> QED BY <4>1, <5>1, <5>3
        <4>4. CASE LockContext(w)
          <5>1. PICK c : c = polls[w].event.ctx
            OBVIOUS
          <5>2. polls' = [polls EXCEPT ![w] = [polls[w] EXCEPT !.pc = ctxs[c].status]]
            BY <4>4, <5>1 DEF LockContext, GrpcTypeOK
          <5>3. ctxs[c].status # "idle"
            <6>1. c \in Ctxs
              BY <4>4, <5>1 DEF LockContext, ContextInv, KnownContexts
            <6>2. ctxs[c] \in CtxType
              BY <6>1, CtxChanges
            <6> QED BY <6>2 DEF CtxType
          <5>4. [polls[w] EXCEPT !.pc = ctxs[c].status].pc = ctxs[c].status
            BY <2>0 DEF PollType
          <5> QED BY <4>1, <5>2, <5>3, <5>4
        <4>5. CASE ContextReplaced(w)
          <5>1. PICK x : x = IF polls[w].event.ok THEN "serve" ELSE "FINISH"
            OBVIOUS
          <5>2. polls' = [polls EXCEPT ![w] = [polls[w] EXCEPT !.pc = x]]
            BY <4>5, <5>1 DEF ContextReplaced, GrpcTypeOK
          <5>3. [polls[w] EXCEPT !.pc = x].pc = x
            BY <2>0 DEF PollType
          <5> QED BY <4>1, <5>1, <5>2, <5>3
        <4>6. CASE Answered(w) \/ DeleteContext(w)
          BY <4>1, <4>6, NewPolls DEF Answered, DeleteContext
        <4> QED BY <2>1, <4>2, <4>3, <4>4, <4>5, <4>6
      <3>5. Idle'
        BY <1>h, <3>4
      <3> QED BY <1>h, <1>i, <1>k, <3>1, <3>2, <3>3, <3>5
    <2>2. CASE RegisterRpcMethod(w)
      <3> DEFINE r == [polls[w] EXCEPT !.pc = "registered", !.new = Len(ctxs) + 1]
      <3>1. /\ events' = events /\ server' = server /\ done' = done
            /\ polls' = [polls EXCEPT ![w] = r]
        BY <2>2 DEF RegisterRpcMethod, poolVars, GrpcTypeOK
      <3>2. r \in PollType /\ r.pc # "idle"
        <4>1. Len(ctxs) + 1 \in Nat
          BY CtxChanges
        <4> QED BY <2>0, <4>1 DEF PollType
      <3> HIDE DEF r
      <3>3. Idle' /\ (Oks => Oks')
        BY <1>1, <3>1, <3>2 DEF Oks
      <3>4. ASSUME NEW m \in Methods,
                   Cardinality(Listening(m)) = Cardinality(done) + Cardinality(RegisteredFor(m))
            PROVE  Cardinality(Listening(m)') = Cardinality(done') + Cardinality(RegisteredFor(m)')
        <4>1. PICK x \in {0, 1} :
                /\ Cardinality(Listening(m)') = Cardinality(Listening(m)) + x
                /\ Cardinality(RegisteredFor(m)') = Cardinality(RegisteredFor(m)) + x
          BY <2>2, RegisterListens
        <4> QED BY <1>0, <3>1, <3>4, <4>1
      <3>5. Counts => Counts'
        BY <3>4 DEF Counts
      <3> QED BY <1>0, <1>h, <1>i, <3>1, <3>3, <3>5
    <2>3. CASE ReplaceContext(w)
      <3> DEFINE r == [polls[w] EXCEPT !.pc = "replaced", !.new = Len(ctxs) + 1]
      <3>1. /\ events' = events /\ server' = server /\ done' = done
            /\ polls' = [polls EXCEPT ![w] = r]
        BY <2>3 DEF ReplaceContext, poolVars, GrpcTypeOK
      <3>2. r \in PollType /\ r.pc # "idle"
        <4>1. Len(ctxs) + 1 \in Nat
          BY CtxChanges
        <4> QED BY <2>0, <4>1 DEF PollType
      <3> HIDE DEF r
      <3>3. Idle' /\ (Oks => Oks')
        BY <1>1, <3>1, <3>2 DEF Oks
      <3>4. Counts => Counts'
        BY <2>3, <3>1, ReplaceListens DEF Counts
      <3> QED BY <1>0, <1>h, <1>i, <3>1, <3>3, <3>4
    <2>4. CASE NextEvent(w)
      <3>1. server' = server /\ done' = done
        BY <2>4 DEF NextEvent, poolVars
      <3>2. Oks => Kept /\ Oks'
        <4> HAVE Oks
        <4>1. /\ \A m \in Methods : /\ Listening(m)' = Listening(m)
                                    /\ RegisteredFor(m)' = RegisteredFor(m)
              /\ \A e \in ToSet(events') : e \in ToSet(events)
          BY <2>4, NextEventListens DEF Oks
        <4> QED BY <3>1, <4>1 DEF Kept, Oks
      <3>3. Idle'
        <4>1. \/ polls' = [polls EXCEPT ![w] = [NotPolling EXCEPT !.pc = "ended"]]
              \/ polls' = [polls EXCEPT ![w] = [NotPolling EXCEPT !.pc = "proceed",
                                                               !.event = Head(events)]]
          BY <2>4 DEF NextEvent, GrpcTypeOK
        <4>2. Head(events) \in EventType
          BY <2>4, EventChanges DEF NextEvent, ContextInv
        <4> QED BY <1>1, <4>1, <4>2, NewPolls
      <3> QED BY <1>0, <1>h, <1>i, <1>k, <3>1, <3>2, <3>3
    <2>5. CASE EndPolling(w)
      <3>1. /\ events' = events /\ server' = server /\ polls' = [polls EXCEPT ![w] = NotPolling]
        BY <2>5 DEF EndPolling
      <3>2. /\ IsFiniteSet(done')
            /\ \A m \in Methods :
                 /\ Listening(m)' = Listening(m)
                 /\ Cardinality(done') + Cardinality(RegisteredFor(m)')
                      = Cardinality(done) + Cardinality(RegisteredFor(m))
        BY <2>5, EndPollingListens
      <3>3. Idle'
        <4>1. polls'[w] = NotPolling /\ \A v \in Workers : v # w => polls'[v] = polls[v]
          BY <3>1, NewPolls, PollChanges
        <4>2. NotPolling.method = 1
          BY DEF NotPolling
        <4> QED BY <1>h, <4>1, <4>2
      <3>4. (Oks => Oks') /\ (Counts => Counts')
        BY <3>1, <3>2 DEF Oks, Counts
      <3> QED BY <1>h, <1>i, <3>1, <3>2, <3>3, <3>4
    <2>6. CASE (WaitForWork(w) \/ TakeWork(w)) /\ UNCHANGED grpcVars
      BY <1>s, <2>6 DEF WaitForWork, TakeWork, grpcVars
    <2> QED BY <1>4, <2>1, <2>2, <2>3, <2>4, <2>5, <2>6 DEF PollStep
  <1>5. CASE Drain
    <2>1. server = "down" /\ server' = server /\ done' = done /\ polls' = polls
      BY <1>5 DEF Drain, ServiceInv, poolVars
    <2>2. Idle'
      BY <1>h, <2>1
    <2> QED BY <1>0, <1>i, <2>1, <2>2
  <1>6. CASE \/ Construct \/ StartServer \/ QueuePoller \/ Started \/ StopServer
             \/ ServerShutdown \/ CqShutdown
             \/ \E i \in Items : PostPoller(i)
             \/ \E c \in Cleaners : Drained(c) \/ CleanUp(c) \/ DestroyCq(c)
    <2>1. /\ ctxs' = ctxs /\ events' = events /\ polls' = polls
      BY <1>6 DEF Construct, StartServer, QueuePoller, Started, StopServer, ServerShutdown,
           CqShutdown, PostPoller, Drained, CleanUp, DestroyCq, grpcVars
    <2>2. done' = done
      BY <1>6 DEF Construct, StartServer, QueuePoller, Started, StopServer, ServerShutdown,
           CqShutdown, PostPoller, Drained, CleanUp, DestroyCq, poolVars, StartWorkers, QueueWork,
           PostWork, WaitAndCleanUp, CleanerStep, PushPill, PostPill, JoinWorkers
    <2>3. server' # "down" => server # "down"
      BY <1>6 DEF Construct, StartServer, QueuePoller, Started, StopServer, ServerShutdown,
           CqShutdown, PostPoller, Drained, CleanUp, DestroyCq, grpcVars, ServiceInv
    <2> QED BY <1>s, <2>1, <2>2, <2>3
  <1> QED BY <1>2, <1>3, <1>4, <1>5, <1>6 DEF GrpcNext, MainStep, RuntimeStep

\* Before the constructor runs nothing listens and nobody has registered.
LEMMA ListensInit ==
  ASSUME GrpcInit
  PROVE  ListensInv
  <1>1. ctxs = <<>> /\ events = <<>> /\ done = {} /\ \A w \in Workers : polls[w] = NotPolling
    BY DEF GrpcInit, PoolInit
  <1>2. Ctxs = {} /\ ToSet(events) = {}
    BY <1>1 DEF Ctxs, ToSet
  <1>3. \A w \in Workers : polls[w].pc = "idle" /\ polls[w].method = 1
    BY <1>1 DEF NotPolling
  <1>4. \A m \in Methods : Listening(m) = {} /\ RegisteredFor(m) = {}
    BY <1>2, <1>3 DEF Listening, RegisteredFor, HasRegistered
  <1>5. IsFiniteSet(done) /\ Cardinality(done) = 0 /\ Cardinality({}) = 0
    BY <1>1, FS_EmptySet
  <1>6. \A m \in Methods :
          Cardinality(Listening(m)) = Cardinality(done) + Cardinality(RegisteredFor(m))
    BY <1>4, <1>5
  <1> QED BY <1>2, <1>3, <1>5, <1>6 DEF ListensInv

\* For every number of threads, methods and RPCs: while the server is up, as many contexts
\* listen to a method as threads have registered it, those that are done registering
\* included. An RPC that is answered, or that failed, takes none away for good.
THEOREM EveryMethodListensHolds == GrpcSpec => []EveryMethodListens
  <1>1. GrpcInit => ListensInv
    BY ListensInit
  <1>2. /\ (TypeOK /\ ThreadsInv /\ GrpcTypeOK /\ GrpcInv) /\ GrpcInv' /\ ItemsOnce
        /\ ListensInv /\ [GrpcNext]_allVars
        => ListensInv'
    BY ListensNext DEF GrpcInv, ContextInv
  <1>3. ListensInv => EveryMethodListens
    BY DEF ListensInv, EveryMethodListens
  <1> QED BY <1>1, <1>2, <1>3, GrpcInvariant, PoolRefined, ItemsRunOnce, PTL DEF GrpcSpec

=============================================================================
