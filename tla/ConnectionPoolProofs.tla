------------------------ MODULE ConnectionPoolProofs -------------------------
(***************************************************************************)
(* For any threads, tasks, entries, connections and bounds: TypeOK, and    *)
(* with careful clients PoolInv and what follows from it.                  *)
(***************************************************************************)
EXTENDS ConnectionPool, FiniteSetTheorems, SequenceTheorems, TLAPS

\* Erasing one position of a list without duplicates removes just its element.
LEMMA RemoveAtProperties ==
  ASSUME NEW S, NEW s \in Seq(S), NEW i \in 1..Len(s)
  PROVE  /\ RemoveAt(s, i) \in Seq(S)
         /\ IsInjective(s) => /\ ToSet(RemoveAt(s, i)) = ToSet(s) \ {s[i]}
                              /\ IsInjective(RemoveAt(s, i))
  <1> DEFINE a == SubSeq(s, 1, i - 1)
             b == SubSeq(s, i + 1, Len(s))
             r == a \o b
  <1>0. Len(s) \in Nat /\ s \in [1..Len(s) -> S] /\ DOMAIN s = 1..Len(s)
    BY LenProperties
  <1>1. /\ a \in Seq(S) /\ Len(a) = i - 1
        /\ \A j \in 1..(i - 1) : a[j] = s[j]
    <2>1. \A j \in 1..(i - 1) : s[j] \in S
      BY <1>0
    <2> QED BY <1>0, <2>1, SubSeqProperties
  <1>2. /\ b \in Seq(S) /\ Len(b) = Len(s) - i
        /\ \A j \in 1..(Len(s) - i) : b[j] = s[i + j]
    <2>1. \A j \in (i + 1)..Len(s) : s[j] \in S
      BY <1>0
    <2>2. /\ b \in Seq(S)
          /\ Len(b) = IF i + 1 <= Len(s) THEN Len(s) - (i + 1) + 1 ELSE 0
          /\ \A j \in 1..(Len(s) - (i + 1) + 1) : b[j] = s[(i + 1) + j - 1]
      BY <1>0, <2>1, SubSeqProperties
    <2> HIDE DEF b
    <2>3. Len(b) = Len(s) - i
      <3>1. i \in Nat /\ i <= Len(s)
        BY <1>0
      <3>2. CASE i + 1 <= Len(s)
        BY <1>0, <2>2, <3>1, <3>2
      <3>3. CASE ~(i + 1 <= Len(s))
        <4>1. i = Len(s)
          <5>1. \A m, n \in Nat : m <= n /\ ~(m + 1 <= n) => m = n
            OBVIOUS
          <5> QED BY <1>0, <3>1, <3>3, <5>1
        <4>2. Len(b) = 0
          BY <2>2, <3>3
        <4> QED BY <1>0, <4>1, <4>2
      <3> QED BY <3>2, <3>3
    <2>4. ASSUME NEW j \in 1..(Len(s) - i) PROVE b[j] = s[i + j]
      <3>1. j \in 1..(Len(s) - (i + 1) + 1) /\ (i + 1) + j - 1 = i + j
        BY <1>0
      <3> QED BY <2>2, <3>1
    <2> QED BY <2>2, <2>3, <2>4
  <1> HIDE DEF a, b
  <1>3. /\ r \in Seq(S) /\ Len(r) = Len(s) - 1
        /\ \A j \in 1..(Len(s) - 1) : r[j] = IF j < i THEN s[j] ELSE s[j + 1]
    <2>1. /\ r \in Seq(S) /\ Len(r) = Len(a) + Len(b)
          /\ \A j \in 1..(Len(a) + Len(b)) :
               r[j] = IF j <= Len(a) THEN a[j] ELSE b[j - Len(a)]
      BY <1>1, <1>2, ConcatProperties
    <2> HIDE DEF r
    <2>2. Len(a) + Len(b) = Len(s) - 1
      BY <1>0, <1>1, <1>2
    <2>3. ASSUME NEW j \in 1..(Len(s) - 1) PROVE r[j] = IF j < i THEN s[j] ELSE s[j + 1]
      <3>1. CASE j < i
        <4>1. j \in 1..(Len(a) + Len(b)) /\ j <= Len(a) /\ j \in 1..(i - 1)
          BY <1>0, <1>1, <2>2, <3>1
        <4>2. r[j] = a[j]
          BY <2>1, <4>1
        <4> QED BY <1>1, <3>1, <4>1, <4>2
      <3>2. CASE ~(j < i)
        <4>1. r[j] = b[j - Len(a)]
          BY <1>0, <1>1, <2>1, <2>2, <3>2
        <4>2. j - Len(a) \in 1..(Len(s) - i) /\ i + (j - Len(a)) = j + 1
          BY <1>0, <1>1, <3>2
        <4> QED BY <1>2, <3>2, <4>1, <4>2
      <3> QED BY <3>1, <3>2
    <2> QED BY <2>1, <2>2, <2>3
  <1>4. DOMAIN r = 1..(Len(s) - 1)
    BY <1>3, LenProperties
  <1> HIDE DEF r
  <1>5. ASSUME IsInjective(s) PROVE ToSet(r) = ToSet(s) \ {s[i]}
    <2>1. ASSUME NEW x \in ToSet(r) PROVE x \in ToSet(s) \ {s[i]}
      <3>1. PICK j \in 1..(Len(s) - 1) : x = r[j]
        BY <1>4 DEF ToSet
      <3>2. PICK m \in 1..Len(s) : m # i /\ x = s[m]
        BY <1>0, <1>3, <3>1
      <3> QED BY <1>0, <1>5, <3>2 DEF ToSet, IsInjective
    <2>2. ASSUME NEW x \in ToSet(s) \ {s[i]} PROVE x \in ToSet(r)
      <3>1. PICK m \in 1..Len(s) : m # i /\ x = s[m]
        BY <1>0 DEF ToSet
      <3>2. PICK j \in 1..(Len(s) - 1) : x = r[j]
        <4>1. CASE m < i
          BY <1>0, <1>3, <3>1, <4>1
        <4>2. CASE m > i
          <5>1. m - 1 \in 1..(Len(s) - 1) /\ r[m - 1] = x
            BY <1>0, <1>3, <3>1, <4>2
          <5> QED BY <5>1
        <4> QED BY <3>1, <4>1, <4>2
      <3> QED BY <1>4, <3>2 DEF ToSet
    <2> QED BY <2>1, <2>2
  <1>6. ASSUME IsInjective(s) PROVE IsInjective(r)
    <2> DEFINE pos(j) == IF j < i THEN j ELSE j + 1
    <2>1. \A j \in 1..(Len(s) - 1) : pos(j) \in DOMAIN s /\ r[j] = s[pos(j)]
      BY <1>0, <1>3
    <2>2. \A j, m \in 1..(Len(s) - 1) : pos(j) = pos(m) => j = m
      BY <1>0
    <2> HIDE DEF pos
    <2> QED BY <1>4, <1>6, <2>1, <2>2 DEF IsInjective
  <1>7. r = RemoveAt(s, i)
    BY DEF r, a, b, RemoveAt
  <1> QED BY <1>3, <1>5, <1>6, <1>7

\* Appending a new element.
LEMMA AppendProps ==
  ASSUME NEW S, NEW s \in Seq(S), NEW x \in S
  PROVE  /\ Append(s, x) \in Seq(S)
         /\ ToSet(Append(s, x)) = ToSet(s) \cup {x}
         /\ IsInjective(s) /\ x \notin ToSet(s) => IsInjective(Append(s, x))
  <1> DEFINE r == Append(s, x)
  <1>1. /\ r \in Seq(S) /\ Len(r) = Len(s) + 1 /\ r[Len(s) + 1] = x
        /\ \A i \in 1..Len(s) : r[i] = s[i]
    BY AppendProperties
  <1> HIDE DEF r
  <1>2. Len(s) \in Nat /\ DOMAIN s = 1..Len(s) /\ DOMAIN r = 1..(Len(s) + 1)
    BY <1>1, LenProperties
  <1>3. \A i \in DOMAIN r : i \in DOMAIN s \/ i = Len(s) + 1
    BY <1>2
  <1>4. DOMAIN s \subseteq DOMAIN r /\ Len(s) + 1 \in DOMAIN r
    BY <1>2
  <1>5. ToSet(r) = ToSet(s) \cup {x}
    BY <1>1, <1>2, <1>3, <1>4 DEF ToSet
  <1>6. ASSUME IsInjective(s), x \notin ToSet(s) PROVE IsInjective(r)
    BY <1>1, <1>2, <1>3, <1>6 DEF ToSet, IsInjective
  <1> QED BY <1>1, <1>5, <1>6 DEF r

\* Without keeps what is not in A, and no duplicates appear.
LEMMA WithoutProperties ==
  ASSUME NEW S, NEW s \in Seq(S), NEW A
  PROVE  /\ Without(s, A) \in Seq(S)
         /\ ToSet(Without(s, A)) = ToSet(s) \ A
         /\ IsInjective(s) => IsInjective(Without(s, A))
  <1> DEFINE keep == {i \in DOMAIN s : s[i] \notin A}
             upto(i) == {j \in keep : j <= i}
             rank(i) == Cardinality(upto(i))
             N == Cardinality(keep)
             at(n) == CHOOSE i \in keep : rank(i) = n
             r == [n \in 1..N |-> s[at(n)]]
             R == [i \in keep |-> rank(i)]
  <1>0. Len(s) \in Nat /\ s \in [1..Len(s) -> S] /\ DOMAIN s = 1..Len(s)
    BY LenProperties
  <1>1. keep \subseteq Nat /\ IsFiniteSet(keep) /\ N \in Nat
    <2>1. IsFiniteSet(1..Len(s))
      BY <1>0, FS_Interval
    <2>2. keep \in SUBSET (1..Len(s))
      BY <1>0
    <2>3. IsFiniteSet(keep)
      BY <2>1, <2>2, FS_Subset
    <2> QED BY <1>0, <2>2, <2>3, FS_CardinalityType
  <1> HIDE DEF keep
  <1>2. ASSUME NEW i \in keep PROVE rank(i) \in 1..N /\ IsFiniteSet(upto(i))
    <2>1. upto(i) \in SUBSET keep /\ i \in upto(i)
      BY <1>1
    <2>2. IsFiniteSet(upto(i)) /\ rank(i) <= N
      BY <1>1, <2>1, FS_Subset
    <2>3. rank(i) \in Nat /\ rank(i) # 0
      BY <2>1, <2>2, FS_CardinalityType, FS_EmptySet
    <2> QED BY <1>1, <2>2, <2>3
  <1>3. ASSUME NEW i \in keep, NEW j \in keep, rank(i) = rank(j) PROVE i = j
    <2>1. ASSUME NEW m \in keep, NEW n \in keep, m < n PROVE rank(m) # rank(n)
      <3>1. upto(m) \in SUBSET upto(n) /\ n \in upto(n) /\ n \notin upto(m)
        <4>1. m \in Nat /\ n \in Nat
          BY <1>1
        <4>2. \A k \in keep : k \in Nat /\ (k <= m => k <= n)
          BY <1>1, <2>1, <4>1
        <4>3. ~(n <= m) /\ n <= n
          BY <2>1, <4>1
        <4> QED BY <4>2, <4>3, Zenon
      <3>2. IsFiniteSet(upto(n))
        BY <1>2
      <3>3. rank(n) = rank(m) => upto(n) = upto(m)
        BY <3>1, <3>2, FS_Subset
      <3> QED BY <3>1, <3>3
    <2>2. i < j \/ j < i \/ i = j
      BY <1>1
    <2>3. ~(i < j)
      BY <1>3, <2>1
    <2>4. ~(j < i)
      BY <1>3, <2>1
    <2> QED BY <2>2, <2>3, <2>4
  <1> HIDE DEF upto, rank, N
  <1>4. R \in Injection(keep, 1..N)
    <2>1. R \in [keep -> 1..N]
      BY <1>2
    <2>2. \A i, j \in keep : R[i] = R[j] => i = j
      BY <1>3
    <2> QED BY <2>1, <2>2 DEF Injection, IsInjective
  <1>5. R \in Surjection(keep, 1..N)
    <2>1. IsFiniteSet(1..N) /\ Cardinality(1..N) = N
      <3>1. IsFiniteSet(1..N) /\ Cardinality(1..N) = IF 1 > N THEN 0 ELSE N - 1 + 1
        BY <1>1, FS_Interval
      <3> QED BY <1>1, <3>1
    <2>2. Cardinality(keep) = Cardinality(1..N) <=> R \in Surjection(keep, 1..N)
      BY <1>4, <2>1, FS_Injection
    <2> QED BY <2>1, <2>2 DEF N
  <1>6. \A n \in 1..N : at(n) \in keep /\ rank(at(n)) = n
    <2>1. \A n \in 1..N : \E i \in keep : rank(i) = n
      BY <1>5 DEF Surjection
    <2> QED BY <2>1
  <1>7. \A i \in keep : rank(i) \in 1..N /\ at(rank(i)) = i
    BY <1>2, <1>3, <1>6
  <1> HIDE DEF at
  <1>8. r = Without(s, A)
    BY DEF Without, at, N, rank, upto, keep
  <1>9. r \in Seq(S)
    <2>1. \A n \in 1..N : s[at(n)] \in S
      BY <1>0, <1>6 DEF keep
    <2> QED BY <1>1, <2>1
  <1>10. ToSet(r) = ToSet(s) \ A
    <2>1. DOMAIN r = 1..N /\ \A n \in 1..N : r[n] = s[at(n)]
      OBVIOUS
    <2>2. \A i \in keep : i \in DOMAIN s /\ s[i] \notin A
      BY DEF keep
    <2>3. \A i \in DOMAIN s : s[i] \notin A => i \in keep
      BY DEF keep
    <2> HIDE DEF r
    <2>4. ASSUME NEW x \in ToSet(r) PROVE x \in ToSet(s) \ A
      BY <1>6, <2>1, <2>2 DEF ToSet
    <2>5. ASSUME NEW x \in ToSet(s) \ A PROVE x \in ToSet(r)
      <3>1. PICK i \in DOMAIN s : s[i] = x
        BY DEF ToSet
      <3>2. i \in keep
        BY <2>3, <3>1
      <3> QED BY <1>7, <2>1, <3>1, <3>2 DEF ToSet
    <2> QED BY <2>4, <2>5
  <1>11. ASSUME IsInjective(s) PROVE IsInjective(r)
    <2>1. DOMAIN r = 1..N /\ \A n \in 1..N : r[n] = s[at(n)]
      OBVIOUS
    <2>2. \A i \in keep : i \in DOMAIN s
      BY DEF keep
    <2> HIDE DEF r
    <2>3. \A m, n \in 1..N : at(m) = at(n) => m = n
      BY <1>6
    <2> QED BY <1>6, <1>11, <2>1, <2>2, <2>3 DEF IsInjective
  <1> HIDE DEF r
  <1> QED BY <1>8, <1>9, <1>10, <1>11

-----------------------------------------------------------------------------
\* The record of an idle thread.
LEMMA IdleType ==
  /\ Idle \in ThreadType
  /\ Idle.pc = "idle" /\ Idle.rpc = "none" /\ Idle.entry = NoEntry /\ Idle.conn = NoConn
  /\ Idle.cookie = NoConn /\ Idle.reuse = TRUE
  BY PoolAssumption DEF Idle, ThreadType

\* The initial values have their types.
LEMMA InitTypeOK == Init => TypeOK
  BY PoolAssumption, IdleType DEF Init, TypeOK, NewEntry, NewConn, EntryType, ConnType

\* Shutting connections down keeps their types.
LEMMA ShutdownType ==
  ASSUME TypeOK, NEW S
  PROVE  Shutdown(conns, S) \in [Conns -> ConnType]
  <1>1. \A r \in ConnType : [r EXCEPT !.status = "closed"] \in ConnType
    BY DEF ConnType
  <1> QED BY <1>1 DEF TypeOK, Shutdown

\* Finding or making the entry of a task, with the start of an RPC, keeps the types.
LEMMA GetTaskEntryType ==
  ASSUME TypeOK, NEW t \in Threads, NEW r \in Rpcs, NEW k \in Tasks,
         NEW d \in Dirs \cup {NoDir}, NEW c \in Conns \cup {NoConn}, NEW n \in 0..MaxFetched,
         r = "list" => d \in Dirs, GetTaskEntry(t, r, k, d, c, n),
         cookies' # {} => "list" \in Rpcs,
         cookies' \subseteq [task: Tasks, dir: Dirs, conn: Conns, fetched: 1..MaxFetched]
  PROVE  TypeOK'
  <1>1. PICK e \in Entries :
          /\ task_cache_map' = [task_cache_map EXCEPT ![k] = e]
          /\ entries' = [entries EXCEPT ![e] =
                           [(IF task_cache_map[k] = NoEntry THEN NewEntry ELSE @)
                              EXCEPT !.idle = 0]]
          /\ threads' = [threads EXCEPT ![t] =
                           [Idle EXCEPT !.pc = "entry", !.rpc = r, !.task = k, !.dir = d,
                                        !.cookie = c, !.fetched = n, !.entry = e]]
    BY DEF GetTaskEntry, TypeOK, FreeEntries
  <1>2. conns' = conns
    BY DEF GetTaskEntry
  <1>3. entries' \in [Entries -> EntryType]
    <2>1. NewEntry \in EntryType
      BY PoolAssumption DEF NewEntry, EntryType
    <2>2. \A x \in EntryType : [x EXCEPT !.idle = 0] \in EntryType
      BY SMTT(30), PoolAssumption DEF EntryType
    <2> QED BY <1>1, <2>1, <2>2 DEF TypeOK
  <1>4. [Idle EXCEPT !.pc = "entry", !.rpc = r, !.task = k, !.dir = d,
                     !.cookie = c, !.fetched = n, !.entry = e] \in ThreadType
    BY IdleType, PoolAssumption DEF ThreadType
  <1> QED BY <1>1, <1>2, <1>3, <1>4 DEF TypeOK

\* The updates of records that the actions make keep their types.
LEMMA ThreadUpdates ==
  ASSUME NEW th \in ThreadType
  PROVE  /\ \A c \in Conns : th.pc = "entry" =>
              [th EXCEPT !.pc = "using", !.conn = c, !.entry = NoEntry] \in ThreadType
         /\ th.pc = "using" => [th EXCEPT !.pc = "drop"] \in ThreadType
         /\ \A e \in Entries, b \in BOOLEAN : th.pc \in {"using", "drop"} =>
              [th EXCEPT !.pc = "release", !.entry = e, !.reuse = b] \in ThreadType
         /\ \A k \in Tasks, e \in Entries : "purge" \in Rpcs =>
              [Idle EXCEPT !.pc = "purge", !.rpc = "purge", !.task = k, !.entry = e]
                \in ThreadType
  <1>1. ASSUME NEW c \in Conns, th.pc = "entry"
        PROVE  [th EXCEPT !.pc = "using", !.conn = c, !.entry = NoEntry] \in ThreadType
    BY <1>1, PoolAssumption DEF ThreadType
  <1>2. ASSUME th.pc = "using" PROVE [th EXCEPT !.pc = "drop"] \in ThreadType
    BY <1>2 DEF ThreadType
  <1>3. ASSUME NEW e \in Entries, NEW b \in BOOLEAN, th.pc \in {"using", "drop"}
        PROVE  [th EXCEPT !.pc = "release", !.entry = e, !.reuse = b] \in ThreadType
    BY <1>3 DEF ThreadType
  <1>4. ASSUME NEW k \in Tasks, NEW e \in Entries, "purge" \in Rpcs
        PROVE  [Idle EXCEPT !.pc = "purge", !.rpc = "purge", !.task = k, !.entry = e]
                 \in ThreadType
    BY ZenonT(60), <1>4, PoolAssumption, IdleType DEF ThreadType
  <1> QED BY <1>1, <1>2, <1>3, <1>4

\* What the actions store into a SmbTaskCacheEntry has the type of one.
LEMMA EntryUpdates ==
  ASSUME NEW x \in EntryType
  PROVE  /\ \A A \in SUBSET Conns : [x EXCEPT !.active = A] \in EntryType
         /\ \A s \in Seq(Conns) : [x EXCEPT !.inactive = s] \in EntryType
         /\ \A A \in SUBSET Conns, s \in Seq(Conns) :
              [x EXCEPT !.active = A, !.inactive = s] \in EntryType
         /\ [x EXCEPT !.idle = 0] \in EntryType
         /\ x.idle <= TaskInactive + MaxLag => [x EXCEPT !.idle = @ + 1] \in EntryType
         /\ x.active \in SUBSET Conns /\ x.inactive \in Seq(Conns)
  <1>1. TaskInactive \in Nat /\ MaxLag \in Nat
    BY PoolAssumption
  <1>2. x.active \in SUBSET Conns /\ x.inactive \in Seq(Conns)
    BY DEF EntryType
  <1>3. \A A \in SUBSET Conns : [x EXCEPT !.active = A] \in EntryType
    BY DEF EntryType
  <1>4. \A s \in Seq(Conns) : [x EXCEPT !.inactive = s] \in EntryType
    BY DEF EntryType
  <1>5. \A A \in SUBSET Conns, s \in Seq(Conns) :
          [x EXCEPT !.active = A, !.inactive = s] \in EntryType
    BY DEF EntryType
  <1>6. [x EXCEPT !.idle = 0] \in EntryType
    BY <1>1 DEF EntryType
  <1>7. x.idle <= TaskInactive + MaxLag => [x EXCEPT !.idle = @ + 1] \in EntryType
    BY <1>1 DEF EntryType
  <1> QED BY <1>2, <1>3, <1>4, <1>5, <1>6, <1>7

\* What the actions store into a connection has the type of one.
LEMMA ConnUpdates ==
  ASSUME NEW x \in ConnType
  PROVE  /\ [x EXCEPT !.idle = 0] \in ConnType
         /\ [x EXCEPT !.status = "open"] \in ConnType
         /\ [x EXCEPT !.dir = NoDir, !.fetched = 0] \in ConnType
         /\ \A d \in Dirs, n \in 0..MaxFetched : [x EXCEPT !.dir = d, !.fetched = n] \in ConnType
         /\ x.idle <= ConnInactive + MaxLag => [x EXCEPT !.idle = @ + 1] \in ConnType
  <1>1. ConnInactive \in Nat /\ MaxLag \in Nat /\ MaxFetched \in Nat
    BY PoolAssumption
  <1>2. [x EXCEPT !.idle = 0] \in ConnType
    BY <1>1 DEF ConnType
  <1>3. [x EXCEPT !.status = "open"] \in ConnType
    BY DEF ConnType
  <1>4. [x EXCEPT !.dir = NoDir, !.fetched = 0] \in ConnType
    <2>1. \A d \in Dirs \cup {NoDir}, n \in 0..MaxFetched :
            [x EXCEPT !.dir = d, !.fetched = n] \in ConnType
      BY DEF ConnType
    <2>2. NoDir \in Dirs \cup {NoDir} /\ 0 \in 0..MaxFetched
      BY <1>1
    <2> QED BY <2>1, <2>2
  <1>5. \A d \in Dirs, n \in 0..MaxFetched : [x EXCEPT !.dir = d, !.fetched = n] \in ConnType
    BY DEF ConnType
  <1>6. x.idle <= ConnInactive + MaxLag => [x EXCEPT !.idle = @ + 1] \in ConnType
    <2>1. x.idle \in 0..(ConnInactive + MaxLag + 1)
      BY DEF ConnType
    <2>2. x.idle <= ConnInactive + MaxLag => x.idle + 1 \in 0..(ConnInactive + MaxLag + 1)
      BY <1>1, <2>1
    <2>3. \A n \in 0..(ConnInactive + MaxLag + 1) : [x EXCEPT !.idle = n] \in ConnType
      BY DEF ConnType
    <2> QED BY <2>2, <2>3
  <1> QED BY <1>2, <1>3, <1>4, <1>5, <1>6

\* Each action keeps the types.
LEMMA LookupForReleaseType ==
  ASSUME TypeOK, NEW t \in Threads, threads[t].pc \in {"using", "drop"},
         NEW b \in BOOLEAN, LookupForRelease(t, conns, b)
  PROVE  TypeOK'
  <1>1. threads[t] \in ThreadType /\ threads[t].conn \in Conns /\ threads[t].task \in Tasks
    BY DEF TypeOK, ThreadType
  <1>2. conns' \in [Conns -> ConnType]
    BY <1>1, ConnUpdates DEF LookupForRelease, TypeOK
  <1>3. threads' \in [Threads -> ThreadType]
    BY <1>1, ThreadUpdates, IdleType DEF LookupForRelease, TypeOK
  <1> QED BY <1>2, <1>3 DEF TypeOK, LookupForRelease

\* Every step keeps the types.
LEMMA NextTypeOK == TypeOK /\ [Next]_vars => TypeOK'
  <1> SUFFICES ASSUME TypeOK, [Next]_vars PROVE TypeOK'
    OBVIOUS
  <1> USE DEF TypeOK
  <1>0. \A t \in Threads :
          /\ threads[t] \in ThreadType /\ threads[t].task \in Tasks
          /\ threads[t].pc \in {"entry", "release", "purge"} => threads[t].entry \in Entries
          /\ threads[t].pc \in {"using", "drop", "release"} => threads[t].conn \in Conns
          /\ threads[t].cookie \in Conns \cup {NoConn}
    BY DEF ThreadType
  <1>1. ASSUME NEW t \in Threads, NEW r \in Rpcs, NEW k \in Tasks, StartRpc(t, r, k)
        PROVE TypeOK'
    BY <1>1, GetTaskEntryType, PoolAssumption DEF StartRpc
  <1>2. ASSUME NEW t \in Threads, NEW k \in Tasks, NEW d \in Dirs, StartListing(t, k, d)
        PROVE TypeOK'
    BY <1>2, GetTaskEntryType, PoolAssumption DEF StartListing
  <1>3. ASSUME NEW t \in Threads, NEW ck \in cookies, ContinueListing(t, ck)
        PROVE TypeOK'
    <2>1. cookies' \subseteq cookies
      BY <1>3 DEF ContinueListing
    <2>2. /\ ck.task \in Tasks /\ ck.dir \in Dirs /\ ck.conn \in Conns
          /\ ck.fetched \in 0..MaxFetched /\ "list" \in Rpcs
      BY PoolAssumption
    <2> QED BY <1>3, <2>1, <2>2, GetTaskEntryType DEF ContinueListing
  <1>4. ASSUME NEW t \in Threads, FindByCookie(t) PROVE TypeOK'
    <2> DEFINE e == threads[t].entry
               c == threads[t].cookie
    <2>1. /\ e \in Entries /\ c \in Conns /\ threads[t].pc = "entry"
          /\ UNCHANGED <<task_cache_map, cookies>>
      BY <1>0, <1>4 DEF FindByCookie
    <2>2. \/ threads' = [threads EXCEPT ![t] = Idle] /\ UNCHANGED <<entries, conns>>
          \/ /\ conns' = Shutdown(conns, {c})
             /\ entries' = [entries EXCEPT ![e].active = @ \ {c}]
             /\ threads' = [threads EXCEPT ![t] = Idle]
          \/ /\ conns' = [conns EXCEPT ![c].idle = 0]
             /\ threads' = [threads EXCEPT ![t].pc = "using", ![t].conn = c,
                                           ![t].entry = NoEntry]
             /\ UNCHANGED entries
      BY <1>4 DEF FindByCookie
    <2> HIDE DEF e, c
    <2>3. entries' \in [Entries -> EntryType]
      <3>1. entries[e] \in EntryType
        BY <2>1
      <3>2. [entries[e] EXCEPT !.active = @ \ {c}] \in EntryType
        BY <3>1, EntryUpdates
      <3> QED BY <2>1, <2>2, <3>2
    <2>4. conns' \in [Conns -> ConnType]
      <3>1. [conns[c] EXCEPT !.idle = 0] \in ConnType
        BY <2>1, ConnUpdates
      <3>2. Shutdown(conns, {c}) \in [Conns -> ConnType]
        BY ShutdownType
      <3> QED BY <2>1, <2>2, <3>1, <3>2
    <2>5. threads' \in [Threads -> ThreadType]
      <3>1. [threads[t] EXCEPT !.pc = "using", !.conn = c, !.entry = NoEntry] \in ThreadType
        BY <1>0, <2>1, ThreadUpdates
      <3> QED BY <2>2, <3>1, IdleType
    <2> QED BY <2>1, <2>3, <2>4, <2>5
  <1>5. ASSUME NEW t \in Threads, ReuseInactive(t) PROVE TypeOK'
    <2> DEFINE e == threads[t].entry
               list == entries[e].inactive
    <2>1. e \in Entries /\ list \in Seq(Conns) /\ threads[t].pc = "entry"
      BY <1>0, <1>5, EntryUpdates DEF ReuseInactive
    <2>2. PICK i \in DOMAIN list :
            /\ entries' = [entries EXCEPT ![e].active = @ \cup {list[i]},
                                          ![e].inactive = RemoveAt(list, i)]
            /\ conns' = [conns EXCEPT ![list[i]].idle = 0]
            /\ threads' = [threads EXCEPT ![t].pc = "using", ![t].conn = list[i],
                                          ![t].entry = NoEntry]
      BY <1>5 DEF ReuseInactive
    <2> HIDE DEF e, list
    <2>3. list[i] \in Conns /\ RemoveAt(list, i) \in Seq(Conns)
      <3>1. i \in 1..Len(list)
        BY <2>1, LenProperties
      <3> QED BY <2>1, <3>1, RemoveAtProperties, ElementOfSeq
    <2>4. entries' \in [Entries -> EntryType]
      <3>1. [entries[e] EXCEPT !.active = @ \cup {list[i]}, !.inactive = RemoveAt(list, i)]
              \in EntryType
        BY ZenonT(60), <2>1, <2>3, EntryUpdates
      <3> QED BY <2>1, <2>2, <3>1
    <2>5. conns' \in [Conns -> ConnType]
      BY <2>2, <2>3, ConnUpdates
    <2>6. threads' \in [Threads -> ThreadType]
      BY <1>0, <2>1, <2>2, <2>3, ThreadUpdates
    <2> QED BY <1>5, <2>4, <2>5, <2>6 DEF ReuseInactive
  <1>6. ASSUME NEW t \in Threads, CreateConnection(t) PROVE TypeOK'
    <2> DEFINE e == threads[t].entry
    <2>1. e \in Entries /\ threads[t].pc = "entry"
      BY <1>0, <1>6 DEF CreateConnection
    <2>2. PICK c \in Conns :
            /\ conns' = [conns EXCEPT ![c].status = "open"]
            /\ entries' = [entries EXCEPT ![e].active = @ \cup {c}]
            /\ threads' = [threads EXCEPT ![t].pc = "using", ![t].conn = c,
                                          ![t].entry = NoEntry]
      BY <1>6 DEF CreateConnection
    <2> HIDE DEF e
    <2>3. entries' \in [Entries -> EntryType]
      <3>1. [entries[e] EXCEPT !.active = @ \cup {c}] \in EntryType
        BY <2>1, EntryUpdates
      <3> QED BY <2>1, <2>2, <3>1
    <2>4. conns' \in [Conns -> ConnType]
      BY <2>2, ConnUpdates
    <2>5. threads' \in [Threads -> ThreadType]
      BY <1>0, <2>1, <2>2, ThreadUpdates
    <2> QED BY <1>6, <2>3, <2>4, <2>5 DEF CreateConnection
  <1>7. ASSUME NEW t \in Threads, CreateFails(t) PROVE TypeOK'
    BY <1>7, IdleType DEF CreateFails
  <1>8. ASSUME NEW t \in Threads, ReleaseSmbConnection(t) PROVE TypeOK'
    <2>1. entries' \in [Entries -> EntryType]
      <3>1. ASSUME NEW x \in EntryType, NEW c \in Conns
            PROVE [x EXCEPT !.active = @ \ {c}, !.inactive = IF threads[t].reuse THEN Append(@, c) ELSE @] \in EntryType
        BY EntryUpdates, AppendProps
      <3> QED BY <1>0, <1>8, <3>1 DEF ReleaseSmbConnection
    <2>2. conns' \in [Conns -> ConnType]
      BY <1>0, <1>8, ConnUpdates DEF ReleaseSmbConnection
    <2>3. threads' \in [Threads -> ThreadType]
      BY <1>8, IdleType DEF ReleaseSmbConnection
    <2> QED BY <1>8, <2>1, <2>2, <2>3 DEF ReleaseSmbConnection
  <1>9. ASSUME NEW t \in Threads, FinishRpc(t) \/ ReleaseAfterShutdown(t) PROVE TypeOK'
    BY <1>9, LookupForReleaseType DEF FinishRpc, ReleaseAfterShutdown
  <1>10. ASSUME NEW t \in Threads, ShutdownInRpc(t) PROVE TypeOK'
    BY <1>0, <1>10, ShutdownType, ThreadUpdates DEF ShutdownInRpc
  <1>11. ASSUME NEW t \in Threads, ListProgress(t) PROVE TypeOK'
    BY <1>0, <1>11, EntryUpdates DEF ListProgress
  <1>12. ASSUME NEW t \in Threads, KeepListing(t) PROVE TypeOK'
    <2> DEFINE c == threads[t].conn
               d == IF conns[c].dir = NoDir THEN threads[t].dir ELSE conns[c].dir
               n == conns[c].fetched + 1
    <2>1. /\ c \in Conns /\ conns[c] \in ConnType /\ threads[t].dir \in Dirs /\ d \in Dirs
          /\ n \in 1..MaxFetched /\ n \in 0..MaxFetched /\ "list" \in Rpcs
      <3>1. c \in Conns /\ threads[t].dir \in Dirs /\ conns[c] \in ConnType
        BY <1>0, <1>12 DEF KeepListing, ThreadType
      <3>2. d \in Dirs
        BY <3>1, PoolAssumption DEF ConnType
      <3>3. n \in 1..MaxFetched /\ n \in 0..MaxFetched
        BY <1>12, <3>1, PoolAssumption DEF KeepListing, ConnType
      <3>4. "list" \in Rpcs
        BY <1>12 DEF KeepListing, ThreadType
      <3> QED BY <3>1, <3>2, <3>3, <3>4
    <2>2. /\ conns' = [conns EXCEPT ![c].dir = d, ![c].fetched = n]
          /\ cookies' = cookies \cup {[task |-> threads[t].task, dir |-> threads[t].dir,
                                       conn |-> c, fetched |-> n]}
          /\ threads' = [threads EXCEPT ![t] = Idle]
          /\ UNCHANGED <<task_cache_map, entries>>
      BY <1>12 DEF KeepListing
    <2> HIDE DEF c, d, n
    <2>3. conns' \in [Conns -> ConnType]
      BY <2>1, <2>2, ConnUpdates
    <2> QED BY <1>0, <2>1, <2>2, <2>3, IdleType
  <1>13. ASSUME NEW t \in Threads, FinishCreateEntity(t) PROVE TypeOK'
    BY <1>13, IdleType DEF FinishCreateEntity
  <1>14. ASSUME NEW t \in Threads, NEW k \in Tasks, PurgeTask(t, k) PROVE TypeOK'
    <2>1. task_cache_map[k] \in Entries
      BY <1>14 DEF PurgeTask
    <2> QED BY <1>0, <1>14, <2>1, ThreadUpdates DEF PurgeTask
  <1>15. ASSUME NEW t \in Threads, PurgeConnections(t) PROVE TypeOK'
    <2>1. entries' \in [Entries -> EntryType]
      <3>1. threads[t].entry \in Entries
        BY <1>0, <1>15 DEF PurgeConnections
      <3>2. {} \in SUBSET Conns /\ <<>> \in Seq(Conns)
        BY EmptySeq
      <3>3. [entries[threads[t].entry] EXCEPT !.active = {}, !.inactive = <<>>] \in EntryType
        BY <3>1, <3>2, EntryUpdates
      <3> QED BY <1>15, <3>1, <3>3 DEF PurgeConnections
    <2>2. conns' \in [Conns -> ConnType]
      BY <1>15, ShutdownType DEF PurgeConnections, PurgeAll
    <2>3. threads' \in [Threads -> ThreadType]
      BY <1>15, IdleType DEF PurgeConnections
    <2> QED BY <1>15, <2>1, <2>2, <2>3 DEF PurgeConnections
  <1>16. ASSUME NEW lag \in 0..MaxLag, NEW connLag \in 0..MaxLag, AlarmHandler(lag, connLag)
         PROVE TypeOK'
    <2>1. entries' \in [Entries -> EntryType]
      <3>1. ASSUME NEW x \in EntryType, NEW A
            PROVE  /\ [x EXCEPT !.active = {}, !.inactive = <<>>] \in EntryType
                   /\ [x EXCEPT !.inactive = Without(@, A)] \in EntryType
        <4>1. x.inactive \in Seq(Conns) /\ {} \in SUBSET Conns /\ <<>> \in Seq(Conns)
          BY EntryUpdates, EmptySeq
        <4>2. Without(x.inactive, A) \in Seq(Conns)
          BY <4>1, WithoutProperties
        <4> QED BY <4>1, <4>2, EntryUpdates
      <3> QED BY <1>16, <3>1 DEF AlarmHandler
    <2>2. conns' \in [Conns -> ConnType]
      BY <1>16, ShutdownType DEF AlarmHandler
    <2> QED BY <1>16, <2>1, <2>2 DEF AlarmHandler
  <1>17. ASSUME Tick PROVE TypeOK'
    <2>1. entries' \in [Entries -> EntryType]
      BY <1>17, EntryUpdates DEF Tick
    <2>2. conns' \in [Conns -> ConnType]
      BY <1>17, ConnUpdates DEF Tick
    <2> QED BY <1>17, <2>1, <2>2 DEF Tick
  <1>18. CASE UNCHANGED vars
    BY <1>18 DEF vars
  <1> QED BY <1>1, <1>2, <1>3, <1>4, <1>5, <1>6, <1>7, <1>8, <1>9, <1>10, <1>11, <1>12,
             <1>13, <1>14, <1>15, <1>16, <1>17, <1>18
          DEF Next, ThreadStep, ClientRequest

\* Every state of the pool is typed, whatever the clients do: what GetTaskEntry
\* and ReleaseSmbConnection refer to are entries and connections.
THEOREM TypeCorrect == Spec => []TypeOK
  BY InitTypeOK, NextTypeOK, PTL DEF Spec

-----------------------------------------------------------------------------
\* The invariant of careful clients.

\* The empty pool satisfies the invariant.
LEMMA InitPoolInv == Init => PoolInv
  <1> SUFFICES ASSUME Init PROVE PoolInv
    OBVIOUS
  <1>1. TypeOK
    BY InitTypeOK
  <1>2. /\ \A t \in Threads : threads[t] = Idle
        /\ \A k \in Tasks : task_cache_map[k] = NoEntry
        /\ cookies = {}
        /\ \A c \in Conns : conns[c].dir = NoDir
    BY DEF Init, NewConn
  <1>3. \A e \in Entries : ~InUse(e)
    BY <1>2, IdleType, PoolAssumption DEF InUse, Mapped
  <1>4. EntriesOwned /\ BusyStays /\ HeldIsActive
    BY <1>2, IdleType DEF EntriesOwned, BusyStays, HeldIsActive
  <1>5. ConnsPlaced
    BY <1>3 DEF ConnsPlaced
  <1>6. ClaimsExclusive /\ ListingsKept
    BY <1>2, IdleType DEF ClaimsExclusive, ListingsKept, Claim
  <1> QED BY <1>1, <1>4, <1>5, <1>6 DEF PoolInv

\* What the invariant says of a thread: its record's fields, and the entry of
\* its task.
LEMMA ThreadFacts ==
  ASSUME TypeOK, NEW t \in Threads
  PROVE  /\ threads[t].task \in Tasks
         /\ threads[t].pc \in {"entry", "release", "purge"} <=> threads[t].entry \in Entries
         /\ threads[t].pc \in {"using", "drop", "release"} <=> threads[t].conn \in Conns
         /\ threads[t].conn \in Conns \cup {NoConn}
         /\ threads[t].cookie \in Conns \cup {NoConn}
         /\ threads[t].entry \in Entries \cup {NoEntry}
         /\ threads[t].pc \in {"idle", "entry", "using", "drop", "release", "purge"}
         /\ threads[t].reuse \in BOOLEAN
         /\ Claim(t) \in Conns \cup {NoConn}
  BY DEF TypeOK, ThreadType, Claim

\* Resumable in the next state, of values of any state.
ResumableNext(c, k, d) ==
  /\ conns'[c].status # "none"
  /\ \A e \in Entries : InUse(e)' /\ c \in Has(e)' =>
       /\ e = task_cache_map'[k] /\ c \in entries'[e].active
       /\ conns'[c].status = "open" /\ conns'[c].dir = d

\* How ListingsKept is shown of a next state.
LEMMA ListingsKeptNext ==
  ASSUME \A c \in Conns : conns'[c].status = "none" => conns'[c].dir = NoDir,
         \A ck \in cookies' : ResumableNext(ck.conn, ck.task, ck.dir),
         \A t \in Threads :
           /\ threads'[t].cookie # NoConn => threads'[t].rpc = "list"
           /\ threads'[t].pc = "entry" /\ threads'[t].cookie # NoConn
                => ResumableNext(threads'[t].cookie, threads'[t].task, threads'[t].dir)
           /\ threads'[t].pc = "using" =>
                conns'[threads'[t].conn].dir =
                  IF threads'[t].cookie = NoConn THEN NoDir ELSE threads'[t].dir
  PROVE  ListingsKept'
  BY DEF ListingsKept, Resumable, ResumableNext

\* A step keeps PoolInv, and AllAccountedFor if that held.
Kept == PoolInv' /\ (AllAccountedFor => AllAccountedFor')

\* The first critical section of an RPC keeps the invariant: with or without a cookie, for
\* an entry that was there or one just emplaced.
LEMMA GetTaskEntryInv ==
  ASSUME PoolInv, TypeOK', NEW t \in Threads, NEW r, NEW k \in Tasks, NEW d,
         NEW c \in Conns \cup {NoConn}, NEW n, GetTaskEntry(t, r, k, d, c, n),
         \/ c = NoConn /\ cookies' = cookies
         \/ \E ck \in cookies : /\ c = ck.conn /\ d = ck.dir /\ k = ck.task /\ r = "list"
                                /\ cookies' = cookies \ {ck}
  PROVE  Kept
  <1> USE DEF PoolInv
  <1>1. PICK e \in IF task_cache_map[k] = NoEntry THEN FreeEntries ELSE {task_cache_map[k]} :
          /\ task_cache_map' = [task_cache_map EXCEPT ![k] = e]
          /\ entries' = [entries EXCEPT ![e] =
                           [(IF task_cache_map[k] = NoEntry THEN NewEntry ELSE @)
                              EXCEPT !.idle = 0]]
          /\ threads' = [threads EXCEPT ![t] =
                           [Idle EXCEPT !.pc = "entry", !.rpc = r, !.task = k, !.dir = d,
                                        !.cookie = c, !.fetched = n, !.entry = e]]
    BY DEF GetTaskEntry
  <1>2. /\ threads[t].pc = "idle" /\ conns' = conns
        /\ threads[t].conn = NoConn
    BY ThreadFacts DEF GetTaskEntry, TypeOK, ThreadType
  <1>3. /\ e \in Entries
        /\ task_cache_map[k] # NoEntry => e = task_cache_map[k]
        /\ task_cache_map[k] = NoEntry => ~InUse(e)
    BY <1>1 DEF TypeOK, FreeEntries, InUse
  <1>4. /\ \A u \in Threads : u # t => threads'[u] = threads[u]
        /\ threads'[t].pc = "entry" /\ threads'[t].task = k /\ threads'[t].entry = e
        /\ threads'[t].cookie = c /\ threads'[t].dir = d /\ threads'[t].rpc = r
    BY <1>1, IdleType DEF TypeOK, ThreadType
  <1>5. /\ task_cache_map'[k] = e
        /\ \A j \in Tasks : j # k => task_cache_map'[j] = task_cache_map[j]
    BY <1>1 DEF TypeOK
  <1>6. /\ \A f \in Entries : f # e => entries'[f] = entries[f]
        /\ entries'[e].idle = 0
        /\ task_cache_map[k] # NoEntry => /\ entries'[e].active = entries[e].active
                                          /\ entries'[e].inactive = entries[e].inactive
        /\ task_cache_map[k] = NoEntry => entries'[e].active = {} /\ entries'[e].inactive = <<>>
    BY <1>1, <1>3 DEF TypeOK, EntryType, NewEntry
  <1> HIDE DEF PoolInv
  <1>7. \A f \in Entries : InUse(f)' <=> InUse(f) \/ f = e
    <2> SUFFICES ASSUME NEW f \in Entries PROVE InUse(f)' <=> InUse(f) \/ f = e
      OBVIOUS
    <2>1. (f \in Mapped') <=> (f \in Mapped \/ f = e)
      BY <1>3, <1>5, PoolAssumption DEF Mapped
    <2>2. (\E u \in Threads : threads'[u].pc = "purge" /\ threads'[u].entry = f)
            <=> (\E u \in Threads : threads[u].pc = "purge" /\ threads[u].entry = f)
      BY <1>2, <1>4
    <2> QED BY <2>1, <2>2 DEF InUse
  <1>8. /\ \A f \in Entries : InUse(f) => Has(f)' = Has(f) /\ Pooled(f)' = Pooled(f)
                                /\ entries'[f].active = entries[f].active
                                /\ entries'[f].inactive = entries[f].inactive
        /\ ~InUse(e) => Has(e)' = {} /\ entries'[e].active = {} /\ entries'[e].inactive = <<>>
             /\ Pooled(e)' = {}
    BY <1>3, <1>5, <1>6 DEF Has, Pooled, ToSet, InUse, Mapped
  <1>9. EntriesOwned'
    <2>1. ASSUME NEW i \in Tasks, NEW j \in Tasks, task_cache_map'[i] = task_cache_map'[j],
                 task_cache_map'[i] # NoEntry
          PROVE  i = j
      <3>1. task_cache_map[k] = NoEntry => \A l \in Tasks : task_cache_map[l] # e
        BY <1>3 DEF InUse, Mapped
      <3> QED BY <1>3, <1>5, <2>1, <3>1 DEF PoolInv, EntriesOwned
    <2>2. ASSUME NEW u \in Threads, threads'[u].pc = "purge"
          PROVE  /\ threads'[u].entry \notin Mapped'
                 /\ \A v \in Threads : threads'[v].pc = "purge" /\ threads'[v].entry = threads'[u].entry
                                         => u = v
      <3>1. u # t /\ threads'[u] = threads[u]
        BY <1>4, <2>2
      <3>2. threads[u].entry \notin Mapped /\ threads[u].entry # e
        BY <1>3, <2>2, <3>1 DEF PoolInv, EntriesOwned, InUse, Mapped
      <3>3. threads[u].entry \notin Mapped'
        BY <1>5, <3>2 DEF Mapped
      <3>4. ASSUME NEW v \in Threads, threads'[v].pc = "purge", threads'[v].entry = threads'[u].entry
            PROVE  u = v
        BY <1>4, <2>2, <3>1, <3>4 DEF PoolInv, EntriesOwned
      <3> QED BY <3>1, <3>3, <3>4
    <2> QED BY <2>1, <2>2 DEF EntriesOwned
  <1>10. BusyStays'
    <2> SUFFICES ASSUME NEW u \in Threads,
                        threads'[u].pc \in {"entry", "using", "drop", "release"}
                 PROVE  LET f == task_cache_map'[threads'[u].task] IN
                        /\ f \in Entries /\ entries'[f].idle <= TaskInactive
                        /\ threads'[u].pc \in {"entry", "release"} => threads'[u].entry = f
      BY DEF BusyStays
    <2>0. TaskInactive \in Nat
      BY PoolAssumption
    <2>1. CASE u = t
      BY <1>3, <1>4, <1>5, <1>6, <2>0, <2>1
    <2>2. CASE u # t
      <3>1. /\ threads'[u] = threads[u] /\ threads[u].task \in Tasks
            /\ task_cache_map[threads[u].task] \in Entries
            /\ entries[task_cache_map[threads[u].task]].idle <= TaskInactive
            /\ threads[u].pc \in {"entry", "release"}
                 => threads[u].entry = task_cache_map[threads[u].task]
        BY <1>4, <2>2, ThreadFacts DEF PoolInv, BusyStays
      <3>2. task_cache_map'[threads[u].task] = task_cache_map[threads[u].task]
        BY <1>3, <1>5, <3>1, PoolAssumption
      <3> QED BY <1>6, <2>0, <2>2, <3>1, <3>2
    <2> QED BY <2>1, <2>2
  <1>11. ConnsPlaced'
    <2> SUFFICES ASSUME NEW f \in Entries, InUse(f)'
                 PROVE  /\ \A g \in Entries : InUse(g)' /\ g # f => Has(f)' \cap Has(g)' = {}
                        /\ entries'[f].active \cap Pooled(f)' = {}
                        /\ IsInjective(entries'[f].inactive)
                        /\ \A x \in entries'[f].active : conns[x].status # "none"
                        /\ \A x \in Pooled(f)' : conns[x].status = "open" /\ conns[x].dir = NoDir
      BY <1>2 DEF ConnsPlaced
    <2>1. CASE InUse(f)
      BY <1>7, <1>8, <2>1 DEF PoolInv, ConnsPlaced
    <2>2. CASE ~InUse(f)
      <3>1. f = e
        BY <1>7, <2>2
      <3>2. IsInjective(<<>>)
        BY DEF IsInjective
      <3> QED BY <1>8, <2>2, <3>1, <3>2
    <2> QED BY <2>1, <2>2
  <1>12. HeldIsActive'
    <2> SUFFICES ASSUME NEW u \in Threads, threads'[u].pc \in {"using", "drop", "release"}
                 PROVE  /\ threads'[u] = threads[u]
                        /\ threads'[u].conn \in entries'[task_cache_map'[threads'[u].task]].active
      BY <1>2 DEF PoolInv, HeldIsActive
    <2>1. u # t /\ threads'[u] = threads[u]
      BY <1>4
    <2>2. /\ task_cache_map[threads[u].task] \in Entries /\ threads[u].task \in Tasks
          /\ threads[u].conn \in entries[task_cache_map[threads[u].task]].active
      BY <2>1, ThreadFacts DEF PoolInv, BusyStays, HeldIsActive
    <2>3. task_cache_map'[threads[u].task] = task_cache_map[threads[u].task]
      BY <1>3, <1>5, <2>2, PoolAssumption
    <2>4. InUse(task_cache_map[threads[u].task])
      BY <2>2 DEF InUse, Mapped
    <2> QED BY <1>8, <2>1, <2>2, <2>3, <2>4
  <1>13. \A u \in Threads : u # t => Claim(u)' = Claim(u)
    BY <1>4 DEF Claim
  <1>14. Claim(t)' = c /\ Claim(t) = NoConn
    BY <1>2, <1>4 DEF Claim
  <1>15. ClaimsExclusive'
    BY <1>13, <1>14 DEF PoolInv, ClaimsExclusive
  <1>16. ASSUME NEW x, NEW j \in Tasks, NEW dd, Resumable(x, j, dd)
         PROVE  ResumableNext(x, j, dd)
    <2>1. ASSUME NEW f \in Entries, InUse(f)', x \in Has(f)'
          PROVE  f = task_cache_map'[j] /\ x \in entries'[f].active
                 /\ conns'[x].status = "open" /\ conns'[x].dir = dd
      <3>1. InUse(f)
        BY <1>7, <1>8, <2>1
      <3>2. f = task_cache_map[j] /\ x \in entries'[f].active
            /\ conns[x].status = "open" /\ conns[x].dir = dd
        BY <1>8, <1>16, <2>1, <3>1 DEF Resumable
      <3> QED BY <1>2, <1>3, <1>5, <3>2, PoolAssumption
    <2> QED BY <1>2, <1>16, <2>1 DEF Resumable, ResumableNext
  <1>17. ListingsKept'
    <2>1. \A ck \in cookies : ck.task \in Tasks /\ Resumable(ck.conn, ck.task, ck.dir)
      BY DEF PoolInv, TypeOK, ListingsKept
    <2>2. \A ck \in cookies' : ResumableNext(ck.conn, ck.task, ck.dir)
      BY <1>16, <2>1
    <2>3. ASSUME NEW u \in Threads
          PROVE  /\ threads'[u].cookie # NoConn => threads'[u].rpc = "list"
                 /\ threads'[u].pc = "entry" /\ threads'[u].cookie # NoConn
                      => ResumableNext(threads'[u].cookie, threads'[u].task, threads'[u].dir)
                 /\ threads'[u].pc = "using" =>
                      conns'[threads'[u].conn].dir =
                        IF threads'[u].cookie = NoConn THEN NoDir ELSE threads'[u].dir
      <3>1. CASE u = t
        <4>1. c # NoConn => r = "list" /\ ResumableNext(c, k, d)
          BY <1>16, <2>1
        <4> QED BY <1>4, <3>1, <4>1
      <3>2. CASE u # t
        <4>1. threads'[u] = threads[u] /\ threads[u].task \in Tasks
          BY <1>4, <3>2, ThreadFacts DEF PoolInv
        <4> QED BY <1>2, <1>16, <4>1 DEF PoolInv, ListingsKept
      <3> QED BY <3>1, <3>2
    <2>4. \A x \in Conns : conns'[x].status = "none" => conns'[x].dir = NoDir
      BY <1>2 DEF PoolInv, ListingsKept
    <2> QED BY <2>2, <2>3, <2>4, ListingsKeptNext
  <1>18. ASSUME AllAccountedFor PROVE AllAccountedFor'
    <2>1. ASSUME NEW j \in Tasks, task_cache_map'[j] # NoEntry,
                 NEW x \in entries'[task_cache_map'[j]].active
          PROVE  \/ \E u \in Threads : Claim(u)' = x /\ threads'[u].task = j
                 \/ \E ck \in cookies' : ck.conn = x /\ ck.task = j
      <3>1. PICK f \in Entries : f = task_cache_map'[j]
        BY <2>1 DEF TypeOK
      <3>2. task_cache_map[j] # NoEntry /\ f = task_cache_map[j]
        BY <1>3, <1>5, <1>8, <2>1, <3>1
      <3>3. InUse(f)
        BY <3>2 DEF InUse, Mapped
      <3>4. x \in entries[f].active
        BY <1>8, <2>1, <3>1, <3>3
      <3>5. x # NoConn
        BY <3>4, PoolAssumption DEF PoolInv, TypeOK, EntryType
      <3>6. CASE \E u \in Threads : Claim(u) = x /\ threads[u].task = j
        BY <1>4, <1>13, <1>14, <3>5, <3>6
      <3>7. CASE \E ck \in cookies : ck.conn = x /\ ck.task = j
        BY <1>4, <1>14, <3>7
      <3> QED BY <1>18, <3>2, <3>4, <3>6, <3>7 DEF AllAccountedFor
    <2>2. ASSUME NEW u \in Threads, threads'[u].pc = "purge"
          PROVE  entries'[threads'[u].entry].active = {}
      <3>1. u # t /\ threads'[u] = threads[u]
        BY <1>4, <2>2
      <3>2. threads[u].entry \in Entries /\ InUse(threads[u].entry)
        BY <2>2, <3>1, ThreadFacts DEF InUse, PoolInv
      <3> QED BY <1>8, <1>18, <2>2, <3>1, <3>2 DEF AllAccountedFor
    <2>3. \A x \in Conns : conns'[x].status = "open" => \E f \in Entries : InUse(f)' /\ x \in Has(f)'
      BY <1>2, <1>7, <1>8, <1>18 DEF AllAccountedFor
    <2> QED BY <2>1, <2>2, <2>3 DEF AllAccountedFor
  <1> QED BY <1>9, <1>10, <1>11, <1>12, <1>15, <1>17, <1>18 DEF PoolInv, Kept

\* A step of thread t that is about connection c only: c is nobody else's, and no
\* other connection moves or changes. Most steps of an RPC are such steps.
OthersUntouched(t, c) ==
  /\ task_cache_map' = task_cache_map
  /\ \A u \in Threads : u # t => threads'[u] = threads[u] /\ Claim(u) # c
  /\ \A ck \in cookies : ck.conn # c
  /\ \A e \in Entries : entries'[e].idle = entries[e].idle
  /\ \A e \in Entries, x \in Conns : x # c =>
       /\ x \in entries'[e].active <=> x \in entries[e].active
       /\ x \in Pooled(e)' <=> x \in Pooled(e)
  /\ \A x \in Conns : x # c => /\ conns'[x].status = conns[x].status
                               /\ conns'[x].dir = conns[x].dir

\* Where c is after the step: in the entry of t's task or in none.
PlaceAfter(t, c) ==
  /\ conns'[c].status # "none"
  /\ \A e \in Entries : InUse(e) =>
       /\ IsInjective(entries'[e].inactive)
       /\ c \in Has(e)' => e = task_cache_map[threads[t].task]
       /\ ~(c \in entries'[e].active /\ c \in Pooled(e)')
       /\ c \in Pooled(e)' => conns'[c].status = "open" /\ conns'[c].dir = NoDir

\* What t does after the step: it has c, or nothing more to do.
ThreadAfter(t, c) ==
  \/ threads'[t] = Idle
  \/ /\ threads'[t].pc \in {"using", "drop", "release"}
     /\ threads'[t].conn = c /\ threads'[t].task = threads[t].task
     /\ threads'[t].cookie # NoConn => threads'[t].rpc = "list"
     /\ c \in entries'[task_cache_map[threads[t].task]].active
     /\ threads'[t].pc = "using" =>
          /\ conns'[c].status = "open"
          /\ conns'[c].dir = IF threads'[t].cookie = NoConn THEN NoDir ELSE threads'[t].dir
     /\ threads'[t].pc = "drop" => conns'[c].status = "closed"
     /\ threads'[t].pc = "release" =>
          /\ threads'[t].entry = task_cache_map[threads[t].task]
          /\ conns'[c].status = (IF threads'[t].reuse THEN "open" ELSE "closed")
          /\ conns'[c].dir = NoDir

\* The cookie t may leave.
CookiesAfter(t, c) ==
  \/ cookies' = cookies
  \/ /\ threads'[t] = Idle
     /\ \A e \in Entries : InUse(e) => c \notin Pooled(e)'
     /\ conns'[c].status = "open"
     /\ \E ck : /\ cookies' = cookies \cup {ck} /\ ck.conn = c
                /\ ck.task = threads[t].task /\ ck.dir = conns'[c].dir

\* c is not forgotten in the step.
AccountedAfter(t, c) ==
  /\ Claim(t) \in {c, NoConn}
  /\ \A e \in Entries : InUse(e) /\ c \in entries'[e].active =>
       \/ threads'[t].conn = c
       \/ \E ck \in cookies' : ck.conn = c /\ ck.task = threads[t].task
  /\ conns'[c].status = "open" => \E e \in Entries : InUse(e) /\ c \in Has(e)'

\* A step of one thread that moves one connection keeps the invariant, when its place, its
\* thread and its cookies fit together after the step.
LEMMA OneConnectionStep ==
  ASSUME PoolInv, TypeOK', NEW t \in Threads, NEW c \in Conns,
         threads[t].pc \in {"entry", "using", "drop", "release"},
         OthersUntouched(t, c), PlaceAfter(t, c), ThreadAfter(t, c), CookiesAfter(t, c)
  PROVE  /\ PoolInv'
         /\ AllAccountedFor /\ AccountedAfter(t, c) => AllAccountedFor'
  <1> USE DEF OthersUntouched, PlaceAfter, ThreadAfter, CookiesAfter
  <1> DEFINE k == threads[t].task
  <1>1. TypeOK /\ k \in Tasks /\ task_cache_map[k] \in Entries
    BY ThreadFacts DEF PoolInv, BusyStays
  <1>2. InUse(task_cache_map[k])
    BY <1>1 DEF InUse, Mapped
  <1>3. \A e \in Entries : InUse(e)' <=> InUse(e)
    <2> SUFFICES ASSUME NEW e \in Entries PROVE InUse(e)' <=> InUse(e)
      OBVIOUS
    <2>1. Mapped' = Mapped
      BY DEF Mapped
    <2>2. threads'[t].pc # "purge"
      BY IdleType
    <2>3. (\E u \in Threads : threads'[u].pc = "purge" /\ threads'[u].entry = e)
            <=> (\E u \in Threads : threads[u].pc = "purge" /\ threads[u].entry = e)
      BY <2>2
    <2> QED BY <2>1, <2>3 DEF InUse
  <1>4. EntriesOwned'
    <2>1. Mapped' = Mapped
      BY DEF Mapped
    <2>2. threads'[t].pc # "purge"
      BY IdleType
    <2> QED BY <2>1, <2>2 DEF PoolInv, EntriesOwned
  <1>5. BusyStays'
    <2> SUFFICES ASSUME NEW u \in Threads,
                        threads'[u].pc \in {"entry", "using", "drop", "release"}
                 PROVE  LET f == task_cache_map'[threads'[u].task] IN
                        /\ f \in Entries /\ entries'[f].idle <= TaskInactive
                        /\ threads'[u].pc \in {"entry", "release"} => threads'[u].entry = f
      BY DEF BusyStays
    <2>1. CASE u = t
      <3>1. threads'[t].pc \in {"using", "drop", "release"} /\ threads'[t].task = k
        BY <2>1, IdleType
      <3> QED BY <1>1, <2>1, <3>1, IdleType DEF PoolInv, BusyStays
    <2>2. CASE u # t
      BY <2>2 DEF PoolInv, BusyStays
    <2> QED BY <2>1, <2>2
  <1>6. ConnsPlaced'
    <2> SUFFICES ASSUME NEW e \in Entries, InUse(e)
                 PROVE  /\ \A f \in Entries : InUse(f) /\ f # e => Has(e)' \cap Has(f)' = {}
                        /\ entries'[e].active \cap Pooled(e)' = {}
                        /\ IsInjective(entries'[e].inactive)
                        /\ \A x \in entries'[e].active : conns'[x].status # "none"
                        /\ \A x \in Pooled(e)' : conns'[x].status = "open" /\ conns'[x].dir = NoDir
      BY <1>3 DEF ConnsPlaced
    <2>0. \A f \in Entries : /\ entries'[f].active \subseteq Conns /\ Pooled(f)' \subseteq Conns
                             /\ Has(f)' = entries'[f].active \cup Pooled(f)'
                             /\ Has(f) = entries[f].active \cup Pooled(f)
      <3> SUFFICES ASSUME NEW f \in Entries
                   PROVE  entries'[f].active \subseteq Conns /\ Pooled(f)' \subseteq Conns
        BY DEF Has
      <3>1. entries'[f].active \subseteq Conns /\ entries'[f].inactive \in Seq(Conns)
        BY DEF TypeOK, EntryType
      <3>2. \A i \in DOMAIN entries'[f].inactive : entries'[f].inactive[i] \in Conns
        BY <3>1
      <3> QED BY <3>1, <3>2 DEF Pooled, ToSet
    <2>1. ASSUME NEW f \in Entries, InUse(f), f # e, NEW x \in Has(e)', x \in Has(f)'
          PROVE  FALSE
      <3>1. CASE x = c
        BY <2>1, <3>1
      <3>2. CASE x # c
        <4>1. x \in Has(e) /\ x \in Has(f)
          BY <2>0, <2>1, <3>2
        <4> QED BY <2>1, <4>1 DEF PoolInv, ConnsPlaced
      <3> QED BY <3>1, <3>2
    <2>2. \A x \in entries'[e].active : x \notin Pooled(e)'
      BY <2>0 DEF PoolInv, ConnsPlaced
    <2>3. \A x \in entries'[e].active : conns'[x].status # "none"
      BY <2>0 DEF PoolInv, ConnsPlaced
    <2>4. \A x \in Pooled(e)' : conns'[x].status = "open" /\ conns'[x].dir = NoDir
      BY <2>0 DEF PoolInv, ConnsPlaced
    <2> QED BY <2>1, <2>2, <2>3, <2>4
  <1>7. HeldIsActive'
    <2> SUFFICES ASSUME NEW u \in Threads, threads'[u].pc \in {"using", "drop", "release"}
                 PROVE  LET x == threads'[u].conn IN
                        /\ x \in entries'[task_cache_map'[threads'[u].task]].active
                        /\ threads'[u].pc = "using" => conns'[x].status = "open"
                        /\ threads'[u].pc = "drop" => conns'[x].status = "closed"
                        /\ threads'[u].pc = "release" =>
                             /\ conns'[x].status = (IF threads'[u].reuse THEN "open" ELSE "closed")
                             /\ conns'[x].dir = NoDir
      BY DEF HeldIsActive
    <2>1. CASE u = t
      BY <2>1, IdleType
    <2>2. CASE u # t
      <3>1. /\ threads'[u] = threads[u] /\ threads[u].conn # c /\ threads[u].conn \in Conns
            /\ task_cache_map[threads[u].task] \in Entries
        BY <1>1, <2>2, ThreadFacts DEF Claim, PoolInv, BusyStays
      <3> QED BY <3>1 DEF PoolInv, HeldIsActive
    <2> QED BY <2>1, <2>2
  <1>8. /\ \A u \in Threads : u # t => Claim(u)' = Claim(u)
        /\ Claim(t)' = c \/ Claim(t)' = NoConn
        /\ threads'[t] = Idle => Claim(t)' = NoConn
    BY IdleType DEF Claim
  <1>9. ClaimsExclusive'
    <2>1. \A u, v \in Threads : Claim(u)' # NoConn /\ Claim(u)' = Claim(v)' => u = v
      BY <1>8 DEF PoolInv, ClaimsExclusive
    <2>2. \A u \in Threads, ck \in cookies' : Claim(u)' # ck.conn
      <3>1. NoConn # c /\ \A ck \in cookies : ck.conn # NoConn
        BY <1>1, PoolAssumption DEF TypeOK
      <3> QED BY <1>8, <3>1 DEF PoolInv, ClaimsExclusive
    <2>3. \A ck, dk \in cookies' : ck.conn = dk.conn => ck = dk
      BY DEF PoolInv, ClaimsExclusive
    <2> QED BY <2>1, <2>2, <2>3 DEF ClaimsExclusive
  <1>10. ASSUME NEW x \in Conns, x # c, NEW j, NEW d, Resumable(x, j, d)
         PROVE  ResumableNext(x, j, d)
    <2>1. conns'[x].status # "none"
      BY <1>10 DEF Resumable
    <2>2. ASSUME NEW e \in Entries, InUse(e)', x \in Has(e)'
          PROVE  e = task_cache_map'[j] /\ x \in entries'[e].active
                 /\ conns'[x].status = "open" /\ conns'[x].dir = d
      <3>1. x \in Has(e) /\ InUse(e)
        BY <1>3, <1>10, <2>2 DEF Has
      <3> QED BY <1>10, <3>1 DEF Resumable
    <2> QED BY <2>1, <2>2 DEF ResumableNext
  <1>11. ListingsKept'
    <2>1. \A x \in Conns : conns'[x].status = "none" => conns'[x].dir = NoDir
      BY DEF PoolInv, ListingsKept
    <2>2. ASSUME NEW ck \in cookies' PROVE ResumableNext(ck.conn, ck.task, ck.dir)
      <3>1. CASE ck \in cookies
        BY <1>1, <1>10, <3>1 DEF PoolInv, ListingsKept, TypeOK
      <3>2. CASE ck \notin cookies
        <4>1. /\ ck.conn = c /\ ck.task = k /\ ck.dir = conns'[c].dir
              /\ conns'[c].status = "open"
              /\ \A e \in Entries : InUse(e) => c \notin Pooled(e)'
          BY <3>2
        <4> QED BY <1>3, <4>1 DEF ResumableNext, Has
      <3> QED BY <3>1, <3>2
    <2>3. ASSUME NEW u \in Threads
          PROVE  /\ threads'[u].cookie # NoConn => threads'[u].rpc = "list"
                 /\ threads'[u].pc = "entry" /\ threads'[u].cookie # NoConn
                      => ResumableNext(threads'[u].cookie, threads'[u].task, threads'[u].dir)
                 /\ threads'[u].pc = "using" =>
                      conns'[threads'[u].conn].dir =
                        IF threads'[u].cookie = NoConn THEN NoDir ELSE threads'[u].dir
      <3>1. CASE u = t
        BY <3>1, IdleType
      <3>2. CASE u # t
        <4>1. threads'[u] = threads[u] /\ Claim(u) # c
          BY <3>2
        <4>2. threads[u].pc = "entry" /\ threads[u].cookie # NoConn
                => threads[u].cookie \in Conns /\ threads[u].cookie # c
          BY <1>1, <4>1, ThreadFacts DEF Claim
        <4>3. threads[u].pc = "using" => threads[u].conn \in Conns /\ threads[u].conn # c
          BY <1>1, <4>1, ThreadFacts DEF Claim
        <4> QED BY <1>10, <4>1, <4>2, <4>3 DEF PoolInv, ListingsKept
      <3> QED BY <3>1, <3>2
    <2> QED BY <2>1, <2>2, <2>3, ListingsKeptNext
  <1>12. ASSUME AllAccountedFor, AccountedAfter(t, c) PROVE AllAccountedFor'
    <2>0. c # NoConn /\ \A f \in Entries : entries'[f].active \subseteq Conns
      BY PoolAssumption DEF TypeOK, EntryType
    <2>1. ASSUME NEW j \in Tasks, task_cache_map'[j] # NoEntry,
                 NEW x \in entries'[task_cache_map'[j]].active
          PROVE  \/ \E u \in Threads : Claim(u)' = x /\ threads'[u].task = j
                 \/ \E ck \in cookies' : ck.conn = x /\ ck.task = j
      <3>1. PICK f \in Entries : f = task_cache_map[j]
        BY <1>1, <2>1 DEF TypeOK
      <3>2. InUse(f)
        BY <3>1 DEF InUse, Mapped
      <3>3. CASE x = c
        <4>1. f = task_cache_map[k] /\ j = k
          BY <1>1, <2>1, <3>1, <3>2, <3>3 DEF Has, PoolInv, EntriesOwned
        <4>2. CASE threads'[t].conn = c
          BY <1>8, <2>0, <3>3, <4>1, <4>2, IdleType DEF Claim
        <4>3. CASE \E ck \in cookies' : ck.conn = c /\ ck.task = threads[t].task
          BY <3>3, <4>1, <4>3
        <4> QED BY <1>12, <2>1, <3>1, <3>2, <3>3, <4>2, <4>3 DEF AccountedAfter
      <3>4. CASE x # c
        <4>1. x \in entries[f].active /\ x # NoConn
          BY <2>0, <2>1, <3>1, <3>4, PoolAssumption
        <4>2. CASE \E u \in Threads : Claim(u) = x /\ threads[u].task = j
          BY <1>8, <1>12, <3>4, <4>1, <4>2 DEF AccountedAfter
        <4>3. CASE \E ck \in cookies : ck.conn = x /\ ck.task = j
          BY <4>3
        <4> QED BY <1>12, <2>1, <3>1, <4>1, <4>2, <4>3 DEF AllAccountedFor
      <3> QED BY <3>3, <3>4
    <2>2. ASSUME NEW u \in Threads, threads'[u].pc = "purge"
          PROVE  entries'[threads'[u].entry].active = {}
      <3>1. u # t /\ threads'[u] = threads[u]
        BY <2>2, IdleType
      <3>2. /\ threads[u].entry \in Entries /\ InUse(threads[u].entry)
            /\ threads[u].entry # task_cache_map[k]
            /\ entries[threads[u].entry].active = {}
        BY <1>1, <1>12, <2>2, <3>1, ThreadFacts
           DEF InUse, PoolInv, EntriesOwned, Mapped, AllAccountedFor
      <3> QED BY <2>0, <3>1, <3>2 DEF Has
    <2>3. ASSUME NEW x \in Conns, conns'[x].status = "open"
          PROVE  \E f \in Entries : InUse(f)' /\ x \in Has(f)'
      <3>1. CASE x = c
        BY <1>3, <1>12, <2>3, <3>1 DEF AccountedAfter
      <3>2. CASE x # c
        <4>1. PICK f \in Entries : InUse(f) /\ x \in Has(f)
          BY <1>12, <2>3, <3>2 DEF AllAccountedFor
        <4> QED BY <1>3, <3>2, <4>1 DEF Has
      <3> QED BY <3>1, <3>2
    <2> QED BY <2>1, <2>2, <2>3 DEF AllAccountedFor
  <1> QED BY <1>4, <1>5, <1>6, <1>7, <1>9, <1>11, <1>12 DEF PoolInv

\* A step in which no connection moves or changes.
LEMMA NoConnectionStep ==
  ASSUME PoolInv, TypeOK', UNCHANGED <<task_cache_map, cookies>>, BusyStays',
         \A u \in Threads : threads'[u] = threads[u] \/ (threads'[u] = Idle /\ Claim(u) = NoConn /\ threads[u].pc # "purge"),
         \A e \in Entries : /\ entries'[e].active = entries[e].active
                            /\ entries'[e].inactive = entries[e].inactive,
         \A x \in Conns : /\ conns'[x].status = conns[x].status
                          /\ conns'[x].dir = conns[x].dir
  PROVE  Kept
  <1>1. /\ Mapped' = Mapped
        /\ \A e \in Entries : Pooled(e)' = Pooled(e) /\ Has(e)' = Has(e)
    BY DEF Mapped, Pooled, Has
  <1>2. \A u \in Threads : threads'[u].pc # "idle" => threads'[u] = threads[u]
    BY IdleType
  <1>3. \A e \in Entries : InUse(e)' <=> InUse(e)
    BY <1>1, <1>2, IdleType DEF InUse
  <1>4. EntriesOwned'
    BY <1>1, <1>2 DEF PoolInv, EntriesOwned
  <1>5. ConnsPlaced'
    <2> SUFFICES ASSUME NEW e \in Entries, InUse(e)
                 PROVE  /\ \A f \in Entries : InUse(f) /\ f # e => Has(e) \cap Has(f) = {}
                        /\ entries[e].active \cap Pooled(e) = {}
                        /\ IsInjective(entries[e].inactive)
                        /\ \A x \in entries[e].active : conns'[x].status # "none"
                        /\ \A x \in Pooled(e) : conns'[x].status = "open" /\ conns'[x].dir = NoDir
      BY <1>1, <1>3 DEF ConnsPlaced
    <2>1. entries[e].active \subseteq Conns /\ Pooled(e) \subseteq Conns
      <3>1. entries[e].active \subseteq Conns /\ entries[e].inactive \in Seq(Conns)
        BY DEF PoolInv, TypeOK, EntryType
      <3> QED BY <3>1 DEF Pooled, ToSet
    <2> QED BY <2>1 DEF PoolInv, ConnsPlaced
  <1>6. HeldIsActive'
    <2>1. \A u \in Threads : threads'[u].pc \in {"using", "drop", "release"} =>
            /\ threads'[u] = threads[u] /\ threads[u].conn \in Conns
            /\ task_cache_map[threads[u].task] \in Entries
      BY <1>2, ThreadFacts DEF PoolInv, BusyStays
    <2> QED BY <2>1 DEF PoolInv, HeldIsActive
  <1>7. ClaimsExclusive'
    <2>1. \A u \in Threads : Claim(u)' # NoConn => Claim(u)' = Claim(u)
      BY <1>2, IdleType DEF Claim
    <2>2. \A ck \in cookies : ck.conn # NoConn
      BY PoolAssumption DEF PoolInv, TypeOK
    <2> QED BY <2>1, <2>2 DEF PoolInv, ClaimsExclusive
  <1>8. ListingsKept'
    <2>1. ASSUME NEW x \in Conns, NEW j, NEW d, Resumable(x, j, d) PROVE ResumableNext(x, j, d)
      BY <1>1, <1>3, <2>1 DEF Resumable, ResumableNext
    <2>2. \A x \in Conns : conns'[x].status = "none" => conns'[x].dir = NoDir
      BY DEF PoolInv, ListingsKept
    <2>3. \A ck \in cookies' : ResumableNext(ck.conn, ck.task, ck.dir)
      BY <2>1 DEF PoolInv, ListingsKept, TypeOK
    <2>4. ASSUME NEW u \in Threads
          PROVE  /\ threads'[u].cookie # NoConn => threads'[u].rpc = "list"
                 /\ threads'[u].pc = "entry" /\ threads'[u].cookie # NoConn
                      => ResumableNext(threads'[u].cookie, threads'[u].task, threads'[u].dir)
                 /\ threads'[u].pc = "using" =>
                      conns'[threads'[u].conn].dir =
                        IF threads'[u].cookie = NoConn THEN NoDir ELSE threads'[u].dir
      <3>1. CASE threads'[u] = threads[u]
        <4>1. /\ threads[u].cookie \in Conns \cup {NoConn}
              /\ threads[u].pc = "using" => threads[u].conn \in Conns
          BY ThreadFacts DEF PoolInv
        <4> QED BY <2>1, <3>1, <4>1 DEF PoolInv, ListingsKept
      <3>2. CASE threads'[u] = Idle
        BY <3>2, IdleType
      <3> QED BY <3>1, <3>2
    <2> QED BY <2>2, <2>3, <2>4, ListingsKeptNext
  <1>9. ASSUME AllAccountedFor PROVE AllAccountedFor'
    <2>1. \A u \in Threads : Claim(u) # NoConn => threads'[u] = threads[u] /\ Claim(u)' = Claim(u)
      BY DEF Claim
    <2>2. \A f \in Entries : NoConn \notin entries[f].active
      BY PoolAssumption DEF PoolInv, TypeOK, EntryType
    <2>3. \A j \in Tasks : task_cache_map[j] # NoEntry => task_cache_map[j] \in Entries
      BY DEF PoolInv, TypeOK
    <2>4. ASSUME NEW j \in Tasks, task_cache_map'[j] # NoEntry,
                 NEW x \in entries'[task_cache_map'[j]].active
          PROVE  \/ \E u \in Threads : Claim(u)' = x /\ threads'[u].task = j
                 \/ \E ck \in cookies' : ck.conn = x /\ ck.task = j
      BY <1>9, <2>1, <2>2, <2>3, <2>4 DEF AllAccountedFor
    <2>5. \A u \in Threads : threads'[u].pc = "purge" =>
            /\ threads'[u] = threads[u] /\ threads[u].entry \in Entries
            /\ entries[threads[u].entry].active = {}
      BY <1>2, <1>9, ThreadFacts DEF AllAccountedFor, PoolInv
    <2>6. \A x \in Conns : conns'[x].status = "open" => \E f \in Entries : InUse(f)' /\ x \in Has(f)'
      BY <1>1, <1>3, <1>9 DEF AllAccountedFor
    <2> QED BY <2>4, <2>5, <2>6 DEF AllAccountedFor
  <1> QED BY <1>4, <1>5, <1>6, <1>7, <1>8, <1>9 DEF PoolInv, Kept

\* The connection a thread has or waits for is nobody else's.
LEMMA ClaimAlone ==
  ASSUME PoolInv, NEW t \in Threads, NEW c \in Conns, Claim(t) = c
  PROVE  /\ \A u \in Threads : u # t => Claim(u) # c
         /\ \A ck \in cookies : ck.conn # c
  BY PoolAssumption DEF PoolInv, ClaimsExclusive

\* The entry of a thread's task, and what is in it.
LEMMA OwnEntry ==
  ASSUME PoolInv, NEW t \in Threads,
         threads[t].pc \in {"entry", "using", "drop", "release"}
  PROVE  LET e == task_cache_map[threads[t].task] IN
         /\ threads[t].task \in Tasks /\ e \in Entries /\ InUse(e)
         /\ threads[t].pc \in {"entry", "release"} => threads[t].entry = e
         /\ entries[e].active \in SUBSET Conns /\ entries[e].inactive \in Seq(Conns)
         /\ Pooled(e) \in SUBSET Conns
  <1> DEFINE e == task_cache_map[threads[t].task]
  <1>1. threads[t].task \in Tasks /\ e \in Entries
    BY ThreadFacts DEF PoolInv, BusyStays
  <1>2. InUse(e)
    BY <1>1 DEF InUse, Mapped
  <1>3. entries[e].active \in SUBSET Conns /\ entries[e].inactive \in Seq(Conns)
    BY <1>1 DEF PoolInv, TypeOK, EntryType
  <1>4. Pooled(e) \in SUBSET Conns
    BY <1>3 DEF Pooled, ToSet
  <1> QED BY <1>1, <1>2, <1>3, <1>4 DEF PoolInv, BusyStays

\* The connection of a thread is active in its task's entry, and nowhere else.
LEMMA OwnConnection ==
  ASSUME PoolInv, NEW t \in Threads, threads[t].pc \in {"using", "drop", "release"}
  PROVE  LET e == task_cache_map[threads[t].task]
             c == threads[t].conn
         IN /\ c \in Conns /\ Claim(t) = c /\ c \in entries[e].active
            /\ \A f \in Entries : InUse(f) /\ c \in Has(f) => f = e
            /\ \A f \in Entries : InUse(f) => c \notin Pooled(f)
            /\ conns[c].status # "none"
            /\ \A f \in Entries : InUse(f) => IsInjective(entries[f].inactive)
  <1> DEFINE e == task_cache_map[threads[t].task]
             c == threads[t].conn
  <1>1. c \in Conns /\ Claim(t) = c /\ c \in entries[e].active
    BY ThreadFacts DEF PoolInv, HeldIsActive, Claim
  <1>2. e \in Entries /\ InUse(e) /\ c \in Has(e)
    BY <1>1, OwnEntry DEF Has
  <1> HIDE DEF e, c
  <1>3. \A f \in Entries : InUse(f) /\ c \in Has(f) => f = e
    BY <1>2 DEF PoolInv, ConnsPlaced
  <1>4. \A f \in Entries : InUse(f) => c \notin Pooled(f)
    BY <1>1, <1>2, <1>3 DEF PoolInv, ConnsPlaced, Has
  <1> QED BY <1>1, <1>2, <1>3, <1>4 DEF PoolInv, ConnsPlaced, e, c

\* ReleaseSmbConnection, first section, keeps the invariant.
LEMMA LookupForReleaseInv ==
  ASSUME PoolInv, TypeOK', NEW t \in Threads, NEW b \in BOOLEAN,
         \/ threads[t].pc = "using" /\ b = TRUE
         \/ threads[t].pc = "drop" /\ b = FALSE,
         LookupForRelease(t, conns, b)
  PROVE  Kept
  <1> DEFINE e == task_cache_map[threads[t].task]
             c == threads[t].conn
  <1>1. /\ e \in Entries /\ InUse(e) /\ c \in Conns /\ Claim(t) = c /\ c \in entries[e].active
        /\ conns[c].status # "none"
        /\ \A f \in Entries : InUse(f) /\ c \in Has(f) => f = e
        /\ \A f \in Entries : InUse(f) => c \notin Pooled(f)
        /\ \A f \in Entries : InUse(f) => IsInjective(entries[f].inactive)
    BY OwnEntry, OwnConnection
  <1>2. /\ UNCHANGED <<task_cache_map, entries, cookies>>
        /\ conns' = [conns EXCEPT ![c].dir = NoDir, ![c].fetched = 0]
        /\ threads' = [threads EXCEPT ![t] = [@ EXCEPT !.pc = "release", !.entry = e,
                                                       !.reuse = b]]
    BY <1>1, PoolAssumption DEF LookupForRelease
  <1>3. threads[t] \in ThreadType /\ conns[c] \in ConnType
    BY <1>1 DEF PoolInv, TypeOK
  <1>4. /\ threads'[t].pc = "release" /\ threads'[t].entry = e /\ threads'[t].reuse = b
        /\ threads'[t].conn = c /\ threads'[t].task = threads[t].task
        /\ threads'[t].cookie = threads[t].cookie /\ threads'[t].rpc = threads[t].rpc
        /\ \A u \in Threads : u # t => threads'[u] = threads[u]
    BY <1>2, <1>3 DEF PoolInv, TypeOK, ThreadType
  <1>5. /\ conns'[c].status = conns[c].status /\ conns'[c].dir = NoDir
        /\ \A x \in Conns : x # c => conns'[x] = conns[x]
    BY <1>1, <1>2, <1>3 DEF PoolInv, TypeOK, ConnType
  <1>6. conns[c].status = (IF b THEN "open" ELSE "closed")
    BY DEF PoolInv, HeldIsActive
  <1>7. /\ \A u \in Threads : u # t => Claim(u) # c
        /\ \A ck \in cookies : ck.conn # c
    BY <1>1, ClaimAlone
  <1>8. threads[t].cookie # NoConn => threads[t].rpc = "list"
    BY DEF PoolInv, ListingsKept
  <1>9. \A f \in Entries : Pooled(f)' = Pooled(f) /\ Has(f)' = Has(f)
    BY <1>2 DEF Pooled, Has
  <1> HIDE DEF c
  <1>10. OthersUntouched(t, c)
    BY <1>2, <1>4, <1>5, <1>7, <1>9 DEF OthersUntouched
  <1>11. PlaceAfter(t, c)
    BY <1>1, <1>2, <1>5, <1>9 DEF PlaceAfter
  <1>12. ThreadAfter(t, c)
    BY <1>1, <1>2, <1>4, <1>5, <1>6, <1>8 DEF ThreadAfter
  <1>13. CookiesAfter(t, c)
    BY <1>2 DEF CookiesAfter
  <1>14. AccountedAfter(t, c)
    BY <1>1, <1>4, <1>9 DEF AccountedAfter, Has
  <1> QED BY <1>1, <1>10, <1>11, <1>12, <1>13, <1>14, OneConnectionStep DEF Kept

\* A thread that shuts its own connection down keeps the invariant.
LEMMA ShutdownInRpcInv ==
  ASSUME PoolInv, TypeOK', NEW t \in Threads, ShutdownInRpc(t)
  PROVE  Kept
  <1> DEFINE e == task_cache_map[threads[t].task]
             c == threads[t].conn
  <1>0. /\ threads[t].pc = "using" /\ conns' = Shutdown(conns, {c})
        /\ threads' = [threads EXCEPT ![t].pc = "drop"]
        /\ UNCHANGED <<task_cache_map, entries, cookies>>
    BY DEF ShutdownInRpc
  <1>1. /\ e \in Entries /\ c \in Conns /\ Claim(t) = c /\ c \in entries[e].active
        /\ \A f \in Entries : InUse(f) /\ c \in Has(f) => f = e
        /\ \A f \in Entries : InUse(f) => c \notin Pooled(f)
        /\ \A f \in Entries : InUse(f) => IsInjective(entries[f].inactive)
    BY <1>0, OwnEntry, OwnConnection
  <1>2. threads[t] \in ThreadType /\ conns[c] \in ConnType
    BY <1>1 DEF PoolInv, TypeOK
  <1>3. /\ threads'[t].pc = "drop" /\ threads'[t].conn = c /\ threads'[t].task = threads[t].task
        /\ threads'[t].cookie = threads[t].cookie /\ threads'[t].rpc = threads[t].rpc
        /\ \A u \in Threads : u # t => threads'[u] = threads[u]
    BY <1>0, <1>2 DEF PoolInv, TypeOK, ThreadType
  <1>4. /\ conns'[c].status = "closed"
        /\ \A x \in Conns : x # c => conns'[x] = conns[x]
    BY <1>0, <1>1, <1>2 DEF Shutdown, ConnType
  <1>5. /\ \A u \in Threads : u # t => Claim(u) # c
        /\ \A ck \in cookies : ck.conn # c
    BY <1>1, ClaimAlone
  <1>6. threads[t].cookie # NoConn => threads[t].rpc = "list"
    BY DEF PoolInv, ListingsKept
  <1>7. \A f \in Entries : Pooled(f)' = Pooled(f) /\ Has(f)' = Has(f)
    BY <1>0 DEF Pooled, Has
  <1> HIDE DEF c
  <1>8. OthersUntouched(t, c)
    BY <1>0, <1>3, <1>4, <1>5, <1>7 DEF OthersUntouched
  <1>9. PlaceAfter(t, c)
    BY <1>0, <1>1, <1>4, <1>7 DEF PlaceAfter
  <1>10. ThreadAfter(t, c)
    BY <1>0, <1>1, <1>3, <1>4, <1>6 DEF ThreadAfter
  <1>11. CookiesAfter(t, c)
    BY <1>0 DEF CookiesAfter
  <1>12. AccountedAfter(t, c)
    BY <1>1, <1>3, <1>4 DEF AccountedAfter
  <1> QED BY <1>0, <1>1, <1>8, <1>9, <1>10, <1>11, <1>12, OneConnectionStep DEF Kept

\* A thread that forgets its connection leaves it in active_connection_map.
LEMMA FinishCreateEntityInv ==
  ASSUME PoolInv, TypeOK', NEW t \in Threads, FinishCreateEntity(t)
  PROVE  PoolInv'
  <1> DEFINE e == task_cache_map[threads[t].task]
             c == threads[t].conn
  <1>0. /\ threads[t].pc = "using" /\ threads' = [threads EXCEPT ![t] = Idle]
        /\ UNCHANGED <<task_cache_map, entries, conns, cookies>>
    BY DEF FinishCreateEntity
  <1>1. /\ e \in Entries /\ c \in Conns /\ Claim(t) = c /\ c \in entries[e].active
        /\ \A f \in Entries : InUse(f) /\ c \in Has(f) => f = e
        /\ \A f \in Entries : InUse(f) => c \notin Pooled(f)
        /\ conns[c].status # "none"
        /\ \A f \in Entries : InUse(f) => IsInjective(entries[f].inactive)
    BY <1>0, OwnEntry, OwnConnection
  <1>3. threads'[t] = Idle /\ \A u \in Threads : u # t => threads'[u] = threads[u]
    BY <1>0 DEF PoolInv, TypeOK
  <1>5. /\ \A u \in Threads : u # t => Claim(u) # c
        /\ \A ck \in cookies : ck.conn # c
    BY <1>1, ClaimAlone
  <1>7. \A f \in Entries : Pooled(f)' = Pooled(f) /\ Has(f)' = Has(f)
    BY <1>0 DEF Pooled, Has
  <1> HIDE DEF c
  <1>8. OthersUntouched(t, c)
    BY <1>0, <1>3, <1>5, <1>7 DEF OthersUntouched
  <1>9. PlaceAfter(t, c)
    BY <1>0, <1>1, <1>7 DEF PlaceAfter
  <1>10. ThreadAfter(t, c) /\ CookiesAfter(t, c)
    BY <1>0, <1>3 DEF ThreadAfter, CookiesAfter
  <1> QED BY <1>0, <1>1, <1>8, <1>9, <1>10, OneConnectionStep

\* The thread's claim becomes the cookie's.
LEMMA KeepListingInv ==
  ASSUME PoolInv, TypeOK', NEW t \in Threads, KeepListing(t)
  PROVE  Kept
  <1> DEFINE e == task_cache_map[threads[t].task]
             c == threads[t].conn
             d == IF conns[c].dir = NoDir THEN threads[t].dir ELSE conns[c].dir
             n == conns[c].fetched + 1
             ck == [task |-> threads[t].task, dir |-> threads[t].dir, conn |-> c, fetched |-> n]
  <1>0. /\ threads[t].pc = "using" /\ threads' = [threads EXCEPT ![t] = Idle]
        /\ conns' = [conns EXCEPT ![c].dir = d, ![c].fetched = n]
        /\ cookies' = cookies \cup {ck}
        /\ UNCHANGED <<task_cache_map, entries>>
    BY DEF KeepListing
  <1>1. /\ e \in Entries /\ InUse(e) /\ c \in Conns /\ Claim(t) = c /\ c \in entries[e].active
        /\ \A f \in Entries : InUse(f) /\ c \in Has(f) => f = e
        /\ \A f \in Entries : InUse(f) => c \notin Pooled(f)
        /\ conns[c].status # "none"
        /\ \A f \in Entries : InUse(f) => IsInjective(entries[f].inactive)
    BY <1>0, OwnEntry, OwnConnection
  <1>2. d = threads[t].dir /\ conns[c].status = "open"
    BY <1>0 DEF PoolInv, ListingsKept, HeldIsActive
  <1> HIDE DEF d, n
  <1>3. threads'[t] = Idle /\ \A u \in Threads : u # t => threads'[u] = threads[u]
    BY <1>0 DEF PoolInv, TypeOK
  <1>4. /\ conns'[c].status = conns[c].status /\ conns'[c].dir = d
        /\ \A x \in Conns : x # c => conns'[x] = conns[x]
    <2>1. conns[c] \in ConnType
      BY <1>1 DEF PoolInv, TypeOK
    <2> QED BY <1>0, <1>1, <2>1 DEF PoolInv, TypeOK, ConnType
  <1>5. /\ \A u \in Threads : u # t => Claim(u) # c
        /\ \A dk \in cookies : dk.conn # c
    BY <1>1, ClaimAlone
  <1>6. ck.conn = c /\ ck.task = threads[t].task /\ ck.dir = conns'[c].dir
    BY <1>2, <1>4
  <1>7. \A f \in Entries : Pooled(f)' = Pooled(f) /\ Has(f)' = Has(f)
    BY <1>0 DEF Pooled, Has
  <1> HIDE DEF c, ck
  <1>8. OthersUntouched(t, c)
    BY <1>0, <1>3, <1>4, <1>5, <1>7 DEF OthersUntouched
  <1>9. PlaceAfter(t, c)
    BY <1>0, <1>1, <1>4, <1>7 DEF PlaceAfter
  <1>10. ThreadAfter(t, c)
    BY <1>3 DEF ThreadAfter
  <1>11. CookiesAfter(t, c)
    BY <1>0, <1>1, <1>2, <1>3, <1>4, <1>6, <1>7 DEF CookiesAfter
  <1>12. AccountedAfter(t, c)
    BY <1>0, <1>1, <1>6, <1>7 DEF AccountedAfter, Has
  <1> QED BY <1>0, <1>1, <1>8, <1>9, <1>10, <1>11, <1>12, OneConnectionStep DEF Kept

\* ReleaseSmbConnection, second section: from active_connection_map to the
\* inactive connections of the same entry, or away.
LEMMA ReleaseInv ==
  ASSUME PoolInv, TypeOK', NEW t \in Threads, ReleaseSmbConnection(t)
  PROVE  Kept
  <1>a. threads[t].entry \in Entries /\ threads[t].conn \in Conns
    BY ThreadFacts DEF PoolInv, ReleaseSmbConnection
  <1>b. PICK e \in Entries, c \in Conns : e = threads[t].entry /\ c = threads[t].conn
    BY <1>a
  <1>0. /\ threads[t].pc = "release" /\ threads' = [threads EXCEPT ![t] = Idle]
        /\ entries' = [entries EXCEPT ![e].active = @ \ {c},
                                      ![e].inactive = IF threads[t].reuse THEN Append(@, c) ELSE @]
        /\ conns' = IF threads[t].reuse THEN [conns EXCEPT ![c].idle = 0] ELSE conns
        /\ UNCHANGED <<task_cache_map, cookies>>
    BY <1>b DEF ReleaseSmbConnection
  <1>1. /\ e = task_cache_map[threads[t].task] /\ e \in Entries /\ InUse(e)
        /\ c \in Conns /\ Claim(t) = c
        /\ \A f \in Entries : InUse(f) /\ c \in Has(f) => f = e
        /\ \A f \in Entries : InUse(f) => c \notin Pooled(f)
        /\ conns[c].status # "none"
        /\ \A f \in Entries : InUse(f) => IsInjective(entries[f].inactive)
    BY <1>0, <1>b, OwnEntry, OwnConnection
  <1>2. threads[t].reuse => conns[c].status = "open" /\ conns[c].dir = NoDir
    BY <1>0, <1>b DEF PoolInv, HeldIsActive
  <1>3. threads'[t] = Idle /\ \A u \in Threads : u # t => threads'[u] = threads[u]
    BY <1>0 DEF PoolInv, TypeOK
  <1>4. /\ conns'[c].status = conns[c].status /\ conns'[c].dir = conns[c].dir
        /\ \A x \in Conns : x # c => conns'[x] = conns[x]
    <2>1. conns[c] \in ConnType
      BY <1>1 DEF PoolInv, TypeOK
    <2> QED BY SMTT(30), <1>0, <1>1, <2>1 DEF PoolInv, TypeOK, ConnType
  <1>5. /\ \A u \in Threads : u # t => Claim(u) # c
        /\ \A dk \in cookies : dk.conn # c
    BY <1>1, ClaimAlone
  <1>6. entries[e] \in EntryType /\ entries[e].inactive \in Seq(Conns)
    BY <1>1 DEF PoolInv, TypeOK, EntryType
  <1>7. /\ \A f \in Entries : f # e => entries'[f] = entries[f]
        /\ entries'[e].idle = entries[e].idle
        /\ entries'[e].active = entries[e].active \ {c}
        /\ entries'[e].inactive = IF threads[t].reuse THEN Append(entries[e].inactive, c)
                                                      ELSE entries[e].inactive
    BY <1>0, <1>1, <1>6 DEF PoolInv, TypeOK, EntryType
  <1>8. /\ \A f \in Entries : f # e => Pooled(f)' = Pooled(f)
        /\ Pooled(e)' = IF threads[t].reuse THEN Pooled(e) \cup {c} ELSE Pooled(e)
        /\ IsInjective(entries'[e].inactive)
    <2>1. c \notin ToSet(entries[e].inactive) /\ IsInjective(entries[e].inactive)
      BY <1>1 DEF Pooled
    <2>2. /\ ToSet(Append(entries[e].inactive, c)) = ToSet(entries[e].inactive) \cup {c}
          /\ IsInjective(Append(entries[e].inactive, c))
      BY <1>1, <1>6, <2>1, AppendProps
    <2>3. \A f \in Entries : f # e => Pooled(f)' = Pooled(f)
      BY <1>7 DEF Pooled
    <2>4. CASE threads[t].reuse
      <3>1. entries'[e].inactive = Append(entries[e].inactive, c)
        BY <1>7, <2>4
      <3>2. Pooled(e)' = Pooled(e) \cup {c} /\ IsInjective(entries'[e].inactive)
        BY <2>2, <3>1 DEF Pooled
      <3> QED BY <2>3, <2>4, <3>2
    <2>5. CASE ~threads[t].reuse
      <3>1. entries'[e].inactive = entries[e].inactive
        BY <1>7, <2>5
      <3>2. Pooled(e)' = Pooled(e) /\ IsInjective(entries'[e].inactive)
        BY <2>1, <3>1 DEF Pooled
      <3> QED BY <2>3, <2>5, <3>2
    <2> QED BY <2>4, <2>5
  <1>9. OthersUntouched(t, c)
    <2>1. \A f \in Entries, x \in Conns : x # c =>
            /\ x \in entries'[f].active <=> x \in entries[f].active
            /\ x \in Pooled(f)' <=> x \in Pooled(f)
      <3> SUFFICES ASSUME NEW f \in Entries, NEW x \in Conns, x # c
                   PROVE  /\ x \in entries'[f].active <=> x \in entries[f].active
                          /\ x \in Pooled(f)' <=> x \in Pooled(f)
        OBVIOUS
      <3>1. CASE f = e
        BY <1>7, <1>8, <3>1
      <3>2. CASE f # e
        BY <1>7, <1>8, <3>2
      <3> QED BY <3>1, <3>2
    <2>2. \A f \in Entries : entries'[f].idle = entries[f].idle
      BY <1>7
    <2> QED BY <1>0, <1>3, <1>4, <1>5, <2>1, <2>2 DEF OthersUntouched
  <1>10. PlaceAfter(t, c)
    <2>1. \A f \in Entries : InUse(f) => (c \in Has(f)' => f = e)
      BY <1>1, <1>7, <1>8 DEF Has
    <2>2. ASSUME NEW f \in Entries, InUse(f), c \in Pooled(f)' PROVE threads[t].reuse
      <3>1. f # e => Pooled(f)' = Pooled(f)
        BY <1>8
      <3>2. c \notin Pooled(f)
        BY <1>1, <2>2
      <3> QED BY <1>8, <2>2, <3>1, <3>2
    <2>3. \A f \in Entries : InUse(f) => ~(c \in entries'[f].active /\ c \in Pooled(f)')
      BY <1>1, <1>7, <1>8
    <2> QED BY <1>1, <1>2, <1>4, <1>7, <1>8, <2>1, <2>2, <2>3 DEF PlaceAfter
  <1>11. ThreadAfter(t, c) /\ CookiesAfter(t, c)
    BY <1>0, <1>3 DEF ThreadAfter, CookiesAfter
  <1>12. AccountedAfter(t, c)
    <2>1. \A f \in Entries : InUse(f) => c \notin entries'[f].active
      BY <1>1, <1>7 DEF Has
    <2>2. conns'[c].status = "open" => c \in Has(e)'
      BY <1>0, <1>4, <1>8, <1>b DEF Has, PoolInv, HeldIsActive
    <2> QED BY <1>1, <2>1, <2>2 DEF AccountedAfter
  <1> QED BY <1>0, <1>1, <1>9, <1>10, <1>11, <1>12, OneConnectionStep DEF Kept

\* The connection a cookie names is taken, refused or shut down by the one
\* thread that has the cookie.
LEMMA FindByCookieInv ==
  ASSUME PoolInv, TypeOK', NEW t \in Threads, FindByCookie(t)
  PROVE  Kept
  <1>0. /\ threads[t].pc = "entry" /\ threads[t].cookie # NoConn
        /\ UNCHANGED <<task_cache_map, cookies>>
    BY DEF FindByCookie
  <1>1. PICK e \in Entries, c \in Conns : e = threads[t].entry /\ c = threads[t].cookie
    BY <1>0, ThreadFacts DEF PoolInv
  <1>2. \/ /\ threads' = [threads EXCEPT ![t] = Idle]
           /\ UNCHANGED <<entries, conns>> /\ c \notin entries[e].active
        \/ /\ conns' = Shutdown(conns, {c})
           /\ entries' = [entries EXCEPT ![e].active = @ \ {c}]
           /\ threads' = [threads EXCEPT ![t] = Idle]
        \/ /\ conns' = [conns EXCEPT ![c].idle = 0]
           /\ threads' = [threads EXCEPT ![t].pc = "using", ![t].conn = c,
                                         ![t].entry = NoEntry]
           /\ UNCHANGED entries
           /\ c \in entries[e].active
    BY <1>1 DEF FindByCookie
  <1>3. /\ e = task_cache_map[threads[t].task] /\ InUse(e) /\ Claim(t) = c
        /\ Resumable(c, threads[t].task, threads[t].dir)
        /\ threads[t].rpc = "list"
    BY <1>0, <1>1, OwnEntry DEF PoolInv, ListingsKept, Claim
  <1>4. /\ conns[c].status # "none"
        /\ \A f \in Entries : InUse(f) /\ c \in Has(f) =>
             f = e /\ c \in entries[f].active /\ conns[c].status = "open"
             /\ conns[c].dir = threads[t].dir
        /\ \A f \in Entries : InUse(f) => IsInjective(entries[f].inactive)
    BY <1>3 DEF Resumable, PoolInv, ConnsPlaced
  <1>5. \A f \in Entries : InUse(f) => c \notin Pooled(f)
    BY <1>4 DEF Has, PoolInv, ConnsPlaced
  <1>6. /\ \A u \in Threads : u # t => Claim(u) # c
        /\ \A dk \in cookies : dk.conn # c
    BY <1>3, ClaimAlone
  <1>7. /\ \A u \in Threads : u # t => threads'[u] = threads[u]
        /\ \/ threads'[t] = Idle
           \/ /\ threads'[t].pc = "using" /\ threads'[t].conn = c
              /\ threads'[t].task = threads[t].task /\ threads'[t].dir = threads[t].dir
              /\ threads'[t].cookie = c /\ threads'[t].rpc = "list"
              /\ UNCHANGED entries /\ c \in entries[e].active
              /\ conns'[c].status = conns[c].status
    <2>1. threads[t] \in ThreadType /\ conns[c] \in ConnType
      BY DEF PoolInv, TypeOK
    <2>2. CASE threads' = [threads EXCEPT ![t] = Idle]
      BY <2>2 DEF PoolInv, TypeOK
    <2>3. CASE /\ conns' = [conns EXCEPT ![c].idle = 0]
               /\ threads' = [threads EXCEPT ![t].pc = "using", ![t].conn = c,
                                             ![t].entry = NoEntry]
               /\ UNCHANGED entries
               /\ c \in entries[e].active
      <3>1. \A u \in Threads : u # t => threads'[u] = threads[u]
        BY <2>3 DEF PoolInv, TypeOK
      <3>2. threads'[t] = [threads[t] EXCEPT !.pc = "using", !.conn = c, !.entry = NoEntry]
        BY <2>3 DEF PoolInv, TypeOK
      <3>3. conns'[c] = [conns[c] EXCEPT !.idle = 0]
        BY <2>3 DEF PoolInv, TypeOK
      <3>4. conns'[c].status = conns[c].status
        BY <2>1, <3>3 DEF ConnType
      <3>5. /\ threads'[t].pc = "using" /\ threads'[t].conn = c
            /\ threads'[t].task = threads[t].task /\ threads'[t].dir = threads[t].dir
            /\ threads'[t].cookie = c /\ threads'[t].rpc = "list"
        BY <1>1, <1>3, <2>1, <3>2 DEF ThreadType
      <3> QED BY <2>3, <3>1, <3>4, <3>5
    <2> QED BY <1>2, <2>2, <2>3
  <1>8. /\ \A x \in Conns : x # c => conns'[x] = conns[x]
        /\ conns'[c].status # "none"
        /\ conns'[c].dir = conns[c].dir
    <2>1. conns[c] \in ConnType /\ conns \in [Conns -> ConnType]
      BY DEF PoolInv, TypeOK
    <2>2. CASE conns' = conns
      BY <1>4, <2>2
    <2>3. CASE conns' = Shutdown(conns, {c})
      BY <2>1, <2>3 DEF Shutdown, ConnType
    <2>4. CASE conns' = [conns EXCEPT ![c].idle = 0]
      <3>1. conns'[c] = [conns[c] EXCEPT !.idle = 0] /\ \A x \in Conns : x # c => conns'[x] = conns[x]
        BY <2>1, <2>4
      <3> QED BY <1>4, <2>1, <3>1 DEF ConnType
    <2> QED BY <1>2, <2>2, <2>3, <2>4
  <1>9. /\ \A f \in Entries : f # e => entries'[f] = entries[f]
        /\ entries'[e].idle = entries[e].idle
        /\ entries'[e].active = entries[e].active \/ entries'[e].active = entries[e].active \ {c}
        /\ entries'[e].inactive = entries[e].inactive
    <2>1. entries[e] \in EntryType
      BY DEF PoolInv, TypeOK
    <2>2. CASE entries' = entries
      BY <2>2
    <2>3. CASE entries' = [entries EXCEPT ![e].active = @ \ {c}]
      BY <2>1, <2>3 DEF PoolInv, TypeOK, EntryType
    <2> QED BY <1>2, <2>2, <2>3
  <1>10. \A f \in Entries : /\ Pooled(f)' = Pooled(f) /\ entries'[f].inactive = entries[f].inactive
                            /\ entries'[f].active \subseteq entries[f].active
                            /\ entries'[f].idle = entries[f].idle
    BY <1>9 DEF Pooled
  <1>11. OthersUntouched(t, c)
    <2>1. \A f \in Entries, x \in Conns : x # c =>
            (x \in entries'[f].active <=> x \in entries[f].active)
      BY <1>9
    <2> QED BY <1>0, <1>6, <1>7, <1>8, <1>10, <2>1 DEF OthersUntouched
  <1>12. PlaceAfter(t, c)
    <2>1. \A f \in Entries : Has(f)' \subseteq Has(f)
      BY <1>10 DEF Has
    <2> QED BY <1>3, <1>4, <1>5, <1>8, <1>10, <2>1 DEF PlaceAfter
  <1>13. ThreadAfter(t, c)
    <2>1. CASE threads'[t] = Idle
      BY <2>1 DEF ThreadAfter
    <2>2. CASE threads'[t] # Idle
      <3>1. c \in Has(e)
        BY <1>7, <2>2 DEF Has
      <3> QED BY <1>3, <1>4, <1>7, <1>8, <2>2, <3>1, PoolAssumption DEF ThreadAfter
    <2> QED BY <2>1, <2>2
  <1>14. CookiesAfter(t, c)
    BY <1>0 DEF CookiesAfter
  <1>15. ASSUME AllAccountedFor PROVE AccountedAfter(t, c)
    <2>1. CASE /\ UNCHANGED <<entries, conns>> /\ c \notin entries[e].active
      <3>1. \A f \in Entries : InUse(f) => c \notin Has(f)
        BY <1>4, <2>1
      <3>2. conns'[c].status # "open"
        BY <1>15, <2>1, <3>1 DEF AllAccountedFor
      <3> QED BY <1>3, <2>1, <3>1, <3>2 DEF AccountedAfter, Has
    <2>2. CASE /\ conns' = Shutdown(conns, {c})
               /\ entries' = [entries EXCEPT ![e].active = @ \ {c}]
      <3>1. conns'[c].status = "closed"
        BY <2>2 DEF Shutdown, PoolInv, TypeOK, ConnType
      <3>2. \A f \in Entries : InUse(f) => c \notin entries'[f].active
        BY <1>4, <2>2 DEF PoolInv, TypeOK, EntryType, Has
      <3> QED BY <1>3, <3>1, <3>2 DEF AccountedAfter
    <2>3. CASE threads'[t] # Idle
      BY <1>3, <1>7, <2>3 DEF AccountedAfter, Has
    <2>4. CASE /\ conns' = [conns EXCEPT ![c].idle = 0]
               /\ threads' = [threads EXCEPT ![t].pc = "using", ![t].conn = c,
                                             ![t].entry = NoEntry]
      <3>1. threads'[t] # Idle
        BY ZenonT(60), <2>4, IdleType DEF PoolInv, TypeOK, ThreadType
      <3> QED BY <2>3, <3>1
    <2> QED BY <1>2, <2>1, <2>2, <2>4
  <1> QED BY <1>0, <1>11, <1>12, <1>13, <1>14, <1>15, OneConnectionStep DEF Kept

\* Thread t takes connection c into active_connection_map of its task's entry e,
\* from the inactive ones or a new one; nobody had it.
Takes(t, e, c) ==
  /\ UNCHANGED <<task_cache_map, cookies>>
  /\ threads' = [threads EXCEPT ![t].pc = "using", ![t].conn = c, ![t].entry = NoEntry]
  /\ \A u \in Threads : Claim(u) # c
  /\ \A ck \in cookies : ck.conn # c
  /\ \A f \in Entries : InUse(f) /\ f # e => c \notin Has(f)
  /\ conns'[c].status = "open" /\ conns'[c].dir = NoDir
  /\ \A x \in Conns : x # c => conns'[x] = conns[x]
  /\ \A f \in Entries : f # e => entries'[f] = entries[f]
  /\ entries'[e].idle = entries[e].idle
  /\ entries'[e].active = entries[e].active \cup {c}
  /\ Pooled(e)' = Pooled(e) \ {c} /\ IsInjective(entries'[e].inactive)

\* Taking a connection that nobody claims into active_connection_map keeps the invariant.
LEMMA TakeConnectionInv ==
  ASSUME PoolInv, TypeOK', NEW t \in Threads, NEW e \in Entries, NEW c \in Conns,
         threads[t].pc = "entry", threads[t].cookie = NoConn, e = threads[t].entry,
         Takes(t, e, c)
  PROVE  Kept
  <1> USE DEF Takes
  <1>1. e = task_cache_map[threads[t].task] /\ InUse(e)
    BY OwnEntry
  <1>2. /\ \A u \in Threads : u # t => threads'[u] = threads[u]
        /\ threads'[t].pc = "using" /\ threads'[t].conn = c
        /\ threads'[t].task = threads[t].task /\ threads'[t].cookie = NoConn
    <2>1. threads[t] \in ThreadType /\ threads \in [Threads -> ThreadType]
      BY DEF PoolInv, TypeOK
    <2>2. /\ threads'[t] = [threads[t] EXCEPT !.pc = "using", !.conn = c, !.entry = NoEntry]
          /\ \A u \in Threads : u # t => threads'[u] = threads[u]
      BY <2>1
    <2> QED BY <2>1, <2>2 DEF ThreadType
  <1>3. \A f \in Entries : f # e => Pooled(f)' = Pooled(f) /\ Has(f)' = Has(f)
    BY DEF Pooled, Has
  <1>4. OthersUntouched(t, c)
    <2>1. \A f \in Entries, x \in Conns : x # c =>
            /\ x \in entries'[f].active <=> x \in entries[f].active
            /\ x \in Pooled(f)' <=> x \in Pooled(f)
      <3> SUFFICES ASSUME NEW f \in Entries, NEW x \in Conns, x # c
                   PROVE  /\ x \in entries'[f].active <=> x \in entries[f].active
                          /\ x \in Pooled(f)' <=> x \in Pooled(f)
        OBVIOUS
      <3>1. CASE f = e
        BY <3>1
      <3>2. CASE f # e
        BY <1>3, <3>2
      <3> QED BY <3>1, <3>2
    <2> QED BY <1>2, <2>1 DEF OthersUntouched
  <1>5. PlaceAfter(t, c)
    <2> SUFFICES ASSUME NEW f \in Entries, InUse(f)
                 PROVE  /\ IsInjective(entries'[f].inactive)
                        /\ c \in Has(f)' => f = e
                        /\ c \notin Pooled(f)'
      BY <1>1 DEF PlaceAfter
    <2>1. CASE f = e
      BY <2>1
    <2>2. CASE f # e
      <3>1. c \notin Has(f) /\ IsInjective(entries[f].inactive)
        BY <2>2 DEF PoolInv, ConnsPlaced
      <3> QED BY <1>3, <2>2, <3>1 DEF Has
    <2> QED BY <2>1, <2>2
  <1>6. ThreadAfter(t, c)
    BY <1>1, <1>2 DEF ThreadAfter
  <1>7. CookiesAfter(t, c)
    BY DEF CookiesAfter
  <1>8. AccountedAfter(t, c)
    <2>1. Claim(t) = NoConn
      BY DEF Claim
    <2> QED BY <1>1, <1>2, <2>1 DEF AccountedAfter, Has
  <1> QED BY <1>4, <1>5, <1>6, <1>7, <1>8, OneConnectionStep DEF Kept

\* An inactive connection has neither a thread nor a cookie.
LEMMA InactiveUnclaimed ==
  ASSUME PoolInv, NEW e \in Entries, InUse(e), NEW c \in Pooled(e)
  PROVE  /\ \A u \in Threads : Claim(u) # c
         /\ \A ck \in cookies : ck.conn # c
         /\ \A f \in Entries : InUse(f) /\ f # e => c \notin Has(f)
  <1>1. c \in Has(e) /\ c \notin entries[e].active /\ c # NoConn /\ c \in Conns
    <2>1. entries[e].inactive \in Seq(Conns)
      BY DEF PoolInv, TypeOK, EntryType
    <2>2. c \in Conns
      BY <2>1 DEF Pooled, ToSet
    <2> QED BY <2>2, PoolAssumption DEF Has, PoolInv, ConnsPlaced
  <1>2. ASSUME NEW u \in Threads, Claim(u) = c PROVE FALSE
    <2>1. CASE threads[u].pc = "entry"
      <3>1. Resumable(c, threads[u].task, threads[u].dir)
        BY <1>1, <1>2, <2>1 DEF PoolInv, ListingsKept, Claim
      <3> QED BY <1>1, <3>1 DEF Resumable
    <2>2. CASE threads[u].pc # "entry"
      <3>1. threads[u].pc \in {"using", "drop", "release"} /\ threads[u].conn = c
        BY <1>1, <1>2, <2>2, ThreadFacts DEF Claim, PoolInv
      <3> QED BY <3>1, OwnConnection
    <2> QED BY <2>1, <2>2
  <1>3. \A ck \in cookies : ck.conn # c
    BY <1>1 DEF PoolInv, ListingsKept, Resumable
  <1> QED BY <1>1, <1>2, <1>3 DEF PoolInv, ConnsPlaced

\* Taking a connection from inactive_connection_list keeps the invariant.
LEMMA ReuseInactiveInv ==
  ASSUME PoolInv, TypeOK', NEW t \in Threads, ReuseInactive(t)
  PROVE  Kept
  <1>0. /\ threads[t].pc = "entry" /\ threads[t].cookie = NoConn
        /\ UNCHANGED <<task_cache_map, cookies>>
    BY DEF ReuseInactive
  <1>1. PICK e \in Entries : e = threads[t].entry
    BY <1>0, ThreadFacts DEF PoolInv
  <1>2. PICK list \in Seq(Conns) : list = entries[e].inactive
    BY DEF PoolInv, TypeOK, EntryType
  <1>3. PICK i \in DOMAIN list :
          /\ entries' = [entries EXCEPT ![e].active = @ \cup {list[i]},
                                        ![e].inactive = RemoveAt(list, i)]
          /\ conns' = [conns EXCEPT ![list[i]].idle = 0]
          /\ threads' = [threads EXCEPT ![t].pc = "using", ![t].conn = list[i],
                                        ![t].entry = NoEntry]
    BY <1>1, <1>2 DEF ReuseInactive
  <1>4. PICK c \in Conns : c = list[i]
    OBVIOUS
  <1>5. InUse(e) /\ c \in Pooled(e)
    BY <1>0, <1>1, <1>2, <1>4, OwnEntry DEF Pooled, ToSet
  <1>6. conns[c].status = "open" /\ conns[c].dir = NoDir /\ IsInjective(list)
    BY <1>2, <1>5 DEF PoolInv, ConnsPlaced
  <1>7. /\ conns'[c].status = "open" /\ conns'[c].dir = NoDir
        /\ \A x \in Conns : x # c => conns'[x] = conns[x]
    <2>1. conns[c] \in ConnType /\ conns \in [Conns -> ConnType]
      BY DEF PoolInv, TypeOK
    <2>2. conns'[c] = [conns[c] EXCEPT !.idle = 0] /\ \A x \in Conns : x # c => conns'[x] = conns[x]
      BY <1>3, <1>4, <2>1
    <2> QED BY <1>6, <2>1, <2>2 DEF ConnType
  <1>8. /\ \A f \in Entries : f # e => entries'[f] = entries[f]
        /\ entries'[e].idle = entries[e].idle
        /\ entries'[e].active = entries[e].active \cup {c}
        /\ entries'[e].inactive = RemoveAt(list, i)
    <2>1. entries[e] \in EntryType /\ entries \in [Entries -> EntryType]
      BY DEF PoolInv, TypeOK
    <2>2. /\ entries'[e] = [entries[e] EXCEPT !.active = @ \cup {c}, !.inactive = RemoveAt(list, i)]
          /\ \A f \in Entries : f # e => entries'[f] = entries[f]
      BY <1>3, <1>4, <2>1
    <2> QED BY <2>1, <2>2 DEF EntryType
  <1>9. Pooled(e)' = Pooled(e) \ {c} /\ IsInjective(entries'[e].inactive)
    <2>1. i \in 1..Len(list)
      BY LenProperties
    <2>2. ToSet(RemoveAt(list, i)) = ToSet(list) \ {list[i]} /\ IsInjective(RemoveAt(list, i))
      BY <1>6, <2>1, RemoveAtProperties
    <2> QED BY <1>2, <1>4, <1>8, <2>2 DEF Pooled
  <1>10. threads' = [threads EXCEPT ![t].pc = "using", ![t].conn = c, ![t].entry = NoEntry]
    BY <1>3, <1>4
  <1>11. /\ \A u \in Threads : Claim(u) # c
         /\ \A ck \in cookies : ck.conn # c
         /\ \A f \in Entries : InUse(f) /\ f # e => c \notin Has(f)
    BY <1>5, InactiveUnclaimed
  <1>12. Takes(t, e, c)
    BY <1>0, <1>7, <1>8, <1>9, <1>10, <1>11 DEF Takes
  <1> QED BY <1>0, <1>1, <1>12, TakeConnectionInv

\* Making a new connection keeps the invariant.
LEMMA CreateConnectionInv ==
  ASSUME PoolInv, TypeOK', NEW t \in Threads, CreateConnection(t)
  PROVE  Kept
  <1>0. /\ threads[t].pc = "entry" /\ threads[t].cookie = NoConn
        /\ UNCHANGED <<task_cache_map, cookies>>
    BY DEF CreateConnection
  <1>1. PICK e \in Entries : e = threads[t].entry
    BY <1>0, ThreadFacts DEF PoolInv
  <1>2. PICK c \in Conns :
          /\ conns[c].status = "none"
          /\ conns' = [conns EXCEPT ![c].status = "open"]
          /\ entries' = [entries EXCEPT ![e].active = @ \cup {c}]
          /\ threads' = [threads EXCEPT ![t].pc = "using", ![t].conn = c,
                                        ![t].entry = NoEntry]
    BY <1>1 DEF CreateConnection
  <1>3. InUse(e) /\ conns[c].dir = NoDir
    BY <1>0, <1>1, <1>2, OwnEntry DEF PoolInv, ListingsKept
  <1>4. \A f \in Entries : InUse(f) => c \notin Has(f)
    BY <1>2 DEF Has, PoolInv, ConnsPlaced
  <1>5. ASSUME NEW u \in Threads, Claim(u) = c PROVE FALSE
    <2>1. CASE threads[u].pc = "entry"
      BY <1>2, <1>5, <2>1, PoolAssumption DEF PoolInv, ListingsKept, Claim, Resumable
    <2>2. CASE threads[u].pc # "entry"
      <3>1. threads[u].pc \in {"using", "drop", "release"} /\ threads[u].conn = c
        BY <1>5, <2>2, ThreadFacts DEF Claim, PoolInv
      <3> QED BY <1>2, <3>1, OwnConnection
    <2> QED BY <2>1, <2>2
  <1>6. \A ck \in cookies : ck.conn # c
    BY <1>2 DEF PoolInv, ListingsKept, Resumable
  <1>7. /\ conns'[c].status = "open" /\ conns'[c].dir = NoDir
        /\ \A x \in Conns : x # c => conns'[x] = conns[x]
    <2>1. conns[c] \in ConnType /\ conns \in [Conns -> ConnType]
      BY DEF PoolInv, TypeOK
    <2>2. /\ conns'[c] = [conns[c] EXCEPT !.status = "open"]
          /\ \A x \in Conns : x # c => conns'[x] = conns[x]
      BY <1>2, <2>1
    <2> QED BY <1>3, <2>1, <2>2 DEF ConnType
  <1>8. /\ \A f \in Entries : f # e => entries'[f] = entries[f]
        /\ entries'[e].idle = entries[e].idle
        /\ entries'[e].active = entries[e].active \cup {c}
        /\ entries'[e].inactive = entries[e].inactive
    <2>1. entries[e] \in EntryType /\ entries \in [Entries -> EntryType]
      BY DEF PoolInv, TypeOK
    <2>2. /\ entries'[e] = [entries[e] EXCEPT !.active = @ \cup {c}]
          /\ \A f \in Entries : f # e => entries'[f] = entries[f]
      BY <1>2, <2>1
    <2> QED BY <2>1, <2>2 DEF EntryType
  <1>9. Pooled(e)' = Pooled(e) \ {c} /\ IsInjective(entries'[e].inactive)
    BY <1>3, <1>4, <1>8 DEF Pooled, Has, PoolInv, ConnsPlaced
  <1>10. Takes(t, e, c)
    BY <1>0, <1>2, <1>4, <1>5, <1>6, <1>7, <1>8, <1>9 DEF Takes
  <1> QED BY <1>0, <1>1, <1>10, TakeConnectionInv

\* Failing to make a connection keeps the invariant.
LEMMA CreateFailsInv ==
  ASSUME PoolInv, TypeOK', NEW t \in Threads, CreateFails(t)
  PROVE  Kept
  <1>1. /\ threads[t].pc = "entry" /\ threads' = [threads EXCEPT ![t] = Idle]
        /\ UNCHANGED <<task_cache_map, entries, conns, cookies>>
    BY DEF CreateFails
  <1>2. \A u \in Threads : threads'[u] = threads[u] \/ (threads'[u] = Idle /\ Claim(u) = NoConn /\ threads[u].pc # "purge")
    BY <1>1 DEF PoolInv, TypeOK, Claim, CreateFails
  <1>3. BusyStays'
    BY <1>1, <1>2, IdleType DEF PoolInv, BusyStays
  <1> QED BY <1>1, <1>2, <1>3, NoConnectionStep

\* A listing that renews the access time of its task keeps the invariant.
LEMMA ListProgressInv ==
  ASSUME PoolInv, TypeOK', NEW t \in Threads, ListProgress(t)
  PROVE  Kept
  <1> DEFINE e == task_cache_map[threads[t].task]
  <1>1. /\ threads[t].pc = "using" /\ entries' = [entries EXCEPT ![e].idle = 0]
        /\ UNCHANGED <<task_cache_map, conns, threads, cookies>>
    BY DEF ListProgress
  <1>2. e \in Entries /\ entries[e] \in EntryType /\ TaskInactive \in Nat
    BY <1>1, OwnEntry, PoolAssumption DEF PoolInv, TypeOK
  <1>3. /\ \A f \in Entries : /\ entries'[f].active = entries[f].active
                              /\ entries'[f].inactive = entries[f].inactive
                              /\ entries'[f].idle = entries[f].idle \/ entries'[f].idle = 0
    BY <1>1, <1>2 DEF PoolInv, TypeOK, EntryType
  <1>4. BusyStays'
    BY <1>1, <1>2, <1>3 DEF PoolInv, BusyStays
  <1> QED BY <1>1, <1>3, <1>4, NoConnectionStep

\* Time passes, but no RPC outlasts its task's timeout.
LEMMA TickInv ==
  ASSUME PoolInv, CarefulClients, TypeOK', Tick
  PROVE  Kept
  <1>1. UNCHANGED <<task_cache_map, threads, cookies>> /\ TaskInactive \in Nat
    BY PoolAssumption DEF Tick
  <1>2. \A f \in Entries : /\ entries'[f].active = entries[f].active
                           /\ entries'[f].inactive = entries[f].inactive
                           /\ entries'[f].idle \in {entries[f].idle, entries[f].idle + 1}
    BY DEF Tick, PoolInv, TypeOK, EntryType
  <1>3. \A x \in Conns : conns'[x].status = conns[x].status /\ conns'[x].dir = conns[x].dir
    BY DEF Tick, PoolInv, TypeOK, ConnType
  <1>4. BusyStays'
    <2> SUFFICES ASSUME NEW t \in Threads,
                        threads[t].pc \in {"entry", "using", "drop", "release"}
                 PROVE  LET e == task_cache_map[threads[t].task] IN
                        /\ e \in Entries /\ entries'[e].idle <= TaskInactive
                        /\ threads[t].pc \in {"entry", "release"} => threads[t].entry = e
      BY <1>1 DEF BusyStays
    <2>1. PICK k \in Tasks : k = threads[t].task
      BY OwnEntry
    <2>2. PICK e \in Entries : e = task_cache_map[k]
      BY <2>1, OwnEntry
    <2>3. e # NoEntry /\ Busy(k)
      BY <2>1, <2>2, PoolAssumption DEF Busy
    <2>4. entries[e].idle < TaskInactive
      BY <2>2, <2>3 DEF Tick, CarefulClients
    <2>5. entries[e].idle \in Nat
      BY PoolAssumption DEF PoolInv, TypeOK, EntryType
    <2>6. entries'[e].idle <= TaskInactive
      BY <1>1, <1>2, <2>4, <2>5
    <2> QED BY <2>1, <2>2, <2>6, OwnEntry
  <1> QED BY <1>1, <1>2, <1>3, <1>4, NoConnectionStep

\* A step that takes tasks out of the cache or shuts down connections S that no
\* entry in use keeps: SmbProxyPurgeTask and AlarmHandler. No RPC loses its entry.
Purges(S) ==
  /\ conns' = Shutdown(conns, S)
  /\ cookies' = cookies
  /\ \A u \in Threads : threads'[u] # threads[u] =>
       /\ threads'[u].pc \in {"idle", "purge"}
       /\ threads'[u].conn = NoConn /\ threads'[u].cookie = NoConn
  /\ \A e \in Entries : InUse(e)' =>
       /\ InUse(e)
       /\ entries'[e].active = entries[e].active /\ entries[e].active \cap S = {}
       /\ Pooled(e)' = Pooled(e) \ S /\ IsInjective(entries'[e].inactive)
  /\ \A ck \in cookies, e \in Entries :
       InUse(e)' /\ e = task_cache_map[ck.task] => e = task_cache_map'[ck.task]
  /\ \A u \in Threads : threads[u].pc \in {"entry", "using", "drop", "release"} =>
       task_cache_map'[threads[u].task] = task_cache_map[threads[u].task]

\* No connection is forgotten in the step.
AccountedPurge(S) ==
  /\ \A u \in Threads : threads'[u] # threads[u] => threads[u].pc \in {"idle", "purge"}
  /\ \A j \in Tasks : task_cache_map'[j] \in {task_cache_map[j], NoEntry}
  /\ \A e \in Entries : InUse(e) => InUse(e)' \/ Has(e) \subseteq S
  /\ \A u \in Threads : threads'[u].pc = "purge" => entries'[threads'[u].entry].active = {}

\* Shutting down the connections S that no thread and no cookie claims, and taking them out of
\* their entries, keeps the invariant.
LEMMA PurgingStep ==
  ASSUME PoolInv, TypeOK', EntriesOwned', BusyStays', NEW S, Purges(S)
  PROVE  /\ PoolInv'
         /\ AllAccountedFor /\ AccountedPurge(S) => AllAccountedFor'
  <1> USE DEF Purges
  <1>0. \A x \in Conns : /\ x \notin S => conns'[x] = conns[x]
                         /\ conns'[x].dir = conns[x].dir
                         /\ x \in S => conns'[x].status = "closed"
    BY DEF PoolInv, TypeOK, Shutdown, ConnType
  <1>1. \A f \in Entries : /\ entries[f].active \subseteq Conns /\ Pooled(f) \subseteq Conns
                           /\ Has(f) = entries[f].active \cup Pooled(f)
                           /\ Has(f)' = entries'[f].active \cup Pooled(f)'
    <2> SUFFICES ASSUME NEW f \in Entries
                 PROVE  entries[f].active \subseteq Conns /\ Pooled(f) \subseteq Conns
      BY DEF Has
    <2>1. entries[f].active \subseteq Conns /\ entries[f].inactive \in Seq(Conns)
      BY DEF PoolInv, TypeOK, EntryType
    <2> QED BY <2>1 DEF Pooled, ToSet
  <1>2. ConnsPlaced'
    <2> SUFFICES ASSUME NEW e \in Entries, InUse(e)'
                 PROVE  /\ \A f \in Entries : InUse(f)' /\ f # e => Has(e)' \cap Has(f)' = {}
                        /\ entries'[e].active \cap Pooled(e)' = {}
                        /\ IsInjective(entries'[e].inactive)
                        /\ \A x \in entries'[e].active : conns'[x].status # "none"
                        /\ \A x \in Pooled(e)' : conns'[x].status = "open" /\ conns'[x].dir = NoDir
      BY DEF ConnsPlaced
    <2>1. \A f \in Entries : InUse(f)' => Has(f)' \subseteq Has(f)
      BY <1>1
    <2>2. \A f \in Entries : InUse(f)' /\ f # e => Has(e)' \cap Has(f)' = {}
      BY <2>1 DEF PoolInv, ConnsPlaced
    <2>3. entries'[e].active \cap Pooled(e)' = {} /\ IsInjective(entries'[e].inactive)
      BY DEF PoolInv, ConnsPlaced
    <2>4. \A x \in entries'[e].active : conns'[x].status # "none"
      BY <1>0, <1>1 DEF PoolInv, ConnsPlaced
    <2>5. \A x \in Pooled(e)' : conns'[x].status = "open" /\ conns'[x].dir = NoDir
      BY <1>0, <1>1 DEF PoolInv, ConnsPlaced
    <2> QED BY <2>2, <2>3, <2>4, <2>5
  <1>3. \A u \in Threads : threads'[u].pc \in {"entry", "using", "drop", "release"} =>
          /\ threads'[u] = threads[u] /\ threads[u].task \in Tasks
          /\ task_cache_map'[threads[u].task] = task_cache_map[threads[u].task]
          /\ task_cache_map[threads[u].task] \in Entries
          /\ InUse(task_cache_map[threads[u].task])
    BY OwnEntry
  <1>4. HeldIsActive'
    <2> SUFFICES ASSUME NEW u \in Threads, threads'[u].pc \in {"using", "drop", "release"}
                 PROVE  LET x == threads'[u].conn IN
                        /\ x \in entries'[task_cache_map'[threads'[u].task]].active
                        /\ threads'[u].pc = "using" => conns'[x].status = "open"
                        /\ threads'[u].pc = "drop" => conns'[x].status = "closed"
                        /\ threads'[u].pc = "release" =>
                             /\ conns'[x].status = (IF threads'[u].reuse THEN "open" ELSE "closed")
                             /\ conns'[x].dir = NoDir
      BY DEF HeldIsActive
    <2>1. PICK e \in Entries, c \in Conns :
            /\ e = task_cache_map[threads[u].task] /\ c = threads[u].conn
            /\ c \in entries[e].active
      BY <1>3, OwnConnection
    <2>2. threads'[u] = threads[u] /\ e = task_cache_map'[threads[u].task] /\ threads[u].task \in Tasks
      BY <1>3, <2>1
    <2>3. InUse(e)'
      BY <2>2 DEF InUse, Mapped
    <2>4. c \in entries'[e].active /\ c \notin S
      BY <2>1, <2>3
    <2>5. conns'[c] = conns[c]
      BY <1>0, <2>4
    <2> QED BY <2>1, <2>2, <2>4, <2>5 DEF PoolInv, HeldIsActive
  <1>5. ClaimsExclusive'
    <2>1. \A u \in Threads : Claim(u)' # NoConn => Claim(u)' = Claim(u)
      BY DEF Claim
    <2>2. \A ck \in cookies : ck.conn # NoConn
      BY PoolAssumption DEF PoolInv, TypeOK
    <2> QED BY <2>1, <2>2 DEF PoolInv, ClaimsExclusive
  <1>6. ASSUME NEW x \in Conns, NEW j, NEW d, Resumable(x, j, d),
               \A e \in Entries : InUse(e)' /\ e = task_cache_map[j] => e = task_cache_map'[j]
        PROVE  ResumableNext(x, j, d)
    <2>1. conns'[x].status # "none"
      BY <1>0, <1>6 DEF Resumable
    <2>2. ASSUME NEW e \in Entries, InUse(e)', x \in Has(e)'
          PROVE  e = task_cache_map'[j] /\ x \in entries'[e].active
                 /\ conns'[x].status = "open" /\ conns'[x].dir = d
      <3>1. x \in Has(e) /\ InUse(e)
        BY <1>1, <2>2
      <3>2. /\ e = task_cache_map[j] /\ x \in entries[e].active
            /\ conns[x].status = "open" /\ conns[x].dir = d
        BY <1>6, <3>1 DEF Resumable
      <3>3. x \notin S /\ x \in entries'[e].active
        BY <2>2, <3>2
      <3> QED BY <1>0, <1>6, <2>2, <3>2, <3>3
    <2> QED BY <2>1, <2>2 DEF ResumableNext
  <1>7. ListingsKept'
    <2>1. \A x \in Conns : conns'[x].status = "none" => conns'[x].dir = NoDir
      BY <1>0 DEF PoolInv, ListingsKept
    <2>2. \A ck \in cookies' : ResumableNext(ck.conn, ck.task, ck.dir)
      BY <1>6 DEF PoolInv, ListingsKept, TypeOK
    <2>3. ASSUME NEW u \in Threads
          PROVE  /\ threads'[u].cookie # NoConn => threads'[u].rpc = "list"
                 /\ threads'[u].pc = "entry" /\ threads'[u].cookie # NoConn
                      => ResumableNext(threads'[u].cookie, threads'[u].task, threads'[u].dir)
                 /\ threads'[u].pc = "using" =>
                      conns'[threads'[u].conn].dir =
                        IF threads'[u].cookie = NoConn THEN NoDir ELSE threads'[u].dir
      <3>1. CASE threads'[u] = threads[u]
        <4>1. /\ threads[u].cookie \in Conns \cup {NoConn}
              /\ threads[u].pc = "using" => threads[u].conn \in Conns
          BY ThreadFacts DEF PoolInv
        <4>2. threads[u].pc = "entry" /\ threads[u].cookie # NoConn
                => ResumableNext(threads[u].cookie, threads[u].task, threads[u].dir)
          BY <1>3, <1>6, <3>1, <4>1 DEF PoolInv, ListingsKept
        <4> QED BY <1>0, <3>1, <4>1, <4>2 DEF PoolInv, ListingsKept
      <3>2. CASE threads'[u] # threads[u]
        BY <3>2
      <3> QED BY <3>1, <3>2
    <2> QED BY <2>1, <2>2, <2>3, ListingsKeptNext
  <1>8. ASSUME AllAccountedFor, AccountedPurge(S) PROVE AllAccountedFor'
    <2>1. \A u \in Threads : Claim(u) # NoConn => threads'[u] = threads[u] /\ Claim(u)' = Claim(u)
      <3>1. \A u \in Threads : threads[u].pc \in {"idle", "purge"} => Claim(u) = NoConn
        BY ThreadFacts DEF Claim, PoolInv
      <3> QED BY <1>8, <3>1 DEF AccountedPurge, Claim
    <2>2. \A f \in Entries : NoConn \notin entries[f].active
      BY <1>1, PoolAssumption
    <2>3. ASSUME NEW j \in Tasks, task_cache_map'[j] # NoEntry,
                 NEW x \in entries'[task_cache_map'[j]].active
          PROVE  \/ \E u \in Threads : Claim(u)' = x /\ threads'[u].task = j
                 \/ \E ck \in cookies' : ck.conn = x /\ ck.task = j
      <3>1. PICK f \in Entries : f = task_cache_map'[j]
        BY <2>3 DEF TypeOK
      <3>2. f = task_cache_map[j]
        BY <1>8, <2>3, <3>1 DEF AccountedPurge
      <3>3. InUse(f)'
        BY <3>1 DEF InUse, Mapped
      <3>4. x \in entries[f].active /\ x # NoConn /\ task_cache_map[j] # NoEntry
        BY <2>2, <2>3, <3>1, <3>2, <3>3
      <3> QED BY <1>8, <2>1, <3>2, <3>4 DEF AllAccountedFor
    <2>4. ASSUME NEW x \in Conns, conns'[x].status = "open"
          PROVE  \E f \in Entries : InUse(f)' /\ x \in Has(f)'
      <3>1. x \notin S /\ conns[x].status = "open"
        BY <1>0, <2>4
      <3>2. PICK f \in Entries : InUse(f) /\ x \in Has(f)
        BY <1>8, <3>1 DEF AllAccountedFor
      <3>3. InUse(f)'
        BY <1>8, <3>1, <3>2 DEF AccountedPurge
      <3> QED BY <1>1, <3>1, <3>2, <3>3
    <2> QED BY <1>8, <2>3, <2>4 DEF AllAccountedFor, AccountedPurge
  <1> QED BY <1>2, <1>4, <1>5, <1>7, <1>8 DEF PoolInv

\* The first section of SmbProxyPurgeTask, which forgets the task, keeps the invariant.
LEMMA PurgeTaskInv ==
  ASSUME PoolInv, CarefulClients, TypeOK', NEW t \in Threads, NEW k \in Tasks, PurgeTask(t, k)
  PROVE  Kept
  <1>0. /\ threads[t].pc = "idle" /\ Finished(k)
        /\ task_cache_map' = [task_cache_map EXCEPT ![k] = NoEntry]
        /\ threads' = [threads EXCEPT ![t] = [Idle EXCEPT !.pc = "purge", !.rpc = "purge",
                                                   !.task = k, !.entry = task_cache_map[k]]]
        /\ UNCHANGED <<entries, conns, cookies>>
    BY DEF PurgeTask, CarefulClients
  <1>1. PICK e \in Entries : e = task_cache_map[k]
    BY DEF PurgeTask, PoolInv, TypeOK
  <1>2. /\ \A u \in Threads : u # t => threads'[u] = threads[u]
        /\ threads'[t].pc = "purge" /\ threads'[t].entry = e
        /\ threads'[t].conn = NoConn /\ threads'[t].cookie = NoConn
    BY <1>0, <1>1, IdleType DEF PoolInv, TypeOK, ThreadType
  <1>3. /\ task_cache_map'[k] = NoEntry
        /\ \A j \in Tasks : j # k => task_cache_map'[j] = task_cache_map[j]
        /\ \A j \in Tasks : j # k => task_cache_map[j] # e
    BY <1>0, <1>1, PoolAssumption DEF PoolInv, TypeOK, EntriesOwned
  <1>4. Mapped' = Mapped \ {e} /\ e \in Mapped
    BY <1>1, <1>3, PoolAssumption DEF Mapped
  <1>5. \A u \in Threads : threads[u].pc # "idle" => u # t /\ threads[u].task # k /\ threads[u].task \in Tasks
    BY <1>0, ThreadFacts DEF Finished, Busy, PoolInv
  <1>6. EntriesOwned'
    <2>1. \A i, j \in Tasks : task_cache_map'[i] = task_cache_map'[j] /\ task_cache_map'[i] # NoEntry
                                => i = j
      BY <1>3 DEF PoolInv, EntriesOwned
    <2>2. \A u \in Threads : threads'[u].pc = "purge" => threads'[u].entry \notin Mapped'
      BY <1>2, <1>4 DEF PoolInv, EntriesOwned
    <2>3. \A u, v \in Threads : threads'[u].pc = "purge" /\ threads'[v].pc = "purge"
                                  /\ threads'[u].entry = threads'[v].entry => u = v
      BY <1>2, <1>4 DEF PoolInv, EntriesOwned
    <2> QED BY <2>1, <2>2, <2>3 DEF EntriesOwned
  <1>7. BusyStays'
    <2> SUFFICES ASSUME NEW u \in Threads,
                        threads'[u].pc \in {"entry", "using", "drop", "release"}
                 PROVE  LET f == task_cache_map'[threads'[u].task] IN
                        /\ f \in Entries /\ entries'[f].idle <= TaskInactive
                        /\ threads'[u].pc \in {"entry", "release"} => threads'[u].entry = f
      BY DEF BusyStays
    <2>1. u # t /\ threads'[u] = threads[u] /\ task_cache_map'[threads[u].task] = task_cache_map[threads[u].task]
      BY <1>2, <1>3, <1>5
    <2> QED BY <1>0, <2>1 DEF PoolInv, BusyStays
  <1>8. \A f \in Entries : InUse(f)' <=> InUse(f)
    <2>1. ASSUME NEW f \in Entries, f # e PROVE InUse(f)' <=> InUse(f)
      <3>1. (\E u \in Threads : threads'[u].pc = "purge" /\ threads'[u].entry = f)
              <=> (\E u \in Threads : threads[u].pc = "purge" /\ threads[u].entry = f)
        BY <1>0, <1>2, <2>1
      <3> QED BY <1>4, <2>1, <3>1 DEF InUse
    <2>2. InUse(e)' /\ InUse(e)
      BY <1>2, <1>4 DEF InUse
    <2> QED BY <2>1, <2>2
  <1>9. conns = Shutdown(conns, {})
    BY DEF Shutdown, PoolInv, TypeOK
  <1>10. Purges({})
    <2>1. \A f \in Entries : InUse(f)' =>
            /\ InUse(f) /\ Pooled(f)' = Pooled(f) \ {} /\ IsInjective(entries'[f].inactive)
      BY <1>0, <1>8 DEF Pooled, PoolInv, ConnsPlaced
    <2>2. \A ck \in cookies : ck.task # k /\ ck.task \in Tasks
      BY <1>0 DEF Finished, PoolInv, TypeOK
    <2> QED BY <1>0, <1>2, <1>3, <1>5, <1>9, <2>1, <2>2 DEF Purges
  <1>11. ASSUME AllAccountedFor PROVE AccountedPurge({})
    <2>1. entries[e].active = {}
      <3> SUFFICES ASSUME NEW x \in entries[e].active PROVE FALSE
        OBVIOUS
      <3>1. e # NoEntry /\ x # NoConn
        BY PoolAssumption DEF PoolInv, TypeOK, EntryType
      <3>2. ~\E ck \in cookies : ck.conn = x /\ ck.task = k
        BY <1>0 DEF Finished
      <3>3. PICK u \in Threads : Claim(u) = x /\ threads[u].task = k
        BY <1>1, <1>11, <3>1, <3>2 DEF AllAccountedFor
      <3>4. threads[u].pc = "idle"
        BY <1>5, <3>3
      <3> QED BY <3>1, <3>3, <3>4, ThreadFacts DEF Claim, PoolInv
    <2>2. \A u \in Threads : threads'[u].pc = "purge" => entries'[threads'[u].entry].active = {}
      BY <1>0, <1>2, <1>11, <2>1 DEF AllAccountedFor
    <2>3. \A u \in Threads : threads'[u] # threads[u] => threads[u].pc = "idle"
      BY <1>0, <1>2
    <2> QED BY <1>3, <1>8, <2>2, <2>3 DEF AccountedPurge
  <1> QED BY <1>6, <1>7, <1>10, <1>11, PurgingStep DEF Kept

\* The second section of SmbProxyPurgeTask, which shuts the connections down, keeps the invariant.
LEMMA PurgeConnectionsInv ==
  ASSUME PoolInv, TypeOK', NEW t \in Threads, PurgeConnections(t)
  PROVE  Kept
  <1>0. /\ threads[t].pc = "purge" /\ threads' = [threads EXCEPT ![t] = Idle]
        /\ UNCHANGED <<task_cache_map, cookies>>
    BY DEF PurgeConnections
  <1>1. PICK e \in Entries : e = threads[t].entry
    BY <1>0, ThreadFacts DEF PoolInv
  <1>2. PICK S : /\ S = IF entries[e].active # {} THEN {} ELSE Has(e)
                 /\ conns' = Shutdown(conns, S)
    <2>1. CASE entries[e].active # {}
      <3>1. conns' = Shutdown(conns, {})
        BY <1>1, <2>1 DEF PurgeConnections, Shutdown, PoolInv, TypeOK
      <3> QED BY <2>1, <3>1
    <2>2. CASE entries[e].active = {}
      BY <1>1, <2>2 DEF PurgeConnections, PurgeAll, Has
    <2> QED BY <2>1, <2>2
  <1>3. \A f \in Entries : f # e => entries'[f] = entries[f]
    BY <1>1 DEF PurgeConnections, PoolInv, TypeOK
  <1>4. \A f \in Entries : entries'[f].idle = entries[f].idle
    <2>1. entries[e] \in EntryType /\ entries \in [Entries -> EntryType]
      BY DEF PoolInv, TypeOK
    <2>2. entries' = entries \/ entries'[e] = [entries[e] EXCEPT !.active = {}, !.inactive = <<>>]
      BY <1>1, <2>1 DEF PurgeConnections
    <2>3. entries'[e].idle = entries[e].idle
      BY <2>1, <2>2 DEF EntryType
    <2> QED BY <1>3, <2>3
  <1>5. threads'[t] = Idle /\ \A u \in Threads : u # t => threads'[u] = threads[u]
    BY <1>0 DEF PoolInv, TypeOK
  <1>6. Mapped' = Mapped
    BY <1>0 DEF Mapped
  <1>7. \A f \in Entries : InUse(f)' => InUse(f) /\ f # e
    BY <1>0, <1>1, <1>5, <1>6, IdleType DEF InUse, PoolInv, EntriesOwned
  <1>8. EntriesOwned'
    BY <1>0, <1>5, <1>6, IdleType DEF PoolInv, EntriesOwned
  <1>9. BusyStays'
    <2>1. \A u \in Threads : threads'[u].pc \in {"entry", "using", "drop", "release"}
            => threads'[u] = threads[u]
      BY <1>5, IdleType
    <2> QED BY <1>0, <1>4, <2>1 DEF PoolInv, BusyStays
  <1>10. Purges(S)
    <2>1. InUse(e)
      BY <1>0, <1>1 DEF InUse
    <2>2. ASSUME NEW f \in Entries, InUse(f)'
          PROVE  /\ InUse(f)
                 /\ entries'[f].active = entries[f].active /\ entries[f].active \cap S = {}
                 /\ Pooled(f)' = Pooled(f) \ S /\ IsInjective(entries'[f].inactive)
      <3>1. InUse(f) /\ f # e
        BY <1>7, <2>2
      <3>2. Has(f) \cap S = {}
        BY <1>2, <2>1, <3>1 DEF PoolInv, ConnsPlaced
      <3>3. IsInjective(entries[f].inactive) /\ entries'[f] = entries[f] /\ Pooled(f)' = Pooled(f)
        BY <1>3, <3>1 DEF PoolInv, ConnsPlaced, Pooled
      <3> QED BY <3>1, <3>2, <3>3 DEF Has
    <2> QED BY <1>0, <1>2, <1>5, <2>2, IdleType DEF Purges
  <1>11. ASSUME AllAccountedFor PROVE AccountedPurge(S)
    <2>1. entries[e].active = {}
      BY <1>0, <1>1, <1>11 DEF AllAccountedFor
    <2>2. Has(e) \subseteq S
      BY <1>2, <2>1
    <2>3. \A f \in Entries : InUse(f) /\ f # e => InUse(f)'
      BY <1>0, <1>1, <1>5, <1>6 DEF InUse
    <2>4. \A u \in Threads : threads'[u].pc = "purge" =>
            /\ threads'[u] = threads[u] /\ threads[u].entry \in Entries /\ threads[u].entry # e
            /\ entries[threads[u].entry].active = {}
      BY <1>0, <1>1, <1>5, <1>11, IdleType, ThreadFacts DEF PoolInv, EntriesOwned, AllAccountedFor
    <2>5. \A u \in Threads : threads'[u] # threads[u] => threads[u].pc = "purge"
      BY <1>0, <1>5
    <2> QED BY <1>0, <1>3, <2>2, <2>3, <2>4, <2>5 DEF AccountedPurge
  <1> QED BY <1>8, <1>9, <1>10, <1>11, PurgingStep DEF Kept

\* AlarmHandler purges no task that an RPC is running for.
LEMMA AlarmHandlerInv ==
  ASSUME PoolInv, TypeOK', NEW lag \in 0..MaxLag, NEW connLag \in 0..MaxLag,
         AlarmHandler(lag, connLag)
  PROVE  Kept
  <1>1. PICK idle \in SUBSET Tasks : idle = IdleTasks(lag)
    BY DEF IdleTasks
  <1>2. PICK purged \in SUBSET Entries : purged = {task_cache_map[k] : k \in idle}
    BY ZenonT(60), <1>1 DEF IdleTasks, PoolInv, TypeOK
  <1>3. PICK kept \in SUBSET Entries : kept = Mapped \ purged
    BY DEF Mapped
  <1>4. PICK S : S = (UNION {entries[e].active \cup Pooled(e) : e \in purged})
                     \cup (UNION {IdleConns(e, connLag) : e \in kept})
    OBVIOUS
  <1>s. \A x : x \in S <=> \/ \E f \in purged : x \in Has(f)
                           \/ \E f \in kept : x \in IdleConns(f, connLag)
    <2> DEFINE A == UNION {entries[e].active \cup Pooled(e) : e \in purged}
               B == UNION {IdleConns(e, connLag) : e \in kept}
    <2>1. \A x : x \in A <=> \E f \in purged : x \in Has(f)
      BY Zenon DEF Has
    <2>2. \A x : x \in B <=> \E f \in kept : x \in IdleConns(f, connLag)
      OBVIOUS
    <2>3. S = A \cup B
      BY <1>4
    <2> HIDE DEF A, B
    <2> QED BY <2>1, <2>2, <2>3
  <1>5. /\ task_cache_map' = [k \in Tasks |-> IF k \in idle THEN NoEntry ELSE task_cache_map[k]]
        /\ conns' = Shutdown(conns, S)
        /\ entries' = [e \in Entries |->
             IF e \in purged THEN [entries[e] EXCEPT !.active = {}, !.inactive = <<>>]
             ELSE IF e \in kept
               THEN [entries[e] EXCEPT !.inactive = Without(@, IdleConns(e, connLag))]
             ELSE entries[e]]
        /\ UNCHANGED <<threads, cookies>>
    BY <1>1, <1>2, <1>3, <1>4 DEF AlarmHandler
  <1>6. \A e \in Entries :
          /\ entries'[e].idle = entries[e].idle
          /\ e \in purged => entries'[e].active = {}
          /\ e \notin purged => entries'[e].active = entries[e].active
          /\ e \notin purged /\ e \notin kept => entries'[e] = entries[e]
          /\ e \in kept => entries'[e].inactive = Without(entries[e].inactive, IdleConns(e, connLag))
    BY <1>3, <1>5 DEF PoolInv, TypeOK, EntryType
  <1>7. \A k \in Tasks : task_cache_map[k] # NoEntry =>
          (k \in idle <=> task_cache_map[k] \in purged)
    BY <1>1, <1>2 DEF IdleTasks, PoolInv, EntriesOwned
  <1>8. Mapped' = kept /\ kept \cap purged = {}
    <2>1. \A e \in Entries : e \in Mapped' => e \in kept
      BY <1>3, <1>5, <1>7, PoolAssumption DEF Mapped
    <2>2. \A e \in Entries : e \in kept => e \in Mapped'
      BY <1>3, <1>5, <1>7, PoolAssumption DEF Mapped
    <2>3. Mapped' \subseteq Entries
      BY DEF Mapped
    <2> QED BY <1>3, <2>1, <2>2, <2>3
  <1>9. purged \subseteq Mapped
    BY <1>1, <1>2 DEF Mapped, IdleTasks
  <1>10. \A e \in Entries : InUse(e)' <=> InUse(e) /\ e \notin purged
    <2>1. \A u \in Threads : threads[u].pc = "purge" => threads[u].entry \notin purged
      BY <1>9 DEF PoolInv, EntriesOwned
    <2> QED BY <1>3, <1>5, <1>8, <2>1 DEF InUse
  <1>11. \A u \in Threads : threads[u].pc \in {"entry", "using", "drop", "release"} =>
           threads[u].task \in Tasks /\ threads[u].task \notin idle
    <2> SUFFICES ASSUME NEW u \in Threads,
                        threads[u].pc \in {"entry", "using", "drop", "release"}
                 PROVE  threads[u].task \in Tasks /\ threads[u].task \notin idle
      OBVIOUS
    <2>1. PICK e \in Entries : e = task_cache_map[threads[u].task]
      BY OwnEntry
    <2>2. entries[e].idle <= TaskInactive /\ entries[e].idle \in Nat
      BY <2>1, PoolAssumption DEF PoolInv, BusyStays, TypeOK, EntryType
    <2>3. lag \in Nat /\ TaskInactive \in Nat
      BY PoolAssumption
    <2>4. ~(entries[e].idle - lag > TaskInactive)
      BY <2>2, <2>3
    <2> QED BY <1>1, <2>1, <2>4, OwnEntry DEF IdleTasks
  <1>12. EntriesOwned'
    <2>1. \A i, j \in Tasks : task_cache_map'[i] = task_cache_map'[j] /\ task_cache_map'[i] # NoEntry
                                => i = j
      BY <1>5 DEF PoolInv, EntriesOwned
    <2> QED BY <1>3, <1>5, <1>8, <2>1 DEF PoolInv, EntriesOwned
  <1>13. BusyStays'
    <2>1. \A u \in Threads : threads[u].pc \in {"entry", "using", "drop", "release"} =>
            /\ task_cache_map'[threads[u].task] = task_cache_map[threads[u].task]
            /\ task_cache_map[threads[u].task] \in Entries
      BY <1>5, <1>11, OwnEntry
    <2> SUFFICES ASSUME NEW u \in Threads,
                        threads[u].pc \in {"entry", "using", "drop", "release"}
                 PROVE  LET f == task_cache_map'[threads[u].task] IN
                        /\ f \in Entries /\ entries'[f].idle <= TaskInactive
                        /\ threads[u].pc \in {"entry", "release"} => threads[u].entry = f
      BY <1>5 DEF BusyStays
    <2>2. /\ entries[task_cache_map[threads[u].task]].idle <= TaskInactive
          /\ threads[u].pc \in {"entry", "release"}
               => threads[u].entry = task_cache_map[threads[u].task]
      BY DEF PoolInv, BusyStays
    <2> QED BY <1>6, <2>1, <2>2
  <1>14. ASSUME NEW e \in Entries, InUse(e)'
         PROVE  /\ InUse(e)
                /\ entries'[e].active = entries[e].active /\ entries[e].active \cap S = {}
                /\ Pooled(e)' = Pooled(e) \ S /\ IsInjective(entries'[e].inactive)
    <2>1. InUse(e) /\ e \notin purged /\ entries'[e].active = entries[e].active
      BY <1>6, <1>10, <1>14
    <2>2. \A f \in purged \cup kept : InUse(f)
      BY <1>3, <1>9 DEF InUse
    <2>3. \A f \in Entries : IdleConns(f, connLag) \subseteq Pooled(f)
      BY DEF IdleConns
    <2>4. ASSUME NEW x \in Has(e), x \in S PROVE e \in kept /\ x \in IdleConns(e, connLag)
      <3>1. CASE \E f \in purged : x \in Has(f)
        BY <2>1, <2>2, <3>1 DEF PoolInv, ConnsPlaced
      <3>2. CASE \E f \in kept : x \in IdleConns(f, connLag)
        <4>1. PICK f \in kept : x \in IdleConns(f, connLag)
          BY <3>2
        <4>2. x \in Has(f) /\ InUse(f)
          BY <2>2, <2>3, <4>1 DEF Has
        <4>3. f = e
          BY <2>1, <2>4, <4>2 DEF PoolInv, ConnsPlaced
        <4> QED BY <4>1, <4>3
      <3> QED BY <1>s, <2>4, <3>1, <3>2
    <2>5. entries[e].active \cap S = {}
      BY <2>1, <2>3, <2>4 DEF PoolInv, ConnsPlaced, Has
    <2>6. /\ IsInjective(entries[e].inactive) /\ entries[e].inactive \in Seq(Conns)
      BY <2>1 DEF PoolInv, ConnsPlaced, TypeOK, EntryType
    <2>7. CASE e \in kept
      <3>1. /\ ToSet(Without(entries[e].inactive, IdleConns(e, connLag)))
                 = ToSet(entries[e].inactive) \ IdleConns(e, connLag)
            /\ IsInjective(Without(entries[e].inactive, IdleConns(e, connLag)))
        BY <2>6, WithoutProperties
      <3>2. Pooled(e)' = Pooled(e) \ IdleConns(e, connLag) /\ IsInjective(entries'[e].inactive)
        BY <1>6, <2>7, <3>1 DEF Pooled
      <3>3. IdleConns(e, connLag) \subseteq S
        BY <1>s, <2>7
      <3>4. Pooled(e) \cap S \subseteq IdleConns(e, connLag)
        BY <2>4 DEF Has
      <3> QED BY <2>1, <2>5, <3>2, <3>3, <3>4
    <2>8. CASE e \notin kept
      <3>1. Pooled(e)' = Pooled(e) /\ entries'[e].inactive = entries[e].inactive
        BY <1>6, <2>1, <2>8 DEF Pooled
      <3>2. Pooled(e) \cap S = {}
        BY <2>4, <2>8 DEF Has
      <3> QED BY <2>1, <2>5, <2>6, <3>1, <3>2
    <2> QED BY <2>7, <2>8
  <1>15. Purges(S)
    <2>1. \A ck \in cookies, e \in Entries :
            InUse(e)' /\ e = task_cache_map[ck.task] => e = task_cache_map'[ck.task]
      <3>1. \A ck \in cookies : ck.task \in Tasks
        BY DEF PoolInv, TypeOK
      <3> QED BY <1>5, <1>7, <1>10, <3>1, PoolAssumption
    <2>2. \A u \in Threads : threads[u].pc \in {"entry", "using", "drop", "release"} =>
            task_cache_map'[threads[u].task] = task_cache_map[threads[u].task]
      BY <1>5, <1>11
    <2> QED BY <1>5, <1>14, <2>1, <2>2 DEF Purges
  <1>16. ASSUME AllAccountedFor PROVE AccountedPurge(S)
    <2>1. \A e \in Entries : InUse(e) => InUse(e)' \/ Has(e) \subseteq S
      BY <1>s, <1>10
    <2>2. \A u \in Threads : threads[u].pc = "purge" =>
            /\ threads[u].entry \in Entries /\ threads[u].entry \notin purged
            /\ entries[threads[u].entry].active = {}
      BY <1>9, <1>16, ThreadFacts DEF PoolInv, EntriesOwned, AllAccountedFor
    <2> QED BY ZenonT(60), <1>5, <1>6, <2>1, <2>2 DEF AccountedPurge
  <1> QED BY <1>12, <1>13, <1>15, <1>16, PurgingStep DEF Kept

-----------------------------------------------------------------------------
\* Each step of the system with careful clients keeps the invariant, and the
\* account of all connections unless SmbProxyCreateEntity forgets one.
LEMMA NextKeeps ==
  ASSUME PoolInv, CarefulClients, [Next]_vars
  PROVE  PoolInv' /\ ("create" \notin Rpcs /\ AllAccountedFor => AllAccountedFor')
  <1>0. TypeOK'
    BY NextTypeOK DEF PoolInv
  <1>1. ASSUME NEW t \in Threads, NEW r \in Rpcs, NEW k \in Tasks, StartRpc(t, r, k)
        PROVE Kept
    BY <1>0, <1>1, GetTaskEntryInv DEF StartRpc
  <1>2. ASSUME NEW t \in Threads, NEW k \in Tasks, NEW d \in Dirs, StartListing(t, k, d)
        PROVE Kept
    BY <1>0, <1>2, GetTaskEntryInv DEF StartListing
  <1>3. ASSUME NEW t \in Threads, NEW ck \in cookies, ContinueListing(t, ck)
        PROVE Kept
    <2>1. ck.task \in Tasks /\ ck.conn \in Conns
      BY DEF PoolInv, TypeOK
    <2>2. GetTaskEntry(t, "list", ck.task, ck.dir, ck.conn, ck.fetched)
      BY <1>3 DEF ContinueListing
    <2>3. cookies' = cookies \ {ck}
      BY <1>3 DEF ContinueListing, CarefulClients
    <2> QED BY <1>0, <2>1, <2>2, <2>3, GetTaskEntryInv
  <1>4. ASSUME NEW t \in Threads, FindByCookie(t) PROVE Kept
    BY <1>0, <1>4, FindByCookieInv
  <1>5. ASSUME NEW t \in Threads, ReuseInactive(t) PROVE Kept
    BY <1>0, <1>5, ReuseInactiveInv
  <1>6. ASSUME NEW t \in Threads, CreateConnection(t) PROVE Kept
    BY <1>0, <1>6, CreateConnectionInv
  <1>7. ASSUME NEW t \in Threads, CreateFails(t) PROVE Kept
    BY <1>0, <1>7, CreateFailsInv
  <1>8. ASSUME NEW t \in Threads, ReleaseSmbConnection(t) PROVE Kept
    BY <1>0, <1>8, ReleaseInv
  <1>9. ASSUME NEW t \in Threads, FinishRpc(t) \/ ReleaseAfterShutdown(t) PROVE Kept
    BY <1>0, <1>9, LookupForReleaseInv DEF FinishRpc, ReleaseAfterShutdown
  <1>10. ASSUME NEW t \in Threads, ShutdownInRpc(t) PROVE Kept
    BY <1>0, <1>10, ShutdownInRpcInv
  <1>11. ASSUME NEW t \in Threads, ListProgress(t) PROVE Kept
    BY <1>0, <1>11, ListProgressInv
  <1>12. ASSUME NEW t \in Threads, KeepListing(t) PROVE Kept
    BY <1>0, <1>12, KeepListingInv
  <1>13. ASSUME NEW t \in Threads, FinishCreateEntity(t) PROVE PoolInv' /\ "create" \in Rpcs
    <2>1. PoolInv'
      BY <1>0, <1>13, FinishCreateEntityInv
    <2>2. threads[t].rpc \in Rpcs \cup {"none"} /\ threads[t].rpc = "create"
      BY <1>13 DEF FinishCreateEntity, PoolInv, TypeOK, ThreadType
    <2> QED BY <2>1, <2>2
  <1>14. ASSUME NEW t \in Threads, NEW k \in Tasks, PurgeTask(t, k) PROVE Kept
    BY <1>0, <1>14, PurgeTaskInv
  <1>15. ASSUME NEW t \in Threads, PurgeConnections(t) PROVE Kept
    BY <1>0, <1>15, PurgeConnectionsInv
  <1>16. ASSUME NEW lag \in 0..MaxLag, NEW connLag \in 0..MaxLag, AlarmHandler(lag, connLag)
         PROVE Kept
    BY <1>0, <1>16, AlarmHandlerInv
  <1>17. ASSUME Tick PROVE Kept
    BY <1>0, <1>17, TickInv
  <1>18. ASSUME UNCHANGED vars PROVE Kept
    <2>1. BusyStays'
      BY <1>18 DEF vars, PoolInv, BusyStays
    <2> QED BY <1>0, <1>18, <2>1, NoConnectionStep DEF vars
  <1> QED BY <1>1, <1>2, <1>3, <1>4, <1>5, <1>6, <1>7, <1>8, <1>9, <1>10, <1>11, <1>12,
             <1>13, <1>14, <1>15, <1>16, <1>17, <1>18
          DEF Next, ThreadStep, ClientRequest, Kept

\* With careful clients, PoolInv holds of every state.
THEOREM PoolInvariant == ASSUME CarefulClients PROVE Spec => []PoolInv
  <1>1. PoolInv /\ [Next]_vars => PoolInv'
    BY NextKeeps
  <1> QED BY <1>1, InitPoolInv, PTL DEF Spec

\* No two threads ever use one SmbConnection, which libsmbclient does not allow.
THEOREM OneThreadPerConnectionHolds ==
  ASSUME CarefulClients PROVE Spec => []OneThreadPerConnection
  <1>1. PoolInv => OneThreadPerConnection
    <2> SUFFICES ASSUME PoolInv, NEW t \in Threads, NEW u \in Threads, NEW c \in Conns,
                        Holds(t, c), Holds(u, c)
                 PROVE  t = u
      BY DEF OneThreadPerConnection
    <2>1. Claim(t) = c /\ Claim(u) = c
      BY DEF Holds, Claim
    <2> QED BY <2>1, ClaimAlone
  <1> QED BY <1>1, PoolInvariant, PTL

\* Neither AlarmHandler nor SmbProxyPurgeTask shuts down a connection that an RPC
\* is using.
THEOREM UsedIsOpenHolds == ASSUME CarefulClients PROVE Spec => []UsedIsOpen
  <1>1. PoolInv => UsedIsOpen
    BY DEF PoolInv, HeldIsActive, UsedIsOpen
  <1> QED BY <1>1, PoolInvariant, PTL

\* A cookie resumes a listing of the directory the client asks for.
THEOREM ResumesOwnDirectoryHolds ==
  ASSUME CarefulClients PROVE Spec => []ResumesOwnDirectory
  <1>1. PoolInv => ResumesOwnDirectory
    BY DEF PoolInv, ListingsKept, ResumesOwnDirectory
  <1> QED BY <1>1, PoolInvariant, PTL

\* Without SmbProxyCreateEntity, which forgets its connection, no connection is
\* leaked.
THEOREM NoLeakedConnectionHolds ==
  ASSUME CarefulClients, "create" \notin Rpcs PROVE Spec => []NoLeakedConnection
  <1>1. Init => PoolInv /\ AllAccountedFor
    <2> SUFFICES ASSUME Init PROVE AllAccountedFor
      BY InitPoolInv
    <2>1. /\ \A t \in Threads : threads[t] = Idle
          /\ \A k \in Tasks : task_cache_map[k] = NoEntry
          /\ \A c \in Conns : conns[c].status = "none"
      BY DEF Init, NewConn
    <2> QED BY <2>1, IdleType DEF AllAccountedFor
  <1>2. PoolInv /\ AllAccountedFor /\ [Next]_vars => (PoolInv /\ AllAccountedFor)'
    BY NextKeeps
  <1>3. PoolInv /\ AllAccountedFor => NoLeakedConnection
    <2> SUFFICES ASSUME PoolInv, AllAccountedFor, NEW c \in Conns, conns[c].status = "open"
                 PROVE  \E e \in Entries \ FreeEntries : c \in entries[e].active \cup Pooled(e)
      BY DEF NoLeakedConnection
    <2>1. PICK e \in Entries : InUse(e) /\ c \in Has(e)
      BY DEF AllAccountedFor
    <2>2. e \notin FreeEntries
      BY <2>1 DEF FreeEntries, InUse
    <2> QED BY <2>1, <2>2 DEF Has
  <1> QED BY <1>1, <1>2, <1>3, PTL DEF Spec

=============================================================================
