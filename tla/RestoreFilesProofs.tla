------------------------- MODULE RestoreFilesProofs --------------------------
(***************************************************************************)
(* For any threads, tasks, paths, chunks and any size of the caches: what  *)
(* FetchFileHandleOp promises by itself, and with careful clients          *)
(* RestoreInv and the properties of restores that follow from it.          *)
(***************************************************************************)
EXTENDS RestoreFiles, FiniteSetTheorems, SequenceTheorems, TLAPS

\* Erasing a node of the list leaves only what was in it.
LEMMA RemoveAtKeeps ==
  ASSUME NEW S, NEW s \in Seq(S), NEW i \in DOMAIN s
  PROVE  RemoveAt(s, i) \in Seq(S) /\ ToSet(RemoveAt(s, i)) \subseteq ToSet(s)
  <1> DEFINE a == SubSeq(s, 1, i - 1)
             b == SubSeq(s, i + 1, Len(s))
  <1>1. /\ Len(s) \in Nat /\ DOMAIN s = 1..Len(s) /\ i \in 1..Len(s)
        /\ \A n \in 1..Len(s) : s[n] \in S
    BY LenProperties
  <1>2. /\ a \in Seq(S) /\ Len(a) = i - 1 /\ \A n \in 1..(i - 1) : a[n] = s[n]
    <2>1. \A n \in 1..(i - 1) : s[n] \in S
      BY <1>1
    <2> QED BY <1>1, <2>1, SubSeqProperties
  <1>3. /\ b \in Seq(S) /\ Len(b) = Len(s) - i /\ \A n \in 1..(Len(s) - i) : b[n] = s[i + n]
    <2>1. \A n \in (i + 1)..Len(s) : s[n] \in S
      BY <1>1
    <2>2. /\ b \in Seq(S) /\ Len(b) = IF i + 1 <= Len(s) THEN Len(s) - (i + 1) + 1 ELSE 0
          /\ \A n \in 1..(Len(s) - (i + 1) + 1) : b[n] = s[(i + 1) + n - 1]
      BY <1>1, <2>1, SubSeqProperties
    <2> HIDE DEF b
    <2>3. \A m \in Nat : m >= i => (IF i + 1 <= m THEN m - (i + 1) + 1 ELSE 0) = m - i
      BY <1>1
    <2>4. ASSUME NEW n \in 1..(Len(s) - i) PROVE b[n] = s[i + n]
      <3>1. n \in 1..(Len(s) - (i + 1) + 1) /\ (i + 1) + n - 1 = i + n
        BY <1>1
      <3> QED BY <2>2, <3>1
    <2> QED BY <1>1, <2>2, <2>3, <2>4
  <1> HIDE DEF a, b
  <1>4. /\ a \o b \in Seq(S) /\ Len(a \o b) = Len(a) + Len(b)
        /\ \A n \in 1..(Len(a) + Len(b)) :
             (a \o b)[n] = IF n <= Len(a) THEN a[n] ELSE b[n - Len(a)]
    BY <1>2, <1>3, ConcatProperties
  <1> DEFINE r == a \o b
  <1> HIDE DEF r
  <1>5. /\ r \in Seq(S) /\ Len(r) = Len(s) - 1
        /\ \A n \in 1..(Len(s) - 1) : r[n] = IF n <= i - 1 THEN s[n] ELSE s[n + 1]
    <2>1. Len(a) + Len(b) = Len(s) - 1
      BY <1>1, <1>2, <1>3
    <2>2. r \in Seq(S) /\ Len(r) = Len(s) - 1
      BY <1>4, <2>1 DEF r
    <2>3. ASSUME NEW n \in 1..(Len(s) - 1) PROVE r[n] = IF n <= i - 1 THEN s[n] ELSE s[n + 1]
      <3>1. r[n] = IF n <= Len(a) THEN a[n] ELSE b[n - Len(a)]
        BY <1>4, <2>1 DEF r
      <3>2. CASE n <= i - 1
        BY <1>1, <1>2, <3>1, <3>2
      <3>3. CASE ~(n <= i - 1)
        <4>1. n - (i - 1) \in 1..(Len(s) - i) /\ i + (n - (i - 1)) = n + 1
          BY <1>1, <3>3
        <4>2. r[n] = b[n - (i - 1)]
          BY <1>2, <3>1, <3>3
        <4>3. r[n] = s[n + 1]
          BY <1>3, <4>1, <4>2
        <4> QED BY <3>3, <4>3
      <3> QED BY <3>2, <3>3
    <2> QED BY <2>2, <2>3
  <1>6. DOMAIN r = 1..(Len(s) - 1)
    BY <1>5, LenProperties
  <1>7. ToSet(r) \subseteq ToSet(s)
    <2>1. \A n \in DOMAIN r : \E m \in DOMAIN s : r[n] = s[m]
      <3> SUFFICES ASSUME NEW n \in DOMAIN r PROVE \E m \in DOMAIN s : r[n] = s[m]
        OBVIOUS
      <3>1. n \in DOMAIN s /\ n + 1 \in DOMAIN s
        BY <1>1, <1>6
      <3> QED BY <1>5, <1>6, <3>1
    <2> QED BY <2>1 DEF ToSet
  <1>8. RemoveAt(s, i) = r
    BY DEF RemoveAt, r, a, b
  <1> QED BY <1>5, <1>7, <1>8

\* A new entry at the front of a list.
LEMMA FrontEntry ==
  ASSUME NEW S, NEW s \in Seq(S), NEW e \in S
  PROVE  <<e>> \o s \in Seq(S) /\ ToSet(<<e>> \o s) \subseteq ToSet(s) \cup {e}
  <1> DEFINE r == <<e>> \o s
  <1>1. <<e>> \in Seq(S) /\ Len(<<e>>) = 1 /\ <<e>>[1] = e
    OBVIOUS
  <1>2. /\ r \in Seq(S) /\ Len(r) = 1 + Len(s)
        /\ \A n \in 1..(1 + Len(s)) : r[n] = IF n <= 1 THEN <<e>>[n] ELSE s[n - 1]
    BY <1>1, ConcatProperties
  <1> HIDE DEF r
  <1>3. Len(s) \in Nat /\ DOMAIN s = 1..Len(s) /\ DOMAIN r = 1..(1 + Len(s))
    BY <1>2, LenProperties
  <1>4. \A n \in DOMAIN r : r[n] = e \/ \E m \in DOMAIN s : r[n] = s[m]
    <2> SUFFICES ASSUME NEW n \in DOMAIN r PROVE r[n] = e \/ \E m \in DOMAIN s : r[n] = s[m]
      OBVIOUS
    <2>1. CASE n = 1
      BY <1>1, <1>2, <1>3, <2>1
    <2>2. CASE n # 1
      <3>1. n - 1 \in DOMAIN s /\ ~(n <= 1)
        BY <1>3, <2>2
      <3> QED BY <1>2, <1>3, <3>1
    <2> QED BY <2>1, <2>2
  <1>5. ToSet(r) \subseteq ToSet(s) \cup {e}
    BY <1>4 DEF ToSet
  <1> QED BY <1>2, <1>5 DEF r

\* Evicting the entry at the back.
LEMMA FrontKeeps ==
  ASSUME NEW S, NEW s \in Seq(S), Len(s) > 0
  PROVE  Front(s) \in Seq(S) /\ ToSet(Front(s)) \subseteq ToSet(s)
  <1>1. Len(s) \in Nat /\ DOMAIN s = 1..Len(s) /\ \A n \in 1..Len(s) : s[n] \in S
    BY LenProperties
  <1> DEFINE r == SubSeq(s, 1, Len(s) - 1)
  <1>2. /\ r \in Seq(S) /\ Len(r) = Len(s) - 1 /\ \A n \in 1..(Len(s) - 1) : r[n] = s[n]
    <2>1. \A n \in 1..(Len(s) - 1) : s[n] \in S
      BY <1>1
    <2> QED BY <1>1, <2>1, SubSeqProperties
  <1> HIDE DEF r
  <1>3. DOMAIN r = 1..(Len(s) - 1)
    BY <1>2, LenProperties
  <1>4. \A n \in DOMAIN r : n \in DOMAIN s /\ r[n] = s[n]
    BY <1>1, <1>2, <1>3
  <1>5. ToSet(r) \subseteq ToSet(s)
    BY <1>4 DEF ToSet
  <1> QED BY <1>2, <1>5 DEF r, Front

\* LRUCache::Insert and Lookup: entries are only reordered or dropped, but for the new
\* one, and a value found is the value of an entry.
LEMMA CacheOps ==
  ASSUME NEW K, NEW V, NEW c \in Seq([key: K, value: V]), NEW k \in K
  PROVE  /\ \A v \in V :
              /\ Insert(c, k, v) \in Seq([key: K, value: V])
              /\ ToSet(Insert(c, k, v)) \subseteq ToSet(c) \cup {[key |-> k, value |-> v]}
         /\ Lookup(c, k) \in Seq([key: K, value: V]) /\ ToSet(Lookup(c, k)) \subseteq ToSet(c)
         /\ k \in Keys(c) => /\ ValueOf(c, k) \in V
                             /\ [key |-> k, value |-> ValueOf(c, k)] \in ToSet(c)
  <1> DEFINE E == [key: K, value: V]
  <1>1. DOMAIN c = 1..Len(c) /\ \A i \in DOMAIN c : c[i] \in E
    BY ZenonT(60), LenProperties
  <1>2. RemoveKey(c, k) \in Seq(E) /\ ToSet(RemoveKey(c, k)) \subseteq ToSet(c)
    <2>1. CASE k \in Keys(c)
      <3> DEFINE i == CHOOSE j \in DOMAIN c : c[j].key = k
      <3>1. i \in DOMAIN c
        BY <2>1 DEF Keys
      <3> HIDE DEF i
      <3>2. RemoveAt(c, i) \in Seq(E) /\ ToSet(RemoveAt(c, i)) \subseteq ToSet(c)
        BY <3>1, RemoveAtKeeps
      <3> QED BY <2>1, <3>2 DEF RemoveKey, i
    <2>2. CASE k \notin Keys(c)
      BY <2>2 DEF RemoveKey
    <2> QED BY <2>1, <2>2
  <1>3. ASSUME k \in Keys(c)
        PROVE  ValueOf(c, k) \in V /\ [key |-> k, value |-> ValueOf(c, k)] \in ToSet(c)
    <2> DEFINE e == CHOOSE x \in ToSet(c) : x.key = k
    <2>1. e \in ToSet(c) /\ e.key = k
      BY <1>3 DEF Keys, ToSet
    <2>2. ValueOf(c, k) = e.value
      BY DEF ValueOf
    <2> HIDE DEF e
    <2>3. e \in E
      BY <1>1, <2>1 DEF ToSet
    <2>4. e = [key |-> k, value |-> e.value]
      BY <2>1, <2>3
    <2> QED BY <2>1, <2>2, <2>3, <2>4
  <1>4. ASSUME NEW v \in V
        PROVE  /\ <<[key |-> k, value |-> v]>> \o RemoveKey(c, k) \in Seq(E)
               /\ ToSet(<<[key |-> k, value |-> v]>> \o RemoveKey(c, k))
                    \subseteq ToSet(c) \cup {[key |-> k, value |-> v]}
    <2> DEFINE e == [key |-> k, value |-> v]
               r == RemoveKey(c, k)
    <2>1. e \in E
      OBVIOUS
    <2> HIDE DEF e, r, E
    <2>2. r \in Seq(E) /\ ToSet(r) \subseteq ToSet(c)
      BY <1>2 DEF r
    <2>3. <<e>> \o r \in Seq(E) /\ ToSet(<<e>> \o r) \subseteq ToSet(r) \cup {e}
      BY <2>1, <2>2, FrontEntry
    <2>4. <<e>> \o r \in Seq(E) /\ ToSet(<<e>> \o r) \subseteq ToSet(c) \cup {e}
      BY <2>2, <2>3
    <2> QED BY <2>4 DEF e, r
  <1>5. ASSUME NEW v \in V
        PROVE  /\ Insert(c, k, v) \in Seq(E)
               /\ ToSet(Insert(c, k, v)) \subseteq ToSet(c) \cup {[key |-> k, value |-> v]}
    <2> DEFINE l == <<[key |-> k, value |-> v]>> \o RemoveKey(c, k)
               T == ToSet(c) \cup {[key |-> k, value |-> v]}
    <2>1. l \in Seq(E) /\ ToSet(l) \subseteq T
      BY <1>4
    <2>2. Insert(c, k, v) = IF Len(l) > MaxEntries THEN Front(l) ELSE l
      BY DEF Insert
    <2> HIDE DEF l, T, E
    <2>3. Len(l) > MaxEntries => Front(l) \in Seq(E) /\ ToSet(Front(l)) \subseteq T
      <3> SUFFICES ASSUME Len(l) > MaxEntries
                   PROVE  Front(l) \in Seq(E) /\ ToSet(Front(l)) \subseteq T
        OBVIOUS
      <3>1. Len(l) > 0
        BY <2>1, MaxEntriesAssumption, LenProperties
      <3>2. Front(l) \in Seq(E) /\ ToSet(Front(l)) \subseteq ToSet(l)
        BY <2>1, <3>1, FrontKeeps
      <3> QED BY <2>1, <3>2
    <2>4. Insert(c, k, v) \in Seq(E) /\ ToSet(Insert(c, k, v)) \subseteq T
      BY <2>1, <2>2, <2>3
    <2> QED BY <2>4 DEF T
  <1>6. Lookup(c, k) \in Seq(E) /\ ToSet(Lookup(c, k)) \subseteq ToSet(c)
    <2>1. CASE k \in Keys(c)
      <3> DEFINE v == ValueOf(c, k)
      <3>1. v \in V /\ [key |-> k, value |-> v] \in ToSet(c)
        BY <1>3, <2>1
      <3>2. Lookup(c, k) = <<[key |-> k, value |-> v]>> \o RemoveKey(c, k)
        BY <2>1 DEF Lookup
      <3> HIDE DEF v, E
      <3>3. /\ Lookup(c, k) \in Seq(E)
            /\ ToSet(Lookup(c, k)) \subseteq ToSet(c) \cup {[key |-> k, value |-> v]}
        BY <1>4, <3>1, <3>2
      <3> QED BY <3>1, <3>3
    <2>2. CASE k \notin Keys(c)
      BY <2>2 DEF Lookup
    <2> QED BY <2>1, <2>2
  <1> QED BY <1>3, <1>5, <1>6

-----------------------------------------------------------------------------
\* The op of one thread changes.
LEMMA OpChanges ==
  ASSUME NEW A, NEW B, ops \in [Threads -> OpType(A, B)], NEW t \in Threads,
         NEW r \in OpType(A, B), ops' = [ops EXCEPT ![t] = r]
  PROVE  /\ ops' \in [Threads -> OpType(A, B)] /\ ops'[t] = r
         /\ \A u \in Threads : u # t => ops'[u] = ops[u]
  OBVIOUS

\* The record of a thread that is in no op.
LEMMA NoOpType ==
  ASSUME NEW A, NEW B
  PROVE  /\ NoOp \in OpType(A, B) /\ NoOp.pc = "idle" /\ NoOp.result = "none"
  <1>1. (CHOOSE k \in Tasks : TRUE) \in Tasks /\ (CHOOSE p \in Paths : TRUE) \in Paths
    BY FileHandleAssumption
  <1> QED BY <1>1 DEF NoOp, OpType

\* A FileHandlesEntry changes: which handles are cached without error.
LEMMA HandlesChange ==
  ASSUME CacheTypeOK, NEW o \in Objects, NEW x \in HandlesType, NEW S,
         handles' = [handles EXCEPT ![o] = x],
         ToSet(x.cache) \subseteq ToSet(handles[o].cache) \cup S
  PROVE  /\ handles' \in [Objects -> HandlesType]
         /\ \A p \in CachedOk' : p \in CachedOk \/ [key |-> p, value |-> "ok"] \in S
  <1>1. handles' \in [Objects -> HandlesType] /\ handles'[o] = x
        /\ \A q \in Objects : q # o => handles'[q] = handles[q]
    BY DEF CacheTypeOK
  <1>2. ASSUME NEW p \in CachedOk' PROVE p \in CachedOk \/ [key |-> p, value |-> "ok"] \in S
    <2> DEFINE e == [key |-> p, value |-> "ok"]
    <2>1. PICK q \in Objects : e \in ToSet(handles'[q].cache)
      BY <1>2 DEF CachedOk
    <2>2. p \in Paths
      BY <1>2 DEF CachedOk
    <2> HIDE DEF e
    <2>3. e \in ToSet(handles[q].cache) \/ e \in S
      BY <1>1, <2>1
    <2> QED BY <2>2, <2>3 DEF CachedOk, e
  <1> QED BY <1>1, <1>2

\* An access sets the time of the FileHandlesEntry only.
LEMMA AccessHandles ==
  ASSUME CacheTypeOK, NEW o \in Objects, NEW b \in BOOLEAN,
         handles' = [handles EXCEPT ![o].expired = b]
  PROVE  handles' \in [Objects -> HandlesType] /\ CachedOk' \subseteq CachedOk
  <1> DEFINE x == [handles[o] EXCEPT !.expired = b]
  <1>1. x \in HandlesType /\ x.cache = handles[o].cache
    BY DEF CacheTypeOK, HandlesType
  <1>2. handles' = [handles EXCEPT ![o] = x]
    OBVIOUS
  <1> HIDE DEF x
  <1>3. PICK S : S = {}
    OBVIOUS
  <1>4. ToSet(x.cache) \subseteq ToSet(handles[o].cache) \cup S
    BY <1>1
  <1>5. /\ handles' \in [Objects -> HandlesType]
        /\ \A p \in CachedOk' : p \in CachedOk \/ [key |-> p, value |-> "ok"] \in S
    BY <1>1, <1>2, <1>4, HandlesChange
  <1> QED BY <1>3, <1>5

\* The cache of a FileHandlesEntry changes.
LEMMA CacheChange ==
  ASSUME CacheTypeOK, NEW o \in Objects, NEW c \in Seq(EntryType), NEW S,
         handles' = [handles EXCEPT ![o].cache = c],
         ToSet(c) \subseteq ToSet(handles[o].cache) \cup S
  PROVE  /\ handles' \in [Objects -> HandlesType]
         /\ \A p \in CachedOk' : p \in CachedOk \/ [key |-> p, value |-> "ok"] \in S
  <1> DEFINE x == [handles[o] EXCEPT !.cache = c]
  <1>1. x \in HandlesType /\ x.cache = c
    BY DEF CacheTypeOK, HandlesType
  <1>2. handles' = [handles EXCEPT ![o] = x]
    OBVIOUS
  <1> HIDE DEF x
  <1> QED BY <1>1, <1>2, HandlesChange

\* Objects are destroyed, with what they have cached.
LEMMA DestroyHandles ==
  ASSUME CacheTypeOK, NEW S, handles' = DestroyedBut(S)
  PROVE  handles' \in [Objects -> HandlesType] /\ CachedOk' \subseteq CachedOk
  <1>1. NewHandles \in HandlesType /\ NewHandles.cache = <<>>
    BY DEF NewHandles, HandlesType
  <1>2. \A o \in Objects : handles[o] \in HandlesType /\ handles'[o] \in {handles[o], NewHandles}
    BY DEF CacheTypeOK, DestroyedBut
  <1>3. handles' \in [Objects -> HandlesType]
    BY <1>1 DEF CacheTypeOK, DestroyedBut
  <1>4. ToSet(<<>>) = {}
    BY DEF ToSet
  <1>5. \A o \in Objects : \A e : e \in ToSet(handles'[o].cache) => e \in ToSet(handles[o].cache)
    BY <1>1, <1>2, <1>4
  <1>6. CachedOk' \subseteq CachedOk
    BY <1>5 DEF CachedOk
  <1> QED BY <1>3, <1>6

\* GetFileHandlesEntry begins the op of an idle thread.
LEMMA GetEntryEffect ==
  ASSUME NEW A, NEW B, CacheTypeOK, ops \in [Threads -> OpType(A, B)],
         NEW t \in Threads, NEW k \in Tasks, NEW p \in Paths, GetFileHandlesEntry(t, k, p)
  PROVE  /\ CacheTypeOK' /\ CachedOk' \subseteq CachedOk
         /\ writers' = writers /\ files' = files /\ ops[t].pc = "idle"
         /\ \E r \in OpType(A, B) :
              /\ ops' = [ops EXCEPT ![t] = r] /\ r.pc \in {"find", "lookup"} /\ r.path = p
              /\ r.result = "none" /\ (r.pc = "lookup" => r.object \in Objects)
  <1>0. PICK o : o = file_handles_map[k]
    OBVIOUS
  <1> DEFINE r == [NoOp EXCEPT !.pc = IF o = NoObject THEN "find" ELSE "lookup",
                               !.task = k, !.path = p, !.object = o]
  <1>1. o \in Objects \cup {NoObject}
    BY <1>0 DEF CacheTypeOK
  <1>2. r \in OpType(A, B) /\ r.pc \in {"find", "lookup"} /\ r.path = p /\ r.result = "none"
        /\ (r.pc = "lookup" => r.object \in Objects)
    BY <1>1, NoOpType DEF OpType, FetchPcs
  <1>3. /\ ops' = [ops EXCEPT ![t] = r] /\ ops[t].pc = "idle" /\ writers' = writers
        /\ files' = files /\ file_handles_map' = file_handles_map
        /\ \/ handles' = handles
           \/ o \in Objects /\ handles' = [handles EXCEPT ![o].expired = FALSE]
    BY <1>0, <1>1 DEF GetFileHandlesEntry
  <1>4. handles' \in [Objects -> HandlesType] /\ CachedOk' \subseteq CachedOk
    <2>1. CASE handles' = handles
      BY <2>1 DEF CacheTypeOK, CachedOk
    <2>2. CASE o \in Objects /\ handles' = [handles EXCEPT ![o].expired = FALSE]
      BY <2>2, AccessHandles
    <2> QED BY <1>3, <2>1, <2>2
  <1>5. CacheTypeOK'
    BY <1>3, <1>4 DEF CacheTypeOK
  <1> HIDE DEF r
  <1> QED BY <1>2, <1>3, <1>4, <1>5

\* What a step of FetchFileHandleOp does: r is the op after it.
FetchEffect(t, r) ==
  LET p == ops[t].path IN
  /\ ops' = [ops EXCEPT ![t] = r] /\ r.path = p
  /\ ops[t].pc \in FetchPcs /\ r.pc \in FetchPcs \cup {"done"}
  /\ r.pc \in FetchPcs \ {"find"} => r.object \in Objects
  /\ \/ writers' = writers
     \/ writers[p] = {} /\ writers' = [writers EXCEPT ![p] = {t}]
  /\ r.pc \in {"relookup", "open", "create", "add"} => t \in writers'[p]
  /\ \/ files' = files
     \/ /\ ops[t].pc = "create" /\ p \notin files /\ files' = files \cup {p}
        /\ r.pc = "add"
  /\ r.pc = "create" => p \notin files /\ files' = files
  /\ r.pc \in {"done", "add"} => r.result # "none"
  /\ r.pc = "add" => r.result \in {"ok", "error"}
  /\ r.result # "handled" \/ ops[t].result = "handled"
  /\ r.result = "ok" => ops[t].result = "ok" \/ p \in files'
  /\ r.result = "cached" => ops[t].result = "cached" \/ p \in CachedOk
  /\ \A q \in CachedOk' : q \in CachedOk \/ (q = p /\ ops[t].result = "ok")

\* LookupFileHandle, whichever of the two calls it is.
LEMMA LookupEffect ==
  ASSUME NEW A, NEW B, CacheTypeOK, ops \in [Threads -> OpType(A, B)], NEW t \in Threads,
         NEW miss \in {"lock", "open"}, LookupFileHandle(t, miss), ops[t].object \in Objects
  PROVE  /\ handles' \in [Objects -> HandlesType] /\ CachedOk' \subseteq CachedOk
         /\ files' = files /\ file_handles_map' = file_handles_map
         /\ \E r \in OpType(A, B) :
              /\ ops' = [ops EXCEPT ![t] = r]
              /\ r.path = ops[t].path /\ r.object = ops[t].object
              /\ \/ r.pc = miss /\ r.result = ops[t].result
                 \/ r.pc = "done" /\ r.result = "cached" /\ r.path \in CachedOk
                 \/ r.pc = "done" /\ r.result = "error"
  <1>0. PICK o, p, c : o = ops[t].object /\ p = ops[t].path /\ c = handles[o].cache
    OBVIOUS
  <1> DEFINE hit == p \in Keys(c) /\ ValueOf(c, p) # "stale"
             res == IF ~hit THEN ops[t].result
                    ELSE IF ValueOf(c, p) = "ok" THEN "cached" ELSE "error"
             r == [ops[t] EXCEPT !.pc = IF hit THEN "done" ELSE miss, !.result = res]
  <1>1. o \in Objects /\ p \in Paths /\ c \in Seq(EntryType) /\ ops[t] \in OpType(A, B)
    BY <1>0 DEF CacheTypeOK, HandlesType, OpType
  <1>2. /\ Lookup(c, p) \in Seq(EntryType) /\ ToSet(Lookup(c, p)) \subseteq ToSet(c)
        /\ p \in Keys(c) => [key |-> p, value |-> ValueOf(c, p)] \in ToSet(c)
    <2>1. PICK V : V = {"ok", "error", "stale"}
      OBVIOUS
    <2>2. EntryType = [key: Paths, value: V]
      BY <2>1 DEF EntryType
    <2>3. c \in Seq([key: Paths, value: V])
      BY <1>1, <2>2
    <2> QED BY <1>1, <2>2, <2>3, CacheOps
  <1>3. /\ handles' = [handles EXCEPT ![o].cache = Lookup(c, p)] /\ files' = files
        /\ file_handles_map' = file_handles_map
    BY <1>0 DEF LookupFileHandle
  <1>4. handles' \in [Objects -> HandlesType] /\ CachedOk' \subseteq CachedOk
    <2> DEFINE d == Lookup(c, p)
    <2> HIDE DEF d
    <2>0. PICK S : S = {}
      OBVIOUS
    <2>1. d \in Seq(EntryType) /\ ToSet(d) \subseteq ToSet(handles[o].cache) \cup S
      BY <1>0, <1>2 DEF d
    <2>2. handles' = [handles EXCEPT ![o].cache = d]
      BY <1>3 DEF d
    <2>3. /\ handles' \in [Objects -> HandlesType]
          /\ \A q \in CachedOk' : q \in CachedOk \/ [key |-> q, value |-> "ok"] \in S
      BY <1>1, <2>1, <2>2, CacheChange
    <2> QED BY <2>0, <2>3
  <1>5. hit /\ ValueOf(c, p) = "ok" => p \in CachedOk
    BY <1>0, <1>1, <1>2 DEF CachedOk
  <1>6. ops' = [ops EXCEPT ![t] = r]
    BY <1>0, <1>1 DEF LookupFileHandle
  <1> HIDE DEF hit
  <1>7. res \in {ops[t].result, "cached", "error"}
    OBVIOUS
  <1>8. /\ r \in OpType(A, B) /\ r.path = p /\ r.object = o /\ r.result = res
        /\ r.pc = IF hit THEN "done" ELSE miss
    <2> HIDE DEF res
    <2> QED BY <1>0, <1>1, <1>7 DEF OpType, FetchPcs
  <1>9. \/ r.pc = miss /\ r.result = ops[t].result
        \/ r.pc = "done" /\ r.result = "cached" /\ p \in CachedOk
        \/ r.pc = "done" /\ r.result = "error"
    <2> HIDE DEF r
    <2> QED BY <1>5, <1>8
  <1> HIDE DEF r
  <1> QED BY <1>0, <1>3, <1>4, <1>6, <1>8, <1>9

\* Every step of FetchFileHandleOp has such an effect.
LEMMA FetchStepEffect ==
  ASSUME NEW A, NEW B, CacheTypeOK, ops \in [Threads -> OpType(A, B)], FetchLocked,
         NEW t \in Threads, FetchStep(t)
  PROVE  CacheTypeOK' /\ \E r \in OpType(A, B) : FetchEffect(t, r)
  <1>0. PICK p, o : p = ops[t].path /\ o = ops[t].object
    OBVIOUS
  <1>1. /\ ops[t] \in OpType(A, B) /\ p \in Paths /\ o \in Objects \cup {NoObject}
        /\ ops[t].task \in Tasks
    BY <1>0 DEF OpType
  <1>2. /\ ops[t].pc \in FetchPcs \ {"find"} => o \in Objects
        /\ ops[t].pc \in {"relookup", "open", "create", "add"} => t \in writers[p]
        /\ ops[t].pc = "add" => ops[t].result \in {"ok", "error"}
    BY <1>0 DEF FetchLocked
  <1>3. CASE EmplaceEntry(t)
    <2>1. /\ ops[t].pc = "find" /\ writers' = writers /\ files' = files
      BY <1>3 DEF EmplaceEntry
    <2>2. ASSUME NEW q \in Objects, ops' = [ops EXCEPT ![t].pc = "deref", ![t].object = q],
                 file_handles_map' \in [Tasks -> Objects \cup {NoObject}],
                 handles' \in [Objects -> HandlesType], CachedOk' \subseteq CachedOk
          PROVE  CacheTypeOK' /\ \E r \in OpType(A, B) : FetchEffect(t, r)
      <3> DEFINE r == [ops[t] EXCEPT !.pc = "deref", !.object = q]
      <3>1. /\ r \in OpType(A, B) /\ r.path = p /\ r.pc = "deref" /\ r.object = q
            /\ r.result = ops[t].result
        BY <1>0, <1>1 DEF OpType, FetchPcs
      <3>2. ops' = [ops EXCEPT ![t] = r]
        BY <1>1, <2>2
      <3> HIDE DEF r
      <3>3. FetchEffect(t, r)
        BY <1>0, <2>1, <2>2, <3>1, <3>2 DEF FetchEffect, FetchPcs
      <3>4. CacheTypeOK'
        BY <2>1, <2>2 DEF CacheTypeOK
      <3> QED BY <3>1, <3>3, <3>4
    <2>3. CASE /\ file_handles_map[ops[t].task] # NoObject
               /\ ops' = [ops EXCEPT ![t].pc = "deref",
                                     ![t].object = file_handles_map[ops[t].task]]
               /\ UNCHANGED <<file_handles_map, handles>>
      <3>1. file_handles_map[ops[t].task] \in Objects
        BY <1>1, <2>3 DEF CacheTypeOK
      <3>2. CachedOk' \subseteq CachedOk
        BY <2>3 DEF CachedOk
      <3> QED BY <2>2, <2>3, <3>1, <3>2 DEF CacheTypeOK
    <2>4. ASSUME NEW q \in FreeObjects, NEW g \in BOOLEAN,
                 file_handles_map' = [file_handles_map EXCEPT ![ops[t].task] = q],
                 handles' = [handles EXCEPT ![q].expired = g],
                 ops' = [ops EXCEPT ![t].pc = "deref", ![t].object = q]
          PROVE  CacheTypeOK' /\ \E r \in OpType(A, B) : FetchEffect(t, r)
      <3>1. q \in Objects
        BY DEF FreeObjects
      <3>2. handles' \in [Objects -> HandlesType] /\ CachedOk' \subseteq CachedOk
        BY <2>4, <3>1, AccessHandles
      <3>3. file_handles_map' \in [Tasks -> Objects \cup {NoObject}]
        BY <2>4, <3>1 DEF CacheTypeOK
      <3> QED BY <2>2, <2>4, <3>1, <3>2, <3>3
    <2> QED BY <1>3, <2>3, <2>4 DEF EmplaceEntry
  <1>4. CASE DerefEntry(t)
    <2> DEFINE r == [ops[t] EXCEPT !.pc = "lookup"]
    <2>1. /\ ops[t].pc = "deref" /\ writers' = writers /\ files' = files
          /\ ops' = [ops EXCEPT ![t] = r] /\ file_handles_map' = file_handles_map
          /\ handles' = [handles EXCEPT ![o].expired = FALSE]
      BY <1>0, <1>1, <1>4 DEF DerefEntry
    <2>2. /\ r \in OpType(A, B) /\ r.path = p /\ r.pc = "lookup" /\ r.object = o
          /\ r.result = ops[t].result
      BY <1>0, <1>1 DEF OpType, FetchPcs
    <2> HIDE DEF r
    <2>3. o \in Objects
      BY <1>2, <2>1 DEF FetchPcs
    <2>4. handles' \in [Objects -> HandlesType] /\ CachedOk' \subseteq CachedOk
      BY <2>1, <2>3, AccessHandles
    <2>5. FetchEffect(t, r)
      BY <1>0, <2>1, <2>2, <2>3, <2>4 DEF FetchEffect, FetchPcs
    <2>6. CacheTypeOK'
      BY <2>1, <2>4 DEF CacheTypeOK
    <2> QED BY <2>2, <2>5, <2>6
  <1>5. CASE FirstLookup(t)
    <2>1. ops[t].pc = "lookup" /\ LookupFileHandle(t, "lock") /\ writers' = writers
      BY <1>5 DEF FirstLookup
    <2>2. o \in Objects
      BY <1>2, <2>1 DEF FetchPcs
    <2>3. /\ handles' \in [Objects -> HandlesType] /\ CachedOk' \subseteq CachedOk
          /\ files' = files /\ file_handles_map' = file_handles_map
          /\ \E r \in OpType(A, B) :
              /\ ops' = [ops EXCEPT ![t] = r] /\ r.path = p /\ r.object = o
              /\ \/ r.pc = "lock" /\ r.result = ops[t].result
                 \/ r.pc = "done" /\ r.result = "cached" /\ r.path \in CachedOk
                 \/ r.pc = "done" /\ r.result = "error"
      BY <1>0, <2>1, <2>2, LookupEffect
    <2>4. PICK r \in OpType(A, B) :
              /\ ops' = [ops EXCEPT ![t] = r] /\ r.path = p /\ r.object = o
              /\ \/ r.pc = "lock" /\ r.result = ops[t].result
                 \/ r.pc = "done" /\ r.result = "cached" /\ r.path \in CachedOk
                 \/ r.pc = "done" /\ r.result = "error"
      BY <2>3
    <2>5. FetchEffect(t, r)
      BY <1>0, <2>1, <2>2, <2>3, <2>4 DEF FetchEffect, FetchPcs
    <2>6. CacheTypeOK'
      BY <2>1, <2>3 DEF CacheTypeOK
    <2> QED BY <2>5, <2>6
  <1>6. CASE AcquireLock(t)
    <2> DEFINE r == [ops[t] EXCEPT !.pc = "relookup"]
    <2>1. /\ ops[t].pc = "lock" /\ files' = files /\ handles' = handles
          /\ file_handles_map' = file_handles_map /\ ops' = [ops EXCEPT ![t] = r]
          /\ writers[p] = {} /\ writers' = [writers EXCEPT ![p] = {t}]
      BY <1>0, <1>6 DEF AcquireLock, IdLocks!GrantExclusive
    <2>2. /\ r \in OpType(A, B) /\ r.path = p /\ r.pc = "relookup" /\ r.object = o
          /\ r.result = ops[t].result
      BY <1>0, <1>1 DEF OpType, FetchPcs
    <2> HIDE DEF r
    <2>3. o \in Objects
      BY <1>2, <2>1 DEF FetchPcs
    <2>4. CacheTypeOK' /\ t \in writers'[p] /\ CachedOk' = CachedOk
      BY <1>1, <2>1 DEF CacheTypeOK, CachedOk
    <2>5. FetchEffect(t, r)
      BY <1>0, <2>1, <2>2, <2>3, <2>4 DEF FetchEffect, FetchPcs
    <2> QED BY <2>2, <2>4, <2>5
  <1>7. CASE SecondLookup(t)
    <2>1. ops[t].pc = "relookup" /\ LookupFileHandle(t, "open") /\ writers' = writers
      BY <1>7 DEF SecondLookup
    <2>2. o \in Objects /\ t \in writers'[p]
      BY <1>2, <2>1 DEF FetchPcs
    <2>3. /\ handles' \in [Objects -> HandlesType] /\ CachedOk' \subseteq CachedOk
          /\ files' = files /\ file_handles_map' = file_handles_map
          /\ \E r \in OpType(A, B) :
              /\ ops' = [ops EXCEPT ![t] = r] /\ r.path = p /\ r.object = o
              /\ \/ r.pc = "open" /\ r.result = ops[t].result
                 \/ r.pc = "done" /\ r.result = "cached" /\ r.path \in CachedOk
                 \/ r.pc = "done" /\ r.result = "error"
      BY <1>0, <2>1, <2>2, LookupEffect
    <2>4. PICK r \in OpType(A, B) :
              /\ ops' = [ops EXCEPT ![t] = r] /\ r.path = p /\ r.object = o
              /\ \/ r.pc = "open" /\ r.result = ops[t].result
                 \/ r.pc = "done" /\ r.result = "cached" /\ r.path \in CachedOk
                 \/ r.pc = "done" /\ r.result = "error"
      BY <2>3
    <2>5. FetchEffect(t, r)
      BY <1>0, <2>1, <2>2, <2>3, <2>4 DEF FetchEffect, FetchPcs
    <2>6. CacheTypeOK'
      BY <2>1, <2>3 DEF CacheTypeOK
    <2> QED BY <2>5, <2>6
  <1>8. CASE CreateParentFails(t) \/ OpenFile(t) \/ CreateFile(t)
    <2>1. /\ ops[t].pc \in {"open", "create"} /\ writers' = writers /\ handles' = handles
          /\ file_handles_map' = file_handles_map
          /\ \/ files' = files
             \/ ops[t].pc = "create" /\ p \notin files /\ files' = files \cup {p}
          /\ \E c \in {"done", "add", "create"}, res \in {"ok", "error", ops[t].result} :
               /\ ops' = [ops EXCEPT ![t].pc = c, ![t].result = res]
               /\ c \in {"done", "add"} => res \in {"ok", "error"}
               /\ res = "ok" => ops[t].result = "ok" \/ p \in files'
               /\ c = "create" => p \notin files /\ files' = files
               /\ files' = files \/ c = "add"
      <3>1. CASE CreateParentFails(t)
        BY <3>1 DEF CreateParentFails
      <3>2. CASE OpenFile(t)
        <4>1. CASE ops' = [ops EXCEPT ![t].pc = "create"] /\ p \notin files
          <5>1. ops' = [ops EXCEPT ![t].pc = "create", ![t].result = ops[t].result]
            BY <1>1, <4>1 DEF OpType
          <5> QED BY <1>0, <3>2, <4>1, <5>1 DEF OpenFile
        <4> QED BY <1>0, <3>2, <4>1 DEF OpenFile
      <3>3. CASE CreateFile(t)
        BY <1>0, <3>3 DEF CreateFile
      <3> QED BY <1>8, <3>1, <3>2, <3>3
    <2>2. PICK c \in {"done", "add", "create"}, res \in {"ok", "error", ops[t].result} :
               /\ ops' = [ops EXCEPT ![t].pc = c, ![t].result = res]
               /\ c \in {"done", "add"} => res \in {"ok", "error"}
               /\ res = "ok" => ops[t].result = "ok" \/ p \in files'
               /\ c = "create" => p \notin files /\ files' = files
               /\ files' = files \/ c = "add"
      BY <2>1
    <2> DEFINE r == [ops[t] EXCEPT !.pc = c, !.result = res]
    <2>3. /\ r \in OpType(A, B) /\ r.path = p /\ r.pc = c /\ r.object = o /\ r.result = res
      BY <1>0, <1>1 DEF OpType, FetchPcs
    <2>4. ops' = [ops EXCEPT ![t] = r]
      BY <1>1, <2>2
    <2> HIDE DEF r
    <2>5. o \in Objects /\ t \in writers'[p]
      BY <1>2, <2>1 DEF FetchPcs
    <2>6. CacheTypeOK' /\ CachedOk' = CachedOk
      BY <1>1, <2>1 DEF CacheTypeOK, CachedOk
    <2>7. FetchEffect(t, r)
      BY <1>0, <2>1, <2>2, <2>3, <2>4, <2>5, <2>6 DEF FetchEffect, FetchPcs
    <2> QED BY <2>3, <2>6, <2>7
  <1>9. CASE AddToLRUCache(t)
    <2> DEFINE r == [ops[t] EXCEPT !.pc = "done"]
               v == ops[t].result
               c == Insert(handles[o].cache, p, v)
    <2>1. /\ ops[t].pc = "add" /\ writers' = writers /\ files' = files
          /\ ops' = [ops EXCEPT ![t] = r] /\ file_handles_map' = file_handles_map
          /\ handles' = [handles EXCEPT ![o].cache = c]
      BY <1>0, <1>1, <1>9 DEF AddToLRUCache
    <2>2. /\ r \in OpType(A, B) /\ r.path = p /\ r.pc = "done" /\ r.object = o
          /\ r.result = ops[t].result
      BY <1>0, <1>1 DEF OpType, FetchPcs
    <2> HIDE DEF r
    <2>3. o \in Objects /\ v \in {"ok", "error"}
      BY <1>2, <2>1 DEF FetchPcs
    <2>4. c \in Seq(EntryType) /\ ToSet(c) \subseteq ToSet(handles[o].cache)
                                                      \cup {[key |-> p, value |-> v]}
      <3>1. handles[o].cache \in Seq(EntryType) /\ v \in {"ok", "error", "stale"}
        BY <2>3 DEF CacheTypeOK, HandlesType
      <3>2. PICK V, d : V = {"ok", "error", "stale"} /\ d = handles[o].cache
        OBVIOUS
      <3>3. EntryType = [key: Paths, value: V] /\ v \in V
        BY <3>1, <3>2 DEF EntryType
      <3>4. d \in Seq([key: Paths, value: V])
        BY <3>1, <3>2, <3>3
      <3> HIDE DEF v
      <3>5. /\ Insert(d, p, v) \in Seq([key: Paths, value: V])
            /\ ToSet(Insert(d, p, v)) \subseteq ToSet(d) \cup {[key |-> p, value |-> v]}
        BY <1>1, <3>3, <3>4, CacheOps
      <3> QED BY <3>2, <3>3, <3>5
    <2>5. /\ handles' \in [Objects -> HandlesType]
          /\ \A q \in CachedOk' :
               q \in CachedOk \/ [key |-> q, value |-> "ok"] \in {[key |-> p, value |-> v]}
      <3> HIDE DEF c, v
      <3> QED BY <2>1, <2>3, <2>4, CacheChange
    <2>6. \A q \in CachedOk' : q \in CachedOk \/ (q = p /\ v = "ok")
      <3>1. \A q : [key |-> q, value |-> "ok"] = [key |-> p, value |-> v] => q = p /\ v = "ok"
        <4> SUFFICES ASSUME NEW q, [key |-> q, value |-> "ok"] = [key |-> p, value |-> v]
                     PROVE  q = p /\ v = "ok"
          OBVIOUS
        <4>1. [key |-> q, value |-> "ok"].key = q /\ [key |-> q, value |-> "ok"].value = "ok"
          OBVIOUS
        <4> QED BY <4>1
      <3> QED BY <2>5, <3>1
    <2>7. FetchEffect(t, r)
      BY <1>0, <2>1, <2>2, <2>3, <2>6 DEF FetchEffect, FetchPcs
    <2>8. CacheTypeOK'
      BY <2>1, <2>5 DEF CacheTypeOK
    <2> QED BY <2>2, <2>7, <2>8
  <1> QED BY <1>3, <1>4, <1>5, <1>6, <1>7, <1>8, <1>9 DEF FetchStep

\* A FetchFileHandleOp is destroyed: its thread gives up its lock, and nothing is cached.
LEMMA FinishEffect ==
  ASSUME NEW A, NEW B, CacheTypeOK, ops \in [Threads -> OpType(A, B)],
         NEW t \in Threads, FinishFetch(t)
  PROVE  /\ CacheTypeOK' /\ CachedOk' \subseteq CachedOk
         /\ files' = files /\ ops[t].pc = "done" /\ ops' = [ops EXCEPT ![t] = NoOp]
         /\ \/ writers' = writers
            \/ writers' = [writers EXCEPT ![ops[t].path] = @ \ {t}]
  <1>1. ops[t].path \in Paths
    BY DEF OpType
  <1>2. /\ files' = files /\ ops[t].pc = "done" /\ ops' = [ops EXCEPT ![t] = NoOp]
        /\ file_handles_map' = file_handles_map
        /\ \/ writers' = writers
           \/ writers' = [writers EXCEPT ![ops[t].path] = @ \ {t}]
    BY DEF FinishFetch, IdLocks!DropExclusive
  <1>3. PICK S : handles' = DestroyedBut(S)
    BY DEF FinishFetch
  <1>4. handles' \in [Objects -> HandlesType] /\ CachedOk' \subseteq CachedOk
    BY <1>3, DestroyHandles
  <1>5. writers' \in [Paths -> SUBSET Threads]
    BY <1>1, <1>2 DEF CacheTypeOK
  <1>6. CacheTypeOK'
    BY <1>2, <1>4, <1>5 DEF CacheTypeOK
  <1> QED BY <1>2, <1>4, <1>6

\* What happens to the caches by itself: nothing is cached.
LEMMA CacheStepEffect ==
  ASSUME CacheTypeOK, CacheStep
  PROVE  /\ CacheTypeOK' /\ CachedOk' \subseteq CachedOk
         /\ writers' = writers /\ files' = files /\ ops' = ops
  <1>1. CASE PurgeFileHandles
    <2>1. PICK S : handles' = DestroyedBut(S)
      BY <1>1 DEF PurgeFileHandles
    <2>2. handles' \in [Objects -> HandlesType] /\ CachedOk' \subseteq CachedOk
      BY <2>1, DestroyHandles
    <2>3. /\ writers' = writers /\ files' = files /\ ops' = ops
          /\ file_handles_map' \in [Tasks -> Objects \cup {NoObject}]
      BY <1>1 DEF PurgeFileHandles, CacheTypeOK
    <2> QED BY <2>2, <2>3 DEF CacheTypeOK
  <1>2. ASSUME NEW o \in Objects, EntryExpires(o)
        PROVE  /\ CacheTypeOK' /\ CachedOk' \subseteq CachedOk
               /\ writers' = writers /\ files' = files /\ ops' = ops
    <2>1. /\ writers' = writers /\ files' = files /\ ops' = ops
          /\ file_handles_map' = file_handles_map
          /\ handles' = [handles EXCEPT ![o].expired = TRUE]
      BY <1>2 DEF EntryExpires
    <2>2. handles' \in [Objects -> HandlesType] /\ CachedOk' \subseteq CachedOk
      BY <2>1, AccessHandles
    <2> QED BY <2>1, <2>2 DEF CacheTypeOK
  <1>3. ASSUME NEW o \in Objects, NEW i \in DOMAIN handles[o].cache, ErrorGoesStale(o, i)
        PROVE  /\ CacheTypeOK' /\ CachedOk' \subseteq CachedOk
               /\ writers' = writers /\ files' = files /\ ops' = ops
    <2>0. PICK d : d = handles[o].cache
      OBVIOUS
    <2> DEFINE e == [d[i] EXCEPT !.value = "stale"]
               c == [d EXCEPT ![i] = e]
    <2>1. /\ writers' = writers /\ files' = files /\ ops' = ops
          /\ file_handles_map' = file_handles_map
          /\ handles' = [handles EXCEPT ![o].cache = c]
      BY <1>3, <2>0 DEF ErrorGoesStale
    <2>2. d \in Seq(EntryType) /\ i \in DOMAIN d
      BY <1>3, <2>0 DEF CacheTypeOK, HandlesType
    <2>3. Len(d) \in Nat /\ DOMAIN d = 1..Len(d) /\ \A n \in 1..Len(d) : d[n] \in EntryType
      BY <2>2, LenProperties
    <2>4. e \in EntryType
      BY <2>2, <2>3 DEF EntryType
    <2> HIDE DEF e
    <2>5. c \in Seq(EntryType)
      BY <2>2, <2>3, <2>4
    <2>6. DOMAIN c = DOMAIN d /\ \A n \in DOMAIN c : c[n] = e \/ c[n] = d[n]
      BY <2>2, <2>3
    <2>7. ToSet(c) \subseteq ToSet(d) \cup {e}
      <3> HIDE DEF c
      <3> QED BY <2>6 DEF ToSet
    <2> HIDE DEF c
    <2>8. PICK S : S = {e}
      OBVIOUS
    <2>9. /\ handles' \in [Objects -> HandlesType]
          /\ \A q \in CachedOk' : q \in CachedOk \/ [key |-> q, value |-> "ok"] \in S
      BY <2>0, <2>1, <2>5, <2>7, <2>8, CacheChange
    <2>10. \A q : [key |-> q, value |-> "ok"] # e
      <3>1. e.value = "stale"
        BY <2>2, <2>3 DEF e, EntryType
      <3> QED BY <3>1
    <2>11. CachedOk' \subseteq CachedOk
      BY <2>8, <2>9, <2>10
    <2> QED BY <2>1, <2>9, <2>11 DEF CacheTypeOK
  <1> QED BY <1>1, <1>2, <1>3 DEF CacheStep

-----------------------------------------------------------------------------
\* A step of a FetchFileHandleOp keeps the locks in order, and the file whose create is
\* next is not created by anyone else.
LEMMA FetchKeepsLocks ==
  ASSUME NEW A, NEW B, CacheTypeOK, ops \in [Threads -> OpType(A, B)],
         FetchLocked, NoCreateCollision,
         NEW t \in Threads, NEW r \in OpType(A, B), FetchEffect(t, r)
  PROVE  FetchLocked' /\ NoCreateCollision'
  <1>0. PICK p : p = ops[t].path
    OBVIOUS
  <1>1. /\ ops' = [ops EXCEPT ![t] = r] /\ r.path = p /\ p \in Paths
        /\ r.pc \in FetchPcs \ {"find"} => r.object \in Objects
        /\ \/ writers' = writers
           \/ writers[p] = {} /\ writers' = [writers EXCEPT ![p] = {t}]
        /\ r.pc \in {"relookup", "open", "create", "add"} => t \in writers'[p]
        /\ \/ files' = files
           \/ ops[t].pc = "create" /\ files' = files \cup {p} /\ r.pc = "add"
        /\ r.pc = "create" => p \notin files /\ files' = files
        /\ r.pc = "add" => r.result \in {"ok", "error"}
    BY <1>0 DEF FetchEffect, OpType
  <1>2. ops'[t] = r /\ \A u \in Threads : u # t => ops'[u] = ops[u]
    BY <1>1, OpChanges
  <1>3. /\ \A q \in Paths : \A u, v \in writers'[q] : u = v
        /\ \A q \in Paths : writers[q] \subseteq writers'[q]
    <2>1. CASE writers' = writers
      BY <2>1 DEF FetchLocked
    <2>2. CASE writers[p] = {} /\ writers' = [writers EXCEPT ![p] = {t}]
      <3>1. writers'[p] = {t} /\ \A q \in Paths : q # p => writers'[q] = writers[q]
        BY <1>1, <2>2 DEF CacheTypeOK
      <3> QED BY <2>2, <3>1 DEF FetchLocked
    <2> QED BY <1>1, <2>1, <2>2
  <1>4. \A u \in Threads : ops[u].path \in Paths
    BY DEF OpType
  <1>5. ASSUME NEW u \in Threads
        PROVE  /\ ops'[u].pc \in FetchPcs \ {"find"} => ops'[u].object \in Objects
               /\ ops'[u].pc \in {"relookup", "open", "create", "add"} => u \in writers'[ops'[u].path]
               /\ ops'[u].pc = "add" => ops'[u].result \in {"ok", "error"}
    <2>1. CASE u = t
      BY <1>1, <1>2, <2>1
    <2>2. CASE u # t
      BY <1>2, <1>3, <1>4, <2>2 DEF FetchLocked
    <2> QED BY <2>1, <2>2
  <1>6. ASSUME NEW u \in Threads, ops'[u].pc = "create" PROVE ops'[u].path \notin files'
    <2>1. CASE u = t
      BY <1>1, <1>2, <1>6, <2>1
    <2>2. CASE u # t
      <3>1. ops[u].pc = "create" /\ ops'[u].path = ops[u].path /\ ops[u].path \notin files
        BY <1>2, <1>6, <2>2 DEF NoCreateCollision
      <3>2. ops[t].pc = "create" => ops[u].path # p
        BY <1>0, <1>1, <2>2, <3>1 DEF FetchLocked
      <3> QED BY <1>1, <3>1, <3>2
    <2> QED BY <2>1, <2>2
  <1> QED BY <1>3, <1>5, <1>6 DEF FetchLocked, NoCreateCollision

\* So does any other step of a thread, unless it creates a file someone is about to create.
LEMMA OthersKeepLocks ==
  ASSUME NEW A, NEW B, CacheTypeOK, ops \in [Threads -> OpType(A, B)],
         FetchLocked, NoCreateCollision,
         NEW t \in Threads, NEW r \in OpType(A, B), ops' = [ops EXCEPT ![t] = r],
         r.pc \notin FetchPcs \/ r.pc = "find" \/ (r.pc = "lookup" /\ r.object \in Objects),
         writers' = writers \/ writers' = [writers EXCEPT ![ops[t].path] = @ \ {t}],
         \A q \in files' : q \in files \/ \A u \in Threads : ops[u].pc = "create" => ops[u].path # q
  PROVE  FetchLocked' /\ NoCreateCollision'
  <1>1. ops'[t] = r /\ \A u \in Threads : u # t => ops'[u] = ops[u]
    BY OpChanges
  <1>2. \A u \in Threads : ops[u].path \in Paths
    BY DEF OpType
  <1>3. \A q \in Paths : /\ writers'[q] \subseteq writers[q]
                         /\ \A u \in writers[q] : u # t => u \in writers'[q]
    <2>1. CASE writers' = writers
      BY <2>1
    <2>2. CASE writers' = [writers EXCEPT ![ops[t].path] = @ \ {t}]
      BY <1>2, <2>2 DEF CacheTypeOK
    <2> QED BY <2>1, <2>2
  <1>4. \A q \in Paths : \A u, v \in writers'[q] : u = v
    BY <1>3 DEF FetchLocked
  <1>5. ASSUME NEW u \in Threads
        PROVE  /\ ops'[u].pc \in FetchPcs \ {"find"} => ops'[u].object \in Objects
               /\ ops'[u].pc \in {"relookup", "open", "create", "add"} => u \in writers'[ops'[u].path]
               /\ ops'[u].pc = "add" => ops'[u].result \in {"ok", "error"}
    <2>1. CASE u = t
      BY <1>1, <2>1 DEF FetchPcs
    <2>2. CASE u # t
      BY <1>1, <1>2, <1>3, <2>2 DEF FetchLocked
    <2> QED BY <2>1, <2>2
  <1>6. ASSUME NEW u \in Threads, ops'[u].pc = "create" PROVE ops'[u].path \notin files'
    <2>1. u # t
      BY <1>1, <1>6 DEF FetchPcs
    <2>2. ops[u].pc = "create" /\ ops'[u].path = ops[u].path /\ ops[u].path \notin files
      BY <1>1, <1>6, <2>1 DEF NoCreateCollision
    <2> QED BY <2>2
  <1> QED BY <1>4, <1>5, <1>6 DEF FetchLocked, NoCreateCollision

\* FetchFileHandleOp, called by any threads for any tasks and paths: the types and FetchInv,
\* which says that a path is opened, created and cached under its lock only.
THEOREM FetchInvariant == FHSpec => [](FHTypeOK /\ FetchInv)
  <1>1. FHInit => FHTypeOK /\ FetchInv
    <2> SUFFICES ASSUME FHInit PROVE FHTypeOK /\ FetchInv
      OBVIOUS
    <2>1. NewHandles \in HandlesType /\ NewHandles.cache = <<>>
      BY DEF NewHandles, HandlesType
    <2>2. NoOp \in OpType({}, {}) /\ NoOp.pc = "idle" /\ NoOp.result = "none"
      BY NoOpType
    <2>3. FHTypeOK
      BY <2>1, <2>2 DEF FHInit, FHTypeOK, CacheTypeOK
    <2>4. CachedOk = {}
      BY <2>1 DEF FHInit, CachedOk, ToSet
    <2>5. FetchInv
      BY <2>2, <2>4 DEF FHInit, FetchInv, FetchLocked, NoCreateCollision, FetchedCreated, FetchPcs
    <2> QED BY <2>3, <2>5
  <1>2. FHTypeOK /\ FetchInv /\ [FHNext]_fhVars => (FHTypeOK /\ FetchInv)'
    <2> SUFFICES ASSUME FHTypeOK, FetchInv, [FHNext]_fhVars PROVE FHTypeOK' /\ FetchInv'
      OBVIOUS
    <2>0. PICK A, B : A = {} /\ B = {}
      OBVIOUS
    <2>1. /\ CacheTypeOK /\ ops \in [Threads -> OpType(A, B)] /\ FetchLocked /\ NoCreateCollision
          /\ CachedOk \subseteq files
          /\ \A u \in Threads : ops[u].result \in {"ok", "cached"} => ops[u].path \in files
      BY <2>0 DEF FHTypeOK, FetchInv, FetchedCreated
    <2>2. ASSUME NEW t \in Threads, NEW r \in OpType(A, B), ops' = [ops EXCEPT ![t] = r],
                 CacheTypeOK', FetchLocked', NoCreateCollision', CachedOk' \subseteq files',
                 files \subseteq files', r.result \in {"ok", "cached"} => r.path \in files'
          PROVE  FHTypeOK' /\ FetchInv'
      <3>1. /\ ops' \in [Threads -> OpType(A, B)] /\ ops'[t] = r
            /\ \A u \in Threads : u # t => ops'[u] = ops[u]
        BY <2>1, <2>2, OpChanges
      <3>2. \A u \in Threads : ops'[u].result \in {"ok", "cached"} => ops'[u].path \in files'
        BY <2>1, <2>2, <3>1
      <3> QED BY <2>0, <2>2, <3>1, <3>2 DEF FHTypeOK, FetchInv, FetchedCreated
    <2>3. ASSUME NEW t \in Threads, NEW k \in Tasks, NEW p \in Paths, GetFileHandlesEntry(t, k, p)
          PROVE  FHTypeOK' /\ FetchInv'
      <3>1. /\ CacheTypeOK' /\ CachedOk' \subseteq CachedOk
            /\ writers' = writers /\ files' = files
            /\ \E r \in OpType(A, B) :
                 /\ ops' = [ops EXCEPT ![t] = r] /\ r.pc \in {"find", "lookup"} /\ r.path = p
                 /\ r.result = "none" /\ (r.pc = "lookup" => r.object \in Objects)
        BY <2>1, <2>3, GetEntryEffect
      <3>2. PICK r \in OpType(A, B) :
                 /\ ops' = [ops EXCEPT ![t] = r] /\ r.pc \in {"find", "lookup"} /\ r.path = p
                 /\ r.result = "none" /\ (r.pc = "lookup" => r.object \in Objects)
        BY <3>1
      <3>3. FetchLocked' /\ NoCreateCollision'
        BY <2>1, <3>1, <3>2, OthersKeepLocks
      <3> QED BY <2>1, <2>2, <3>1, <3>2, <3>3
    <2>4. ASSUME NEW t \in Threads, FetchStep(t) PROVE FHTypeOK' /\ FetchInv'
      <3>1. CacheTypeOK' /\ \E r \in OpType(A, B) : FetchEffect(t, r)
        BY <2>1, <2>4, FetchStepEffect
      <3>2. PICK r \in OpType(A, B) : FetchEffect(t, r)
        BY <3>1
      <3>3. FetchLocked' /\ NoCreateCollision'
        BY <2>1, <3>2, FetchKeepsLocks
      <3>4. /\ ops' = [ops EXCEPT ![t] = r] /\ files \subseteq files' /\ r.path = ops[t].path
            /\ r.result = "ok" => ops[t].result = "ok" \/ r.path \in files'
            /\ r.result = "cached" => ops[t].result = "cached" \/ r.path \in CachedOk
            /\ \A q \in CachedOk' : q \in CachedOk \/ (q = r.path /\ ops[t].result = "ok")
        BY <3>2 DEF FetchEffect
      <3>5. CachedOk' \subseteq files' /\ (r.result \in {"ok", "cached"} => r.path \in files')
        BY <2>1, <3>4
      <3> QED BY <2>2, <3>1, <3>2, <3>3, <3>4, <3>5
    <2>5. ASSUME NEW t \in Threads, FinishFetch(t) PROVE FHTypeOK' /\ FetchInv'
      <3>1. /\ CacheTypeOK' /\ CachedOk' \subseteq CachedOk
            /\ files' = files /\ ops' = [ops EXCEPT ![t] = NoOp]
            /\ \/ writers' = writers
               \/ writers' = [writers EXCEPT ![ops[t].path] = @ \ {t}]
        BY <2>1, <2>5, FinishEffect
      <3>2. NoOp \in OpType(A, B) /\ NoOp.pc = "idle" /\ NoOp.result = "none"
        BY NoOpType
      <3>3. NoOp.pc \notin FetchPcs
        BY <3>2 DEF FetchPcs
      <3>4. FetchLocked' /\ NoCreateCollision'
        BY <2>1, <3>1, <3>2, <3>3, OthersKeepLocks
      <3> QED BY <2>1, <2>2, <3>1, <3>2, <3>4
    <2>6. CASE CacheStep
      <3>1. /\ CacheTypeOK' /\ CachedOk' \subseteq CachedOk
            /\ writers' = writers /\ files' = files /\ ops' = ops
        BY <2>1, <2>6, CacheStepEffect
      <3> QED BY <2>0, <2>1, <3>1
              DEF FHTypeOK, FetchInv, FetchLocked, NoCreateCollision, FetchedCreated
    <2>7. CASE UNCHANGED fhVars
      <3>1. CachedOk' = CachedOk
        BY <2>7 DEF fhVars, CachedOk
      <3> QED BY <2>7, <3>1 DEF fhVars, FHTypeOK, CacheTypeOK, FetchInv, FetchLocked,
                                NoCreateCollision, FetchedCreated
    <2> QED BY <2>3, <2>4, <2>5, <2>6, <2>7 DEF FHNext
  <1> QED BY <1>1, <1>2, PTL DEF FHSpec

\* FetchFileHandle by itself never creates a file that is there.
THEOREM FetchCreatesOnce == FHSpec => []NoCreateCollision
  <1>1. FetchInv => NoCreateCollision
    BY DEF FetchInv
  <1> QED BY <1>1, FetchInvariant, PTL

\* What FetchFileHandle has cached without error, in any object, was created.
THEOREM FetchCachesCreated == FHSpec => []CachedMeansCreated
  <1>1. FHTypeOK /\ FetchInv => CachedMeansCreated
    <2> SUFFICES ASSUME FHTypeOK, FetchInv, NEW o \in Objects, NEW i \in DOMAIN handles[o].cache,
                        handles[o].cache[i].value = "ok"
                 PROVE  handles[o].cache[i].key \in files
      BY DEF CachedMeansCreated
    <2>1. PICK c : c = handles[o].cache
      OBVIOUS
    <2>2. c \in Seq(EntryType) /\ i \in DOMAIN c
      BY <2>1 DEF FHTypeOK, CacheTypeOK, HandlesType
    <2>3. c[i] \in EntryType /\ c[i] \in ToSet(c)
      BY <2>2, LenProperties DEF ToSet
    <2>4. c[i] = [key |-> c[i].key, value |-> "ok"] /\ c[i].key \in Paths
      BY <2>1, <2>3 DEF EntryType
    <2>5. c[i].key \in CachedOk
      BY <2>1, <2>3, <2>4 DEF CachedOk
    <2> QED BY <2>1, <2>5 DEF FetchInv, FetchedCreated
  <1> QED BY <1>1, FetchInvariant, PTL

-----------------------------------------------------------------------------
\* How a step of the op of thread t on path p changes who is creating p.
LEMMA CreatorsChange ==
  ASSUME TypeOK, NEW t \in Threads, NEW r \in OpType(RestorePcs, {"handled"}), NEW p \in Paths,
         ops' = [ops EXCEPT ![t] = r], ops[t].pc = "idle" \/ ops[t].path = p,
         r.pc = "idle" \/ r.path = p
  PROVE  /\ CreatorsOf(p)' = IF r.pc \in {"idle", "stat", "rename", "renamed", "abort"}
                               THEN CreatorsOf(p) \ {t} ELSE CreatorsOf(p) \cup {t}
         /\ \A q \in Paths : q # p => CreatorsOf(q)' = CreatorsOf(q)
  <1>1. ops'[t] = r /\ \A u \in Threads : u # t => ops'[u] = ops[u]
    BY OpChanges DEF TypeOK
  <1>2. \A u \in Threads : u # t => \A q : u \in CreatorsOf(q)' <=> u \in CreatorsOf(q)
    BY <1>1 DEF CreatorsOf, Creating, Finalizing
  <1>3. t \in CreatorsOf(p)' <=> r.pc \notin {"idle", "stat", "rename", "renamed", "abort"}
    BY <1>1 DEF CreatorsOf, Creating, Finalizing
  <1>4. \A q : q # p => t \notin CreatorsOf(q)' /\ t \notin CreatorsOf(q)
    BY <1>1 DEF CreatorsOf, Creating, Finalizing
  <1>5. \A q : CreatorsOf(q)' \subseteq Threads /\ CreatorsOf(q) \subseteq Threads
    BY DEF CreatorsOf
  <1>6. CreatorsOf(p)' = IF r.pc \in {"idle", "stat", "rename", "renamed", "abort"}
                           THEN CreatorsOf(p) \ {t} ELSE CreatorsOf(p) \cup {t}
    <2>1. PICK C, D : C = CreatorsOf(p)' /\ D = CreatorsOf(p)
      OBVIOUS
    <2>2. /\ C \subseteq Threads /\ D \subseteq Threads
          /\ \A u \in Threads : u # t => (u \in C <=> u \in D)
          /\ t \in C <=> r.pc \notin {"idle", "stat", "rename", "renamed", "abort"}
      BY <1>2, <1>3, <1>5, <2>1
    <2>3. C = IF r.pc \in {"idle", "stat", "rename", "renamed", "abort"} THEN D \ {t} ELSE D \cup {t}
      BY <2>2
    <2> QED BY <2>1, <2>3
  <1>7. ASSUME NEW q \in Paths, q # p PROVE CreatorsOf(q)' = CreatorsOf(q)
    BY <1>2, <1>4, <1>5, <1>7
  <1> QED BY <1>6, <1>7

\* The creators of a path can be counted.
LEMMA CountCreators ==
  ASSUME NEW p
  PROVE  /\ IsFiniteSet(CreatorsOf(p)) /\ Cardinality(CreatorsOf(p)) \in Nat
         /\ \A t, u \in CreatorsOf(p) : Cardinality(CreatorsOf(p)) <= 1 => t = u
         /\ \A S \in SUBSET Chunks : /\ IsFiniteSet(Chunks \ S) /\ Cardinality(Chunks \ S) \in Nat
                                     /\ Cardinality(Chunks \ S) = 0 <=> S = Chunks
  <1>1. PICK C : C = CreatorsOf(p)
    OBVIOUS
  <1>2. C \subseteq Threads /\ IsFiniteSet(Threads) /\ IsFiniteSet(Chunks)
    BY <1>1, RestoreAssumption DEF CreatorsOf
  <1>3. IsFiniteSet(C) /\ Cardinality(C) \in Nat
    BY <1>2, FS_Subset, FS_CardinalityType
  <1>4. ASSUME NEW t \in C, NEW u \in C, Cardinality(C) <= 1 PROVE t = u
    <2>1. Cardinality(C) # 0
      BY <1>3, FS_EmptySet
    <2>2. Cardinality(C) = 1
      BY <1>3, <1>4, <2>1
    <2> QED BY <1>3, <2>2, FS_Singleton
  <1>5. ASSUME NEW S \in SUBSET Chunks
        PROVE  /\ IsFiniteSet(Chunks \ S) /\ Cardinality(Chunks \ S) \in Nat
               /\ Cardinality(Chunks \ S) = 0 <=> S = Chunks
    <2>1. PICK D : D = Chunks \ S
      OBVIOUS
    <2>2. IsFiniteSet(D) /\ Cardinality(D) \in Nat
      BY <1>2, <2>1, FS_Subset, FS_CardinalityType
    <2>3. Cardinality(D) = 0 <=> D = {}
      BY <2>2, FS_EmptySet
    <2> QED BY <2>1, <2>2, <2>3
  <1> QED BY <1>1, <1>3, <1>4, <1>5

\* Whoever finalizes a file, or creates one with overwrite_existing_tmp, is alone with it.
LEMMA Alone ==
  ASSUME TypeOK, RestoreInv, NEW t \in Threads, NEW u \in Threads, u # t,
         Finalizing(t) \/ (Creating(t) /\ Overwrite(ops[t].path))
  PROVE  ops[u].pc = "idle" \/ ops[u].path # ops[t].path
  <1>0. PICK p : p = ops[t].path
    OBVIOUS
  <1>1. p \in Paths /\ CreatesInTurn(p) /\ FinalizesAlone(t) /\ FinalizesAlone(u)
    BY <1>0 DEF TypeOK, OpType, RestoreInv
  <1>2. CASE Finalizing(t)
    BY <1>0, <1>1, <1>2 DEF FinalizesAlone
  <1>3. CASE Finalizing(u)
    <2>1. ops[t].pc # "idle"
      BY DEF Finalizing, Creating
    <2>2. ops[t].path # ops[u].path
      BY <1>1, <1>3, <2>1 DEF FinalizesAlone
    <2> QED BY <2>2
  <1>4. CASE Creating(t) /\ Overwrite(p) /\ ~Finalizing(u)
    <2>1. Cardinality(CreatorsOf(p)) <= 1
      BY <1>1, <1>4 DEF CreatesInTurn
    <2>2. t \in CreatorsOf(p) /\ (ops[u].pc # "idle" /\ ops[u].path = p => u \in CreatorsOf(p))
      BY <1>0, <1>4 DEF CreatorsOf, Creating
    <2> QED BY <1>0, <2>1, <2>2, CountCreators
  <1> QED BY <1>0, <1>2, <1>3, <1>4

\* While a file is being created, its client has not been told that all of it is.
LEMMA CreatorOpen ==
  ASSUME TypeOK, RestoreInv, NEW t \in Threads, Creating(t), NEW p, p = ops[t].path
  PROVE  /\ p \in Paths /\ client[p].phase = "open" /\ client[p].created # Chunks
         /\ client[p].written \subseteq client[p].created
         /\ Overwrite(p) => client[p].created = {}
         /\ ~Overwrite(p) => (Made(p) => p \in files) /\ (client[p].created # {} => p \in files)
  <1>1. p \in Paths /\ CreatesInTurn(p) /\ ServerHas(p)
    BY DEF TypeOK, OpType, RestoreInv
  <1>2. CreatorsOf(p) # {}
    BY DEF CreatorsOf
  <1>3. client[p].phase = "open" /\ client[p].created # Chunks
    BY <1>1, <1>2 DEF CreatesInTurn
  <1>4. Made(p) => p \in files
    BY <1>3 DEF Made
  <1>5. ~Overwrite(p) /\ client[p].created # {} => p \in files
    BY <1>1, <1>3 DEF ServerHas, Unfinished, Overwrite, Uptier
  <1>6. /\ client[p].written \subseteq client[p].created
        /\ Overwrite(p) => client[p].created = {}
    BY <1>1, <1>3 DEF ServerHas
  <1> QED BY <1>1, <1>3, <1>4, <1>5, <1>6

\* A step of the op of thread t, r after it, that concerns path p only.
StepAt(t, r, p) ==
  /\ ops' = [ops EXCEPT ![t] = r] /\ mode' = mode
  /\ ops[t].pc = "idle" \/ ops[t].path = p
  /\ r.path = p \/ (r.pc = "idle" /\ r.result = "none")
  /\ \A q \in Paths : q # p =>
       /\ q \in files' <=> q \in files
       /\ data'[q] = data[q] /\ origin'[q] = origin[q] /\ final'[q] = final[q]
       /\ client'[q] = client[q]
       /\ q \in CachedOk' => q \in CachedOk

\* Such a step keeps RestoreInv when it does so for p, for t and for who is at p too.
LEMMA Locality ==
  ASSUME TypeOK, RestoreInv, NEW t \in Threads, NEW r \in OpType(RestorePcs, {"handled"}),
         NEW p \in Paths, StepAt(t, r, p), FetchLocked', NoCreateCollision',
         CreatesInTurn(p)', ServerHas(p)',
         OpFollowsMode(t)', FinalizesAlone(t)', OpAchieves(t)',
         \A u \in Threads : u # t /\ ops[u].pc # "idle" /\ ops[u].path = p
                              => FinalizesAlone(u)' /\ OpAchieves(u)'
  PROVE  RestoreInv'
  <1>1. ops'[t] = r /\ \A u \in Threads : u # t => ops'[u] = ops[u]
    BY OpChanges DEF TypeOK, StepAt
  <1>2. ASSUME NEW q \in Paths PROVE CreatesInTurn(q)' /\ ServerHas(q)'
    <2>1. CASE q # p
      <3>1. /\ q \in files' <=> q \in files
            /\ data'[q] = data[q] /\ origin'[q] = origin[q] /\ final'[q] = final[q]
            /\ client'[q] = client[q]
            /\ q \in CachedOk' => q \in CachedOk
            /\ mode' = mode
        BY <2>1 DEF StepAt
      <3>2. CreatorsOf(q)' = CreatorsOf(q)
        BY <2>1, CreatorsChange DEF StepAt
      <3>3. CreatesInTurn(q)'
        BY <3>1, <3>2 DEF RestoreInv, CreatesInTurn, Overwrite
      <3>4. ServerHas(q)'
        BY <3>1 DEF RestoreInv, ServerHas, Overwrite, Uptier, Unfinished, Made
      <3> QED BY <3>3, <3>4
    <2> QED BY <2>1
  <1>3. ASSUME NEW u \in Threads
        PROVE  OpFollowsMode(u)' /\ FinalizesAlone(u)' /\ OpAchieves(u)'
    <2>0. PICK q : q = ops[u].path
      OBVIOUS
    <2>1. /\ q \in Paths /\ OpFollowsMode(u) /\ FinalizesAlone(u) /\ OpAchieves(u)
          /\ mode' = mode
      BY <2>0 DEF TypeOK, OpType, RestoreInv, StepAt
    <2>2. CASE u # t
      <3>1. ops'[u] = ops[u]
        BY <1>1, <2>2
      <3>2. OpFollowsMode(u)'
        BY <2>1, <3>1 DEF OpFollowsMode, Overwrite, Uptier
      <3>3. CASE ops[u].pc = "idle"
        <4>1. ops'[u].pc = "idle" /\ ops'[u].result = "none"
          BY <2>1, <3>1, <3>3 DEF OpFollowsMode
        <4> QED BY <3>2, <4>1 DEF FinalizesAlone, Finalizing, OpAchieves
      <3>4. CASE q # p
        <4>1. /\ q \in files' <=> q \in files
              /\ data'[q] = data[q] /\ origin'[q] = origin[q] /\ final'[q] = final[q]
              /\ client'[q] = client[q]
          BY <2>1, <3>4 DEF StepAt
        <4>2. ops'[t].pc = "idle" \/ ops'[t].path # q
          BY <1>1, <3>4 DEF StepAt
        <4>3. FinalizesAlone(u)'
          <5>1. ASSUME Finalizing(u)'
                PROVE  /\ client[q].phase = "finalizing"
                       /\ \A v \in Threads : v # u => ops[v].pc = "idle" \/ ops[v].path # q
                       /\ ops[u].pc # "abort" => client[q].written = Chunks
                       /\ ops[u].pc = "rename" => q \in files
                       /\ ops[u].pc = "renamed" => q \notin files
            BY <2>0, <2>1, <3>1, <5>1 DEF FinalizesAlone, Finalizing
          <5>2. ASSUME Finalizing(u)', NEW v \in Threads, v # u
                PROVE  ops'[v].pc = "idle" \/ ops'[v].path # q
            BY <1>1, <4>2, <5>1, <5>2
          <5> QED BY <2>0, <3>1, <4>1, <5>1, <5>2 DEF FinalizesAlone
        <4>4. OpAchieves(u)'
          BY <2>0, <2>1, <3>1, <4>1 DEF OpAchieves, Made, Overwrite
        <4> QED BY <3>2, <4>3, <4>4
      <3> QED BY <2>0, <2>2, <3>2, <3>3, <3>4
    <2> QED BY <2>2
  <1> QED BY <1>2, <1>3 DEF RestoreInv

\* A step within a Create RPC, which leaves the client as it is.
LEMMA CreateStepInv ==
  ASSUME TypeOK, RestoreInv, NEW t \in Threads, Creating(t),
         NEW r \in OpType(RestorePcs, {"handled"}), NEW p, p = ops[t].path, StepAt(t, r, p),
         r.path = p, r.pc \notin {"idle", "stat", "rename", "renamed", "abort"}, client' = client,
         ~Overwrite(p) => /\ data'[p] = data[p] /\ (p \in files => p \in files')
                          /\ p \in CachedOk' => p \in files',
         Overwrite(p) => (p \in CachedOk' => p \in CachedOk),
         p \notin files' => origin'[p] = "none", origin'[p] = "none" => data'[p] = {},
         ~Overwrite(p) => origin'[p] = origin[p],
         final'[p] = final[p] \/ (final'[p] = NoFile /\ ~Uptier(p)),
         FetchLocked', NoCreateCollision', OpFollowsMode(t)', OpAchieves(t)'
  PROVE  RestoreInv'
  <1>1. /\ p \in Paths /\ client[p].phase = "open" /\ client[p].created # Chunks
        /\ client[p].written \subseteq client[p].created
        /\ Overwrite(p) => client[p].created = {}
        /\ ~Overwrite(p) => (Made(p) => p \in files) /\ (client[p].created # {} => p \in files)
    BY CreatorOpen
  <1>2. mode' = mode /\ ServerHas(p) /\ CreatesInTurn(p)
    BY <1>1 DEF StepAt, RestoreInv
  <1>3. ops'[t] = r /\ \A u \in Threads : u # t => ops'[u] = ops[u]
    BY OpChanges DEF TypeOK, StepAt
  <1>4. CreatesInTurn(p)'
    <2>1. CreatorsOf(p)' = CreatorsOf(p) \cup {t} /\ t \in CreatorsOf(p)
      BY ZenonT(60), <1>1, CreatorsChange DEF StepAt, CreatorsOf
    <2>2. CreatorsOf(p)' = CreatorsOf(p)
      BY <2>1
    <2> QED BY <1>2, <2>2 DEF CreatesInTurn, Overwrite
  <1>5. p \in files' => client[p].written \subseteq data'[p]
    BY <1>1, <1>2 DEF ServerHas, Unfinished
  <1>6. Overwrite(p) => p \notin CachedOk'
    BY <1>2 DEF ServerHas
  <1>7. ServerHas(p)'
    BY <1>1, <1>2, <1>5, <1>6 DEF ServerHas, Unfinished, Overwrite, Uptier, Made
  <1>8. FinalizesAlone(t)'
    BY <1>3 DEF FinalizesAlone, Finalizing
  <1>9. ASSUME NEW u \in Threads, u # t, ops[u].pc # "idle", ops[u].path = p
        PROVE  FinalizesAlone(u)' /\ OpAchieves(u)'
    <2>1. ~Overwrite(p)
      BY <1>9, Alone
    <2>2. ~Finalizing(u)
      <3>1. ops[t].pc # "idle"
        BY DEF Creating
      <3> QED BY <1>9, <3>1, Alone
    <2>3. OpAchieves(u)
      BY DEF RestoreInv
    <2>4. Made(p) => Made(p)'
      BY <1>1, <2>1 DEF Made
    <2>5. OpAchieves(u)'
      BY <1>2, <1>3, <1>9, <2>1, <2>3, <2>4 DEF OpAchieves, Overwrite
    <2>6. FinalizesAlone(u)'
      BY <1>3, <1>9, <2>2 DEF FinalizesAlone, Finalizing
    <2> QED BY <2>5, <2>6
  <1> QED BY <1>1, <1>4, <1>7, <1>8, <1>9, Locality

\* The steps of CreateRestoreFilesOp after the handle was fetched, in terms of the place c
\* and the result res they leave the op with.
LEMMA CreateOpInv ==
  ASSUME TypeOK, RestoreInv, NEW t \in Threads, Creating(t), NEW p, p = ops[t].path,
         NEW c \in {"existing", "tmp", "delete", "make", "done"},
         NEW res \in {"ok", "handled", "error"}, Step(t, c, res),
         UNCHANGED <<file_handles_map, handles, writers, mode, client>>,
         files' = files \/ files' = files \ {p} \/ files' = files \cup {p},
         \/ data' = data /\ origin' = origin
         \/ data' = [data EXCEPT ![p] = {}] /\ origin' = [origin EXCEPT ![p] = "none"],
         final' = final \/ (final' = [final EXCEPT ![p] = NoFile] /\ ~Uptier(p)),
         ~Overwrite(p) => data' = data /\ origin' = origin /\ files' = files,
         p \notin files' => origin'[p] = "none", origin'[p] = "none" => data'[p] = {},
         c \in {"tmp", "make"} => Overwrite(p), c = "existing" => ~Uptier(p),
         c = "done" => res # "ok",
         ~Overwrite(p) /\ res \in {"ok", "handled"} => p \in files,
         ~Overwrite(p) /\ c \in {"existing", "delete"} => res = "ok",
         Overwrite(p) /\ c \in {"delete", "make"} => p \notin files',
         mode[p] = "overwrite" /\ c = "make" => final'[p] = NoFile,
         Overwrite(p) /\ c = "done" /\ res = "handled" =>
           p \in files' /\ origin'[p] = "none" /\ (mode[p] = "overwrite" => final'[p] = NoFile)
  PROVE  TypeOK' /\ RestoreInv'
  <1> DEFINE r == [ops[t] EXCEPT !.pc = c, !.result = res]
  <1>1. /\ ops[t] \in OpType(RestorePcs, {"handled"}) /\ p \in Paths /\ CacheTypeOK
        /\ ops \in [Threads -> OpType(RestorePcs, {"handled"})]
    BY DEF TypeOK, OpType
  <1>2. /\ r \in OpType(RestorePcs, {"handled"}) /\ r.pc = c /\ r.result = res /\ r.path = p
    BY <1>1 DEF OpType, RestorePcs
  <1>3. ops' = [ops EXCEPT ![t] = r]
    BY <1>1 DEF Step
  <1> HIDE DEF r
  <1>4. /\ ops' \in [Threads -> OpType(RestorePcs, {"handled"})] /\ ops'[t] = r
        /\ \A u \in Threads : u # t => ops'[u] = ops[u]
    BY <1>1, <1>2, <1>3, OpChanges
  <1>5. CachedOk' = CachedOk
    BY DEF CachedOk
  <1>6. TypeOK'
    <2>1. CacheTypeOK'
      BY <1>1 DEF CacheTypeOK
    <2>2. /\ data' \in [Paths -> SUBSET Chunks]
          /\ origin' \in [Paths -> {"none", "this", "earlier"}]
          /\ final' \in [Paths -> {NoFile, OldFile} \cup SUBSET Chunks]
      BY DEF TypeOK
    <2> QED BY <1>4, <2>1, <2>2 DEF TypeOK
  <1>7. StepAt(t, r, p)
    <2>1. \A q \in Paths : q # p => (q \in files' <=> q \in files)
      OBVIOUS
    <2>2. \A q \in Paths : q # p =>
            data'[q] = data[q] /\ origin'[q] = origin[q] /\ final'[q] = final[q]
      BY DEF TypeOK
    <2> QED BY <1>2, <1>3, <1>5, <2>1, <2>2 DEF StepAt
  <1>8. FetchLocked' /\ NoCreateCollision'
    <2>1. r.pc \notin FetchPcs
      BY <1>2 DEF FetchPcs
    <2>2. ASSUME NEW q \in files', q \notin files, NEW u \in Threads, ops[u].pc = "create"
          PROVE  ops[u].path # q
      <3>1. q = p /\ Overwrite(p)
        BY <2>2
      <3>2. OpFollowsMode(u)
        BY DEF RestoreInv
      <3> QED BY <2>2, <3>1, <3>2 DEF OpFollowsMode, FetchPcs
    <2> QED BY <1>1, <1>2, <1>3, <2>1, <2>2, OthersKeepLocks DEF RestoreInv
  <1>9. OpFollowsMode(t)'
    BY <1>2, <1>4 DEF OpFollowsMode, Overwrite, Uptier, FetchPcs
  <1>10. OpAchieves(t)'
    BY <1>2, <1>4 DEF OpAchieves, Overwrite, Made
  <1>11. p \in CachedOk => ~Overwrite(p) /\ (~Overwrite(p) => p \in files)
    BY <1>1, CreatorOpen DEF RestoreInv, ServerHas
  <1>12. final'[p] = final[p] \/ (final'[p] = NoFile /\ ~Uptier(p))
    BY <1>1 DEF TypeOK
  <1>13. RestoreInv'
    BY <1>2, <1>5, <1>7, <1>8, <1>9, <1>10, <1>11, <1>12, CreateStepInv
  <1> QED BY <1>6, <1>13

\* HandleEntity, DeleteExistingEntity, DeleteTmpEntity, DeleteNewEntity and
\* CreateRegularFile keep the invariant.
LEMMA CreateActionsInv ==
  ASSUME TypeOK, RestoreInv, NEW t \in Threads,
         \/ HandleEntity(t) \/ DeleteExistingEntity(t) \/ DeleteTmpEntity(t)
         \/ DeleteNewEntity(t) \/ CreateRegularFile(t)
  PROVE  TypeOK' /\ RestoreInv'
  <1>0. PICK p : p = ops[t].path
    OBVIOUS
  <1>1. p \in Paths /\ OpFollowsMode(t) /\ OpAchieves(t) /\ ServerHas(p)
    BY <1>0 DEF TypeOK, OpType, RestoreInv
  <1>2. /\ Uptier(p) => Overwrite(p)
        /\ mode[p] = "overwrite" => Overwrite(p) /\ ~Uptier(p)
    BY DEF Uptier, Overwrite
  <1>3. Creating(t)
    BY DEF Creating, Finalizing, HandleEntity, DeleteExistingEntity, DeleteTmpEntity,
           DeleteNewEntity, CreateRegularFile
  <1>4. ~Overwrite(p) /\ Made(p) => p \in files
    BY <1>0, <1>3, CreatorOpen
  <1>5. /\ data \in [Paths -> SUBSET Chunks] /\ origin \in [Paths -> {"none", "this", "earlier"}]
        /\ final \in [Paths -> {NoFile, OldFile} \cup SUBSET Chunks]
    BY DEF TypeOK
  <1>6. CASE HandleEntity(t)
    <2> DEFINE c == FirstDelete(p)
    <2>1. /\ ops[t].pc = "done" /\ ops[t].result = "ok" /\ Step(t, c, "ok")
          /\ files' = files /\ data' = data /\ origin' = origin /\ final' = final
          /\ UNCHANGED <<file_handles_map, handles, writers, mode, client>>
      BY <1>0, <1>6 DEF HandleEntity, serverVars
    <2>2. ~Overwrite(p) /\ p \in files /\ (origin[p] = "none" => data[p] = {})
      BY <1>0, <1>1, <1>4, <2>1 DEF OpFollowsMode, OpAchieves, ServerHas
    <2>3. c \in {"existing", "delete"}
      BY <2>2 DEF FirstDelete, DeleteAndCreate
    <2> HIDE DEF c
    <2> QED BY <1>0, <1>2, <1>3, <2>1, <2>2, <2>3, CreateOpInv
  <1>7. CASE DeleteExistingEntity(t)
    <2>1. /\ ops[t].pc = "existing" /\ files' = files /\ data' = data /\ origin' = origin
          /\ UNCHANGED <<file_handles_map, handles, writers, mode, client>>
      BY <1>7 DEF DeleteExistingEntity
    <2>2. ~Uptier(p) /\ (~Overwrite(p) => p \in files)
      BY <1>0, <1>1, <1>4, <2>1 DEF OpFollowsMode, OpAchieves
    <2>3. (p \notin files => origin[p] = "none") /\ (origin[p] = "none" => data[p] = {})
      BY <1>1 DEF ServerHas
    <2>4. CASE final' = [final EXCEPT ![p] = NoFile] /\ Step(t, DeleteAndCreate(p), "ok")
      <3>1. PICK c : c = DeleteAndCreate(p)
        OBVIOUS
      <3>2. c \in {"tmp", "delete"} /\ (c = "tmp" <=> Overwrite(p)) /\ Step(t, c, "ok")
        BY <2>4, <3>1 DEF DeleteAndCreate
      <3> QED BY <1>0, <1>3, <2>1, <2>2, <2>3, <2>4, <3>2, CreateOpInv
    <2>5. CASE Step(t, "done", "error") /\ UNCHANGED final
      BY <1>0, <1>3, <2>1, <2>2, <2>3, <2>5, CreateOpInv
    <2> QED BY <1>0, <1>7, <2>4, <2>5 DEF DeleteExistingEntity
  <1>8. CASE DeleteTmpEntity(t)
    <2>1. /\ ops[t].pc = "tmp" /\ final' = final
          /\ UNCHANGED <<file_handles_map, handles, writers, mode, client>>
      BY <1>8 DEF DeleteTmpEntity
    <2>2. Overwrite(p) /\ (p \notin files => origin[p] = "none") /\ (origin[p] = "none" => data[p] = {})
      BY <1>0, <1>1, <2>1 DEF OpFollowsMode, ServerHas
    <2>3. CASE RemoveTmp(p) /\ Step(t, "delete", "ok")
      <3>1. /\ files' = files \ {p} /\ data' = [data EXCEPT ![p] = {}]
            /\ origin' = [origin EXCEPT ![p] = "none"]
        BY <2>3 DEF RemoveTmp
      <3>2. p \notin files' /\ data'[p] = {} /\ origin'[p] = "none"
        BY <1>1, <1>5, <3>1
      <3> QED BY <1>0, <1>3, <2>1, <2>2, <2>3, <3>1, <3>2, CreateOpInv
    <2>4. CASE Step(t, "done", "error") /\ UNCHANGED <<files, data, origin>>
      BY <1>0, <1>3, <2>1, <2>2, <2>4, CreateOpInv
    <2> QED BY <1>0, <1>8, <2>3, <2>4 DEF DeleteTmpEntity
  <1>9. CASE DeleteNewEntity(t)
    <2>1. /\ ops[t].pc = "delete" /\ files' = files /\ data' = data /\ origin' = origin
          /\ UNCHANGED <<file_handles_map, handles, writers, mode, client>>
      BY <1>9 DEF DeleteNewEntity
    <2>2. /\ Overwrite(p) => p \notin files
          /\ ~Overwrite(p) => p \in files
          /\ (p \notin files => origin[p] = "none") /\ (origin[p] = "none" => data[p] = {})
      BY <1>0, <1>1, <1>4, <2>1 DEF OpAchieves, ServerHas
    <2>3. CASE /\ final' = IF Uptier(p) THEN final ELSE [final EXCEPT ![p] = NoFile]
               /\ IF Overwrite(p) THEN Step(t, "make", "ok")
                                  ELSE \E res \in {"handled", "error"} : Step(t, "done", res)
      <3>1. /\ final' = final \/ (final' = [final EXCEPT ![p] = NoFile] /\ ~Uptier(p))
            /\ ~Uptier(p) => final'[p] = NoFile
        BY <1>1, <1>5, <2>3
      <3>2. CASE Overwrite(p) /\ Step(t, "make", "ok")
        BY <1>0, <1>2, <1>3, <2>1, <2>2, <3>1, <3>2, CreateOpInv
      <3>3. CASE ~Overwrite(p) /\ \E res \in {"handled", "error"} : Step(t, "done", res)
        <4>1. PICK res \in {"handled", "error"} : Step(t, "done", res)
          BY <3>3
        <4> QED BY <1>0, <1>2, <1>3, <2>1, <2>2, <3>1, <3>3, <4>1, CreateOpInv
      <3> QED BY <2>3, <3>2, <3>3
    <2>4. CASE Step(t, "done", "error") /\ UNCHANGED final
      BY <1>0, <1>3, <2>1, <2>2, <2>4, CreateOpInv
    <2> QED BY <1>0, <1>9, <2>3, <2>4 DEF DeleteNewEntity
  <1>10. CASE CreateRegularFile(t)
    <2>1. /\ ops[t].pc = "make" /\ final' = final /\ data' = data /\ origin' = origin
          /\ UNCHANGED <<file_handles_map, handles, writers, mode, client>>
      BY <1>10 DEF CreateRegularFile, serverVars
    <2>2. /\ Overwrite(p) /\ (mode[p] = "overwrite" => final[p] = NoFile)
          /\ (p \notin files => origin[p] = "none") /\ (origin[p] = "none" => data[p] = {})
      BY <1>0, <1>1, <2>1 DEF OpFollowsMode, OpAchieves, ServerHas
    <2>3. CASE p \notin files /\ files' = files \cup {p} /\ Step(t, "done", "handled")
      BY <1>0, <1>3, <2>1, <2>2, <2>3, CreateOpInv
    <2>4. CASE Step(t, "done", "error") /\ UNCHANGED files
      BY <1>0, <1>3, <2>1, <2>2, <2>4, CreateOpInv
    <2> QED BY <1>0, <1>10, <2>3, <2>4 DEF CreateRegularFile
  <1> QED BY <1>6, <1>7, <1>8, <1>9, <1>10

\* A step of FetchFileHandleOp within a Create RPC.
LEMMA FetchStepInv ==
  ASSUME TypeOK, RestoreInv, NEW t \in Threads, FetchStep(t), UNCHANGED <<serverVars, client>>
  PROVE  TypeOK' /\ RestoreInv'
  <1>0. PICK A, B, p : A = RestorePcs /\ B = {"handled"} /\ p = ops[t].path
    OBVIOUS
  <1>1. /\ CacheTypeOK /\ ops \in [Threads -> OpType(A, B)] /\ p \in Paths
        /\ FetchLocked /\ NoCreateCollision /\ OpFollowsMode(t) /\ OpAchieves(t) /\ ServerHas(p)
    BY <1>0 DEF TypeOK, OpType, RestoreInv
  <1>2. CacheTypeOK' /\ \E r \in OpType(A, B) : FetchEffect(t, r)
    BY <1>1, FetchStepEffect
  <1>3. PICK r \in OpType(A, B) : FetchEffect(t, r)
    BY <1>2
  <1>4. FetchLocked' /\ NoCreateCollision'
    BY <1>1, <1>3, FetchKeepsLocks
  <1>5. /\ ops' = [ops EXCEPT ![t] = r] /\ r.path = p
        /\ ops[t].pc \in FetchPcs /\ r.pc \in FetchPcs \cup {"done"}
        /\ files' = files \/ files' = files \cup {p}
        /\ r.pc \in {"done", "add"} => r.result # "none"
        /\ r.result # "handled" \/ ops[t].result = "handled"
        /\ r.result = "ok" => ops[t].result = "ok" \/ p \in files'
        /\ r.result = "cached" => ops[t].result = "cached" \/ p \in CachedOk
        /\ \A q \in CachedOk' : q \in CachedOk \/ (q = p /\ ops[t].result = "ok")
    BY <1>0, <1>3 DEF FetchEffect
  <1>6. /\ ops' \in [Threads -> OpType(A, B)] /\ ops'[t] = r
    BY <1>1, <1>3, <1>5, OpChanges
  <1>7. /\ data' = data /\ origin' = origin /\ final' = final /\ mode' = mode /\ client' = client
    BY DEF serverVars
  <1>8. TypeOK'
    BY <1>0, <1>2, <1>6, <1>7 DEF TypeOK
  <1>9. StepAt(t, r, p)
    BY <1>0, <1>5, <1>7 DEF StepAt
  <1>10. ~Overwrite(p) /\ ops[t].pc # "idle" /\ Creating(t)
    BY <1>0, <1>1, <1>5 DEF OpFollowsMode, Creating, Finalizing, FetchPcs
  <1>11. Made(p) => p \in files
    BY <1>0, <1>10, CreatorOpen
  <1>12. /\ ops[t].result \in {"ok", "cached", "handled"} => p \in files
         /\ p \in CachedOk => p \in files
    BY <1>0, <1>1, <1>10, <1>11 DEF OpAchieves, ServerHas
  <1>13. /\ r.result \in {"ok", "cached", "handled"} => p \in files'
         /\ p \in CachedOk' => p \in files'
    BY <1>5, <1>12
  <1>14. OpFollowsMode(t)'
    BY <1>5, <1>6, <1>7, <1>10 DEF OpFollowsMode, Overwrite, Uptier, FetchPcs
  <1>15. OpAchieves(t)'
    BY <1>5, <1>6, <1>7, <1>10, <1>13 DEF OpAchieves, Overwrite, Made, FetchPcs
  <1>16. r.pc \notin {"idle", "stat", "rename", "renamed", "abort"}
    BY <1>5 DEF FetchPcs
  <1>17. (p \notin files' => origin'[p] = "none") /\ (origin'[p] = "none" => data'[p] = {})
    BY <1>1, <1>5, <1>7 DEF ServerHas
  <1>18. r \in OpType(RestorePcs, {"handled"})
    BY <1>0, <1>3
  <1>19. RestoreInv'
    BY <1>0, <1>4, <1>5, <1>7, <1>9, <1>10, <1>13, <1>14, <1>15, <1>16, <1>17, <1>18, CreateStepInv
  <1> QED BY <1>8, <1>19

\* A Create RPC begins.
LEMMA CreateBeginsInv ==
  ASSUME CarefulClients, TypeOK, RestoreInv, NEW t \in Threads, NEW k \in Tasks, NEW p \in Paths,
         CreateRestoreFiles(t, k, p)
  PROVE  TypeOK' /\ RestoreInv'
  <1>0. PICK A, B : A = RestorePcs /\ B = {"handled"}
    OBVIOUS
  <1>1. /\ CacheTypeOK /\ ops \in [Threads -> OpType(A, B)]
        /\ FetchLocked /\ NoCreateCollision /\ ServerHas(p) /\ CreatesInTurn(p)
    BY <1>0 DEF TypeOK, RestoreInv
  <1>2. /\ client[p].phase = "open" /\ client[p].created # Chunks /\ ops[t].pc = "idle"
        /\ Cardinality(CreatorsOf(p))
             < IF Overwrite(p) THEN 1 ELSE Cardinality(Chunks \ client[p].created)
        /\ data' = data /\ origin' = origin /\ final' = final /\ mode' = mode /\ client' = client
    BY DEF CreateRestoreFiles, CarefulClients, GetFileHandlesEntry, serverVars
  <1>3. /\ CacheTypeOK' /\ CachedOk' \subseteq CachedOk /\ writers' = writers /\ files' = files
        /\ \E r \in OpType(A, B) :
             /\ ops' = [ops EXCEPT ![t] = r] /\ r.path = p /\ r.result = "none"
             /\ r.pc \in {"find", "lookup", "existing", "tmp"}
             /\ r.pc \in {"find", "lookup"} <=> ~Overwrite(p)
             /\ r.pc = "lookup" => r.object \in Objects
             /\ r.pc = "existing" => ~Uptier(p)
    <2>1. CASE Overwrite(p)
      <3> DEFINE r == [NoOp EXCEPT !.pc = FirstDelete(p), !.path = p]
      <3>1. FirstDelete(p) \in {"existing", "tmp"} /\ (FirstDelete(p) = "existing" => ~Uptier(p))
        BY <2>1 DEF FirstDelete, DeleteAndCreate
      <3>2. r \in OpType(A, B) /\ r.pc = FirstDelete(p) /\ r.path = p /\ r.result = "none"
        BY <1>0, <3>1, NoOpType DEF OpType, RestorePcs
      <3>3. /\ ops' = [ops EXCEPT ![t] = r] /\ writers' = writers /\ files' = files
            /\ handles' = handles /\ file_handles_map' = file_handles_map
        BY <2>1 DEF CreateRestoreFiles
      <3> HIDE DEF r
      <3>4. CacheTypeOK' /\ CachedOk' \subseteq CachedOk
        BY <1>1, <3>3 DEF CacheTypeOK, CachedOk
      <3> QED BY <2>1, <3>1, <3>2, <3>3, <3>4
    <2>2. CASE ~Overwrite(p)
      <3>1. GetFileHandlesEntry(t, k, p)
        BY <2>2 DEF CreateRestoreFiles
      <3>2. /\ CacheTypeOK' /\ CachedOk' \subseteq CachedOk
            /\ writers' = writers /\ files' = files
            /\ \E r \in OpType(A, B) :
                 /\ ops' = [ops EXCEPT ![t] = r] /\ r.pc \in {"find", "lookup"} /\ r.path = p
                 /\ r.result = "none" /\ (r.pc = "lookup" => r.object \in Objects)
        BY <1>1, <3>1, GetEntryEffect
      <3> QED BY <2>2, <3>2
    <2> QED BY <2>1, <2>2
  <1>4. PICK r \in OpType(A, B) :
             /\ ops' = [ops EXCEPT ![t] = r] /\ r.path = p /\ r.result = "none"
             /\ r.pc \in {"find", "lookup", "existing", "tmp"}
             /\ r.pc \in {"find", "lookup"} <=> ~Overwrite(p)
             /\ r.pc = "lookup" => r.object \in Objects
             /\ r.pc = "existing" => ~Uptier(p)
    BY <1>3
  <1>5. /\ ops' \in [Threads -> OpType(A, B)] /\ ops'[t] = r
        /\ \A u \in Threads : u # t => ops'[u] = ops[u]
    BY <1>1, <1>4, OpChanges
  <1>6. TypeOK'
    BY <1>0, <1>2, <1>3, <1>5 DEF TypeOK
  <1>7. StepAt(t, r, p)
    BY <1>2, <1>3, <1>4 DEF StepAt
  <1>8. FetchLocked' /\ NoCreateCollision'
    <2>1. r.pc \notin FetchPcs \/ r.pc = "find" \/ (r.pc = "lookup" /\ r.object \in Objects)
      BY <1>4 DEF FetchPcs
    <2> QED BY <1>1, <1>3, <1>4, <2>1, OthersKeepLocks
  <1>9. CreatesInTurn(p)'
    <2>1. PICK C, D, n : C = CreatorsOf(p) /\ D = CreatorsOf(p)'
                         /\ n = IF Overwrite(p) THEN 1 ELSE Cardinality(Chunks \ client[p].created)
      OBVIOUS
    <2>2. r \in OpType(RestorePcs, {"handled"}) /\ r.path = p
      BY <1>0, <1>4
    <2>3. CreatorsOf(p)' = CreatorsOf(p) \cup {t}
      BY <1>0, <1>2, <1>4, CreatorsChange
    <2>4. D = C \cup {t} /\ t \notin C /\ IsFiniteSet(C) /\ Cardinality(C) \in Nat /\ n \in Nat
          /\ Cardinality(C) < n
      <3>1. client[p].created \in SUBSET Chunks
        BY DEF TypeOK, ClientType
      <3>2. n \in Nat
        BY <2>1, <3>1, CountCreators
      <3>3. t \notin C
        BY <1>2, <2>1 DEF CreatorsOf, Creating
      <3> QED BY <1>2, <2>1, <2>3, <3>2, <3>3, CountCreators
    <2>5. Cardinality(D) = Cardinality(C) + 1
      BY <2>4, FS_AddElement
    <2>6. Cardinality(D) <= n
      BY <2>4, <2>5
    <2> QED BY <1>2, <2>1, <2>6 DEF CreatesInTurn, Overwrite
  <1>10. ServerHas(p)'
    BY <1>1, <1>2, <1>3 DEF ServerHas, Overwrite, Uptier, Unfinished, Made
  <1>11. OpFollowsMode(t)' /\ FinalizesAlone(t)' /\ OpAchieves(t)'
    BY <1>2, <1>4, <1>5 DEF OpFollowsMode, FinalizesAlone, Finalizing, OpAchieves, Overwrite, Uptier,
                            FetchPcs
  <1>12. ASSUME NEW u \in Threads, u # t, ops[u].pc # "idle", ops[u].path = p
         PROVE  FinalizesAlone(u)' /\ OpAchieves(u)'
    <2>1. FinalizesAlone(u) /\ OpAchieves(u) /\ ops'[u] = ops[u]
      BY <1>5, <1>12 DEF RestoreInv
    <2>2. ~Finalizing(u)
      BY <1>2, <1>12, <2>1 DEF FinalizesAlone
    <2>3. FinalizesAlone(u)'
      BY <2>1, <2>2 DEF FinalizesAlone, Finalizing
    <2>4. OpAchieves(u)'
      BY <1>2, <1>3, <2>1 DEF OpAchieves, Overwrite, Made
    <2> QED BY <2>3, <2>4
  <1>13. r \in OpType(RestorePcs, {"handled"})
    BY <1>0, <1>4
  <1>14. RestoreInv'
    BY <1>7, <1>8, <1>9, <1>10, <1>11, <1>12, <1>13, Locality
  <1> QED BY <1>6, <1>14

\* A Create RPC returns.
LEMMA CreateReturnsInv ==
  ASSUME TypeOK, RestoreInv, NEW t \in Threads, CreateReturns(t)
  PROVE  TypeOK' /\ RestoreInv'
  <1>0. PICK A, B, p : A = RestorePcs /\ B = {"handled"} /\ p = ops[t].path
    OBVIOUS
  <1>1. /\ CacheTypeOK /\ ops \in [Threads -> OpType(A, B)] /\ p \in Paths
        /\ FetchLocked /\ NoCreateCollision /\ OpFollowsMode(t) /\ OpAchieves(t)
        /\ ServerHas(p) /\ CreatesInTurn(p) /\ client[p] \in ClientType
        /\ client \in [Paths -> ClientType]
    BY <1>0 DEF TypeOK, OpType, RestoreInv
  <1>2. FinishFetch(t) /\ ops[t].result # "ok"
    BY DEF CreateReturns
  <1>3. /\ CacheTypeOK' /\ CachedOk' \subseteq CachedOk
        /\ files' = files /\ ops[t].pc = "done" /\ ops' = [ops EXCEPT ![t] = NoOp]
        /\ \/ writers' = writers
           \/ writers' = [writers EXCEPT ![ops[t].path] = @ \ {t}]
    BY <1>1, <1>2, FinishEffect
  <1>4. NoOp \in OpType(A, B) /\ NoOp.pc = "idle" /\ NoOp.result = "none"
    BY NoOpType
  <1>5. /\ ops' \in [Threads -> OpType(A, B)] /\ ops'[t] = NoOp
        /\ \A u \in Threads : u # t => ops'[u] = ops[u]
    BY <1>1, <1>3, <1>4, OpChanges
  <1>6. Creating(t)
    BY <1>3 DEF Creating, Finalizing
  <1>7. /\ client[p].phase = "open" /\ client[p].created # Chunks
        /\ client[p].written \subseteq client[p].created
        /\ Overwrite(p) => client[p].created = {}
        /\ ~Overwrite(p) => (Made(p) => p \in files) /\ (client[p].created # {} => p \in files)
    BY <1>0, <1>6, CreatorOpen
  <1>8. /\ ops[t].result # "error" => p \in files
        /\ ops[t].result # "error" /\ Overwrite(p) =>
             origin[p] = "none" /\ (mode[p] = "overwrite" => final[p] = NoFile)
    <2>1. ops[t].result \in {"error", "cached", "handled"}
      BY <1>0, <1>1, <1>2, <1>3 DEF OpType, OpFollowsMode
    <2>2. ~Overwrite(p) /\ ops[t].result # "error" => p \in files
      BY <1>0, <1>1, <1>7, <2>1 DEF OpAchieves
    <2>3. Overwrite(p) /\ ops[t].result # "error" => ops[t].result = "handled"
      BY <1>0, <1>1, <1>3, <2>1 DEF OpFollowsMode
    <2> QED BY <1>0, <1>1, <1>3, <2>2, <2>3 DEF OpAchieves
  <1>9. data' = data /\ origin' = origin /\ final' = final /\ mode' = mode
    BY DEF CreateReturns, serverVars
  <1>10. PICK x \in ClientType :
           /\ client' = [client EXCEPT ![p] = x] /\ x.phase = "open" /\ x.written = client[p].written
           /\ \/ x.created = client[p].created
              \/ /\ p \in files /\ Overwrite(p) /\ x.created = Chunks
                 /\ origin[p] = "none" /\ (mode[p] = "overwrite" => final[p] = NoFile)
              \/ /\ p \in files /\ ~Overwrite(p)
                 /\ \E c \in Chunks \ client[p].created : x.created = client[p].created \cup {c}
    <2>1. CASE UNCHANGED client
      BY <1>1, <1>7, <2>1
    <2>2. CASE ops[t].result # "error" /\ \E c \in Chunks \ client[p].created :
                 client' = [client EXCEPT ![p].created = IF Overwrite(p) THEN Chunks ELSE @ \cup {c}]
      <3>1. PICK c \in Chunks \ client[p].created :
              client' = [client EXCEPT ![p].created = IF Overwrite(p) THEN Chunks ELSE @ \cup {c}]
        BY <2>2
      <3>2. PICK d : d = IF Overwrite(p) THEN Chunks ELSE client[p].created \cup {c}
        OBVIOUS
      <3>3. d \in SUBSET Chunks
        BY <1>1, <3>1, <3>2 DEF ClientType
      <3> DEFINE x == [client[p] EXCEPT !.created = d]
      <3>4. client' = [client EXCEPT ![p] = x]
        BY <1>1, <3>1, <3>2
      <3>5. x \in ClientType /\ x.phase = client[p].phase /\ x.written = client[p].written /\ x.created = d
        BY <1>1, <3>3 DEF ClientType
      <3> HIDE DEF x
      <3>6. CASE Overwrite(p)
        BY <1>7, <1>8, <2>2, <3>2, <3>4, <3>5, <3>6
      <3>7. CASE ~Overwrite(p)
        BY <1>7, <1>8, <2>2, <3>1, <3>2, <3>4, <3>5, <3>7
      <3> QED BY <3>6, <3>7
    <2> QED BY <1>0, <1>7, <2>1, <2>2 DEF CreateReturns
  <1>11. client' \in [Paths -> ClientType] /\ client'[p] = x /\ \A q \in Paths : q # p => client'[q] = client[q]
    BY <1>1, <1>10
  <1>12. TypeOK'
    BY <1>0, <1>3, <1>5, <1>9, <1>11 DEF TypeOK
  <1>13. StepAt(t, NoOp, p)
    BY <1>0, <1>3, <1>4, <1>9, <1>11 DEF StepAt
  <1>14. FetchLocked' /\ NoCreateCollision'
    <2>1. NoOp.pc \notin FetchPcs
      BY <1>4 DEF FetchPcs
    <2> QED BY <1>1, <1>3, <1>4, <2>1, OthersKeepLocks
  <1>15. CreatesInTurn(p)'
    <2>1. PICK C, D, S, T : /\ C = CreatorsOf(p) /\ D = CreatorsOf(p)'
                            /\ S = Chunks \ client[p].created /\ T = Chunks \ x.created
      OBVIOUS
    <2>2. CreatorsOf(p)' = CreatorsOf(p) \ {t}
      BY <1>0, <1>1, <1>3, <1>4, CreatorsChange
    <2>3. client[p].created \in SUBSET Chunks /\ x.created \in SUBSET Chunks
      BY <1>1, <1>10 DEF ClientType
    <2>4. /\ D = C \ {t} /\ t \in C /\ IsFiniteSet(C) /\ Cardinality(C) \in Nat
          /\ IsFiniteSet(S) /\ Cardinality(S) \in Nat
      <3>1. t \in C
        BY <1>0, <1>6, <2>1 DEF CreatorsOf
      <3>2. IsFiniteSet(C) /\ Cardinality(C) \in Nat
        BY <2>1, CountCreators
      <3>3. IsFiniteSet(S) /\ Cardinality(S) \in Nat
        BY <2>1, <2>3, CountCreators
      <3> QED BY <2>1, <2>2, <3>1, <3>2, <3>3
    <2>5. Cardinality(D) = Cardinality(C) - 1 /\ IsFiniteSet(D)
      BY <2>4, FS_RemoveElement
    <2>6. Cardinality(C) <= IF Overwrite(p) THEN 1 ELSE Cardinality(S)
      BY <1>1, <2>1 DEF CreatesInTurn
    <2>7. CASE Overwrite(p)
      <3>1. Cardinality(D) <= 0 /\ Cardinality(D) \in Nat
        BY <2>4, <2>5, <2>6, <2>7, FS_CardinalityType
      <3>2. Cardinality(D) = 0
        BY <3>1
      <3>3. D = {}
        BY <2>5, <3>2, FS_EmptySet
      <3> QED BY <1>9, <2>1, <2>7, <3>2, <3>3 DEF CreatesInTurn, Overwrite
    <2>8. CASE ~Overwrite(p)
      <3>1. Cardinality(T) \in Nat /\ Cardinality(T) >= Cardinality(S) - 1
        <4>1. CASE x.created = client[p].created
          BY <2>1, <2>4, <4>1
        <4>2. CASE \E c \in Chunks \ client[p].created : x.created = client[p].created \cup {c}
          <5>1. PICK c \in S : T = S \ {c}
            BY <2>1, <4>2
          <5>2. IsFiniteSet(T) /\ Cardinality(T) = Cardinality(S) - 1
            BY <2>4, <5>1, FS_RemoveElement
          <5> QED BY <2>4, <5>2, FS_CardinalityType
        <4> QED BY <1>10, <2>8, <4>1, <4>2
      <3>2. Cardinality(D) <= Cardinality(T)
        BY <2>4, <2>5, <2>6, <2>8, <3>1
      <3>3. D # {} => x.created # Chunks
        <4> SUFFICES ASSUME D # {}, x.created = Chunks PROVE FALSE
          OBVIOUS
        <4>1. T = {} /\ Cardinality(T) = 0
          BY <2>1, FS_EmptySet
        <4>2. Cardinality(D) \in Nat /\ Cardinality(D) # 0
          BY <2>5, FS_EmptySet, FS_CardinalityType
        <4> QED BY <3>2, <4>1, <4>2
      <3> QED BY <1>9, <1>10, <1>11, <2>1, <2>8, <3>2, <3>3 DEF CreatesInTurn, Overwrite
    <2> QED BY <2>7, <2>8
  <1>16. ServerHas(p)'
    <2>1. CASE x.created = client[p].created
      BY <1>1, <1>3, <1>7, <1>9, <1>10, <1>11, <2>1
         DEF ServerHas, Overwrite, Uptier, Unfinished, Made
    <2>2. CASE x.created # client[p].created
      <3>1. x.created \subseteq Chunks /\ client[p].created \subseteq x.created
        BY <1>1, <1>10 DEF ClientType
      <3>2. /\ p \in files /\ (Overwrite(p) => x.created = Chunks /\ origin[p] = "none")
            /\ mode[p] = "overwrite" => final[p] = NoFile
        BY <1>10, <2>2 DEF Overwrite
      <3>3. NoFile # OldFile
        BY RestoreAssumption
      <3>4. /\ client'[p].written = client[p].written /\ client'[p].created = x.created
            /\ client'[p].phase = "open"
        BY <1>10, <1>11
      <3>5. p \in CachedOk' => ~Overwrite(p)
        BY <1>1, <1>3 DEF ServerHas
      <3>6. client[p].written \subseteq data[p]
        BY <1>1, <1>7, <3>2 DEF ServerHas, Unfinished
      <3>7. /\ final[p] \in {NoFile, OldFile, Chunks} /\ (Uptier(p) => final[p] # NoFile)
            /\ origin[p] = "none" => data[p] = {}
        BY <1>1 DEF ServerHas
      <3> QED BY <1>3, <1>7, <1>9, <3>1, <3>2, <3>3, <3>4, <3>5, <3>6, <3>7
              DEF ServerHas, Overwrite, Uptier, Unfinished, Made
    <2> QED BY <2>1, <2>2
  <1>17. OpFollowsMode(t)' /\ FinalizesAlone(t)' /\ OpAchieves(t)'
    BY <1>4, <1>5 DEF OpFollowsMode, FinalizesAlone, Finalizing, OpAchieves, FetchPcs
  <1>18. ASSUME NEW u \in Threads, u # t, ops[u].pc # "idle", ops[u].path = p
         PROVE  FinalizesAlone(u)' /\ OpAchieves(u)'
    <2>1. FinalizesAlone(u) /\ OpAchieves(u) /\ ops'[u] = ops[u]
      BY <1>5, <1>18 DEF RestoreInv
    <2>2. ~Finalizing(u)
      BY <1>7, <1>18, <2>1 DEF FinalizesAlone
    <2>3. FinalizesAlone(u)'
      BY <2>1, <2>2 DEF FinalizesAlone, Finalizing
    <2>4. ~Overwrite(p)
      BY <1>0, <1>6, <1>18, Alone
    <2>5. OpAchieves(u)'
      BY <1>3, <1>7, <1>9, <1>18, <2>1, <2>4 DEF OpAchieves, Overwrite, Made
    <2> QED BY <2>3, <2>5
  <1>19. NoOp \in OpType(RestorePcs, {"handled"})
    BY <1>0, <1>4
  <1>20. RestoreInv'
    BY <1>1, <1>13, <1>14, <1>15, <1>16, <1>17, <1>18, <1>19, Locality
  <1> QED BY <1>12, <1>20

\* WriteFilesDataOp writes a chunk.
LEMMA WriteInv ==
  ASSUME TypeOK, RestoreInv, NEW p \in Paths, NEW c \in Chunks, WriteFilesData(p, c)
  PROVE  TypeOK' /\ RestoreInv'
  <1>1. /\ client[p].phase = "open" /\ c \in client[p].created
        /\ UNCHANGED <<fhVars, final, mode>>
    BY DEF WriteFilesData
  <1>2. /\ file_handles_map' = file_handles_map /\ handles' = handles /\ writers' = writers
        /\ files' = files /\ ops' = ops /\ final' = final /\ mode' = mode
    BY <1>1 DEF fhVars
  <1>3. /\ client \in [Paths -> ClientType] /\ data \in [Paths -> SUBSET Chunks]
        /\ client[p] \in ClientType /\ origin \in [Paths -> {"none", "this", "earlier"}]
    BY DEF TypeOK
  <1>4. PICK done \in {"nothing", "part", "whole"}, ok \in BOOLEAN :
          /\ (done # "nothing" => p \in files) /\ (ok => done = "whole")
          /\ data' = IF done = "whole" THEN [data EXCEPT ![p] = @ \cup {c}] ELSE data
          /\ origin' = IF done # "nothing" /\ origin[p] = "none"
                         THEN [origin EXCEPT ![p] = "this"] ELSE origin
          /\ client' = IF ok THEN [client EXCEPT ![p].written = @ \cup {c}] ELSE client
    BY DEF WriteFilesData
  <1>5. PICK w \in SUBSET Chunks :
          /\ w = IF ok THEN client[p].written \cup {c} ELSE client[p].written
    BY <1>3 DEF ClientType
  <1> DEFINE x == [client[p] EXCEPT !.written = w]
  <1>6. /\ x \in ClientType /\ x.phase = client[p].phase /\ x.created = client[p].created
        /\ x.written = w
    BY <1>3 DEF ClientType
  <1>7. client' = [client EXCEPT ![p] = x]
    <2>1. CASE ok
      BY <1>3, <1>4, <1>5, <2>1
    <2>2. CASE ~ok
      <3>1. x = client[p]
        BY <1>3, <1>5, <2>2 DEF ClientType
      <3> QED BY <1>3, <1>4, <2>2, <3>1
    <2> QED BY <2>1, <2>2
  <1> HIDE DEF x
  <1>8. /\ client' \in [Paths -> ClientType] /\ client'[p] = x
        /\ \A q \in Paths : q # p => client'[q] = client[q]
    BY <1>3, <1>6, <1>7
  <1>9. /\ data' \in [Paths -> SUBSET Chunks] /\ data[p] \subseteq data'[p]
        /\ data'[p] \subseteq data[p] \cup {c} /\ (ok => c \in data'[p])
        /\ \A q \in Paths : q # p => data'[q] = data[q]
    BY <1>3, <1>4
  <1>10. /\ origin' \in [Paths -> {"none", "this", "earlier"}]
         /\ origin'[p] = "none" => origin[p] = "none" /\ data'[p] = data[p]
         /\ origin'[p] = "earlier" => origin[p] = "earlier"
         /\ p \notin files => origin'[p] = origin[p]
         /\ \A q \in Paths : q # p => origin'[q] = origin[q]
    BY <1>3, <1>4
  <1>11. CachedOk' = CachedOk /\ \A q : CreatorsOf(q)' = CreatorsOf(q)
    BY <1>2 DEF CachedOk, CreatorsOf, Creating, Finalizing
  <1>12. TypeOK'
    BY <1>2, <1>8, <1>9, <1>10 DEF TypeOK, CacheTypeOK
  <1>13. FetchLocked' /\ NoCreateCollision'
    BY <1>2 DEF RestoreInv, FetchLocked, NoCreateCollision
  <1>14. \A q \in Paths : client'[q].created = client[q].created /\ client'[q].phase = client[q].phase
    BY <1>6, <1>8
  <1>15. ASSUME NEW q \in Paths PROVE CreatesInTurn(q)' /\ ServerHas(q)'
    <2>1. CreatesInTurn(q) /\ ServerHas(q)
      BY DEF RestoreInv
    <2>2. CreatesInTurn(q)'
      BY <1>2, <1>11, <1>14, <2>1 DEF CreatesInTurn, Overwrite
    <2>3. CASE q = p
      <3>1. client'[p].written \subseteq client[p].written \cup {c}
            /\ (c \in client'[p].written => ok \/ c \in client[p].written)
        BY <1>5, <1>6, <1>8
      <3>2. p \in files => client'[p].written \subseteq data'[p]
        BY <1>1, <1>9, <2>1, <2>3, <3>1 DEF ServerHas, Unfinished
      <3>3. client'[p].written \subseteq client[p].created
        BY <1>1, <2>1, <2>3, <3>1 DEF ServerHas
      <3>4. (p \notin files => origin'[p] = "none") /\ (origin'[p] = "none" => data'[p] = {})
        BY <1>10, <2>1, <2>3 DEF ServerHas
      <3> QED BY <1>1, <1>2, <1>10, <1>11, <1>14, <2>1, <2>2, <2>3, <3>2, <3>3, <3>4
              DEF ServerHas, Overwrite, Uptier, Unfinished, Made
    <2>4. CASE q # p
      BY <1>2, <1>8, <1>9, <1>10, <1>11, <2>1, <2>2, <2>4
         DEF ServerHas, Overwrite, Uptier, Unfinished, Made
    <2> QED BY <2>3, <2>4
  <1>16. ASSUME NEW u \in Threads PROVE OpFollowsMode(u)' /\ FinalizesAlone(u)' /\ OpAchieves(u)'
    <2>0. PICK q : q = ops[u].path
      OBVIOUS
    <2>1. q \in Paths /\ OpFollowsMode(u) /\ FinalizesAlone(u) /\ OpAchieves(u)
      BY <2>0 DEF RestoreInv, TypeOK, OpType
    <2>2. OpFollowsMode(u)'
      BY <1>2, <2>1 DEF OpFollowsMode, Overwrite, Uptier
    <2>3. Finalizing(u) => q # p
      BY <1>1, <2>0, <2>1 DEF FinalizesAlone
    <2>4. FinalizesAlone(u)'
      BY <1>2, <1>8, <2>0, <2>1, <2>3 DEF FinalizesAlone, Finalizing
    <2>5. Overwrite(q) /\ ops[u].pc = "done" => q # p
      <3> SUFFICES ASSUME Overwrite(q), ops[u].pc = "done", q = p PROVE FALSE
        OBVIOUS
      <3>1. Creating(u)
        BY DEF Creating, Finalizing
      <3> QED BY <1>1, <2>0, <3>1, CreatorOpen
    <2>6. Made(q)' <=> Made(q)
      BY <1>2, <1>14, <2>1 DEF Made
    <2>7. OpAchieves(u)'
      BY <1>2, <1>10, <2>0, <2>1, <2>5, <2>6 DEF OpAchieves, Overwrite
    <2> QED BY <2>2, <2>4, <2>7
  <1> QED BY <1>12, <1>13, <1>15, <1>16 DEF RestoreInv

\* A Finalize RPC begins, with should_commit or without.
LEMMA FinalizeBeginsInv ==
  ASSUME TypeOK, RestoreInv, NEW t \in Threads, NEW p \in Paths,
         FinalizeRestoreFiles(t, p) \/ AbortRestoreFiles(t, p)
  PROVE  TypeOK' /\ RestoreInv'
  <1>0. PICK c \in {"stat", "abort"} :
          /\ ops[t].pc = "idle" /\ client[p].phase = "open"
          /\ client' = [client EXCEPT ![p].phase = "finalizing"]
          /\ ops' = [ops EXCEPT ![t] = [NoOp EXCEPT !.pc = c, !.path = p]]
          /\ UNCHANGED <<file_handles_map, handles, writers, files, serverVars>>
          /\ \/ c = "stat" /\ client[p].written = Chunks
             \/ c = "abort" /\ \A u \in Threads : ops[u].pc = "idle" \/ ops[u].path # p
    BY DEF FinalizeRestoreFiles, AbortRestoreFiles
  <1>1. /\ file_handles_map' = file_handles_map /\ handles' = handles /\ writers' = writers
        /\ files' = files /\ data' = data /\ origin' = origin /\ final' = final /\ mode' = mode
    BY <1>0 DEF serverVars
  <1>2. /\ client \in [Paths -> ClientType] /\ client[p] \in ClientType /\ ServerHas(p)
        /\ CreatesInTurn(p) /\ CacheTypeOK /\ FetchLocked /\ NoCreateCollision
        /\ ops \in [Threads -> OpType(RestorePcs, {"handled"})]
    BY DEF TypeOK, RestoreInv
  <1>3. ASSUME NEW u \in Threads PROVE ops[u].pc = "idle" \/ ops[u].path # p
    <2>1. CASE client[p].written = Chunks
      <3>1. client[p].created = Chunks
        BY <1>2, <2>1 DEF ServerHas, ClientType
      <3>2. u \notin CreatorsOf(p)
        BY <1>2, <3>1 DEF CreatesInTurn
      <3>3. FinalizesAlone(u)
        BY DEF RestoreInv
      <3> QED BY <1>0, <3>2, <3>3 DEF CreatorsOf, Creating, FinalizesAlone
    <2> QED BY <1>0, <2>1
  <1> DEFINE r == [NoOp EXCEPT !.pc = c, !.path = p]
             x == [client[p] EXCEPT !.phase = "finalizing"]
  <1>4. r \in OpType(RestorePcs, {"handled"}) /\ r.pc = c /\ r.path = p /\ r.result = "none"
    BY <1>0, NoOpType DEF OpType, RestorePcs
  <1>5. /\ x \in ClientType /\ x.phase = "finalizing" /\ x.created = client[p].created
        /\ x.written = client[p].written
    BY <1>2 DEF ClientType
  <1>6. client' = [client EXCEPT ![p] = x] /\ ops' = [ops EXCEPT ![t] = r]
    BY <1>0, <1>2
  <1> HIDE DEF r, x
  <1>7. /\ client' \in [Paths -> ClientType] /\ client'[p] = x
        /\ \A q \in Paths : q # p => client'[q] = client[q]
    BY <1>2, <1>5, <1>6
  <1>8. /\ ops' \in [Threads -> OpType(RestorePcs, {"handled"})] /\ ops'[t] = r
        /\ \A u \in Threads : u # t => ops'[u] = ops[u]
    BY <1>2, <1>4, <1>6, OpChanges
  <1>9. CachedOk' = CachedOk
    BY <1>1 DEF CachedOk
  <1>10. TypeOK'
    BY <1>1, <1>7, <1>8 DEF TypeOK, CacheTypeOK
  <1>11. StepAt(t, r, p)
    BY <1>0, <1>1, <1>4, <1>6, <1>7, <1>9 DEF StepAt
  <1>12. FetchLocked' /\ NoCreateCollision'
    <2>1. r.pc \notin FetchPcs
      BY <1>0, <1>4 DEF FetchPcs
    <2> QED BY <1>1, <1>2, <1>4, <1>6, <2>1, OthersKeepLocks
  <1>13. CreatesInTurn(p)'
    <2>1. CreatorsOf(p) = {}
      BY <1>3 DEF CreatorsOf, Creating
    <2>2. CreatorsOf(p)' = CreatorsOf(p) \ {t}
      BY <1>0, <1>4, <1>6, CreatorsChange
    <2>3. CreatorsOf(p)' = {}
      BY <2>1, <2>2
    <2>4. Cardinality(Chunks \ x.created) \in Nat
      BY <1>5, CountCreators DEF ClientType
    <2>5. Cardinality({}) = 0
      BY FS_EmptySet
    <2> QED BY <1>7, <2>3, <2>4, <2>5 DEF CreatesInTurn
  <1>14. ServerHas(p)'
    BY <1>0, <1>1, <1>2, <1>5, <1>7, <1>9 DEF ServerHas, Overwrite, Uptier, Unfinished, Made
  <1>15. OpFollowsMode(t)' /\ OpAchieves(t)'
    BY <1>0, <1>4, <1>8 DEF OpFollowsMode, OpAchieves, FetchPcs
  <1>16. FinalizesAlone(t)'
    BY <1>0, <1>3, <1>4, <1>5, <1>7, <1>8 DEF FinalizesAlone, Finalizing
  <1>17. RestoreInv'
    BY <1>3, <1>4, <1>11, <1>12, <1>13, <1>14, <1>15, <1>16, Locality
  <1> QED BY <1>10, <1>17

\* A step of a Finalize RPC: what remains to be shown is that the server has what the
\* client is told.
LEMMA FinalizeStepInv ==
  ASSUME TypeOK, RestoreInv, NEW t \in Threads, Finalizing(t), NEW p, p = ops[t].path,
         NEW r \in OpType(RestorePcs, {"handled"}), ops' = [ops EXCEPT ![t] = r], r.result = "none",
         NEW x \in ClientType, client' = [client EXCEPT ![p] = x], x.created = client[p].created,
         \/ r.pc = "idle"
         \/ /\ r.pc \in {"rename", "renamed"} /\ r.path = p
            /\ ops[t].pc = "stat" /\ x = client[p]
            /\ r.pc = "rename" <=> p \in files',
         UNCHANGED <<file_handles_map, handles, writers, mode>>,
         files' = files \/ files' = files \ {p},
         \/ data' = data /\ origin' = origin
         \/ data' = [data EXCEPT ![p] = {}] /\ origin' = [origin EXCEPT ![p] = "none"],
         final' = final \/ final' = [final EXCEPT ![p] = data[p]],
         p \in Paths => ServerHas(p)'
  PROVE  TypeOK' /\ RestoreInv'
  <1>1. /\ p \in Paths /\ CacheTypeOK /\ FetchLocked /\ NoCreateCollision
        /\ ops \in [Threads -> OpType(RestorePcs, {"handled"})] /\ client \in [Paths -> ClientType]
        /\ data \in [Paths -> SUBSET Chunks] /\ origin \in [Paths -> {"none", "this", "earlier"}]
        /\ final \in [Paths -> {NoFile, OldFile} \cup SUBSET Chunks] /\ FinalizesAlone(t)
    BY DEF TypeOK, OpType, RestoreInv
  <1>2. /\ client' \in [Paths -> ClientType] /\ client'[p] = x
        /\ \A q \in Paths : q # p => client'[q] = client[q]
    BY <1>1
  <1>3. /\ ops' \in [Threads -> OpType(RestorePcs, {"handled"})] /\ ops'[t] = r
        /\ \A u \in Threads : u # t => ops'[u] = ops[u]
    BY <1>1, OpChanges
  <1>4. CachedOk' = CachedOk
    BY DEF CachedOk
  <1>5. /\ data' \in [Paths -> SUBSET Chunks] /\ \A q \in Paths : q # p => data'[q] = data[q]
        /\ origin' \in [Paths -> {"none", "this", "earlier"}]
        /\ \A q \in Paths : q # p => origin'[q] = origin[q]
        /\ final' \in [Paths -> {NoFile, OldFile} \cup SUBSET Chunks]
        /\ \A q \in Paths : q # p => final'[q] = final[q]
        /\ \A q \in Paths : q # p => (q \in files' <=> q \in files)
    BY <1>1
  <1>6. TypeOK'
    BY <1>1, <1>2, <1>3, <1>5 DEF TypeOK, CacheTypeOK
  <1>7. StepAt(t, r, p)
    BY <1>2, <1>4, <1>5 DEF StepAt
  <1>8. FetchLocked' /\ NoCreateCollision'
    <2>1. r.pc \notin FetchPcs
      BY DEF FetchPcs
    <2>2. \A q \in files' : q \in files
      OBVIOUS
    <2> QED BY <1>1, <2>1, <2>2, OthersKeepLocks
  <1>9. \A u \in Threads : u # t => ops[u].pc = "idle" \/ ops[u].path # p
    BY Alone
  <1>10. CreatesInTurn(p)'
    <2>1. CreatorsOf(p) \subseteq {t}
      BY <1>9 DEF CreatorsOf, Creating
    <2>2. CreatorsOf(p)' = CreatorsOf(p) \ {t}
      BY ZenonT(60), <1>1, CreatorsChange
    <2>3. CreatorsOf(p)' = {}
      BY <2>1, <2>2
    <2>4. Cardinality(Chunks \ x.created) \in Nat
      BY CountCreators DEF ClientType
    <2>5. Cardinality({}) = 0
      BY FS_EmptySet
    <2>6. PICK n : n = Cardinality(Chunks \ x.created)
      OBVIOUS
    <2>7. 0 <= IF Overwrite(p)' THEN 1 ELSE n
      BY <2>4, <2>6
    <2> QED BY <1>2, <2>3, <2>5, <2>6, <2>7 DEF CreatesInTurn
  <1>11. OpFollowsMode(t)' /\ OpAchieves(t)'
    BY <1>3 DEF OpFollowsMode, OpAchieves, FetchPcs
  <1>12. FinalizesAlone(t)'
    BY <1>1, <1>2, <1>3, <1>9 DEF FinalizesAlone, Finalizing
  <1>13. RestoreInv'
    BY <1>1, <1>7, <1>8, <1>9, <1>10, <1>11, <1>12, Locality
  <1> QED BY <1>6, <1>13

\* DeleteTmpFile, StatTmpFile, ReplaceSymlink, RenameEntity and AlreadyRenamed.
LEMMA FinalizeActionsInv ==
  ASSUME CarefulClients, TypeOK, RestoreInv, NEW t \in Threads, FinalizeStep(t)
  PROVE  TypeOK' /\ RestoreInv'
  <1>0. PICK p : p = ops[t].path
    OBVIOUS
  <1>1. /\ p \in Paths /\ FinalizesAlone(t) /\ ServerHas(p) /\ client[p] \in ClientType
        /\ ops[t] \in OpType(RestorePcs, {"handled"}) /\ client \in [Paths -> ClientType]
        /\ data \in [Paths -> SUBSET Chunks] /\ origin \in [Paths -> {"none", "this", "earlier"}]
        /\ final \in [Paths -> {NoFile, OldFile} \cup SUBSET Chunks]
    BY <1>0 DEF TypeOK, OpType, RestoreInv
  <1>2. Finalizing(t)
    BY DEF Finalizing, FinalizeStep, DeleteTmpFile, StatTmpFile, ReplaceSymlink, RenameEntity,
           AlreadyRenamed
  <1>3. /\ client[p].phase = "finalizing"
        /\ ops[t].pc # "abort" =>
             /\ client[p].written = Chunks /\ client[p].created = Chunks
             /\ p \in files => data[p] = Chunks
        /\ ops[t].pc = "rename" => p \in files
        /\ ops[t].pc = "renamed" => p \notin files
    <2>1. /\ client[p].phase = "finalizing" /\ (ops[t].pc # "abort" => client[p].written = Chunks)
          /\ ops[t].pc = "rename" => p \in files
          /\ ops[t].pc = "renamed" => p \notin files
      BY <1>0, <1>1, <1>2 DEF FinalizesAlone
    <2>2. client[p].created \subseteq Chunks /\ data[p] \subseteq Chunks
      BY <1>1 DEF ClientType
    <2>3. /\ client[p].written \subseteq client[p].created
          /\ p \in files => client[p].written \subseteq data[p]
      BY <1>1, <2>1 DEF ServerHas, Unfinished
    <2> QED BY <2>1, <2>2, <2>3
  <1>4. Chunks # NoFile /\ Chunks # OldFile /\ NoFile # OldFile /\ Chunks # {}
    BY RestoreAssumption
  <1>5. ASSUME NEW ph \in {"open", "committed", "aborted"}, FinalizeReturns(t, ph),
               UNCHANGED <<file_handles_map, handles, writers, mode>>,
               files' = files \/ files' = files \ {p},
               \/ data' = data /\ origin' = origin
               \/ data' = [data EXCEPT ![p] = {}] /\ origin' = [origin EXCEPT ![p] = "none"],
               final' = final \/ final' = [final EXCEPT ![p] = data[p]],
               final'[p] = final[p] \/ final'[p] = Chunks,
               p \notin files' => origin'[p] = "none", p \in files' => data'[p] = data[p] /\ p \in files,
               ph = "committed" => client[p].created = Chunks /\ (~Uptier(p) => final'[p] = Chunks),
               ph = "open" => /\ Uptier(p) \/ (p \in files => p \in files')
                                 \/ (final'[p] = Chunks /\ client[p].created = Chunks)
                              /\ client[p].created # {} /\ Overwrite(p) => origin'[p] # "earlier",
               ~Overwrite(p) /\ (p \in files => p \notin files') =>
                 (p \notin files /\ final' = final) \/ ph = "aborted"
                   \/ (final'[p] = Chunks /\ client[p].created = Chunks)
        PROVE  TypeOK' /\ RestoreInv'
    <2>1. NoOp \in OpType(RestorePcs, {"handled"}) /\ NoOp.pc = "idle" /\ NoOp.result = "none"
      BY NoOpType
    <2> DEFINE x == [client[p] EXCEPT !.phase = ph]
    <2>2. /\ x \in ClientType /\ x.phase = ph /\ x.created = client[p].created
          /\ x.written = client[p].written
      BY <1>1, <1>5 DEF ClientType
    <2>3. client' = [client EXCEPT ![p] = x] /\ ops' = [ops EXCEPT ![t] = NoOp]
      BY <1>0, <1>1, <1>5 DEF FinalizeReturns
    <2> HIDE DEF x
    <2>4. client'[p] = x
      BY <1>1, <2>3
    <2>5. CachedOk' = CachedOk
      BY <1>5 DEF CachedOk
    <2>6. p \in CachedOk' => ~Overwrite(p) /\ Made(p)'
      <3> SUFFICES ASSUME p \in CachedOk PROVE ~Overwrite(p) /\ Made(p)'
        BY <2>5
      <3>1. ~Overwrite(p) /\ Made(p)
        BY <1>1 DEF ServerHas
      <3> QED BY <1>3, <1>5, <2>2, <2>4, <3>1 DEF Made
    <2>7. /\ client[p].written \subseteq client[p].created
          /\ Overwrite(p) /\ client[p].created # {} => client[p].created = Chunks
          /\ final'[p] \in {NoFile, OldFile, Chunks} /\ (Uptier(p) => final'[p] # NoFile)
          /\ p \in files' => client[p].written \subseteq data'[p]
          /\ origin'[p] = "none" => data'[p] = {}
      BY <1>1, <1>3, <1>4, <1>5 DEF ServerHas, Unfinished
    <2>8. ph = "open" /\ client[p].created # {} =>
            /\ Uptier(p) \/ p \in files' \/ (final'[p] = Chunks /\ client[p].created = Chunks)
            /\ mode[p] = "overwrite" => final'[p] # OldFile
      BY <1>1, <1>3, <1>4, <1>5 DEF ServerHas, Unfinished
    <2>9. ServerHas(p)'
      BY <1>5, <2>2, <2>4, <2>6, <2>7, <2>8 DEF ServerHas, Unfinished, Overwrite, Uptier
    <2> QED BY <1>0, <1>2, <1>5, <2>1, <2>2, <2>3, <2>9, FinalizeStepInv

  <1>6. p \notin files => origin[p] = "none"
    BY <1>1 DEF ServerHas
  <1>7. /\ client[p].created # {} /\ Overwrite(p) => origin[p] # "earlier"
        /\ client[p].created # {} => Uptier(p) \/ p \in files \/ final[p] = Chunks
    BY <1>1, <1>3 DEF ServerHas, Unfinished
  <1>8. ASSUME UNCHANGED <<file_handles_map, handles, writers, mode, files, data, origin, final>>,
               FinalizeReturns(t, "open")
        PROVE  TypeOK' /\ RestoreInv'
    BY <1>5, <1>6, <1>7, <1>8
  <1>9. CASE DeleteTmpFile(t)
    <2>1. CASE RemoveTmp(p) /\ FinalizeReturns(t, "aborted")
      <3>1. /\ files' = files \ {p} /\ data' = [data EXCEPT ![p] = {}]
            /\ origin' = [origin EXCEPT ![p] = "none"] /\ final' = final
            /\ UNCHANGED <<file_handles_map, handles, writers, mode>>
        BY <1>9, <2>1 DEF DeleteTmpFile, RemoveTmp
      <3>2. p \notin files' /\ origin'[p] = "none"
        BY <1>1, <3>1
      <3> QED BY <1>5, <2>1, <3>1, <3>2
    <2>2. CASE FinalizeReturns(t, "open") /\ UNCHANGED <<files, data, origin>>
      BY <1>8, <1>9, <2>2 DEF DeleteTmpFile
    <2> QED BY <1>0, <1>9, <2>1, <2>2 DEF DeleteTmpFile
  <1>10. CASE StatTmpFile(t)
    <2>1. /\ ops[t].pc = "stat" /\ files' = files /\ data' = data /\ origin' = origin /\ final' = final
          /\ UNCHANGED <<file_handles_map, handles, writers, mode>>
      BY <1>10 DEF StatTmpFile, serverVars
    <2>2. CASE Step(t, IF p \in files THEN "rename" ELSE "renamed", "none") /\ UNCHANGED client
      <3>1. PICK c : c = IF p \in files THEN "rename" ELSE "renamed"
        OBVIOUS
      <3> DEFINE r == [ops[t] EXCEPT !.pc = c, !.result = "none"]
      <3>2. r \in OpType(RestorePcs, {"handled"}) /\ r.pc = c /\ r.path = p /\ r.result = "none"
        BY <1>0, <1>1, <3>1 DEF OpType, RestorePcs
      <3>3. ops' = [ops EXCEPT ![t] = r]
        BY <1>1, <2>2, <3>1 DEF Step
      <3> HIDE DEF r
      <3>4. PICK x : x = client[p]
        OBVIOUS
      <3>5. x \in ClientType /\ client' = [client EXCEPT ![p] = x] /\ x.created = client[p].created
        BY <1>1, <2>2, <3>4
      <3>6. CachedOk' = CachedOk
        BY <2>1 DEF CachedOk
      <3>7. ServerHas(p)'
        BY <1>1, <2>1, <2>2, <3>6 DEF ServerHas, Overwrite, Uptier, Unfinished, Made
      <3>8. r.pc \in {"rename", "renamed"} /\ (r.pc = "rename" <=> p \in files')
        BY <2>1, <3>1, <3>2
      <3> QED BY <1>0, <1>2, <2>1, <3>2, <3>3, <3>4, <3>5, <3>7, <3>8, FinalizeStepInv
    <2>3. CASE FinalizeReturns(t, "open")
      BY <1>8, <2>1, <2>3
    <2> QED BY <1>0, <1>10, <2>2, <2>3 DEF StatTmpFile
  <1>11. ASSUME ops[t].pc = "rename", final' = [final EXCEPT ![p] = data[p]],
                RemoveTmp(p), UNCHANGED <<file_handles_map, handles, writers, mode>>,
                \E phase \in {"committed", "open"} : FinalizeReturns(t, phase)
         PROVE  TypeOK' /\ RestoreInv'
    <2>1. PICK ph \in {"committed", "open"} : FinalizeReturns(t, ph)
      BY <1>11
    <2>2. /\ files' = files \ {p} /\ data' = [data EXCEPT ![p] = {}]
          /\ origin' = [origin EXCEPT ![p] = "none"]
      BY <1>11 DEF RemoveTmp
    <2>3. /\ final'[p] = Chunks /\ p \notin files' /\ origin'[p] = "none"
          /\ client[p].created = Chunks
      BY <1>1, <1>3, <1>11, <2>2
    <2> QED BY <1>5, <1>11, <2>1, <2>2, <2>3
  <1>12. CASE ReplaceSymlink(t)
    <2>1. /\ ops[t].pc = "rename" /\ Uptier(p)
          /\ UNCHANGED <<file_handles_map, handles, writers, mode>>
      BY <1>0, <1>12 DEF ReplaceSymlink
    <2>2. final[p] # NoFile /\ Overwrite(p)
      BY <1>1, <2>1 DEF ServerHas, Uptier, Overwrite
    <2>3. CASE RemoveTmp(p) /\ FinalizeReturns(t, "open") /\ UNCHANGED final
      <3>1. /\ files' = files \ {p} /\ data' = [data EXCEPT ![p] = {}]
            /\ origin' = [origin EXCEPT ![p] = "none"]
        BY <2>3 DEF RemoveTmp
      <3>2. p \notin files' /\ origin'[p] = "none"
        BY <1>1, <3>1
      <3> QED BY <1>5, <2>1, <2>2, <2>3, <3>1, <3>2
    <2>4. CASE FinalizeReturns(t, "open") /\ UNCHANGED <<files, data, origin, final>>
      BY <1>8, <2>1, <2>4
    <2>5. CASE FinalizeReturns(t, "committed") /\ UNCHANGED <<files, data, origin, final>>
      <3>1. client[p].created = Chunks /\ p \in files
        BY <1>3, <2>1
      <3> QED BY <1>5, <1>6, <2>1, <2>2, <2>5, <3>1
    <2> QED BY <1>0, <1>11, <1>12, <2>1, <2>3, <2>4, <2>5 DEF ReplaceSymlink
  <1>13. CASE RenameEntity(t)
    <2>1. /\ ops[t].pc = "rename" /\ UNCHANGED <<file_handles_map, handles, writers, mode>>
      BY <1>13 DEF RenameEntity
    <2>2. CASE FinalizeReturns(t, "open") /\ UNCHANGED <<files, data, origin, final>>
      BY <1>8, <2>1, <2>2
    <2> QED BY <1>0, <1>11, <1>13, <2>1, <2>2 DEF RenameEntity
  <1>14. CASE AlreadyRenamed(t)
    <2>1. /\ ops[t].pc = "renamed" /\ files' = files /\ data' = data /\ origin' = origin /\ final' = final
          /\ UNCHANGED <<file_handles_map, handles, writers, mode>>
      BY <1>14 DEF AlreadyRenamed, serverVars
    <2>2. CASE final[p] # NoFile /\ FinalizeReturns(t, "committed")
      <3>1. p \notin files /\ client[p].created = Chunks
        BY <1>3, <2>1
      <3>2. ~Uptier(p) => final[p] = Chunks
        BY <1>1, <1>4, <1>7, <2>2, <3>1 DEF ServerHas
      <3> QED BY <1>5, <1>6, <2>1, <2>2, <3>1, <3>2
    <2>3. CASE FinalizeReturns(t, "open")
      BY <1>8, <2>1, <2>3
    <2> QED BY <1>0, <1>14, <2>2, <2>3 DEF AlreadyRenamed
  <1> QED BY <1>9, <1>10, <1>12, <1>13, <1>14 DEF FinalizeStep

\* The client starts over.
LEMMA RestartInv ==
  ASSUME CarefulClients, TypeOK, RestoreInv, NEW p \in Paths, RestartClient(p)
  PROVE  TypeOK' /\ RestoreInv'
  <1>1. /\ file_handles_map' = file_handles_map /\ handles' = handles /\ writers' = writers
        /\ files' = files /\ ops' = ops /\ data' = data /\ final' = final /\ mode' = mode
        /\ origin' = [origin EXCEPT ![p] = IF @ = "none" THEN "none" ELSE "earlier"]
        /\ client' = [client EXCEPT ![p] = NewClient]
        /\ \A t \in Threads : ops[t].pc = "idle" \/ ops[t].path # p
        /\ Overwrite(p)
    BY DEF RestartClient, fhVars, CarefulClients, Overwrite
  <1>2. NewClient \in ClientType /\ NewClient.created = {} /\ NewClient.written = {}
        /\ NewClient.phase = "open"
    BY DEF NewClient, ClientType
  <1>3. /\ client' \in [Paths -> ClientType] /\ client'[p] = NewClient
        /\ \A q \in Paths : q # p => client'[q] = client[q]
        /\ origin' \in [Paths -> {"none", "this", "earlier"}]
        /\ origin'[p] = "none" <=> origin[p] = "none"
        /\ \A q \in Paths : q # p => origin'[q] = origin[q]
    BY <1>1, <1>2 DEF TypeOK
  <1>4. TypeOK'
    BY <1>1, <1>3 DEF TypeOK, CacheTypeOK
  <1>5. CachedOk' = CachedOk /\ \A q : CreatorsOf(q)' = CreatorsOf(q)
    BY <1>1 DEF CachedOk, CreatorsOf, Creating, Finalizing
  <1>6. FetchLocked' /\ NoCreateCollision'
    BY <1>1 DEF RestoreInv, FetchLocked, NoCreateCollision
  <1>7. ASSUME NEW q \in Paths PROVE CreatesInTurn(q)' /\ ServerHas(q)'
    <2>1. CreatesInTurn(q) /\ ServerHas(q)
      BY DEF RestoreInv
    <2>2. CASE q # p
      BY <1>1, <1>3, <1>5, <2>1, <2>2
         DEF CreatesInTurn, ServerHas, Overwrite, Uptier, Unfinished, Made
    <2>3. CASE q = p
      <3>1. CreatorsOf(p) = {}
        BY <1>1 DEF CreatorsOf, Creating
      <3>2. Cardinality({}) = 0
        BY FS_EmptySet
      <3>3. CreatesInTurn(p)'
        BY <1>1, <1>5, <3>1, <3>2 DEF CreatesInTurn, Overwrite
      <3>4. ServerHas(p)'
        BY <1>1, <1>2, <1>3, <1>5, <2>1, <2>3 DEF ServerHas, Overwrite, Uptier, Unfinished
      <3> QED BY <2>3, <3>3, <3>4
    <2> QED BY <2>2, <2>3
  <1>8. ASSUME NEW u \in Threads PROVE OpFollowsMode(u)' /\ FinalizesAlone(u)' /\ OpAchieves(u)'
    <2>0. PICK q : q = ops[u].path
      OBVIOUS
    <2>1. q \in Paths /\ OpFollowsMode(u) /\ FinalizesAlone(u) /\ OpAchieves(u)
      BY <2>0 DEF RestoreInv, TypeOK, OpType
    <2>2. OpFollowsMode(u)'
      BY <1>1, <2>1 DEF OpFollowsMode, Overwrite, Uptier
    <2>3. CASE ops[u].pc = "idle"
      BY <1>1, <2>1, <2>2, <2>3 DEF OpFollowsMode, FinalizesAlone, Finalizing, OpAchieves
    <2>4. CASE q # p
      <3>1. client'[q] = client[q] /\ origin'[q] = origin[q]
        BY <1>3, <2>1, <2>4
      <3> QED BY <1>1, <2>0, <2>1, <2>2, <3>1 DEF FinalizesAlone, Finalizing, OpAchieves, Made, Overwrite
    <2> QED BY <1>1, <2>0, <2>3, <2>4
  <1> QED BY <1>4, <1>6, <1>7, <1>8 DEF RestoreInv

\* The proxy crashes and is started again.
LEMMA CrashInv ==
  ASSUME TypeOK, RestoreInv, CrashProxy
  PROVE  TypeOK' /\ RestoreInv'
  <1>1. /\ ops' = [t \in Threads |-> NoOp] /\ files' = files
        /\ file_handles_map' = [k \in Tasks |-> NoObject]
        /\ handles' = [o \in Objects |-> NewHandles]
        /\ writers' = [p \in Paths |-> {}]
        /\ data' = data /\ origin' = origin /\ final' = final /\ mode' = mode
        /\ client' = [p \in Paths |->
             IF client[p].phase = "finalizing" THEN [client[p] EXCEPT !.phase = "open"]
                                               ELSE client[p]]
    BY DEF CrashProxy, serverVars
  <1>2. NoOp \in OpType(RestorePcs, {"handled"}) /\ NoOp.pc = "idle" /\ NoOp.result = "none"
    BY NoOpType
  <1>3. NewHandles \in HandlesType /\ NewHandles.cache = <<>>
    BY DEF NewHandles, HandlesType
  <1>4. \A p \in Paths :
          /\ client'[p] \in ClientType
          /\ client'[p].created = client[p].created /\ client'[p].written = client[p].written
          /\ client'[p].phase = IF client[p].phase = "finalizing" THEN "open" ELSE client[p].phase
    <2> SUFFICES ASSUME NEW p \in Paths
                 PROVE  /\ client'[p] \in ClientType
                        /\ client'[p].created = client[p].created
                        /\ client'[p].written = client[p].written
                        /\ client'[p].phase =
                             IF client[p].phase = "finalizing" THEN "open" ELSE client[p].phase
      OBVIOUS
    <2>1. client[p] \in ClientType
      BY DEF TypeOK
    <2>2. client'[p] = IF client[p].phase = "finalizing" THEN [client[p] EXCEPT !.phase = "open"]
                                                         ELSE client[p]
      BY <1>1
    <2> QED BY <2>1, <2>2 DEF ClientType
  <1>5. client' \in [Paths -> ClientType]
    BY <1>1, <1>4
  <1>6. CacheTypeOK'
    BY <1>1, <1>3 DEF CacheTypeOK, TypeOK
  <1>7. TypeOK'
    BY <1>1, <1>2, <1>5, <1>6 DEF TypeOK
  <1>8. CachedOk' = {}
    BY <1>1, <1>3 DEF CachedOk, ToSet
  <1>9. \A t \in Threads : ops'[t].pc = "idle" /\ ops'[t].result = "none"
    BY <1>1, <1>2
  <1>10. \A p : CreatorsOf(p)' = {}
    BY <1>9 DEF CreatorsOf, Creating
  <1>11. FetchLocked' /\ NoCreateCollision'
    BY <1>1, <1>9 DEF FetchLocked, NoCreateCollision, FetchPcs
  <1>12. ASSUME NEW p \in Paths PROVE CreatesInTurn(p)' /\ ServerHas(p)'
    <2>1. ServerHas(p) /\ mode' = mode
      BY <1>1 DEF RestoreInv
    <2>2. Cardinality({}) = 0
      BY FS_EmptySet
    <2>3. Cardinality(Chunks \ client'[p].created) \in Nat
      BY <1>4, CountCreators DEF ClientType
    <2>4. CreatesInTurn(p)'
      BY <1>10, <2>2, <2>3 DEF CreatesInTurn
    <2>5. ServerHas(p)'
      BY <1>1, <1>4, <1>8, <2>1 DEF ServerHas, Overwrite, Uptier, Unfinished
    <2> QED BY <2>4, <2>5
  <1>13. \A u \in Threads : OpFollowsMode(u)' /\ FinalizesAlone(u)' /\ OpAchieves(u)'
    BY <1>9 DEF OpFollowsMode, FinalizesAlone, Finalizing, OpAchieves, FetchPcs
  <1> QED BY <1>7, <1>11, <1>12, <1>13 DEF RestoreInv

\* Nothing but the caches changes, and nothing is cached.
LEMMA CacheOnlyInv ==
  ASSUME TypeOK, RestoreInv, CacheTypeOK', CachedOk' \subseteq CachedOk,
         writers' = writers, files' = files, ops' = ops, UNCHANGED <<serverVars, client>>
  PROVE  TypeOK' /\ RestoreInv'
  <1>1. data' = data /\ origin' = origin /\ final' = final /\ mode' = mode /\ client' = client
    BY DEF serverVars
  <1>2. TypeOK'
    BY <1>1 DEF TypeOK
  <1>3. FetchLocked' /\ NoCreateCollision'
    BY DEF RestoreInv, FetchLocked, NoCreateCollision
  <1>4. \A p : CreatorsOf(p)' = CreatorsOf(p)
    BY DEF CreatorsOf, Creating, Finalizing
  <1>5. ASSUME NEW p \in Paths PROVE CreatesInTurn(p)' /\ ServerHas(p)'
    <2>1. CreatesInTurn(p) /\ ServerHas(p)
      BY DEF RestoreInv
    <2> QED BY <1>1, <1>4, <2>1 DEF CreatesInTurn, ServerHas, Overwrite, Uptier, Unfinished, Made
  <1>6. ASSUME NEW u \in Threads PROVE OpFollowsMode(u)' /\ FinalizesAlone(u)' /\ OpAchieves(u)'
    <2>1. OpFollowsMode(u) /\ FinalizesAlone(u) /\ OpAchieves(u)
      BY DEF RestoreInv
    <2> QED BY <1>1, <2>1 DEF OpFollowsMode, FinalizesAlone, Finalizing, OpAchieves, Overwrite, Uptier,
                              Made
  <1> QED BY <1>2, <1>3, <1>5, <1>6 DEF RestoreInv

-----------------------------------------------------------------------------
\* For careful clients, RestoreInv holds of every restore: how the RPCs of a file take
\* turns, and what the server and the caches have of it, given what the client was told.
THEOREM RestoreInvariant == ASSUME CarefulClients PROVE Spec => [](TypeOK /\ RestoreInv)
  <1>1. Init => TypeOK /\ RestoreInv
    <2> SUFFICES ASSUME Init PROVE TypeOK /\ RestoreInv
      OBVIOUS
    <2>1. /\ file_handles_map = [k \in Tasks |-> NoObject]
          /\ handles = [o \in Objects |-> NewHandles] /\ writers = [p \in Paths |-> {}]
          /\ files = {} /\ ops = [t \in Threads |-> NoOp]
          /\ data = [p \in Paths |-> {}] /\ origin = [p \in Paths |-> "none"]
          /\ client = [p \in Paths |-> NewClient]
          /\ final = [p \in Paths |-> IF p \in Existing THEN OldFile ELSE NoFile] /\ mode \in Modes
      BY DEF Init, FHInit
    <2>2. NewHandles \in HandlesType /\ NewHandles.cache = <<>>
      BY DEF NewHandles, HandlesType
    <2>3. NoOp \in OpType(RestorePcs, {"handled"}) /\ NoOp.pc = "idle" /\ NoOp.result = "none"
      BY NoOpType
    <2>4. /\ NewClient \in ClientType /\ NewClient.created = {} /\ NewClient.written = {}
          /\ NewClient.phase = "open"
      BY DEF NewClient, ClientType
    <2>5. CacheTypeOK
      BY <2>1, <2>2 DEF CacheTypeOK
    <2>6. TypeOK
      BY <2>1, <2>3, <2>4, <2>5 DEF TypeOK
    <2>7. CachedOk = {}
      BY <2>1, <2>2 DEF CachedOk, ToSet
    <2>8. \A t \in Threads : ops[t].pc = "idle" /\ ops[t].result = "none"
      BY <2>1, <2>3
    <2>9. FetchLocked /\ NoCreateCollision
      BY <2>1, <2>8 DEF FetchLocked, NoCreateCollision, FetchPcs
    <2>10. ASSUME NEW p \in Paths PROVE CreatesInTurn(p) /\ ServerHas(p)
      <3>1. CreatorsOf(p) = {} /\ Cardinality({}) = 0
        BY <2>8, FS_EmptySet DEF CreatorsOf, Creating
      <3>2. client[p] = NewClient
        BY <2>1
      <3>3. Cardinality(Chunks \ client[p].created) \in Nat
        BY <2>4, <3>2, CountCreators
      <3>4. CreatesInTurn(p)
        BY <3>1, <3>3 DEF CreatesInTurn
      <3>5. Uptier(p) => p \in Existing
        BY <2>1 DEF CarefulClients, Uptier
      <3>6. final[p] \in {NoFile, OldFile} /\ (Uptier(p) => final[p] # NoFile)
        BY <2>1, <3>5, RestoreAssumption
      <3>7. ServerHas(p)
        BY <2>1, <2>4, <2>7, <3>2, <3>6 DEF ServerHas, Unfinished
      <3> QED BY <3>4, <3>7
    <2>11. \A t \in Threads : OpFollowsMode(t) /\ FinalizesAlone(t) /\ OpAchieves(t)
      BY <2>8 DEF OpFollowsMode, FinalizesAlone, Finalizing, OpAchieves, FetchPcs
    <2> QED BY <2>6, <2>9, <2>10, <2>11 DEF RestoreInv
  <1>2. TypeOK /\ RestoreInv /\ [Next]_vars => (TypeOK /\ RestoreInv)'
    <2> SUFFICES ASSUME TypeOK, RestoreInv, [Next]_vars PROVE TypeOK' /\ RestoreInv'
      OBVIOUS
    <2>1. ASSUME NEW t \in Threads, NEW p \in Paths, NEW k \in Tasks, CreateRestoreFiles(t, k, p)
          PROVE  TypeOK' /\ RestoreInv'
      BY <2>1, CreateBeginsInv
    <2>2. ASSUME NEW t \in Threads, NEW p \in Paths,
                 FinalizeRestoreFiles(t, p) \/ AbortRestoreFiles(t, p)
          PROVE  TypeOK' /\ RestoreInv'
      BY <2>2, FinalizeBeginsInv
    <2>3. ASSUME NEW t \in Threads, FetchStep(t), UNCHANGED <<serverVars, client>>
          PROVE  TypeOK' /\ RestoreInv'
      BY <2>3, FetchStepInv
    <2>4. ASSUME NEW t \in Threads, CreateStep(t) PROVE TypeOK' /\ RestoreInv'
      BY <2>4, CreateActionsInv, CreateReturnsInv DEF CreateStep
    <2>5. ASSUME NEW t \in Threads, FinalizeStep(t) PROVE TypeOK' /\ RestoreInv'
      BY <2>5, FinalizeActionsInv
    <2>6. ASSUME NEW p \in Paths, NEW c \in Chunks, WriteFilesData(p, c)
          PROVE  TypeOK' /\ RestoreInv'
      BY <2>6, WriteInv
    <2>7. CASE CacheStep /\ UNCHANGED <<serverVars, client>>
      <3>1. /\ CacheTypeOK' /\ CachedOk' \subseteq CachedOk
            /\ writers' = writers /\ files' = files /\ ops' = ops
        BY <2>7, CacheStepEffect DEF TypeOK
      <3> QED BY <2>7, <3>1, CacheOnlyInv
    <2>8. ASSUME NEW p \in Paths, RestartClient(p) PROVE TypeOK' /\ RestoreInv'
      BY <2>8, RestartInv
    <2>9. CASE CrashProxy
      BY <2>9, CrashInv
    <2>10. CASE UNCHANGED vars
      <3>1. /\ CacheTypeOK' /\ CachedOk' \subseteq CachedOk
            /\ writers' = writers /\ files' = files /\ ops' = ops
            /\ UNCHANGED <<serverVars, client>>
        BY <2>10 DEF vars, fhVars, serverVars, TypeOK, CacheTypeOK, CachedOk
      <3> QED BY <3>1, CacheOnlyInv
    <2> QED BY <2>1, <2>2, <2>3, <2>4, <2>5, <2>6, <2>7, <2>8, <2>9, <2>10 DEF Next
  <1> QED BY <1>1, <1>2, PTL DEF Spec

\* The state of restores has its types.
THEOREM RestoreTypeCorrect == ASSUME CarefulClients PROVE Spec => []TypeOK
  BY RestoreInvariant, PTL

\* FetchFileHandleOp as the restores use it: no file is created that is there, although
\* other RPCs rename and delete temporary files and the proxy may crash.
THEOREM NoCreateCollisionHolds == ASSUME CarefulClients PROVE Spec => []NoCreateCollision
  <1>1. RestoreInv => NoCreateCollision
    BY DEF RestoreInv
  <1> QED BY <1>1, RestoreInvariant, PTL

\* FinalizeRestoreFilesOp: a file of a volume restore or of one with
\* overwrite_existing_tmp whose commit was acknowledged is complete.
THEOREM RestoredCompleteHolds == ASSUME CarefulClients PROVE Spec => []RestoredComplete
  <1>1. RestoreInv => RestoredComplete
    BY DEF RestoreInv, ServerHas, RestoredComplete
  <1> QED BY <1>1, RestoreInvariant, PTL

\* WriteFilesDataOp: an acknowledged write is kept, whatever other writes fail.
THEOREM WrittenKeptHolds == ASSUME CarefulClients PROVE Spec => []WrittenKept
  <1>1. TypeOK /\ RestoreInv => WrittenKept
    <2> SUFFICES ASSUME TypeOK, RestoreInv, NEW p \in Paths, client[p].phase = "open", ~Uptier(p)
                 PROVE  client[p].written \subseteq
                          (IF p \in files THEN data[p]
                           ELSE IF final[p] \in {NoFile, OldFile} THEN {} ELSE final[p])
      BY DEF WrittenKept
    <2>1. ServerHas(p) /\ client[p].written \subseteq Chunks /\ Unfinished(p)
      BY DEF RestoreInv, TypeOK, ClientType, Unfinished
    <2>2. CASE p \in files
      BY <2>1, <2>2 DEF ServerHas
    <2>3. CASE p \notin files
      <3>1. client[p].written = {} \/ final[p] = Chunks
        BY <2>1, <2>3 DEF ServerHas
      <3>2. Chunks # NoFile /\ Chunks # OldFile
        BY RestoreAssumption
      <3> QED BY <2>1, <2>3, <3>1, <3>2
    <2> QED BY <2>2, <2>3
  <1> QED BY <1>1, RestoreInvariant, PTL

\* CreateRestoreFilesOp: after a successful Create the temporary file is there, also when
\* the op skipped the creation because the handle was cached.
THEOREM CreatedHasTmpFileHolds == ASSUME CarefulClients PROVE Spec => []CreatedHasTmpFile
  <1>1. RestoreInv => CreatedHasTmpFile
    BY DEF RestoreInv, ServerHas, Unfinished, CreatedHasTmpFile
  <1> QED BY <1>1, RestoreInvariant, PTL

\* DeleteExistingEntity with overwrite_existing_tmp: the old file is gone when a Create
\* has succeeded.
THEOREM OverwriteClearsHolds == ASSUME CarefulClients PROVE Spec => []OverwriteClears
  <1>1. RestoreInv => OverwriteClears
    BY DEF RestoreInv, ServerHas, Unfinished, OverwriteClears, Cleared
  <1> QED BY <1>1, RestoreInvariant, PTL

\* DeleteTmpEntity with overwrite_existing_tmp: nothing of an earlier attempt is in the
\* temporary file.
THEOREM OnlyNewDataHolds == ASSUME CarefulClients PROVE Spec => []OnlyNewData
  <1>1. RestoreInv => OnlyNewData
    BY DEF RestoreInv, ServerHas, Unfinished, OnlyNewData
  <1> QED BY <1>1, RestoreInvariant, PTL

\* What may happen to the file that a restore replaces: a volume restore has its temporary
\* file by then, and the symlink of an uptier task gives way to the complete file only.
THEOREM OldFileKeptHolds == ASSUME CarefulClients PROVE Spec => OldFileKept
  <1> DEFINE Kept == \A p \in Paths : final[p] = OldFile /\ final'[p] # OldFile =>
                       CASE mode[p] = "volume"    -> p \in files
                         [] mode[p] = "overwrite" -> TRUE
                         [] mode[p] = "uptier"    -> final'[p] = Chunks
  <1>1. TypeOK /\ RestoreInv /\ [Next]_vars => [Kept]_vars
    <2> SUFFICES ASSUME TypeOK, RestoreInv, Next, NEW p \in Paths, final[p] = OldFile,
                        final'[p] # OldFile
                 PROVE  /\ mode[p] \in {"volume", "overwrite", "uptier"}
                        /\ mode[p] = "volume" => p \in files
                        /\ mode[p] = "uptier" => final'[p] = Chunks
      OBVIOUS
    <2>1. mode[p] \in {"volume", "overwrite", "uptier"}
      BY RestoreAssumption DEF TypeOK
    <2>2. final' # final
      OBVIOUS
    <2>3. NoFile # OldFile /\ final \in [Paths -> {NoFile, OldFile} \cup SUBSET Chunks]
      BY RestoreAssumption DEF TypeOK
    <2>4. PICK t \in Threads : DeleteExistingEntity(t) \/ DeleteNewEntity(t)
                                 \/ ReplaceSymlink(t) \/ RenameEntity(t)
      BY ZenonT(60), <2>2 DEF Next, CreateRestoreFiles, FinalizeRestoreFiles, AbortRestoreFiles, CreateStep,
                  FinalizeStep, HandleEntity, DeleteTmpEntity, CreateRegularFile, CreateReturns,
                  DeleteTmpFile, StatTmpFile, AlreadyRenamed, WriteFilesData, RestartClient,
                  CrashProxy, serverVars
    <2>5. ops[t].path \in Paths /\ OpFollowsMode(t) /\ OpAchieves(t) /\ FinalizesAlone(t) /\ ServerHas(p)
      BY DEF TypeOK, OpType, RestoreInv
    <2>6. CASE DeleteExistingEntity(t) \/ DeleteNewEntity(t)
      <3>1. /\ ops[t].pc \in {"existing", "delete"} /\ ~Uptier(ops[t].path)
            /\ final' = [final EXCEPT ![ops[t].path] = NoFile]
        BY <2>2, <2>5, <2>6 DEF DeleteExistingEntity, DeleteNewEntity, OpFollowsMode
      <3>2. p = ops[t].path
        BY <2>3, <2>5, <3>1
      <3>3. Creating(t)
        BY <3>1 DEF Creating, Finalizing
      <3>4. mode[p] = "volume" => p \in files
        BY <2>5, <3>1, <3>2, <3>3, CreatorOpen DEF OpAchieves, Overwrite
      <3> QED BY <2>1, <3>1, <3>2, <3>4 DEF Uptier
    <2>7. CASE ReplaceSymlink(t) \/ RenameEntity(t)
      <3>1. /\ ops[t].pc = "rename" /\ final' = [final EXCEPT ![ops[t].path] = data[ops[t].path]]
            /\ final[ops[t].path] = NoFile \/ Uptier(ops[t].path)
        BY <2>2, <2>7 DEF ReplaceSymlink, RenameEntity
      <3>2. p = ops[t].path
        BY <2>3, <2>5, <3>1
      <3>3. Uptier(p) /\ final'[p] = data[p]
        BY <2>3, <3>1, <3>2
      <3>4. client[p].phase = "finalizing" /\ client[p].written = Chunks /\ p \in files
        BY <2>5, <3>1, <3>2 DEF FinalizesAlone, Finalizing
      <3>5. data[p] = Chunks
        BY <2>5, <3>4 DEF ServerHas, Unfinished, TypeOK
      <3> QED BY <2>1, <3>3, <3>5 DEF Uptier
    <2> QED BY <2>4, <2>6, <2>7
  <1> QED BY <1>1, RestoreInvariant, PTL DEF Spec, OldFileKept

=============================================================================
