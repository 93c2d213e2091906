---------------------- MODULE ConnectionHandlesProofs ------------------------
(***************************************************************************)
(* The file handles of connections, for any threads, connections, paths    *)
(* and cache sizes: their types for all clients, and with careful clients  *)
(* HandlesInv and the properties that follow from it.                      *)
(***************************************************************************)
EXTENDS ConnectionHandles, SequenceTheorems, TLAPS

\* Erasing a node of the list moves those behind it by one.
LEMMA RemoveAtIs ==
  ASSUME NEW S, NEW s \in Seq(S), NEW i \in DOMAIN s
  PROVE  /\ RemoveAt(s, i) \in Seq(S) /\ Len(RemoveAt(s, i)) = Len(s) - 1
         /\ DOMAIN RemoveAt(s, i) = 1..(Len(s) - 1)
         /\ \A n \in 1..(Len(s) - 1) : RemoveAt(s, i)[n] = IF n <= i - 1 THEN s[n] ELSE s[n + 1]
  <1> DEFINE a == SubSeq(s, 1, i - 1)
             b == SubSeq(s, i + 1, Len(s))
  <1>1. /\ Len(s) \in Nat /\ DOMAIN s = 1..Len(s) /\ i \in 1..Len(s)
        /\ \A n \in 1..Len(s) : s[n] \in S
    BY LenProperties
  <1>2. /\ a \in Seq(S) /\ Len(a) = i - 1 /\ \A n \in 1..(i - 1) : a[n] = s[n]
    <2>1. \A n \in 1..(i - 1) : s[n] \in S
      BY <1>1
    <2> QED BY <1>1, <2>1, SubSeqProperties
  <1>3. /\ b \in Seq(S) /\ Len(b) = Len(s) - i /\ \A n \in 1..(Len(s) - i) : b[n] = s[i + n]
    <2>1. \A n \in (i + 1)..Len(s) : s[n] \in S
      BY <1>1
    <2>2. /\ b \in Seq(S) /\ Len(b) = IF i + 1 <= Len(s) THEN Len(s) - (i + 1) + 1 ELSE 0
          /\ \A n \in 1..(Len(s) - (i + 1) + 1) : b[n] = s[(i + 1) + n - 1]
      BY <1>1, <2>1, SubSeqProperties
    <2> HIDE DEF b
    <2>3. \A m \in Nat : m >= i => (IF i + 1 <= m THEN m - (i + 1) + 1 ELSE 0) = m - i
      BY <1>1
    <2>4. ASSUME NEW n \in 1..(Len(s) - i) PROVE b[n] = s[i + n]
      <3>1. n \in 1..(Len(s) - (i + 1) + 1) /\ (i + 1) + n - 1 = i + n
        BY <1>1
      <3> QED BY <2>2, <3>1
    <2> QED BY <1>1, <2>2, <2>3, <2>4
  <1> HIDE DEF a, b
  <1>4. /\ a \o b \in Seq(S) /\ Len(a \o b) = Len(a) + Len(b)
        /\ \A n \in 1..(Len(a) + Len(b)) :
             (a \o b)[n] = IF n <= Len(a) THEN a[n] ELSE b[n - Len(a)]
    BY <1>2, <1>3, ConcatProperties
  <1> DEFINE r == a \o b
  <1> HIDE DEF r
  <1>5. Len(a) + Len(b) = Len(s) - 1
    BY <1>1, <1>2, <1>3
  <1>6. r \in Seq(S) /\ Len(r) = Len(s) - 1
    BY <1>4, <1>5 DEF r
  <1>7. ASSUME NEW n \in 1..(Len(s) - 1) PROVE r[n] = IF n <= i - 1 THEN s[n] ELSE s[n + 1]
    <2>1. r[n] = IF n <= Len(a) THEN a[n] ELSE b[n - Len(a)]
      BY <1>4, <1>5 DEF r
    <2>2. CASE n <= i - 1
      BY <1>1, <1>2, <2>1, <2>2
    <2>3. CASE ~(n <= i - 1)
      <3>1. n - (i - 1) \in 1..(Len(s) - i) /\ i + (n - (i - 1)) = n + 1
        BY <1>1, <2>3
      <3>2. r[n] = b[n - (i - 1)]
        BY <1>2, <2>1, <2>3
      <3>3. r[n] = s[n + 1]
        BY <1>3, <3>1, <3>2
      <3> QED BY <2>3, <3>3
    <2> QED BY <2>2, <2>3
  <1>8. DOMAIN r = 1..(Len(s) - 1)
    BY <1>6, LenProperties
  <1>9. RemoveAt(s, i) = r
    BY DEF RemoveAt, r, a, b
  <1> QED BY <1>6, <1>7, <1>8, <1>9

\* In a sound list two handles differ in path and number.
LEMMA SoundSet ==
  ASSUME NEW list, Sound(list)
  PROVE  \A g, h \in ToSet(list) : g.path = h.path \/ g.fnum = h.fnum => g = h
  BY DEF Sound, ToSet

\* Erasing a path keeps the other handles.
LEMMA EraseIs ==
  ASSUME NEW list \in Seq(HandleType), NEW p
  PROVE  /\ Erase(list, p) \in Seq(HandleType) /\ Len(Erase(list, p)) \in Nat
         /\ Len(Erase(list, p)) <= Len(list)
         /\ Sound(list) => /\ Sound(Erase(list, p))
                           /\ ToSet(Erase(list, p)) = {h \in ToSet(list) : h.path # p}
  <1>0. Len(list) \in Nat /\ DOMAIN list = 1..Len(list)
    BY LenProperties
  <1>1. CASE ~\E i \in DOMAIN list : list[i].path = p
    <2>1. Erase(list, p) = list
      BY <1>1 DEF Erase
    <2>2. \A h \in ToSet(list) : h.path # p
      BY <1>1 DEF ToSet
    <2> QED BY <1>0, <2>1, <2>2
  <1>2. CASE \E i \in DOMAIN list : list[i].path = p
    <2>1. PICK i \in DOMAIN list : list[i].path = p /\ Erase(list, p) = RemoveAt(list, i)
      BY <1>2 DEF Erase
    <2> DEFINE r == RemoveAt(list, i)
    <2>2. /\ r \in Seq(HandleType) /\ Len(r) = Len(list) - 1 /\ DOMAIN r = 1..(Len(list) - 1)
          /\ \A n \in 1..(Len(list) - 1) : r[n] = IF n <= i - 1 THEN list[n] ELSE list[n + 1]
      BY RemoveAtIs
    <2> HIDE DEF r
    <2>3. /\ \A n \in DOMAIN r : \E m \in DOMAIN list : m # i /\ r[n] = list[m]
          /\ \A m \in DOMAIN list : m # i => \E n \in DOMAIN r : r[n] = list[m]
      <3>1. ASSUME NEW n \in DOMAIN r PROVE \E m \in DOMAIN list : m # i /\ r[n] = list[m]
        <4>1. CASE n <= i - 1
          <5>1. n \in DOMAIN list /\ n # i /\ r[n] = list[n]
            BY <1>0, <2>2, <4>1
          <5> QED BY <5>1
        <4>2. CASE ~(n <= i - 1)
          <5>1. n + 1 \in DOMAIN list /\ n + 1 # i /\ r[n] = list[n + 1]
            BY <1>0, <2>2, <4>2
          <5> QED BY <5>1
        <4> QED BY <4>1, <4>2
      <3>2. ASSUME NEW m \in DOMAIN list, m # i PROVE \E n \in DOMAIN r : r[n] = list[m]
        <4>1. CASE m < i
          <5>1. m \in DOMAIN r /\ r[m] = list[m]
            BY <1>0, <2>2, <4>1
          <5> QED BY <5>1
        <4>2. CASE ~(m < i)
          <5>1. m - 1 \in DOMAIN r /\ ~(m - 1 <= i - 1) /\ (m - 1) + 1 = m
            BY <1>0, <2>2, <3>2, <4>2
          <5>2. r[m - 1] = list[m]
            BY <2>2, <5>1
          <5> QED BY <5>1, <5>2
        <4> QED BY <4>1, <4>2
      <3> QED BY <3>1, <3>2
    <2>4. ASSUME Sound(list) PROVE Sound(r) /\ ToSet(r) = {h \in ToSet(list) : h.path # p}
      <3>1. \A m \in DOMAIN list : m # i <=> list[m].path # p
        BY <2>1, <2>4 DEF Sound
      <3>2. ToSet(r) = {h \in ToSet(list) : h.path # p}
        BY <2>3, <3>1 DEF ToSet
      <3>3. ASSUME NEW m \in DOMAIN r, NEW n \in DOMAIN r,
                   r[m].path = r[n].path \/ r[m].fnum = r[n].fnum
            PROVE  m = n
        <4> DEFINE At(k) == IF k <= i - 1 THEN k ELSE k + 1
        <4>1. /\ At(m) \in DOMAIN list /\ r[m] = list[At(m)]
              /\ At(n) \in DOMAIN list /\ r[n] = list[At(n)]
              /\ At(m) = At(n) => m = n
          BY <1>0, <2>2
        <4> HIDE DEF At
        <4> QED BY <2>4, <3>3, <4>1 DEF Sound
      <3> QED BY <3>2, <3>3 DEF Sound
    <2>5. Len(r) \in Nat /\ Len(r) <= Len(list)
      BY <1>0, <2>1, <2>2
    <2> QED BY <2>1, <2>2, <2>4, <2>5 DEF r
  <1> QED BY <1>1, <1>2

\* Adding a handle whose path and number are not in the list.
LEMMA AppendIs ==
  ASSUME NEW list \in Seq(HandleType), NEW h \in HandleType
  PROVE  /\ Append(list, h) \in Seq(HandleType) /\ Len(Append(list, h)) = Len(list) + 1
         /\ ToSet(Append(list, h)) = ToSet(list) \cup {h}
         /\ Sound(list) /\ (\A g \in ToSet(list) : g.path # h.path /\ g.fnum # h.fnum)
              => Sound(Append(list, h))
  <1> DEFINE r == Append(list, h)
  <1>1. Len(list) \in Nat /\ DOMAIN list = 1..Len(list)
    BY LenProperties
  <1>2. /\ r \in Seq(HandleType) /\ Len(r) = Len(list) + 1 /\ r[Len(list) + 1] = h
        /\ \A n \in 1..Len(list) : r[n] = list[n]
    BY AppendProperties
  <1> HIDE DEF r
  <1>3. DOMAIN r = 1..(Len(list) + 1)
    BY <1>2, LenProperties
  <1>4. /\ \A n \in DOMAIN r : n = Len(list) + 1 \/ n \in DOMAIN list
        /\ \A n \in DOMAIN list : n \in DOMAIN r /\ r[n] = list[n] /\ n # Len(list) + 1
        /\ Len(list) + 1 \in DOMAIN r
    BY <1>1, <1>2, <1>3
  <1>5. ToSet(r) = ToSet(list) \cup {h}
    BY <1>2, <1>4 DEF ToSet
  <1>6. ASSUME Sound(list), \A g \in ToSet(list) : g.path # h.path /\ g.fnum # h.fnum
        PROVE  Sound(r)
    <2>1. \A n \in DOMAIN list : list[n].path # h.path /\ list[n].fnum # h.fnum
      BY <1>6 DEF ToSet
    <2> QED BY <1>2, <1>4, <1>6, <2>1 DEF Sound
  <1> QED BY <1>2, <1>5, <1>6 DEF r

\* Taking the oldest handle off.
LEMMA TailIs ==
  ASSUME NEW list \in Seq(HandleType), Len(list) > 0
  PROVE  /\ Tail(list) \in Seq(HandleType) /\ Len(Tail(list)) = Len(list) - 1
         /\ Head(list) \in ToSet(list) /\ ToSet(Tail(list)) \subseteq ToSet(list)
         /\ Sound(list) => /\ Sound(Tail(list)) /\ ToSet(Tail(list)) = ToSet(list) \ {Head(list)}
  <1> DEFINE r == Tail(list)
  <1>1. Len(list) \in Nat /\ DOMAIN list = 1..Len(list) /\ 1 \in DOMAIN list
    BY LenProperties
  <1>2. /\ Head(list) = list[1] /\ r \in Seq(HandleType) /\ Len(r) = Len(list) - 1
        /\ \A n \in 1..Len(r) : r[n] = list[n + 1]
    <2>1. list # <<>>
      BY <1>1
    <2> QED BY <2>1, HeadTailProperties
  <1> HIDE DEF r
  <1>3. DOMAIN r = 1..(Len(list) - 1)
    BY <1>2, LenProperties
  <1>4. /\ \A n \in DOMAIN r : n + 1 \in DOMAIN list /\ n + 1 # 1 /\ r[n] = list[n + 1]
        /\ \A m \in DOMAIN list : m # 1 => m - 1 \in DOMAIN r /\ r[m - 1] = list[m]
    <2>1. \A n \in DOMAIN r : n + 1 \in DOMAIN list /\ n + 1 # 1 /\ r[n] = list[n + 1]
      BY <1>1, <1>2, <1>3
    <2>2. ASSUME NEW m \in DOMAIN list, m # 1 PROVE m - 1 \in DOMAIN r /\ r[m - 1] = list[m]
      <3>1. m - 1 \in DOMAIN r /\ (m - 1) + 1 = m
        BY <1>1, <1>3, <2>2
      <3> QED BY <2>1, <3>1
    <2> QED BY <2>1, <2>2
  <1>5. Head(list) \in ToSet(list) /\ ToSet(r) \subseteq ToSet(list)
    <2>1. Head(list) \in ToSet(list)
      BY <1>1, <1>2 DEF ToSet
    <2>2. ToSet(r) \subseteq ToSet(list)
      BY <1>4 DEF ToSet
    <2> QED BY <2>1, <2>2
  <1>6. ASSUME Sound(list) PROVE Sound(r) /\ ToSet(r) = ToSet(list) \ {Head(list)}
    <2>1. \A m \in DOMAIN list : m # 1 => list[m] # list[1]
      BY <1>1, <1>6 DEF Sound
    <2>2. ToSet(r) = ToSet(list) \ {Head(list)}
      BY <1>2, <1>4, <2>1 DEF ToSet
    <2>3. \A m, n \in DOMAIN r : m + 1 = n + 1 => m = n
      BY <1>3
    <2>4. Sound(r)
      BY <1>4, <1>6, <2>3 DEF Sound
    <2> QED BY <2>2, <2>4
  <1> QED BY <1>2, <1>5, <1>6 DEF r

-----------------------------------------------------------------------------

Pcs == Transferring \cup Moving \cup Restoring \cup
       {"idle", "remove", "unlink", "symlink", "linked"}

\* Records of the type of an RPC.
LEMMA NoOpIs ==
  /\ NoOp \in OpType /\ NoOp.pc = "idle" /\ NoOp.conn = NoConn /\ NoOp.path = NoPath
  /\ NoOp.source = NoPath /\ NoOp.fnum = InvalidFnum /\ NoOp.num_retries = 0 /\ OpNamed(NoOp)
  <1>1. /\ NoOp \in OpType /\ NoOp.pc = "idle" /\ NoOp.conn = NoConn /\ NoOp.path = NoPath
        /\ NoOp.source = NoPath /\ NoOp.fnum = InvalidFnum /\ NoOp.num_retries = 0
    BY HandlesAssumption DEF NoOp, OpType
  <1> QED BY <1>1, HandlesAssumption DEF OpNamed, Transferring, Moving, Restoring

LEMMA OpFields ==
  ASSUME NEW op \in OpType
  PROVE  /\ op.pc \in Pcs /\ op.conn \in Conns \cup {NoConn} /\ op.path \in Paths \cup {NoPath}
         /\ op.source \in Paths \cup {NoPath} /\ op.fnum \in Fnums \cup {InvalidFnum}
         /\ op.num_retries \in 0..(MaxRetries + 1)
  BY DEF OpType, Pcs

LEMMA PcSet ==
  ASSUME NEW op \in OpType, NEW pc \in Pcs
  PROVE  LET r == [op EXCEPT !.pc = pc] IN
         /\ r \in OpType /\ r.pc = pc /\ r.conn = op.conn /\ r.path = op.path
         /\ r.source = op.source /\ r.fnum = op.fnum /\ r.num_retries = op.num_retries
  BY DEF OpType, Pcs

\* A step that changes pc alone.
LEMMA PcStep ==
  ASSUME TypeOK, NEW t \in Threads, NEW pc \in Pcs, ops' = [ops EXCEPT ![t].pc = pc]
  PROVE  \E r \in OpType :
           /\ ops' = [ops EXCEPT ![t] = r] /\ r.pc = pc /\ r.conn = ops[t].conn
           /\ r.path = ops[t].path /\ r.source = ops[t].source /\ r.fnum = ops[t].fnum
           /\ r.num_retries = ops[t].num_retries
  <1>1. PICK op \in OpType : op = ops[t]
    BY DEF TypeOK
  <1>2. ops' = [ops EXCEPT ![t] = [op EXCEPT !.pc = pc]]
    BY <1>1
  <1>3. PICK r : r = [op EXCEPT !.pc = pc]
    OBVIOUS
  <1>4. /\ r \in OpType /\ r.pc = pc /\ r.conn = op.conn /\ r.path = op.path
        /\ r.source = op.source /\ r.fnum = op.fnum /\ r.num_retries = op.num_retries
    BY <1>3, PcSet
  <1>5. ops' = [ops EXCEPT ![t] = r]
    BY <1>2, <1>3
  <1> QED BY <1>1, <1>4, <1>5

\* The lookup in fh_lru_map finds a handle of the path.
LEMMA FnumOfIs ==
  ASSUME TypeOK, NEW c \in Conns, NEW p \in Paths
  PROVE  /\ FnumOf(c, p) \in Fnums \cup {InvalidFnum}
         /\ p \notin Cached(c) => FnumOf(c, p) = InvalidFnum
         /\ p \in Cached(c) => /\ FnumOf(c, p) \in Fnums
                               /\ \E h \in ToSet(fh_lru[c]) : h.path = p /\ h.fnum = FnumOf(c, p)
  <1>1. \A h \in ToSet(fh_lru[c]) : h \in HandleType
    <2>1. fh_lru[c] \in Seq(HandleType)
      BY DEF TypeOK
    <2> QED BY <2>1, LenProperties DEF ToSet
  <1>2. CASE p \in Cached(c)
    <2>1. PICK h \in ToSet(fh_lru[c]) : h.path = p /\ FnumOf(c, p) = h.fnum
      BY <1>2 DEF FnumOf, Cached
    <2>2. h.fnum \in Fnums
      BY <1>1, <2>1 DEF HandleType
    <2> QED BY <1>2, <2>1, <2>2
  <1>3. CASE p \notin Cached(c)
    BY <1>3 DEF FnumOf
  <1> QED BY <1>2, <1>3

\* The RPC that a client starts.
LEMMA StartRpcIs ==
  ASSUME TypeOK, NEW t \in Threads, NEW p \in ClientPaths, NEW q \in ClientPaths, NEW c \in Conns,
         NEW pc \in Pcs, StartRpc(t, pc, p, q, c)
  PROVE  \E r \in OpType :
           /\ ops' = [ops EXCEPT ![t] = r] /\ r.pc = pc /\ r.conn = c /\ r.path = p
           /\ r.source = q /\ r.fnum = InvalidFnum /\ r.num_retries = 0
  <1>1. PICK op \in OpType : op = NoOp /\ op.fnum = InvalidFnum /\ op.num_retries = 0
    BY NoOpIs
  <1>2. p \in Paths /\ q \in Paths
    BY HandlesAssumption
  <1> DEFINE r == [op EXCEPT !.pc = pc, !.conn = c, !.path = p, !.source = q]
  <1>3. ops' = [ops EXCEPT ![t] = r]
    BY <1>1 DEF StartRpc
  <1>4. /\ r \in OpType /\ r.pc = pc /\ r.conn = c /\ r.path = p /\ r.source = q
        /\ r.fnum = op.fnum /\ r.num_retries = op.num_retries
    BY <1>2 DEF OpType, Pcs
  <1> QED BY <1>1, <1>3, <1>4

\* One try of a transfer: the handle g that it has then, and what becomes of the RPC.
LEMMA TransferIs ==
  ASSUME TypeOK, OpsNamed, NEW t \in Threads, Transfer(t)
  PROVE  LET c == ops[t].conn IN
         /\ ops[t].pc = "transfer" /\ c \in Conns /\ UNCHANGED <<fh_lru, files>>
         /\ \E g \in Fnums \cup {InvalidFnum}, r \in OpType :
              /\ ops' = [ops EXCEPT ![t] = r]
              /\ \/ g = ops[t].fnum /\ UNCHANGED opened
                 \/ /\ ops[t].fnum = InvalidFnum /\ SmbPath[ops[t].path] \in files
                    /\ g \in Fnums /\ opened[c][g] = NoPath
                    /\ opened' = [opened EXCEPT ![c][g] = SmbPath[ops[t].path]]
              /\ \/ /\ r.pc \in {"transfer", "update"} /\ r.conn = c /\ r.path = ops[t].path
                    /\ r.source = ops[t].source /\ r.fnum = g
                    /\ IF r.pc = "update" THEN g # InvalidFnum ELSE r.num_retries <= MaxRetries
                    /\ UNCHANGED lost
                 \/ r = NoOp /\ g = InvalidFnum /\ UNCHANGED lost
                 \/ /\ r = NoOp
                    /\ lost' = [lost EXCEPT ![c] = @ \cup {f \in {g} \cap Fnums :
                                  opened'[c][f] # NoPath /\ ops[t].path \notin Cached(c)}]
  <1> DEFINE c == ops[t].conn
  <1>1. PICK op \in OpType : op = ops[t]
    BY DEF TypeOK
  <1>2. ops[t].pc = "transfer" /\ c \in Conns /\ UNCHANGED <<fh_lru, files>>
    <2>1. ops[t].pc = "transfer" /\ UNCHANGED <<fh_lru, files>>
      BY DEF Transfer
    <2>2. OpNamed(ops[t])
      BY DEF OpsNamed
    <2> QED BY <1>1, <2>1, <2>2, OpFields DEF OpNamed
  <1>3. PICK g \in Fnums \cup {InvalidFnum} :
          /\ \/ g = ops[t].fnum /\ UNCHANGED opened
             \/ /\ ops[t].fnum = InvalidFnum /\ SmbPath[ops[t].path] \in files
                /\ g # InvalidFnum /\ opened[c][g] = NoPath
                /\ opened' = [opened EXCEPT ![c][g] = SmbPath[ops[t].path]]
          /\ \/ /\ g # InvalidFnum /\ opened'[c][g] # NoPath
                /\ ops' = [ops EXCEPT ![t] = [[ops[t] EXCEPT !.fnum = g] EXCEPT !.pc = "update"]]
                /\ UNCHANGED lost
             \/ /\ ops' = [ops EXCEPT ![t] = Retried([ops[t] EXCEPT !.fnum = g])]
                /\ UNCHANGED lost
             \/ /\ ops' = [ops EXCEPT ![t] = NoOp]
                /\ lost' = [lost EXCEPT ![c] = @ \cup {f \in {g} \cap Fnums :
                              opened'[c][f] # NoPath /\ ops[t].path \notin Cached(c)}]
    BY DEF Transfer
  <1>4. PICK o \in OpType : /\ o = [ops[t] EXCEPT !.fnum = g] /\ o.pc = "transfer" /\ o.conn = c
                            /\ o.path = ops[t].path /\ o.source = ops[t].source /\ o.fnum = g
                            /\ o.num_retries <= MaxRetries
    <2>1. LET o == [op EXCEPT !.fnum = g] IN
          /\ o \in OpType /\ o.pc = op.pc /\ o.conn = op.conn /\ o.path = op.path
          /\ o.source = op.source /\ o.fnum = g /\ o.num_retries = op.num_retries
      BY DEF OpType
    <2>2. op.num_retries <= MaxRetries
      BY <1>1, <1>2 DEF OpsNamed, OpNamed
    <2> QED BY <1>1, <1>2, <2>1, <2>2
  <1>5. \/ g = ops[t].fnum /\ UNCHANGED opened
        \/ /\ ops[t].fnum = InvalidFnum /\ SmbPath[ops[t].path] \in files
           /\ g \in Fnums /\ opened[c][g] = NoPath
           /\ opened' = [opened EXCEPT ![c][g] = SmbPath[ops[t].path]]
    BY <1>3
  <1>6. \E r \in OpType :
          /\ ops' = [ops EXCEPT ![t] = r]
          /\ \/ /\ r.pc \in {"transfer", "update"} /\ r.conn = c /\ r.path = ops[t].path
                /\ r.source = ops[t].source /\ r.fnum = g
                /\ IF r.pc = "update" THEN g # InvalidFnum ELSE r.num_retries <= MaxRetries
                /\ UNCHANGED lost
             \/ r = NoOp /\ g = InvalidFnum /\ UNCHANGED lost
             \/ /\ r = NoOp
                /\ lost' = [lost EXCEPT ![c] = @ \cup {f \in {g} \cap Fnums :
                              opened'[c][f] # NoPath /\ ops[t].path \notin Cached(c)}]
    <2>1. CASE /\ g # InvalidFnum /\ UNCHANGED lost
               /\ ops' = [ops EXCEPT ![t] = [[ops[t] EXCEPT !.fnum = g] EXCEPT !.pc = "update"]]
      <3>1. "update" \in Pcs
        BY DEF Pcs, Transferring
      <3>2. PICK r : r = [o EXCEPT !.pc = "update"]
        OBVIOUS
      <3>3. /\ r \in OpType /\ r.pc = "update" /\ r.conn = o.conn /\ r.path = o.path
            /\ r.source = o.source /\ r.fnum = o.fnum
        BY <3>1, <3>2, PcSet
      <3> QED BY <1>4, <2>1, <3>2, <3>3
    <2>2. CASE ops' = [ops EXCEPT ![t] = Retried([ops[t] EXCEPT !.fnum = g]) ] /\ UNCHANGED lost
      <3>0. ops' = [ops EXCEPT ![t] = Retried(o)] /\ o.num_retries \in 0..(MaxRetries + 1)
        BY <1>4, <2>2, OpFields
      <3>1. CASE o.num_retries < MaxRetries
        <4>1. PICK n \in 0..(MaxRetries + 1) : n = o.num_retries + 1
          BY <3>0, <3>1, HandlesAssumption
        <4>2. PICK r : r = [o EXCEPT !.num_retries = n]
          OBVIOUS
        <4>3. /\ r \in OpType /\ r.pc = o.pc /\ r.conn = o.conn /\ r.path = o.path
              /\ r.source = o.source /\ r.fnum = o.fnum /\ r.num_retries = n
          BY <4>2 DEF OpType
        <4>4. n <= MaxRetries
          BY <3>0, <3>1, <4>1, HandlesAssumption
        <4>5. ops' = [ops EXCEPT ![t] = r]
          BY <3>0, <3>1, <4>1, <4>2 DEF Retried
        <4> QED BY <1>4, <2>2, <4>3, <4>4, <4>5
      <3>2. CASE ~(o.num_retries < MaxRetries) /\ o.fnum # InvalidFnum
        <4>1. PICK n \in 0..(MaxRetries + 1) : n = o.num_retries + 1
          BY <1>4, <3>0, HandlesAssumption
        <4>2. PICK r : r = [o EXCEPT !.num_retries = n, !.pc = "update"]
          OBVIOUS
        <4>3. /\ r \in OpType /\ r.pc = "update" /\ r.conn = o.conn /\ r.path = o.path
              /\ r.source = o.source /\ r.fnum = o.fnum
          BY <4>2 DEF OpType, Transferring
        <4>4. ops' = [ops EXCEPT ![t] = r]
          BY <3>0, <3>2, <4>1, <4>2 DEF Retried
        <4> QED BY <1>4, <2>2, <3>2, <4>3, <4>4
      <3>3. CASE ~(o.num_retries < MaxRetries) /\ o.fnum = InvalidFnum
        <4>1. ops' = [ops EXCEPT ![t] = NoOp]
          BY <3>0, <3>3 DEF Retried
        <4> QED BY <1>4, <2>2, <3>3, <4>1, NoOpIs
      <3> QED BY <3>1, <3>2, <3>3
    <2>3. CASE /\ ops' = [ops EXCEPT ![t] = NoOp]
               /\ lost' = [lost EXCEPT ![c] = @ \cup {f \in {g} \cap Fnums :
                             opened'[c][f] # NoPath /\ ops[t].path \notin Cached(c)}]
      BY <2>3, NoOpIs
    <2> QED BY <1>3, <2>1, <2>2, <2>3
  <1> QED BY <1>2, <1>5, <1>6

\* Closing the handle f of c closes it, or loses it.
Closed(c, f) ==
  \/ opened'[c][f] = NoPath /\ (f \in lost'[c] <=> f \in lost[c])
  \/ opened'[c][f] = opened[c][f] /\ opened[c][f] # NoPath /\ f \in lost'[c]

\* Closing one handle of each connection.
LEMMA CloseIs ==
  ASSUME TypeOK, NEW fnums, CloseFnums(fnums)
  PROVE  /\ opened' \in [Conns -> [Fnums -> Paths \cup {Gone, NoPath}]]
         /\ lost' \in [Conns -> SUBSET Fnums]
         /\ \A c \in Conns, f \in Fnums :
              /\ f # fnums[c] => opened'[c][f] = opened[c][f] /\ (f \in lost'[c] <=> f \in lost[c])
              /\ f = fnums[c] => Closed(c, f)
  <1>1. PICK failed \in SUBSET Conns :
          /\ opened' = [c \in Conns |-> [f \in Fnums |->
                         IF f = fnums[c] /\ c \notin failed THEN NoPath ELSE opened[c][f]]]
          /\ lost' = [c \in Conns |-> lost[c] \cup
                         {f \in Fnums : f = fnums[c] /\ c \in failed /\ opened[c][f] # NoPath}]
    BY DEF CloseFnums
  <1>2. ASSUME NEW c \in Conns, NEW f \in Fnums
        PROVE  /\ opened'[c][f] = IF f = fnums[c] /\ c \notin failed THEN NoPath ELSE opened[c][f]
               /\ opened[c][f] \in Paths \cup {Gone, NoPath}
               /\ f \in lost'[c] <=> \/ f \in lost[c]
                                     \/ f = fnums[c] /\ c \in failed /\ opened[c][f] # NoPath
    BY <1>1 DEF TypeOK
  <1>3. opened' \in [Conns -> [Fnums -> Paths \cup {Gone, NoPath}]]
    BY <1>1, <1>2
  <1>4. lost' \in [Conns -> SUBSET Fnums]
    BY <1>1 DEF TypeOK
  <1> QED BY <1>2, <1>3, <1>4 DEF Closed

LEMMA ShutdownIs ==
  ASSUME TypeOK, NEW c \in Conns, ShutdownSmbConnection(c)
  PROVE  /\ fh_lru' \in [Conns -> Seq(HandleType)] /\ \A d \in Conns : Len(fh_lru'[d]) <= MaxHandles
         /\ opened' \in [Conns -> [Fnums -> Paths \cup {Gone, NoPath}]]
         /\ lost' \in [Conns -> SUBSET Fnums]
         /\ \A d \in Conns : d # c =>
              fh_lru'[d] = fh_lru[d] /\ opened'[d] = opened[d] /\ lost'[d] = lost[d]
         /\ fh_lru'[c] = <<>> /\ ToSet(fh_lru'[c]) = {} /\ lost'[c] = {}
         /\ \A f \in Fnums : opened'[c][f] = NoPath
  <1>1. /\ fh_lru' = [fh_lru EXCEPT ![c] = <<>>] /\ lost' = [lost EXCEPT ![c] = {}]
        /\ opened' = [opened EXCEPT ![c] = [f \in Fnums |-> NoPath]]
    BY DEF ShutdownSmbConnection
  <1>2. <<>> \in Seq(HandleType) /\ Len(<<>>) = 0 /\ ToSet(<<>>) = {} /\ 0 <= MaxHandles
    BY HandlesAssumption DEF ToSet
  <1>3. fh_lru' \in [Conns -> Seq(HandleType)] /\ \A d \in Conns : Len(fh_lru'[d]) <= MaxHandles
    BY <1>1, <1>2 DEF TypeOK
  <1>4. opened' \in [Conns -> [Fnums -> Paths \cup {Gone, NoPath}]] /\ lost' \in [Conns -> SUBSET Fnums]
    BY <1>1 DEF TypeOK
  <1> QED BY <1>1, <1>2, <1>3, <1>4 DEF TypeOK

\* What a file's move or deletion does to the handles.
LEMMA MovedIs ==
  ASSUME TypeOK, NEW p, NEW q \in Paths \cup {Gone}
  PROVE  /\ Moved(p, q) \in [Conns -> [Fnums -> Paths \cup {Gone, NoPath}]]
         /\ \A c \in Conns, f \in Fnums :
              Moved(p, q)[c][f] = IF opened[c][f] = p THEN q ELSE opened[c][f]
  BY DEF Moved, TypeOK

\* PurgeFileHandle, for any path.
LEMMA PurgeIs ==
  ASSUME TypeOK, NEW p \in Paths, PurgeFileHandle(p)
  PROVE  /\ fh_lru' \in [Conns -> Seq(HandleType)] /\ \A d \in Conns : Len(fh_lru'[d]) <= MaxHandles
         /\ opened' \in [Conns -> [Fnums -> Paths \cup {Gone, NoPath}]]
         /\ lost' \in [Conns -> SUBSET Fnums]
         /\ \A c \in Conns : fh_lru'[c] = Erase(fh_lru[c], p)
         /\ \A c \in Conns, f \in Fnums :
              /\ f # FnumOf(c, p) =>
                   opened'[c][f] = opened[c][f] /\ (f \in lost'[c] <=> f \in lost[c])
              /\ f = FnumOf(c, p) => Closed(c, f)
  <1> DEFINE fnums == [c \in Conns |-> FnumOf(c, p)]
  <1>1. fh_lru' = [c \in Conns |-> Erase(fh_lru[c], p)] /\ CloseFnums(fnums)
    BY DEF PurgeFileHandle
  <1>2. ASSUME NEW c \in Conns
        PROVE  Erase(fh_lru[c], p) \in Seq(HandleType) /\ Len(Erase(fh_lru[c], p)) <= MaxHandles
    <2>1. fh_lru[c] \in Seq(HandleType) /\ Len(fh_lru[c]) <= MaxHandles
      BY DEF TypeOK
    <2>2. Len(fh_lru[c]) \in Nat /\ MaxHandles \in Nat
      BY <2>1, LenProperties, HandlesAssumption
    <2> QED BY <2>1, <2>2, EraseIs
  <1>3. \A c \in Conns : fnums[c] = FnumOf(c, p)
    OBVIOUS
  <1> HIDE DEF fnums
  <1> QED BY <1>1, <1>2, <1>3, CloseIs

\* UpdateFileHandle: the list with the handle as its newest.
LEMMA UpdateIs ==
  ASSUME TypeOK, OpsNamed, NEW t \in Threads, UpdateFileHandle(t)
  PROVE  LET c == ops[t].conn
             h == [path |-> ops[t].path, fnum |-> ops[t].fnum]
             list == Append(Erase(fh_lru[c], ops[t].path), h)
             full == Len(list) > MaxHandles
         IN  /\ ops[t].pc = "update" /\ c \in Conns /\ h \in HandleType
             /\ h.path = ops[t].path /\ h.fnum = ops[t].fnum
             /\ list \in Seq(HandleType) /\ Len(list) \in Nat /\ Len(list) > 0
             /\ \A d \in Conns : d # c => fh_lru'[d] = fh_lru[d]
             /\ fh_lru'[c] = IF full THEN Tail(list) ELSE list
             /\ \A d \in Conns, f \in Fnums :
                  /\ ~(d = c /\ full /\ f = Head(list).fnum) =>
                       opened'[d][f] = opened[d][f] /\ (f \in lost'[d] <=> f \in lost[d])
                  /\ d = c /\ full /\ f = Head(list).fnum =>
                       Closed(d, f)
             /\ \E r \in OpType :
                  /\ ops' = [ops EXCEPT ![t] = r]
                  /\ \/ r = NoOp
                     \/ /\ r.pc = "lookup" /\ r.conn = c /\ r.path = ops[t].path
                        /\ r.source = ops[t].source /\ r.fnum = InvalidFnum
                        /\ r.num_retries <= MaxRetries
             /\ files' = files
             /\ fh_lru' \in [Conns -> Seq(HandleType)]
             /\ \A d \in Conns : Len(fh_lru'[d]) <= MaxHandles
             /\ opened' \in [Conns -> [Fnums -> Paths \cup {Gone, NoPath}]]
             /\ lost' \in [Conns -> SUBSET Fnums]
  <1> DEFINE c == ops[t].conn
             h == [path |-> ops[t].path, fnum |-> ops[t].fnum]
             list == Append(Erase(fh_lru[c], ops[t].path), h)
             full == Len(list) > MaxHandles
             fnums == [d \in Conns |-> IF d = c /\ full THEN Head(list).fnum ELSE InvalidFnum]
  <1>1. /\ ops[t].pc = "update" /\ c \in Conns /\ h \in HandleType
        /\ h.path = ops[t].path /\ h.fnum = ops[t].fnum
    <2>1. ops[t] \in OpType /\ ops[t].pc = "update" /\ OpNamed(ops[t])
      BY DEF TypeOK, UpdateFileHandle, OpsNamed
    <2>2. ops[t].path \in Paths /\ ops[t].conn # NoConn /\ ops[t].fnum # InvalidFnum
      BY <2>1, HandlesAssumption DEF OpNamed
    <2> QED BY <2>1, <2>2 DEF OpType, HandleType
  <1>2. /\ fh_lru' = [fh_lru EXCEPT ![c] = IF full THEN Tail(list) ELSE list]
        /\ CloseFnums(fnums) /\ files' = files
        /\ \/ ops' = [ops EXCEPT ![t] = NoOp]
           \/ /\ ops[t].num_retries <= MaxRetries
              /\ ops' = [ops EXCEPT ![t].pc = "lookup", ![t].fnum = InvalidFnum]
    BY DEF UpdateFileHandle
  <1>3. \E r \in OpType :
           /\ ops' = [ops EXCEPT ![t] = r]
           /\ \/ r = NoOp
              \/ /\ r.pc = "lookup" /\ r.conn = c /\ r.path = ops[t].path
                 /\ r.source = ops[t].source /\ r.fnum = InvalidFnum
                 /\ r.num_retries <= MaxRetries
    <2>1. CASE ops' = [ops EXCEPT ![t] = NoOp]
      BY <2>1, NoOpIs
    <2>2. CASE /\ ops[t].num_retries <= MaxRetries
               /\ ops' = [ops EXCEPT ![t].pc = "lookup", ![t].fnum = InvalidFnum]
      <3>1. PICK op \in OpType : op = ops[t]
        BY DEF TypeOK
      <3>2. PICK r : r = [op EXCEPT !.pc = "lookup", !.fnum = InvalidFnum]
        OBVIOUS
      <3>3. /\ r \in OpType /\ r.pc = "lookup" /\ r.conn = op.conn /\ r.path = op.path
            /\ r.source = op.source /\ r.fnum = InvalidFnum /\ r.num_retries = op.num_retries
        BY <3>2 DEF OpType, Transferring
      <3>4. ops' = [ops EXCEPT ![t] = r]
        BY <2>2, <3>1, <3>2 DEF TypeOK
      <3> QED BY <2>2, <3>1, <3>3, <3>4
    <2> QED BY <1>2, <2>1, <2>2
  <1> HIDE DEF c, h
  <1>4. /\ fh_lru[c] \in Seq(HandleType) /\ Len(fh_lru[c]) <= MaxHandles
        /\ Len(fh_lru[c]) \in Nat /\ MaxHandles \in Nat
    BY <1>1, LenProperties, HandlesAssumption DEF TypeOK
  <1>5. /\ list \in Seq(HandleType) /\ Len(list) \in Nat /\ Len(list) > 0
        /\ Len(list) <= MaxHandles + 1
    <2>1. PICK e \in Seq(HandleType) : /\ e = Erase(fh_lru[c], ops[t].path)
                                       /\ Len(e) \in Nat /\ Len(e) <= Len(fh_lru[c])
      BY <1>4, EraseIs
    <2>2. list \in Seq(HandleType) /\ Len(list) = Len(e) + 1
      BY <1>1, <2>1, AppendIs
    <2> QED BY <1>4, <2>1, <2>2
  <1> HIDE DEF list
  <1>6. full => Tail(list) \in Seq(HandleType) /\ Len(Tail(list)) <= MaxHandles
    BY <1>4, <1>5, TailIs
  <1>7. fh_lru' \in [Conns -> Seq(HandleType)] /\ \A d \in Conns : Len(fh_lru'[d]) <= MaxHandles
    <2>1. PICK s \in Seq(HandleType) : /\ s = IF full THEN Tail(list) ELSE list
                                       /\ Len(s) <= MaxHandles
      <3>1. CASE full
        BY <1>6, <3>1
      <3>2. CASE ~full
        <4>1. Len(list) <= MaxHandles
          BY <1>4, <1>5, <3>2
        <4> QED BY <1>5, <3>2, <4>1
      <3> QED BY <3>1, <3>2
    <2> QED BY <1>1, <1>2, <2>1 DEF TypeOK
  <1>8. \A d \in Conns : fnums[d] = IF d = c /\ full THEN Head(list).fnum ELSE InvalidFnum
    OBVIOUS
  <1> HIDE DEF fnums
  <1>9. \A d \in Conns, f \in Fnums :
          /\ ~(d = c /\ full /\ f = Head(list).fnum) =>
               opened'[d][f] = opened[d][f] /\ (f \in lost'[d] <=> f \in lost[d])
          /\ d = c /\ full /\ f = Head(list).fnum =>
               Closed(d, f)
    <2>1. InvalidFnum \notin Fnums
      BY DEF Fnums, InvalidFnum
    <2> QED BY <1>2, <1>8, <2>1, CloseIs
  <1>10. /\ opened' \in [Conns -> [Fnums -> Paths \cup {Gone, NoPath}]]
         /\ lost' \in [Conns -> SUBSET Fnums]
    BY <1>2, CloseIs
  <1>11. \A d \in Conns : d # c => fh_lru'[d] = fh_lru[d]
    BY <1>2 DEF TypeOK
  <1>12. fh_lru'[c] = IF full THEN Tail(list) ELSE list
    BY <1>1, <1>2 DEF TypeOK
  <1> QED BY <1>1, <1>2, <1>3, <1>5, <1>7, <1>9, <1>10, <1>11, <1>12 DEF c, h, list

\* A new try of a rename or a symlink.
LEMMA RetryIs ==
  ASSUME TypeOK, OpsNamed, NEW t \in Threads, RetryOp(t)
  PROVE  /\ ops[t].pc \in DOMAIN TryFrom /\ ops[t].conn \in Conns /\ files' = files
         /\ ShutdownSmbConnection(ops[t].conn)
         /\ \E r \in OpType :
              /\ ops' = [ops EXCEPT ![t] = r]
              /\ \/ r = NoOp
                 \/ /\ r.pc = TryFrom[ops[t].pc] /\ r.conn = NoConn /\ r.path = ops[t].path
                    /\ r.source = ops[t].source /\ r.fnum = ops[t].fnum
                    /\ r.num_retries <= MaxRetries
  <1>1. PICK op \in OpType : op = ops[t] /\ OpNamed(op)
    BY DEF TypeOK, OpsNamed
  <1>2. /\ op.pc \in {"renamed", "moved", "linked"} /\ op.pc \in DOMAIN TryFrom /\ files' = files
        /\ ShutdownSmbConnection(op.conn)
        /\ ops' = [ops EXCEPT ![t] =
                     IF op.num_retries = MaxRetries THEN NoOp
                     ELSE [op EXCEPT !.pc = TryFrom[op.pc], !.conn = NoConn,
                                     !.num_retries = op.num_retries + 1]]
    BY <1>1 DEF RetryOp, TryFrom
  <1>3. op.conn \in Conns /\ op.num_retries <= MaxRetries /\ op.num_retries \in Nat
    <2>1. op.conn # NoConn /\ op.num_retries <= MaxRetries
      BY <1>1, <1>2 DEF OpNamed
    <2> QED BY <2>1, OpFields
  <1>4. CASE op.num_retries = MaxRetries
    <2>1. ops' = [ops EXCEPT ![t] = NoOp]
      BY <1>2, <1>4
    <2> QED BY <1>1, <1>2, <1>3, <2>1, NoOpIs
  <1>5. CASE op.num_retries # MaxRetries
    <2>1. PICK n \in 0..(MaxRetries + 1) : n = op.num_retries + 1 /\ n <= MaxRetries
      BY <1>3, <1>5, HandlesAssumption
    <2>2. PICK pc \in Pcs : pc = TryFrom[op.pc]
      BY <1>2 DEF TryFrom, Pcs, Moving
    <2>3. PICK r : r = [op EXCEPT !.pc = pc, !.conn = NoConn, !.num_retries = n]
      OBVIOUS
    <2>4. /\ r \in OpType /\ r.pc = pc /\ r.conn = NoConn /\ r.path = op.path
          /\ r.source = op.source /\ r.fnum = op.fnum /\ r.num_retries = n
      BY <2>3 DEF OpType, Pcs
    <2>5. ops' = [ops EXCEPT ![t] = r]
      BY <1>2, <1>5, <2>1, <2>2, <2>3
    <2>6. /\ r.pc = TryFrom[ops[t].pc] /\ r.path = ops[t].path
          /\ r.source = ops[t].source /\ r.fnum = ops[t].fnum /\ r.num_retries <= MaxRetries
      BY <1>1, <2>1, <2>2, <2>4
    <2>7. ops[t].pc \in DOMAIN TryFrom /\ ops[t].conn \in Conns
      BY <1>1, <1>2, <1>3
    <2>8. ShutdownSmbConnection(ops[t].conn)
      BY <1>1, <1>2
    <2>9. \E q \in OpType :
            /\ ops' = [ops EXCEPT ![t] = q]
            /\ q.pc = TryFrom[ops[t].pc] /\ q.conn = NoConn /\ q.path = ops[t].path
            /\ q.source = ops[t].source /\ q.fnum = ops[t].fnum
            /\ q.num_retries <= MaxRetries
      BY <2>4, <2>5, <2>6
    <2> QED BY <1>2, <2>7, <2>8, <2>9
  <1> QED BY <1>4, <1>5

\* The RPCs that clients may start.
LEMMA StartIs ==
  ASSUME TypeOK, NEW t \in Threads, NEW p \in ClientPaths, NEW c \in Conns,
         \/ StartTransfer(t, p, c) \/ StartRemove(t, p, c) \/ StartSymlink(t, p, c)
         \/ \E q \in MovedPaths : \/ StartRename(t, p, q, c) \/ StartFinalize(t, p, q, c)
                                  \/ StartRestore(t, p, q, c)
  PROVE  \E pc \in Pcs, q \in ClientPaths :
           /\ pc \in {"lookup", "remove", "unlink", "symlink", "purge", "move", "finalize",
                      "existing", "delete"}
           /\ StartRpc(t, pc, p, q, c)
           /\ pc = "lookup" => p \in CachedPaths
           /\ pc \in {"remove", "unlink"} => p \in MovedPaths
           /\ pc \in {"purge", "move", "finalize", "existing", "delete"} => q \in MovedPaths
  <1>1. CASE StartTransfer(t, p, c)
    <2>1. "lookup" \in Pcs /\ StartRpc(t, "lookup", p, p, c) /\ p \in CachedPaths
      BY <1>1 DEF StartTransfer, Pcs, Transferring
    <2> QED BY <2>1
  <1>2. CASE StartRemove(t, p, c)
    <2>1. "remove" \in Pcs /\ StartRpc(t, "remove", p, p, c) /\ p \in MovedPaths
      BY <1>2 DEF StartRemove, Pcs
    <2> QED BY <2>1
  <1>3. CASE StartSymlink(t, p, c)
    <2>1. PICK pc \in Pcs : /\ pc \in {"symlink", "unlink"} /\ StartRpc(t, pc, p, p, c)
                            /\ pc = "unlink" => p \in MovedPaths
      BY <1>3 DEF StartSymlink, Pcs
    <2> QED BY <2>1
  <1>4. ASSUME NEW q \in MovedPaths, \/ StartRename(t, p, q, c) \/ StartFinalize(t, p, q, c)
                                     \/ StartRestore(t, p, q, c)
        PROVE  \E pc \in Pcs : /\ pc \in {"purge", "move", "finalize", "existing", "delete"}
                               /\ StartRpc(t, pc, p, q, c) /\ q \in ClientPaths
    <2>1. q \in ClientPaths /\ {"purge", "move", "finalize", "existing", "delete"} \subseteq Pcs
      BY HandlesAssumption DEF Pcs, Moving, Restoring
    <2> QED BY <1>4, <2>1 DEF StartRename, StartFinalize, StartRestore
  <1> QED BY <1>1, <1>2, <1>3, <1>4

\* The RPCs that go on with another step, or end, and touch no handle but with a purge, a
\* move or a deletion.
PcSteps(t) ==
  \/ LookupHandle(t) \/ PurgeTarget(t) \/ RenameEntity(t) \/ FinalizeRename(t) \/ RemoveEntity(t)
  \/ CreateSymlink(t) \/ EndOp(t) \/ Reconnect(t) \/ DeleteFinal(t) \/ DeleteTmpEntity(t)
  \/ PurgeTmpHandle(t) \/ CreateRegularFile(t)

\* What each of them makes of its RPC.
LEMMA PcStepsIs ==
  ASSUME TypeOK, OpsNamed, NEW t \in Threads, PcSteps(t)
  PROVE  /\ ops[t].pc # "idle"
         /\ \E r \in OpType :
              /\ ops' = [ops EXCEPT ![t] = r] /\ OpNamed(r)
              /\ \/ r = NoOp
                 \/ /\ r.pc # "idle" /\ r.path = ops[t].path /\ r.source = ops[t].source
                    /\ r.pc \in Transferring <=> ops[t].pc \in Transferring
                    /\ r.conn \in {ops[t].conn, NoConn} \/ Reconnect(t)
  <1>0. PICK op \in OpType : /\ op = ops[t] /\ OpNamed(op) /\ op.conn \in Conns \cup {NoConn}
                             /\ op.fnum \in Fnums \cup {InvalidFnum}
                             /\ op.num_retries \in 0..(MaxRetries + 1)
    BY OpFields DEF TypeOK, OpsNamed
  <1>1. ops[t].pc # "idle"
    BY DEF PcSteps, LookupHandle, PurgeTarget, RenameEntity, FinalizeRename, RemoveEntity,
           CreateSymlink, EndOp, TryFrom, Reconnect, DeleteFinal, DeleteTmpEntity, PurgeTmpHandle,
           CreateRegularFile
  \* Those that end the RPC.
  <1>2. ASSUME ops' = [ops EXCEPT ![t] = NoOp]
        PROVE  \E r \in OpType : ops' = [ops EXCEPT ![t] = r] /\ OpNamed(r) /\ r = NoOp
    BY <1>2, NoOpIs
  \* Those that change pc alone.
  <1>3. ASSUME NEW pc \in Pcs, ops' = [ops EXCEPT ![t].pc = pc], pc # "idle",
               pc \notin Transferring, op.pc \notin Transferring, op.conn # NoConn,
               pc \in {"remove", "unlink"} => op.pc \in {"remove", "unlink"},
               pc \in Moving \cup Restoring => op.pc \in Moving \cup Restoring
        PROVE  \E r \in OpType :
                 /\ ops' = [ops EXCEPT ![t] = r] /\ OpNamed(r) /\ r.pc # "idle"
                 /\ r.path = ops[t].path /\ r.source = ops[t].source /\ r.conn = ops[t].conn
                 /\ r.pc \notin Transferring /\ ops[t].pc \notin Transferring
    <2>1. PICK r \in OpType :
            /\ ops' = [ops EXCEPT ![t] = r] /\ r.pc = pc /\ r.conn = ops[t].conn
            /\ r.path = ops[t].path /\ r.source = ops[t].source /\ r.fnum = ops[t].fnum
            /\ r.num_retries = ops[t].num_retries
      BY <1>3, PcStep
    <2>2. OpNamed(r)
      BY <1>0, <1>1, <1>3, <2>1 DEF OpNamed, Transferring
    <2> QED BY <1>0, <1>3, <2>1, <2>2
  <1>4. CASE LookupHandle(t)
    <2>1. /\ op.pc = "lookup"
          /\ ops' = [ops EXCEPT ![t] = [op EXCEPT !.pc = "transfer", !.num_retries = 0,
                                                  !.fnum = FnumOf(op.conn, op.path)]]
      BY <1>0, <1>4 DEF LookupHandle
    <2>2. op.conn \in Conns /\ op.path \in Paths
      BY <1>0, <2>1, HandlesAssumption DEF OpNamed
    <2>3. PICK f \in Fnums \cup {InvalidFnum} : f = FnumOf(op.conn, op.path)
      BY <2>2, FnumOfIs
    <2>4. PICK n \in 0..(MaxRetries + 1) : n = 0
      BY HandlesAssumption
    <2>5. PICK r : r = [op EXCEPT !.pc = "transfer", !.num_retries = n, !.fnum = f]
      OBVIOUS
    <2>6. /\ r \in OpType /\ r.pc = "transfer" /\ r.conn = op.conn /\ r.path = op.path
          /\ r.source = op.source /\ r.fnum = f /\ r.num_retries = n
      BY <2>5 DEF OpType, Transferring
    <2>7. OpNamed(r)
      BY <1>0, <2>1, <2>6, <2>4, HandlesAssumption DEF OpNamed, Transferring, Moving, Restoring
    <2>8. ops' = [ops EXCEPT ![t] = r]
      BY <2>1, <2>3, <2>5, <2>4
    <2> QED BY <1>0, <1>1, <2>1, <2>6, <2>7, <2>8 DEF Transferring
  <1>5. CASE PurgeTarget(t)
    <2>1. PICK pc \in {"rename"} :
            op.pc = "purge" /\ op.conn # NoConn /\ ops' = [ops EXCEPT ![t].pc = pc]
      BY <1>0, <1>5 DEF PurgeTarget
    <2> QED BY <1>1, <1>3, <2>1 DEF Pcs, Transferring, Moving, Restoring
  <1>6. CASE RenameEntity(t)
    <2>1. PICK pc \in {"renamed", "moved"} :
            op.pc \in {"rename", "move"} /\ op.conn # NoConn /\ ops' = [ops EXCEPT ![t].pc = pc]
      BY <1>0, <1>6 DEF RenameEntity
    <2> QED BY <1>1, <1>3, <2>1 DEF Pcs, Transferring, Moving, Restoring
  <1>7. CASE FinalizeRename(t) \/ EndOp(t) \/ CreateRegularFile(t)
    <2>1. ops' = [ops EXCEPT ![t] = NoOp]
      BY <1>7 DEF FinalizeRename, EndOp, CreateRegularFile
    <2> QED BY <1>1, <1>2, <2>1
  <1>8. CASE RemoveEntity(t)
    <2>1. CASE ops' = [ops EXCEPT ![t] = NoOp]
      BY <1>1, <1>2, <2>1
    <2>2. CASE op.pc = "unlink" /\ ops' = [ops EXCEPT ![t].pc = "symlink", ![t].conn = NoConn]
      <3>1. PICK r : r = [op EXCEPT !.pc = "symlink", !.conn = NoConn]
        OBVIOUS
      <3>2. /\ r \in OpType /\ r.pc = "symlink" /\ r.conn = NoConn /\ r.path = op.path
            /\ r.source = op.source /\ r.fnum = op.fnum /\ r.num_retries = op.num_retries
        BY <3>1 DEF OpType
      <3>3. ops' = [ops EXCEPT ![t] = r]
        BY <1>0, <2>2, <3>1 DEF TypeOK
      <3>4. OpNamed(r)
        BY <1>0, <2>2, <3>2 DEF OpNamed, Transferring, Moving, Restoring
      <3> QED BY <1>0, <1>1, <2>2, <3>2, <3>3, <3>4 DEF Transferring
    <2> QED BY <1>0, <1>8, <2>1, <2>2 DEF RemoveEntity
  <1>9. CASE CreateSymlink(t)
    <2>1. PICK pc \in {"linked"} :
            op.pc = "symlink" /\ op.conn # NoConn /\ ops' = [ops EXCEPT ![t].pc = pc]
      BY <1>0, <1>9 DEF CreateSymlink
    <2> QED BY <1>1, <1>3, <2>1 DEF Pcs, Transferring, Moving, Restoring
  <1>10. CASE Reconnect(t)
    <2>1. CASE ops' = [ops EXCEPT ![t] = NoOp]
      BY <1>1, <1>2, <2>1
    <2>2. ASSUME NEW c \in Conns, ops' = [ops EXCEPT ![t].conn = c], op.conn = NoConn
          PROVE  \E r \in OpType :
                   /\ ops' = [ops EXCEPT ![t] = r] /\ OpNamed(r) /\ r.pc = ops[t].pc
                   /\ r.path = ops[t].path /\ r.source = ops[t].source
      <3>1. PICK r : r = [op EXCEPT !.conn = c]
        OBVIOUS
      <3>2. /\ r \in OpType /\ r.pc = op.pc /\ r.conn = c /\ r.path = op.path
            /\ r.source = op.source /\ r.fnum = op.fnum /\ r.num_retries = op.num_retries
        BY <3>1 DEF OpType
      <3>3. ops' = [ops EXCEPT ![t] = r]
        BY <1>0, <2>2, <3>1 DEF TypeOK
      <3>4. OpNamed(r)
        BY <1>0, <1>1, <2>2, <3>2, HandlesAssumption DEF OpNamed
      <3> QED BY <1>0, <3>2, <3>3, <3>4
    <2> QED BY <1>0, <1>1, <1>10, <2>1, <2>2 DEF Reconnect, FreeConns
  <1>11. CASE DeleteFinal(t)
    <2>1. /\ op.pc \in {"existing", "new"} /\ op.conn # NoConn
          /\ \/ ops' = [ops EXCEPT ![t] = NoOp]
             \/ \E pc \in {"delete", "create"} : ops' = [ops EXCEPT ![t].pc = pc]
      BY <1>0, <1>11 DEF DeleteFinal, OpNamed
    <2> QED BY <1>1, <1>2, <1>3, <2>1 DEF Pcs, Transferring, Moving, Restoring
  <1>12. CASE DeleteTmpEntity(t)
    <2>1. PICK pc \in {"forget"} :
            op.pc = "delete" /\ op.conn # NoConn /\ ops' = [ops EXCEPT ![t].pc = pc]
      BY <1>0, <1>12 DEF DeleteTmpEntity, OpNamed
    <2> QED BY <1>1, <1>3, <2>1 DEF Pcs, Transferring, Moving, Restoring
  <1>13. CASE PurgeTmpHandle(t)
    <2>1. /\ op.pc = "forget" /\ op.conn # NoConn
          /\ \/ ops' = [ops EXCEPT ![t] = NoOp]
             \/ ops' = [ops EXCEPT ![t].pc = "new"]
      BY <1>0, <1>13 DEF PurgeTmpHandle, OpNamed
    <2> QED BY <1>1, <1>2, <1>3, <2>1 DEF Pcs, Transferring, Moving, Restoring
  <1> QED BY <1>4, <1>5, <1>6, <1>7, <1>8, <1>9, <1>10, <1>11, <1>12, <1>13 DEF PcSteps

Purges(t) == PurgeTarget(t) \/ PurgeTmpHandle(t)

\* The paths of an RPC that is under way.
LEMMA OpPaths ==
  ASSUME OpsNamed, NEW t \in Threads, ops[t].pc # "idle"
  PROVE  /\ ops[t].path \in ClientPaths /\ ops[t].path \in Paths /\ SmbPath[ops[t].path] \in Paths
         /\ ops[t].source \in ClientPaths /\ ops[t].source \in Paths
         /\ SmbPath[ops[t].source] \in Paths
  <1>1. ops[t].path \in ClientPaths /\ ops[t].source \in ClientPaths
    BY DEF OpsNamed, OpNamed
  <1> QED BY <1>1, HandlesAssumption

\* The steps that change files leave the caches alone.
LEMMA FilesStep ==
  ASSUME TypeOK, OpsNamed, NEW t \in Threads, PcSteps(t), ~Purges(t)
  PROVE  /\ UNCHANGED <<fh_lru, lost>> /\ files' \subseteq Paths
         /\ opened' \in [Conns -> [Fnums -> Paths \cup {Gone, NoPath}]]
  <1>0. /\ files \subseteq Paths /\ opened \in [Conns -> [Fnums -> Paths \cup {Gone, NoPath}]]
        /\ ops[t].pc # "idle"
    BY PcStepsIs DEF TypeOK
  <1>1. SmbPath[ops[t].path] \in Paths /\ SmbPath[ops[t].source] \in Paths
    BY <1>0, OpPaths
  <1>2. ASSUME NEW p \in Paths, Try(Delete(p))
        PROVE  files' \subseteq Paths /\ opened' \in [Conns -> [Fnums -> Paths \cup {Gone, NoPath}]]
    BY <1>0, <1>2, MovedIs DEF Try, Delete
  <1>3. ASSUME NEW p \in Paths, NEW q \in Paths, NEW b, Try(Rename(q, p, b))
        PROVE  files' \subseteq Paths /\ opened' \in [Conns -> [Fnums -> Paths \cup {Gone, NoPath}]]
    BY <1>0, <1>3, MovedIs DEF Try, Rename
  <1>4. ASSUME NEW p \in Paths, Create(p) \/ UNCHANGED files
        PROVE  files' \subseteq Paths
    BY <1>0, <1>4 DEF Create
  <1>5. CASE LookupHandle(t) \/ EndOp(t) \/ Reconnect(t)
    <2>1. UNCHANGED <<fh_lru, opened, lost, files>>
      BY <1>5 DEF LookupHandle, EndOp, Reconnect
    <2> QED BY <1>0, <2>1
  <1>6. CASE CreateSymlink(t) \/ CreateRegularFile(t)
    <2>1. UNCHANGED <<fh_lru, opened, lost>> /\ (Create(SmbPath[ops[t].path]) \/ UNCHANGED files)
      BY <1>6 DEF CreateSymlink, CreateRegularFile
    <2> QED BY <1>0, <1>1, <1>4, <2>1
  <1>7. CASE RenameEntity(t) \/ FinalizeRename(t)
    <2>1. /\ UNCHANGED <<fh_lru, lost>>
          /\ \E b \in BOOLEAN : Try(Rename(SmbPath[ops[t].source], SmbPath[ops[t].path], b))
      BY <1>7 DEF RenameEntity, FinalizeRename
    <2> QED BY <1>1, <1>3, <2>1
  <1>8. CASE RemoveEntity(t) \/ DeleteTmpEntity(t) \/ DeleteFinal(t)
    <2>1. /\ UNCHANGED <<fh_lru, lost>>
          /\ Try(Delete(SmbPath[ops[t].path])) \/ Try(Delete(SmbPath[ops[t].source]))
      BY <1>8 DEF RemoveEntity, DeleteTmpEntity, DeleteFinal
    <2> QED BY <1>1, <1>2, <2>1
  <1> QED BY <1>5, <1>6, <1>7, <1>8 DEF PcSteps, Purges

\* Every step keeps the types, and RPCs keep what they have.
LEMMA NextTypes == TypeOK /\ OpsNamed /\ [Next]_vars => TypeOK' /\ OpsNamed'
  <1> SUFFICES ASSUME TypeOK, OpsNamed, [Next]_vars PROVE TypeOK' /\ OpsNamed'
    OBVIOUS
  \* Whatever a step does to the RPC of one thread.
  <1>a. ASSUME NEW t \in Threads, NEW r \in OpType, ops' = [ops EXCEPT ![t] = r], OpNamed(r)
        PROVE  ops' \in [Threads -> OpType] /\ OpsNamed'
    <2>1. ops' \in [Threads -> OpType]
      BY <1>a DEF TypeOK
    <2>2. ASSUME NEW u \in Threads PROVE OpNamed(ops'[u])
      BY <1>a DEF TypeOK, OpsNamed
    <2>3. OpsNamed'
      BY <2>2 DEF OpsNamed, OpNamed
    <2> QED BY <2>1, <2>3
  <1>0. ASSUME NEW t \in Threads PROVE ops[t] \in OpType /\ OpNamed(ops[t])
    BY DEF TypeOK, OpsNamed
  <1>1. CASE UNCHANGED vars
    BY <1>1 DEF vars, TypeOK, OpsNamed, OpNamed
  <1>2. ASSUME NEW t \in Threads, NEW p \in ClientPaths, NEW c \in Conns,
               \/ StartTransfer(t, p, c) \/ StartRemove(t, p, c) \/ StartSymlink(t, p, c)
               \/ \E q \in MovedPaths : \/ StartRename(t, p, q, c) \/ StartFinalize(t, p, q, c)
                                        \/ StartRestore(t, p, q, c)
        PROVE  TypeOK' /\ OpsNamed'
    <2>1. PICK pc \in Pcs, q \in ClientPaths :
            /\ pc \in {"lookup", "remove", "unlink", "symlink", "purge", "move", "finalize",
                       "existing", "delete"}
            /\ StartRpc(t, pc, p, q, c)
            /\ pc = "lookup" => p \in CachedPaths
            /\ pc \in {"remove", "unlink"} => p \in MovedPaths
            /\ pc \in {"purge", "move", "finalize", "existing", "delete"} => q \in MovedPaths
      BY <1>2, StartIs
    <2>2. PICK r \in OpType :
            /\ ops' = [ops EXCEPT ![t] = r] /\ r.pc = pc /\ r.conn = c /\ r.path = p
            /\ r.source = q /\ r.fnum = InvalidFnum /\ r.num_retries = 0
      BY <2>1, StartRpcIs
    <2>3. OpNamed(r)
      BY <2>1, <2>2, HandlesAssumption DEF OpNamed, Transferring, Moving, Restoring
    <2>4. UNCHANGED <<fh_lru, opened, lost, files>>
      BY <2>1 DEF StartRpc
    <2> QED BY <1>a, <2>2, <2>3, <2>4 DEF TypeOK
  <1>3. ASSUME NEW t \in Threads, PcSteps(t) PROVE TypeOK' /\ OpsNamed'
    <2>1. ops' \in [Threads -> OpType] /\ OpsNamed' /\ ops[t].pc # "idle"
      <3>1. PICK r \in OpType : ops' = [ops EXCEPT ![t] = r] /\ OpNamed(r)
        BY <1>3, PcStepsIs
      <3> QED BY <1>3, <1>a, <3>1, PcStepsIs
    <2>2. CASE Purges(t)
      <3>1. ops[t].path \in Paths /\ SmbPath[ops[t].path] \in Paths
        BY <2>1, OpPaths
      <3>2. /\ PurgeFileHandle(ops[t].path) \/ PurgeFileHandle(SmbPath[ops[t].path])
            /\ files' = files
        BY <2>2 DEF Purges, PurgeTarget, PurgeTmpHandle
      <3> QED BY <2>1, <3>1, <3>2, PurgeIs DEF TypeOK
    <2>3. CASE ~Purges(t)
      BY <1>3, <2>1, <2>3, FilesStep DEF TypeOK
    <2> QED BY <2>2, <2>3
  <1>4. ASSUME NEW t \in Threads, Transfer(t) PROVE TypeOK' /\ OpsNamed'
    <2> DEFINE c == ops[t].conn
    <2>1. /\ ops[t].pc = "transfer" /\ c \in Conns /\ UNCHANGED <<fh_lru, files>>
          /\ SmbPath[ops[t].path] \in Paths
      BY <1>4, TransferIs, OpPaths
    <2>2. PICK g \in Fnums \cup {InvalidFnum}, r \in OpType :
              /\ ops' = [ops EXCEPT ![t] = r]
              /\ \/ g = ops[t].fnum /\ UNCHANGED opened
                 \/ /\ ops[t].fnum = InvalidFnum /\ SmbPath[ops[t].path] \in files
                    /\ g \in Fnums /\ opened[c][g] = NoPath
                    /\ opened' = [opened EXCEPT ![c][g] = SmbPath[ops[t].path]]
              /\ \/ /\ r.pc \in {"transfer", "update"} /\ r.conn = c /\ r.path = ops[t].path
                    /\ r.source = ops[t].source /\ r.fnum = g
                    /\ IF r.pc = "update" THEN g # InvalidFnum ELSE r.num_retries <= MaxRetries
                    /\ UNCHANGED lost
                 \/ r = NoOp /\ g = InvalidFnum /\ UNCHANGED lost
                 \/ /\ r = NoOp
                    /\ lost' = [lost EXCEPT ![c] = @ \cup {f \in {g} \cap Fnums :
                                  opened'[c][f] # NoPath /\ ops[t].path \notin Cached(c)}]
      BY <1>4, TransferIs
    <2>3. OpNamed(r)
      BY <1>0, <2>1, <2>2, NoOpIs DEF OpNamed, Transferring, Moving, Restoring
    <2>4. opened' \in [Conns -> [Fnums -> Paths \cup {Gone, NoPath}]]
      <3>1. CASE opened' = opened
        BY <3>1 DEF TypeOK
      <3>2. CASE g \in Fnums /\ opened' = [opened EXCEPT ![c][g] = SmbPath[ops[t].path]]
        <4>1. PICK x \in Paths : x = SmbPath[ops[t].path]
          BY <2>1
        <4>2. PICK e \in [Fnums -> Paths \cup {Gone, NoPath}] : e = [opened[c] EXCEPT ![g] = x]
          BY <2>1, <3>2 DEF TypeOK
        <4>3. opened' = [opened EXCEPT ![c] = e]
          BY <3>2, <4>1, <4>2
        <4> QED BY <4>3 DEF TypeOK
      <3> QED BY <2>2, <3>1, <3>2
    <2>5. lost' \in [Conns -> SUBSET Fnums]
      <3>1. \A S \in SUBSET Fnums : [lost EXCEPT ![c] = @ \cup S] \in [Conns -> SUBSET Fnums]
        BY <2>1 DEF TypeOK
      <3>2. lost' = lost \/ \E S \in SUBSET Fnums : lost' = [lost EXCEPT ![c] = @ \cup S]
        BY <2>2
      <3> QED BY <3>1, <3>2 DEF TypeOK
    <2> QED BY <1>a, <2>1, <2>2, <2>3, <2>4, <2>5 DEF TypeOK
  <1>5. ASSUME NEW t \in Threads, ConnectionLost(t) PROVE TypeOK' /\ OpsNamed'
    <2>1. /\ ops[t].conn \in Conns /\ ShutdownSmbConnection(ops[t].conn)
          /\ ops' = [ops EXCEPT ![t] = NoOp] /\ files' = files
      BY <1>0, <1>5, OpFields DEF ConnectionLost, OpNamed
    <2> QED BY <1>a, <2>1, ShutdownIs, NoOpIs DEF TypeOK
  <1>6. ASSUME NEW t \in Threads, UpdateFileHandle(t) PROVE TypeOK' /\ OpsNamed'
    <2>1. /\ ops[t].pc = "update" /\ files' = files /\ fh_lru' \in [Conns -> Seq(HandleType)]
          /\ \A d \in Conns : Len(fh_lru'[d]) <= MaxHandles
          /\ opened' \in [Conns -> [Fnums -> Paths \cup {Gone, NoPath}]]
          /\ lost' \in [Conns -> SUBSET Fnums]
      BY <1>6, UpdateIs
    <2>2. PICK r \in OpType :
            /\ ops' = [ops EXCEPT ![t] = r]
            /\ \/ r = NoOp
               \/ /\ r.pc = "lookup" /\ r.conn = ops[t].conn /\ r.path = ops[t].path
                  /\ r.source = ops[t].source /\ r.fnum = InvalidFnum
                  /\ r.num_retries <= MaxRetries
      BY <1>6, UpdateIs
    <2>3. OpNamed(r)
      BY <1>0, <2>1, <2>2, NoOpIs DEF OpNamed, Transferring, Moving, Restoring
    <2> QED BY <1>a, <2>1, <2>2, <2>3 DEF TypeOK
  <1>7. ASSUME NEW t \in Threads, RetryOp(t) PROVE TypeOK' /\ OpsNamed'
    <2>1. /\ ops[t].pc \in DOMAIN TryFrom /\ ops[t].conn \in Conns /\ files' = files
          /\ ShutdownSmbConnection(ops[t].conn)
      BY <1>7, RetryIs
    <2>2. PICK r \in OpType :
            /\ ops' = [ops EXCEPT ![t] = r]
            /\ \/ r = NoOp
               \/ /\ r.pc = TryFrom[ops[t].pc] /\ r.conn = NoConn /\ r.path = ops[t].path
                  /\ r.source = ops[t].source /\ r.fnum = ops[t].fnum
                  /\ r.num_retries <= MaxRetries
      BY <1>7, RetryIs
    <2>3. OpNamed(r)
      BY <1>0, <2>1, <2>2, NoOpIs DEF OpNamed, TryFrom, Transferring, Moving, Restoring
    <2> QED BY <1>a, <2>1, <2>2, <2>3, ShutdownIs DEF TypeOK
  <1> QED BY <1>1, <1>2, <1>3, <1>4, <1>5, <1>6, <1>7 DEF Next, PcSteps

\* The state of the handles has its types, whatever the clients do.
THEOREM TypeCorrect == Spec => []TypeOK
  <1>1. Init => TypeOK /\ OpsNamed
    <2>1. <<>> \in Seq(HandleType) /\ Len(<<>>) = 0 /\ 0 <= MaxHandles
      BY HandlesAssumption
    <2>2. {SmbPath[p] : p \in ClientPaths} \subseteq Paths
      BY HandlesAssumption
    <2>3. Init => TypeOK
      BY <2>1, <2>2, NoOpIs DEF Init, TypeOK
    <2>4. Init => OpsNamed
      BY NoOpIs DEF Init, OpsNamed
    <2> QED BY <2>3, <2>4
  <1> QED BY <1>1, NextTypes, PTL DEF Spec

-----------------------------------------------------------------------------
(***************************************************************************)
(* The invariant, with careful clients.                                    *)
(***************************************************************************)
\* The paths of clients, and what no handle or connection is.
LEMMA PathsAre ==
  ASSUME CarefulClients
  PROVE  /\ ClientPaths \subseteq Paths /\ \A p \in ClientPaths : SmbPath[p] = p
         /\ CachedPaths \subseteq ClientPaths /\ MovedPaths \subseteq ClientPaths
         /\ CachedPaths \cap MovedPaths = {} /\ NoConn \notin Conns /\ InvalidFnum \notin Fnums
         /\ NoPath \notin Paths /\ Gone \notin Paths /\ Gone # NoPath
  BY HandlesAssumption DEF CarefulClients, Fnums, InvalidFnum

LEMMA OpBasics ==
  ASSUME CarefulClients, TypeOK, HandlesInv, NEW t \in Threads
  PROVE  /\ ops[t] \in OpType /\ OpNamed(ops[t]) /\ ops[t].conn \in Conns \cup {NoConn}
         /\ ops[t].fnum \in Fnums \cup {InvalidFnum}
         /\ ops[t].pc # "idle" => /\ ops[t].path \in ClientPaths /\ ops[t].path \in Paths
                                  /\ SmbPath[ops[t].path] = ops[t].path
                                  /\ ops[t].source \in ClientPaths /\ ops[t].source \in Paths
                                  /\ SmbPath[ops[t].source] = ops[t].source
         /\ ops[t].pc = "idle" => ops[t].conn = NoConn /\ ops[t].fnum = InvalidFnum
         /\ ops[t].pc \notin {"idle", "purge", "move", "symlink"} => ops[t].conn \in Conns
         /\ ops[t].pc \in Transferring => ops[t].conn \in Conns /\ ops[t].path \in CachedPaths
         /\ ops[t].fnum # InvalidFnum => /\ ops[t].pc \in {"transfer", "update"}
                                         /\ ops[t].pc \in Transferring
  <1>1. ops[t] \in OpType /\ OpNamed(ops[t])
    BY DEF TypeOK, HandlesInv, OpsNamed
  <1>2. ops[t].conn \in Conns \cup {NoConn} /\ ops[t].fnum \in Fnums \cup {InvalidFnum}
    BY <1>1, OpFields
  <1> QED BY <1>1, <1>2, PathsAre, NoOpIs DEF OpNamed, Transferring

LEMMA HandleBasics ==
  ASSUME TypeOK, HandlesInv, NEW c \in Conns
  PROVE  /\ fh_lru[c] \in Seq(HandleType) /\ Sound(fh_lru[c])
         /\ \A h \in ToSet(fh_lru[c]) : h \in HandleType /\ h.path \in Paths /\ h.fnum \in Fnums
         /\ \A g, h \in ToSet(fh_lru[c]) : g.path = h.path \/ g.fnum = h.fnum => g = h
         /\ \A f \in Fnums : opened[c][f] \in Paths \cup {Gone, NoPath}
         /\ lost[c] \subseteq Fnums
  <1>1. /\ fh_lru[c] \in Seq(HandleType) /\ \A f \in Fnums : opened[c][f] \in Paths \cup {Gone, NoPath}
        /\ lost[c] \subseteq Fnums
    BY DEF TypeOK
  <1>2. Sound(fh_lru[c])
    BY DEF HandlesInv
  <1>3. \A h \in ToSet(fh_lru[c]) : h \in HandleType
    BY <1>1, LenProperties DEF ToSet
  <1>4. \A h \in HandleType : h.path \in Paths /\ h.fnum \in Fnums
    BY DEF HandleType
  <1> QED BY <1>1, <1>2, <1>3, <1>4, SoundSet

\* A cached handle is open on its path's file, or the file is gone.
LEMMA CachedBasics ==
  ASSUME CarefulClients, TypeOK, HandlesInv, NEW c \in Conns, NEW h \in ToSet(fh_lru[c])
  PROVE  /\ h.path \in CachedPaths /\ h.path \in Paths /\ SmbPath[h.path] = h.path
         /\ h.fnum \in Fnums /\ h.fnum \notin lost[c] /\ opened[c][h.fnum] # NoPath
         /\ opened[c][h.fnum] \in {h.path, Gone}
  <1>1. /\ h.path \in CachedPaths /\ h.fnum \notin lost[c]
        /\ opened[c][h.fnum] \in {SmbPath[h.path], Gone}
    BY DEF HandlesInv, CachedIsOpen, CachedHandleValid
  <1>2. h.path \in Paths /\ h.fnum \in Fnums
    BY HandleBasics
  <1> QED BY <1>1, <1>2, PathsAre

\* Two RPCs have different connections, and different paths unless both are transfers.
LEMMA Alone ==
  ASSUME CarefulClients, TypeOK, HandlesInv, NEW t \in Threads, NEW u \in Threads, t # u
  PROVE  /\ ops[u].conn \in Conns => ops[t].conn # ops[u].conn
         /\ ops[t].pc # "idle" /\ ops[u].pc # "idle" /\ ops[t].path = ops[u].path =>
              ops[t].pc \in Transferring /\ ops[u].pc \in Transferring
  <1>1. OpsAlone
    BY DEF HandlesInv
  <1>2. ops[u].conn \in Conns => ops[t].conn # ops[u].conn
    BY <1>1, PathsAre DEF OpsAlone
  <1>3. ASSUME ops[t].pc # "idle", ops[u].pc # "idle", ops[t].path = ops[u].path
        PROVE  ops[t].pc \in Transferring /\ ops[u].pc \in Transferring
    <2>1. FilesOf(t) \cap FilesOf(u) # {} /\ FilesOf(u) \cap FilesOf(t) # {}
      BY <1>3 DEF FilesOf
    <2> QED BY <1>1, <2>1 DEF OpsAlone
  <1> QED BY <1>2, <1>3

\* RPCs keep out of each other's way if the one that changes does.
LEMMA OpsAloneStep ==
  ASSUME TypeOK, OpsAlone, NEW t \in Threads, NEW r \in OpType, ops' = [ops EXCEPT ![t] = r],
         r.conn # NoConn => \A u \in Threads : u # t => ops[u].conn # r.conn,
         r.pc # "idle" => \A u \in Threads :
           u # t /\ {SmbPath[r.path], SmbPath[r.source]} \cap FilesOf(u) # {} =>
             r.pc \in Transferring /\ ops[u].pc \in Transferring
  PROVE  OpsAlone'
  <1>1. ops'[t] = r /\ \A u \in Threads : u # t => ops'[u] = ops[u]
    BY DEF TypeOK
  <1>2. ASSUME NEW u \in Threads, NEW v \in Threads, u # v, ops'[u].conn = ops'[v].conn
        PROVE  ops'[u].conn = NoConn
    BY <1>1, <1>2 DEF OpsAlone
  <1>3. /\ FilesOf(t)' = IF r.pc = "idle" THEN {} ELSE {SmbPath[r.path], SmbPath[r.source]}
        /\ \A u \in Threads : u # t => FilesOf(u)' = FilesOf(u)
    BY <1>1 DEF FilesOf
  <1>4. ASSUME NEW u \in Threads, NEW v \in Threads, u # v, FilesOf(u)' \cap FilesOf(v)' # {}
        PROVE  ops'[u].pc \in Transferring
    <2>1. CASE u # t /\ v # t
      BY <1>1, <1>3, <1>4, <2>1 DEF OpsAlone
    <2>2. CASE u = t
      <3>1. r.pc # "idle" /\ {SmbPath[r.path], SmbPath[r.source]} \cap FilesOf(v) # {}
        BY <1>3, <1>4, <2>2
      <3> QED BY <1>1, <1>4, <2>2, <3>1
    <2>3. CASE v = t
      <3>1. r.pc # "idle" /\ {SmbPath[r.path], SmbPath[r.source]} \cap FilesOf(u) # {}
        BY <1>3, <1>4, <2>3
      <3> QED BY <1>1, <1>4, <2>3, <3>1
    <2> QED BY <2>1, <2>2, <2>3
  <1>5. ASSUME NEW u \in Threads, NEW v \in Threads
        PROVE  /\ u # v /\ ops'[u].conn = ops'[v].conn => ops'[u].conn = NoConn
               /\ u # v /\ FilesOf(u)' \cap FilesOf(v)' # {} => ops'[u].pc \in Transferring
    BY <1>2, <1>4
  <1> QED BY <1>5 DEF OpsAlone

\* An RPC that goes on with its paths, or returns, keeps out of the way.
LEMMA OpsAloneKept ==
  ASSUME TypeOK, OpsAlone, NEW t \in Threads, NEW r \in OpType, ops' = [ops EXCEPT ![t] = r],
         \/ r = NoOp
         \/ /\ ops[t].pc # "idle" /\ r.path = ops[t].path /\ r.source = ops[t].source
            /\ r.conn \in {ops[t].conn, NoConn} \cup FreeConns
            /\ ops[t].pc \in Transferring => r.pc \in Transferring
  PROVE  OpsAlone'
  <1>1. CASE r = NoOp
    BY <1>1, OpsAloneStep, NoOpIs
  <1>2. CASE r # NoOp
    <2>1. r.conn # NoConn => \A u \in Threads : u # t => ops[u].conn # r.conn
      BY <1>2 DEF OpsAlone, FreeConns
    <2>2. ASSUME NEW u \in Threads, u # t, {SmbPath[r.path], SmbPath[r.source]} \cap FilesOf(u) # {}
          PROVE  r.pc \in Transferring /\ ops[u].pc \in Transferring
      <3>1. FilesOf(t) \cap FilesOf(u) # {} /\ FilesOf(u) \cap FilesOf(t) # {}
        BY <1>2, <2>2 DEF FilesOf
      <3> QED BY <1>2, <2>2, <3>1 DEF OpsAlone
    <2> QED BY <2>1, <2>2, OpsAloneStep
  <1> QED BY <1>1, <1>2

\* An RPC that begins keeps out of the way.
LEMMA OpsAloneStarts ==
  ASSUME CarefulClients, TypeOK, OpsAlone, NEW t \in Threads, NEW p \in ClientPaths,
         NEW q \in ClientPaths, NEW c \in Conns, NEW pc \in Pcs, StartRpc(t, pc, p, q, c)
  PROVE  OpsAlone'
  <1>1. PICK r \in OpType : /\ ops' = [ops EXCEPT ![t] = r] /\ r.pc = pc
                            /\ r.conn = c /\ r.path = p /\ r.source = q
    BY StartRpcIs
  <1>2. \A u \in Threads : ops[u].conn # c
    BY DEF StartRpc, FreeConns
  <1>3. ASSUME NEW u \in Threads, {SmbPath[p], SmbPath[q]} \cap FilesOf(u) # {}
        PROVE  pc \in Transferring /\ ops[u].pc \in Transferring
    BY <1>3 DEF StartRpc, CarefulClients
  <1> QED BY <1>1, <1>2, <1>3, OpsAloneStep

\* What a step that makes r of the RPC of t does to handles, if it closes none: it may open one of
\* its own and lose one that is not cached.
Quiet(t, r) ==
  \A d \in Conns, f \in Fnums :
    /\ opened'[d][f] # opened[d][f] => opened[d][f] = NoPath
    /\ f \in lost[d] => f \in lost'[d]
    /\ f \in lost'[d] => f \in lost[d] \/ /\ d = ops[t].conn
                                          /\ \A h \in ToSet(fh_lru[d]) : h.fnum # f
    /\ opened'[d][f] # NoPath
         /\ (opened[d][f] = NoPath \/ (ops[t].conn = d /\ ops[t].fnum = f)) =>
              \/ \E h \in ToSet(fh_lru[d]) : h.fnum = f
              \/ r.conn = d /\ r.fnum = f
              \/ f \in lost'[d]

\* Such a step, with the caches as they were.
LEMMA QuietStep ==
  ASSUME CarefulClients, TypeOK, HandlesInv, OpsNamed', OpsAlone', OpenIsFile', LostIsOpen',
         NEW t \in Threads, NEW r \in OpType, ops' = [ops EXCEPT ![t] = r], fh_lru' = fh_lru,
         ops[t].pc # "forget", OwnHandle(t)',
         r.pc \in Transferring /\ r.fnum # InvalidFnum => opened'[r.conn][r.fnum] = SmbPath[r.path],
         r.pc \in {"rename", "new", "create"} =>
           \A d \in Conns : \A h \in ToSet(fh_lru[d]) : r.path # h.path,
         Quiet(t, r)
  PROVE  HandlesInv'
  <1>1. ops'[t] = r /\ \A u \in Threads : u # t => ops'[u] = ops[u]
    BY DEF TypeOK
  <1>2. \A c \in Conns : Sound(fh_lru'[c])
    BY DEF HandlesInv
  <1>3. CachedIsOpen'
    <2> SUFFICES ASSUME NEW c \in Conns, NEW h \in ToSet(fh_lru[c])
                 PROVE  /\ h.path \in CachedPaths /\ h.fnum \notin lost'[c]
                        /\ \A u \in Threads : ops'[u].pc \in {"rename", "new", "create"} =>
                                                ops'[u].path # h.path
      BY DEF CachedIsOpen
    <2>1. h.path \in CachedPaths /\ h.fnum \notin lost'[c]
      BY CachedBasics DEF Quiet
    <2>2. \A u \in Threads : ops[u].pc \in {"rename", "new", "create"} => ops[u].path # h.path
      BY DEF HandlesInv, CachedIsOpen
    <2> QED BY <1>1, <2>1, <2>2
  <1>4. CachedHandleValid'
    <2> SUFFICES ASSUME NEW c \in Conns, NEW h \in ToSet(fh_lru[c])
                 PROVE  \/ opened'[c][h.fnum] = SmbPath[h.path]
                        \/ /\ opened'[c][h.fnum] = Gone
                           /\ \E u \in Threads : ops'[u].pc = "forget" /\ SmbPath[ops'[u].path] = SmbPath[h.path]
      BY DEF CachedHandleValid
    <2>1. opened'[c][h.fnum] = opened[c][h.fnum]
      BY CachedBasics DEF Quiet
    <2>2. \/ opened[c][h.fnum] = SmbPath[h.path]
          \/ /\ opened[c][h.fnum] = Gone
             /\ \E u \in Threads : ops[u].pc = "forget" /\ SmbPath[ops[u].path] = SmbPath[h.path]
      BY DEF HandlesInv, CachedHandleValid
    <2> QED BY <1>1, <2>1, <2>2
  <1>5. TransfersOwnFile'
    <2> SUFFICES ASSUME NEW u \in Threads, u # t, ops[u].pc \in Transferring,
                        ops[u].fnum # InvalidFnum
                 PROVE  opened'[ops[u].conn][ops[u].fnum] = SmbPath[ops[u].path]
      BY <1>1 DEF TransfersOwnFile
    <2>1. opened[ops[u].conn][ops[u].fnum] = SmbPath[ops[u].path]
      BY DEF HandlesInv, TransfersOwnFile
    <2>2. ops[u].conn \in Conns /\ ops[u].fnum \in Fnums /\ SmbPath[ops[u].path] \in Paths
      BY OpBasics DEF Transferring
    <2>3. SmbPath[ops[u].path] # NoPath
      BY <2>2, PathsAre
    <2> QED BY <2>1, <2>2, <2>3 DEF Quiet
  <1>6. NoLeakedHandle'
    <2> SUFFICES ASSUME NEW d \in Conns, NEW f \in Fnums, opened'[d][f] # NoPath
                 PROVE  \/ \E h \in ToSet(fh_lru[d]) : h.fnum = f
                        \/ \E u \in Threads : ops'[u].conn = d /\ ops'[u].fnum = f
                        \/ f \in lost'[d]
      BY DEF NoLeakedHandle
    <2>1. CASE opened[d][f] = NoPath \/ (ops[t].conn = d /\ ops[t].fnum = f)
      BY <1>1, <2>1 DEF Quiet
    <2>2. CASE ~(opened[d][f] = NoPath \/ (ops[t].conn = d /\ ops[t].fnum = f))
      <3>1. opened[d][f] # NoPath => \/ \E h \in ToSet(fh_lru[d]) : h.fnum = f
                                     \/ \E u \in Threads : ops[u].conn = d /\ ops[u].fnum = f
                                     \/ f \in lost[d]
        BY DEF HandlesInv, NoLeakedHandle
      <3>2. CASE f \in lost[d]
        BY <3>2 DEF Quiet
      <3>3. ASSUME NEW u \in Threads, ops[u].conn = d, ops[u].fnum = f
            PROVE  \E v \in Threads : ops'[v].conn = d /\ ops'[v].fnum = f
        <4>1. u # t
          BY <2>2, <3>3
        <4> QED BY <1>1, <3>3, <4>1
      <3> QED BY <2>2, <3>1, <3>2, <3>3
    <2> QED BY <2>1, <2>2
  <1>7. ASSUME NEW u \in Threads PROVE OwnHandle(u)'
    <2>1. CASE u = t
      BY <2>1
    <2>2. CASE u # t
      <3>1. OwnHandle(u) /\ ops'[u] = ops[u]
        BY <1>1, <2>2 DEF HandlesInv
      <3>2. ASSUME ops[u].fnum # InvalidFnum PROVE ops[u].fnum \notin lost'[ops[u].conn]
        <4>1. ops[u].conn \in Conns /\ ops[u].fnum \in Fnums
          BY <3>2, OpBasics
        <4>2. ops[t].conn # ops[u].conn /\ ops[u].fnum \notin lost[ops[u].conn]
          BY <2>2, <3>1, <3>2, <4>1, Alone DEF OwnHandle
        <4> QED BY <4>1, <4>2 DEF Quiet
      <3> QED BY <3>1, <3>2 DEF OwnHandle
    <2> QED BY <2>1, <2>2
  <1> QED BY <1>2, <1>3, <1>4, <1>5, <1>6, <1>7 DEF HandlesInv

\* An RPC that has no handle after a step and is not transferring.
LEMMA NoHandle ==
  ASSUME NEW t \in Threads, ops'[t].pc \notin {"transfer", "update"}, ops'[t].fnum = InvalidFnum
  PROVE  OwnHandle(t)'
  BY DEF OwnHandle

\* A step after which the RPC has no handle, if it had one that is cached or closed before, with
\* files created, moved or removed on which none is open.
LEMMA FilesQuiet ==
  ASSUME CarefulClients, TypeOK, HandlesInv, OpsNamed', OpsAlone',
         NEW t \in Threads, NEW r \in OpType, ops' = [ops EXCEPT ![t] = r],
         UNCHANGED <<fh_lru, opened, lost>>, OpenIsFile', ops[t].pc # "forget",
         ops[t].fnum = InvalidFnum, r.fnum = InvalidFnum, r.pc \notin {"transfer", "update"},
         r.pc \in {"rename", "new", "create"} => ops[t].pc = "new" /\ r.path = ops[t].path
  PROVE  HandlesInv'
  <1>1. ops'[t] = r
    BY DEF TypeOK
  <1>2. OwnHandle(t)'
    BY <1>1, NoHandle
  <1>3. LostIsOpen'
    BY DEF HandlesInv, LostIsOpen
  <1>4. r.pc \in {"rename", "new", "create"} =>
          \A d \in Conns : \A h \in ToSet(fh_lru[d]) : r.path # h.path
    BY DEF HandlesInv, CachedIsOpen
  <1>5. InvalidFnum \notin Fnums
    BY PathsAre
  <1> QED BY <1>2, <1>3, <1>4, <1>5, QuietStep DEF Quiet

\* What moves away, or is removed without a purge, has no handle open.
LEMMA MovedQuiet ==
  ASSUME CarefulClients, TypeOK, HandlesInv, NEW q \in MovedPaths, NEW x \in Paths \cup {Gone},
         opened' = Moved(q, x), files \ {q} \subseteq files'
  PROVE  opened' = opened /\ OpenIsFile'
  <1>1. ASSUME NEW c \in Conns, NEW f \in Fnums PROVE opened[c][f] # q
    BY PathsAre DEF HandlesInv, OpenIsFile
  <1>2. opened' = opened
    BY <1>1 DEF Moved, TypeOK
  <1>3. OpenIsFile'
    BY <1>1, <1>2 DEF HandlesInv, OpenIsFile
  <1> QED BY <1>2, <1>3

\* The steps of RPCs that rename, remove and create files, but that of DeleteTmpEntity.
LEMMA FileSteps ==
  ASSUME CarefulClients, TypeOK, HandlesInv, OpsNamed', OpsAlone', NEW t \in Threads,
         NEW r \in OpType, ops' = [ops EXCEPT ![t] = r],
         \/ RenameEntity(t) \/ FinalizeRename(t) \/ RemoveEntity(t) \/ CreateSymlink(t)
         \/ DeleteFinal(t) \/ CreateRegularFile(t) \/ EndOp(t) \/ Reconnect(t)
  PROVE  HandlesInv'
  <1>0. /\ OpNamed(ops[t]) /\ OpNamed(r) /\ ops'[t] = r /\ ops[t] \in OpType
    <2>1. ops'[t] = r
      BY DEF TypeOK
    <2> QED BY <2>1, OpBasics DEF OpsNamed, OpNamed
  <1>1. /\ ops[t].pc \notin {"idle", "lookup", "transfer", "update", "forget"}
        /\ UNCHANGED <<fh_lru, lost>>
    <2>1. CASE Reconnect(t)
      BY <1>0, <2>1 DEF Reconnect, OpNamed
    <2>2. CASE ~Reconnect(t)
      BY <2>2 DEF RenameEntity, FinalizeRename, RemoveEntity, CreateSymlink,
                  DeleteFinal, CreateRegularFile, EndOp, TryFrom
    <2> QED BY <2>1, <2>2
  <1>2. ops[t].fnum = InvalidFnum
    BY <1>0, <1>1 DEF OpNamed
  <1>3. /\ r.pc \notin {"transfer", "update", "rename", "new"}
        /\ r.pc = "create" => ops[t].pc = "new" /\ r.path = ops[t].path
    <2>1. PICK op \in OpType : op = ops[t]
      BY <1>0
    <2>2. CASE ops' = [ops EXCEPT ![t] = NoOp]
      <3>1. r = NoOp
        BY <1>0, <2>2 DEF TypeOK
      <3> QED BY <3>1, NoOpIs
    <2>3. ASSUME NEW pc \in {"renamed", "moved", "linked", "delete", "create"},
                 ops' = [ops EXCEPT ![t].pc = pc], pc = "create" => ops[t].pc = "new"
          PROVE  /\ r.pc \notin {"transfer", "update", "rename", "new"}
                 /\ r.pc = "create" => ops[t].pc = "new" /\ r.path = ops[t].path
      <3>1. PICK x \in Pcs : x = pc
        BY <2>3 DEF Pcs, Transferring, Moving, Restoring
      <3>2. PICK q \in OpType : ops' = [ops EXCEPT ![t] = q] /\ q.pc = pc /\ q.path = ops[t].path
        <4>1. ops' = [ops EXCEPT ![t].pc = x]
          BY <2>3, <3>1
        <4>2. \E q \in OpType :
                /\ ops' = [ops EXCEPT ![t] = q] /\ q.pc = x /\ q.conn = ops[t].conn
                /\ q.path = ops[t].path /\ q.source = ops[t].source /\ q.fnum = ops[t].fnum
                /\ q.num_retries = ops[t].num_retries
          BY <4>1, PcStep
        <4> QED BY <3>1, <4>2
      <3>3. r = q
        BY <1>0, <3>2 DEF TypeOK
      <3> QED BY <2>3, <3>2, <3>3
    <2>4. CASE ops' = [ops EXCEPT ![t].pc = "symlink", ![t].conn = NoConn]
      <3>1. r = [op EXCEPT !.pc = "symlink", !.conn = NoConn]
        BY <1>0, <2>1, <2>4 DEF TypeOK
      <3>2. r.pc = "symlink"
        BY <3>1 DEF OpType
      <3> QED BY <3>2
    <2>5. CASE Reconnect(t)
      <3>1. ASSUME NEW c \in FreeConns, ops' = [ops EXCEPT ![t].conn = c] PROVE r.pc = ops[t].pc
        <4>1. r = [op EXCEPT !.conn = c]
          BY <1>0, <2>1, <3>1 DEF TypeOK
        <4> QED BY <2>1, <4>1 DEF OpType
      <3>2. ops[t].pc \in {"purge", "move", "symlink"}
        BY <1>0, <1>1, <2>5 DEF Reconnect, OpNamed
      <3> QED BY <2>2, <2>5, <3>1, <3>2 DEF Reconnect
    <2>6. CASE RenameEntity(t)
      <3>1. \E pc \in {"renamed", "moved"} : ops' = [ops EXCEPT ![t].pc = pc]
        BY <2>6 DEF RenameEntity
      <3> QED BY <2>3, <3>1
    <2>7. CASE CreateSymlink(t)
      <3>1. \E pc \in {"linked"} : ops' = [ops EXCEPT ![t].pc = pc]
        BY <2>7 DEF CreateSymlink
      <3> QED BY <2>3, <3>1
    <2>8. CASE DeleteFinal(t)
      <3>1. \/ ops' = [ops EXCEPT ![t] = NoOp]
            \/ \E pc \in {"delete", "create"} : /\ ops' = [ops EXCEPT ![t].pc = pc]
                                                /\ pc = "create" => ops[t].pc = "new"
        BY <2>8 DEF DeleteFinal
      <3> QED BY <2>2, <2>3, <3>1
    <2>9. CASE RemoveEntity(t)
      BY <2>2, <2>4, <2>9 DEF RemoveEntity
    <2>10. CASE FinalizeRename(t) \/ CreateRegularFile(t) \/ EndOp(t)
      BY <2>2, <2>10 DEF FinalizeRename, CreateRegularFile, EndOp
    <2> QED BY <2>5, <2>6, <2>7, <2>8, <2>9, <2>10
  <1>4. opened' = opened /\ OpenIsFile'
    <2>0. ASSUME opened' = opened, files \subseteq files' PROVE OpenIsFile'
      BY <2>0 DEF HandlesInv, OpenIsFile
    <2>1. /\ ops[t].path \in Paths /\ SmbPath[ops[t].path] = ops[t].path
          /\ SmbPath[ops[t].source] = ops[t].source
      BY <1>1, OpBasics
    <2>2. CASE RenameEntity(t) \/ FinalizeRename(t)
      <3>1. ops[t].source \in MovedPaths
        BY <1>0, <2>2 DEF RenameEntity, FinalizeRename, OpNamed, Moving
      <3>2. PICK b \in BOOLEAN : Try(Rename(ops[t].source, ops[t].path, b))
        BY <2>1, <2>2 DEF RenameEntity, FinalizeRename
      <3>3. CASE UNCHANGED <<files, opened>>
        BY <2>0, <3>3
      <3>4. CASE Rename(ops[t].source, ops[t].path, b)
        BY <2>1, <3>1, <3>4, MovedQuiet DEF Rename
      <3> QED BY <3>2, <3>3, <3>4 DEF Try
    <2>3. CASE RemoveEntity(t) \/ DeleteFinal(t)
      <3>1. PICK q \in MovedPaths : Try(Delete(q))
        BY <1>0, <2>1, <2>3 DEF RemoveEntity, DeleteFinal, OpNamed, Restoring
      <3>2. CASE UNCHANGED <<files, opened>>
        BY <2>0, <3>2
      <3>3. CASE Delete(q)
        BY <3>3, MovedQuiet DEF Delete
      <3> QED BY <3>1, <3>2, <3>3 DEF Try
    <2>4. CASE CreateSymlink(t) \/ CreateRegularFile(t) \/ EndOp(t) \/ Reconnect(t)
      <3>1. opened' = opened /\ files \subseteq files'
        BY <2>4 DEF CreateSymlink, CreateRegularFile, EndOp, Reconnect, Create
      <3> QED BY <2>0, <3>1
    <2> QED BY <2>2, <2>3, <2>4
  <1>5. r.fnum = InvalidFnum
    BY <1>0, <1>3 DEF OpNamed
  <1> QED BY <1>1, <1>2, <1>3, <1>4, <1>5, FilesQuiet

\* A client starts an RPC.
LEMMA StartInv ==
  ASSUME CarefulClients, TypeOK, HandlesInv, OpsNamed', NEW t \in Threads, NEW p \in ClientPaths,
         NEW c \in Conns,
         \/ StartTransfer(t, p, c) \/ StartRemove(t, p, c) \/ StartSymlink(t, p, c)
         \/ \E q \in MovedPaths : \/ StartRename(t, p, q, c) \/ StartFinalize(t, p, q, c)
                                  \/ StartRestore(t, p, q, c)
  PROVE  HandlesInv'
  <1>1. PICK pc \in Pcs, q \in ClientPaths :
          /\ pc \in {"lookup", "remove", "unlink", "symlink", "purge", "move", "finalize",
                     "existing", "delete"}
          /\ StartRpc(t, pc, p, q, c)
    BY StartIs
  <1>2. PICK r \in OpType : /\ ops' = [ops EXCEPT ![t] = r] /\ r.pc = pc /\ r.conn = c /\ r.path = p
                            /\ r.source = q /\ r.fnum = InvalidFnum /\ r.num_retries = 0
    BY <1>1, StartRpcIs
  <1>3. ops[t].pc = "idle" /\ UNCHANGED <<fh_lru, opened, lost, files>>
    BY <1>1 DEF StartRpc
  <1>4. ops[t].fnum = InvalidFnum
    BY <1>3, OpBasics
  <1>5. OpsAlone'
    BY <1>1, OpsAloneStarts DEF HandlesInv
  <1>6. OpenIsFile'
    BY <1>3 DEF HandlesInv, OpenIsFile
  <1> QED BY <1>1, <1>2, <1>3, <1>4, <1>5, <1>6, FilesQuiet

\* The lookup finds the handle of the path, which is open on the file.
LEMMA LookupInv ==
  ASSUME CarefulClients, TypeOK, HandlesInv, OpsNamed', OpsAlone', NEW t \in Threads,
         LookupHandle(t)
  PROVE  HandlesInv'
  <1>1. PICK op \in OpType : op = ops[t] /\ op.pc = "lookup"
    BY DEF LookupHandle, TypeOK
  <1>2. PICK c \in Conns : c = op.conn
    BY <1>1, OpBasics
  <1>3. PICK p \in CachedPaths : p = op.path /\ p \in Paths /\ SmbPath[p] = p
    BY <1>1, OpBasics DEF Transferring
  <1>4. PICK f \in Fnums \cup {InvalidFnum} : f = FnumOf(c, p)
    BY <1>3, FnumOfIs
  <1>5. PICK n \in 0..(MaxRetries + 1) : n = 0
    BY HandlesAssumption
  <1>6. PICK r : r = [op EXCEPT !.pc = "transfer", !.num_retries = n, !.fnum = f]
    OBVIOUS
  <1>7. r \in OpType /\ r.pc = "transfer" /\ r.conn = c /\ r.path = p /\ r.fnum = f
    BY <1>2, <1>3, <1>6 DEF OpType, Transferring
  <1>8. ops' = [ops EXCEPT ![t] = r] /\ UNCHANGED <<fh_lru, opened, lost, files>>
    BY <1>1, <1>2, <1>3, <1>4, <1>5, <1>6 DEF LookupHandle
  <1>9. ops'[t] = r
    BY <1>7, <1>8 DEF TypeOK
  <1>10. /\ \A h \in ToSet(fh_lru[c]) : h.path = p <=> h.fnum = f
         /\ f # InvalidFnum => f \notin lost[c] /\ opened[c][f] = p
    <2>1. CASE p \in Cached(c)
      <3>1. PICK g \in ToSet(fh_lru[c]) : g.path = p /\ g.fnum = f
        BY <1>3, <1>4, <2>1, FnumOfIs
      <3>2. \A h \in ToSet(fh_lru[c]) : h.path = p <=> h.fnum = f
        BY <3>1, HandleBasics
      <3>3. f \notin lost[c] /\ opened[c][f] \in {p, Gone}
        BY <3>1, CachedBasics
      <3>4. opened[c][f] # Gone
        <4> SUFFICES ASSUME opened[c][f] = Gone PROVE FALSE
          OBVIOUS
        <4>1. Gone # SmbPath[g.path]
          BY <1>3, <3>1, PathsAre
        <4>2. PICK u \in Threads : ops[u].pc = "forget" /\ SmbPath[ops[u].path] = SmbPath[g.path]
          BY <3>1, <4>1 DEF HandlesInv, CachedHandleValid
        <4>3. ops[u].path = p
          BY <1>3, <3>1, <4>2, OpBasics
        <4>4. u # t
          BY <1>1, <4>2
        <4> QED BY <1>1, <1>3, <4>2, <4>3, <4>4, Alone DEF Transferring
      <3> QED BY <3>2, <3>3, <3>4
    <2>2. CASE p \notin Cached(c)
      <3>1. f = InvalidFnum
        BY <1>3, <1>4, <2>2, FnumOfIs
      <3>2. \A h \in ToSet(fh_lru[c]) : h.path # p /\ h.fnum # InvalidFnum
        BY <2>2, HandleBasics, PathsAre DEF Cached
      <3> QED BY <3>1, <3>2
    <2> QED BY <2>1, <2>2
  <1>11. OwnHandle(t)'
    BY <1>7, <1>8, <1>9, <1>10 DEF OwnHandle
  <1>12. OpenIsFile' /\ LostIsOpen'
    BY <1>8 DEF HandlesInv, OpenIsFile, LostIsOpen
  <1>13. ops[t].fnum = InvalidFnum /\ InvalidFnum \notin Fnums
    BY <1>1, OpBasics, PathsAre
  <1>14. Quiet(t, r)
    BY <1>8, <1>13 DEF Quiet
  <1>15. opened'[r.conn][r.fnum] = SmbPath[r.path] \/ r.fnum = InvalidFnum
    BY <1>3, <1>7, <1>8, <1>10
  <1> QED BY <1>1, <1>7, <1>8, <1>11, <1>12, <1>14, <1>15, QuietStep

\* A try of a transfer.
LEMMA TransferInv ==
  ASSUME CarefulClients, TypeOK, HandlesInv, OpsNamed', NEW t \in Threads, Transfer(t)
  PROVE  HandlesInv'
  <1>0. OpsNamed /\ OpsAlone /\ OwnHandle(t) /\ TransfersOwnFile /\ LostIsOpen /\ OpenIsFile
    BY DEF HandlesInv
  <1>1. PICK c \in Conns : c = ops[t].conn /\ ops[t].pc = "transfer" /\ UNCHANGED <<fh_lru, files>>
    BY <1>0, TransferIs
  <1>2. PICK p \in CachedPaths : p = ops[t].path /\ p \in Paths /\ SmbPath[p] = p
    BY <1>1, OpBasics DEF Transferring
  <1> DEFINE k == ops[t].conn
  <1>a. PICK g \in Fnums \cup {InvalidFnum}, r \in OpType :
            /\ ops' = [ops EXCEPT ![t] = r]
            /\ \/ g = ops[t].fnum /\ UNCHANGED opened
               \/ /\ ops[t].fnum = InvalidFnum /\ SmbPath[ops[t].path] \in files
                  /\ g \in Fnums /\ opened[k][g] = NoPath
                  /\ opened' = [opened EXCEPT ![k][g] = SmbPath[ops[t].path]]
            /\ \/ /\ r.pc \in {"transfer", "update"} /\ r.conn = k /\ r.path = ops[t].path
                  /\ r.source = ops[t].source /\ r.fnum = g
                  /\ IF r.pc = "update" THEN g # InvalidFnum ELSE r.num_retries <= MaxRetries
                  /\ UNCHANGED lost
               \/ r = NoOp /\ g = InvalidFnum /\ UNCHANGED lost
               \/ /\ r = NoOp
                  /\ lost' = [lost EXCEPT ![k] = @ \cup {f \in {g} \cap Fnums :
                                opened'[k][f] # NoPath /\ ops[t].path \notin Cached(k)}]
    BY <1>0, TransferIs
  <1>b. k = c /\ ops[t].path = p /\ SmbPath[ops[t].path] = p
    BY <1>1, <1>2
  <1> HIDE DEF k
  <1>3. /\ ops' = [ops EXCEPT ![t] = r]
        /\ \/ g = ops[t].fnum /\ UNCHANGED opened
           \/ /\ ops[t].fnum = InvalidFnum /\ p \in files
              /\ g \in Fnums /\ opened[c][g] = NoPath
              /\ opened' = [opened EXCEPT ![c][g] = p]
        /\ \/ /\ r.pc \in {"transfer", "update"} /\ r.conn = c /\ r.path = p
              /\ r.source = ops[t].source /\ r.fnum = g /\ UNCHANGED lost
           \/ r = NoOp /\ g = InvalidFnum /\ UNCHANGED lost
           \/ /\ r = NoOp
              /\ lost' = [lost EXCEPT ![c] = @ \cup
                            {f \in {g} \cap Fnums : opened'[c][f] # NoPath /\ p \notin Cached(c)}]
    BY <1>a, <1>b
  <1>4. /\ ops'[t] = r /\ InvalidFnum \notin Fnums /\ NoPath \notin Paths
        /\ ops[t].fnum \in Fnums \cup {InvalidFnum}
        /\ \A h \in ToSet(fh_lru[c]) : h.fnum \in Fnums /\ opened[c][h.fnum] # NoPath
    BY <1>3, PathsAre, OpBasics, CachedBasics DEF TypeOK
  <1>5. /\ \A h \in ToSet(fh_lru[c]) : h.path = p <=> h.fnum = g
        /\ g # InvalidFnum => g \notin lost[c] /\ opened'[c][g] = p
        /\ ops[t].fnum # InvalidFnum => ops[t].fnum = g
        /\ \A d \in Conns, f \in Fnums : opened'[d][f] # opened[d][f] =>
             d = c /\ f = g /\ opened[d][f] = NoPath /\ opened'[d][f] = p /\ p \in files
    <2>1. CASE g = ops[t].fnum /\ UNCHANGED opened
      <3>1. \A h \in ToSet(fh_lru[c]) : h.path = p <=> h.fnum = g
        BY <1>0, <1>1, <1>2, <2>1 DEF OwnHandle
      <3>2. g # InvalidFnum => g \notin lost[c] /\ opened[c][g] = p
        BY <1>0, <1>1, <1>2, <2>1 DEF OwnHandle, TransfersOwnFile, Transferring
      <3> QED BY <2>1, <3>1, <3>2
    <2>2. CASE /\ ops[t].fnum = InvalidFnum /\ p \in files
               /\ g \in Fnums /\ opened[c][g] = NoPath
               /\ opened' = [opened EXCEPT ![c][g] = p]
      <3>1. \A h \in ToSet(fh_lru[c]) : h.path # p /\ h.fnum # g
        BY <1>0, <1>1, <1>2, <1>4, <2>2 DEF OwnHandle
      <3>2. PICK e \in [Fnums -> Paths \cup {Gone, NoPath}] : e = [opened[c] EXCEPT ![g] = p]
        BY <1>2, <2>2 DEF TypeOK
      <3>3. opened' = [opened EXCEPT ![c] = e]
        BY <2>2, <3>2
      <3>4. \A d \in Conns, f \in Fnums :
              opened'[d][f] = IF d = c /\ f = g THEN p ELSE opened[d][f]
        BY <3>2, <3>3 DEF TypeOK
      <3>5. g \notin lost[c]
        BY <1>0, <2>2 DEF LostIsOpen
      <3> QED BY <2>2, <3>1, <3>4, <3>5
    <2> QED BY <1>3, <2>1, <2>2
  <1>6. OpenIsFile'
    <2> SUFFICES ASSUME NEW d \in Conns, NEW f \in Fnums, opened'[d][f] \in Paths
                 PROVE  opened'[d][f] \in files \cap CachedPaths
      BY <1>1 DEF OpenIsFile
    <2> QED BY <1>0, <1>2, <1>5 DEF OpenIsFile
  <1>7. OpsAlone'
    <2>1. CASE r = NoOp
      BY <1>0, <1>3, <2>1, OpsAloneKept
    <2>2. CASE r # NoOp
      <3>1. /\ ops[t].pc # "idle" /\ r.path = ops[t].path /\ r.source = ops[t].source
            /\ r.conn \in {ops[t].conn, NoConn} \cup FreeConns /\ r.pc \in Transferring
        BY <1>1, <1>2, <1>3, <2>2 DEF Transferring
      <3> QED BY <1>0, <1>3, <3>1, OpsAloneKept
    <2> QED BY <2>1, <2>2
  \* The RPC goes on with its handle.
  <1>8. CASE r # NoOp
    <2>1. /\ r.pc \in {"transfer", "update"} /\ r.conn = c /\ r.path = p /\ r.fnum = g
          /\ lost' = lost
      BY <1>3, <1>8
    <2>2. OwnHandle(t)'
      BY <1>1, <1>4, <1>5, <2>1 DEF OwnHandle
    <2>3. LostIsOpen'
      <3> SUFFICES ASSUME NEW d \in Conns, NEW f \in lost[d] PROVE opened'[d][f] # NoPath
        BY <2>1 DEF LostIsOpen
      <3>1. f \in Fnums /\ opened[d][f] # NoPath
        BY <1>0, HandleBasics DEF LostIsOpen
      <3> QED BY <1>5, <3>1
    <2>4. Quiet(t, r)
      BY <1>1, <1>4, <1>5, <2>1 DEF Quiet
    <2> QED BY <1>1, <1>2, <1>3, <1>5, <1>6, <1>7, <2>1, <2>2, <2>3, <2>4, QuietStep
  \* It returns, with its handle cached, or lost.
  <1>9. CASE r = NoOp
    <2>1. r.pc = "idle" /\ r.fnum = InvalidFnum
      BY <1>9, NoOpIs
    <2>2. OwnHandle(t)'
      BY <1>4, <2>1, NoHandle
    <2>3. ASSUME NEW d \in Conns, NEW f \in Fnums
          PROVE  /\ f \in lost[d] => f \in lost'[d]
                 /\ f \in lost'[d] => \/ f \in lost[d]
                                      \/ d = c /\ f = g /\ opened'[d][f] # NoPath /\ p \notin Cached(c)
                 /\ d = c /\ f = g /\ opened'[d][f] # NoPath /\ p \notin Cached(c) => f \in lost'[d]
      <3>1. CASE g = InvalidFnum /\ lost' = lost
        BY <1>4, <3>1
      <3>2. CASE lost' = [lost EXCEPT ![c] = @ \cup
                           {x \in {g} \cap Fnums : opened'[c][x] # NoPath /\ p \notin Cached(c)}]
        BY <3>2 DEF TypeOK
      <3>3. ~(r.pc \in {"transfer", "update"})
        BY <2>1
      <3> QED BY <1>3, <3>1, <3>2, <3>3
    <2>4. LostIsOpen'
      <3> SUFFICES ASSUME NEW d \in Conns, NEW f \in lost'[d] PROVE opened'[d][f] # NoPath
        BY DEF LostIsOpen
      <3>1. f \in Fnums
        <4>1. lost' \in [Conns -> SUBSET Fnums]
          <5>1. \A S \in SUBSET Fnums : [lost EXCEPT ![c] = @ \cup S] \in [Conns -> SUBSET Fnums]
            BY DEF TypeOK
          <5>2. lost' = lost \/ \E S \in SUBSET Fnums : lost' = [lost EXCEPT ![c] = @ \cup S]
            BY <1>3
          <5> QED BY <5>1, <5>2 DEF TypeOK
        <4> QED BY <4>1
      <3>2. f \in lost[d] => opened[d][f] # NoPath
        BY <1>0 DEF LostIsOpen
      <3>3. opened'[d][f] # opened[d][f] => opened[d][f] = NoPath
        BY <1>5, <3>1
      <3>4. f \in lost[d] \/ opened'[d][f] # NoPath
        BY <2>3, <3>1
      <3> QED BY <3>2, <3>3, <3>4
    <2>5. p \in Cached(c) => \E h \in ToSet(fh_lru[c]) : h.fnum = g
      BY <1>5 DEF Cached
    <2>6. p \notin Cached(c) => \A h \in ToSet(fh_lru[c]) : h.fnum # g
      BY <1>5 DEF Cached
    <2>7. Quiet(t, r)
      <3> SUFFICES ASSUME NEW d \in Conns, NEW f \in Fnums
          PROVE /\ opened'[d][f] # opened[d][f] => opened[d][f] = NoPath
                /\ f \in lost[d] => f \in lost'[d]
                /\ f \in lost'[d] => f \in lost[d] \/ /\ d = ops[t].conn
                                                      /\ \A h \in ToSet(fh_lru[d]) : h.fnum # f
                /\ opened'[d][f] # NoPath
                     /\ (opened[d][f] = NoPath \/ (ops[t].conn = d /\ ops[t].fnum = f)) =>
                          \/ \E h \in ToSet(fh_lru[d]) : h.fnum = f
                          \/ r.conn = d /\ r.fnum = f
                          \/ f \in lost'[d]
        BY DEF Quiet
      <3>1. /\ opened'[d][f] # opened[d][f] => opened[d][f] = NoPath /\ d = c /\ f = g
            /\ ops[t].conn = d /\ ops[t].fnum = f => d = c /\ f = g
        BY <1>1, <1>4, <1>5
      <3>2. f \in lost'[d] => f \in lost[d] \/ /\ d = ops[t].conn
                                               /\ \A h \in ToSet(fh_lru[d]) : h.fnum # f
        BY <1>1, <2>3, <2>6
      <3>3. opened'[d][f] # NoPath /\ d = c /\ f = g =>
              (\E h \in ToSet(fh_lru[d]) : h.fnum = f) \/ f \in lost'[d]
        BY <2>3, <2>5
      <3> QED BY <2>3, <3>1, <3>2, <3>3
    <2> QED BY <1>1, <1>3, <1>6, <1>7, <2>1, <2>2, <2>4, <2>7, QuietStep DEF Transferring
  <1> QED BY <1>8, <1>9

\* The connection of an RPC is shut down: its handles and its cache are gone.
LEMMA ShutdownInv ==
  ASSUME CarefulClients, TypeOK, HandlesInv, OpsNamed', NEW t \in Threads, NEW r \in OpType,
         ops' = [ops EXCEPT ![t] = r], NEW c \in Conns, c = ops[t].conn, ShutdownSmbConnection(c),
         files' = files, ops[t].pc # "forget", r.fnum = InvalidFnum,
         r.pc \notin {"transfer", "update", "rename", "new", "create"},
         \/ r = NoOp
         \/ /\ ops[t].pc \notin Transferring \cup {"idle"} /\ r.conn = NoConn
            /\ r.path = ops[t].path /\ r.source = ops[t].source
  PROVE  HandlesInv'
  <1>1. ops'[t] = r /\ \A u \in Threads : u # t => ops'[u] = ops[u]
    BY DEF TypeOK
  <1>2. /\ \A d \in Conns : d # c =>
             fh_lru'[d] = fh_lru[d] /\ opened'[d] = opened[d] /\ lost'[d] = lost[d]
        /\ fh_lru'[c] = <<>> /\ ToSet(fh_lru'[c]) = {} /\ lost'[c] = {}
        /\ \A f \in Fnums : opened'[c][f] = NoPath
    BY ShutdownIs
  <1>3. OpsAlone'
    <2>1. OpsAlone
      BY DEF HandlesInv
    <2>2. CASE r = NoOp
      BY <2>1, <2>2, OpsAloneKept
    <2>3. CASE r # NoOp
      <3>1. /\ ops[t].pc # "idle" /\ r.path = ops[t].path /\ r.source = ops[t].source
            /\ r.conn \in {ops[t].conn, NoConn} \cup FreeConns /\ ops[t].pc \notin Transferring
        BY <2>3
      <3> QED BY <2>1, <3>1, OpsAloneKept
    <2> QED BY <2>2, <2>3
  <1>4. \A d \in Conns : Sound(fh_lru'[d])
    <2>1. Sound(<<>>)
      BY DEF Sound
    <2> QED BY <1>2, <2>1 DEF HandlesInv
  <1>5. OpenIsFile'
    BY <1>2, PathsAre DEF HandlesInv, OpenIsFile
  <1>6. LostIsOpen'
    BY <1>2 DEF HandlesInv, LostIsOpen
  <1>7. CachedIsOpen'
    <2> SUFFICES ASSUME NEW d \in Conns, NEW h \in ToSet(fh_lru'[d])
                 PROVE  /\ h.path \in CachedPaths /\ h.fnum \notin lost'[d]
                        /\ \A u \in Threads : ops'[u].pc \in {"rename", "new", "create"} =>
                                                ops'[u].path # h.path
      BY DEF CachedIsOpen
    <2>1. h \in ToSet(fh_lru[d]) /\ lost'[d] = lost[d]
      BY <1>2
    <2> QED BY <1>1, <2>1 DEF HandlesInv, CachedIsOpen
  <1>8. CachedHandleValid'
    <2> SUFFICES ASSUME NEW d \in Conns, NEW h \in ToSet(fh_lru'[d])
                 PROVE  \/ opened'[d][h.fnum] = SmbPath[h.path]
                        \/ /\ opened'[d][h.fnum] = Gone
                           /\ \E u \in Threads : /\ ops'[u].pc = "forget"
                                                 /\ SmbPath[ops'[u].path] = SmbPath[h.path]
      BY DEF CachedHandleValid
    <2>1. h \in ToSet(fh_lru[d]) /\ opened'[d] = opened[d]
      BY <1>2
    <2> QED BY <1>1, <2>1 DEF HandlesInv, CachedHandleValid
  <1>9. ASSUME NEW u \in Threads, u # t, ops[u].fnum # InvalidFnum \/ ops[u].pc \in Transferring
        PROVE  /\ ops[u].conn \in Conns /\ fh_lru'[ops[u].conn] = fh_lru[ops[u].conn]
               /\ opened'[ops[u].conn] = opened[ops[u].conn]
               /\ lost'[ops[u].conn] = lost[ops[u].conn]
    <2>1. ops[u].conn \in Conns
      BY <1>9, OpBasics
    <2>2. ops[u].conn # c
      BY <1>9, <2>1, Alone
    <2> QED BY <1>2, <2>1, <2>2
  <1>10. TransfersOwnFile'
    <2> SUFFICES ASSUME NEW u \in Threads, u # t, ops[u].pc \in Transferring,
                        ops[u].fnum # InvalidFnum
                 PROVE  opened'[ops[u].conn][ops[u].fnum] = SmbPath[ops[u].path]
      BY <1>1 DEF TransfersOwnFile
    <2>1. opened[ops[u].conn][ops[u].fnum] = SmbPath[ops[u].path]
      BY DEF HandlesInv, TransfersOwnFile
    <2> QED BY <1>9, <2>1
  <1>11. NoLeakedHandle'
    <2> SUFFICES ASSUME NEW d \in Conns, NEW f \in Fnums, opened'[d][f] # NoPath
                 PROVE  \/ \E h \in ToSet(fh_lru'[d]) : h.fnum = f
                        \/ \E u \in Threads : ops'[u].conn = d /\ ops'[u].fnum = f
                        \/ f \in lost'[d]
      BY DEF NoLeakedHandle
    <2>1. d # c /\ opened[d][f] # NoPath /\ fh_lru'[d] = fh_lru[d] /\ lost'[d] = lost[d]
      BY <1>2
    <2>2. \/ \E h \in ToSet(fh_lru[d]) : h.fnum = f
          \/ \E u \in Threads : ops[u].conn = d /\ ops[u].fnum = f
          \/ f \in lost[d]
      BY <2>1 DEF HandlesInv, NoLeakedHandle
    <2> QED BY <1>1, <2>1, <2>2
  <1>12. ASSUME NEW u \in Threads PROVE OwnHandle(u)'
    <2>1. CASE u = t
      BY <1>1, <2>1, NoHandle
    <2>2. CASE u # t
      <3>1. OwnHandle(u) /\ ops'[u] = ops[u]
        BY <1>1, <2>2 DEF HandlesInv
      <3>2. CASE ops[u].fnum # InvalidFnum \/ ops[u].pc \in Transferring
        BY <1>9, <2>2, <3>1, <3>2 DEF OwnHandle
      <3>3. CASE ~(ops[u].fnum # InvalidFnum \/ ops[u].pc \in Transferring)
        BY <3>1, <3>3, NoHandle DEF Transferring
      <3> QED BY <3>2, <3>3
    <2> QED BY <2>1, <2>2
  <1> QED BY <1>3, <1>4, <1>5, <1>6, <1>7, <1>8, <1>10, <1>11, <1>12 DEF HandlesInv

\* The temporary file is deleted; its handles are gone until they are purged.
LEMMA DeleteTmpInv ==
  ASSUME CarefulClients, TypeOK, HandlesInv, OpsNamed', OpsAlone', NEW t \in Threads,
         DeleteTmpEntity(t)
  PROVE  HandlesInv'
  <1>1. PICK x \in Pcs : x = "forget" /\ ops' = [ops EXCEPT ![t].pc = x]
    BY DEF DeleteTmpEntity, Pcs, Restoring
  <1>2. PICK r \in OpType : /\ ops' = [ops EXCEPT ![t] = r] /\ r.pc = x /\ r.conn = ops[t].conn
                            /\ r.path = ops[t].path /\ r.source = ops[t].source
                            /\ r.fnum = ops[t].fnum /\ r.num_retries = ops[t].num_retries
    <2>1. PICK op \in OpType : op = ops[t]
      BY DEF TypeOK
    <2>2. PICK r \in OpType : /\ r = [op EXCEPT !.pc = x] /\ r.pc = x /\ r.conn = op.conn
                              /\ r.path = op.path /\ r.source = op.source
                              /\ r.fnum = op.fnum /\ r.num_retries = op.num_retries
      BY PcSet
    <2>3. ops' = [ops EXCEPT ![t] = r]
      BY <1>1, <2>1, <2>2
    <2> QED BY <2>1, <2>2, <2>3
  <1>3. PICK p \in Paths : p = ops[t].path /\ SmbPath[p] = p /\ ops[t].pc = "delete"
    BY OpBasics DEF DeleteTmpEntity
  <1>4. /\ ops'[t] = r /\ \A u \in Threads : u # t => ops'[u] = ops[u]
    BY <1>2 DEF TypeOK
  <1>5. UNCHANGED <<fh_lru, lost>> /\ Try(Delete(p))
    BY <1>3 DEF DeleteTmpEntity
  <1>6. ops[t].fnum = InvalidFnum /\ r.fnum = InvalidFnum
    BY <1>2, <1>3, OpBasics
  <1>7. CASE UNCHANGED <<files, opened>>
    <2>1. OpenIsFile'
      BY <1>7 DEF HandlesInv, OpenIsFile
    <2> QED BY <1>1, <1>2, <1>3, <1>5, <1>6, <1>7, <2>1, FilesQuiet
  <1>8. CASE Delete(p)
    <2>1. /\ files' = files \ {p}
          /\ \A d \in Conns, f \in Fnums :
               opened'[d][f] = IF opened[d][f] = p THEN Gone ELSE opened[d][f]
      BY <1>8, MovedIs DEF Delete
    <2>2. Gone \notin Paths /\ Gone # NoPath /\ NoPath \notin Paths
      BY PathsAre
    <2>3. \A d \in Conns : Sound(fh_lru'[d])
      BY <1>5 DEF HandlesInv
    <2>4. OpenIsFile'
      <3> SUFFICES ASSUME NEW d \in Conns, NEW f \in Fnums, opened'[d][f] \in Paths
                   PROVE  opened'[d][f] \in files' \cap CachedPaths
        BY DEF OpenIsFile
      <3>1. opened'[d][f] = opened[d][f] /\ opened[d][f] # p
        BY <2>1, <2>2
      <3> QED BY <2>1, <3>1 DEF HandlesInv, OpenIsFile
    <2>5. LostIsOpen'
      <3> SUFFICES ASSUME NEW d \in Conns, NEW f \in lost[d] PROVE opened'[d][f] # NoPath
        BY <1>5 DEF LostIsOpen
      <3>1. f \in Fnums /\ opened[d][f] # NoPath
        BY HandleBasics DEF HandlesInv, LostIsOpen
      <3> QED BY <2>1, <2>2, <3>1
    <2>6. CachedIsOpen'
      BY <1>1, <1>2, <1>4, <1>5 DEF HandlesInv, CachedIsOpen
    <2>7. CachedHandleValid'
      <3> SUFFICES ASSUME NEW d \in Conns, NEW h \in ToSet(fh_lru[d])
                   PROVE  \/ opened'[d][h.fnum] = SmbPath[h.path]
                          \/ /\ opened'[d][h.fnum] = Gone
                             /\ \E u \in Threads : /\ ops'[u].pc = "forget"
                                                   /\ SmbPath[ops'[u].path] = SmbPath[h.path]
        BY <1>5 DEF CachedHandleValid
      <3>1. h.fnum \in Fnums /\ SmbPath[h.path] = h.path
        BY CachedBasics
      <3>2. CASE opened[d][h.fnum] = p
        <4>1. h.path = p
          BY <2>2, <3>2, CachedBasics
        <4>2. ops'[t].pc = "forget" /\ SmbPath[ops'[t].path] = SmbPath[h.path]
          BY <1>1, <1>2, <1>3, <1>4, <4>1
        <4> QED BY <2>1, <3>1, <3>2, <4>2
      <3>3. CASE opened[d][h.fnum] # p
        <4>1. opened'[d][h.fnum] = opened[d][h.fnum]
          BY <2>1, <3>1, <3>3
        <4>2. \/ opened[d][h.fnum] = SmbPath[h.path]
              \/ /\ opened[d][h.fnum] = Gone
                 /\ \E u \in Threads : ops[u].pc = "forget" /\ SmbPath[ops[u].path] = SmbPath[h.path]
          BY DEF HandlesInv, CachedHandleValid
        <4> QED BY <1>3, <1>4, <4>1, <4>2
      <3> QED BY <3>2, <3>3
    <2>8. TransfersOwnFile'
      <3> SUFFICES ASSUME NEW u \in Threads, u # t, ops[u].pc \in Transferring,
                          ops[u].fnum # InvalidFnum
                   PROVE  opened'[ops[u].conn][ops[u].fnum] = SmbPath[ops[u].path]
        BY <1>4, <1>6 DEF TransfersOwnFile
      <3>1. opened[ops[u].conn][ops[u].fnum] = SmbPath[ops[u].path]
        BY DEF HandlesInv, TransfersOwnFile
      <3>2. /\ ops[u].conn \in Conns /\ ops[u].fnum \in Fnums /\ ops[u].pc # "idle"
            /\ SmbPath[ops[u].path] = ops[u].path
        BY OpBasics DEF Transferring
      <3>3. ops[u].path # p
        BY <1>3, <3>2, Alone DEF Transferring
      <3> QED BY <2>1, <3>1, <3>2, <3>3
    <2>9. NoLeakedHandle'
      <3> SUFFICES ASSUME NEW d \in Conns, NEW f \in Fnums, opened'[d][f] # NoPath
                   PROVE  \/ \E h \in ToSet(fh_lru[d]) : h.fnum = f
                          \/ \E u \in Threads : ops'[u].conn = d /\ ops'[u].fnum = f
                          \/ f \in lost[d]
        BY <1>5 DEF NoLeakedHandle
      <3>1. opened[d][f] # NoPath
        BY <2>1, <2>2
      <3>2. \/ \E h \in ToSet(fh_lru[d]) : h.fnum = f
            \/ \E u \in Threads : ops[u].conn = d /\ ops[u].fnum = f
            \/ f \in lost[d]
        BY <3>1 DEF HandlesInv, NoLeakedHandle
      <3>3. \A u \in Threads : ops'[u].conn = ops[u].conn /\ ops'[u].fnum = ops[u].fnum
        BY <1>2, <1>4
      <3> QED BY <3>2, <3>3
    <2>10. ASSUME NEW u \in Threads PROVE OwnHandle(u)'
      <3>1. CASE u = t
        BY <1>1, <1>2, <1>4, <1>6, <3>1, NoHandle
      <3>2. CASE u # t
        <4>1. OwnHandle(u) /\ ops'[u] = ops[u]
          BY <1>4, <3>2 DEF HandlesInv
        <4> QED BY <1>5, <4>1 DEF OwnHandle
      <3> QED BY <3>1, <3>2
    <2> QED BY <2>3, <2>4, <2>5, <2>6, <2>7, <2>8, <2>9, <2>10 DEF HandlesInv
  <1> QED BY <1>5, <1>7, <1>8 DEF Try

\* A purge closes the handles of a path, on which no transfer is.
LEMMA PurgeInv ==
  ASSUME CarefulClients, TypeOK, HandlesInv, OpsNamed', OpsAlone', NEW t \in Threads,
         NEW r \in OpType, ops' = [ops EXCEPT ![t] = r], Purges(t),
         r.fnum = InvalidFnum, r.pc \in {"idle", "rename", "new"},
         r.pc # "idle" => r.path = ops[t].path
  PROVE  HandlesInv'
  <1>1. ops[t].pc \in {"purge", "forget"} /\ files' = files
    BY DEF Purges, PurgeTarget, PurgeTmpHandle
  <1>2. PICK p \in Paths : p = ops[t].path /\ SmbPath[p] = p
    BY <1>1, OpBasics
  <1>3. PurgeFileHandle(p)
    BY <1>2 DEF Purges, PurgeTarget, PurgeTmpHandle
  <1>4. ops'[t] = r /\ \A u \in Threads : u # t => ops'[u] = ops[u]
    BY DEF TypeOK
  <1>5. ASSUME NEW d \in Conns
        PROVE  /\ Sound(fh_lru'[d]) /\ ToSet(fh_lru'[d]) = {h \in ToSet(fh_lru[d]) : h.path # p}
    <2>1. fh_lru'[d] = Erase(fh_lru[d], p)
      BY <1>3, PurgeIs
    <2> QED BY <2>1, HandleBasics, EraseIs
  \* The handle that is closed is the one that is cached for the path.
  <1>6. ASSUME NEW d \in Conns, NEW f \in Fnums
        PROVE  \/ /\ opened'[d][f] = opened[d][f] /\ (f \in lost'[d] <=> f \in lost[d])
                  /\ \A h \in ToSet(fh_lru[d]) : h.path = p => h.fnum # f
               \/ Closed(d, f) /\ \E h \in ToSet(fh_lru[d]) : h.path = p /\ h.fnum = f
    <2>1. /\ f # FnumOf(d, p) => opened'[d][f] = opened[d][f] /\ (f \in lost'[d] <=> f \in lost[d])
          /\ f = FnumOf(d, p) => Closed(d, f)
      BY <1>3, PurgeIs
    <2>2. CASE p \in Cached(d)
      <3>1. PICK h \in ToSet(fh_lru[d]) : h.path = p /\ h.fnum = FnumOf(d, p)
        BY <2>2, FnumOfIs
      <3>2. \A g \in ToSet(fh_lru[d]) : g.path = p => g = h
        BY <3>1, HandleBasics
      <3> QED BY <2>1, <3>1, <3>2
    <2>3. CASE p \notin Cached(d)
      <3>1. f # FnumOf(d, p)
        BY <2>3, FnumOfIs, PathsAre
      <3>2. \A h \in ToSet(fh_lru[d]) : h.path # p
        BY <2>3 DEF Cached
      <3> QED BY <2>1, <3>1, <3>2
    <2> QED BY <2>2, <2>3
  <1>7. ASSUME NEW d \in Conns, NEW h \in ToSet(fh_lru'[d])
        PROVE  /\ h \in ToSet(fh_lru[d]) /\ h.path # p /\ h.fnum \in Fnums
               /\ opened'[d][h.fnum] = opened[d][h.fnum]
               /\ h.fnum \in lost'[d] <=> h.fnum \in lost[d]
    <2>1. h \in ToSet(fh_lru[d]) /\ h.path # p
      BY <1>5
    <2>2. h.fnum \in Fnums /\ \A g \in ToSet(fh_lru[d]) : g.fnum = h.fnum => g.path # p
      BY <2>1, HandleBasics
    <2> QED BY <1>6, <2>1, <2>2
  <1>8. OpenIsFile'
    <2> SUFFICES ASSUME NEW d \in Conns, NEW f \in Fnums, opened'[d][f] \in Paths
                 PROVE  opened'[d][f] \in files \cap CachedPaths
      BY <1>1 DEF OpenIsFile
    <2>1. opened'[d][f] = opened[d][f]
      BY <1>6, PathsAre DEF Closed
    <2> QED BY <2>1 DEF HandlesInv, OpenIsFile
  <1>9. LostIsOpen'
    <2> SUFFICES ASSUME NEW d \in Conns, NEW f \in Fnums, f \in lost'[d] PROVE opened'[d][f] # NoPath
      <3>1. lost' \in [Conns -> SUBSET Fnums]
        BY <1>3, PurgeIs
      <3> QED BY <3>1 DEF LostIsOpen
    <2>1. f \in lost[d] => opened[d][f] # NoPath
      BY DEF HandlesInv, LostIsOpen
    <2>2. ASSUME NEW h \in ToSet(fh_lru[d]), h.fnum = f PROVE f \notin lost[d]
      BY <2>2, CachedBasics
    <2> QED BY <1>6, <2>1, <2>2 DEF Closed
  <1>10. CachedIsOpen'
    <2> SUFFICES ASSUME NEW d \in Conns, NEW h \in ToSet(fh_lru'[d])
                 PROVE  /\ h.path \in CachedPaths /\ h.fnum \notin lost'[d]
                        /\ \A u \in Threads : ops'[u].pc \in {"rename", "new", "create"} =>
                                                ops'[u].path # h.path
      BY DEF CachedIsOpen
    <2>1. h \in ToSet(fh_lru[d]) /\ h.path # p /\ (h.fnum \in lost'[d] <=> h.fnum \in lost[d])
      BY <1>7
    <2>2. /\ h.path \in CachedPaths /\ h.fnum \notin lost[d]
          /\ \A u \in Threads : ops[u].pc \in {"rename", "new", "create"} => ops[u].path # h.path
      BY <2>1 DEF HandlesInv, CachedIsOpen
    <2> QED BY <1>2, <1>4, <2>1, <2>2
  <1>11. CachedHandleValid'
    <2> SUFFICES ASSUME NEW d \in Conns, NEW h \in ToSet(fh_lru'[d])
                 PROVE  \/ opened'[d][h.fnum] = SmbPath[h.path]
                        \/ /\ opened'[d][h.fnum] = Gone
                           /\ \E u \in Threads : /\ ops'[u].pc = "forget"
                                                 /\ SmbPath[ops'[u].path] = SmbPath[h.path]
      BY DEF CachedHandleValid
    <2>1. h \in ToSet(fh_lru[d]) /\ h.path # p /\ opened'[d][h.fnum] = opened[d][h.fnum]
      BY <1>7
    <2>2. SmbPath[h.path] # SmbPath[ops[t].path]
      BY <1>2, <2>1, CachedBasics
    <2>3. \/ opened[d][h.fnum] = SmbPath[h.path]
          \/ /\ opened[d][h.fnum] = Gone
             /\ \E u \in Threads : ops[u].pc = "forget" /\ SmbPath[ops[u].path] = SmbPath[h.path]
      BY <2>1 DEF HandlesInv, CachedHandleValid
    <2> QED BY <1>4, <2>1, <2>2, <2>3
  \* The handles of other transfers are those of other paths.
  <1>12. ASSUME NEW u \in Threads, u # t, ops[u].fnum # InvalidFnum
         PROVE  /\ ops[u].conn \in Conns /\ ops[u].fnum \in Fnums
                /\ opened'[ops[u].conn][ops[u].fnum] = SmbPath[ops[u].path]
                /\ ops[u].fnum \notin lost'[ops[u].conn]
    <2>1. PICK d \in Conns, f \in Fnums : d = ops[u].conn /\ f = ops[u].fnum
      BY <1>12, OpBasics
    <2>2. /\ ops[u].pc \in Transferring /\ ops[u].pc # "idle" /\ ops[u].path \in Paths
          /\ SmbPath[ops[u].path] = ops[u].path
      BY <1>12, OpBasics DEF Transferring
    <2>3. ops[u].path # p
      BY <1>1, <1>2, <1>12, <2>2, Alone DEF Transferring
    <2>4. opened[d][f] = ops[u].path /\ f \notin lost[d]
      BY <1>12, <2>1, <2>2 DEF HandlesInv, TransfersOwnFile, OwnHandle
    <2>5. \A h \in ToSet(fh_lru[d]) : h.path = p => h.fnum # f
      BY <2>2, <2>3, <2>4, CachedBasics, PathsAre
    <2>6. opened'[d][f] = opened[d][f] /\ (f \in lost'[d] <=> f \in lost[d])
      BY <1>6, <2>5
    <2> QED BY <2>1, <2>2, <2>4, <2>6
  <1>13. TransfersOwnFile'
    BY <1>4, <1>12 DEF TransfersOwnFile
  <1>14. NoLeakedHandle'
    <2> SUFFICES ASSUME NEW d \in Conns, NEW f \in Fnums, opened'[d][f] # NoPath
                 PROVE  \/ \E h \in ToSet(fh_lru'[d]) : h.fnum = f
                        \/ \E u \in Threads : ops'[u].conn = d /\ ops'[u].fnum = f
                        \/ f \in lost'[d]
      BY DEF NoLeakedHandle
    <2>1. CASE Closed(d, f)
      BY <2>1 DEF Closed
    <2>2. CASE /\ opened'[d][f] = opened[d][f] /\ (f \in lost'[d] <=> f \in lost[d])
               /\ \A h \in ToSet(fh_lru[d]) : h.path = p => h.fnum # f
      <3>1. \/ \E h \in ToSet(fh_lru[d]) : h.fnum = f
            \/ \E u \in Threads : ops[u].conn = d /\ ops[u].fnum = f
            \/ f \in lost[d]
        BY <2>2 DEF HandlesInv, NoLeakedHandle
      <3>2. ASSUME NEW h \in ToSet(fh_lru[d]), h.fnum = f PROVE h \in ToSet(fh_lru'[d])
        BY <1>5, <2>2, <3>2
      <3>3. ASSUME NEW u \in Threads, ops[u].fnum = f PROVE ops'[u] = ops[u]
        <4>1. u # t
          BY <1>1, <3>3, OpBasics, PathsAre
        <4> QED BY <1>4, <4>1
      <3> QED BY <2>2, <3>1, <3>2, <3>3
    <2> QED BY <1>6, <2>1, <2>2
  <1>15. ASSUME NEW u \in Threads PROVE OwnHandle(u)'
    <2>1. CASE u = t
      BY <1>4, <2>1, NoHandle
    <2>2. CASE u # t
      <3>1. OwnHandle(u) /\ ops'[u] = ops[u]
        BY <1>4, <2>2 DEF HandlesInv
      <3>2. ASSUME ops[u].pc \in {"transfer", "update"}, NEW h \in ToSet(fh_lru'[ops[u].conn])
            PROVE  h.path = ops[u].path <=> h.fnum = ops[u].fnum
        <4>1. ops[u].conn \in Conns
          BY <3>2, OpBasics
        <4>2. h \in ToSet(fh_lru[ops[u].conn])
          BY <1>7, <3>2, <4>1
        <4> QED BY <3>1, <3>2, <4>2 DEF OwnHandle
      <3> QED BY <1>12, <2>2, <3>1, <3>2 DEF OwnHandle
    <2> QED BY <2>1, <2>2
  <1>16. \A d \in Conns : Sound(fh_lru'[d])
    BY <1>5
  <1> QED BY <1>8, <1>9, <1>10, <1>11, <1>13, <1>14, <1>15, <1>16 DEF HandlesInv

\* UpdateFileHandle: the handle of the transfer becomes the newest of its connection.
LEMMA UpdateInv ==
  ASSUME CarefulClients, TypeOK, HandlesInv, OpsNamed', NEW t \in Threads, UpdateFileHandle(t)
  PROVE  HandlesInv'
  <1>0. OpsNamed /\ OpsAlone /\ OwnHandle(t) /\ TransfersOwnFile
    BY DEF HandlesInv
  <1>1. PICK c \in Conns : c = ops[t].conn /\ ops[t].pc = "update" /\ files' = files
    BY <1>0, UpdateIs
  <1>2. PICK h \in HandleType : /\ h = [path |-> ops[t].path, fnum |-> ops[t].fnum]
                                /\ h.path = ops[t].path /\ h.fnum = ops[t].fnum
    BY <1>0, UpdateIs
  <1>3. /\ h.path \in CachedPaths /\ h.path \in Paths /\ SmbPath[h.path] = h.path /\ h.fnum \in Fnums
        /\ h.fnum # InvalidFnum /\ opened[c][h.fnum] = h.path /\ h.fnum \notin lost[c]
        /\ \A g \in ToSet(fh_lru[c]) : g.path = h.path <=> g.fnum = h.fnum
    <2>1. /\ h.path \in CachedPaths /\ h.path \in Paths /\ SmbPath[h.path] = h.path
      BY <1>1, <1>2, OpBasics DEF Transferring
    <2>2. h.fnum \in Fnums /\ h.fnum # InvalidFnum
      BY PathsAre DEF HandleType
    <2> QED BY <1>0, <1>1, <1>2, <2>1, <2>2 DEF OwnHandle, TransfersOwnFile, Transferring
  <1>4. PICK r \in OpType :
          /\ ops' = [ops EXCEPT ![t] = r]
          /\ \/ r = NoOp
             \/ /\ r.pc = "lookup" /\ r.conn = ops[t].conn /\ r.path = ops[t].path
                /\ r.source = ops[t].source /\ r.fnum = InvalidFnum
                /\ r.num_retries <= MaxRetries
    BY <1>0, UpdateIs
  <1>5. /\ ops'[t] = r /\ \A u \in Threads : u # t => ops'[u] = ops[u]
        /\ r.pc \in {"idle", "lookup"} /\ r.fnum = InvalidFnum
    <2>1. ops'[t] = r /\ \A u \in Threads : u # t => ops'[u] = ops[u]
      BY <1>4 DEF TypeOK
    <2> QED BY <1>4, <2>1, NoOpIs
  <1>6. OpsAlone'
    <2>1. CASE r = NoOp
      BY <1>0, <1>4, <2>1, OpsAloneKept
    <2>2. CASE r # NoOp
      <3>1. /\ ops[t].pc # "idle" /\ r.path = ops[t].path /\ r.source = ops[t].source
            /\ r.conn \in {ops[t].conn, NoConn} \cup FreeConns /\ r.pc \in Transferring
        BY <1>1, <1>4, <2>2 DEF Transferring
      <3> QED BY <1>0, <1>4, <3>1, OpsAloneKept
    <2> QED BY <2>1, <2>2
  <1> DEFINE list == Append(Erase(fh_lru[c], h.path), h)
             full == Len(list) > MaxHandles
             old == Head(list)
  <1>7. /\ list \in Seq(HandleType) /\ Len(list) \in Nat /\ Len(list) > 0
        /\ \A d \in Conns : d # c => fh_lru'[d] = fh_lru[d]
        /\ fh_lru'[c] = IF full THEN Tail(list) ELSE list
        /\ \A d \in Conns, f \in Fnums :
             /\ ~(d = c /\ full /\ f = old.fnum) =>
                  opened'[d][f] = opened[d][f] /\ (f \in lost'[d] <=> f \in lost[d])
             /\ d = c /\ full /\ f = old.fnum => Closed(d, f)
        /\ lost' \in [Conns -> SUBSET Fnums]
    <2>1. LET k == ops[t].conn
              x == [path |-> ops[t].path, fnum |-> ops[t].fnum]
              l == Append(Erase(fh_lru[k], ops[t].path), x)
          IN  /\ l \in Seq(HandleType) /\ Len(l) \in Nat /\ Len(l) > 0
              /\ \A d \in Conns : d # k => fh_lru'[d] = fh_lru[d]
              /\ fh_lru'[k] = IF Len(l) > MaxHandles THEN Tail(l) ELSE l
              /\ \A d \in Conns, f \in Fnums :
                   /\ ~(d = k /\ Len(l) > MaxHandles /\ f = Head(l).fnum) =>
                        opened'[d][f] = opened[d][f] /\ (f \in lost'[d] <=> f \in lost[d])
                   /\ d = k /\ Len(l) > MaxHandles /\ f = Head(l).fnum => Closed(d, f)
              /\ lost' \in [Conns -> SUBSET Fnums]
      BY <1>0, UpdateIs
    <2>2. list = Append(Erase(fh_lru[ops[t].conn], ops[t].path),
                        [path |-> ops[t].path, fnum |-> ops[t].fnum])
      BY <1>1, <1>2
    <2> QED BY <1>1, <2>1, <2>2
  <1>8. /\ Sound(list) /\ ToSet(list) = {g \in ToSet(fh_lru[c]) : g.path # h.path} \cup {h}
    <2>1. PICK e \in Seq(HandleType) : /\ e = Erase(fh_lru[c], h.path) /\ Sound(e)
                                       /\ ToSet(e) = {g \in ToSet(fh_lru[c]) : g.path # h.path}
      BY HandleBasics, EraseIs
    <2>2. \A g \in ToSet(e) : g.path # h.path /\ g.fnum # h.fnum
      BY <1>3, <2>1
    <2>3. Sound(Append(e, h)) /\ ToSet(Append(e, h)) = ToSet(e) \cup {h}
      BY <2>1, <2>2, AppendIs
    <2> QED BY <2>1, <2>3
  <1> HIDE DEF list
  <1>9. /\ Sound(fh_lru'[c]) /\ ToSet(fh_lru'[c]) \subseteq ToSet(list)
        /\ full => old \in ToSet(list) /\ ToSet(fh_lru'[c]) = ToSet(list) \ {old}
        /\ ~full => ToSet(fh_lru'[c]) = ToSet(list)
    BY <1>7, <1>8, TailIs
  \* What is in the list is open, on the file at its path, and known.
  <1>10. ASSUME NEW g \in ToSet(list)
         PROVE  /\ g.path \in CachedPaths /\ g.path \in Paths /\ SmbPath[g.path] = g.path
                /\ g.fnum \in Fnums /\ g.fnum \notin lost[c] /\ opened[c][g.fnum] # NoPath
                /\ g = h \/ g \in ToSet(fh_lru[c])
    <2>1. CASE g = h
      BY <1>3, <2>1, PathsAre
    <2>2. CASE g \in ToSet(fh_lru[c])
      BY <2>2, CachedBasics
    <2> QED BY <1>8, <2>1, <2>2
  <1>11. ASSUME NEW g \in ToSet(fh_lru'[c])
         PROVE  /\ g \in ToSet(list) /\ g.fnum \in Fnums
                /\ opened'[c][g.fnum] = opened[c][g.fnum]
                /\ g.fnum \in lost'[c] <=> g.fnum \in lost[c]
    <2>1. g \in ToSet(list) /\ g.fnum \in Fnums /\ (full => g # old /\ old \in ToSet(list))
      BY <1>9, <1>10
    <2>2. full => g.fnum # old.fnum
      BY <1>8, <2>1, SoundSet
    <2> QED BY <1>7, <2>1, <2>2
  <1>12. \A d \in Conns : Sound(fh_lru'[d])
    BY <1>7, <1>9 DEF HandlesInv
  <1>13. OpenIsFile'
    <2> SUFFICES ASSUME NEW d \in Conns, NEW f \in Fnums, opened'[d][f] \in Paths
                 PROVE  opened'[d][f] \in files \cap CachedPaths
      BY <1>1 DEF OpenIsFile
    <2>1. opened'[d][f] = opened[d][f]
      <3>1. CASE d = c /\ full /\ f = old.fnum
        <4>1. Closed(d, f)
          BY <1>7, <3>1
        <4> QED BY <4>1, PathsAre DEF Closed
      <3>2. CASE ~(d = c /\ full /\ f = old.fnum)
        BY <1>7, <3>2
      <3> QED BY <3>1, <3>2
    <2> QED BY <2>1 DEF HandlesInv, OpenIsFile
  <1>14. LostIsOpen'
    <2> SUFFICES ASSUME NEW d \in Conns, NEW f \in Fnums, f \in lost'[d] PROVE opened'[d][f] # NoPath
      BY <1>7 DEF LostIsOpen
    <2>1. CASE d = c /\ full /\ f = old.fnum
      <3>1. Closed(d, f)
        BY <1>7, <2>1
      <3>2. f \notin lost[d]
        BY <1>9, <1>10, <2>1
      <3> QED BY <3>1, <3>2 DEF Closed
    <2>2. CASE ~(d = c /\ full /\ f = old.fnum)
      BY <1>7, <2>2 DEF HandlesInv, LostIsOpen
    <2> QED BY <2>1, <2>2
  <1>15. CachedIsOpen'
    <2> SUFFICES ASSUME NEW d \in Conns, NEW g \in ToSet(fh_lru'[d])
                 PROVE  /\ g.path \in CachedPaths /\ g.fnum \notin lost'[d]
                        /\ \A u \in Threads : ops'[u].pc \in {"rename", "new", "create"} =>
                                                ops'[u].path # g.path
      BY DEF CachedIsOpen
    <2>1. CASE d = c
      <3>1. g.path \in CachedPaths /\ g.fnum \notin lost'[d] /\ (g = h \/ g \in ToSet(fh_lru[c]))
        BY <1>10, <1>11, <2>1
      <3>2. ASSUME NEW u \in Threads, ops'[u].pc \in {"rename", "new", "create"},
                   ops'[u].path = g.path
            PROVE  FALSE
        <4>1. u # t /\ ops'[u] = ops[u]
          BY <1>5, <3>2
        <4>2. CASE g = h
          BY <1>1, <1>2, <3>2, <4>1, <4>2, Alone DEF Transferring
        <4>3. CASE g \in ToSet(fh_lru[c])
          BY <3>2, <4>1, <4>3 DEF HandlesInv, CachedIsOpen
        <4> QED BY <3>1, <4>2, <4>3
      <3> QED BY <3>1, <3>2
    <2>2. CASE d # c
      <3>1. g \in ToSet(fh_lru[d]) /\ g.fnum \in Fnums
        BY <1>7, <2>2, HandleBasics
      <3>2. g.fnum \in lost'[d] <=> g.fnum \in lost[d]
        BY <1>7, <2>2, <3>1
      <3> QED BY <1>5, <3>1, <3>2 DEF HandlesInv, CachedIsOpen
    <2> QED BY <2>1, <2>2
  <1>16. CachedHandleValid'
    <2> SUFFICES ASSUME NEW d \in Conns, NEW g \in ToSet(fh_lru'[d])
                 PROVE  \/ opened'[d][g.fnum] = SmbPath[g.path]
                        \/ /\ opened'[d][g.fnum] = Gone
                           /\ \E u \in Threads : /\ ops'[u].pc = "forget"
                                                 /\ SmbPath[ops'[u].path] = SmbPath[g.path]
      BY DEF CachedHandleValid
    <2>1. CASE d = c /\ g = h
      BY <1>3, <1>11, <2>1
    <2>2. CASE ~(d = c /\ g = h)
      <3>1. g \in ToSet(fh_lru[d]) /\ g.fnum \in Fnums
        BY <1>7, <1>10, <1>11, <2>2, HandleBasics
      <3>2. opened'[d][g.fnum] = opened[d][g.fnum]
        BY <1>7, <1>11, <3>1
      <3>3. \/ opened[d][g.fnum] = SmbPath[g.path]
            \/ /\ opened[d][g.fnum] = Gone
               /\ \E u \in Threads : ops[u].pc = "forget" /\ SmbPath[ops[u].path] = SmbPath[g.path]
        BY <3>1 DEF HandlesInv, CachedHandleValid
      <3> QED BY <1>1, <1>5, <3>2, <3>3
    <2> QED BY <2>1, <2>2
  <1>17. ASSUME NEW u \in Threads, u # t, ops[u].fnum # InvalidFnum \/ ops[u].pc \in Transferring
         PROVE  /\ ops[u].conn \in Conns /\ fh_lru'[ops[u].conn] = fh_lru[ops[u].conn]
                /\ ops[u].conn # c
    <2>1. ops[u].conn \in Conns
      BY <1>17, OpBasics
    <2>2. ops[u].conn # c
      BY <1>1, <1>17, <2>1, Alone
    <2> QED BY <1>7, <2>1, <2>2
  <1>18. ASSUME NEW u \in Threads, u # t, ops[u].fnum # InvalidFnum
         PROVE  /\ opened'[ops[u].conn][ops[u].fnum] = SmbPath[ops[u].path]
                /\ ops[u].fnum \notin lost'[ops[u].conn]
    <2>1. /\ opened[ops[u].conn][ops[u].fnum] = SmbPath[ops[u].path]
          /\ ops[u].fnum \notin lost[ops[u].conn] /\ ops[u].fnum \in Fnums
      BY <1>18, OpBasics DEF HandlesInv, TransfersOwnFile, OwnHandle
    <2>2. ops[u].conn \in Conns /\ ops[u].conn # c
      BY <1>17, <1>18
    <2> QED BY <1>7, <2>1, <2>2
  <1>19. TransfersOwnFile'
    BY <1>5, <1>18 DEF TransfersOwnFile
  <1>20. NoLeakedHandle'
    <2> SUFFICES ASSUME NEW d \in Conns, NEW f \in Fnums, opened'[d][f] # NoPath
                 PROVE  \/ \E g \in ToSet(fh_lru'[d]) : g.fnum = f
                        \/ \E u \in Threads : ops'[u].conn = d /\ ops'[u].fnum = f
                        \/ f \in lost'[d]
      BY DEF NoLeakedHandle
    <2>1. CASE d = c /\ full /\ f = old.fnum
      <3>1. Closed(d, f)
        BY <1>7, <2>1
      <3> QED BY <3>1 DEF Closed
    <2>2. CASE ~(d = c /\ full /\ f = old.fnum)
      <3>1. opened[d][f] # NoPath /\ (f \in lost'[d] <=> f \in lost[d])
        BY <1>7, <2>2
      <3>2. \/ \E g \in ToSet(fh_lru[d]) : g.fnum = f
            \/ \E u \in Threads : ops[u].conn = d /\ ops[u].fnum = f
            \/ f \in lost[d]
        BY <3>1 DEF HandlesInv, NoLeakedHandle
      <3>3. ASSUME d = c, NEW g \in ToSet(list), g.fnum = f PROVE g \in ToSet(fh_lru'[d])
        BY <1>9, <2>2, <3>3
      <3>4. ASSUME NEW g \in ToSet(fh_lru[d]), g.fnum = f
            PROVE  \E x \in ToSet(fh_lru'[d]) : x.fnum = f
        <4>1. CASE d # c
          BY <1>7, <3>4, <4>1
        <4>2. CASE d = c
          <5>1. \E x \in ToSet(list) : x.fnum = f
            BY <1>3, <1>8, <3>4, <4>2
          <5> QED BY <3>3, <4>2, <5>1
        <4> QED BY <4>1, <4>2
      <3>5. ASSUME NEW u \in Threads, ops[u].conn = d, ops[u].fnum = f
            PROVE  \/ \E g \in ToSet(fh_lru'[d]) : g.fnum = f
                   \/ \E v \in Threads : ops'[v].conn = d /\ ops'[v].fnum = f
        <4>1. CASE u = t
          <5>1. d = c /\ h \in ToSet(list) /\ h.fnum = f
            BY <1>1, <1>2, <1>8, <3>5, <4>1
          <5> QED BY <3>3, <5>1
        <4>2. CASE u # t
          BY <1>5, <3>5, <4>2
        <4> QED BY <4>1, <4>2
      <3> QED BY <3>1, <3>2, <3>4, <3>5
    <2> QED BY <2>1, <2>2
  <1>21. ASSUME NEW u \in Threads PROVE OwnHandle(u)'
    <2>1. CASE u = t
      BY <1>5, <2>1, NoHandle
    <2>2. CASE u # t
      <3>1. OwnHandle(u) /\ ops'[u] = ops[u]
        BY <1>5, <2>2 DEF HandlesInv
      <3>2. ops[u].pc \in {"transfer", "update"} => ops[u].pc \in Transferring
        BY DEF Transferring
      <3> QED BY <1>17, <1>18, <2>2, <3>1, <3>2 DEF OwnHandle
    <2> QED BY <2>1, <2>2
  <1> QED BY <1>6, <1>12, <1>13, <1>14, <1>15, <1>16, <1>19, <1>20, <1>21 DEF HandlesInv

\* Every step keeps the invariant.
LEMMA NextInv ==
  ASSUME CarefulClients, TypeOK, HandlesInv, [Next]_vars
  PROVE  HandlesInv'
  <1>0. OpsNamed' /\ OpsNamed /\ OpsAlone
    BY NextTypes DEF HandlesInv
  <1>1. CASE UNCHANGED vars
    <2>1. UNCHANGED <<fh_lru, opened, lost, files, ops>>
      BY <1>1 DEF vars
    <2>2. OpsAlone'
      BY <1>0, <2>1 DEF OpsAlone, FilesOf
    <2>3. (OpenIsFile /\ LostIsOpen /\ CachedIsOpen)'
      BY <2>1 DEF HandlesInv, OpenIsFile, LostIsOpen, CachedIsOpen
    <2>4. (CachedHandleValid /\ TransfersOwnFile /\ NoLeakedHandle)'
      BY <2>1 DEF HandlesInv, CachedHandleValid, TransfersOwnFile, NoLeakedHandle
    <2>5. (\A c \in Conns : Sound(fh_lru[c]))' /\ (\A t \in Threads : OwnHandle(t))'
      BY <2>1 DEF HandlesInv, OwnHandle
    <2> QED BY <1>0, <2>2, <2>3, <2>4, <2>5 DEF HandlesInv
  <1>2. ASSUME NEW t \in Threads, PcSteps(t) PROVE HandlesInv'
    <2>1. PICK r \in OpType :
              /\ ops' = [ops EXCEPT ![t] = r] /\ OpNamed(r)
              /\ \/ r = NoOp
                 \/ /\ r.pc # "idle" /\ r.path = ops[t].path /\ r.source = ops[t].source
                    /\ r.pc \in Transferring <=> ops[t].pc \in Transferring
                    /\ r.conn \in {ops[t].conn, NoConn} \/ Reconnect(t)
      BY <1>0, <1>2, PcStepsIs
    <2>2. ops'[t] = r /\ ops[t].pc # "idle" /\ ops[t] \in OpType
      BY <1>0, <1>2, <2>1, PcStepsIs DEF TypeOK
    <2>3. Reconnect(t) => r = NoOp \/ r.conn \in FreeConns
      <3> SUFFICES ASSUME Reconnect(t), r # NoOp PROVE r.conn \in FreeConns
        OBVIOUS
      <3>1. PICK c \in FreeConns : ops' = [ops EXCEPT ![t].conn = c]
        BY <2>1, <2>2 DEF Reconnect, TypeOK
      <3>2. PICK op \in OpType : op = ops[t]
        BY <2>2
      <3>3. r = [op EXCEPT !.conn = c]
        BY <2>2, <3>1, <3>2 DEF TypeOK
      <3>4. r.conn = c
        BY <3>3 DEF OpType
      <3> QED BY <3>4
    <2>4. OpsAlone'
      <3>1. CASE r = NoOp
        BY <1>0, <2>1, <3>1, OpsAloneKept
      <3>2. CASE r # NoOp
        <4>1. r.conn \in {ops[t].conn, NoConn} \cup FreeConns
          BY <2>1, <2>3, <3>2
        <4> QED BY <1>0, <2>1, <2>2, <3>2, <4>1, OpsAloneKept
      <3> QED BY <3>1, <3>2
    <2>5. CASE Purges(t)
      <3>1. r.pc \in {"idle", "rename", "new"}
        <4>1. CASE r = NoOp
          BY <4>1, NoOpIs
        <4>2. CASE r # NoOp
          <5>1. PICK x \in {"rename", "new"} : ops' = [ops EXCEPT ![t].pc = x]
            <6>1. CASE PurgeTarget(t)
              BY <6>1 DEF PurgeTarget
            <6>2. CASE PurgeTmpHandle(t)
              <7>1. ops' # [ops EXCEPT ![t] = NoOp]
                BY <2>2, <4>2 DEF TypeOK
              <7> QED BY <6>2, <7>1 DEF PurgeTmpHandle
            <6> QED BY <2>5, <6>1, <6>2 DEF Purges
          <5>2. PICK op \in OpType : op = ops[t]
            BY <2>2
          <5>3. r = [op EXCEPT !.pc = x]
            BY <2>2, <5>1, <5>2 DEF TypeOK
          <5>4. r.pc = x
            BY <5>3 DEF OpType
          <5> QED BY <5>4
        <4> QED BY <4>1, <4>2
      <3>2. r.fnum = InvalidFnum
        BY <2>1, <3>1 DEF OpNamed
      <3>3. r.pc # "idle" => r.path = ops[t].path
        BY <2>1, NoOpIs
      <3> QED BY <1>0, <2>1, <2>4, <2>5, <3>1, <3>2, <3>3, PurgeInv
    <2>6. CASE LookupHandle(t)
      BY <1>0, <2>4, <2>6, LookupInv
    <2>7. CASE DeleteTmpEntity(t)
      BY <1>0, <2>4, <2>7, DeleteTmpInv
    <2>8. CASE \/ RenameEntity(t) \/ FinalizeRename(t) \/ RemoveEntity(t) \/ CreateSymlink(t)
               \/ DeleteFinal(t) \/ CreateRegularFile(t) \/ EndOp(t) \/ Reconnect(t)
      BY <1>0, <2>1, <2>4, <2>8, FileSteps
    <2> QED BY <1>2, <2>5, <2>6, <2>7, <2>8 DEF PcSteps, Purges
  <1>3. ASSUME NEW t \in Threads, ConnectionLost(t) PROVE HandlesInv'
    <2>1. PICK c \in Conns : c = ops[t].conn
      BY <1>3, OpBasics DEF ConnectionLost
    <2>2. /\ ops[t].pc = "transfer" /\ ShutdownSmbConnection(c) /\ files' = files
          /\ ops' = [ops EXCEPT ![t] = NoOp]
      BY <1>3, <2>1 DEF ConnectionLost
    <2> QED BY <1>0, <2>1, <2>2, ShutdownInv, NoOpIs
  <1>4. ASSUME NEW t \in Threads, RetryOp(t) PROVE HandlesInv'
    <2>1. PICK c \in Conns : c = ops[t].conn /\ ShutdownSmbConnection(c) /\ files' = files
      BY <1>0, <1>4, RetryIs
    <2>2. PICK r \in OpType :
              /\ ops' = [ops EXCEPT ![t] = r]
              /\ \/ r = NoOp
                 \/ /\ r.pc = TryFrom[ops[t].pc] /\ r.conn = NoConn /\ r.path = ops[t].path
                    /\ r.source = ops[t].source /\ r.fnum = ops[t].fnum
                    /\ r.num_retries <= MaxRetries
      BY <1>0, <1>4, RetryIs
    <2>3. ops[t].pc \in {"renamed", "moved", "linked"}
      BY <1>0, <1>4, RetryIs DEF TryFrom
    <2>4. ops[t].fnum = InvalidFnum
      BY <2>3, OpBasics
    <2>5. /\ r.fnum = InvalidFnum /\ ops[t].pc # "forget"
          /\ r.pc \notin {"transfer", "update", "rename", "new", "create"}
          /\ ops[t].pc \notin Transferring \cup {"idle"}
      BY <2>2, <2>3, <2>4, NoOpIs DEF TryFrom, Transferring
    <2> QED BY <1>0, <2>1, <2>2, <2>5, ShutdownInv
  <1>5. ASSUME NEW t \in Threads, NEW p \in ClientPaths, NEW c \in Conns,
               \/ StartTransfer(t, p, c) \/ StartRemove(t, p, c) \/ StartSymlink(t, p, c)
               \/ \E q \in MovedPaths : \/ StartRename(t, p, q, c) \/ StartFinalize(t, p, q, c)
                                        \/ StartRestore(t, p, q, c)
        PROVE  HandlesInv'
    BY <1>0, <1>5, StartInv
  <1>6. ASSUME NEW t \in Threads, Transfer(t) \/ UpdateFileHandle(t) PROVE HandlesInv'
    BY <1>0, <1>6, TransferInv, UpdateInv
  <1> QED BY <1>1, <1>2, <1>3, <1>4, <1>5, <1>6 DEF Next, PcSteps

\* With careful clients, HandlesInv holds of every state: lists without duplicates, RPCs
\* that keep out of each other's way, and every open handle known and on the file it is for.
THEOREM HandlesInvariant == ASSUME CarefulClients PROVE Spec => [](TypeOK /\ HandlesInv)
  <1>1. Init => TypeOK /\ HandlesInv
    <2> SUFFICES ASSUME Init PROVE TypeOK /\ HandlesInv
      OBVIOUS
    <2>1. <<>> \in Seq(HandleType) /\ Len(<<>>) = 0 /\ 0 <= MaxHandles
      BY HandlesAssumption
    <2>2. Sound(<<>>) /\ ToSet(<<>>) = {}
      BY DEF Sound, ToSet
    <2>3. {SmbPath[p] : p \in ClientPaths} \subseteq Paths
      BY HandlesAssumption
    <2>4. TypeOK
      BY <2>1, <2>3, NoOpIs DEF Init, TypeOK
    <2>5. /\ \A t \in Threads : ops[t] = NoOp
          /\ \A c \in Conns : /\ fh_lru[c] = <<>> /\ lost[c] = {}
                              /\ \A f \in Fnums : opened[c][f] = NoPath
      BY DEF Init
    <2>6. OpsNamed /\ OpsAlone /\ TransfersOwnFile /\ \A t \in Threads : OwnHandle(t)
      BY <2>5, NoOpIs DEF OpsNamed, OpsAlone, FilesOf, TransfersOwnFile, OwnHandle, Transferring
    <2>7. /\ OpenIsFile /\ LostIsOpen /\ CachedIsOpen /\ CachedHandleValid /\ NoLeakedHandle
          /\ \A c \in Conns : Sound(fh_lru[c])
      BY <2>2, <2>5, PathsAre DEF OpenIsFile, LostIsOpen, CachedIsOpen, CachedHandleValid,
                                  NoLeakedHandle
    <2> QED BY <2>4, <2>6, <2>7 DEF HandlesInv
  <1>2. TypeOK /\ HandlesInv /\ [Next]_vars => TypeOK' /\ HandlesInv'
    <2>1. HandlesInv => OpsNamed
      BY DEF HandlesInv
    <2> QED BY <2>1, NextTypes, NextInv
  <1> QED BY <1>1, <1>2, PTL DEF Spec

\* UpdateFileHandle and PurgeFileHandle: what a connection has cached is open on the file
\* that is at the path, also while other threads use the connection.
THEOREM CachedHandleValidHolds == ASSUME CarefulClients PROVE Spec => []CachedHandleValid
  <1>1. HandlesInv => CachedHandleValid
    BY DEF HandlesInv
  <1> QED BY <1>1, HandlesInvariant, PTL

\* ReadBytesFromOffset and WriteBytesToOffset, with a handle that is cached or was opened in
\* an earlier try: it is on the file of the path and not on another.
THEOREM TransfersOwnFileHolds == ASSUME CarefulClients PROVE Spec => []TransfersOwnFile
  <1>1. HandlesInv => TransfersOwnFile
    BY DEF HandlesInv
  <1> QED BY <1>1, HandlesInvariant, PTL

\* Handles that are evicted, purged or shut down with their connection are closed; only those
\* whose close failed, and those of a transfer that returned early, are lost.
THEOREM NoLeakedHandleHolds == ASSUME CarefulClients PROVE Spec => []NoLeakedHandle
  <1>1. HandlesInv => NoLeakedHandle
    BY DEF HandlesInv
  <1> QED BY <1>1, HandlesInvariant, PTL

\* RenameEntityOp: no connection of the task has a cached handle on the target when the
\* rename is sent.
THEOREM RenamePurgedHolds == ASSUME CarefulClients PROVE Spec => []RenamePurged
  <1>1. TypeOK /\ HandlesInv => RenamePurged
    <2> SUFFICES ASSUME TypeOK, HandlesInv, NEW t \in Threads, ops[t].pc = "rename",
                        NEW c \in Conns, NEW h \in ToSet(fh_lru[c]),
                        opened[c][h.fnum] = SmbPath[ops[t].path]
                 PROVE  FALSE
      BY DEF RenamePurged
    <2>1. ops[t].path \in Paths /\ SmbPath[ops[t].path] = ops[t].path
      BY OpBasics
    <2>2. h.path = ops[t].path
      BY <2>1, CachedBasics, PathsAre
    <2> QED BY <2>2 DEF HandlesInv, CachedIsOpen
  <1> QED BY <1>1, HandlesInvariant, PTL

=============================================================================
