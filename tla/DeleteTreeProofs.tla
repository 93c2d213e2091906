--------------------------- MODULE DeleteTreeProofs ---------------------------
(***************************************************************************)
(* Theorems about MkDirWithParents and DeleteEntityOp on one tree, for any *)
(* threads, directories and files, and any size of the parts that a        *)
(* listing comes in: types, ExistingKept, MakeRaceIsHarmless, OkMeansGone  *)
(* and DeleteSucceeds.                                                     *)
(***************************************************************************)
EXTENDS DeleteTree, SequenceTheorems, TLAPS

-----------------------------------------------------------------------------
(* Sequences. *)

\* A sequence without its front, or with one more element before it.
LEMMA HeadChanges ==
  ASSUME NEW S, NEW s \in Seq(S)
  PROVE  /\ Len(s) \in Nat /\ DOMAIN s = 1..Len(s) /\ \A k \in DOMAIN s : s[k] \in S
         /\ \A x \in S : /\ <<x>> \o s \in Seq(S) /\ <<x>> \o s # <<>>
                         /\ Head(<<x>> \o s) = x /\ Len(<<x>> \o s) = Len(s) + 1
                         /\ \A k \in 1..Len(s) : (<<x>> \o s)[k + 1] = s[k]
                         /\ ToSet(<<x>> \o s) = {x} \cup ToSet(s)
         /\ s # <<>> => /\ Len(s) > 0 /\ Head(s) = s[1] /\ Head(s) \in S
                        /\ Head(s) \in ToSet(s)
                        /\ Tail(s) \in Seq(S) /\ Len(Tail(s)) = Len(s) - 1
                        /\ \A k \in 1..(Len(s) - 1) : Tail(s)[k] = s[k + 1]
                        /\ ToSet(Tail(s)) \subseteq ToSet(s)
                        /\ Len(s) # 1 => Tail(s) # <<>> /\ Head(Tail(s)) = s[2]
  <1>1. Len(s) \in Nat /\ DOMAIN s = 1..Len(s) /\ \A k \in DOMAIN s : s[k] \in S
    BY LenProperties
  <1>2. ASSUME NEW x \in S
        PROVE  /\ <<x>> \o s \in Seq(S) /\ <<x>> \o s # <<>>
               /\ Head(<<x>> \o s) = x /\ Len(<<x>> \o s) = Len(s) + 1
               /\ \A k \in 1..Len(s) : (<<x>> \o s)[k + 1] = s[k]
               /\ ToSet(<<x>> \o s) = {x} \cup ToSet(s)
    <2> DEFINE u == <<x>>
               r == u \o s
    <2>1. u \in Seq(S) /\ Len(u) = 1 /\ u[1] = x
      OBVIOUS
    <2> HIDE DEF u
    <2>2. /\ r \in Seq(S) /\ Len(r) = Len(u) + Len(s)
          /\ \A k \in 1..(Len(u) + Len(s)) : r[k] = IF k <= Len(u) THEN u[k] ELSE s[k - Len(u)]
      BY <2>1, ConcatProperties
    <2> HIDE DEF r
    <2>3. /\ Len(r) = Len(s) + 1 /\ DOMAIN r = 1..(Len(s) + 1) /\ r[1] = x
          /\ \A k \in 1..Len(s) : r[k + 1] = s[k]
      <3>1. Len(r) = Len(s) + 1
        BY <1>1, <2>1, <2>2
      <3>2. DOMAIN r = 1..(Len(s) + 1)
        BY <2>2, <3>1, LenProperties
      <3>3. r[1] = x
        BY <1>1, <2>1, <2>2
      <3>4. ASSUME NEW k \in 1..Len(s) PROVE r[k + 1] = s[k]
        <4>1. k + 1 \in 1..(Len(u) + Len(s)) /\ ~(k + 1 <= Len(u)) /\ (k + 1) - Len(u) = k
          BY <1>1, <2>1
        <4> QED BY <2>2, <4>1
      <3> QED BY <3>1, <3>2, <3>3, <3>4
    <2>4. r # <<>> /\ Head(r) = x
      <3>1. r # <<>>
        BY <1>1, <2>2, <2>3, EmptySeq
      <3> QED BY <2>2, <2>3, <3>1, HeadTailProperties
    <2>5. ToSet(r) = {x} \cup ToSet(s)
      <3>1. ASSUME NEW y \in ToSet(r) PROVE y \in {x} \cup ToSet(s)
        <4>1. PICK k \in 1..(Len(s) + 1) : y = r[k]
          BY <2>3 DEF ToSet
        <4>2. CASE k = 1
          BY <2>3, <4>1, <4>2
        <4>3. CASE k # 1
          <5>1. k - 1 \in 1..Len(s) /\ (k - 1) + 1 = k
            BY <1>1, <4>1, <4>3
          <5>2. y = s[k - 1]
            BY <2>3, <4>1, <5>1
          <5> QED BY <1>1, <5>1, <5>2 DEF ToSet
        <4> QED BY <4>2, <4>3
      <3>2. x \in ToSet(r)
        <4>1. 1 \in DOMAIN r
          BY <1>1, <2>3
        <4> QED BY <2>3, <4>1 DEF ToSet
      <3>3. ASSUME NEW y \in ToSet(s) PROVE y \in ToSet(r)
        <4>1. PICK k \in 1..Len(s) : y = s[k]
          BY <1>1 DEF ToSet
        <4>2. k + 1 \in DOMAIN r /\ r[k + 1] = y
          BY <1>1, <2>3, <4>1
        <4> QED BY <4>2 DEF ToSet
      <3> QED BY <3>1, <3>2, <3>3
    <2> QED BY <2>2, <2>3, <2>4, <2>5 DEF r, u
  <1>3. ASSUME s # <<>>
        PROVE  /\ Len(s) > 0 /\ Head(s) = s[1] /\ Head(s) \in S
               /\ Head(s) \in ToSet(s)
               /\ Tail(s) \in Seq(S) /\ Len(Tail(s)) = Len(s) - 1
               /\ \A k \in 1..(Len(s) - 1) : Tail(s)[k] = s[k + 1]
               /\ ToSet(Tail(s)) \subseteq ToSet(s)
               /\ Len(s) # 1 => Tail(s) # <<>> /\ Head(Tail(s)) = s[2]
    <2>1. Len(s) > 0
      BY <1>1, <1>3, EmptySeq
    <2> DEFINE r == Tail(s)
    <2>2. /\ Head(s) = s[1] /\ Head(s) \in S /\ r \in Seq(S) /\ Len(r) = Len(s) - 1
          /\ \A k \in 1..(Len(s) - 1) : r[k] = s[k + 1]
      BY <1>1, <1>3, <2>1, HeadTailProperties
    <2> HIDE DEF r
    <2>3. Head(s) \in ToSet(s)
      <3>1. 1 \in DOMAIN s
        BY <1>1, <2>1
      <3> QED BY <2>2, <3>1 DEF ToSet
    <2>4. ToSet(r) \subseteq ToSet(s)
      <3> SUFFICES ASSUME NEW y \in ToSet(r) PROVE y \in ToSet(s)
        OBVIOUS
      <3>1. DOMAIN r = 1..(Len(s) - 1)
        BY <2>2, LenProperties
      <3>2. PICK k \in 1..(Len(s) - 1) : y = r[k]
        BY <3>1 DEF ToSet
      <3>3. k + 1 \in DOMAIN s /\ y = s[k + 1]
        BY <1>1, <2>2, <3>2
      <3> QED BY <3>3 DEF ToSet
    <2>5. Len(s) # 1 => r # <<>> /\ Head(r) = s[2]
      <3> HAVE Len(s) # 1
      <3>1. 1 \in 1..(Len(s) - 1)
        BY <1>1, <2>1
      <3>2. r # <<>>
        BY <1>1, <2>2, <3>1, EmptySeq
      <3>3. Head(r) = r[1]
        BY <2>2, <3>2, HeadTailProperties
      <3> QED BY <2>2, <3>1, <3>2, <3>3
    <2> QED BY <2>1, <2>2, <2>3, <2>4, <2>5 DEF r
  <1> QED BY <1>1, <1>2, <1>3

\* The last element of a sequence, and the sequence without it.
LEMMA LastChanges ==
  ASSUME NEW S, NEW s \in Seq(S), s # <<>>
  PROVE  /\ Len(s) \in Nat /\ Len(s) > 0 /\ DOMAIN s = 1..Len(s)
         /\ \A k \in DOMAIN s : s[k] \in S
         /\ Last(s) = s[Len(s)] /\ Last(s) \in S /\ Last(s) \in ToSet(s)
         /\ Front(s) \in Seq(S) /\ Len(Front(s)) = Len(s) - 1
         /\ Front(s) = <<>> <=> Len(s) = 1
         /\ \A k \in 1..(Len(s) - 1) : Front(s)[k] = s[k]
         /\ ToSet(Front(s)) \subseteq ToSet(s)
  <1>1. Len(s) \in Nat /\ DOMAIN s = 1..Len(s) /\ \A k \in DOMAIN s : s[k] \in S
    BY LenProperties
  <1>2. Len(s) > 0
    BY <1>1, EmptySeq
  <1>3. Last(s) = s[Len(s)] /\ Last(s) \in S /\ Last(s) \in ToSet(s)
    <2>1. Len(s) \in DOMAIN s
      BY <1>1, <1>2
    <2> QED BY <1>1, <2>1 DEF Last, ToSet
  <1> DEFINE f == Front(s)
  <1>4. /\ f \in Seq(S) /\ Len(f) = Len(s) - 1 /\ \A k \in 1..(Len(s) - 1) : f[k] = s[k]
    <2>1. \A k \in 1..(Len(s) - 1) : s[k] \in S
      BY <1>1
    <2>2. /\ SubSeq(s, 1, Len(s) - 1) \in Seq(S)
          /\ Len(SubSeq(s, 1, Len(s) - 1)) = IF 1 <= Len(s) - 1 THEN (Len(s) - 1) - 1 + 1 ELSE 0
          /\ \A k \in 1..((Len(s) - 1) - 1 + 1) : SubSeq(s, 1, Len(s) - 1)[k] = s[1 + k - 1]
      BY <1>1, <1>2, <2>1, SubSeqProperties
    <2>3. \A k \in 1..(Len(s) - 1) : k \in 1..((Len(s) - 1) - 1 + 1) /\ 1 + k - 1 = k
      BY <1>1
    <2> QED BY <1>1, <1>2, <2>2, <2>3 DEF Front
  <1> HIDE DEF f
  <1>5. DOMAIN f = 1..(Len(s) - 1)
    BY <1>4, LenProperties
  <1>6. f = <<>> <=> Len(s) = 1
    BY <1>1, <1>2, <1>4, EmptySeq
  <1>7. ToSet(f) \subseteq ToSet(s)
    <2> SUFFICES ASSUME NEW y \in ToSet(f) PROVE y \in ToSet(s)
      OBVIOUS
    <2>1. PICK k \in 1..(Len(s) - 1) : y = f[k]
      BY <1>5 DEF ToSet
    <2>2. k \in DOMAIN s /\ y = s[k]
      BY <1>1, <1>4, <2>1
    <2> QED BY <2>2 DEF ToSet
  <1> QED BY <1>1, <1>2, <1>3, <1>4, <1>6, <1>7 DEF f

\* The last element is replaced by x.
LEMMA LastReplaced ==
  ASSUME NEW S, NEW s \in Seq(S), s # <<>>, NEW x \in S
  PROVE  /\ Append(Front(s), x) \in Seq(S) /\ Append(Front(s), x) # <<>>
         /\ Len(Append(Front(s), x)) = Len(s)
         /\ Append(Front(s), x)[Len(s)] = x
         /\ \A k \in 1..(Len(s) - 1) : Append(Front(s), x)[k] = s[k]
  <1> DEFINE f == Front(s)
             r == Append(f, x)
  <1>1. /\ f \in Seq(S) /\ Len(f) = Len(s) - 1 /\ Len(s) \in Nat /\ Len(s) > 0
        /\ \A k \in 1..(Len(s) - 1) : f[k] = s[k]
    BY LastChanges
  <1> HIDE DEF f
  <1>2. /\ r \in Seq(S) /\ Len(r) = Len(f) + 1 /\ r[Len(f) + 1] = x
        /\ \A k \in 1..Len(f) : r[k] = f[k]
    BY <1>1, AppendProperties
  <1> HIDE DEF r
  <1>3. Len(r) = Len(s) /\ Len(f) + 1 = Len(s)
    BY <1>1, <1>2
  <1>4. r # <<>>
    BY <1>1, <1>2, <1>3, EmptySeq
  <1> QED BY <1>1, <1>2, <1>3, <1>4 DEF r, f

-----------------------------------------------------------------------------
(* MkDirWithParents. *)

\* The fields of a call, and of one that goes on.
LEMMA CallRecords ==
  ASSUME NEW c \in CallType
  PROVE  /\ c.path \in Dirs \cup {NoDir} /\ c.todo \in Seq(Dirs) /\ c.own \in SUBSET Dirs
         /\ c.newly_created_dirs \in Seq(Dirs)
         /\ \A x \in {"make", "check", "clean"} :
              /\ [c EXCEPT !.pc = x] \in CallType /\ [c EXCEPT !.pc = x].pc = x
              /\ [c EXCEPT !.pc = x].todo = c.todo
              /\ [c EXCEPT !.pc = x].newly_created_dirs = c.newly_created_dirs
         /\ \A s \in Seq(Dirs) :
              /\ [c EXCEPT !.todo = s] \in CallType /\ [c EXCEPT !.todo = s].todo = s
              /\ [c EXCEPT !.todo = s].pc = c.pc
              /\ [c EXCEPT !.todo = s].newly_created_dirs = c.newly_created_dirs
              /\ [c EXCEPT !.newly_created_dirs = s] \in CallType
              /\ [c EXCEPT !.newly_created_dirs = s].newly_created_dirs = s
              /\ [c EXCEPT !.newly_created_dirs = s].pc = c.pc
              /\ [c EXCEPT !.newly_created_dirs = s].todo = c.todo
         /\ \A d \in Dirs : /\ [c EXCEPT !.path = d] \in CallType
                            /\ [c EXCEPT !.path = d].path = d
                            /\ [c EXCEPT !.path = d].pc = c.pc
                            /\ [c EXCEPT !.path = d].todo = c.todo
                            /\ [c EXCEPT !.path = d].newly_created_dirs = c.newly_created_dirs
         /\ \A s, n \in Seq(Dirs), o \in SUBSET Dirs :
              LET r == [c EXCEPT !.pc = "make", !.todo = s, !.newly_created_dirs = n, !.own = o]
              IN  r \in CallType /\ r.pc = "make" /\ r.todo = s /\ r.newly_created_dirs = n
  BY DEF CallType

\* The call of a thread that is in none, and the one it begins with.
LEMMA NewCalls ==
  /\ NoCall \in CallType /\ NoCall.pc = "idle" /\ NoCall.todo = <<>>
  /\ NoCall.newly_created_dirs = <<>> /\ ToSet(<<>>) = {}
  /\ \A d \in Dirs :
       LET r == [NoCall EXCEPT !.pc = "stat", !.path = d]
       IN  /\ r \in CallType /\ r.pc = "stat" /\ r.path = d /\ r.todo = <<>>
           /\ r.newly_created_dirs = <<>>
  <1>1. <<>> \in Seq(Dirs) /\ ToSet(<<>>) = {}
    BY EmptySeq DEF ToSet
  <1> QED BY <1>1 DEF NoCall, CallType

\* One call changes; dirs and what was there before may change with it.
LEMMA CallMoves ==
  ASSUME TypeOK, CreatesMissing, NEW t \in Threads, NEW r \in CallType,
         calls' = [calls EXCEPT ![t] = r],
         r.pc \in {"make", "check"} => r.todo # <<>>, r.pc = "stat" => r.path \in Dirs,
         dirs' \subseteq Dirs, failed' \in BOOLEAN, before' \in [Threads -> SUBSET Dirs],
         \A u \in Threads : before'[u] \subseteq dirs' /\ (u # t => before'[u] \subseteq before[u]),
         ToSet(r.todo) \cap before'[t] = {}, ToSet(r.newly_created_dirs) \cap before'[t] = {}
  PROVE  /\ TypeOK' /\ CreatesMissing'
         /\ calls'[t] = r /\ \A u \in Threads : u # t => calls'[u] = calls[u]
  <1>1. /\ calls' \in [Threads -> CallType] /\ calls'[t] = r
        /\ \A u \in Threads : u # t => calls'[u] = calls[u]
    BY DEF TypeOK
  <1>2. TypeOK'
    BY <1>1 DEF TypeOK
  <1>3. CreatesMissing'
    <2> SUFFICES ASSUME NEW u \in Threads
                 PROVE  /\ before'[u] \subseteq dirs'
                        /\ ToSet(calls'[u].todo) \cap before'[u] = {}
                        /\ ToSet(calls'[u].newly_created_dirs) \cap before'[u] = {}
      BY DEF CreatesMissing
    <2>1. CASE u = t
      BY <1>1, <2>1
    <2>2. CASE u # t
      BY <1>1, <2>2 DEF CreatesMissing
    <2> QED BY <2>1, <2>2
  <1> QED BY <1>1, <1>2, <1>3

\* A path to be made stays one when directories are added.
LEMMA PathKept ==
  ASSUME NEW c, OnPath(c), dirs \subseteq dirs'
  PROVE  OnPath(c)'
  BY DEF OnPath

\* So it is for all threads, if it is for the one that steps.
LEMMA PathsKept ==
  ASSUME PathToMake, NEW t \in Threads, NEW r, calls'[t] = r, OnPath(r)', dirs \subseteq dirs',
         \A u \in Threads : u # t => calls'[u] = calls[u]
  PROVE  PathToMake'
  <1> SUFFICES ASSUME NEW u \in Threads PROVE OnPath(calls[u])'
    BY DEF PathToMake
  <1>1. CASE u = t
    BY <1>1 DEF OnPath
  <1>2. CASE u # t
    <2>1. PICK c : c = calls[u]
      OBVIOUS
    <2>2. OnPath(c)
      BY <2>1 DEF PathToMake
    <2>3. OnPath(c)'
      BY <2>2, PathKept
    <2> QED BY <1>2, <2>1, <2>3 DEF OnPath
  <1> QED BY <1>1, <1>2

\* A call that returns.
LEMMA ReturnMoves ==
  ASSUME TypeOK, CreatesMissing, NEW t \in Threads, Return(t), dirs \subseteq dirs',
         dirs' \subseteq Dirs, failed' \in BOOLEAN
  PROVE  /\ TypeOK' /\ CreatesMissing' /\ (PathToMake => PathToMake')
         /\ \A u \in Threads : u # t => calls'[u] = calls[u]
  <1>1. calls' = [calls EXCEPT ![t] = NoCall] /\ before' = [before EXCEPT ![t] = {}]
    BY DEF Return
  <1>2. /\ before' \in [Threads -> SUBSET Dirs] /\ before'[t] = {}
        /\ \A u \in Threads : before'[u] \subseteq dirs' /\ (u # t => before'[u] \subseteq before[u])
    BY <1>1 DEF TypeOK, CreatesMissing
  <1>3. PICK r : r = NoCall
    OBVIOUS
  <1>4. /\ TypeOK' /\ CreatesMissing'
        /\ calls'[t] = r /\ \A u \in Threads : u # t => calls'[u] = calls[u]
    <2>1. /\ r \in CallType /\ r.pc = "idle" /\ calls' = [calls EXCEPT ![t] = r]
          /\ ToSet(r.todo) = {} /\ ToSet(r.newly_created_dirs) = {}
      BY <1>1, <1>3, NewCalls
    <2> QED BY <1>2, <2>1, CallMoves
  <1>5. OnPath(r)'
    <2>1. r.pc = "idle" /\ r.todo = <<>>
      BY <1>3, NewCalls
    <2>2. 1..(Len(r.todo) - 1) = {}
      BY <2>1
    <2> QED BY <2>1, <2>2 DEF OnPath
  <1> QED BY <1>4, <1>5, PathsKept

\* A call that goes on, with what it has still to make and what it has made.
LEMMA GoOnMoves ==
  ASSUME TypeOK, CreatesMissing, NEW t \in Threads, NEW r \in CallType, GoOn(t, r),
         dirs \subseteq dirs', dirs' \subseteq Dirs, failed' \in BOOLEAN,
         r.pc \in {"make", "check"} => r.todo # <<>>, r.pc = "stat" => r.path \in Dirs,
         ToSet(r.todo) \cap before[t] = {}, ToSet(r.newly_created_dirs) \cap before[t] = {}
  PROVE  /\ TypeOK' /\ CreatesMissing' /\ (PathToMake /\ OnPath(r)' => PathToMake')
         /\ \A u \in Threads : u # t => calls'[u] = calls[u]
  <1>1. calls' = [calls EXCEPT ![t] = r] /\ before' = before
    BY DEF GoOn
  <1>2. /\ before' \in [Threads -> SUBSET Dirs]
        /\ \A u \in Threads : before'[u] \subseteq dirs' /\ (u # t => before'[u] \subseteq before[u])
    BY <1>1 DEF TypeOK, CreatesMissing
  <1>3. /\ TypeOK' /\ CreatesMissing'
        /\ calls'[t] = r /\ \A u \in Threads : u # t => calls'[u] = calls[u]
    BY <1>1, <1>2, CallMoves
  <1> QED BY <1>3, PathsKept

\* A call that fails goes on to clean up.
LEMMA FailMoves ==
  ASSUME TypeOK, CreatesMissing, NEW t \in Threads, Fail(t), dirs' = dirs, failed' \in BOOLEAN
  PROVE  /\ TypeOK' /\ CreatesMissing'
         /\ \A u \in Threads : u # t => calls'[u] = calls[u]
  <1>1. PICK c \in CallType : c = calls[t]
    BY DEF TypeOK
  <1>2. PICK r : r = [c EXCEPT !.pc = "clean"]
    OBVIOUS
  <1>3. /\ r \in CallType /\ r.pc = "clean" /\ r.todo = c.todo
        /\ r.newly_created_dirs = c.newly_created_dirs
    BY <1>2, CallRecords
  <1>4. GoOn(t, r)
    BY <1>1, <1>2 DEF Fail
  <1>5. dirs' \subseteq Dirs /\ dirs \subseteq dirs'
    BY DEF TypeOK
  <1>6. ToSet(r.todo) \cap before[t] = {} /\ ToSet(r.newly_created_dirs) \cap before[t] = {}
    BY <1>1, <1>3 DEF CreatesMissing
  <1> QED BY <1>3, <1>4, <1>5, <1>6, GoOnMoves

\* A call begins: before[t] is what is there.
LEMMA MkDirWithParentsInv ==
  ASSUME TypeOK, CreatesMissing, NEW t \in Threads, NEW d \in Dirs, MkDirWithParents(t, d)
  PROVE  /\ TypeOK' /\ CreatesMissing' /\ (PathToMake => PathToMake')
         /\ \A u \in Threads : u # t => calls'[u] = calls[u]
  <1>1. PICK r : r = [NoCall EXCEPT !.pc = "stat", !.path = d]
    OBVIOUS
  <1>2. /\ r \in CallType /\ r.pc = "stat" /\ r.path = d /\ r.todo = <<>>
        /\ r.newly_created_dirs = <<>> /\ ToSet(r.todo) = {} /\ ToSet(r.newly_created_dirs) = {}
    BY <1>1, NewCalls
  <1>3. /\ calls' = [calls EXCEPT ![t] = r] /\ before' = [before EXCEPT ![t] = dirs]
        /\ dirs' = dirs /\ failed' = failed
    BY <1>1 DEF MkDirWithParents
  <1>4. /\ before' \in [Threads -> SUBSET Dirs] /\ dirs' \subseteq Dirs /\ failed' \in BOOLEAN
        /\ \A u \in Threads : before'[u] \subseteq dirs' /\ (u # t => before'[u] \subseteq before[u])
    BY <1>3 DEF TypeOK, CreatesMissing
  <1>5. /\ TypeOK' /\ CreatesMissing'
        /\ calls'[t] = r /\ \A u \in Threads : u # t => calls'[u] = calls[u]
    BY <1>2, <1>3, <1>4, CallMoves
  <1>6. OnPath(r)'
    <2>1. 1..(Len(r.todo) - 1) = {}
      BY <1>2
    <2> QED BY <1>2, <2>1 DEF OnPath
  <1> QED BY <1>3, <1>5, <1>6, PathsKept

\* On the way up: what is missing is put before the path that is to be made.
LEMMA StatDirInv ==
  ASSUME TypeOK, CreatesMissing, NEW t \in Threads, StatDir(t)
  PROVE  /\ TypeOK' /\ CreatesMissing' /\ (PathToMake /\ ~failed' => PathToMake')
         /\ \A u \in Threads : u # t => calls'[u] = calls[u]
  <1>1. PICK c \in CallType : c = calls[t]
    BY DEF TypeOK
  <1>2. PICK d : d = c.path
    OBVIOUS
  <1>3. /\ c.pc = "stat" /\ d \in Dirs /\ c.todo \in Seq(Dirs) /\ dirs' = dirs
        /\ dirs' \subseteq Dirs /\ dirs \subseteq dirs'
        /\ ToSet(c.todo) \cap before[t] = {} /\ ToSet(c.newly_created_dirs) \cap before[t] = {}
        /\ before[t] \subseteq dirs /\ failed \in BOOLEAN
    BY <1>1, <1>2, CallRecords DEF StatDir, TypeOK, CreatesMissing
  <1>p. PathToMake => OnPath(c)
    BY <1>1 DEF PathToMake
  <1>4. CASE d \in dirs /\ failed' = failed /\ c.todo = <<>> /\ Return(t)
    BY <1>3, <1>4, ReturnMoves
  <1>5. CASE d \in dirs /\ failed' = failed /\ c.todo # <<>> /\ GoOn(t, [c EXCEPT !.pc = "make"])
    <2>1. PICK r : r = [c EXCEPT !.pc = "make"]
      OBVIOUS
    <2>2. /\ r \in CallType /\ r.pc = "make" /\ r.todo = c.todo
          /\ r.newly_created_dirs = c.newly_created_dirs /\ GoOn(t, r)
      BY <1>5, <2>1, CallRecords
    <2>3. PathToMake => OnPath(r)'
      <3> HAVE PathToMake
      <3>1. Parent[Head(c.todo)] = d
        BY <1>2, <1>3, <1>5, <1>p DEF OnPath
      <3> QED BY <1>3, <1>5, <1>p, <2>2, <3>1 DEF OnPath
    <2> QED BY <1>3, <1>5, <2>2, <2>3, GoOnMoves
  <1>6. CASE /\ d \notin dirs /\ failed' = failed
             /\ GoOn(t, LET m == [c EXCEPT !.todo = <<d>> \o @] IN
                        IF Parent[d] = NoDir THEN [m EXCEPT !.pc = "make"]
                                             ELSE [m EXCEPT !.path = Parent[d]])
    <2>1. PICK s : s = <<d>> \o c.todo
      OBVIOUS
    <2>2. /\ s \in Seq(Dirs) /\ s # <<>> /\ Head(s) = d /\ Len(s) = Len(c.todo) + 1
          /\ \A k \in 1..Len(c.todo) : s[k + 1] = c.todo[k]
          /\ ToSet(s) = {d} \cup ToSet(c.todo) /\ Len(c.todo) \in Nat /\ s[1] = d
      BY <1>3, <2>1, HeadChanges
    <2>3. PICK m : m = [c EXCEPT !.todo = s]
      OBVIOUS
    <2>4. /\ m \in CallType /\ m.pc = "stat" /\ m.todo = s
          /\ m.newly_created_dirs = c.newly_created_dirs
      BY <1>3, <2>2, <2>3 DEF CallType
    <2>5. PICK r : r = IF Parent[d] = NoDir THEN [m EXCEPT !.pc = "make"]
                                            ELSE [m EXCEPT !.path = Parent[d]]
      OBVIOUS
    <2>6. GoOn(t, r)
      BY <1>6, <2>1, <2>3, <2>5
    <2>7. /\ r \in CallType /\ r.todo = s /\ r.newly_created_dirs = c.newly_created_dirs
          /\ \/ r.pc = "make" /\ Parent[d] = NoDir
             \/ r.pc = "stat" /\ r.path = Parent[d] /\ r.path \in Dirs
      <3>1. CASE Parent[d] = NoDir
        BY <2>4, <2>5, <3>1, CallRecords
      <3>2. CASE Parent[d] # NoDir
        <4>1. PICK x \in Dirs : x = Parent[d]
          BY <1>3, <3>2, DirsAssumption
        <4>2. r = [m EXCEPT !.path = x]
          BY <2>5, <3>2, <4>1
        <4> QED BY <2>4, <4>1, <4>2 DEF CallType
      <3> QED BY <3>1, <3>2
    <2>8. ToSet(r.todo) \cap before[t] = {} /\ ToSet(r.newly_created_dirs) \cap before[t] = {}
      BY <1>3, <1>6, <2>2, <2>7
    <2>9. PathToMake => OnPath(r)'
      <3> SUFFICES ASSUME PathToMake PROVE OnPath(r)'
        OBVIOUS
      <3>1. ASSUME NEW k \in 1..(Len(s) - 1) PROVE Parent[s[k + 1]] = s[k]
        <4>1. k \in 1..Len(c.todo) /\ s[k + 1] = c.todo[k]
          BY <2>2
        <4>2. CASE k = 1
          <5>1. c.todo # <<>> /\ c.todo[1] = Head(c.todo)
            BY <1>3, <2>2, <4>1, HeadChanges, EmptySeq
          <5>2. c.path = Parent[Head(c.todo)]
            BY <1>3, <1>p, <5>1 DEF OnPath
          <5> QED BY <1>2, <2>2, <4>1, <4>2, <5>1, <5>2
        <4>3. CASE k # 1
          <5>1. /\ k - 1 \in 1..(Len(c.todo) - 1) /\ k - 1 \in 1..Len(c.todo)
                /\ (k - 1) + 1 = k
            <6>1. PICK n \in Nat : n = Len(c.todo)
              BY <2>2
            <6>2. k \in 1..n
              BY <4>1, <6>1
            <6>3. k - 1 \in 1..(n - 1) /\ k - 1 \in 1..n /\ (k - 1) + 1 = k
              BY <4>3, <6>2
            <6> QED BY <6>1, <6>3
          <5>2. s[k] = c.todo[k - 1]
            BY <2>2, <5>1
          <5>3. Parent[c.todo[(k - 1) + 1]] = c.todo[k - 1]
            BY <1>p, <5>1 DEF OnPath
          <5> QED BY <4>1, <5>1, <5>2, <5>3
        <4> QED BY <4>2, <4>3
      <3> QED BY <2>2, <2>7, <3>1 DEF OnPath
    <2> QED BY <1>3, <1>6, <2>2, <2>6, <2>7, <2>8, <2>9, GoOnMoves
  <1>7. CASE ServerError(t)
    <2>1. Fail(t) /\ failed' = TRUE
      BY <1>7 DEF ServerError
    <2> QED BY <1>3, <2>1, FailMoves
  <1> QED BY <1>1, <1>2, <1>3, <1>4, <1>5, <1>6, <1>7 DEF StatDir

\* A directory is there: the call goes on with the next one.
LEMMA NextDirInv ==
  ASSUME TypeOK, CreatesMissing, NEW t \in Threads, NEW d, NEW created \in SUBSET Dirs,
         calls[t].pc \in {"make", "check"}, d = Head(calls[t].todo), NextDir(t, d, created),
         dirs \subseteq dirs', dirs' \subseteq Dirs, d \in dirs', failed' \in BOOLEAN
  PROVE  /\ TypeOK' /\ CreatesMissing' /\ (PathToMake => PathToMake')
         /\ \A u \in Threads : u # t => calls'[u] = calls[u]
  <1>1. PICK c \in CallType : c = calls[t]
    BY DEF TypeOK
  <1>2. /\ c.todo \in Seq(Dirs) /\ c.todo # <<>> /\ c.newly_created_dirs \in Seq(Dirs)
        /\ c.own \in SUBSET Dirs
        /\ ToSet(c.todo) \cap before[t] = {} /\ ToSet(c.newly_created_dirs) \cap before[t] = {}
    BY <1>1, CallRecords DEF TypeOK, CreatesMissing
  <1>3. CASE Len(c.todo) = 1
    BY <1>1, <1>3, ReturnMoves DEF NextDir
  <1>4. CASE Len(c.todo) # 1
    <2>1. PICK s : s = Tail(c.todo)
      OBVIOUS
    <2>2. /\ s \in Seq(Dirs) /\ s # <<>> /\ Head(s) = c.todo[2] /\ d = c.todo[1] /\ d \in Dirs
          /\ d \in ToSet(c.todo) /\ ToSet(s) \subseteq ToSet(c.todo)
          /\ Len(c.todo) \in Nat /\ Len(c.todo) > 0 /\ Len(s) = Len(c.todo) - 1
          /\ \A k \in 1..(Len(c.todo) - 1) : s[k] = c.todo[k + 1]
      BY <1>1, <1>2, <1>4, <2>1, HeadChanges
    <2>3. PICK n : n = Append(c.newly_created_dirs, d)
      OBVIOUS
    <2>4. n \in Seq(Dirs) /\ ToSet(n) \cap before[t] = {}
      <3>1. /\ n \in Seq(Dirs) /\ Len(n) = Len(c.newly_created_dirs) + 1
            /\ \A k \in 1..Len(c.newly_created_dirs) : n[k] = c.newly_created_dirs[k]
            /\ n[Len(c.newly_created_dirs) + 1] = d
        BY <1>2, <2>2, <2>3, AppendProperties
      <3>2. /\ Len(c.newly_created_dirs) \in Nat
            /\ DOMAIN c.newly_created_dirs = 1..Len(c.newly_created_dirs)
            /\ DOMAIN n = 1..Len(n)
        BY <1>2, <3>1, LenProperties
      <3>3. ASSUME NEW x \in ToSet(n) PROVE x \in ToSet(c.newly_created_dirs) \cup {d}
        <4>1. PICK k \in DOMAIN n : x = n[k]
          BY DEF ToSet
        <4>2. k \in DOMAIN c.newly_created_dirs \/ k = Len(c.newly_created_dirs) + 1
          BY <3>1, <3>2, <4>1
        <4> QED BY <3>1, <3>2, <4>1, <4>2 DEF ToSet
      <3> QED BY <1>2, <2>2, <3>1, <3>3
    <2>5. PICK o \in SUBSET Dirs : o = c.own \cup created
      BY <1>2
    <2>6. PICK r : r = [c EXCEPT !.pc = "make", !.todo = s, !.newly_created_dirs = n, !.own = o]
      OBVIOUS
    <2>7. r \in CallType /\ r.pc = "make" /\ r.todo = s /\ r.newly_created_dirs = n
      BY <2>2, <2>4, <2>5, <2>6 DEF CallType
    <2>8. GoOn(t, r)
      BY <1>1, <1>4, <2>1, <2>3, <2>5, <2>6 DEF NextDir
    <2>9. ToSet(r.todo) \cap before[t] = {} /\ ToSet(r.newly_created_dirs) \cap before[t] = {}
      BY <1>2, <2>2, <2>4, <2>7
    <2>10. PathToMake => OnPath(r)'
      <3> SUFFICES ASSUME PathToMake PROVE OnPath(r)'
        OBVIOUS
      <3>1. OnPath(c)
        BY <1>1 DEF PathToMake
      <3>2. ASSUME NEW k \in 1..(Len(s) - 1) PROVE Parent[s[k + 1]] = s[k]
        <4>1. /\ k \in 1..(Len(c.todo) - 1) /\ k + 1 \in 1..(Len(c.todo) - 1)
          BY <2>2
        <4>2. Parent[c.todo[(k + 1) + 1]] = c.todo[k + 1]
          BY <3>1, <4>1 DEF OnPath
        <4> QED BY <2>2, <4>1, <4>2
      <3>3. Parent[Head(s)] = d
        <4>1. 1 \in 1..(Len(c.todo) - 1) /\ 1 + 1 = 2
          BY <1>4, <2>2
        <4>2. Parent[c.todo[1 + 1]] = c.todo[1]
          BY <3>1, <4>1 DEF OnPath
        <4> QED BY <2>2, <4>1, <4>2
      <3> QED BY <2>7, <3>2, <3>3 DEF OnPath
    <2> QED BY <2>2, <2>7, <2>8, <2>9, <2>10, GoOnMoves
  <1> QED BY <1>3, <1>4

\* On the way down: the directory is created, or has appeared.
LEMMA CreateDirectoryInv ==
  ASSUME TypeOK, CreatesMissing, NEW t \in Threads, CreateDirectoryWithChecks(t)
  PROVE  /\ TypeOK' /\ CreatesMissing' /\ (PathToMake /\ ~failed' => PathToMake')
         /\ \A u \in Threads : u # t => calls'[u] = calls[u]
  <1>1. PICK c \in CallType : c = calls[t]
    BY DEF TypeOK
  <1>2. PICK d : d = Head(c.todo)
    OBVIOUS
  <1>3. /\ c.pc = "make" /\ c.todo \in Seq(Dirs) /\ c.todo # <<>> /\ d \in Dirs
        /\ dirs \subseteq Dirs /\ failed \in BOOLEAN
        /\ ToSet(c.todo) \cap before[t] = {} /\ ToSet(c.newly_created_dirs) \cap before[t] = {}
    <2>1. c.pc = "make" /\ c.todo \in Seq(Dirs)
      BY <1>1, CallRecords DEF CreateDirectoryWithChecks
    <2>2. c.todo # <<>>
      BY <1>1, <2>1 DEF TypeOK
    <2>3. d \in Dirs
      BY <1>2, <2>1, <2>2, HeadChanges
    <2> QED BY <1>1, <2>1, <2>2, <2>3 DEF TypeOK, CreatesMissing
  <1>p. PathToMake => OnPath(c)
    BY <1>1 DEF PathToMake
  <1>4. CASE dirs' = dirs \cup {d} /\ NextDir(t, d, {d}) /\ failed' = failed
    <2>1. calls[t].pc \in {"make", "check"} /\ d = Head(calls[t].todo) /\ {d} \in SUBSET Dirs
      BY <1>1, <1>2, <1>3
    <2>2. dirs \subseteq dirs' /\ dirs' \subseteq Dirs /\ d \in dirs' /\ failed' \in BOOLEAN
      BY <1>3, <1>4
    <2> QED BY <1>4, <2>1, <2>2, NextDirInv
  <1>5. CASE d \in dirs /\ GoOn(t, [c EXCEPT !.pc = "check"]) /\ dirs' = dirs /\ failed' = failed
    <2>1. PICK r : r = [c EXCEPT !.pc = "check"]
      OBVIOUS
    <2>2. /\ r \in CallType /\ r.pc = "check" /\ r.todo = c.todo
          /\ r.newly_created_dirs = c.newly_created_dirs /\ GoOn(t, r)
      BY <1>5, <2>1, CallRecords
    <2>3. PathToMake => OnPath(r)'
      BY <1>2, <1>3, <1>5, <1>p, <2>2 DEF OnPath
    <2> QED BY <1>3, <1>5, <2>2, <2>3, GoOnMoves
  <1>6. CASE Parent[d] \notin dirs \cup {NoDir} /\ Fail(t) /\ dirs' = dirs /\ failed' = failed
    <2>1. ~PathToMake
      BY <1>2, <1>3, <1>6, <1>p DEF OnPath
    <2> QED BY <1>3, <1>6, <2>1, FailMoves
  <1>7. CASE ServerError(t) /\ dirs' = dirs
    <2>1. Fail(t) /\ failed' = TRUE
      BY <1>7 DEF ServerError
    <2> QED BY <1>7, <2>1, FailMoves
  <1> QED BY <1>1, <1>2, <1>4, <1>5, <1>6, <1>7 DEF CreateDirectoryWithChecks

\* The second look at a directory that had appeared.
LEMMA CheckCollisionInv ==
  ASSUME TypeOK, CreatesMissing, NEW t \in Threads, CheckCollision(t)
  PROVE  /\ TypeOK' /\ CreatesMissing' /\ (PathToMake /\ ~failed' => PathToMake')
         /\ \A u \in Threads : u # t => calls'[u] = calls[u]
  <1>1. PICK d : d = Head(calls[t].todo)
    OBVIOUS
  <1>2. /\ calls[t].pc = "check" /\ dirs' = dirs /\ dirs \subseteq dirs' /\ dirs' \subseteq Dirs
        /\ failed \in BOOLEAN /\ {} \in SUBSET Dirs
    BY DEF CheckCollision, TypeOK
  <1>3. CASE d \in dirs /\ NextDir(t, d, {}) /\ failed' = failed
    BY <1>1, <1>2, <1>3, NextDirInv
  <1>4. CASE d \notin dirs /\ Fail(t) /\ failed' = failed
    <2>1. ~PathToMake
      BY <1>1, <1>2, <1>4 DEF PathToMake, OnPath
    <2> QED BY <1>2, <1>4, <2>1, FailMoves
  <1>5. CASE ServerError(t)
    <2>1. Fail(t) /\ failed' = TRUE
      BY <1>5 DEF ServerError
    <2> QED BY <1>2, <2>1, FailMoves
  <1> QED BY <1>1, <1>3, <1>4, <1>5 DEF CheckCollision

\* The clean-up removes what was not there before the call.
LEMMA CleanUpInv ==
  ASSUME TypeOK, CreatesMissing, NEW t \in Threads, CleanUp(t)
  PROVE  /\ TypeOK' /\ CreatesMissing' /\ ~PathToMake
         /\ \A u \in Threads : u # t => calls'[u] = calls[u]
         /\ before[t] \subseteq dirs'
  <1>1. PICK c \in CallType : c = calls[t]
    BY DEF TypeOK
  <1>2. PICK l : l = c.newly_created_dirs
    OBVIOUS
  <1>3. /\ c.pc = "clean" /\ l \in Seq(Dirs) /\ c.todo \in Seq(Dirs) /\ dirs \subseteq Dirs
        /\ failed \in BOOLEAN /\ ToSet(c.todo) \cap before[t] = {} /\ ToSet(l) \cap before[t] = {}
        /\ before[t] \subseteq dirs
    BY <1>1, <1>2, CallRecords DEF CleanUp, TypeOK, CreatesMissing
  <1>4. ~PathToMake
    BY <1>1, <1>3 DEF PathToMake, OnPath
  <1>5. CASE /\ l # <<>> /\ dirs' = dirs \ {Last(l)} /\ ForgetRemoved /\ failed' = failed
             /\ calls' = [calls EXCEPT ![t] = [c EXCEPT !.newly_created_dirs = Front(l)]]
    <2>1. Front(l) \in Seq(Dirs) /\ ToSet(Front(l)) \subseteq ToSet(l) /\ Last(l) \in ToSet(l)
      BY <1>3, <1>5, LastChanges
    <2>2. PICK f \in Seq(Dirs) : f = Front(l)
      BY <2>1
    <2>3. PICK r : r = [c EXCEPT !.newly_created_dirs = f]
      OBVIOUS
    <2>4. /\ r \in CallType /\ r.pc = "clean" /\ r.todo = c.todo /\ r.newly_created_dirs = f
      BY <1>3, <2>3 DEF CallType
    <2>5. /\ before' \in [Threads -> SUBSET Dirs] /\ dirs' \subseteq Dirs /\ failed' \in BOOLEAN
          /\ \A u \in Threads : /\ before'[u] = before[u] \cap dirs'
                                /\ before'[u] \subseteq dirs' /\ before'[u] \subseteq before[u]
      BY <1>3, <1>5 DEF ForgetRemoved, TypeOK
    <2>6. calls' = [calls EXCEPT ![t] = r]
      BY <1>5, <2>2, <2>3
    <2>7. ToSet(r.todo) \cap before'[t] = {} /\ ToSet(r.newly_created_dirs) \cap before'[t] = {}
      BY <1>3, <2>1, <2>2, <2>4, <2>5
    <2>8. /\ TypeOK' /\ CreatesMissing' /\ \A u \in Threads : u # t => calls'[u] = calls[u]
      BY <2>4, <2>5, <2>6, <2>7, CallMoves
    <2>9. before[t] \subseteq dirs'
      BY <1>3, <1>5, <2>1
    <2> QED BY <1>4, <2>8, <2>9
  <1>6. CASE Return(t) /\ dirs' = dirs /\ failed' \in BOOLEAN
    BY <1>3, <1>4, <1>6, ReturnMoves
  <1>7. \/ /\ l # <<>> /\ dirs' = dirs \ {Last(l)} /\ ForgetRemoved /\ failed' = failed
           /\ calls' = [calls EXCEPT ![t] = [c EXCEPT !.newly_created_dirs = Front(l)]]
        \/ Return(t) /\ dirs' = dirs /\ failed' \in BOOLEAN
    BY <1>1, <1>2 DEF CleanUp, TypeOK
  <1> QED BY <1>5, <1>6, <1>7

\* A step of one call keeps the types, removes nothing that was there before the call,
\* and makes the call fail only when the server failed.
LEMMA MakeDirStepInv ==
  ASSUME TypeOK, CreatesMissing, NEW t \in Threads, MakeDirStep(t)
  PROVE  /\ TypeOK' /\ CreatesMissing' /\ (PathToMake /\ ~failed' => PathToMake')
         /\ \A u \in Threads : u # t => calls'[u] = calls[u]
         /\ calls[t].pc = "clean" => before[t] \subseteq dirs'
         /\ failed => failed'
  <1>1. failed => failed'
    BY DEF MakeDirStep, MkDirWithParents, StatDir, CreateDirectoryWithChecks, CheckCollision,
         CleanUp, ServerError
  <1>2. ASSUME NEW d \in Dirs, MkDirWithParents(t, d)
        PROVE  /\ TypeOK' /\ CreatesMissing' /\ (PathToMake => PathToMake')
               /\ \A u \in Threads : u # t => calls'[u] = calls[u]
               /\ calls[t].pc # "clean"
    BY <1>2, MkDirWithParentsInv DEF MkDirWithParents
  <1>3. CASE StatDir(t)
    BY <1>1, <1>3, StatDirInv DEF StatDir
  <1>4. CASE CreateDirectoryWithChecks(t)
    BY <1>1, <1>4, CreateDirectoryInv DEF CreateDirectoryWithChecks
  <1>5. CASE CheckCollision(t)
    BY <1>1, <1>5, CheckCollisionInv DEF CheckCollision
  <1>6. CASE CleanUp(t)
    BY <1>1, <1>6, CleanUpInv
  <1> QED BY <1>1, <1>2, <1>3, <1>4, <1>5, <1>6 DEF MakeDirStep

\* No call has begun.
LEMMA MakeInit ==
  ASSUME Init
  PROVE  TypeOK /\ CreatesMissing /\ PathToMake
  <1>1. /\ dirs \subseteq Dirs /\ calls = [t \in Threads |-> NoCall]
        /\ before = [t \in Threads |-> {}] /\ failed = FALSE
    BY DEF Init
  <1>2. TypeOK
    BY <1>1, NewCalls DEF TypeOK
  <1>3. CreatesMissing
    BY <1>1 DEF CreatesMissing
  <1>4. PathToMake
    <2>1. \A t \in Threads : calls[t].pc = "idle" /\ calls[t].todo = <<>>
      BY <1>1, NewCalls
    <2>2. 1..(Len(<<>>) - 1) = {}
      OBVIOUS
    <2> QED BY <2>1, <2>2 DEF PathToMake, OnPath
  <1> QED BY <1>2, <1>3, <1>4

-----------------------------------------------------------------------------
(* DeleteEntityOp. *)

\* The fields of an op, and of one that goes on.
LEMMA OpRecords ==
  ASSUME NEW o \in OpType, NEW x \in {"list", "child", "clear", "again"}
  PROVE  /\ o.frames \in Seq(FrameType) /\ o.file \in Files \cup {NoDir}
         /\ [o EXCEPT !.pc = x] \in OpType /\ [o EXCEPT !.pc = x].pc = x
         /\ [o EXCEPT !.pc = x].frames = o.frames /\ [o EXCEPT !.pc = x].file = o.file
         /\ [o EXCEPT !.pc = x].result = o.result
         /\ \A s \in Seq(FrameType) :
              /\ [o EXCEPT !.pc = x, !.frames = s] \in OpType
              /\ [o EXCEPT !.pc = x, !.frames = s].pc = x
              /\ [o EXCEPT !.pc = x, !.frames = s].frames = s
              /\ [o EXCEPT !.pc = x, !.frames = s].result = o.result
         /\ \A y \in Files :
              /\ [o EXCEPT !.pc = x, !.file = y] \in OpType
              /\ [o EXCEPT !.pc = x, !.file = y].pc = x
              /\ [o EXCEPT !.pc = x, !.file = y].file = y
              /\ [o EXCEPT !.pc = x, !.file = y].frames = o.frames
              /\ [o EXCEPT !.pc = x, !.file = y].result = o.result
  BY DEF OpType

\* The op of a thread that is in none, that begins and that has returned.
LEMMA NewOps ==
  /\ NoOp \in OpType /\ NoOp.pc = "idle" /\ NoOp.result = "none"
  /\ \A s \in Seq(FrameType) :
       LET r == [NoOp EXCEPT !.pc = "list", !.frames = s]
       IN  r \in OpType /\ r.pc = "list" /\ r.frames = s /\ r.result = "none"
  /\ LET r == [NoOp EXCEPT !.result = "ok"]
     IN  r \in OpType /\ r.pc = "idle" /\ r.result = "ok"
  /\ \A l \in SUBSET Dirs :
       LET r == [NoOp EXCEPT !.result = "error", !.leftover = l]
       IN  r \in OpType /\ r.pc = "idle" /\ r.result = "error"
  <1>1. <<>> \in Seq(FrameType)
    BY EmptySeq
  <1> QED BY <1>1 DEF NoOp, OpType

\* A new frame, and one that has a part listed or an entry deleted.
LEMMA FrameRecords ==
  /\ \A d \in Dirs : /\ Frame(d) \in FrameType /\ Frame(d).dir = d /\ Frame(d).todo = {}
                     /\ Frame(d).seen = {} /\ Frame(d).cookie = TRUE
  /\ \A f \in FrameType :
       /\ f.dir \in Dirs /\ f.todo \subseteq Dirs \cup Files /\ f.seen \subseteq Dirs \cup Files
       /\ f.cookie \in BOOLEAN
       /\ \A T, S \in SUBSET (Dirs \cup Files), b \in BOOLEAN :
            LET g == [f EXCEPT !.todo = T, !.seen = S, !.cookie = b]
            IN  g \in FrameType /\ g.dir = f.dir /\ g.todo = T /\ g.seen = S /\ g.cookie = b
       /\ \A T \in SUBSET (Dirs \cup Files) :
            LET g == [f EXCEPT !.todo = T]
            IN  g \in FrameType /\ g.dir = f.dir /\ g.todo = T /\ g.seen = f.seen
                  /\ g.cookie = f.cookie
       /\ \A b \in BOOLEAN :
            LET g == [f EXCEPT !.cookie = b] IN g \in FrameType /\ g.dir = f.dir
  <1>1. ASSUME NEW d \in Dirs
        PROVE  /\ Frame(d) \in FrameType /\ Frame(d).dir = d /\ Frame(d).todo = {}
               /\ Frame(d).seen = {} /\ Frame(d).cookie = TRUE
    BY DEF Frame, FrameType
  <1>2. ASSUME NEW f \in FrameType
        PROVE  /\ f.dir \in Dirs /\ f.todo \subseteq Dirs \cup Files
               /\ f.seen \subseteq Dirs \cup Files /\ f.cookie \in BOOLEAN
    BY DEF FrameType
  <1>3. ASSUME NEW f \in FrameType, NEW T \in SUBSET (Dirs \cup Files),
               NEW S \in SUBSET (Dirs \cup Files), NEW b \in BOOLEAN
        PROVE  LET g == [f EXCEPT !.todo = T, !.seen = S, !.cookie = b]
               IN  g \in FrameType /\ g.dir = f.dir /\ g.todo = T /\ g.seen = S /\ g.cookie = b
    BY DEF FrameType
  <1>4. ASSUME NEW f \in FrameType, NEW T \in SUBSET (Dirs \cup Files)
        PROVE  LET g == [f EXCEPT !.todo = T]
               IN  g \in FrameType /\ g.dir = f.dir /\ g.todo = T /\ g.seen = f.seen
                     /\ g.cookie = f.cookie
    BY DEF FrameType
  <1>5. ASSUME NEW f \in FrameType, NEW b \in BOOLEAN
        PROVE  LET g == [f EXCEPT !.cookie = b] IN g \in FrameType /\ g.dir = f.dir
    BY DEF FrameType
  <1> QED BY <1>1, <1>2, <1>3, <1>4, <1>5

\* The entries of a directory are below it, and are files or directories.
LEMMA EntryFacts ==
  ASSUME TreeTypeOK
  PROVE  /\ \A z : Entries(z) \subseteq Dirs \cup Files
         /\ \A z, d : d \in Entries(z) /\ d \in Dirs => d \in dirs /\ Parent[d] = z
         /\ \A z, x : x \in Entries(z) /\ x \in Files => x \in files /\ DirOf[x] = z
  BY TreeAssumption DEF TreeTypeOK, TypeOK, Entries, Children

\* An entry is removed: a frame that knew its directory does so without the entry.
LEMMA FrameWithout ==
  ASSUME NEW f \in FrameType, FrameKnows(f), NEW x, Entries(f.dir)' = Entries(f.dir) \ {x},
         f.dir \in dirs'
  PROVE  /\ FrameKnows([f EXCEPT !.todo = f.todo \ {x}])'
         /\ x \notin Entries(f.dir) => FrameKnows(f)'
  <1>1. PICK g : g = [f EXCEPT !.todo = f.todo \ {x}]
    OBVIOUS
  <1>2. /\ g.dir = f.dir /\ g.todo = f.todo \ {x} /\ g.seen = f.seen /\ g.cookie = f.cookie
    BY <1>1 DEF FrameType
  <1>3. PICK E : E = Entries(f.dir)
    OBVIOUS
  <1>4. f.todo = E \cap f.seen /\ (~f.cookie => E \subseteq f.seen)
    BY <1>3 DEF FrameKnows
  <1>5. Entries(f.dir)' = E \ {x}
    BY <1>3
  <1>6. FrameKnows(g)'
    <2>1. Entries(g.dir)' = E \ {x}
      BY <1>2, <1>5 DEF Entries, Children
    <2> QED BY <1>2, <1>4, <2>1 DEF FrameKnows
  <1>7. x \notin E => FrameKnows(f)'
    BY <1>4, <1>5 DEF FrameKnows
  <1> QED BY <1>1, <1>3, <1>6, <1>7

\* The directories of the frames are a path, and so no two are the same.
LEMMA FramesApart ==
  ASSUME TreeTypeOK, NEW s \in Seq(FrameType), \A k \in DOMAIN s : FrameKnows(s[k]),
         \A k \in 1..(Len(s) - 1) : s[k + 1].dir \in s[k].todo
  PROVE  /\ \A k \in 1..(Len(s) - 1) : Parent[s[k + 1].dir] = s[k].dir
         /\ \A i, j \in DOMAIN s : i < j => s[i].dir # s[j].dir
  <1>0. /\ Len(s) \in Nat /\ DOMAIN s = 1..Len(s) /\ \A k \in DOMAIN s : s[k] \in FrameType
    BY LenProperties
  <1>1. \A k \in DOMAIN s : s[k].dir \in Dirs
    BY <1>0, FrameRecords
  <1>2. ASSUME NEW k \in 1..(Len(s) - 1) PROVE Parent[s[k + 1].dir] = s[k].dir
    <2>1. k \in DOMAIN s /\ k + 1 \in DOMAIN s
      BY <1>0
    <2>2. s[k + 1].dir \in Entries(s[k].dir)
      BY <2>1 DEF FrameKnows
    <2> QED BY <1>1, <2>1, <2>2, EntryFacts
  <1>3. ASSUME NEW i \in DOMAIN s, NEW j \in DOMAIN s, i < j, s[i].dir = s[j].dir
        PROVE  FALSE
    <2> DEFINE D == {s[k].dir : k \in (i + 1)..j}
    <2>1. /\ i \in Nat /\ j \in Nat /\ 1 <= i /\ j <= Len(s)
          /\ \A k \in (i + 1)..j : k \in DOMAIN s
      BY <1>0
    <2>2. j \in (i + 1)..j
      BY <1>3, <2>1
    <2>3. D \in SUBSET Dirs /\ D # {}
      BY <1>1, <2>1, <2>2
    <2>4. ASSUME NEW d \in D PROVE Parent[d] \in D
      <3>1. PICK k \in (i + 1)..j : d = s[k].dir
        OBVIOUS
      <3>2. k - 1 \in 1..(Len(s) - 1) /\ (k - 1) + 1 = k
        BY <1>0, <2>1, <3>1
      <3>3. Parent[d] = s[k - 1].dir
        BY <1>2, <3>1, <3>2
      <3>4. CASE k = i + 1
        <4>1. k - 1 = i
          BY <2>1, <3>4
        <4> QED BY <1>3, <2>2, <3>3, <4>1
      <3>5. CASE k # i + 1
        <4>1. k - 1 \in (i + 1)..j
          BY <2>1, <3>1, <3>5
        <4> QED BY <3>3, <4>1
      <3> QED BY <3>4, <3>5
    <2> QED BY <2>3, <2>4, DirsAssumption
  <1> QED BY <1>2, <1>3

\* The last of the frames is replaced by one for the same directory.
LEMMA TopChanges ==
  ASSUME NEW s \in Seq(FrameType), s # <<>>, NEW f \in FrameType, f.dir = Last(s).dir,
         NEW r \in OpType, r.frames = Append(Front(s), f), r.pc = "child", FrameKnows(f)',
         \A k \in 1..(Len(s) - 1) : FrameKnows(s[k])',
         \A k \in 1..(Len(s) - 1) : s[k + 1].dir \in s[k].todo
  PROVE  OpKnows(r)'
  <1>1. PICK q : q = r.frames
    OBVIOUS
  <1>2. /\ q \in Seq(FrameType) /\ Len(q) = Len(s) /\ q[Len(s)] = f /\ Len(s) \in Nat
        /\ Len(s) > 0 /\ Last(s) = s[Len(s)]
        /\ \A k \in 1..(Len(s) - 1) : q[k] = s[k]
    <2>1. /\ Len(s) \in Nat /\ Len(s) > 0 /\ Last(s) = s[Len(s)]
      BY LastChanges
    <2>2. PICK a : a = Append(Front(s), f)
      OBVIOUS
    <2>3. /\ a \in Seq(FrameType) /\ Len(a) = Len(s) /\ a[Len(s)] = f
          /\ \A k \in 1..(Len(s) - 1) : a[k] = s[k]
      <3>1. /\ Append(Front(s), f) \in Seq(FrameType) /\ Len(Append(Front(s), f)) = Len(s)
            /\ Append(Front(s), f)[Len(s)] = f
            /\ \A k \in 1..(Len(s) - 1) : Append(Front(s), f)[k] = s[k]
        BY LastReplaced
      <3> QED BY <2>2, <3>1
    <2> QED BY <1>1, <2>1, <2>2, <2>3
  <1>3. DOMAIN q = 1..Len(s)
    BY <1>2, LenProperties
  <1>4. ASSUME NEW k \in DOMAIN q PROVE FrameKnows(q[k])'
    <2>1. CASE k = Len(s)
      BY <1>2, <2>1
    <2>2. CASE k # Len(s)
      <3>1. k \in 1..(Len(s) - 1)
        BY <1>2, <1>3, <2>2
      <3>2. PICK g : g = s[k]
        OBVIOUS
      <3>3. FrameKnows(g)'
        BY <3>1, <3>2
      <3> QED BY <1>2, <3>1, <3>2, <3>3
    <2> QED BY <2>1, <2>2
  <1>5. ASSUME NEW k \in 1..(Len(q) - 1) PROVE q[k + 1].dir \in q[k].todo
    <2>1. k \in 1..(Len(s) - 1) /\ q[k] = s[k]
      BY <1>2
    <2>2. q[k + 1].dir = s[k + 1].dir
      <3>1. CASE k + 1 = Len(s)
        BY <1>2, <3>1
      <3>2. CASE k + 1 # Len(s)
        <4>1. k + 1 \in 1..(Len(s) - 1)
          BY <1>2, <2>1, <3>2
        <4> QED BY <1>2, <4>1
      <3> QED BY <3>1, <3>2
    <2> QED BY <2>1, <2>2
  <1> QED BY <1>1, <1>4, <1>5 DEF OpKnows

\* What an op knows stays true while nobody changes the tree.
LEMMA KnowsKept ==
  ASSUME dirs' = dirs, files' = files, readonly' \subseteq readonly
  PROVE  /\ \A f : FrameKnows(f) => FrameKnows(f)'
         /\ \A o : OpKnows(o) => OpKnows(o)'
  <1>1. ASSUME NEW f, FrameKnows(f) PROVE FrameKnows(f)'
    BY <1>1 DEF FrameKnows, Entries, Children
  <1>2. ASSUME NEW o, OpKnows(o) PROVE OpKnows(o)'
    <2>1. ASSUME NEW k \in DOMAIN o.frames PROVE FrameKnows(o.frames[k])'
      BY <1>1, <1>2 DEF OpKnows
    <2> QED BY <1>2, <2>1 DEF OpKnows
  <1> QED BY <1>1, <1>2

\* What a step of e's op keeps.  When the server failed no call and the op knew what is
\* in its directories, it has no error and knows it after the step.
OpStep(e) ==
  /\ TreeTypeOK' /\ CreatesMissing' /\ calls' = calls
  /\ \A o \in Deleters : o # e => ops'[o] = ops[o]
  /\ ops'[e].pc # "idle" \/ ops'[e].result # "none"
  /\ failed => failed'
  /\ readonly' \subseteq readonly
  /\ \/ dirs' = dirs /\ files' = files /\ disturbed' = disturbed
     \/ Disturb(e)
  /\ ~RootDir /\ ~failed' /\ ops[e].result # "error" /\ (Running(e) => OpKnows(ops[e]))
       => ops'[e].result # "error" /\ (Running(e)' => OpKnows(ops[e])')

\* The record of e's op becomes r.
LEMMA OpMoves ==
  ASSUME TreeTypeOK, CreatesMissing, NEW e \in Deleters, NEW r \in OpType,
         ops' = [ops EXCEPT ![e] = r],
         r.pc # "idle" => r.frames # <<>>, r.pc \in {"clear", "again"} => r.file \in Files,
         r.pc # "idle" \/ r.result # "none",
         calls' = calls, failed' \in BOOLEAN, failed => failed',
         \/ dirs' = dirs /\ before' = before
         \/ dirs' \subseteq dirs /\ ForgetRemoved,
         files' \subseteq files, readonly' \subseteq readonly,
         \/ dirs' = dirs /\ files' = files /\ disturbed' = disturbed
         \/ Disturb(e),
         ~RootDir /\ ~failed' /\ ops[e].result # "error" /\ (Running(e) => OpKnows(ops[e]))
           => r.result # "error" /\ (r.pc # "idle" => OpKnows(r)')
  PROVE  OpStep(e)
  <1>1. /\ ops' \in [Deleters -> OpType] /\ ops'[e] = r
        /\ \A o \in Deleters : o # e => ops'[o] = ops[o]
    BY DEF TreeTypeOK
  <1>2. /\ dirs' \subseteq Dirs /\ before' \in [Threads -> SUBSET Dirs]
        /\ \A u \in Threads : before'[u] \subseteq before[u] /\ before'[u] \subseteq dirs'
    BY DEF TreeTypeOK, TypeOK, CreatesMissing, ForgetRemoved
  <1>3. TypeOK'
    BY <1>2 DEF TreeTypeOK, TypeOK
  <1>4. CreatesMissing'
    BY <1>2 DEF CreatesMissing
  <1>5. disturbed' \subseteq Deleters /\ files' \subseteq Files /\ readonly' \subseteq Files
    BY DEF TreeTypeOK, Disturb
  <1>6. TreeTypeOK'
    <2>1. ASSUME NEW o \in Deleters
          PROVE  /\ ops'[o].pc # "idle" => ops'[o].frames # <<>>
                 /\ ops'[o].pc \in {"clear", "again"} => ops'[o].file \in Files
      <3>1. CASE o = e
        BY <1>1, <3>1
      <3>2. CASE o # e
        BY <1>1, <3>2 DEF TreeTypeOK, Running
      <3> QED BY <3>1, <3>2
    <2> QED BY <1>1, <1>3, <1>5, <2>1 DEF TreeTypeOK, Running
  <1>7. ASSUME ~RootDir, ~failed', ops[e].result # "error", Running(e) => OpKnows(ops[e])
        PROVE  ops'[e].result # "error" /\ (Running(e)' => OpKnows(ops[e])')
    <2>1. r.result # "error" /\ (r.pc # "idle" => OpKnows(r)')
      BY <1>7
    <2>2. OpKnows(r)' => OpKnows(ops[e])'
      BY <1>1 DEF OpKnows
    <2> QED BY <1>1, <2>1, <2>2 DEF Running
  <1> QED BY <1>1, <1>4, <1>6, <1>7 DEF OpStep

\* The record of an op that runs, and the frame on top.
LEMMA OpFacts ==
  ASSUME TreeTypeOK, NEW e \in Deleters, Running(e), NEW o, o = ops[e]
  PROVE  /\ o \in OpType /\ o.frames \in Seq(FrameType) /\ o.frames # <<>>
         /\ Top(e) = Last(o.frames) /\ Last(o.frames) \in FrameType
         /\ o.pc \in {"clear", "again"} => o.file \in Files
         /\ OpKnows(o) => FrameKnows(Last(o.frames))
  <1>1. /\ o \in OpType /\ o.frames # <<>> /\ Top(e) = Last(o.frames)
        /\ o.pc \in {"clear", "again"} => o.file \in Files
    BY DEF TreeTypeOK, Top
  <1>2. o.frames \in Seq(FrameType)
    BY <1>1 DEF OpType
  <1>3. PICK s \in Seq(FrameType) : s = o.frames
    BY <1>2
  <1>4. Last(s) = s[Len(s)] /\ Last(s) \in FrameType /\ Len(s) \in DOMAIN s
    <2>1. /\ s # <<>> /\ Len(s) \in Nat /\ DOMAIN s = 1..Len(s)
          /\ \A k \in DOMAIN s : s[k] \in FrameType
      BY <1>1, <1>3, LenProperties
    <2>2. Last(s) = s[Len(s)] /\ Len(s) > 0
      BY <2>1, LastChanges
    <2>3. Len(s) \in DOMAIN s
      BY <2>1, <2>2
    <2> QED BY <2>1, <2>2, <2>3
  <1>5. OpKnows(o) => FrameKnows(s[Len(s)])
    BY <1>3, <1>4 DEF OpKnows
  <1> QED BY <1>1, <1>3, <1>4, <1>5

\* The op returns an error, which nobody but the server is to blame for.
LEMMA ReturnErrorInv ==
  ASSUME TreeTypeOK, CreatesMissing, NEW e \in Deleters, Running(e), ReturnError(e),
         calls' = calls, dirs' = dirs, before' = before, files' = files, readonly' = readonly,
         disturbed' = disturbed, failed' \in BOOLEAN, failed => failed',
         ~RootDir /\ OpKnows(ops[e]) => failed'
  PROVE  OpStep(e)
  <1>1. PICK o : o = ops[e]
    OBVIOUS
  <1>2. PICK s \in Seq(FrameType) : s = o.frames
    BY <1>1, OpFacts
  <1>3. PICK l : l = {s[k].dir : k \in {j \in DOMAIN s : s[j].cookie /\ s[j].seen # {}}}
    OBVIOUS
  <1>4. l \in SUBSET Dirs
    <2>1. \A k \in DOMAIN s : s[k] \in FrameType
      BY LenProperties
    <2>2. \A k \in DOMAIN s : s[k].dir \in Dirs
      BY <2>1 DEF FrameType
    <2> QED BY <1>3, <2>2
  <1>5. PICK r : r = [NoOp EXCEPT !.result = "error", !.leftover = l]
    OBVIOUS
  <1>6. r \in OpType /\ r.pc = "idle" /\ r.result = "error"
    BY <1>4, <1>5, NewOps
  <1>7. ops' = [ops EXCEPT ![e] = r]
    BY <1>1, <1>2, <1>3, <1>5 DEF ReturnError
  <1>8. files' \subseteq files /\ readonly' \subseteq readonly
    OBVIOUS
  <1> QED BY <1>6, <1>7, <1>8, OpMoves

\* The frame on top is replaced by g.
LEMMA WithTopInv ==
  ASSUME TreeTypeOK, CreatesMissing, NEW e \in Deleters, Running(e), NEW g \in FrameType,
         g.dir = Top(e).dir, WithTop(e, "child", g),
         calls' = calls, failed' \in BOOLEAN, failed => failed', dirs' = dirs, before' = before,
         files' \subseteq files, readonly' \subseteq readonly,
         \/ files' = files /\ disturbed' = disturbed
         \/ Disturb(e),
         ASSUME ~RootDir, ~failed', OpKnows(ops[e])
         PROVE  /\ FrameKnows(g)'
                /\ \A k \in 1..(Len(ops[e].frames) - 1) : FrameKnows(ops[e].frames[k]) =>
                     \A f : f = ops[e].frames[k] => FrameKnows(f)'
  PROVE  OpStep(e)
  <1>1. PICK o : o = ops[e]
    OBVIOUS
  <1>2. PICK s \in Seq(FrameType) : s = o.frames
    BY <1>1, OpFacts
  <1>3. /\ o \in OpType /\ s # <<>> /\ Top(e) = Last(s)
    BY <1>1, <1>2, OpFacts
  <1>4. PICK q : q = Append(Front(s), g)
    OBVIOUS
  <1>5. q \in Seq(FrameType) /\ q # <<>>
    BY <1>3, <1>4, LastReplaced
  <1>6. PICK r : r = [o EXCEPT !.pc = "child", !.frames = q]
    OBVIOUS
  <1>7. r \in OpType /\ r.pc = "child" /\ r.frames = q /\ r.result = o.result
    BY <1>3, <1>5, <1>6 DEF OpType
  <1>8. ops' = [ops EXCEPT ![e] = r]
    BY <1>1, <1>2, <1>4, <1>6 DEF WithTop, TreeTypeOK
  <1>9. ASSUME ~RootDir, ~failed', OpKnows(ops[e]) PROVE OpKnows(r)'
    <2>1. FrameKnows(g)'
      BY <1>9
    <2>2. ASSUME NEW k \in 1..(Len(s) - 1) PROVE FrameKnows(s[k])'
      <3>1. PICK f : f = s[k]
        OBVIOUS
      <3>2. k \in DOMAIN s
        BY LenProperties
      <3>3. FrameKnows(s[k])
        BY <1>1, <1>2, <1>9, <3>2 DEF OpKnows
      <3>4. FrameKnows(f)'
        BY <1>1, <1>2, <1>9, <3>1, <3>3
      <3> QED BY <3>1, <3>4
    <2>3. \A k \in 1..(Len(s) - 1) : s[k + 1].dir \in s[k].todo
      BY <1>1, <1>2, <1>9 DEF OpKnows
    <2> QED BY <1>3, <1>4, <1>7, <2>1, <2>2, <2>3, TopChanges
  <1> QED BY <1>1, <1>5, <1>7, <1>8, <1>9, OpMoves

\* An op begins: it has listed nothing.
LEMMA DeleteEntityInv ==
  ASSUME TreeTypeOK, CreatesMissing, NEW e \in Deleters, NEW d \in Dirs,
         SmbProxyDeleteEntity(e, d)
  PROVE  OpStep(e)
  <1>1. PICK f : f = Frame(d)
    OBVIOUS
  <1>2. /\ f \in FrameType /\ f.dir = d /\ f.todo = {} /\ f.seen = {} /\ f.cookie = TRUE
    BY <1>1, FrameRecords
  <1>3. PICK s : s = <<f>>
    OBVIOUS
  <1>4. s \in Seq(FrameType) /\ s # <<>> /\ Len(s) = 1 /\ DOMAIN s = 1..1 /\ s[1] = f
    BY <1>2, <1>3
  <1>5. Last(s) = f
    BY <1>4 DEF Last
  <1>6. PICK r : r = [NoOp EXCEPT !.pc = "list", !.frames = s]
    OBVIOUS
  <1>7. r \in OpType /\ r.pc = "list" /\ r.frames = s /\ r.result = "none"
    BY <1>4, <1>6, NewOps
  <1>8. /\ ops' = [ops EXCEPT ![e] = r] /\ calls' = calls /\ failed' = failed /\ d \in dirs
        /\ dirs' = dirs /\ before' = before /\ files' = files /\ readonly' = readonly
        /\ disturbed' = disturbed
    BY <1>1, <1>3, <1>6 DEF SmbProxyDeleteEntity, vars
  <1>9. OpKnows(r)'
    <2>1. FrameKnows(f)'
      BY <1>2, <1>8 DEF FrameKnows
    <2>2. \A k \in DOMAIN s : s[k] = f
      BY <1>4
    <2>3. ASSUME NEW k \in DOMAIN s PROVE FrameKnows(s[k])'
      BY <2>1, <2>2
    <2>4. 1..(Len(s) - 1) = {}
      BY <1>4
    <2>5. Last(s).todo = {} /\ Last(s).cookie
      BY <1>2, <1>5
    <2> QED BY <1>7, <2>3, <2>4, <2>5 DEF OpKnows
  <1>10. failed' \in BOOLEAN /\ files' \subseteq files /\ readonly' \subseteq readonly
    BY <1>8 DEF TreeTypeOK, TypeOK
  <1> QED BY <1>4, <1>7, <1>8, <1>9, <1>10, OpMoves

\* A part of the directory is listed.  What was deleted before is not an entry any more.
LEMMA ListChildrenInv ==
  ASSUME TreeTypeOK, CreatesMissing, NEW e \in Deleters, ListChildren(e)
  PROVE  OpStep(e)
  <1>1. PICK o : o = ops[e]
    OBVIOUS
  <1>2. Running(e) /\ o.pc = "list"
    BY <1>1 DEF ListChildren, Running
  <1>3. PICK f \in FrameType : f = Top(e)
    BY <1>1, <1>2, OpFacts
  <1>4. /\ calls' = calls /\ dirs' = dirs /\ before' = before /\ files' = files
        /\ readonly' = readonly /\ disturbed' = disturbed
    BY DEF ListChildren
  <1>5. files' \subseteq files /\ readonly' \subseteq readonly /\ failed \in BOOLEAN
    BY <1>4 DEF TreeTypeOK, TypeOK
  <1>6. OpKnows(o) => FrameKnows(f) /\ f.todo = {} /\ f.cookie
    <2>1. f = Last(o.frames) /\ (OpKnows(o) => FrameKnows(Last(o.frames)))
      BY <1>1, <1>2, <1>3, OpFacts
    <2> QED BY <1>2, <2>1 DEF OpKnows
  <1>7. \A g : FrameKnows(g) => FrameKnows(g)'
    BY <1>4, <1>5, KnowsKept
  <1>8. ASSUME NEW page \in SUBSET (Entries(f.dir) \ f.seen), NEW more \in BOOLEAN,
               NEW skipped \in SUBSET page, ~more => page = Entries(f.dir) \ f.seen,
               WithTop(e, "child", [f EXCEPT !.todo = page \ skipped,
                                     !.seen = f.seen \cup page, !.cookie = more]),
               failed' = (failed \/ skipped # {})
        PROVE  OpStep(e)
    <2>1. PICK T \in SUBSET (Dirs \cup Files) : T = page \ skipped
      BY EntryFacts
    <2>2. PICK S \in SUBSET (Dirs \cup Files) : S = f.seen \cup page
      BY <1>3, EntryFacts, FrameRecords
    <2>3. PICK g : g = [f EXCEPT !.todo = T, !.seen = S, !.cookie = more]
      OBVIOUS
    <2>4. g \in FrameType /\ g.dir = f.dir /\ g.todo = T /\ g.seen = S /\ g.cookie = more
      BY <1>3, <2>1, <2>2, <2>3 DEF FrameType
    <2>5. WithTop(e, "child", g)
      BY <1>8, <2>1, <2>2, <2>3
    <2>6. ASSUME ~failed', OpKnows(ops[e]) PROVE FrameKnows(g)'
      <3>1. FrameKnows(f) /\ f.todo = {} /\ skipped = {}
        BY <1>1, <1>6, <1>8, <2>6
      <3>2. PICK E : E = Entries(f.dir)
        OBVIOUS
      <3>3. f.dir \in dirs /\ E \cap f.seen = {}
        BY <3>1, <3>2 DEF FrameKnows
      <3>4. T = E \cap S /\ (~more => E \subseteq S)
        BY <1>8, <2>1, <2>2, <3>1, <3>2, <3>3
      <3>5. FrameKnows(g)
        BY <2>4, <3>2, <3>3, <3>4 DEF FrameKnows
      <3> QED BY <1>7, <3>5
    <2>7. failed' \in BOOLEAN /\ (failed => failed')
      BY <1>5, <1>8
    <2>8. ASSUME ~RootDir, ~failed', OpKnows(ops[e])
          PROVE  /\ FrameKnows(g)'
                 /\ \A k \in 1..(Len(ops[e].frames) - 1) : FrameKnows(ops[e].frames[k]) =>
                      \A h : h = ops[e].frames[k] => FrameKnows(h)'
      BY <1>7, <2>6, <2>8
    <2> QED BY <1>2, <1>3, <1>4, <1>5, <2>4, <2>5, <2>7, <2>8, WithTopInv
  <1>9. ASSUME WithTop(e, "child", [f EXCEPT !.cookie = FALSE]),
               failed' = (failed \/ (~RootDir /\ f.dir \in dirs))
        PROVE  OpStep(e)
    <2>1. PICK g : g = [f EXCEPT !.cookie = FALSE]
      OBVIOUS
    <2>2. g \in FrameType /\ g.dir = f.dir
      BY <1>3, <2>1, FrameRecords
    <2>3. WithTop(e, "child", g)
      BY <1>9, <2>1
    <2>4. failed' \in BOOLEAN /\ (failed => failed')
      BY <1>5, <1>9
    <2>5. ASSUME ~RootDir, ~failed', OpKnows(ops[e]) PROVE FALSE
      <3>1. f.dir \in dirs
        BY <1>1, <1>6, <2>5 DEF FrameKnows
      <3> QED BY <1>9, <2>5, <3>1
    <2>6. ASSUME ~RootDir, ~failed', OpKnows(ops[e])
          PROVE  /\ FrameKnows(g)'
                 /\ \A k \in 1..(Len(ops[e].frames) - 1) : FrameKnows(ops[e].frames[k]) =>
                      \A h : h = ops[e].frames[k] => FrameKnows(h)'
      BY <2>5, <2>6
    <2> QED BY <1>2, <1>3, <1>4, <1>5, <2>2, <2>3, <2>4, <2>6, WithTopInv
  <1>10. \/ \E page \in SUBSET (Entries(f.dir) \ f.seen), more \in BOOLEAN :
              /\ ~more => page = Entries(f.dir) \ f.seen
              /\ \E skipped \in SUBSET page :
                   /\ WithTop(e, "child", [f EXCEPT !.todo = page \ skipped,
                                        !.seen = f.seen \cup page, !.cookie = more])
                   /\ failed' = (failed \/ skipped # {})
         \/ /\ WithTop(e, "child", [f EXCEPT !.cookie = FALSE])
            /\ failed' = (failed \/ (~RootDir /\ f.dir \in dirs))
    BY <1>3 DEF ListChildren
  <1> QED BY <1>8, <1>9, <1>10

\* The next part is asked for.
LEMMA NextPageInv ==
  ASSUME TreeTypeOK, CreatesMissing, NEW e \in Deleters, NextPage(e)
  PROVE  OpStep(e)
  <1>1. PICK o : o = ops[e]
    OBVIOUS
  <1>2. /\ Running(e) /\ o.pc = "child" /\ Top(e).todo = {} /\ Top(e).cookie
        /\ calls' = calls /\ dirs' = dirs /\ before' = before /\ files' = files
        /\ readonly' = readonly /\ disturbed' = disturbed /\ failed' = failed
    BY <1>1 DEF NextPage, Running, vars
  <1>3. o \in OpType /\ o.frames # <<>> /\ Top(e) = Last(o.frames)
    BY <1>1, <1>2, OpFacts
  <1>4. PICK r : r = [o EXCEPT !.pc = "list"]
    OBVIOUS
  <1>5. r \in OpType /\ r.pc = "list" /\ r.frames = o.frames /\ r.result = o.result
    BY <1>3, <1>4, OpRecords
  <1>6. ops' = [ops EXCEPT ![e] = r]
    BY <1>1, <1>4 DEF NextPage
  <1>7. files' \subseteq files /\ readonly' \subseteq readonly /\ failed' \in BOOLEAN
    BY <1>2 DEF TreeTypeOK, TypeOK
  <1>8. OpKnows(o) => OpKnows(r)'
    <2> HAVE OpKnows(o)
    <2>1. OpKnows(o)'
      BY <1>2, <1>7, KnowsKept
    <2>2. Last(r.frames).todo = {} /\ Last(r.frames).cookie
      BY <1>2, <1>3, <1>5
    <2> QED BY <1>5, <2>1, <2>2 DEF OpKnows
  <1> QED BY <1>1, <1>2, <1>3, <1>5, <1>6, <1>7, <1>8, OpMoves

\* A subdirectory that was listed is deleted next.
LEMMA DeleteSubdirInv ==
  ASSUME TreeTypeOK, CreatesMissing, NEW e \in Deleters, DeleteSubdir(e)
  PROVE  OpStep(e)
  <1>1. PICK o : o = ops[e]
    OBVIOUS
  <1>2. /\ Running(e) /\ o.pc = "child"
        /\ calls' = calls /\ dirs' = dirs /\ before' = before /\ files' = files
        /\ readonly' = readonly /\ disturbed' = disturbed /\ failed' = failed
    BY <1>1 DEF DeleteSubdir, Running, vars
  <1>3. PICK s \in Seq(FrameType) : s = o.frames
    BY <1>1, <1>2, OpFacts
  <1>4. o \in OpType /\ s # <<>> /\ Top(e) = Last(s)
    BY <1>1, <1>2, <1>3, OpFacts
  <1>5. PICK d \in Last(s).todo \cap Dirs :
          ops' = [ops EXCEPT ![e].pc = "list", ![e].frames = Append(@, Frame(d))]
    BY <1>4 DEF DeleteSubdir
  <1>6. PICK f : f = Frame(d)
    OBVIOUS
  <1>7. /\ f \in FrameType /\ f.dir = d /\ f.todo = {} /\ f.seen = {} /\ f.cookie = TRUE
    BY <1>5, <1>6, FrameRecords
  <1>8. PICK q : q = Append(s, f)
    OBVIOUS
  <1>9. /\ q \in Seq(FrameType) /\ Len(q) = Len(s) + 1 /\ q[Len(s) + 1] = f
        /\ \A k \in 1..Len(s) : q[k] = s[k]
    BY <1>7, <1>8, AppendProperties
  <1>10. /\ Len(s) \in Nat /\ Len(s) > 0 /\ DOMAIN s = 1..Len(s) /\ Last(s) = s[Len(s)]
    BY <1>4, LastChanges
  <1>11. /\ q # <<>> /\ DOMAIN q = 1..(Len(s) + 1)
    BY <1>9, <1>10, LenProperties, EmptySeq
  <1>12. Last(q) = f
    BY <1>9 DEF Last
  <1>13. PICK r : r = [o EXCEPT !.pc = "list", !.frames = q]
    OBVIOUS
  <1>14. r \in OpType /\ r.pc = "list" /\ r.frames = q /\ r.result = o.result
    BY <1>4, <1>9, <1>13 DEF OpType
  <1>15. ops' = [ops EXCEPT ![e] = r]
    BY <1>1, <1>3, <1>5, <1>6, <1>8, <1>13 DEF TreeTypeOK
  <1>16. files' \subseteq files /\ readonly' \subseteq readonly /\ failed' \in BOOLEAN
    BY <1>2 DEF TreeTypeOK, TypeOK
  <1>17. OpKnows(o) => OpKnows(r)'
    <2> HAVE OpKnows(o)
    <2>1. OpKnows(o)'
      BY <1>2, <1>16, KnowsKept
    <2>2. d \in dirs
      <3>1. FrameKnows(Last(s))
        BY <1>1, <1>2, <1>3, OpFacts
      <3>2. d \in Entries(Last(s).dir)
        BY <1>5, <3>1 DEF FrameKnows
      <3> QED BY <1>5, <3>2, EntryFacts
    <2>3. FrameKnows(f)'
      BY <1>2, <1>7, <2>2 DEF FrameKnows
    <2>4. ASSUME NEW k \in DOMAIN q PROVE FrameKnows(q[k])'
      <3>1. CASE k = Len(s) + 1
        BY <1>9, <2>3, <3>1
      <3>2. CASE k # Len(s) + 1
        <4>1. k \in DOMAIN s /\ k \in 1..Len(s)
          BY <1>10, <1>11, <3>2
        <4>2. FrameKnows(s[k])'
          BY <1>3, <2>1, <4>1 DEF OpKnows
        <4> QED BY <1>9, <4>1, <4>2
      <3> QED BY <3>1, <3>2
    <2>5. ASSUME NEW k \in 1..(Len(q) - 1) PROVE q[k + 1].dir \in q[k].todo
      <3>1. k \in 1..Len(s) /\ q[k] = s[k]
        BY <1>9, <1>10
      <3>2. CASE k = Len(s)
        BY <1>5, <1>7, <1>9, <1>10, <3>1, <3>2
      <3>3. CASE k # Len(s)
        <4>0. PICK n \in Nat : n = Len(s)
          BY <1>10
        <4>1. k \in 1..(Len(s) - 1) /\ k + 1 \in 1..Len(s)
          <5>1. k \in 1..n /\ k # n
            BY <3>1, <3>3, <4>0
          <5>2. k \in 1..(n - 1) /\ k + 1 \in 1..n
            BY <4>0, <5>1
          <5> QED BY <4>0, <5>2
        <4>2. s[k + 1].dir \in s[k].todo
          BY <1>3, <4>1 DEF OpKnows
        <4> QED BY <1>9, <3>1, <4>1, <4>2
      <3> QED BY <3>2, <3>3
    <2>6. Last(q).todo = {} /\ Last(q).cookie
      BY <1>7, <1>12
    <2> QED BY <1>14, <2>4, <2>5, <2>6 DEF OpKnows
  <1> QED BY <1>1, <1>2, <1>11, <1>14, <1>15, <1>16, <1>17, OpMoves

\* A file is deleted: it was an entry of the frame on top, and of no other.
LEMMA FileDeletedInv ==
  ASSUME TreeTypeOK, CreatesMissing, NEW e \in Deleters, Running(e), NEW x \in Files,
         FileDeleted(e, x), OpKnows(ops[e]) => x \in Top(e).todo,
         calls' = calls, dirs' = dirs, before' = before
  PROVE  OpStep(e)
  <1>1. PICK o : o = ops[e]
    OBVIOUS
  <1>2. PICK s \in Seq(FrameType) : s = o.frames
    BY <1>1, OpFacts
  <1>3. PICK f \in FrameType : f = Top(e)
    BY <1>1, OpFacts
  <1>4. s # <<>> /\ f = Last(s) /\ (OpKnows(o) => FrameKnows(f))
    BY <1>1, <1>2, <1>3, OpFacts
  <1>5. /\ x \in files /\ files' = files \ {x} /\ Disturb(e) /\ failed' = failed
        /\ readonly' = readonly /\ WithTop(e, "child", [f EXCEPT !.todo = f.todo \ {x}])
    BY <1>3 DEF FileDeleted
  <1>6. PICK T \in SUBSET (Dirs \cup Files) : T = f.todo \ {x}
    BY <1>3, FrameRecords
  <1>7. PICK g : g = [f EXCEPT !.todo = T]
    OBVIOUS
  <1>8. g \in FrameType /\ g.dir = f.dir /\ WithTop(e, "child", g)
    <2>1. g \in FrameType /\ g.dir = f.dir
      BY <1>3, <1>6, <1>7 DEF FrameType
    <2> QED BY <1>5, <1>6, <1>7, <2>1
  <1>9. /\ failed' \in BOOLEAN /\ (failed => failed') /\ files' \subseteq files
        /\ readonly' \subseteq readonly
    BY <1>5 DEF TreeTypeOK, TypeOK
  <1>10. ASSUME NEW z PROVE Entries(z)' = Entries(z) \ {x}
    <2>1. x \notin Children(z) /\ Children(z)' = Children(z)
      BY TreeAssumption DEF Children, TreeTypeOK, TypeOK
    <2>2. {y \in files' : DirOf[y] = z} = {y \in files : DirOf[y] = z} \ {x}
      BY <1>5
    <2> QED BY <2>1, <2>2 DEF Entries
  <1>11. ASSUME ~RootDir, ~failed', OpKnows(ops[e])
         PROVE  /\ FrameKnows(g)'
                /\ \A k \in 1..(Len(ops[e].frames) - 1) : FrameKnows(ops[e].frames[k]) =>
                     \A h : h = ops[e].frames[k] => FrameKnows(h)'
    <2>1. FrameKnows(f) /\ x \in f.todo
      BY <1>1, <1>3, <1>4, <1>11
    <2>2. f.dir \in dirs' /\ Entries(f.dir)' = Entries(f.dir) \ {x} /\ x \in Entries(f.dir)
      BY <1>10, <2>1 DEF FrameKnows
    <2>3. FrameKnows(g)'
      BY <1>3, <1>6, <1>7, <2>1, <2>2, FrameWithout
    <2>4. DirOf[x] = f.dir
      BY <2>2, EntryFacts
    <2>5. /\ \A k \in DOMAIN s : FrameKnows(s[k])
          /\ \A k \in 1..(Len(s) - 1) : s[k + 1].dir \in s[k].todo
      BY <1>1, <1>2, <1>11 DEF OpKnows
    <2>6. \A i, j \in DOMAIN s : i < j => s[i].dir # s[j].dir
      BY <2>5, FramesApart
    <2>7. /\ Len(s) \in Nat /\ Len(s) > 0 /\ DOMAIN s = 1..Len(s) /\ f = s[Len(s)]
          /\ \A k \in DOMAIN s : s[k] \in FrameType
      BY <1>4, LastChanges
    <2>8. ASSUME NEW k \in 1..(Len(s) - 1), NEW h, h = s[k] PROVE FrameKnows(h)'
      <3>1. k \in DOMAIN s /\ Len(s) \in DOMAIN s /\ k < Len(s)
        BY <2>7
      <3>2. h \in FrameType /\ FrameKnows(h) /\ h.dir # f.dir
        BY <2>5, <2>6, <2>7, <2>8, <3>1
      <3>3. x \notin Entries(h.dir)
        BY <2>4, <3>2, EntryFacts
      <3>4. h.dir \in dirs' /\ Entries(h.dir)' = Entries(h.dir) \ {x}
        BY <1>10, <3>2 DEF FrameKnows
      <3> QED BY <3>2, <3>3, <3>4, FrameWithout
    <2> QED BY <1>1, <1>2, <2>3, <2>8
  <1> QED BY <1>3, <1>5, <1>8, <1>9, <1>11, WithTopInv

\* A file that is there was not deleted: the server is to blame.
LEMMA FileNotDeletedInv ==
  ASSUME TreeTypeOK, CreatesMissing, NEW e \in Deleters, Running(e), NEW x \in Files,
         FileNotDeleted(e, x), OpKnows(ops[e]) => x \in Top(e).todo /\ x \notin readonly,
         calls' = calls, dirs' = dirs, before' = before
  PROVE  OpStep(e)
  <1>1. /\ ReturnError(e) /\ failed' = (failed \/ x \in files \ readonly) /\ files' = files
        /\ readonly' = readonly /\ disturbed' = disturbed /\ failed \in BOOLEAN
    BY DEF FileNotDeleted, TreeTypeOK, TypeOK
  <1>2. OpKnows(ops[e]) => x \in files
    <2> HAVE OpKnows(ops[e])
    <2>1. PICK o : o = ops[e]
      OBVIOUS
    <2>2. FrameKnows(Top(e))
      BY <2>1, OpFacts
    <2>3. x \in Entries(Top(e).dir)
      BY <2>2 DEF FrameKnows
    <2> QED BY <2>3, EntryFacts
  <1>3. failed' \in BOOLEAN /\ (failed => failed') /\ (OpKnows(ops[e]) => failed')
    BY <1>1, <1>2
  <1> QED BY <1>1, <1>3, ReturnErrorInv

\* The first attempt to delete a file.
LEMMA DeleteFileInv ==
  ASSUME TreeTypeOK, CreatesMissing, NEW e \in Deleters, DeleteFile(e)
  PROVE  OpStep(e)
  <1>1. PICK o : o = ops[e]
    OBVIOUS
  <1>2. /\ Running(e) /\ o.pc = "child" /\ calls' = calls /\ dirs' = dirs /\ before' = before
    BY <1>1 DEF DeleteFile, Running
  <1>3. PICK x \in Top(e).todo \cap Files :
          \/ FileDeleted(e, x)
          \/ x \notin readonly /\ FileNotDeleted(e, x)
          \/ /\ x \in readonly
             /\ ops' = [ops EXCEPT ![e].pc = "clear", ![e].file = x]
             /\ UNCHANGED <<files, readonly, failed, disturbed>>
    BY DEF DeleteFile
  <1>4. x \in Files /\ x \in Top(e).todo
    BY <1>3
  <1>5. CASE FileDeleted(e, x)
    BY <1>2, <1>4, <1>5, FileDeletedInv
  <1>6. CASE x \notin readonly /\ FileNotDeleted(e, x)
    BY <1>2, <1>4, <1>6, FileNotDeletedInv
  <1>7. CASE /\ ops' = [ops EXCEPT ![e].pc = "clear", ![e].file = x]
             /\ UNCHANGED <<files, readonly, failed, disturbed>>
    <2>1. o \in OpType /\ o.frames # <<>> /\ Top(e) = Last(o.frames)
      BY <1>1, <1>2, OpFacts
    <2>2. PICK r : r = [o EXCEPT !.pc = "clear", !.file = x]
      OBVIOUS
    <2>3. /\ r \in OpType /\ r.pc = "clear" /\ r.frames = o.frames /\ r.file = x
          /\ r.result = o.result
      BY <1>4, <2>1, <2>2 DEF OpType
    <2>4. ops' = [ops EXCEPT ![e] = r]
      BY <1>1, <1>7, <2>2 DEF TreeTypeOK
    <2>5. /\ files' = files /\ disturbed' = disturbed /\ files' \subseteq files
          /\ readonly' \subseteq readonly /\ failed' \in BOOLEAN /\ (failed => failed')
      BY <1>7 DEF TreeTypeOK, TypeOK
    <2>6. OpKnows(o) => OpKnows(r)'
      <3> HAVE OpKnows(o)
      <3>1. OpKnows(o)'
        BY <1>2, <2>5, KnowsKept
      <3>2. r.file \in Last(r.frames).todo
        BY <1>4, <2>1, <2>3
      <3> QED BY <2>3, <3>1, <3>2 DEF OpKnows
    <2> QED BY <1>1, <1>2, <1>4, <2>1, <2>3, <2>4, <2>5, <2>6, OpMoves
  <1> QED BY <1>3, <1>5, <1>6, <1>7

\* Its attributes are cleared, or it is not deleted.
LEMMA ClearFileAttributesInv ==
  ASSUME TreeTypeOK, CreatesMissing, NEW e \in Deleters, ClearFileAttributes(e)
  PROVE  OpStep(e)
  <1>1. PICK o : o = ops[e]
    OBVIOUS
  <1>2. /\ Running(e) /\ o.pc = "clear" /\ calls' = calls /\ dirs' = dirs /\ before' = before
        /\ files' = files /\ disturbed' = disturbed
    BY <1>1 DEF ClearFileAttributes, Running
  <1>3. PICK x \in Files : x = o.file
    BY <1>1, <1>2, OpFacts
  <1>4. o \in OpType /\ o.frames # <<>> /\ Top(e) = Last(o.frames)
    BY <1>1, <1>2, OpFacts
  <1>5. CASE /\ readonly' = readonly \ {x} /\ ops' = [ops EXCEPT ![e].pc = "again"]
             /\ failed' = failed
    <2>1. PICK r : r = [o EXCEPT !.pc = "again"]
      OBVIOUS
    <2>2. /\ r \in OpType /\ r.pc = "again" /\ r.frames = o.frames /\ r.file = o.file
          /\ r.result = o.result
      BY <1>4, <2>1, OpRecords
    <2>3. ops' = [ops EXCEPT ![e] = r]
      BY <1>1, <1>5, <2>1
    <2>4. /\ files' \subseteq files /\ readonly' \subseteq readonly /\ failed' \in BOOLEAN
          /\ (failed => failed')
      BY <1>2, <1>5 DEF TreeTypeOK, TypeOK
    <2>5. OpKnows(o) => OpKnows(r)'
      <3> HAVE OpKnows(o)
      <3>1. OpKnows(o)'
        BY <1>2, <2>4, KnowsKept
      <3>2. r.file \in Last(r.frames).todo /\ r.file \notin readonly'
        BY <1>2, <1>3, <1>5, <2>2 DEF OpKnows
      <3> QED BY <2>2, <3>1, <3>2 DEF OpKnows
    <2> QED BY <1>1, <1>2, <1>3, <1>4, <2>2, <2>3, <2>4, <2>5, OpMoves
  <1>6. CASE ReturnError(e) /\ failed' = (failed \/ x \in files) /\ readonly' = readonly
    <2>1. OpKnows(ops[e]) => x \in files
      <3> HAVE OpKnows(ops[e])
      <3>1. FrameKnows(Last(o.frames)) /\ x \in Last(o.frames).todo
        BY <1>1, <1>2, <1>3, OpFacts DEF OpKnows
      <3>2. x \in Entries(Last(o.frames).dir)
        BY <3>1 DEF FrameKnows
      <3> QED BY <1>3, <3>2, EntryFacts
    <2>2. failed' \in BOOLEAN /\ (failed => failed') /\ (OpKnows(ops[e]) => failed')
      BY <1>6, <2>1 DEF TreeTypeOK, TypeOK
    <2> QED BY <1>2, <1>6, <2>2, ReturnErrorInv
  <1> QED BY <1>1, <1>3, <1>5, <1>6 DEF ClearFileAttributes

\* The second attempt.
LEMMA DeleteFileAgainInv ==
  ASSUME TreeTypeOK, CreatesMissing, NEW e \in Deleters, DeleteFileAgain(e)
  PROVE  OpStep(e)
  <1>1. PICK o : o = ops[e]
    OBVIOUS
  <1>2. /\ Running(e) /\ o.pc = "again" /\ calls' = calls /\ dirs' = dirs /\ before' = before
    BY <1>1 DEF DeleteFileAgain, Running
  <1>3. PICK x \in Files : x = o.file
    BY <1>1, <1>2, OpFacts
  <1>4. FileDeleted(e, x) \/ FileNotDeleted(e, x)
    BY <1>1, <1>3 DEF DeleteFileAgain
  <1>5. OpKnows(ops[e]) => x \in Top(e).todo /\ x \notin readonly
    <2>1. Top(e) = Last(o.frames)
      BY <1>1, <1>2, OpFacts
    <2> QED BY <1>1, <1>2, <1>3, <2>1 DEF OpKnows
  <1> QED BY <1>2, <1>4, <1>5, FileDeletedInv, FileNotDeletedInv

\* A directory is removed: it is no entry any more, and nothing else changes.
LEMMA EntriesWithout ==
  ASSUME TreeTypeOK, NEW d \in Dirs, dirs' = dirs \ {d}, files' = files, NEW z
  PROVE  Entries(z)' = Entries(z) \ {d}
  <1>1. Children(z)' = Children(z) \ {d}
    BY DEF Children
  <1>2. d \notin {y \in files : DirOf[y] = z}
    BY TreeAssumption DEF TreeTypeOK
  <1> QED BY <1>1, <1>2 DEF Entries

\* The empty directory is deleted, and the frame that called goes on without it.
LEMMA ReturnOkInv ==
  ASSUME TreeTypeOK, CreatesMissing, NEW e \in Deleters, Running(e), ReturnOk(e), Disturb(e),
         Top(e).dir \in dirs, dirs' = dirs \ {Top(e).dir}, ForgetRemoved, calls' = calls,
         files' = files, readonly' = readonly, failed' = failed
  PROVE  OpStep(e)
  <1>1. PICK o : o = ops[e]
    OBVIOUS
  <1>2. PICK s \in Seq(FrameType) : s = o.frames
    BY <1>1, OpFacts
  <1>3. o \in OpType /\ s # <<>> /\ Top(e) = Last(s)
    BY <1>1, <1>2, OpFacts
  <1>4. PICK d \in Dirs : d = Last(s).dir
    BY <1>3 DEF TreeTypeOK, TypeOK
  <1>5. PICK p : p = Front(s)
    OBVIOUS
  <1>6. /\ Len(s) \in Nat /\ Len(s) > 0 /\ DOMAIN s = 1..Len(s) /\ Last(s) = s[Len(s)]
        /\ p \in Seq(FrameType) /\ Len(p) = Len(s) - 1 /\ \A k \in 1..(Len(s) - 1) : p[k] = s[k]
    BY <1>3, <1>5, LastChanges
  <1>7. /\ failed' \in BOOLEAN /\ (failed => failed') /\ dirs' \subseteq dirs /\ dirs' = dirs \ {d}
        /\ files' \subseteq files /\ readonly' \subseteq readonly
    BY <1>3, <1>4 DEF TreeTypeOK, TypeOK
  <1>8. CASE p = <<>>
    <2>1. PICK r : r = [NoOp EXCEPT !.result = "ok"]
      OBVIOUS
    <2>2. r \in OpType /\ r.pc = "idle" /\ r.result = "ok"
      BY <2>1, NewOps
    <2>3. ops' = [ops EXCEPT ![e] = r]
      BY <1>1, <1>2, <1>5, <1>8, <2>1 DEF ReturnOk
    <2> QED BY <1>7, <2>2, <2>3, OpMoves
  <1>9. CASE p # <<>>
    <2>1. PICK w : w = Last(p)
      OBVIOUS
    <2>2. /\ w \in FrameType /\ w = p[Len(p)] /\ Len(p) \in Nat /\ Len(p) > 0
          /\ DOMAIN p = 1..Len(p) /\ \A k \in DOMAIN p : p[k] \in FrameType
      BY <1>6, <1>9, <2>1, LastChanges
    <2>3. PICK g : g = [w EXCEPT !.todo = w.todo \ {d}]
      OBVIOUS
    <2>4. g \in FrameType /\ g.dir = w.dir
      BY <2>2, <2>3 DEF FrameType
    <2>5. PICK q : q = Append(Front(p), g)
      OBVIOUS
    <2>6. q \in Seq(FrameType) /\ q # <<>>
      BY <1>6, <1>9, <2>4, <2>5, LastReplaced
    <2>7. PICK r : r = [o EXCEPT !.pc = "child", !.frames = q]
      OBVIOUS
    <2>8. r \in OpType /\ r.pc = "child" /\ r.frames = q /\ r.result = o.result
      BY <1>3, <2>6, <2>7 DEF OpType
    <2>9. ops' = [ops EXCEPT ![e] = r]
      BY <1>1, <1>2, <1>3, <1>4, <1>5, <1>9, <2>1, <2>3, <2>5, <2>7 DEF ReturnOk
    <2>10. ASSUME OpKnows(o) PROVE OpKnows(r)'
      <3>1. /\ \A k \in DOMAIN s : FrameKnows(s[k])
            /\ \A k \in 1..(Len(s) - 1) : s[k + 1].dir \in s[k].todo
        BY <1>2, <2>10 DEF OpKnows
      <3>2. /\ \A k \in 1..(Len(s) - 1) : Parent[s[k + 1].dir] = s[k].dir
            /\ \A i, j \in DOMAIN s : i < j => s[i].dir # s[j].dir
        BY <3>1, FramesApart
      <3>3. PICK n \in Nat : n = Len(p) /\ Len(s) = n + 1 /\ n > 0
        <4>1. PICK m \in Nat : m = Len(s)
          BY <1>6
        <4>2. PICK n \in Nat : n = Len(p)
          BY <2>2
        <4>3. n = m - 1 /\ n > 0
          BY <1>6, <2>2, <4>1, <4>2
        <4>4. m = n + 1
          BY <4>1, <4>2, <4>3
        <4> QED BY <4>1, <4>2, <4>3, <4>4
      <3>4. /\ n \in DOMAIN s /\ n + 1 \in DOMAIN s /\ n \in 1..(Len(s) - 1)
            /\ \A k \in 1..n : k \in DOMAIN s /\ k < n + 1 /\ k \in 1..(Len(s) - 1)
            /\ \A k \in 1..(n - 1) : k \in 1..n /\ k < n /\ k + 1 \in 1..n
        BY <1>6, <3>3
      <3>5. w = s[n] /\ s[n + 1].dir = d /\ Parent[d] = w.dir
        BY <1>4, <1>6, <2>2, <3>2, <3>3, <3>4
      <3>6. ASSUME NEW k \in 1..n, NEW h, h = p[k]
            PROVE  /\ h \in FrameType /\ FrameKnows(h) /\ h.dir # d /\ h.dir \in dirs'
                   /\ Entries(h.dir)' = Entries(h.dir) \ {d}
        <4>1. h = s[k] /\ h \in FrameType
          BY <1>6, <2>2, <3>3, <3>4, <3>6
        <4>2. FrameKnows(h) /\ h.dir # d
          BY <3>1, <3>2, <3>4, <3>5, <4>1
        <4>3. h.dir \in dirs'
          BY <1>7, <4>2 DEF FrameKnows
        <4> QED BY <1>7, <4>1, <4>2, <4>3, EntriesWithout
      <3>7. FrameKnows(g)'
        <4>1. n \in 1..n /\ w = p[n]
          BY <2>2, <3>3
        <4>2. /\ FrameKnows(w) /\ w.dir \in dirs' /\ Entries(w.dir)' = Entries(w.dir) \ {d}
          BY <3>6, <4>1
        <4> QED BY <2>2, <2>3, <4>2, FrameWithout
      <3>8. ASSUME NEW k \in 1..(Len(p) - 1) PROVE FrameKnows(p[k])'
        <4>1. k \in 1..(n - 1) /\ k \in 1..n /\ k < n
          BY <3>3, <3>4
        <4>2. PICK h : h = p[k]
          OBVIOUS
        <4>3. /\ h \in FrameType /\ FrameKnows(h) /\ h.dir # d /\ h.dir \in dirs'
              /\ Entries(h.dir)' = Entries(h.dir) \ {d}
          BY <3>6, <4>1, <4>2
        <4>4. h.dir # w.dir
          <5>1. h = s[k] /\ k \in DOMAIN s
            BY <1>6, <3>4, <4>1, <4>2
          <5> QED BY <3>2, <3>4, <3>5, <4>1, <5>1
        <4>5. d \notin Entries(h.dir)
          BY <1>4, <3>5, <4>4, EntryFacts
        <4>6. FrameKnows(h)'
          BY <4>3, <4>5, FrameWithout
        <4> QED BY <4>2, <4>6
      <3>9. ASSUME NEW k \in 1..(Len(p) - 1) PROVE p[k + 1].dir \in p[k].todo
        <4>1. k \in 1..n /\ k + 1 \in 1..n
          BY <3>3, <3>4
        <4>2. k \in 1..(Len(s) - 1) /\ k + 1 \in 1..(Len(s) - 1)
          BY <3>4, <4>1
        <4> QED BY <1>6, <3>1, <4>2
      <3> QED BY <1>6, <1>9, <2>1, <2>4, <2>5, <2>8, <3>7, <3>8, <3>9, TopChanges
    <2> QED BY <1>1, <1>7, <2>6, <2>8, <2>9, <2>10, OpMoves
  <1> QED BY <1>8, <1>9

\* The directory is deleted, or it is not empty, or the server is to blame.
LEMMA DeleteEmptyDirInv ==
  ASSUME TreeTypeOK, CreatesMissing, NEW e \in Deleters, DeleteEmptyDir(e)
  PROVE  OpStep(e)
  <1>1. PICK o : o = ops[e]
    OBVIOUS
  <1>2. /\ Running(e) /\ Top(e).todo = {} /\ ~Top(e).cookie /\ calls' = calls /\ files' = files
        /\ readonly' = readonly
    BY DEF DeleteEmptyDir, Running
  <1>3. CASE /\ Top(e).dir \in dirs /\ dirs' = dirs \ {Top(e).dir} /\ ForgetRemoved
             /\ ReturnOk(e) /\ Disturb(e) /\ failed' = failed
    BY <1>2, <1>3, ReturnOkInv
  <1>4. CASE /\ ReturnError(e)
             /\ failed' = (failed \/ (Top(e).dir \in dirs /\ Entries(Top(e).dir) = {}))
             /\ dirs' = dirs /\ before' = before /\ disturbed' = disturbed
    <2>1. OpKnows(ops[e]) => Top(e).dir \in dirs /\ Entries(Top(e).dir) = {}
      <3> HAVE OpKnows(ops[e])
      <3>1. FrameKnows(Top(e))
        BY <1>1, <1>2, OpFacts
      <3> QED BY <1>2, <3>1 DEF FrameKnows
    <2>2. failed' \in BOOLEAN /\ (failed => failed') /\ (OpKnows(ops[e]) => failed')
      BY <1>4, <2>1 DEF TreeTypeOK, TypeOK
    <2> QED BY <1>2, <1>4, <2>2, ReturnErrorInv
  <1> QED BY <1>3, <1>4 DEF DeleteEmptyDir

\* Every step of an op.
LEMMA OpStepInv ==
  ASSUME TreeTypeOK, CreatesMissing, NEW e \in Deleters,
         (\E d \in Dirs : SmbProxyDeleteEntity(e, d)) \/ DeleteStep(e)
  PROVE  OpStep(e)
  BY DeleteEntityInv, ListChildrenInv, NextPageInv, DeleteSubdirInv, DeleteFileInv,
     ClearFileAttributesInv, DeleteFileAgainInv, DeleteEmptyDirInv DEF DeleteStep

-----------------------------------------------------------------------------
(* The tree. *)

\* Nobody is in an RPC in the beginning.
LEMMA TreeInitInv ==
  ASSUME TreeInit
  PROVE  TreeTypeOK /\ CreatesMissing /\ MakeInv /\ DeleteInv
  <1>1. /\ Init /\ files \subseteq Files /\ readonly \subseteq Files /\ disturbed = {}
        /\ ops = [e \in Deleters |-> NoOp]
    BY DEF TreeInit
  <1>2. TypeOK /\ CreatesMissing /\ PathToMake
    BY <1>1, MakeInit
  <1>3. /\ ops \in [Deleters -> OpType]
        /\ \A e \in Deleters : ops[e].pc = "idle" /\ ops[e].result = "none"
    BY <1>1, NewOps
  <1>4. TreeTypeOK
    BY <1>1, <1>2, <1>3 DEF TreeTypeOK, Running
  <1> QED BY <1>2, <1>3, <1>4 DEF MakeInv, DeleteInv, Running

\* A step of MkDirWithParents: an op that runs knows no longer what is in its
\* directories, and counts as disturbed, when the directories changed.
LEMMA MakeStepInv ==
  ASSUME TreeTypeOK, CreatesMissing, MakeStep
  PROVE  /\ TreeTypeOK' /\ CreatesMissing' /\ (MakeInv => MakeInv') /\ (DeleteInv => DeleteInv')
         /\ \A t \in Threads : calls[t].pc = "clean" /\ calls'[t] # calls[t]
              => before[t] \subseteq dirs'
  <1>1. PICK t \in Threads : MakeDirStep(t)
    BY DEF MakeStep
  <1>2. /\ files' = files /\ readonly' = readonly /\ ops' = ops
        /\ disturbed' = IF dirs' = dirs THEN disturbed
                        ELSE disturbed \cup {e \in Deleters : Running(e)}
    BY DEF MakeStep
  <1>3. /\ TypeOK' /\ CreatesMissing' /\ (PathToMake /\ ~failed' => PathToMake')
        /\ \A u \in Threads : u # t => calls'[u] = calls[u]
        /\ calls[t].pc = "clean" => before[t] \subseteq dirs'
        /\ failed => failed'
    BY <1>1, MakeDirStepInv DEF TreeTypeOK
  <1>4. TreeTypeOK'
    <2>1. disturbed' \subseteq Deleters
      BY <1>2 DEF TreeTypeOK
    <2> QED BY <1>2, <1>3, <2>1 DEF TreeTypeOK, Running
  <1>5. MakeInv => MakeInv'
    BY <1>2, <1>3 DEF MakeInv
  <1>6. DeleteInv => DeleteInv'
    <2> SUFFICES ASSUME DeleteInv, ~failed', NEW e \in Deleters, e \notin disturbed'
                 PROVE  ops'[e].result # "error" /\ (Running(e)' => OpKnows(ops[e])')
      BY DEF DeleteInv
    <2>1. e \notin disturbed /\ (Running(e) => dirs' = dirs)
      BY <1>2
    <2>2. ops[e].result # "error" /\ (Running(e) => OpKnows(ops[e]))
      BY <1>3, <2>1 DEF DeleteInv
    <2>3. PICK o : o = ops[e]
      OBVIOUS
    <2>4. Running(e)' => OpKnows(o)'
      <3>1. Running(e)' <=> Running(e)
        BY <1>2 DEF Running
      <3>2. readonly' \subseteq readonly
        BY <1>2
      <3>3. Running(e) => OpKnows(o)'
        BY <1>2, <2>1, <2>2, <2>3, <3>2, KnowsKept
      <3> QED BY <3>1, <3>3
    <2>5. ops'[e] = o
      BY <1>2, <2>3
    <2>6. OpKnows(o)' => OpKnows(ops[e])'
      BY <2>5 DEF OpKnows
    <2> QED BY <1>2, <2>2, <2>4, <2>6
  <1>7. \A u \in Threads : calls[u].pc = "clean" /\ calls'[u] # calls[u] => before[u] \subseteq dirs'
    BY <1>3
  <1> QED BY <1>3, <1>4, <1>5, <1>6, <1>7

\* A step of an op: it is not one that leaves every thread without an op, and the
\* others that run are disturbed when the tree changes.
LEMMA OpStepKeeps ==
  ASSUME TreeTypeOK, NEW e \in Deleters, OpStep(e)
  PROVE  MakeInv' /\ (~RootDir /\ DeleteInv => DeleteInv')
  <1>1. MakeInv'
    <2>1. ops'[e] # NoOp
      BY NewOps DEF OpStep
    <2> QED BY <2>1 DEF MakeInv
  <1>2. ASSUME ~RootDir, DeleteInv, ~failed', NEW o \in Deleters, o \notin disturbed'
        PROVE  ops'[o].result # "error" /\ (Running(o)' => OpKnows(ops[o])')
    <2>1. /\ ~failed /\ disturbed \subseteq disturbed' /\ readonly' \subseteq readonly
          /\ \/ dirs' = dirs /\ files' = files
             \/ Disturb(e)
      BY <1>2 DEF OpStep, Disturb
    <2>2. ops[o].result # "error" /\ (Running(o) => OpKnows(ops[o]))
      BY <1>2, <2>1 DEF DeleteInv
    <2>3. CASE o = e
      BY <1>2, <2>2, <2>3 DEF OpStep
    <2>4. CASE o # e
      <3>1. PICK p : p = ops[o]
        OBVIOUS
      <3>2. ops'[o] = p
        BY <2>4, <3>1 DEF OpStep
      <3>3. Running(o)' <=> Running(o)
        BY <3>1, <3>2 DEF Running
      <3>4. Running(o) => dirs' = dirs /\ files' = files
        BY <1>2, <2>1, <2>4 DEF Disturb
      <3>5. Running(o) => OpKnows(p)'
        BY <2>1, <2>2, <3>1, <3>4, KnowsKept
      <3>6. OpKnows(p)' => OpKnows(ops[o])'
        BY <3>2 DEF OpKnows
      <3> QED BY <2>2, <3>1, <3>2, <3>3, <3>5, <3>6
    <2> QED BY <2>3, <2>4
  <1> QED BY <1>1, <1>2 DEF DeleteInv

\* One step of anybody.
LEMMA TreeStep ==
  ASSUME TreeTypeOK, CreatesMissing, [TreeNext]_allVars
  PROVE  /\ TreeTypeOK' /\ CreatesMissing' /\ (MakeInv => MakeInv')
         /\ ~RootDir /\ DeleteInv => DeleteInv'
         /\ \A t \in Threads : calls[t].pc = "clean" /\ calls'[t] # calls[t]
              => before[t] \subseteq dirs'
  <1>1. CASE MakeStep
    BY <1>1, MakeStepInv
  <1>2. ASSUME NEW e \in Deleters,
               (\E d \in Dirs : SmbProxyDeleteEntity(e, d)) \/ DeleteStep(e)
        PROVE  /\ TreeTypeOK' /\ CreatesMissing' /\ MakeInv' /\ calls' = calls
               /\ ~RootDir /\ DeleteInv => DeleteInv'
    <2>1. OpStep(e)
      BY <1>2, OpStepInv
    <2>2. MakeInv' /\ (~RootDir /\ DeleteInv => DeleteInv')
      BY <2>1, OpStepKeeps
    <2>3. TreeTypeOK' /\ CreatesMissing' /\ calls' = calls
      BY <2>1 DEF OpStep
    <2> QED BY <2>2, <2>3
  <1>3. CASE UNCHANGED allVars
    <2>1. /\ dirs' = dirs /\ calls' = calls /\ before' = before /\ failed' = failed
          /\ files' = files /\ readonly' = readonly /\ ops' = ops /\ disturbed' = disturbed
      BY <1>3 DEF allVars, vars, treeVars
    <2>2. TypeOK' /\ CreatesMissing'
      BY <2>1 DEF TreeTypeOK, TypeOK, CreatesMissing
    <2>3. TreeTypeOK'
      BY <2>1, <2>2 DEF TreeTypeOK, Running
    <2>4. MakeInv => MakeInv'
      BY <2>1 DEF MakeInv, PathToMake, OnPath
    <2>5. DeleteInv => DeleteInv'
      <3> SUFFICES ASSUME DeleteInv, ~failed', NEW e \in Deleters, e \notin disturbed'
                   PROVE  ops'[e].result # "error" /\ (Running(e)' => OpKnows(ops[e])')
        BY DEF DeleteInv
      <3>1. ops[e].result # "error" /\ (Running(e) => OpKnows(ops[e]))
        BY <2>1 DEF DeleteInv
      <3>2. PICK o : o = ops[e]
        OBVIOUS
      <3>3. Running(e)' => OpKnows(o)'
        BY <2>1, <3>1, <3>2, KnowsKept DEF Running
      <3>4. OpKnows(o)' => OpKnows(ops[e])'
        BY <2>1, <3>2 DEF OpKnows
      <3> QED BY <2>1, <3>1, <3>3, <3>4
    <2> QED BY <2>1, <2>2, <2>3, <2>4, <2>5
  <1> QED BY <1>1, <1>2, <1>3 DEF TreeNext

\* An op reports success in one step only, the removal of the directory that it was
\* asked to delete, which has no entries then.
LEMMA OkStep ==
  ASSUME TreeTypeOK, [TreeNext]_allVars, NEW o \in Deleters, ops'[o].result = "ok",
         ops[o].result # "ok"
  PROVE  \E d \in Dirs : /\ ops[o].frames[1].dir = d /\ d \notin dirs'
                         /\ \A f \in files' : DirOf[f] # d
                         /\ \A c \in dirs' : Parent[c] # d
  <1>1. ops \in [Deleters -> OpType] /\ ops' # ops
    BY DEF TreeTypeOK
  <1>2. PICK e \in Deleters : (\E d \in Dirs : SmbProxyDeleteEntity(e, d)) \/ DeleteStep(e)
    BY <1>1 DEF TreeNext, MakeStep, allVars, treeVars
  <1>3. ASSUME NEW r, r.result # "ok" \/ r.result = ops[e].result, ops' = [ops EXCEPT ![e] = r]
        PROVE  FALSE
    BY <1>1, <1>3
  <1>4. ~ReturnError(e)
    <2> SUFFICES ASSUME ReturnError(e) PROVE FALSE
      OBVIOUS
    <2>1. PICK l : ops' = [ops EXCEPT ![e] = [NoOp EXCEPT !.result = "error", !.leftover = l]]
      BY DEF ReturnError
    <2>2. [NoOp EXCEPT !.result = "error", !.leftover = l].result = "error"
      BY DEF NoOp
    <2> QED BY <1>3, <2>1, <2>2
  <1>5. PICK w : w = ops[e]
    OBVIOUS
  <1>6. w \in OpType
    BY <1>1, <1>5
  <1>7. ASSUME NEW pc, NEW f, WithTop(e, pc, f) PROVE FALSE
    <2>1. PICK r : r = [w EXCEPT !.pc = pc, !.frames = Append(Front(w.frames), f)]
      OBVIOUS
    <2>2. r.result = w.result
      BY <1>6, <2>1 DEF OpType
    <2>3. ops' = [ops EXCEPT ![e] = r]
      BY <1>1, <1>5, <1>7, <2>1 DEF WithTop
    <2> QED BY <1>3, <1>5, <2>2, <2>3
  <1>8. ASSUME NEW d, SmbProxyDeleteEntity(e, d) PROVE FALSE
    <2>1. PICK r : r = [NoOp EXCEPT !.pc = "list", !.frames = <<Frame(d)>>]
      OBVIOUS
    <2>2. r.result = "none"
      BY <2>1 DEF NoOp
    <2> QED BY <1>3, <1>8, <2>1, <2>2 DEF SmbProxyDeleteEntity
  <1>9. ~ListChildren(e)
    BY <1>7 DEF ListChildren
  <1>10. ASSUME NEW x, ops' = [ops EXCEPT ![e].pc = x] PROVE FALSE
    <2>1. PICK r : r = [w EXCEPT !.pc = x]
      OBVIOUS
    <2>2. r.result = w.result
      BY <1>6, <2>1 DEF OpType
    <2> QED BY <1>3, <1>5, <1>10, <2>1, <2>2
  <1>11. ~NextPage(e) /\ ~ClearFileAttributes(e)
    BY <1>4, <1>10 DEF NextPage, ClearFileAttributes
  <1>12. ~DeleteSubdir(e)
    <2> SUFFICES ASSUME NEW d,
                   ops' = [ops EXCEPT ![e].pc = "list", ![e].frames = Append(@, Frame(d))]
                 PROVE  FALSE
      BY DEF DeleteSubdir
    <2>1. PICK r : r = [w EXCEPT !.pc = "list", !.frames = Append(w.frames, Frame(d))]
      OBVIOUS
    <2>2. r.result = w.result
      BY <1>6, <2>1 DEF OpType
    <2>3. ops' = [ops EXCEPT ![e] = r]
      BY <1>1, <1>5, <2>1
    <2> QED BY <1>3, <1>5, <2>2, <2>3
  <1>13. ~DeleteFile(e) /\ ~DeleteFileAgain(e)
    <2>1. \A x : ~FileDeleted(e, x) /\ ~FileNotDeleted(e, x)
      BY <1>4, <1>7 DEF FileDeleted, FileNotDeleted
    <2>2. ASSUME NEW x, ops' = [ops EXCEPT ![e].pc = "clear", ![e].file = x] PROVE FALSE
      <3>1. PICK r : r = [w EXCEPT !.pc = "clear", !.file = x]
        OBVIOUS
      <3>2. r.result = w.result
        BY <1>6, <3>1 DEF OpType
      <3>3. ops' = [ops EXCEPT ![e] = r]
        BY <1>1, <1>5, <2>2, <3>1
      <3> QED BY <1>3, <1>5, <3>2, <3>3
    <2> QED BY <2>1, <2>2 DEF DeleteFile, DeleteFileAgain
  <1>14. DeleteEmptyDir(e)
    BY <1>2, <1>8, <1>9, <1>11, <1>12, <1>13 DEF DeleteStep
  <1>15. /\ Running(e) /\ Top(e).dir \in dirs /\ Entries(Top(e).dir) = {}
         /\ dirs' = dirs \ {Top(e).dir} /\ files' = files /\ ReturnOk(e)
    BY <1>4, <1>14 DEF DeleteEmptyDir, Running
  <1>16. PICK s \in Seq(FrameType) : s = w.frames /\ s # <<>> /\ Top(e) = Last(s)
    BY <1>5, <1>15, OpFacts
  <1>17. Front(s) = <<>>
    <2> SUFFICES ASSUME Front(s) # <<>> PROVE FALSE
      OBVIOUS
    <2>1. PICK q : q = Append(Front(Front(s)),
                              [Last(Front(s)) EXCEPT !.todo = @ \ {Top(e).dir}])
      OBVIOUS
    <2>2. PICK r : r = [w EXCEPT !.pc = "child", !.frames = q]
      OBVIOUS
    <2>3. r.result = w.result
      BY <1>6, <2>2 DEF OpType
    <2>4. ops' = [ops EXCEPT ![e] = r]
      BY <1>5, <1>15, <1>16, <2>1, <2>2 DEF ReturnOk
    <2> QED BY <1>3, <1>5, <2>3, <2>4
  <1>18. o = e
    <2> SUFFICES ASSUME o # e PROVE FALSE
      OBVIOUS
    <2>1. ops'[o] = ops[o]
      BY <1>1, <1>15 DEF ReturnOk
    <2> QED BY <2>1
  <1>19. Len(s) = 1 /\ Last(s) = s[Len(s)]
    BY <1>16, <1>17, LastChanges
  <1>20. ops[o].frames[1].dir = Top(e).dir
    BY <1>5, <1>16, <1>18, <1>19
  <1>21. Top(e).dir \in Dirs
    BY <1>15 DEF TreeTypeOK, TypeOK
  <1> QED BY <1>15, <1>20, <1>21 DEF Entries, Children

\* Types are kept, what a call to MkDirWithParents creates was missing when the call
\* began, and while nobody deletes and the server fails no call, the missing directories
\* of every call are a path below one that is there.
THEOREM TreeInvariant == TreeSpec => [](TreeTypeOK /\ CreatesMissing /\ MakeInv)
  <1>1. TreeInit => TreeTypeOK /\ CreatesMissing /\ MakeInv
    BY TreeInitInv
  <1>2. /\ TreeTypeOK /\ CreatesMissing /\ MakeInv /\ [TreeNext]_allVars
        => (TreeTypeOK /\ CreatesMissing /\ MakeInv)'
    BY TreeStep
  <1> QED BY <1>1, <1>2, PTL DEF TreeSpec

\* The clean-up of MkDirWithParents removes no directory that has been there since the
\* call began, whoever else creates and deletes directories meanwhile.
THEOREM ExistingKeptHolds == TreeSpec => ExistingKept
  <1>1. TreeTypeOK /\ CreatesMissing /\ [TreeNext]_allVars
        => [\A t \in Threads : calls[t].pc = "clean" /\ calls'[t] # calls[t]
              => before[t] \subseteq dirs']_vars
    BY TreeStep
  <1> QED BY <1>1, TreeInvariant, PTL DEF TreeSpec, ExistingKept

\* While nobody deletes and the server fails no call, no call to MkDirWithParents fails,
\* however many threads create directories with the same parents.
THEOREM MakeRaceIsHarmlessHolds == TreeSpec => []MakeRaceIsHarmless
  <1>1. MakeInv => MakeRaceIsHarmless
    BY DEF MakeInv, MakeRaceIsHarmless, RaceIsHarmless, PathToMake, OnPath
  <1> QED BY <1>1, TreeInvariant, PTL

\* DeleteEntityOp reports success only when the directory is gone, with all that was in it.
THEOREM OkMeansGoneHolds == TreeSpec => OkMeansGone
  <1>1. TreeTypeOK /\ [TreeNext]_allVars
        => [\A e \in Deleters : ops'[e].result = "ok" /\ ops[e].result # "ok" =>
              \E d \in Dirs : /\ ops[e].frames[1].dir = d /\ d \notin dirs'
                              /\ \A f \in files' : DirOf[f] # d
                              /\ \A c \in dirs' : Parent[c] # d]_allVars
    BY OkStep
  <1> QED BY <1>1, TreeInvariant, PTL DEF TreeSpec, OkMeansGone

\* Without root_dir, the op of a thread that nobody disturbs knows at every step what is
\* in the directories it is in, and a deletion returns an error only when the server failed.
THEOREM DeleteSucceedsHolds == ~RootDir => (TreeSpec => []DeleteSucceeds)
  <1> SUFFICES ASSUME ~RootDir PROVE TreeSpec => []DeleteSucceeds
    OBVIOUS
  <1>1. TreeInit => TreeTypeOK /\ CreatesMissing /\ DeleteInv
    BY TreeInitInv
  <1>2. /\ TreeTypeOK /\ CreatesMissing /\ DeleteInv /\ [TreeNext]_allVars
        => (TreeTypeOK /\ CreatesMissing /\ DeleteInv)'
    BY TreeStep
  <1>3. DeleteInv => DeleteSucceeds
    BY DEF DeleteInv, DeleteSucceeds
  <1> QED BY <1>1, <1>2, <1>3, PTL DEF TreeSpec

=============================================================================
