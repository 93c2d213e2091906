------------------------- MODULE FileTransferProofs --------------------------
(***************************************************************************)
(* Theorems about FileTransfer: for every file, every range, every size of *)
(* the pieces and any failures and short transfers of the server, what is  *)
(* read is what the file has, and what was written is in the file.         *)
(***************************************************************************)
EXTENDS FileTransfer, SequenceTheorems, WellFoundedInduction, TLAPS

-----------------------------------------------------------------------------
\* The minimum of two numbers.
LEMMA MinIs ==
  ASSUME NEW a \in Int, NEW b \in Int
  PROVE  Min({a, b}) = IF a <= b THEN a ELSE b
  <1>1. \A x \in {a, b} : (\A y \in {a, b} : x <= y) <=> x = IF a <= b THEN a ELSE b
    OBVIOUS
  <1> QED BY <1>1 DEF Min

\* A set of numbers up to a bound has a largest one.
LEMMA MaxIs ==
  ASSUME NEW m \in Nat, NEW T \in SUBSET (0..m), T # {}
  PROVE  Max(T) \in T /\ \A x \in T : x <= Max(T)
  <1> DEFINE U == {m - x : x \in T}
  <1>1. U \subseteq Nat /\ U # {}
    OBVIOUS
  <1>2. \E x \in U : \A y \in U : ~(<<y, x>> \in OpToRel(<, Nat))
    BY <1>1, WFMin, NatLessThanWellFounded
  <1>3. PICK x \in U : \A y \in U : ~(<<y, x>> \in OpToRel(<, Nat))
    BY <1>2
  <1> HIDE DEF U
  <1>a. \A y \in U : <<y, x>> \in Nat \X Nat /\ <<y, x>>[1] = y /\ <<y, x>>[2] = x
    BY <1>1
  <1>b. \A y \in U : ~(y < x)
    BY <1>a, <1>3, Zenon DEF OpToRel
  <1>4. \A y \in U : x <= y
    BY <1>1, <1>b
  <1> USE DEF U
  <1>5. m - x \in T /\ \A y \in T : y <= m - x
    <2>1. PICK z \in T : x = m - z
      OBVIOUS
    <2>2. \A y \in T : m - y \in U
      OBVIOUS
    <2> HIDE DEF U
    <2>3. z = m - x /\ \A y \in T : y \in Int /\ x <= m - y
      BY <2>1, <2>2, <1>4
    <2>4. x \in Int
      BY <2>1
    <2> QED BY <2>3, <2>4
  <1> HIDE DEF U
  <1>6. \E z \in T : \A y \in T : z >= y
    BY <1>5
  <1> QED BY <1>6 DEF Max

\* What the server transfers is within the piece and within the file.
LEMMA AvailableIs ==
  ASSUME TypeOK
  PROVE  /\ PieceSize \in Nat /\ PieceSize <= call.todo
         /\ call.todo > 0 => PieceSize > 0
         /\ \A n \in Available : /\ n \in Nat \ {0} /\ n <= PieceSize
                                 /\ call.offset + call.done + n <= FileLen
  <1>1. {call.todo, call.offset, call.done, MaxSize, FileLen} \subseteq Nat /\ MaxSize > 0
    BY TransferAssumption DEF TypeOK, CallType
  <1>2. PieceSize = IF call.todo <= MaxSize THEN call.todo ELSE MaxSize
    BY <1>1, MinIs DEF PieceSize
  <1>3. PieceSize \in Nat /\ PieceSize <= call.todo /\ (call.todo > 0 => PieceSize > 0)
    BY <1>1, <1>2
  <1> DEFINE rest == FileLen - call.offset - call.done
  <1>4. Available = 1..(IF PieceSize <= rest THEN PieceSize ELSE rest)
    BY <1>1, <1>3, MinIs DEF Available
  <1> QED BY <1>1, <1>3, <1>4

\* How PieceDone and Retry change the call.
LEMMA PieceDoneIs ==
  ASSUME NEW c \in CallType, NEW n \in 0..c.todo, NEW e \in Errors
  PROVE  LET r == PieceDone(c, n, e) IN
         /\ r \in CallType /\ r.rpc = c.rpc /\ r.offset = c.offset /\ r.size = c.size
         /\ r.data = c.data /\ r.todo = c.todo - n /\ r.done = c.done + n /\ r.error = e
         /\ r.pc = IF e = "ok" /\ r.todo > 0 THEN c.pc ELSE "returned"
  <1>1. PICK todo \in Nat : todo = c.todo - n
    BY DEF CallType
  <1>2. PICK done \in Nat : done = c.done + n
    BY DEF CallType
  <1>3. PICK pc \in {"idle", "read", "write", "returned"} :
          pc = IF e = "ok" /\ todo > 0 THEN c.pc ELSE "returned"
    BY DEF CallType
  <1>4. PICK m \in 0..MaxRetries : m = 0
    BY TransferAssumption
  <1> DEFINE r == [c EXCEPT !.todo = todo, !.done = done, !.num_retries = m, !.error = e,
                            !.pc = pc]
  <1>5. PieceDone(c, n, e) = r
    BY <1>1, <1>2, <1>3, <1>4 DEF PieceDone, CallType
  <1>6. r \in CallType
    BY DEF CallType
  <1>7. /\ r.rpc = c.rpc /\ r.offset = c.offset /\ r.size = c.size
        /\ r.data = c.data /\ r.todo = todo /\ r.done = done /\ r.error = e /\ r.pc = pc
    BY DEF CallType
  <1> HIDE DEF r
  <1> QED BY <1>1, <1>2, <1>3, <1>5, <1>6, <1>7

LEMMA RetryIs ==
  ASSUME NEW c \in CallType, NEW n \in 0..c.todo, NEW e \in Errors
  PROVE  LET r == Retry(c, n, e) IN
         \/ r = PieceDone(c, n, e)
         \/ /\ r \in CallType /\ r.rpc = c.rpc /\ r.offset = c.offset /\ r.size = c.size
            /\ r.data = c.data /\ r.todo = c.todo /\ r.done = c.done /\ r.error = e
            /\ r.pc = c.pc
  <1>1. CASE c.num_retries < MaxRetries
    <2>1. PICK m \in 0..MaxRetries : m = c.num_retries + 1
      BY <1>1, TransferAssumption DEF CallType
    <2> DEFINE r == [c EXCEPT !.num_retries = m, !.error = e]
    <2>2. Retry(c, n, e) = r
      BY <1>1, <2>1 DEF Retry, CallType
    <2>3. r \in CallType
      BY DEF CallType
    <2>4. /\ r.rpc = c.rpc /\ r.offset = c.offset /\ r.size = c.size
          /\ r.data = c.data /\ r.todo = c.todo /\ r.done = c.done /\ r.error = e
          /\ r.pc = c.pc
      BY DEF CallType
    <2> HIDE DEF r
    <2> QED BY <2>2, <2>3, <2>4
  <1>2. CASE ~(c.num_retries < MaxRetries)
    BY <1>2 DEF Retry
  <1> QED BY <1>1, <1>2

\* std::string::replace leaves what is before and after the piece.
LEMMA ReplaceIs ==
  ASSUME NEW S, NEW buf \in Seq(S), NEW piece \in Seq(S), NEW d \in 0..Len(buf)
  PROVE  LET r == Replace(buf, d, piece) IN
         /\ r \in Seq(S)
         /\ Len(r) = IF d + Len(piece) <= Len(buf) THEN Len(buf) ELSE d + Len(piece)
         /\ \A k \in 1..Len(r) :
              r[k] = IF k \in (d + 1)..(d + Len(piece)) THEN piece[k - d] ELSE buf[k]
  <1> DEFINE m == Len(piece)
             a == SubSeq(buf, 1, d)
             b == SubSeq(buf, d + m + 1, Len(buf))
  <1>1. m \in Nat /\ Len(buf) \in Nat /\ d \in Nat
    BY LenProperties
  <1>2. a \in Seq(S) /\ Len(a) = d /\ \A k \in 1..d : a[k] = buf[k]
    BY <1>1, SubSeqProperties
  <1>3. /\ b \in Seq(S) /\ Len(b) = IF d + m <= Len(buf) THEN Len(buf) - d - m ELSE 0
        /\ \A k \in 1..Len(b) : b[k] = buf[d + m + k]
    BY <1>1, SubSeqProperties
  <1> HIDE DEF a, b
  <1>4. /\ a \o piece \in Seq(S) /\ Len(a \o piece) = d + m
        /\ \A k \in 1..(d + m) : (a \o piece)[k] = IF k <= d THEN a[k] ELSE piece[k - d]
    BY <1>1, <1>2, ConcatProperties
  <1> DEFINE ap == a \o piece
  <1>7. ap \in Seq(S) /\ Len(ap) = d + m
    BY <1>4
  <1> HIDE DEF ap
  <1>8. /\ ap \o b \in Seq(S) /\ Len(ap \o b) = d + m + Len(b)
        /\ \A k \in 1..(d + m + Len(b)) :
             (ap \o b)[k] = IF k <= d + m THEN ap[k] ELSE b[k - (d + m)]
    <2>1. Len(b) \in Nat
      BY <1>3, LenProperties
    <2>2. /\ ap \o b \in Seq(S) /\ Len(ap \o b) = Len(ap) + Len(b)
          /\ \A k \in 1..(Len(ap) + Len(b)) :
               (ap \o b)[k] = IF k <= Len(ap) THEN ap[k] ELSE b[k - Len(ap)]
      BY <1>7, <1>3, ConcatProperties, ZenonT(60)
    <2> QED BY <2>2, <1>7
  <1>5. /\ (a \o piece) \o b \in Seq(S) /\ Len((a \o piece) \o b) = d + m + Len(b)
        /\ \A k \in 1..(d + m + Len(b)) :
             ((a \o piece) \o b)[k] = IF k <= d + m THEN (a \o piece)[k] ELSE b[k - (d + m)]
    BY <1>8 DEF ap
  <1>6. Replace(buf, d, piece) = (a \o piece) \o b
    BY DEF Replace, a, b
  <1> DEFINE r == Replace(buf, d, piece)
  <1>9. r \in Seq(S) /\ Len(r) = d + m + Len(b)
    BY <1>5, <1>6
  <1>10. Len(r) = IF d + m <= Len(buf) THEN Len(buf) ELSE d + m
    <2> HIDE DEF m, r
    <2>1. CASE d + m <= Len(buf)
      <3>1. Len(b) = Len(buf) - d - m
        BY <1>3, <2>1
      <3> QED BY <3>1, <1>1, <1>9, <2>1
    <2>2. CASE ~(d + m <= Len(buf))
      <3>1. Len(b) = 0
        BY <1>3, <2>2
      <3> QED BY <3>1, <1>1, <1>9, <2>2
    <2> QED BY <2>1, <2>2
  <1>11. ASSUME NEW k \in 1..Len(r)
         PROVE  r[k] = IF k \in (d + 1)..(d + m) THEN piece[k - d] ELSE buf[k]
    <2> HIDE DEF r, m
    <2>1. k \in 1..(d + m + Len(b)) /\ k \in Int
      BY <1>9, <1>1, <1>10
    <2>2. r[k] = IF k <= d + m THEN (a \o piece)[k] ELSE b[k - (d + m)]
      BY <2>1, <1>5, <1>6 DEF r
    <2>3. CASE k <= d + m
      <3>1. r[k] = IF k <= d THEN a[k] ELSE piece[k - d]
        BY <2>1, <2>2, <2>3, <1>1, <1>4
      <3> QED BY <3>1, <2>1, <2>3, <1>1, <1>2
    <2>4. CASE ~(k <= d + m)
      <3>1. k - (d + m) \in 1..Len(b) /\ d + m + (k - (d + m)) = k
        <4>1. Len(b) \in Nat
          BY <1>3, LenProperties
        <4> QED BY <4>1, <2>1, <2>4, <1>1
      <3>2. b[k - (d + m)] = buf[k]
        BY <3>1, <1>3
      <3> QED BY <3>2, <2>1, <2>2, <2>4, <1>1
    <2> QED BY <2>3, <2>4
  <1> QED BY <1>9, <1>10, <1>11

\* What is left out of a stubbed file is zeros.
LEMMA StubbedSizeIs ==
  ASSUME NEW s \in Nat \ {0}, NEW data, DOMAIN data = 1..s
  PROVE  /\ StubbedSize(data) \in 1..s
         /\ \A i \in 1..s : i > StubbedSize(data) => data[i] = 0
  <1> DEFINE T == {1} \cup {i \in DOMAIN data : data[i] # 0}
  <1>1. T \in SUBSET (0..s) /\ T # {} /\ T \subseteq 1..s
    OBVIOUS
  <1>2. Max(T) \in T /\ \A x \in T : x <= Max(T)
    BY ONLY <1>1, s \in Nat, MaxIs
  <1>3. StubbedSize(data) = Max(T)
    BY DEF StubbedSize
  <1>4. ASSUME NEW i \in 1..s, i > Max(T)
        PROVE  data[i] = 0
    <2>1. i \notin T
      BY <1>1, <1>2, <1>4
    <2> QED BY <2>1
  <1> QED BY <1>1, <1>2, <1>3, <1>4

\* What a try does to the call, whether it ends the piece or is to be repeated: the bytes
\* of the try count or do not, and a call that goes on has something left to do.
LEMMA TryIs ==
  ASSUME NEW c \in CallType, c.pc \in {"read", "write"}, c.todo > 0, NEW n \in 0..c.todo,
         NEW e \in Errors, NEW r \in {PieceDone(c, n, e), Retry(c, n, e)}
  PROVE  /\ r \in CallType /\ r.rpc = c.rpc /\ r.offset = c.offset /\ r.size = c.size
         /\ r.data = c.data /\ r.pc \in {c.pc, "returned"}
         /\ \/ r.todo = c.todo /\ r.done = c.done
            \/ r.todo = c.todo - n /\ r.done = c.done + n
         /\ r.pc # "returned" => r.todo > 0
         /\ r.pc = "returned" => r.error = e /\ (e = "ok" => r.todo = 0)
         /\ r.pc = "returned" => r.done = c.done + n
  <1>0. c.todo \in Nat /\ c.done \in Nat /\ n \in Nat
    BY DEF CallType
  <1>1. CASE r = PieceDone(c, n, e)
    BY <1>0, <1>1, PieceDoneIs
  <1>2. CASE r # PieceDone(c, n, e)
    BY <1>0, <1>2, RetryIs
  <1> QED BY <1>1, <1>2

\* The parts of the invariant that say how a call runs.
LEMMA RunningStep ==
  ASSUME TypeOK, Running, call.pc \in {"read", "write"},
         NEW c \in CallType, c.pc = call.pc, c.rpc = call.rpc, c.size = call.size,
         c.todo = call.todo, c.done = call.done, NEW n \in 0..c.todo, NEW e \in Errors,
         NEW r \in {PieceDone(c, n, e), Retry(c, n, e)}, call' = r
  PROVE  Running' /\ call' \in CallType /\ call'.done + call'.todo <= call'.size
  <1>0. c.todo \in Nat /\ c.done \in Nat /\ n \in Nat /\ c.todo > 0 /\ c.size \in Nat
    BY DEF CallType, Running
  <1>1. /\ r \in CallType /\ r.rpc = c.rpc /\ r.size = c.size /\ r.pc \in {c.pc, "returned"}
        /\ \/ r.todo = c.todo /\ r.done = c.done
           \/ r.todo = c.todo - n /\ r.done = c.done + n
        /\ r.pc # "returned" => r.todo > 0
        /\ r.pc = "returned" => r.error = e /\ (e = "ok" => r.todo = 0)
    BY <1>0, TryIs
  <1>2. r.done + r.todo <= r.size
    BY <1>0, <1>1 DEF TypeOK
  <1> QED BY <1>1, <1>2 DEF Running

\* Bytes of the file are a sequence of bytes.
LEMMA BytesIs ==
  ASSUME TypeOK, NEW i \in Nat, NEW n \in Nat, i + n <= FileLen
  PROVE  /\ Bytes(i, n) \in Seq(Byte) /\ Len(Bytes(i, n)) = n
         /\ \A k \in 1..n : i + k - 1 \in Positions /\ Bytes(i, n)[k] = file[i + k - 1]
  <1>1. \A k \in 1..n : i + k - 1 \in Positions /\ file[i + k - 1] \in Byte
    BY TransferAssumption DEF TypeOK, Positions
  <1>2. Bytes(i, n) \in [1..n -> Byte]
    BY <1>1 DEF Bytes
  <1>3. Bytes(i, n) \in Seq(Byte)
    BY <1>2
  <1>4. Len(Bytes(i, n)) = n
    BY <1>2, <1>3, LenProperties
  <1> QED BY <1>1, <1>3, <1>4 DEF Bytes

-----------------------------------------------------------------------------
\* The steps of a call keep the invariant.
LEMMA ReadStep ==
  ASSUME TypeOK, TransferInv, NEW n \in Available, ReadBytesFromOffset(n)
  PROVE  TypeOK' /\ TransferInv'
  <1> DEFINE p == Bytes(call.offset + call.done, n)
             data == Replace(call.data, call.done, p)
             c == [call EXCEPT !.data = data]
  <1>1. /\ call \in CallType /\ call.pc = "read" /\ call.rpc = "fetch" /\ call.todo > 0
        /\ call.todo \in Nat /\ call.done \in Nat /\ call.offset \in Nat /\ call.size \in Nat
        /\ call.data \in Seq(Byte) /\ Len(call.data) \in Nat /\ call.done <= Len(call.data)
        /\ Len(call.data) <= call.done + call.todo /\ file' = file
    <2>1. /\ call \in CallType /\ call.pc = "read" /\ call.rpc = "fetch"
          /\ call.todo > 0 /\ file' = file
      BY DEF TypeOK, TransferInv, Running, ReadBytesFromOffset
    <2>2. /\ call.todo \in Nat /\ call.done \in Nat /\ call.offset \in Nat /\ call.size \in Nat
          /\ call.data \in Seq(Byte)
      BY <2>1 DEF CallType
    <2> QED BY <2>1, <2>2, LenProperties DEF TransferInv, BufferIsFile
  <1>2. n \in Nat \ {0} /\ n <= call.todo /\ call.offset + call.done + n <= FileLen
    BY <1>1, AvailableIs
  <1>3. /\ p \in Seq(Byte) /\ Len(p) = n
        /\ \A k \in 1..n : /\ call.offset + call.done + k - 1 \in Positions
                           /\ p[k] = file[call.offset + call.done + k - 1]
    BY SMTT(30), <1>1, <1>2, BytesIs
  <1> HIDE DEF p
  <1>4. /\ data \in Seq(Byte)
        /\ Len(data) = IF call.done + n <= Len(call.data)
                         THEN Len(call.data) ELSE call.done + n
        /\ \A k \in 1..Len(data) : data[k] = IF k \in (call.done + 1)..(call.done + n)
                                               THEN p[k - call.done] ELSE call.data[k]
    <2>1. call.done \in 0..Len(call.data)
      BY <1>1
    <2>2. /\ data \in Seq(Byte)
          /\ Len(data) = IF call.done + Len(p) <= Len(call.data)
                           THEN Len(call.data) ELSE call.done + Len(p)
          /\ \A k \in 1..Len(data) :
               data[k] = IF k \in (call.done + 1)..(call.done + Len(p))
                           THEN p[k - call.done] ELSE call.data[k]
      <3>1. PICK b \in Seq(Byte) : b = call.data
        BY <1>1
      <3>2. PICK d \in 0..Len(b) : d = call.done
        BY <2>1, <3>1
      <3>3. PICK q \in Seq(Byte) : q = p
        BY <1>3
      <3>4. data = Replace(b, d, q)
        BY <3>1, <3>2, <3>3
      <3> HIDE DEF data
      <3>5. /\ data \in Seq(Byte)
            /\ Len(data) = IF d + Len(q) <= Len(b) THEN Len(b) ELSE d + Len(q)
            /\ \A k \in 1..Len(data) :
                 data[k] = IF k \in (d + 1)..(d + Len(q)) THEN q[k - d] ELSE b[k]
        BY ONLY <3>4, ReplaceIs, b \in Seq(Byte), d \in 0..Len(b), q \in Seq(Byte)
      <3> QED BY ONLY <3>1, <3>2, <3>3, <3>5
    <2> HIDE DEF data
    <2> QED BY <1>3, <2>2
  <1> HIDE DEF data
  <1>5. ASSUME NEW k \in 1..Len(data)
        PROVE  call.offset + k - 1 \in Positions /\ data[k] = file[call.offset + k - 1]
    <2>1. CASE k \in (call.done + 1)..(call.done + n)
      <3>1. /\ k - call.done \in 1..n
            /\ call.offset + call.done + (k - call.done) - 1 = call.offset + k - 1
        <4>1. k \in Int /\ call.done + 1 <= k /\ k <= call.done + n
          BY <2>1
        <4>2. call.done \in Int /\ call.offset \in Int /\ n \in Int
          BY <1>1, <1>2
        <4> QED BY ONLY SMTT(30), <4>1, <4>2
      <3> QED BY <3>1, <1>3, <1>4, <2>1
    <2>2. CASE k \notin (call.done + 1)..(call.done + n)
      <3>1. k \in 1..Len(call.data)
        BY <1>1, <1>2, <1>4, <2>2
      <3> QED BY <3>1, <1>1, <1>4, <2>2 DEF TransferInv, BufferIsFile
    <2> QED BY <2>1, <2>2
  <1>6. c \in CallType
    BY <1>1, <1>4 DEF CallType
  <1>7. /\ c.pc = call.pc /\ c.rpc = call.rpc /\ c.size = call.size /\ c.todo = call.todo
        /\ c.done = call.done /\ c.data = data /\ c.offset = call.offset
    BY <1>1 DEF CallType
  <1>8. \E e \in Errors : call' \in {PieceDone(c, n, e), Retry(c, n, e)}
    BY DEF ReadBytesFromOffset, Errors, p, data
  <1> HIDE DEF c
  <1>9. PICK e \in Errors : call' \in {PieceDone(c, n, e), Retry(c, n, e)}
    BY <1>8
  <1>10. Running' /\ call' \in CallType /\ call'.done + call'.todo <= call'.size
    BY <1>1, <1>2, <1>6, <1>7, <1>9, RunningStep DEF TransferInv
  <1>11. /\ call'.rpc = "fetch" /\ call'.offset = call.offset /\ call'.size = call.size
         /\ call'.data = data
         /\ \/ call'.todo = call.todo /\ call'.done = call.done
            \/ call'.todo = call.todo - n /\ call'.done = call.done + n
    BY SMTT(30), <1>1, <1>2, <1>6, <1>7, <1>9, TryIs
  <1>12. BufferIsFile'
    <2>1. /\ call'.done <= Len(data) /\ Len(data) <= call'.done + call'.todo
          /\ call'.done + call'.todo = call.done + call.todo
      BY <1>1, <1>2, <1>4, <1>11
    <2> QED BY <1>1, <1>5, <1>11, <2>1 DEF TransferInv, BufferIsFile, SizesFit, Positions
  <1>13. WrittenSoFar'
    BY <1>11 DEF WrittenSoFar
  <1>14. TypeOK'
    BY <1>1, <1>10 DEF TypeOK, CallType, Positions, Byte, Errors
  <1> QED BY <1>10, <1>12, <1>13, <1>14 DEF TransferInv

LEMMA ReadFailsStep ==
  ASSUME TypeOK, TransferInv, NEW e \in FinalErrors \cup {"invalid"}, ReadFails(e)
  PROVE  TypeOK' /\ TransferInv'
  <1>1. /\ call \in CallType /\ call.pc = "read" /\ call.rpc = "fetch" /\ call.todo > 0
        /\ e \in Errors /\ file' = file
    BY DEF TypeOK, TransferInv, Running, ReadFails, Errors
  <1>2. /\ call.todo \in Nat /\ call.done \in Nat /\ call.offset \in Nat /\ call.size \in Nat
        /\ call.data \in Seq(Byte) /\ 0 \in 0..call.todo /\ Len(call.data) \in Nat
    BY <1>1, LenProperties DEF CallType
  <1>3. PICK c \in {PieceDone(call, 0, e), Retry(call, 0, e)} :
          call' = IF c.pc = "returned" /\ c.done = 0 THEN [c EXCEPT !.data = <<>>] ELSE c
    BY DEF ReadFails
  <1>4. /\ c \in CallType /\ c.rpc = "fetch" /\ c.offset = call.offset /\ c.size = call.size
        /\ c.data = call.data /\ c.pc \in {call.pc, "returned"}
        /\ c.todo = call.todo /\ c.done = call.done
        /\ c.pc # "returned" => c.todo > 0
        /\ c.pc = "returned" => c.error = e /\ (e = "ok" => c.todo = 0)
    BY <1>1, <1>2, TryIs
  <1>5. /\ call' \in CallType /\ call'.rpc = "fetch" /\ call'.offset = c.offset
        /\ call'.size = c.size /\ call'.pc = c.pc /\ call'.todo = c.todo
        /\ call'.done = c.done /\ call'.error = c.error
        /\ call'.data = c.data \/ (call'.data = <<>> /\ c.done = 0)
    <2>1. CASE c.pc = "returned" /\ c.done = 0
      <3>1. call' = [c EXCEPT !.data = <<>>] /\ <<>> \in Seq(Byte)
        BY <1>3, <2>1
      <3>2. [c EXCEPT !.data = <<>>] \in CallType
        BY <1>4, <3>1 DEF CallType
      <3> QED BY <1>4, <2>1, <3>1, <3>2 DEF CallType
    <2>2. CASE ~(c.pc = "returned" /\ c.done = 0)
      BY <1>3, <1>4, <2>2
    <2> QED BY <2>1, <2>2
  <1>6. TypeOK'
    BY <1>1, <1>4, <1>5 DEF TypeOK, Positions, CallType, Byte, Errors
  <1>7. Running'
    BY <1>1, <1>4, <1>5 DEF Running, TransferInv
  <1>8. BufferIsFile'
    <2>1. CASE call'.data = c.data
      BY <1>1, <1>2, <1>4, <1>5, <2>1 DEF TransferInv, BufferIsFile, SizesFit, Positions
    <2>2. CASE call'.data = <<>> /\ c.done = 0
      <3>1. Len(call'.data) = 0
        BY <2>2
      <3> QED BY <1>1, <1>2, <1>4, <1>5, <2>2, <3>1 DEF TransferInv, BufferIsFile, SizesFit
    <2> QED BY <1>5, <2>1, <2>2
  <1>9. WrittenSoFar'
    BY <1>5 DEF WrittenSoFar
  <1> QED BY <1>6, <1>7, <1>8, <1>9 DEF TransferInv

LEMMA WriteStep ==
  ASSUME TypeOK, TransferInv, NEW n \in Available, WriteBytesToOffset(n)
  PROVE  TypeOK' /\ TransferInv'
  <1> DEFINE first == call.offset + call.done
  <1>1. /\ call \in CallType /\ call.pc = "write" /\ call.rpc = "write" /\ call.todo > 0
        /\ file \in [Positions -> Byte]
        /\ file' = [i \in Positions |-> IF i \in first..(first + n - 1)
                                          THEN call.data[i - call.offset + 1] ELSE file[i]]
    BY DEF TypeOK, TransferInv, Running, WriteBytesToOffset
  <1>2. /\ call.todo \in Nat /\ call.done \in Nat /\ call.offset \in Nat /\ call.size \in Nat
        /\ call.data \in Seq(Byte) /\ call.error \in Errors
    BY <1>1 DEF CallType
  <1>3. /\ n \in Nat \ {0} /\ n <= call.todo /\ call.offset + call.done + n <= FileLen
        /\ call.done + call.todo <= call.size
    BY <1>2, AvailableIs DEF TypeOK
  <1>4. /\ Len(call.data) = call.size /\ call.offset + call.size <= FileLen
        /\ SizesFit =>
             \A i \in 1..call.size : i <= call.done \/ i > call.done + call.todo =>
               file[call.offset + i - 1] = call.data[i]
    BY <1>1 DEF TransferInv, WrittenSoFar
  <1>5. \A i \in 1..call.size : call.data[i] \in Byte
    BY <1>2, <1>4, LenProperties
  <1>6. \E e \in Errors : call' \in {PieceDone(call, n, e), Retry(call, n, e)}
    BY <1>2 DEF WriteBytesToOffset, Errors
  <1>7. PICK e \in Errors : call' \in {PieceDone(call, n, e), Retry(call, n, e)}
    BY <1>6
  <1>8. Running' /\ call' \in CallType /\ call'.done + call'.todo <= call'.size
    BY <1>1, <1>2, <1>3, <1>7, RunningStep DEF TransferInv
  <1>9. /\ call'.rpc = "write" /\ call'.offset = call.offset /\ call'.size = call.size
        /\ call'.data = call.data
        /\ \/ call'.todo = call.todo /\ call'.done = call.done
           \/ call'.todo = call.todo - n /\ call'.done = call.done + n
    <2>1. call.pc \in {"read", "write"} /\ n \in 0..call.todo
      BY <1>1, <1>2, <1>3
    <2> QED BY <1>1, <1>7, <2>1, TryIs
  <1>10. file' \in [Positions -> Byte]
    <2>1. ASSUME NEW i \in Positions, i \in first..(first + n - 1)
          PROVE  i - call.offset + 1 \in 1..call.size
      BY SMTT(30), <1>2, <1>3, <2>1
    <2> QED BY <1>1, <1>5, <2>1
  <1>11. ASSUME SizesFit, NEW i \in 1..call.size,
                i <= call'.done \/ i > call'.done + call'.todo
         PROVE  file'[call.offset + i - 1] = call.data[i]
    <2>1. call.offset + i - 1 \in Positions /\ i \in Int
      BY SMTT(30), <1>2, <1>4, TransferAssumption DEF Positions
    <2>2. CASE call.offset + i - 1 \in first..(first + n - 1)
      <3>1. (call.offset + i - 1) - call.offset + 1 = i
        BY <1>2, <2>1
      <3> QED BY <1>1, <2>1, <2>2, <3>1
    <2>3. CASE call.offset + i - 1 \notin first..(first + n - 1)
      <3>1. i <= call.done \/ i > call.done + call.todo
        <4>1. i < call.done + 1 \/ i > call.done + n
          BY SMTT(30), <1>2, <1>3, <2>1, <2>3
        <4>2. call'.done <= call.done + n /\ call'.done + call'.todo = call.done + call.todo
          BY <1>2, <1>3, <1>9
        <4>3. call'.done \in Int /\ call'.todo \in Int
          BY <1>2, <1>3, <1>9
        <4> QED BY <1>2, <1>3, <1>11, <2>1, <4>1, <4>2, <4>3
      <3> QED BY <1>1, <1>4, <1>11, <2>1, <2>3, <3>1
    <2> QED BY <2>2, <2>3
  <1>12. WrittenSoFar'
    BY <1>4, <1>9, <1>11 DEF WrittenSoFar, SizesFit
  <1>13. BufferIsFile'
    BY <1>9 DEF BufferIsFile
  <1>14. TypeOK'
    BY <1>8, <1>10 DEF TypeOK, CallType, Positions, Byte, Errors
  <1> QED BY <1>8, <1>12, <1>13, <1>14 DEF TransferInv

LEMMA WriteFailsStep ==
  ASSUME TypeOK, TransferInv, NEW e \in FinalErrors \cup {"invalid"}, WriteFails(e)
  PROVE  TypeOK' /\ TransferInv'
  <1>1. /\ call \in CallType /\ call.pc = "write" /\ call.rpc = "write" /\ call.todo > 0
        /\ e \in Errors /\ file' = file /\ call' \in {PieceDone(call, 0, e), Retry(call, 0, e)}
    BY DEF TypeOK, TransferInv, Running, WriteFails, Errors
  <1>2. call.todo \in Nat /\ call.done \in Nat /\ 0 \in 0..call.todo
    BY <1>1 DEF CallType
  <1>3. Running' /\ call' \in CallType /\ call'.done + call'.todo <= call'.size
    BY <1>1, <1>2, RunningStep DEF TransferInv
  <1>4. /\ call'.rpc = "write" /\ call'.offset = call.offset /\ call'.size = call.size
        /\ call'.data = call.data /\ call'.todo = call.todo /\ call'.done = call.done
    BY <1>1, <1>2, TryIs
  <1>5. WrittenSoFar'
    BY <1>1, <1>4 DEF TransferInv, WrittenSoFar, SizesFit
  <1>6. BufferIsFile'
    BY <1>4 DEF BufferIsFile
  <1>7. TypeOK'
    BY <1>1, <1>3 DEF TypeOK, CallType, Positions, Byte, Errors
  <1> QED BY <1>3, <1>5, <1>6, <1>7 DEF TransferInv

\* The calls begin with the invariant true of them.
LEMMA FetchStarts ==
  ASSUME TypeOK, NEW o \in Offsets, NEW s \in Sizes, FetchFileData(o, s)
  PROVE  TypeOK' /\ TransferInv'
  <1> DEFINE size == s % Uint32
             pc == IF size > 0 THEN "read" ELSE "returned"
  <1>1. o \in Nat /\ s \in Nat \ {0} /\ Uint32 \in Nat \ {0}
    BY TransferAssumption
  <1>2. size \in Nat /\ size <= s /\ (s < Uint32 => size = s)
    BY <1>1
  <1>3. call' = [pc |-> pc, rpc |-> "fetch", offset |-> o, size |-> s, data |-> <<>>,
                 todo |-> size, done |-> 0, num_retries |-> 0, error |-> "ok"]
    BY DEF FetchFileData, NoCall
  <1>4. pc \in {"read", "returned"} /\ (pc = "read" <=> size > 0) /\ file' = file
    BY DEF FetchFileData
  <1>5. SizesFit => size = s
    BY <1>2 DEF SizesFit
  <1>6. <<>> \in Seq(Byte) /\ Len(<<>>) = 0 /\ "ok" \in Errors /\ 0 \in 0..MaxRetries
    BY TransferAssumption DEF Errors
  <1> HIDE DEF size, pc
  <1>7. call' \in CallType
    BY <1>1, <1>2, <1>3, <1>4, <1>6 DEF CallType
  <1>8. /\ call'.pc = pc /\ call'.rpc = "fetch" /\ call'.offset = o /\ call'.size = s
        /\ call'.data = <<>> /\ call'.todo = size /\ call'.done = 0 /\ call'.error = "ok"
    BY <1>3
  <1>9. TypeOK'
    BY <1>1, <1>2, <1>4, <1>7, <1>8 DEF TypeOK, Positions, CallType, Byte, Errors
  <1>10. Running'
    BY <1>2, <1>4, <1>8 DEF Running
  <1>11. BufferIsFile'
    BY <1>1, <1>2, <1>5, <1>6, <1>8 DEF BufferIsFile, SizesFit
  <1>12. WrittenSoFar'
    BY <1>8 DEF WrittenSoFar
  <1> QED BY <1>9, <1>10, <1>11, <1>12 DEF TransferInv

LEMMA WriteStarts ==
  ASSUME TypeOK, NEW o \in Offsets, NEW s \in Sizes, NEW zeros \in SUBSET (1..s),
         NEW b \in BOOLEAN, WriteFileData(o, s, zeros, b)
  PROVE  TypeOK' /\ TransferInv'
  <1> DEFINE data == [i \in 1..s |-> IF i \in zeros THEN 0 ELSE i]
             size == IF b THEN StubbedSize(data) ELSE s
             todo == size % Uint32
             pc == IF todo > 0 THEN "write" ELSE "returned"
  <1>1. /\ o \in Nat /\ s \in Nat \ {0} /\ FileLen \in Nat /\ o + s <= FileLen /\ file' = file
        /\ b => \A i \in 1..s : file[o + i - 1] = 0
    BY TransferAssumption DEF WriteFileData
  <1>2. data \in [1..s -> Byte] /\ DOMAIN data = 1..s
    BY <1>1 DEF Byte
  <1>3. data \in Seq(Byte) /\ Len(data) = s
    <2>1. data \in Seq(Byte)
      BY <1>1, <1>2
    <2> QED BY <1>1, <1>2, <2>1, LenProperties
  <1>4. call' = [pc |-> pc, rpc |-> "write", offset |-> o, size |-> s, data |-> data,
                 todo |-> todo, done |-> 0, num_retries |-> 0, error |-> "ok"]
    BY DEF WriteFileData, NoCall
  <1> HIDE DEF data
  <1>5. size \in 1..s /\ (~b => size = s) /\ (b => \A i \in 1..s : i > size => data[i] = 0)
    BY <1>1, <1>2, StubbedSizeIs
  <1> HIDE DEF size
  <1>6. /\ "ok" \in Errors /\ 0 \in 0..MaxRetries /\ todo \in Nat /\ todo <= s
        /\ SizesFit => todo = size
    <2>1. Uint32 \in Nat \ {0} /\ size \in Nat /\ size <= s
      BY <1>1, <1>5, TransferAssumption
    <2>2. todo \in Nat /\ todo <= size /\ (size < Uint32 => todo = size)
      BY <2>1
    <2>3. SizesFit => size < Uint32
      BY <1>1, <2>1 DEF SizesFit
    <2> QED BY <1>1, <2>1, <2>2, <2>3, TransferAssumption DEF Errors
  <1>a. pc \in {"write", "returned"} /\ (pc = "write" <=> todo > 0) /\ (pc = "returned" => todo = 0)
    BY <1>6
  <1> HIDE DEF todo, pc
  <1>7. call' \in CallType
    BY <1>1, <1>3, <1>4, <1>6, <1>a DEF CallType
  <1>8. /\ call'.pc = pc /\ call'.rpc = "write" /\ call'.offset = o /\ call'.size = s
        /\ call'.data = data /\ call'.todo = todo /\ call'.done = 0 /\ call'.error = "ok"
    BY <1>4
  <1>9. TypeOK'
    BY <1>1, <1>6, <1>7, <1>8 DEF TypeOK, Positions, CallType, Byte, Errors
  <1>10. Running'
    BY <1>6, <1>8, <1>a DEF Running
  <1>11. BufferIsFile'
    BY <1>8 DEF BufferIsFile
  <1>12. WrittenSoFar'
    <2>1. ASSUME SizesFit, NEW i \in 1..s, i <= 0 \/ i > 0 + todo
          PROVE  file'[o + i - 1] = data[i]
      <3>1. i > size
        BY <1>1, <1>6, <2>1
      <3> QED BY <1>1, <1>5, <3>1
    <2> QED BY <1>1, <1>3, <1>8, <2>1 DEF WrittenSoFar, SizesFit
  <1> QED BY <1>9, <1>10, <1>11, <1>12 DEF TransferInv

-----------------------------------------------------------------------------
\* The invariant is inductive.
LEMMA TransferInductive ==
  /\ Init => TypeOK /\ TransferInv
  /\ TypeOK /\ TransferInv /\ [Next]_vars => TypeOK' /\ TransferInv'
  <1>1. ASSUME Init PROVE TypeOK /\ TransferInv
    <2>1. file \in [Positions -> Byte]
      BY <1>1, TransferAssumption DEF Init, Positions, Byte
    <2>2. <<>> \in Seq(Byte) /\ "ok" \in Errors /\ 0 \in 0..MaxRetries
      BY TransferAssumption DEF Errors
    <2>3. call \in CallType /\ call.done = 0 /\ call.todo = 0 /\ call.size = 0
      BY <1>1, <2>2 DEF Init, NoCall, CallType
    <2>4. call.pc = "idle" /\ call.rpc = "none"
      BY <1>1 DEF Init, NoCall
    <2> QED BY <2>1, <2>3, <2>4 DEF TypeOK, TransferInv, Running, BufferIsFile, WrittenSoFar
  <1>2. ASSUME TypeOK, TransferInv, [Next]_vars PROVE TypeOK' /\ TransferInv'
    <2>1. CASE \E n \in Available : ReadBytesFromOffset(n) \/ WriteBytesToOffset(n)
      BY <1>2, <2>1, ReadStep, WriteStep
    <2>2. CASE \E e \in FinalErrors \cup {"invalid"} : ReadFails(e) \/ WriteFails(e)
      BY <1>2, <2>2, ReadFailsStep, WriteFailsStep
    <2>3. CASE \E o \in Offsets, s \in Sizes : FetchFileData(o, s)
      BY <1>2, <2>3, FetchStarts
    <2>4. CASE \E o \in Offsets, s \in Sizes :
                 \E zeros \in SUBSET (1..s), b \in BOOLEAN : WriteFileData(o, s, zeros, b)
      BY <1>2, <2>4, WriteStarts
    <2>5. CASE UNCHANGED vars
      BY <1>2, <2>5 DEF vars, TypeOK, TransferInv, Running, BufferIsFile, WrittenSoFar,
                        SizesFit, CallType, Positions, Byte, Errors
    <2> QED BY <1>2, <2>1, <2>2, <2>3, <2>4, <2>5 DEF Next, Transfer
  <1> QED BY <1>1, <1>2

\* The variables of FileTransfer keep their types, and no call transfers more than it was
\* asked to (SmbProxyFetchFileData, WriteFileDataHelper).
THEOREM TypeCorrect == Spec => []TypeOK
  BY TransferInductive, PTL DEF Spec

\* Between any two tries the buffer of a read is a beginning of the range, and the file
\* has what a write counts as written.
THEOREM TransferInvariant == Spec => []TransferInv
  BY TransferInductive, PTL DEF Spec

\* What SmbProxyFetchFileData returns is what the file has from the offset on, whatever the
\* tries of ReadBytesFromOffset got and left in the buffer, for sizes that are uint32.
THEOREM FetchedIsFileHolds == ASSUME SizesFit PROVE Spec => []FetchedIsFile
  <1>1. TypeOK /\ TransferInv => FetchedIsFile
    <2> SUFFICES ASSUME TypeOK, TransferInv, call.rpc = "fetch", call.pc = "returned"
                 PROVE  /\ Len(call.data) <= call.size
                        /\ call.data = Bytes(call.offset, Len(call.data))
                        /\ call.error = "ok" => Len(call.data) = call.size
      BY DEF FetchedIsFile
    <2>1. /\ call.data \in Seq(Byte) /\ Len(call.data) \in Nat /\ call.todo \in Nat
          /\ call.done \in Nat /\ call.size \in Nat /\ call.offset \in Nat
      BY LenProperties DEF TypeOK, CallType
    <2>2. /\ call.done <= Len(call.data) /\ Len(call.data) <= call.done + call.todo
          /\ call.done + call.todo = call.size
          /\ \A k \in 1..Len(call.data) : call.data[k] = file[call.offset + k - 1]
          /\ call.error = "ok" => call.todo = 0
      BY DEF TransferInv, Running, BufferIsFile
    <2>3. call.data = Bytes(call.offset, Len(call.data))
      <3>1. call.data = [k \in 1..Len(call.data) |-> call.data[k]]
        BY <2>1, LenProperties
      <3> QED BY <2>2, <3>1 DEF Bytes
    <2> QED BY <2>1, <2>2, <2>3
  <1> QED BY <1>1, TransferInductive, PTL DEF Spec

\* When SmbProxyWriteFileData reports success, the file holds the data, whatever
\* short writes and retries there were, and also if trailing zeros were left out, for
\* sizes that are uint32.
THEOREM WrittenIsFileHolds == ASSUME SizesFit PROVE Spec => []WrittenIsFile
  <1>1. TypeOK /\ TransferInv => WrittenIsFile
    <2> SUFFICES ASSUME TypeOK, TransferInv, call.rpc = "write", call.pc = "returned",
                        call.error = "ok", NEW i \in DOMAIN call.data
                 PROVE  file[call.offset + i - 1] = call.data[i]
      BY DEF WrittenIsFile
    <2>1. /\ call.data \in Seq(Byte) /\ call.done \in Nat /\ call.todo = 0
          /\ Len(call.data) = call.size
          /\ \A k \in 1..call.size : k <= call.done \/ k > call.done + call.todo =>
               file[call.offset + k - 1] = call.data[k]
      BY DEF TypeOK, CallType, TransferInv, Running, WrittenSoFar
    <2>2. i \in 1..call.size /\ i \in Int
      BY <2>1, LenProperties
    <2> QED BY <2>1, <2>2
  <1> QED BY <1>1, TransferInductive, PTL DEF Spec

\* No try changes a byte of the file outside the range its call was asked to write, nor does
\* a read change any (WriteBytesToOffset, with the offset and size WriteFileDataHelper passes).
THEOREM OnlyRangeWrittenHolds == Spec => OnlyRangeWritten
  <1> DEFINE InRange == \A i \in Positions : file'[i] # file[i] =>
               call.pc = "write" /\ i \in call.offset..(call.offset + call.size - 1)
  <1>1. TypeOK /\ TransferInv /\ [Next]_vars => [InRange]_vars
    <2> SUFFICES ASSUME TypeOK, Next, NEW i \in Positions, file'[i] # file[i]
                 PROVE  call.pc = "write" /\ i \in call.offset..(call.offset + call.size - 1)
      BY DEF vars
    <2>1. PICK n \in Available : WriteBytesToOffset(n)
      BY DEF Next, Transfer, ReadBytesFromOffset, ReadFails, WriteFails, FetchFileData,
             WriteFileData
    <2>2. /\ call.offset \in Nat /\ call.done \in Nat /\ call.todo \in Nat /\ call.size \in Nat
          /\ call.done + call.todo <= call.size
      BY DEF TypeOK, CallType
    <2>3. n \in Nat /\ n <= call.todo
      BY <2>2, AvailableIs
    <2>4. i \in (call.offset + call.done)..(call.offset + call.done + n - 1) /\ i \in Int
      BY <2>1 DEF WriteBytesToOffset, Positions
    <2> QED BY <2>1, <2>2, <2>3, <2>4 DEF WriteBytesToOffset
  <1> HIDE DEF InRange
  <1>2. Spec => [][InRange]_vars
    BY <1>1, TransferInductive, PTL DEF Spec
  <1> QED BY <1>2 DEF OnlyRangeWritten, InRange

=============================================================================
