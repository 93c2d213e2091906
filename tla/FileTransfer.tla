---------------------------- MODULE FileTransfer -----------------------------
(***************************************************************************)
(* Reading and writing a range of a file in pieces: SmbProxyFetchFileData, *)
(* SmbProxyWriteFileData, WriteFileDataHelper, ReadBytesFromOffset and     *)
(* WriteBytesToOffset (gpl_util/smb/smb_proxy.cc) against a server that    *)
(* may fail, or transfer less than it was asked to, at every call.         *)
(*                                                                         *)
(* A DCHECK that fails does not stop the program, as in a release build.   *)
(* One call runs at a time; the bytes of the data to write are told apart  *)
(* by their position, but for the zero bytes among them.                   *)
(***************************************************************************)
EXTENDS Integers, SequencesExt

CONSTANTS
  FileLen,     \* the length of the file
  Offsets,     \* the offsets clients ask for
  Sizes,       \* the sizes clients ask for
  MaxSize,     \* max_read_size and max_write_size of the connection
  MaxRetries,  \* smb_proxy_file_max_read_retries and ..._write_retries
  Uint32       \* 2^32, the number of values of a uint32

ASSUME TransferAssumption ==
  /\ {FileLen, MaxRetries} \subseteq Nat
  /\ {MaxSize, Uint32} \subseteq Nat \ {0}
  /\ Offsets \subseteq Nat /\ Sizes \subseteq Nat \ {0}

VARIABLES
  file,    \* the bytes of the file on the server; the first one is file[0]
  call     \* the call that runs or has returned

vars == <<file, call>>

Positions == 0..(FileLen - 1)

\* data: the buffer of a read, or what to write. todo: bytes_to_read or
\* bytes_to_write. done: bytes_read or bytes_written. error: of the last try.
NoCall == [pc |-> "idle", rpc |-> "none", offset |-> 0, size |-> 0, data |-> <<>>,
           todo |-> 0, done |-> 0, num_retries |-> 0, error |-> "ok"]

Init ==
  /\ file \in {[n \in Positions |-> 0], [n \in Positions |-> FileLen + n]}
  /\ call = NoCall

\* Bytes i to i + n - 1 of the file.
Bytes(i, n) == [k \in 1..n |-> file[i + k - 1]]

\* read_size and write_size: the size of the piece under way.
PieceSize == Min({call.todo, MaxSize})

\* What the server can transfer of it: a try need not get all.
Available == 1..Min({PieceSize, FileLen - call.offset - call.done})

-----------------------------------------------------------------------------
\* The piece is finished: n bytes of it count, and the next one is begun if e is
\* no error and there is any.
PieceDone(c, n, e) ==
  LET todo == c.todo - n IN
  [c EXCEPT !.todo = todo, !.done = @ + n, !.num_retries = 0, !.error = e,
            !.pc = IF e = "ok" /\ todo > 0 THEN @ ELSE "returned"]

\* A try that transferred n bytes, not all of the piece: try again from its
\* beginning, or return what the last try did.
Retry(c, n, e) ==
  IF c.num_retries < MaxRetries
    THEN [c EXCEPT !.num_retries = @ + 1, !.error = e]
    ELSE PieceDone(c, n, e)

\* The errors of smbc_wrapper_fetch_file_data and smbc_wrapper_write_file_data that
\* are not tried again: the connection is unusable, the file does not exist,
\* access is denied. A read also ends when it gets no memory context.
FinalErrors == {"retry", "nonexistent", "denied", "no_memory"}

-----------------------------------------------------------------------------
\* SmbProxyFetchFileData.
FetchFileData(o, s) ==
  LET requested_size == s % Uint32 IN
  /\ call.pc \in {"idle", "returned"}
  /\ call' = [NoCall EXCEPT !.pc = IF requested_size > 0 THEN "read" ELSE "returned",
                            !.rpc = "fetch", !.offset = o, !.size = s,
                            !.todo = requested_size]
  /\ UNCHANGED file

\* Mutant of Replace: the piece goes to the end of the buffer.
ReplaceAtEnd(buf, offset, piece) == buf \o piece

\* buf->replace(offset, piece.size(), piece): std::string::replace, which replaces
\* what there is of those bytes.
Replace(buf, offset, piece) ==
  SubSeq(buf, 1, offset) \o piece \o SubSeq(buf, offset + Len(piece) + 1, Len(buf))

\* ReadBytesFromOffset: a try that reads n bytes.
ReadBytesFromOffset(n) ==
  LET c == [call EXCEPT !.data = Replace(@, call.done, Bytes(call.offset + call.done, n))] IN
  /\ call.pc = "read" /\ n \in Available
  /\ call' = IF n = PieceSize THEN PieceDone(c, n, "ok") ELSE Retry(c, n, "invalid")
  /\ UNCHANGED file

\* A try that fails. A call that got nothing returns no data.
ReadFails(e) ==
  LET c == IF e \in FinalErrors THEN PieceDone(call, 0, e) ELSE Retry(call, 0, e) IN
  /\ call.pc = "read"
  /\ call' = IF c.pc = "returned" /\ c.done = 0 THEN [c EXCEPT !.data = <<>>] ELSE c
  /\ UNCHANGED file

-----------------------------------------------------------------------------
\* WriteFileDataHelper: the size of the data of a stubbed file without the
\* trailing zeros; the first byte is written in any case.
StubbedSize(data) == Max({1} \cup {i \in DOMAIN data : data[i] # 0})

\* SmbProxyWriteFileData. A client gives the size of its data, and writes a stubbed
\* file where it holds nothing.
WriteFileData(o, s, zeros, is_stubbed) ==
  LET data == [i \in 1..s |-> IF i \in zeros THEN 0 ELSE i]
      requested_size == (IF is_stubbed THEN StubbedSize(data) ELSE s) % Uint32
  IN
  /\ call.pc \in {"idle", "returned"}
  /\ o + s <= FileLen
  /\ is_stubbed => \A i \in 1..s : file[o + i - 1] = 0
  /\ call' = [NoCall EXCEPT !.pc = IF requested_size > 0 THEN "write" ELSE "returned",
                            !.rpc = "write", !.offset = o, !.size = s, !.data = data,
                            !.todo = requested_size]
  /\ UNCHANGED file

\* Mutant of WriteBytesToOffset: a short write ends the piece.
WriteBytesShort(n) ==
  LET first == call.offset + call.done IN
  /\ call.pc = "write" /\ n \in Available
  /\ file' = [i \in Positions |-> IF i \in first..(first + n - 1)
                                    THEN call.data[i - call.offset + 1] ELSE file[i]]
  /\ call' = PieceDone(call, PieceSize, "ok")

\* WriteBytesToOffset: a try that writes n bytes. If these are not all, the error
\* stays what the try before made it.
WriteBytesToOffset(n) ==
  LET first == call.offset + call.done IN
  /\ call.pc = "write" /\ n \in Available
  /\ file' = [i \in Positions |-> IF i \in first..(first + n - 1)
                                    THEN call.data[i - call.offset + 1] ELSE file[i]]
  /\ call' = IF n = PieceSize THEN PieceDone(call, n, "ok") ELSE Retry(call, n, call.error)

WriteFails(e) ==
  /\ call.pc = "write" /\ e # "no_memory"
  /\ call' = IF e \in FinalErrors THEN PieceDone(call, 0, e) ELSE Retry(call, 0, e)
  /\ UNCHANGED file

-----------------------------------------------------------------------------
Transfer ==
  \/ \E n \in Available : ReadBytesFromOffset(n) \/ WriteBytesToOffset(n)
  \/ \E e \in FinalErrors \cup {"invalid"} : ReadFails(e) \/ WriteFails(e)

Next ==
  \/ Transfer
  \/ \E o \in Offsets, s \in Sizes :
       \/ FetchFileData(o, s)
       \/ \E zeros \in SUBSET (1..s), b \in BOOLEAN : WriteFileData(o, s, zeros, b)

Spec == Init /\ [][Next]_vars

\* The thread of a call goes on with it.
FairSpec == Spec /\ WF_vars(Transfer)

-----------------------------------------------------------------------------
Byte == 0..(2 * FileLen)
Errors == FinalErrors \cup {"invalid", "ok"}

CallType ==
  [pc: {"idle", "read", "write", "returned"}, rpc: {"none", "fetch", "write"},
   offset: Nat, size: Nat, data: Seq(Byte), todo: Nat, done: Nat,
   num_retries: 0..MaxRetries, error: Errors]

TypeOK ==
  /\ file \in [Positions -> Byte]
  /\ call \in CallType /\ call.done + call.todo <= call.size

\* What SmbProxyFetchFileData returns is what the file has from the offset on: all
\* that was asked for, or with an error a beginning of it, whatever the tries in
\* between left in the buffer.
FetchedIsFile ==
  call.rpc = "fetch" /\ call.pc = "returned" =>
    /\ Len(call.data) <= call.size
    /\ call.data = Bytes(call.offset, Len(call.data))
    /\ call.error = "ok" => Len(call.data) = call.size

\* When SmbProxyWriteFileData reports success, the file holds the data: every piece
\* is there, also one a short write left to be continued, and what was left out
\* of a stubbed file reads as zeros.
WrittenIsFile ==
  call.rpc = "write" /\ call.pc = "returned" /\ call.error = "ok" =>
    \A i \in DOMAIN call.data : file[call.offset + i - 1] = call.data[i]

\* Every call returns, however the server fails.
CallReturns == call.pc \in {"read", "write"} ~> call.pc = "returned"

\* "The call to WriteBytesToOffset should have written all 'write_size' of bytes."
WritesWholePieces ==
  [][call.pc = "write" /\ call'.done > call.done /\ call'.error = "ok"
       => call'.done - call.done = PieceSize]_vars

\* A call changes no byte outside the range that it was asked to write.
OnlyRangeWritten ==
  [][\A i \in Positions : file'[i] # file[i] =>
       call.pc = "write" /\ i \in call.offset..(call.offset + call.size - 1)]_vars

-----------------------------------------------------------------------------
(***************************************************************************)
(* Why a transfer is right when it returns: what holds between two tries.  *)
(***************************************************************************)
\* No transfer is larger than a uint32 can say.
SizesFit == \A s \in Sizes : s < Uint32

\* A call runs while there is something to do and it was told no error it returns.
Running ==
  /\ call.pc = "idle" <=> call.rpc = "none"
  /\ call.pc = "read" => call.rpc = "fetch" /\ call.todo > 0
  /\ call.pc = "write" => call.rpc = "write" /\ call.todo > 0
  /\ call.pc = "returned" /\ call.error = "ok" => call.todo = 0

\* The buffer of a read is a beginning of what it is to be, and has all that counts as
\* read: what tries that were cut short left there is what the next one will read.
BufferIsFile ==
  call.rpc = "fetch" =>
    /\ call.done <= Len(call.data) /\ Len(call.data) <= call.done + call.todo
    /\ \A k \in 1..Len(call.data) :
         call.offset + k - 1 \in Positions /\ call.data[k] = file[call.offset + k - 1]
    /\ SizesFit => call.done + call.todo = call.size

\* The file has what counts as written, and what is not to be written.
WrittenSoFar ==
  call.rpc = "write" =>
    /\ Len(call.data) = call.size /\ call.offset + call.size <= FileLen
    /\ SizesFit =>
         \A i \in 1..call.size : i <= call.done \/ i > call.done + call.todo =>
           file[call.offset + i - 1] = call.data[i]

TransferInv == Running /\ BufferIsFile /\ WrittenSoFar

=============================================================================
