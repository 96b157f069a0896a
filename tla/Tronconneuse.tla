---------------------------- MODULE Tronconneuse ----------------------------
(***************************************************************************)
(* Class tronconneuse: clear data is cut in blocks, each one encrypted     *)
(* under its number.  The file below starts with clear bytes that are      *)
(* skipped (initial_shift) and may end with others (the terminator), which *)
(* a block read too far takes for encrypted ones.                          *)
(***************************************************************************)
EXTENDS PlainFile, SequencesExt

CONSTANTS MaxRead, MaxSkip, Chunk,
          Contents,       \* clear contents of the files opened for reading
          ClearBlockSize,
          Shift,          \* clear bytes in front
          Trailer,        \* clear bytes behind, the cases to consider
          MaySyncEarly    \* whether data is synchronised before the end of file

VARIABLES layer, \* the object: its fields, and the file below as `encrypted`
          answer

vars == <<layer, answer>>

EncryptedBlockSize == ClearBlockSize + 1

-----------------------------------------------------------------------------
(* The cipher: a block of any size up to ClearBlockSize becomes one byte   *)
(* longer, and only comes back under its own number and whole.             *)

Pad == -1
ClearByte == <<-1, -1>>
Encrypt(num, bytes) ==
  IF bytes = <<>> THEN <<>>
  ELSE [i \in 1..Len(bytes) |-> <<num, bytes[i]>>] \o <<<<num, Pad>>>>
Decrypts(num, s) ==
  \/ s = <<>>
  \/ /\ s[Len(s)] = <<num, Pad>>
     /\ \A i \in 1..(Len(s) - 1) : s[i][1] = num /\ s[i][2] # Pad
Decrypt(s) == [i \in 1..(Len(s) - 1) |-> s[i][2]]

Junk(n) == [i \in 1..n |-> ClearByte]
BlocksOf(n, size) == (n + size - 1) \div size
EncryptAll(bytes) ==
  FlattenSeq([k \in 1..BlocksOf(Len(bytes), ClearBlockSize) |->
               Encrypt(k - 1, BytesAt(bytes, (k - 1) * ClearBlockSize, ClearBlockSize))])

\* What the bytes behind the shift hold, block after block.
DecryptAll(data) ==
  LET body == SubSeq(data, Shift + 1, Len(data))
      block(k) == BytesAt(body, (k - 1) * EncryptedBlockSize, EncryptedBlockSize)
  IN FlattenSeq([k \in 1..BlocksOf(Len(body), EncryptedBlockSize) |->
                  IF Decrypts(k - 1, block(k)) THEN Decrypt(block(k))
                  ELSE LET own == SelectSeq(block(k), LAMBDA b : b # ClearByte)
                       IN IF Decrypts(k - 1, own) THEN Decrypt(own) ELSE <<>>])

-----------------------------------------------------------------------------
New(mode, below) ==
  [mode |-> mode, encrypted |-> below, current_position |-> 0,
   buf |-> <<>>, buf_offset |-> 0, block_num |-> 0,
   weof |-> FALSE, reof |-> FALSE, trailing |-> 0, err |-> "none"]

\* check_trailing_clear_data: the callback finds where the clear bytes start.
ClearOffset(t) == Len(t.encrypted.data) - t.trailing - Shift

InBuffer(t, pos) == t.buf_offset <= pos /\ pos < t.buf_offset + Len(t.buf)

\* fill_buf, when the position is not in the buffer: read and decrypt its
\* block, again without the trailing clear bytes when they are in the way.
FillBuf(t) ==
  LET num == t.current_position \div ClearBlockSize
      offset == num * EncryptedBlockSize
      moved == [t EXCEPT !.buf_offset = num * ClearBlockSize, !.block_num = num]
      below == SkipTo(t.encrypted, offset + Shift)
      raw == ReadBytes(below, EncryptedBlockSize)
      read == [moved EXCEPT !.encrypted = AfterRead(below, EncryptedBlockSize),
                            !.reof = Len(raw) < EncryptedBlockSize]
      kept == SubSeq(raw, 1, ClearOffset(t) - offset)
      ended == [read EXCEPT !.encrypted = SkipToEnd(@)]
  IN IF InBuffer(t, t.current_position) THEN t
     ELSE IF t.reof THEN [moved EXCEPT !.buf = <<>>]
     ELSE IF Decrypts(num, raw) THEN [read EXCEPT !.buf = Decrypt(raw)]
     ELSE IF offset >= ClearOffset(t) THEN [ended EXCEPT !.buf = <<>>]
     ELSE IF ClearOffset(t) - offset < Len(raw) /\ Decrypts(num, kept)
     THEN [ended EXCEPT !.buf = Decrypt(kept)]
     ELSE [ended EXCEPT !.err = "Erange"]

PosInBuf(t) == t.current_position - t.buf_offset

\* skip_to_eof: the last block is read to know where it ends.
SkippedToEof(t) ==
  LET last == (Len(t.encrypted.data) - Shift) \div EncryptedBlockSize
      f == FillBuf([t EXCEPT !.encrypted = SkipToEnd(@), !.reof = FALSE,
                             !.block_num = last, !.current_position = last * ClearBlockSize])
  IN [f EXCEPT !.reof = TRUE, !.current_position = f.buf_offset + Len(f.buf),
               !.encrypted = SkipToEnd(@)]

\* Faulty: the end that was met is remembered.
SkippedStayingAtEof(t, pos) ==
  LET f == FillBuf([t EXCEPT !.current_position = pos])
  IN IF PosInBuf(f) < Len(f.buf) THEN [t |-> f, said |-> "true"]
     ELSE [t |-> SkippedToEof(f), said |-> "false"]

\* skip: a position that no byte is at leads to the end.
Skipped(t, pos) ==
  LET f == FillBuf([t EXCEPT !.current_position = pos, !.reof = FALSE])
  IN IF PosInBuf(f) < Len(f.buf) THEN [t |-> [f EXCEPT !.reof = FALSE], said |-> "true"]
     ELSE [t |-> SkippedToEof(f), said |-> "false"]

SkippedBy(t, x) ==
  IF t.current_position + x >= 0 THEN Skipped(t, t.current_position + x)
  ELSE [Skipped(t, 0) EXCEPT !.said = "false"]

\* inherited_read: block after block.
ReadRound(r, n) ==
  LET f == FillBuf(r.t)
      got == Least(Len(f.buf) - PosInBuf(f), n - Len(r.got))
  IN IF r.eof \/ Len(r.got) = n THEN r
     ELSE IF PosInBuf(f) >= Len(f.buf) THEN [r EXCEPT !.t = f, !.eof = TRUE]
     ELSE [t |-> [f EXCEPT !.current_position = @ + got], eof |-> FALSE,
           got |-> r.got \o SubSeq(f.buf, PosInBuf(f) + 1, PosInBuf(f) + got)]
InheritedRead(t, n) ==
  LET round[k \in 0..(n + 1)] ==
        IF k = 0 THEN [t |-> t, got |-> <<>>, eof |-> FALSE]
        ELSE ReadRound(round[k - 1], n)
  IN round[n + 1]

\* flush: the pending block, whole or not, goes below.
Flush(t) ==
  IF t.mode # "write_only" \/ t.weof \/ t.buf = <<>> THEN t
  ELSE [t EXCEPT !.encrypted = AfterWrite(@, Encrypt(t.block_num, t.buf)),
                 !.buf = <<>>, !.buf_offset = @ + ClearBlockSize]

\* Faulty: the number of the block is not incremented.
FlushFullSameNumber(t) == IF Len(t.buf) < ClearBlockSize THEN t ELSE Flush(t)

\* inherited_write: every block completed is flushed.
FlushFull(t) ==
  IF Len(t.buf) < ClearBlockSize THEN t
  ELSE [Flush(t) EXCEPT !.block_num = @ + 1]
InheritedWrite(t, s) ==
  LET put[k \in 0..Len(s)] ==
        IF k = 0 THEN t ELSE FlushFull([put[k - 1] EXCEPT !.buf = Append(@, s[k])])
  IN [put[Len(s)] EXCEPT !.current_position = @ + Len(s)]

-----------------------------------------------------------------------------
Init ==
  /\ \/ layer = New("write_only", [data |-> Junk(Shift), pos |-> Shift])
     \/ \E bytes \in Contents, n \in Trailer :
          layer = [New("read_only",
                       [data |-> Junk(Shift) \o EncryptAll(bytes) \o Junk(n), pos |-> Shift])
                     EXCEPT !.trailing = n]
  /\ answer = Said("none")

Read(n) ==
  IF layer.mode = "write_only" THEN answer' = Said("Erange") /\ UNCHANGED layer
  ELSE LET r == InheritedRead(layer, n)
       IN layer' = r.t /\ answer' = IF r.t.err = "none" THEN Gave(r.got) ELSE Said(r.t.err)

\* Nothing is written behind the end of file (it is a bug of the caller).
Write(s) ==
  IF layer.mode = "read_only" THEN answer' = Said("Erange") /\ UNCHANGED layer
  ELSE /\ ~layer.weof
       /\ layer' = InheritedWrite(layer, s) /\ answer' = Said("done")

Skip(pos) == /\ layer' = Skipped(layer, pos).t
             /\ answer' = Said(Skipped(layer, pos).said)
SkipToEof == layer' = SkippedToEof(layer) /\ answer' = Said("true")
SkipRelative(x) == /\ layer' = SkippedBy(layer, x).t
                   /\ answer' = Said(SkippedBy(layer, x).said)

\* sync_write, and write_end_of_file which ends the encrypted data.
SyncWrite == /\ layer.mode = "write_only" /\ MaySyncEarly
             /\ layer' = Flush(layer) /\ answer' = Said("done")
WriteEndOfFile == /\ layer.mode = "write_only"
                  /\ layer' = [Flush(layer) EXCEPT !.weof = TRUE]
                  /\ answer' = Said("done")

Next == \/ \E n \in 1..MaxRead : Read(n)
        \/ \E s \in Chunk : layer.current_position + Len(s) <= MaxSkip /\ Write(s)
        \/ /\ layer.mode = "read_only"
           /\ \/ \E pos \in 0..MaxSkip : Skip(pos)
              \/ \E x \in (-MaxSkip)..MaxSkip :
                   layer.current_position + x <= MaxSkip /\ SkipRelative(x)
              \/ layer.trailing = 0 /\ SkipToEof
        \/ SyncWrite
        \/ WriteEndOfFile

Spec == Init /\ [][Next]_vars

-----------------------------------------------------------------------------
Promise == INSTANCE GenericFile
             WITH mode <- layer.mode,
                  content <- DecryptAll(layer.encrypted.data)
                             \o (IF layer.mode = "write_only" THEN layer.buf ELSE <<>>),
                  position <- layer.current_position,
                  stored <- DecryptAll(layer.encrypted.data), answer <- answer

\* Encrypted data is a file: what is cut in blocks comes back at the offsets
\* it was written at, with clear bytes before and behind, over any sequence
\* of reads and skips (tronconneuse::fill_buf, skip, skip_to_eof, flush).
EncryptedIsAFile == Promise!Spec
=============================================================================
