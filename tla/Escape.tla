------------------------------- MODULE Escape -------------------------------
(***************************************************************************)
(* Class escape: marks in a stream of bytes.  A mark is a fixed sequence   *)
(* followed by a type; data that holds the fixed sequence has a byte of    *)
(* type "not a sequence" inserted behind it, which the reader removes.     *)
(* Both sides hold back what may be the start of a sequence.               *)
(***************************************************************************)
EXTENDS PlainFile, SequencesExt

CONSTANTS MaxRead, Chunk, Mark, Unjumpable,
          Fixed,          \* the fixed part of an escape sequence
          NotASequence,   \* the type that protects data
          MaxSize,        \* bound of the stream
          MayEndAlike,    \* whether data may end like a sequence starts,
          MayAskAnywhere  \* and a mark be asked for where protected data comes

VARIABLES escape, answer

vars == <<escape, answer>>

SequenceLength == Len(Fixed) + 1  \* ESCAPE_SEQUENCE_LENGTH
WriteBufferSize == 2 * SequenceLength
ReadBufferSize == 3 * SequenceLength

SequenceFor(t) == Append(Fixed, t)
From(s, i) == SubSeq(s, i + 1, Len(s))
First(s, i) == SubSeq(s, 1, i)

New(mode, below) ==
  [mode |-> mode, below |-> below, write_buffer |-> <<>>,
   read_buffer |-> <<>>, already_read |-> 0, read_eof |-> FALSE,
   seq_offset |-> 0, escaped |-> 0, err |-> "none"]

\* trouve_amorce: where the fixed sequence starts, as much of it as is there.
Amorce(a) ==
  CHOOSE r \in 0..Len(a) :
    LET starts(i) == \A k \in 1..Least(Len(Fixed), Len(a) - i) : a[i + k] = Fixed[k]
    IN starts(r) /\ \A i \in 0..(r - 1) : ~starts(i)

\* remove_data_marks_and_stop_at_first_real_mark
RECURSIVE Unescaped(_, _, _)
Unescaped(a, from, delta) ==
  LET At(ret, next) ==
        IF next <= Len(a) /\ ret < Len(a) /\ a[next] = NotASequence
        THEN Unescaped(First(a, next - 1) \o From(a, next), next - 1, delta + 1)
        ELSE [a |-> a, offset |-> ret, delta |-> delta]
      Found(ret) == At(ret, ret + SequenceLength)
  IN Found(from + Amorce(From(a, from)))

-----------------------------------------------------------------------------
(* Writing.                                                                *)

Below(e, s) == [e EXCEPT !.below = AfterWrite(@, s)]

Protected(e) == [Below(e, SequenceFor(NotASequence)) EXCEPT !.escaped = @ + 1]

\* The loop of inherited_write over what no pending byte is part of.
RECURSIVE WriteRest(_, _)
WriteRest(e, s) ==
  LET Split(clear, found) ==
        IF found + Len(Fixed) <= Len(s) /\ found < Len(s)
        THEN WriteRest(Protected(clear), From(s, found + Len(Fixed)))
        ELSE [clear EXCEPT !.write_buffer = From(s, found)]
      At(found) == Split(Below(e, First(s, found)), found)
  IN At(Amorce(s))

\* inherited_write: what was held back first, with what follows it.
InheritedWrite(e, s) ==
  LET held == Len(e.write_buffer)
      delta == Least(WriteBufferSize - held, Len(s))
      Held(w, found, clear, missing) ==
        IF found = Len(w) THEN WriteRest(clear, From(s, delta))
        ELSE IF missing <= 0 THEN WriteRest(Protected(clear), From(s, found + Len(Fixed) - held))
        ELSE IF Len(s) - delta < missing THEN [clear EXCEPT !.write_buffer = From(w, found) \o From(s, delta)]
        ELSE IF found < held THEN [clear EXCEPT !.err = "SRC_BUG"]
        ELSE WriteRest(clear, From(s, found - held))
      At(w, found) == Held(w, found, Below([e EXCEPT !.write_buffer = <<>>], First(w, found)),
                           found + Len(Fixed) - Len(w))
      Joint(w) == At(w, Amorce(w))
  IN IF s = <<>> THEN e
     ELSE IF held = 0 THEN WriteRest(e, s)
     ELSE Joint(e.write_buffer \o First(s, delta))

\* Faulty: what looked like the start of a sequence is lost.
FlushNothing(e) == e

FlushWrite(e) == [Below(e, e.write_buffer) EXCEPT !.write_buffer = <<>>]

\* add_mark_at_current_position
AddMarkAtCurrentPosition(e, t) ==
  [Below(FlushWrite(e), SequenceFor(t)) EXCEPT !.escaped = 0]

-----------------------------------------------------------------------------
(* Reading.                                                                *)

Known(e) == Len(e.read_buffer) - e.already_read >= SequenceLength
Full(e) == e.already_read + SequenceLength >= ReadBufferSize
Unescape(e, from) ==
  LET Kept(u) == [e EXCEPT !.read_buffer = First(@, from) \o u.a, !.seq_offset = from + u.offset,
                           !.escaped = @ + u.delta]
  IN Kept(Unescaped(From(e.read_buffer, from), 0, 0))
Shifted(e) ==
  IF Full(e) THEN [e EXCEPT !.read_buffer = From(@, e.already_read), !.already_read = 0,
                            !.seq_offset = @ - e.already_read]
  ELSE e
Filled(e, n) == [e EXCEPT !.read_buffer = @ \o ReadBytes(e.below, n), !.below = AfterRead(@, n)]

\* mini_read_buffer: enough bytes to know a sequence, with those that protect
\* data removed; `ok` unless the end of the stream comes before.
MiniReadBuffer(e) ==
  LET Read(f) == [e |-> [Unescape(f, f.seq_offset) EXCEPT !.read_eof = @ \/ ~Known(f)], ok |-> Known(f)]
      protected == /\ e.seq_offset = e.already_read
                   /\ e.read_buffer[e.seq_offset + SequenceLength] = NotASequence
  IN IF Known(e)
     THEN [e |-> IF protected THEN Unescape(e, e.already_read) ELSE e, ok |-> TRUE]
     ELSE IF Full(e) /\ e.already_read < SequenceLength
     THEN [e |-> [e EXCEPT !.err = "SRC_BUG"], ok |-> FALSE]
     ELSE Read(Filled(Shifted(e), SequenceLength - (Len(e.read_buffer) - e.already_read)))

\* The bytes of the buffer that are known not to be part of a mark.
TakeFromBuffer(e, n) ==
  LET Emptied(f) == IF f.already_read = Len(f.read_buffer)
                    THEN [f EXCEPT !.already_read = 0, !.read_buffer = <<>>, !.seq_offset = 0]
                    ELSE f
      Taken(got) == [got |-> SubSeq(e.read_buffer, e.already_read + 1, e.already_read + got),
                     e |-> Emptied([e EXCEPT !.already_read = @ + got])]
  IN Taken(Least(e.seq_offset - e.already_read, n))

Joined(got, r) == [r EXCEPT !.got = got \o @]

\* First part of inherited_read: the buffer, up to the first real mark.
RECURSIVE ReadBuffered(_, _)
ReadBuffered(e, n) ==
  LET Looked(t, m) ==
        IF m.ok /\ m.e.seq_offset = m.e.already_read
        THEN [t EXCEPT !.e = [m.e EXCEPT !.read_eof = TRUE]]
        ELSE Joined(t.got, ReadBuffered(IF m.ok THEN m.e ELSE [m.e EXCEPT !.seq_offset = Len(m.e.read_buffer)],
                                        n - Len(t.got)))
      Taken(t) == IF Len(t.got) = n \/ t.e.already_read = Len(t.e.read_buffer) THEN t
                  ELSE Looked(t, MiniReadBuffer(t.e))
  IN Taken(TakeFromBuffer(e, n))

\* Second part: the buffer is empty, and bytes go straight to the caller when
\* there is room to know a mark among them; else through the buffer again.
RECURSIVE InheritedRead(_, _)
InheritedRead(e, n) ==
  LET Straight(b, left, whole, u, read) ==
        LET rest(f, got) == Joined(b.got \o got, InheritedRead(f, left - Len(got)))
        IN IF u.offset < Len(u.a)
           THEN rest([read EXCEPT !.read_buffer = From(u.a, u.offset), !.seq_offset = 0,
                                  !.already_read = 0, !.read_eof = FALSE], First(u.a, u.offset))
           ELSE IF whole /\ u.delta # 0 THEN rest(read, u.a)
           ELSE [e |-> IF whole THEN read ELSE [read EXCEPT !.read_eof = TRUE], got |-> b.got \o u.a]
      Direct(b, left, whole, u) ==
        Straight(b, left, whole, u, [b.e EXCEPT !.below = AfterRead(@, left), !.escaped = @ + u.delta])
      Raw(b, left, raw) == Direct(b, left, Len(raw) = left, Unescaped(raw, 0, 0))
      Through(b, left, f) ==
        IF f.seq_offset > 0 THEN Joined(b.got, InheritedRead(f, left))
        ELSE [b EXCEPT !.e = [f EXCEPT !.read_eof = TRUE]]
      Buffered(b, left) ==
        IF left = 0 \/ b.e.read_eof THEN b
        ELSE IF left > SequenceLength THEN Raw(b, left, ReadBytes(b.e.below, left))
        ELSE Through(b, left, MiniReadBuffer(b.e).e)
      Begin(b) == Buffered(b, n - Len(b.got))
  IN IF e.read_eof /\ e.already_read = Len(e.read_buffer) THEN [e |-> e, got |-> <<>>]
     ELSE Begin(ReadBuffered(e, n))

Cleaned(e) == [e EXCEPT !.read_buffer = <<>>, !.already_read = 0, !.seq_offset = 0]

\* Behind the sequence that starts at seq_offset.
BehindSequence(e) ==
  LET Behind(read) == [e EXCEPT !.already_read = read,
                               !.seq_offset = read + Amorce(From(e.read_buffer, read))]
  IN Behind(e.seq_offset + SequenceLength)

\* skip_to_next_mark
RECURSIVE SkippedToNextMark(_, _, _)
SkippedToNextMark(before, t, jump) ==
  LET Refilled(e, bytes) ==
        IF bytes = <<>>
        THEN [e |-> [Cleaned(e) EXCEPT !.below = AfterRead(@, ReadBufferSize), !.read_eof = TRUE], found |-> FALSE]
        ELSE SkippedToNextMark([e EXCEPT !.read_buffer = bytes, !.below = AfterRead(@, ReadBufferSize),
                                         !.already_read = 0, !.seq_offset = Amorce(bytes)], t, jump)
      Found(f, type) ==
        IF type = t THEN [e |-> BehindSequence(f), found |-> TRUE]
        ELSE IF type = NotASequence \/ (jump /\ type \notin Unjumpable)
        THEN SkippedToNextMark(BehindSequence(f), t, jump)
        ELSE [e |-> [f EXCEPT !.read_eof = TRUE], found |-> FALSE]
      Seen(m, f) ==
        IF ~m.ok THEN [e |-> Cleaned([f EXCEPT !.read_eof = TRUE]), found |-> FALSE]
        ELSE IF f.seq_offset + SequenceLength > Len(f.read_buffer)
        THEN SkippedToNextMark([f EXCEPT !.already_read = f.seq_offset], t, jump)
        ELSE Found(f, f.read_buffer[f.seq_offset + SequenceLength])
      Look(m) == Seen(m, m.e)
      Search(e) == IF e.seq_offset >= Len(e.read_buffer) THEN Refilled(e, ReadBytes(e.below, ReadBufferSize))
                  ELSE Look(MiniReadBuffer([e EXCEPT !.already_read = e.seq_offset]))
  IN Search([before EXCEPT !.read_eof = FALSE, !.escaped = 0])

\* next_to_read_is_which_mark: `type` is the mark, if one is next.
NextMark(e) ==
  LET Seen(m, f) ==
        IF ~m.ok THEN [e |-> f, type |-> 0]
        ELSE IF Len(f.read_buffer) - f.already_read < SequenceLength
        THEN [e |-> [f EXCEPT !.err = "SRC_BUG"], type |-> 0]
        ELSE [e |-> f, type |-> IF f.seq_offset = f.already_read
                                THEN f.read_buffer[f.already_read + SequenceLength] ELSE 0]
      Look(m) == Seen(m, m.e)
  IN IF e.seq_offset > e.already_read THEN [e |-> e, type |-> 0] ELSE Look(MiniReadBuffer(e))

GetPosition(e) == e.below.pos - Len(e.read_buffer) + e.already_read - e.escaped

\* skip
Skipped(before, pos) ==
  LET e == [before EXCEPT !.escaped = 0]
  IN IF GetPosition(e) = pos THEN e
     ELSE [Cleaned(e) EXCEPT !.read_eof = FALSE, !.below = SkipTo(@, pos)]

-----------------------------------------------------------------------------
(* The reference: a stream of bytes and marks, read from a place on.       *)

Decoded(raw) ==
  LET rest[k \in 1..(Len(raw) + 1)] ==
        LET whole == k + Len(Fixed) <= Len(raw) /\ SubSeq(raw, k, k + Len(Fixed) - 1) = Fixed
            type == raw[k + Len(Fixed)]
            bytes == [i \in 1..Len(Fixed) |-> [is |-> "byte", value |-> Fixed[i]]]
        IN IF k > Len(raw) THEN <<>>
           ELSE IF ~whole THEN <<[is |-> "byte", value |-> raw[k]]>> \o rest[k + 1]
           ELSE (IF type = NotASequence THEN bytes
                 ELSE <<[is |-> "mark", value |-> type]>>)
                \o rest[k + SequenceLength]
  IN rest[1]

Stream ==
  Decoded(escape.below.data)
  \o [i \in 1..Len(escape.write_buffer) |-> [is |-> "byte", value |-> escape.write_buffer[i]]]

Ahead ==
  LET data == SubSeq(escape.read_buffer, escape.already_read + 1, escape.seq_offset)
  IN [i \in 1..Len(data) |-> [is |-> "byte", value |-> data[i]]]
     \o Decoded(From(escape.read_buffer, escape.seq_offset)
                \o From(escape.below.data, escape.below.pos))

\* Offsets in the file below right behind a mark, as a catalogue records them.
MarkOffsets ==
  LET raw == escape.below.data
  IN {p \in SequenceLength..Len(raw) :
        /\ SubSeq(raw, p - Len(Fixed), p - 1) = Fixed
        /\ raw[p] # NotASequence}

-----------------------------------------------------------------------------
Init == /\ escape = New("write_only", Opened(<<>>))
        /\ answer = Said("none")

Write(s) == /\ escape.mode = "write_only"
            /\ Len(Stream) + Len(s) <= MaxSize
            /\ LET w == InheritedWrite(escape, s)
               IN /\ escape' = w
                  /\ answer' = Said(IF w.err = "none" THEN "done" ELSE w.err)

AddMark(t) == /\ escape.mode = "write_only"
              /\ Len(Stream) < MaxSize
              /\ escape' = AddMarkAtCurrentPosition(escape, t)
              /\ answer' = Said("done")

\* terminate, and another object on what was written.
Reopen == /\ escape.mode = "write_only"
          /\ MayEndAlike \/ escape.write_buffer = <<>>
          /\ escape' = New("read_only", Opened(FlushWrite(escape).below.data))
          /\ answer' = Said("done")

Read(n) == /\ escape.mode = "read_only"
           /\ LET r == InheritedRead(escape, n)
              IN escape' = r.e /\ answer' = Gave(r.got)

SkipToNextMark(t, jump) ==
  /\ escape.mode = "read_only"
  /\ LET s == SkippedToNextMark(escape, t, jump)
     IN escape' = s.e /\ answer' = Said(IF s.found THEN "true" ELSE "false")

ProtectedDataIsNext ==
  /\ Len(Ahead) >= Len(Fixed)
  /\ \A k \in 1..Len(Fixed) : Ahead[k] = [is |-> "byte", value |-> Fixed[k]]

NextIsMark(t) ==
  /\ escape.mode = "read_only"
  /\ MayAskAnywhere \/ ~ProtectedDataIsNext
  /\ LET m == NextMark(escape)
     IN /\ escape' = m.e
        /\ answer' = Said(IF m.e.err # "none" THEN m.e.err
                          ELSE IF m.type = t THEN "true" ELSE "false")

SkipBehind(pos) == /\ escape.mode = "read_only"
                   /\ escape' = Skipped(escape, pos) /\ answer' = Said("true")

Next == \/ \E s \in Chunk : Write(s)
        \/ \E t \in Mark : AddMark(t)
        \/ Reopen
        \/ \E n \in 1..MaxRead : Read(n)
        \/ \E t \in Mark, jump \in BOOLEAN : SkipToNextMark(t, jump)
        \/ \E t \in Mark : NextIsMark(t)
        \/ \E pos \in MarkOffsets : SkipBehind(pos)

Spec == Init /\ [][Next]_vars

-----------------------------------------------------------------------------
Promise == INSTANCE MarkedStream
             WITH mode <- escape.mode, stream <- Stream, answer <- answer,
                  cursor <- IF escape.mode = "write_only" THEN 0
                            ELSE Len(Stream) - Len(Ahead)

\* Marks and bytes come back as they were written, however the bytes were
\* grouped when written and when read, and whatever they look like
\* (escape::inherited_write, inherited_read, skip_to_next_mark,
\* next_to_read_is_which_mark, skip).
EscapeIsAMarkedStream == Promise!Spec
=============================================================================
