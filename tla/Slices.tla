------------------------------- MODULE Slices -------------------------------
(***************************************************************************)
(* Class sar: an archive cut in slices.  Each slice has a header, data and *)
(* (since format 08) a last byte that tells whether more slices follow;    *)
(* before, the header told it.  The object is a record of its fields; the  *)
(* slices are the files of a directory, one of which is open.  The user is *)
(* asked for the slices that are missing, and a command is run after each  *)
(* slice that is written.                                                  *)
(***************************************************************************)
EXTENDS PlainFile, FiniteSets

CONSTANTS MaxRead, MaxSkip, Chunk,
          Size, FirstSize, \* of the slices
          OldFormat,       \* the formats: TRUE for format 07
          Foreign,         \* slices of another archive are in these places
          AllowOverwrite,  \* opt_allow_overwrite
          MayMissStart,    \* whether callers skip back before the first byte
          MayMissEnd       \* or forward over the last one

VARIABLES sar, answer

vars == <<sar, answer>>

Terminal == 91
NonTerminal == 92
AtEndOfSlice == 93
HeaderByte == 90
MinHeader == 1

\* make_write_header and header::write: the sizes are in all headers, or in
\* the first one when slices differ in format 07.
HeaderLength(old, num, differ) == IF old /\ ~(num = 1 /\ differ) THEN MinHeader ELSE MinHeader + 1
HeaderOf(s, num, flag) ==
  [label |-> "ours", flag |-> flag,
   slice_size |-> IF s.old /\ ~(num = 1 /\ s.size # s.first_size) THEN 0 ELSE s.size,
   first_size |-> IF s.old THEN 0 ELSE s.first_size]

\* open_file_init and the rest of the constructors.
Fresh(mode, old, disk) ==
  [mode |-> mode, old |-> old, disk |-> disk, size |-> Size, first_size |-> FirstSize,
   fd |-> [open |-> FALSE, pos |-> 0], current |-> 0, max_seen |-> 0, size_of_current |-> 0,
   last_known |-> FALSE, last_num |-> 0, flag |-> 0, first_offset |-> 0,
   other_offset |-> 0, file_offset |-> 0, initial |-> TRUE,
   natural_destruction |-> TRUE, hooked |-> <<>>, err |-> "none"]

Bytes(s) == s.disk[s.current].bytes
Below(s) == [data |-> Bytes(s), pos |-> s.fd.pos]
Delta(s) == IF s.old THEN 0 ELSE 1  \* the byte of the trailing flag
SizeOf(s, num) == IF num = 1 THEN s.first_size ELSE s.size
OffsetIn(s, num) == IF num = 1 THEN s.first_offset ELSE s.other_offset

\* Faulty: the command is run for the slice that is about to be opened.
HookOfNextSlice(s, num) == [s EXCEPT !.hooked = Append(@, num + 1)]

HookExecute(s, num) == [s EXCEPT !.hooked = Append(@, num)]

-----------------------------------------------------------------------------
(* Opening and closing slices.                                             *)

\* Faulty: every slice says that it is the last one.
ClosedAsTheLast(s, terminal) ==
  LET shut == [s EXCEPT !.fd = [open |-> FALSE, pos |-> 0]]
  IN IF ~s.fd.open \/ s.mode = "read_only" THEN shut
     ELSE IF s.old THEN [shut EXCEPT !.disk[s.current].header = HeaderOf(s, s.current, Terminal)]
     ELSE [shut EXCEPT !.disk[s.current].bytes = Append(@, Terminal)]

\* close_file
Closed(s, terminal) ==
  LET flag == IF terminal THEN Terminal ELSE NonTerminal
      shut == [s EXCEPT !.fd = [open |-> FALSE, pos |-> 0]]
  IN IF ~s.fd.open \/ s.mode = "read_only" THEN shut
     ELSE IF s.old THEN [shut EXCEPT !.disk[s.current].header = HeaderOf(s, s.current, flag)]
     ELSE IF s.fd.pos # Len(Bytes(s)) THEN [shut EXCEPT !.err = "SRC_BUG"]
     ELSE [shut EXCEPT !.disk[s.current].bytes = Append(@, flag)]

\* What the names in the directory tell: sar_get_higher_number_in_dir.
HigherNumberInDir(s) ==
  CHOOSE n \in DOMAIN s.disk : \A k \in DOMAIN s.disk : k <= n

\* open_readonly of a slice that is there and is ours, up to the offsets.
SizesLearnt(s, num) ==
  LET SliceSize(file) == IF file.header.slice_size = 0 THEN Len(file.bytes)
                     ELSE file.header.slice_size
      First(file) == IF s.old /\ file.header.slice_size # 0 THEN Len(file.bytes)
                     ELSE IF file.header.first_size = 0 THEN SliceSize(file)
                     ELSE file.header.first_size
      Learnt(size, first, offset) ==
        [s EXCEPT !.size = size, !.first_size = first, !.first_offset = offset,
                  !.other_offset = IF s.old THEN MinHeader ELSE offset]
      LearntFrom(size, first) == Learnt(size, first, HeaderLength(s.old, num, size # first))
  IN IF s.first_offset # 0 THEN s ELSE LearntFrom(SliceSize(s.disk[num]), First(s.disk[num]))

\* open_readonly: the user gives the slice or gives up; the size of slices is
\* learnt from the first one opened, and the flag tells the last one.
OpenedReadonly(s, num) ==
  LET Opening(t, file) ==
        [t EXCEPT !.fd = [open |-> TRUE, pos |-> OffsetIn(t, num)],
                  !.size_of_current = Len(file.bytes),
                  !.flag = IF file.header.flag = AtEndOfSlice THEN file.bytes[Len(file.bytes)]
                           ELSE file.header.flag]
      Noticing(t) == IF t.flag # Terminal THEN t
                     ELSE IF t.last_known /\ t.last_num # num THEN [t EXCEPT !.err = "Erange"]
                     ELSE [t EXCEPT !.last_known = TRUE, !.last_num = num]
  IN IF num \notin DOMAIN s.disk THEN [s EXCEPT !.err = "Euser_abort"]
     ELSE IF s.old /\ s.first_offset = 0 /\ num # 1
     THEN [s EXCEPT !.err = "Erange", !.fd = [open |-> TRUE, pos |-> MinHeader]]
     ELSE Noticing(Opening(SizesLearnt(s, num), s.disk[num]))

\* open_writeonly: a file that is there already is another archive's, or of
\* this one when the number was written before.
OpenedWriteonly(s, num, agrees) ==
  LET Foreigner == num \in Foreign /\ num > Len(s.disk)
      Created(length) ==
        LET written == [header |-> HeaderOf(s, num, AtEndOfSlice),
                        bytes |-> [i \in 1..length |-> HeaderByte]]
        IN [s EXCEPT !.fd = [open |-> TRUE, pos |-> length], !.flag = AtEndOfSlice,
                     !.disk = [k \in DOMAIN @ \union {num} |->
                                 IF k = num THEN written ELSE @[k]],
                     !.first_offset = IF num = 1 THEN length ELSE @,
                     !.other_offset = IF num # 1 THEN @
                                      ELSE IF s.old THEN MinHeader ELSE length]
      Fitting(t) == IF t.first_offset >= t.first_size \/ t.other_offset >= t.size
                    THEN [t EXCEPT !.err = "Erange"] ELSE t
  IN IF Foreigner /\ ~AllowOverwrite THEN [s EXCEPT !.err = "Erange"]
     ELSE IF Foreigner /\ ~agrees
     THEN [s EXCEPT !.err = "Euser_abort", !.natural_destruction = FALSE]
     ELSE Fitting(Created(HeaderLength(s.old, num, s.size # s.first_size)))

\* open_file: the slice before is finished and its command run.
OpenFile(s, num, agrees) ==
  LET Hooked(t) == IF t.initial THEN [t EXCEPT !.initial = FALSE]
                   ELSE HookExecute(t, t.current)
      Entered(t) == IF t.err # "none" THEN t
                    ELSE [t EXCEPT !.current = num, !.max_seen = Greatest(@, num),
                                   !.file_offset = OffsetIn(t, num)]
      Opening(t) == IF t.err # "none" THEN t
                    ELSE IF t.mode = "read_only" THEN Entered(OpenedReadonly(t, num))
                    ELSE Entered(OpenedWriteonly(Hooked(t), num, agrees))
  IN IF s.fd.open /\ s.current = num THEN s ELSE Opening(Closed(s, FALSE))

\* open_last_file, when the last slice is there.
OpenLastFile(s) ==
  OpenFile(s, IF s.last_known THEN s.last_num ELSE HigherNumberInDir(s), TRUE)

-----------------------------------------------------------------------------
(* Moving, reading and writing.                                            *)

\* Faulty: the trailing flags of the slices before are counted as data.
PositionCountingFlags(s) ==
  IF s.current > 1
  THEN s.first_size - s.first_offset + (s.current - 2) * (s.size - s.other_offset)
       + s.file_offset - s.other_offset
  ELSE s.file_offset - s.first_offset

GetPosition(s) ==
  IF s.current > 1
  THEN s.first_size - s.first_offset - Delta(s)
       + (s.current - 2) * (s.size - s.other_offset - Delta(s))
       + s.file_offset - s.other_offset
  ELSE s.file_offset - s.first_offset

\* Moves in the open slice: set_offset.
At(s, offset) == IF s.err # "none" THEN s
                 ELSE [s EXCEPT !.file_offset = offset, !.fd.pos = offset]

Skipped(s, pos) ==
  LET first == s.first_size - s.first_offset - Delta(s)
      per == s.size - s.other_offset - Delta(s)
      ToEndOf(last) == [s |-> At(last, Len(Bytes(last))), ok |-> FALSE]
      Into(dest, offset) ==
        IF s.last_known /\ dest > s.last_num THEN ToEndOf(OpenFile(s, s.last_num, TRUE))
        ELSE [s |-> At(OpenFile(s, dest, TRUE), offset), ok |-> TRUE]
  IN IF GetPosition(s) = pos THEN [s |-> s, ok |-> TRUE]
     ELSE IF pos < first THEN Into(1, pos + s.first_offset)
     ELSE Into((pos - first) \div per + 2, ((pos - first) % per) + s.other_offset)

SkippedToEof(s) ==
  LET AtEnd(last) == IF last.err # "none" THEN last ELSE At(last, Len(Bytes(last)) - Delta(s))
  IN [s |-> AtEnd(OpenLastFile(s)), ok |-> TRUE]

\* skip_forward: slice after slice, as long as the offset is behind their end.
SkippedForward(s, x) ==
  LET Behind(number, offset) == /\ offset + Delta(s) >= SizeOf(s, number)
                                /\ ~s.last_known \/ number <= s.last_num
      hop[i \in 0..(x + 1)] ==
        IF i = 0 THEN [number |-> s.current, offset |-> s.file_offset + x]
        ELSE LET p == hop[i - 1]
             IN IF ~Behind(p.number, p.offset) THEN p
                ELSE [number |-> p.number + 1,
                      offset |-> p.offset - (SizeOf(s, p.number) - Delta(s)) + s.other_offset]
      Ending(p) == IF p.offset + Delta(s) < SizeOf(s, p.number)
                   THEN [s |-> At(OpenFile(s, p.number, TRUE), p.offset), ok |-> TRUE]
                   ELSE [s |-> s, ok |-> FALSE]
  IN Ending(hop[x + 1])

\* skip_backward: at the start of the archive when there is not so much.
SkippedBackward(s, x) ==
  LET hop[i \in 0..(x + 1)] ==
        IF i = 0 THEN [number |-> s.current, offset |-> s.file_offset, left |-> x]
        ELSE LET p == hop[i - 1]
             IN IF p.number > 1 /\ p.left + s.other_offset > p.offset
                THEN [number |-> p.number - 1, left |-> p.left - (p.offset - s.other_offset + 1),
                      offset |-> SizeOf(s, p.number - 1) - 1 - Delta(s)]
                ELSE p
      Ending(p) == IF p.left + OffsetIn(s, p.number) <= p.offset
                   THEN [s |-> At(OpenFile(s, p.number, TRUE), p.offset - p.left), ok |-> TRUE]
                   ELSE [s |-> [OpenFile(s, 1, TRUE) EXCEPT !.fd.pos = s.first_offset],
                         ok |-> FALSE]
  IN Ending(hop[x + 1])

SkippedBy(s, x) == IF x > 0 THEN SkippedForward(s, x)
                   ELSE IF x < 0 THEN SkippedBackward(s, -x)
                   ELSE [s |-> s, ok |-> TRUE]

\* is_current_eof_a_normal_end_of_slice
EofIsNormal(s) == \/ s.last_known /\ s.last_num = s.current
                  \/ s.file_offset >= SizeOf(s, s.current) - Delta(s)
\* bytes_still_to_read_in_slice
StillToRead(s) == Greatest(0, SizeOf(s, s.current) - s.file_offset - Delta(s))

\* One turn of inherited_read: data, without the flag; else the next slice, or
\* zeros for what a damaged slice lacks.
ReadTurn(r) ==
  LET s == r.s
      bytes == ReadBytes(Below(s), r.left)
      moved == AfterRead(Below(s), r.left)
      whole == ~s.old /\ moved.pos = s.size_of_current /\ bytes # <<>>
      got == IF whole THEN SubSeq(bytes, 1, Len(bytes) - 1) ELSE bytes
      read == [s EXCEPT !.fd.pos = moved.pos, !.file_offset = @ + Len(got)]
      place == Least(StillToRead(s), r.left)
  IN IF r.left = 0 \/ r.over \/ s.err # "none" THEN r
     ELSE IF got # <<>>
     THEN [r EXCEPT !.s = read, !.got = @ \o got, !.left = @ - Len(got)]
     ELSE IF s.flag = Terminal THEN [r EXCEPT !.s = read, !.over = TRUE]
     ELSE IF EofIsNormal(s) THEN [r EXCEPT !.s = OpenFile(read, s.current + 1, TRUE)]
     ELSE [r EXCEPT !.s = [read EXCEPT !.file_offset = @ + place],
                    !.got = @ \o Zeros(place), !.left = @ - place]

InheritedRead(s, n) ==
  LET turn[i \in 0..(3 * n + 3)] ==
        IF i = 0 THEN [s |-> s, got |-> <<>>, left |-> n, over |-> FALSE]
        ELSE ReadTurn(turn[i - 1])
  IN turn[3 * n + 3]

\* One turn of inherited_write: what the slice still holds, or the next slice.
WriteTurn(r, agrees) ==
  LET s == r.s
      room == SizeOf(s, s.current) - s.file_offset - Delta(s)
      n == Least(room, Len(r.rest))
  IN IF r.rest = <<>> \/ s.err # "none" THEN r
     ELSE IF n > 0
     THEN [s |-> [s EXCEPT !.disk[s.current].bytes = @ \o SubSeq(r.rest, 1, n),
                           !.fd.pos = @ + n, !.file_offset = @ + n],
           rest |-> SubSeq(r.rest, n + 1, Len(r.rest))]
     ELSE [r EXCEPT !.s = OpenFile(s, s.current + 1, agrees)]

InheritedWrite(s, a, agrees) ==
  LET turn[i \in 0..(2 * Len(a) + 2)] ==
        IF i = 0 THEN [s |-> s, rest |-> a] ELSE WriteTurn(turn[i - 1], agrees)
  IN turn[2 * Len(a) + 2]

\* inherited_terminate
Terminated(s) ==
  LET closed == Closed(s, TRUE)
  IN IF s.mode = "write_only" /\ s.natural_destruction /\ closed.err = "none"
     THEN HookExecute(closed, s.current) ELSE closed

\* The constructor that reads: by the end, or else by the first slice.
OpenedByTheEnd(s) ==
  LET OrElse(end) == IF end.err # "Erange" THEN end
                     ELSE OpenFile([end EXCEPT !.err = "none"], 1, TRUE)
  IN OrElse(SkippedToEof(s).s)

-----------------------------------------------------------------------------
Init == /\ \E old \in OldFormat, agrees \in BOOLEAN :
             LET s == OpenFile(Fresh("write_only", old, <<>>), 1, agrees)
             IN sar = IF s.err = "none" THEN s ELSE [s EXCEPT !.mode = "closed"]
        /\ answer = Said("none")

\* An exception ends the work: the object is destroyed.
Done(s, said) == IF s.err = "none" THEN sar' = s /\ answer' = said
                 ELSE /\ sar' = [s EXCEPT !.mode = "closed"]
                      /\ answer' = Said(s.err)

\* The bytes of the archive: the data of its slices.
DataOf(s, k) ==
  LET file == s.disk[k]
      flagged == ~s.old /\ ~(s.mode = "write_only" /\ s.fd.open /\ s.current = k)
  IN SubSeq(file.bytes, HeaderLength(s.old, k, s.size # s.first_size) + 1,
            Len(file.bytes) - (IF flagged THEN 1 ELSE 0))
Content(s) ==
  LET upTo[k \in 0..Cardinality(DOMAIN s.disk)] ==
        IF k = 0 THEN <<>> ELSE upTo[k - 1] \o DataOf(s, k)
  IN upTo[Cardinality(DOMAIN s.disk)]

Write(a) ==
  /\ sar.mode = "write_only"
  /\ Len(Content(sar)) + Len(a) <= MaxSkip
  /\ \E agrees \in BOOLEAN : Done(InheritedWrite(sar, a, agrees).s, Said("done"))

Terminate == /\ sar.mode = "write_only"
             /\ sar' = [Terminated(sar) EXCEPT !.mode = "written"]
             /\ answer' = Said("done")

Reopen(by_the_end) ==
  /\ sar.mode = "written"
  /\ LET fresh == [Fresh("read_only", sar.old, sar.disk) EXCEPT !.hooked = sar.hooked]
         s == IF by_the_end THEN OpenedByTheEnd(fresh) ELSE OpenFile(fresh, 1, TRUE)
     IN Done(Skipped(s, 0).s, Said("done"))

Reading == sar.mode = "read_only"
Read(n) == Reading /\ LET r == InheritedRead(sar, n) IN Done(r.s, Gave(r.got))

SkipTaken(r) == Done(r.s, Said(IF r.ok THEN "true" ELSE "false"))
Skip(pos) == Reading /\ SkipTaken(Skipped(sar, pos))
SkipToEof == Reading /\ SkipTaken(SkippedToEof(sar))
SkipRelative(x) ==
  LET there == GetPosition(sar) + x
  IN /\ Reading
     /\ MayMissStart \/ there >= 0
     /\ MayMissEnd \/ there < Len(Content(sar))
     /\ SkipTaken(SkippedBy(sar, x))

Next == \/ \E a \in Chunk : Write(a)
        \/ Terminate
        \/ \E by_the_end \in BOOLEAN : Reopen(by_the_end)
        \/ \E n \in 1..MaxRead : Read(n)
        \/ \E pos \in 0..(MaxSkip + 1) : Skip(pos)
        \/ SkipToEof
        \/ \E x \in (-MaxSkip)..MaxSkip : SkipRelative(x)

Spec == Init /\ [][Next]_vars

-----------------------------------------------------------------------------
File == INSTANCE GenericFile
          WITH mode <- sar.mode, content <- Content(sar), position <- GetPosition(sar),
               stored <- Content(sar), answer <- answer
Moves == \/ File!Next
         \/ sar'.mode = "closed"
         \/ /\ sar'.mode # sar.mode
            /\ Content(sar') = Content(sar)
            /\ sar'.mode = "read_only" => GetPosition(sar') = 0

\* Whatever the sizes of the slices and the format, the slices read as the one
\* file that was written, at the positions it was written at
\* (sar::inherited_read, inherited_write, skip, skip_forward, skip_backward).
SlicesAreAFile == [][Moves]_<<sar, answer>>

\* What a reader opens holds what was written, and only the last slice says
\* that it is the last one.
SlicesAreClosed ==
  sar.mode \in {"written", "read_only"} =>
    \A k \in DOMAIN sar.disk :
      LET file == sar.disk[k]
          flag == IF sar.old THEN file.header.flag ELSE file.bytes[Len(file.bytes)]
      IN flag = IF k = Cardinality(DOMAIN sar.disk) THEN Terminal ELSE NonTerminal

\* The command of the user is run once for each slice, in their order, when the
\* slice is complete (sar::open_file, inherited_terminate, hook_execute).
CommandsFollowSlices ==
  /\ sar.hooked = [k \in 1..Len(sar.hooked) |-> k]
  /\ sar.mode = "write_only" => Len(sar.hooked) = sar.current - 1
  /\ sar.mode \in {"written", "read_only"} => Len(sar.hooked) = Cardinality(DOMAIN sar.disk)

\* A slice is opened to store data (sar.cpp:209): none but the first is empty
\* when another one follows.
SlicesHoldData ==
  \A k \in DOMAIN sar.disk :
    1 < k /\ k < Cardinality(DOMAIN sar.disk) => DataOf(sar, k) # <<>>
=============================================================================
