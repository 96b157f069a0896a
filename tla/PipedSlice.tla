----------------------------- MODULE PipedSlice -----------------------------
(***************************************************************************)
(* Classes trivial_sar and tuyau: an archive of a single slice, written to *)
(* a file or a pipe and read back from a pipe, which cannot go backward    *)
(* and ends when its writer does.                                          *)
(***************************************************************************)
EXTENDS PlainFile

CONSTANTS MaxRead, MaxSkip, Chunk, \* the calls, and the bound of the archive
          OldFormat,   \* whether the format is the one of the releases before 2.4
          MaySkipAhead \* whether callers skip forward on a pipe

VARIABLES slice, \* the trivial_sar object
          answer

vars == <<slice, answer>>

\* The header of a slice, and the flag behind its data (flag_type_terminal).
Header == <<7>>
Terminal == 8

\* A tuyau on what its writer sends: its own count of the position, and the
\* byte that was read to know whether there is one.
Tuyau(bytes) == [source |-> Opened(bytes), position |-> 0, ahead |-> <<>>]

\* tuyau::has_next_to_read
Peeked(t) == IF t.ahead # <<>> THEN t
             ELSE [t EXCEPT !.ahead = ReadBytes(t.source, 1), !.source = AfterRead(@, 1)]
HasNextToRead(t) == Peeked(t).ahead # <<>>

\* tuyau::inherited_read: loops until all is read or the pipe is closed.
PipeGives(t, n) == t.ahead \o ReadBytes(t.source, n - Len(t.ahead))
PipeRead(t, n) ==
  [source |-> AfterRead(t.source, n - Len(t.ahead)), ahead |-> <<>>,
   position |-> t.position + Len(PipeGives(t, n))]

\* tuyau::skip and read_and_drop, which adds what it read to the position that
\* read() moved already.
PipeSkip(t, pos) ==
  LET n == pos - t.position
      dropped == Len(PipeGives(t, n))
  IN CASE pos < t.position -> [t |-> t, said |-> "Erange"]
       [] pos = t.position -> [t |-> t, said |-> "true"]
       [] pos > t.position ->
            [t |-> [PipeRead(t, n) EXCEPT !.position = @ + dropped],
             said |-> IF dropped = n THEN "true" ELSE "false"]

-----------------------------------------------------------------------------
New(old) == [mode |-> "write_only", old_sar |-> old, offset |-> Len(Header),
             end_of_slice |-> 0, hooked |-> 0, pipe |-> Tuyau(<<>>),
             reference |-> AfterWrite(Opened(<<>>), Header)]

\* The constructor that reads: init() reads the header.
OpenedOn(s, bytes) ==
  [s EXCEPT !.mode = "read_only", !.end_of_slice = 0,
            !.pipe = PipeRead(Tuyau(bytes), Len(Header))]

GetPosition(s) ==
  IF s.mode = "read_only" THEN s.pipe.position - s.offset - s.end_of_slice
  ELSE s.reference.pos - s.offset

\* inherited_terminate: the flag behind the data, and the command of the user.
Terminated(s) ==
  [s EXCEPT !.mode = "written", !.hooked = @ + 1,
            !.reference = IF s.old_sar THEN @ ELSE AfterWrite(@, <<Terminal>>)]

\* Faulty: the flag is looked for when less is given than asked for.
FlagLookedForAtShortRead(s, n) ==
  LET got == PipeGives(s.pipe, n)
      read == [s EXCEPT !.pipe = PipeRead(@, n)]
  IN IF Len(got) = n \/ got = <<>> \/ s.old_sar
     THEN [s |-> read, got |-> got, said |-> "bytes"]
     ELSE [s |-> [read EXCEPT !.end_of_slice = 1], got |-> SubSeq(got, 1, Len(got) - 1),
           said |-> "bytes"]

\* inherited_read: when nothing follows what was read, its last byte is the
\* flag of the end.
InheritedRead(s, n) ==
  LET got == PipeGives(s.pipe, n)
      read == [s EXCEPT !.pipe = Peeked(PipeRead(s.pipe, n))]
      ended == ~HasNextToRead(read.pipe) /\ got # <<>>
      atEnd == [read EXCEPT !.end_of_slice = 1]
  IN CASE ~ended -> [s |-> read, got |-> got, said |-> "bytes"]
       [] ended /\ s.old_sar -> [s |-> atEnd, got |-> got, said |-> "bytes"]
       [] ended /\ ~s.old_sar /\ got[Len(got)] = Terminal ->
            [s |-> atEnd, got |-> SubSeq(got, 1, Len(got) - 1), said |-> "bytes"]
       [] ended /\ ~s.old_sar /\ got[Len(got)] # Terminal ->
            [s |-> read, got |-> <<>>, said |-> "Erange"]

-----------------------------------------------------------------------------
Init == /\ \E old \in OldFormat : slice = New(old)
        /\ answer = Said("none")

Write(s) == /\ slice.mode = "write_only"
            /\ GetPosition(slice) + Len(s) <= MaxSkip
            /\ slice' = [slice EXCEPT !.reference = AfterWrite(@, s)]
            /\ answer' = Said("done")

Terminate == /\ slice.mode = "write_only"
             /\ slice' = Terminated(slice)
             /\ answer' = Said("done")

\* The archive is sent through a pipe, of which the writer may die on the way.
\* Neither the old format nor a pipe cut right behind the header tells it.
Reopen == /\ slice.mode = "written"
          /\ \E n \in 1..Len(slice.reference.data) :
               /\ slice.old_sar => n = Len(slice.reference.data)
               /\ ~slice.old_sar => n > Len(Header)
               /\ slice' = OpenedOn(slice, SubSeq(slice.reference.data, 1, n))
          /\ answer' = Said("done")

Read(n) == /\ slice.mode = "read_only"
           /\ LET r == InheritedRead(slice, n)
              IN /\ slice' = IF r.said = "bytes" THEN r.s ELSE [r.s EXCEPT !.mode = "closed"]
                 /\ answer' = IF r.said = "bytes" THEN Gave(r.got) ELSE Said(r.said)

\* trivial_sar::skip; a pipe refuses to go backward.
Skip(pos) == /\ slice.mode = "read_only"
             /\ MaySkipAhead \/ pos <= GetPosition(slice)
             /\ LET moved == PipeSkip(slice.pipe, pos + slice.offset)
                IN /\ slice' = [slice EXCEPT !.pipe = moved.t,
                                             !.mode = IF moved.said = "Erange" THEN "closed" ELSE @]
                   /\ answer' = Said(moved.said)

Next == \/ \E s \in Chunk : Write(s)
        \/ Terminate
        \/ Reopen
        \/ \E n \in 1..MaxRead : Read(n)
        \/ \E pos \in 0..MaxSkip : Skip(pos)

Spec == Init /\ [][Next]_vars

-----------------------------------------------------------------------------
\* The data of the archive, whatever part of it the pipe delivers.
Content == LET trailer == IF slice.mode = "write_only" \/ slice.old_sar THEN 0 ELSE 1
               bytes == slice.reference.data
           IN SubSeq(bytes, Len(Header) + 1, Len(bytes) - trailer)

File == INSTANCE GenericFile
          WITH mode <- slice.mode, content <- Content, position <- GetPosition(slice),
               stored <- Content, answer <- answer
Moves == \/ File!Next
         \/ slice'.mode \in {"closed", "written"} /\ Content' = Content
         \/ slice.mode = "written" /\ GetPosition(slice') = 0 /\ Content' = Content

\* What comes out of the pipe is the archive from its first byte to its last:
\* less than what is asked for is given at its end alone, and a pipe that was
\* cut is told by an exception (trivial_sar::inherited_read, tuyau::inherited_read).
PipeIsAFile == [][Moves]_vars
=============================================================================
