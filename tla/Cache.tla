------------------------------- MODULE Cache -------------------------------
(***************************************************************************)
(* Class cache: one buffer over a file, used for reads or for writes.  The *)
(* object is a record of its fields; `ref` is the file below.  A method is *)
(* an operator on the record; `err` tells the exception it ended with.     *)
(***************************************************************************)
EXTENDS PlainFile

CONSTANTS MaxRead, MaxSkip, Chunk, \* the calls, and the bound of positions
          Contents,      \* what the file below may hold at first
          Mode,          \* the modes a cache is opened in
          InitialSize,   \* of the buffer
          MaxBufferSize, \* MAX_BUFFER_SIZE
          Observation,   \* uses between two adaptations of the size
          OverusedRate,  \* percentage of full buffers that makes it grow
          MayMissStart   \* whether callers skip back before the first byte

VARIABLES cache, answer

vars == <<cache, answer>>

\* What the system may answer to the next request for memory: it succeeds, it
\* fails, it fails even for the size the buffer had.
Memory == {"enough", "not_more", "none"}

New(mode, file) ==
  [mode |-> mode, ref |-> file, current_position |-> file.pos,
   buffer |-> <<>>, next |-> 0, size |-> InitialSize,
   read_mode |-> FALSE, shifted_mode |-> FALSE,
   failed_increase |-> FALSE, max_alloc_size |-> 0,
   read_counter |-> 0, read_overused |-> 0,
   write_counter |-> 0, write_overused |-> 0, err |-> "none"]

Last(c) == Len(c.buffer)

\* What the write buffer becomes when it is found too small too often.
Enlarged(c, memory) ==
  LET To(larger) ==
        IF ~(c.size < larger /\ (c.max_alloc_size = 0 \/ larger < c.max_alloc_size)) THEN c
        ELSE CASE memory = "enough" -> [c EXCEPT !.size = larger]
               [] memory = "not_more" -> [c EXCEPT !.max_alloc_size = c.size]
               [] memory = "none" -> [c EXCEPT !.max_alloc_size = c.size, !.size = 0,
                                               !.err = "Ememory"]
  IN To(Least(2 * c.size, MaxBufferSize))

\* flush_write: the pending bytes go below; the statistics may ask for a
\* larger buffer, which is empty at that moment.
FlushWrite(c, memory) ==
  LET Flushed == [c EXCEPT !.ref = AfterWrite(@, c.buffer), !.buffer = <<>>, !.next = 0]
      Counted(f, counter, overused) ==
        [f EXCEPT !.write_counter = counter, !.write_overused = overused]
      Tried(larger, counter, overused) ==
        IF larger.err = "none" THEN larger ELSE Counted(larger, counter, overused)
      Adapted(f, counter, overused) ==
        IF counter < Observation THEN Counted(f, counter, overused)
        ELSE IF overused * 100 > OverusedRate * counter
        THEN Tried(Enlarged(Counted(f, 0, 0), memory), counter, overused)
        ELSE Counted(f, 0, 0)
  IN IF c.mode = "read_only" \/ c.read_mode \/ c.size = 0 THEN c
     ELSE Adapted(Flushed, c.write_counter + 1,
                  c.write_overused + IF c.next = c.size THEN 1 ELSE 0)

ClearRead(c) == IF c.read_mode THEN [c EXCEPT !.buffer = <<>>, !.next = 0] ELSE c

\* buf::shift_by_half: the second half stays, to skip backward in.
ShiftedByHalf(c) ==
  LET half == Last(c) \div 2
  IN IF Last(c) > 1
     THEN [c EXCEPT !.buffer = SubSeq(@, half + 1, Len(@)), !.next = @ - half]
     ELSE c

\* fulfill_read: called when all that the buffer holds was read.
FulfillRead(c, memory) ==
  LET Room == IF c.shifted_mode THEN ShiftedByHalf(c)
              ELSE [c EXCEPT !.buffer = <<>>, !.next = 0]
      Sized(room, counter, overused, grow) ==
        [room EXCEPT !.size = IF grow /\ memory = "enough" THEN 2 * @ ELSE @,
                     !.failed_increase = @ \/ (grow /\ memory # "enough"),
                     !.read_counter = IF counter >= Observation THEN 0 ELSE counter,
                     !.read_overused = IF counter >= Observation THEN 0 ELSE overused]
      Adapted(counter, overused) ==
        Sized(Room, counter, overused,
              /\ counter >= Observation
              /\ overused * 100 > OverusedRate * counter
              /\ ~c.failed_increase /\ 2 * c.size <= MaxBufferSize)
      Filled(t, wanted) == [t EXCEPT !.buffer = @ \o ReadBytes(t.ref, wanted),
                                     !.ref = AfterRead(@, wanted)]
      Filling(t) == IF t.next # Last(t) THEN [t EXCEPT !.err = "SRC_BUG"]
                    ELSE Filled(t, t.size - Last(t))
  IN IF c.mode = "write_only" \/ ~c.read_mode THEN c
     ELSE Filling(Adapted(c.read_counter + 1,
                          c.read_overused
                          + IF c.next = Last(c) /\ c.next # 0 THEN 1 ELSE 0))

\* One round of the loop of inherited_read: r is the cache, what was read and
\* whether the end was met.
ReadRound(r, n, memory) ==
  LET c == r.cache
      Taking(filled, got) ==
        [cache |-> [filled EXCEPT !.next = @ + got],
         got |-> r.got \o SubSeq(filled.buffer, filled.next + 1, filled.next + got),
         eof |-> FALSE]
      From(filled) ==
        IF filled.next >= Last(filled) THEN [r EXCEPT !.cache = filled, !.eof = TRUE]
        ELSE Taking(filled, Least(Last(filled) - filled.next, n - Len(r.got)))
  IN IF r.eof \/ Len(r.got) = n \/ c.err # "none" THEN r
     ELSE From(IF c.next >= Last(c) THEN FulfillRead(c, memory) ELSE c)

InheritedRead(c, n, memory) ==
  LET Ready(flushed) == IF c.read_mode \/ flushed.err # "none" THEN flushed
                        ELSE [flushed EXCEPT !.read_mode = TRUE]
      Rounds(ready) ==
        LET round[k \in 0..(n + 1)] ==
              IF k = 0 THEN [cache |-> ready, got |-> <<>>, eof |-> FALSE]
              ELSE ReadRound(round[k - 1], n, memory)
        IN round[n + 1]
      Moved(r) == [r EXCEPT !.cache.current_position = @ + Len(r.got)]
  IN Moved(Rounds(Ready(FlushWrite(c, memory))))

\* inherited_write: fill the buffer, flush it once, and write the rest through
\* when it is larger than a buffer.
InheritedWrite(c, s, memory) ==
  LET Taken(w, n) == [w EXCEPT !.buffer = @ \o SubSeq(s, 1, n), !.next = @ + n]
      Left(flushed, rest) ==
        IF flushed.err # "none" THEN flushed
        ELSE IF flushed.size < Len(rest) THEN [flushed EXCEPT !.ref = AfterWrite(@, rest)]
        ELSE [flushed EXCEPT !.buffer = rest, !.next = Len(rest)]
      Done(w, rest) == IF rest = <<>> THEN w ELSE Left(FlushWrite(w, memory), rest)
      First(w, n) == Done(Taken(w, n), SubSeq(s, n + 1, Len(s)))
      Filled(w) == First(w, Least(w.size - w.next, Len(s)))
      Moved(t) == IF t.err = "none" THEN [t EXCEPT !.current_position = @ + Len(s)]
                  ELSE [t EXCEPT !.current_position = t.ref.pos + t.next]
  IN Moved(Filled(IF c.read_mode THEN [ClearRead(c) EXCEPT !.read_mode = FALSE] ELSE c))

\* A seek of the file below.  Some files refuse to go behind their end.
BelowSkips(c, pos) ==
  {[c |-> [c EXCEPT !.ref = SkipTo(@, pos)], said |-> "true"]}
  \cup (IF pos <= Len(c.ref.data) THEN {}
        ELSE {[c |-> [c EXCEPT !.ref = SkipToEnd(@)], said |-> "false"]})

\* Faulty: the bytes of the buffer already read are forgotten.
WithinIgnoringNext(c, pos) ==
  c.current_position <= pos /\ pos <= c.current_position + Last(c)

\* Whether the position is among the bytes buffered for reading.
Within(c, pos) ==
  /\ c.current_position <= pos + c.next
  /\ pos <= c.current_position + Last(c) - c.next

\* skip: the states it may leave the cache in, with what it answers.
Skips(c, pos, memory) ==
  LET Flushed(f) ==
        IF f.err # "none" THEN {[c |-> f, said |-> f.err]}
        ELSE IF pos = c.current_position /\ pos = f.ref.pos THEN {[c |-> f, said |-> "true"]}
        ELSE {[s EXCEPT !.c.current_position = IF s.said = "true" THEN pos ELSE s.c.ref.pos] :
                s \in BelowSkips(f, pos)}
  IN IF ~c.read_mode THEN Flushed(FlushWrite(c, memory))
     ELSE IF Within(c, pos)
     THEN {[c |-> [c EXCEPT !.next = @ + pos - c.current_position,
                            !.current_position = pos], said |-> "true"]}
     ELSE {[s EXCEPT !.c.current_position = pos] : s \in BelowSkips(ClearRead(c), pos)}

\* skip_to_eof: the file below tells where the end is.
SkipsToEof(c, memory) ==
  LET Ended(f) == [f EXCEPT !.ref = SkipToEnd(@)]
      Flushed(f) == IF f.err # "none" THEN {[c |-> f, said |-> f.err]}
                    ELSE {[c |-> [Ended(f) EXCEPT !.current_position = Len(f.ref.data)],
                           said |-> "true"]}
  IN IF c.read_mode THEN Skips(Ended(c), Len(c.ref.data), memory)
     ELSE Flushed(FlushWrite(c, memory))

\* skip_relative: through the file below while writing, through skip else.
SkipsRelative(c, x, memory) ==
  LET Moved(f) == [f EXCEPT !.ref = SkipBy(@, x), !.current_position = SkipBy(f.ref, x).pos]
      Flushed(f) == IF f.err # "none" THEN {[c |-> f, said |-> f.err]}
                    ELSE {[c |-> Moved(f),
                           said |-> IF CanSkipBy(f.ref, x) THEN "true" ELSE "false"]}
  IN IF ~c.read_mode THEN Flushed(FlushWrite(c, memory))
     ELSE IF c.current_position + x >= 0 THEN Skips(c, c.current_position + x, memory)
     ELSE {[s EXCEPT !.said = "false"] :
             s \in Skips([c EXCEPT !.current_position = 0], 0, memory)}

-----------------------------------------------------------------------------
Init == \E m \in Mode, bytes \in Contents, shift \in BOOLEAN :
          /\ cache = [New(m, Opened(bytes)) EXCEPT !.shifted_mode = shift]
          /\ answer = Said("none")

\* An exception leaves the object alive: it is still asked to flush.
Caught(c) == [c EXCEPT !.err = "none"]

\* generic_file::read and write refuse what the mode does not allow.
Read(n) ==
  IF cache.mode = "write_only" THEN answer' = Said("Erange") /\ UNCHANGED cache
  ELSE \E memory \in Memory :
         LET r == InheritedRead(cache, n, memory)
         IN /\ cache' = Caught(r.cache)
            /\ answer' = IF r.cache.err = "none" THEN Gave(r.got) ELSE Said(r.cache.err)

Write(s) ==
  IF cache.mode = "read_only" THEN answer' = Said("Erange") /\ UNCHANGED cache
  ELSE \E memory \in Memory :
         LET w == InheritedWrite(cache, s, memory)
         IN /\ cache' = Caught(w)
            /\ answer' = Said(IF w.err = "none" THEN "done" ELSE w.err)

SkipTaken(results) ==
  \E s \in results : cache' = Caught(s.c) /\ answer' = Said(s.said)
Skip(pos) == \E memory \in Memory : SkipTaken(Skips(cache, pos, memory))
SkipToEof == \E memory \in Memory : SkipTaken(SkipsToEof(cache, memory))
SkipRelative(x) == \E memory \in Memory : SkipTaken(SkipsRelative(cache, x, memory))

\* sync_write and terminate.
SyncWrite ==
  IF cache.mode = "read_only" THEN answer' = Said("Erange") /\ UNCHANGED cache
  ELSE \E memory \in Memory :
         LET f == FlushWrite(cache, memory)
         IN /\ cache' = Caught(f)
            /\ answer' = Said(IF f.err = "none" THEN "done" ELSE f.err)

Next == \/ \E n \in 1..MaxRead : Read(n)
        \/ \E s \in Chunk : cache.current_position + Len(s) <= MaxSkip /\ Write(s)
        \/ \E pos \in 0..MaxSkip : Skip(pos)
        \/ SkipToEof
        \/ \E x \in (-MaxSkip)..MaxSkip :
              /\ cache.current_position + x <= MaxSkip
              /\ MayMissStart \/ cache.current_position + x >= 0
              /\ SkipRelative(x)
        \/ SyncWrite

Spec == Init /\ [][Next]_vars

-----------------------------------------------------------------------------
\* What a user of the cache should see: the file below with the pending bytes
\* laid over it, at the position of the cache.
Visible ==
  IF cache.read_mode \/ cache.mode = "read_only" THEN cache.ref.data
  ELSE AfterWrite(cache.ref, cache.buffer).data

Promise == INSTANCE GenericFile
             WITH mode <- cache.mode, content <- Visible,
                  position <- cache.current_position,
                  stored <- cache.ref.data, answer <- answer

\* The cache is a file: whatever the sizes of the buffer, the failures of
\* memory and the order of the calls, bytes are read and written where the
\* caller stands, and nothing is pending once it was synchronised
\* (cache::inherited_read, inherited_write, flush_write, skip).
CacheIsAFile == Promise!Spec
=============================================================================
