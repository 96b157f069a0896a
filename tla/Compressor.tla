----------------------------- MODULE Compressor -----------------------------
(***************************************************************************)
(* Class compressor: data is compressed and written below as it comes, one *)
(* stream after another, each of which is later read from where it starts. *)
(* The libraries are external: zlib and bzip2 keep what they were given as *)
(* long as they like and then an end of stream, lzo makes blocks.  A token *)
(* of the file below is a byte or a mark of the format.                    *)
(***************************************************************************)
EXTENDS PlainFile

CONSTANTS MaxRead, Chunk,  \* the calls
          MaxStreams,      \* streams in the file
          MaxStream,       \* bytes of a stream
          Algorithms,      \* among "none", "gzip" and "lzo"
          BufferSize,      \* tokens read from below at once
          ClearBufferSize  \* LZO_CLEAR_BUFFER_SIZE

VARIABLES comp,    \* the compressor
          archive, \* the bytes below, once they are all written
          streams, \* what was written, with where it starts and ends below
          cursor,  \* which stream is read, how far, how much was asked for
          answer

vars == <<comp, archive, streams, cursor, answer>>

EndOfStream == 20 \* of zlib and bzip2
LzoBlock == 21    \* BLOCK_HEADER_LZO, before the size and the block
LzoEof == 22      \* BLOCK_HEADER_EOF, before a null size

\* init
New(algo, file) ==
  [mode |-> "read_only", algo |-> algo, compressed |-> file,
   pending |-> <<>>,          \* in the engine, or lzo_write_buffer
   total_in |-> 0,            \* given to the engine since it was reset
   lzo_write_flushed |-> TRUE,
   buffer |-> <<>>,           \* decompr->buffer: what was read ahead
   finished |-> FALSE,        \* the engine met the end of the stream
   lzo_read_buffer |-> <<>>, lzo_read_reached_eof |-> FALSE,
   err |-> "none"]

Below(c, s) == [c EXCEPT !.compressed = AfterWrite(@, s)]

\* lzo_compress_buffer_and_write
LzoBlockWritten(c) ==
  [Below(c, <<LzoBlock, Len(c.pending)>> \o c.pending) EXCEPT !.pending = <<>>]

\* lzo_write: a block each time the buffer is full.
LzoWrite(c, s) ==
  LET written[k \in 0..Len(s)] ==
        IF k = 0 THEN [c EXCEPT !.lzo_write_flushed = FALSE]
        ELSE LET d == [written[k - 1] EXCEPT !.pending = Append(@, s[k])]
             IN IF Len(d.pending) = ClearBufferSize THEN LzoBlockWritten(d) ELSE d
  IN written[Len(s)]

\* none_write, gzip_write, lzo_write: the states they may lead to.
Writes(c, s) ==
  CASE c.algo = "none" -> {Below(c, s)}
    [] c.algo = "lzo" -> {LzoWrite(c, s)}
    [] c.algo = "gzip" ->
         LET given == c.pending \o s
         IN {[Below(c, SubSeq(given, 1, n)) EXCEPT
                !.pending = SubSeq(given, n + 1, Len(given)), !.total_in = @ + Len(s)] :
               n \in 0..Len(given)}

\* Faulty: the end of the stream is not written.
FlushWithoutTheEnd(c) == [Below(c, c.pending) EXCEPT !.pending = <<>>, !.total_in = 0]

\* flush_write: the end of the stream, when there is one.
FlushWrite(c) ==
  CASE c.algo = "gzip" /\ c.total_in # 0 ->
         [Below(c, Append(c.pending, EndOfStream)) EXCEPT !.pending = <<>>, !.total_in = 0]
    [] c.algo = "lzo" /\ ~c.lzo_write_flushed ->
         [Below(LzoBlockWritten(c), <<LzoEof, 0>>) EXCEPT !.lzo_write_flushed = TRUE]
    [] c.algo = "none" \/ (c.algo = "gzip" /\ c.total_in = 0)
       \/ (c.algo = "lzo" /\ c.lzo_write_flushed) -> c

\* flush_read and clean_read
FlushRead(c) == [c EXCEPT !.finished = FALSE, !.lzo_read_reached_eof = FALSE]
CleanRead(c) == [c EXCEPT !.buffer = <<>>, !.lzo_read_buffer = <<>>]

\* change_algo: what is pending is flushed by the engine that goes.
ChangeAlgo(c, algo) ==
  IF algo = c.algo THEN c
  ELSE [New(algo, FlushWrite(c).compressed) EXCEPT !.mode = c.mode]

\* skip
Skipped(c, pos) ==
  [CleanRead(FlushRead(FlushWrite(c))) EXCEPT !.compressed = SkipTo(@, pos)]

\* gzip_read: tokens are read by whole buffers and consumed one by one.  The
\* libraries take the end of the stream as soon as they are given it, even when
\* the caller has all it asked for.
GzipTurn(r, n) ==
  LET c == r.c
      fed == IF c.buffer # <<>> THEN c
             ELSE [c EXCEPT !.buffer = ReadBytes(c.compressed, BufferSize),
                            !.compressed = AfterRead(@, BufferSize)]
      used == [fed EXCEPT !.buffer = Tail(@)]
      full == Len(r.got) = n
  IN IF c.finished \/ fed.buffer = <<>> \/ (full /\ c.buffer = <<>>) THEN r
     ELSE IF full /\ Head(fed.buffer) # EndOfStream THEN r
     ELSE IF Head(fed.buffer) = EndOfStream THEN [r EXCEPT !.c = [used EXCEPT !.finished = TRUE]]
     ELSE [c |-> used, got |-> Append(r.got, Head(fed.buffer))]

\* lzo_read and lzo_read_and_uncompress_to_buffer
LzoTurn(r, n) ==
  LET c == r.c
      take == SubSeq(c.lzo_read_buffer, 1, Least(n - Len(r.got), Len(c.lzo_read_buffer)))
      header == ReadBytes(c.compressed, 2)
      behind == AfterRead(c.compressed, 2)
      coherent == Len(header) = 2 /\ header[1] \in {LzoBlock, LzoEof}
      size == header[2]
  IN IF Len(r.got) = n \/ c.lzo_read_reached_eof \/ c.err # "none" THEN r
     ELSE IF take # <<>>
     THEN [c |-> [c EXCEPT !.lzo_read_buffer = SubSeq(@, Len(take) + 1, Len(@))],
           got |-> r.got \o take]
     ELSE IF ~coherent THEN [r EXCEPT !.c.err = "Erange"]
     ELSE [r EXCEPT !.c.lzo_read_buffer = ReadBytes(behind, size),
                      !.c.compressed = AfterRead(behind, size),
                      !.c.lzo_read_reached_eof = size = 0]

InheritedRead(c, n) ==
  LET turn[k \in 0..(2 * n + 2)] ==
        IF k = 0 THEN [c |-> c, got |-> <<>>]
        ELSE IF c.algo = "gzip" THEN GzipTurn(turn[k - 1], n) ELSE LzoTurn(turn[k - 1], n)
  IN IF c.algo = "none"
     THEN [c |-> [c EXCEPT !.compressed = AfterRead(@, n)], got |-> ReadBytes(c.compressed, n)]
     ELSE turn[2 * n + 2]

-----------------------------------------------------------------------------
NoCursor == [stream |-> 0, at |-> 0, asked |-> 0]
Empty(algo, pos) == [algo |-> algo, start |-> pos, end |-> pos, bytes |-> <<>>]

Init == /\ \E algo \in Algorithms :
             /\ comp = [New(algo, Opened(<<>>)) EXCEPT !.mode = "write_only"]
             /\ streams = <<Empty(algo, 0)>>
        /\ archive = <<>>
        /\ cursor = NoCursor
        /\ answer = Said("none")

Writing == comp.mode = "write_only"
Current == streams[Len(streams)]

Write(s) == /\ Writing
            /\ Len(Current.bytes) + Len(s) <= MaxStream
            /\ comp' \in Writes(comp, s)
            /\ streams' = [streams EXCEPT ![Len(streams)].bytes = @ \o s]
            /\ answer' = Said("done")
            /\ UNCHANGED <<archive, cursor>>

\* sync_write behind the data of an entry; the next one may want another
\* algorithm.  An entry without data has no stream (file::get_data).
NextEntry(algo) ==
  /\ Writing
  /\ Len(streams) < MaxStreams
  /\ Current.bytes # <<>>
  /\ LET flushed == FlushWrite(comp)
         pos == flushed.compressed.pos
     IN /\ comp' = ChangeAlgo(flushed, algo)
        /\ streams' = Append([streams EXCEPT ![Len(streams)].end = pos], Empty(algo, pos))
  /\ answer' = Said("done")
  /\ UNCHANGED <<archive, cursor>>

\* terminate
Close == /\ Writing
         /\ LET flushed == FlushWrite(comp)
            IN /\ comp' = New(comp.algo, Opened(flushed.compressed.data))
               /\ archive' = flushed.compressed.data
               /\ streams' = [streams EXCEPT ![Len(streams)].end = flushed.compressed.pos]
         /\ answer' = Said("done")
         /\ UNCHANGED cursor

Reading == comp.mode = "read_only"
At(k) == [NoCursor EXCEPT !.stream = k]

\* What the layer below lets read of an entry: a tronc, or up to the next mark.
Part(k) == [data |-> SubSeq(archive, 1, streams[k].end), pos |-> streams[k].start]

\* file::get_data: a compressor of its own on the part that holds the data.
GetData(k) ==
  /\ Reading /\ streams[k].bytes # <<>>
  /\ comp' = New(streams[k].algo, Part(k))
  /\ cursor' = At(k) /\ answer' = Said("done")
  /\ UNCHANGED <<archive, streams>>

\* inode::get_ea: the compressor of the archive is put at the EA, over an escape
\* layer or not.
SkipToStream(k) ==
  /\ Reading /\ streams[k].bytes # <<>>
  /\ streams[k].algo = comp.algo /\ comp.algo # "none"
  /\ \E seen \in {archive, Part(k).data} :
       comp' = Skipped([comp EXCEPT !.compressed.data = seen], streams[k].start)
  /\ cursor' = At(k) /\ answer' = Said("true")
  /\ UNCHANGED <<archive, streams>>

\* An archive read as it comes: once a stream was read, the escape layer goes
\* behind the mark that follows it, and flush_read alone is called.
GoOn == LET k == cursor.stream
        IN /\ Reading /\ k \in 1..(Len(streams) - 1)
           /\ cursor.at = Len(streams[k].bytes) /\ comp.compressed.data = Part(k).data
           /\ streams[k + 1].bytes # <<>> /\ streams[k + 1].algo = comp.algo
           /\ comp.algo # "none"
           /\ comp' = [FlushRead(comp) EXCEPT !.compressed = Part(k + 1)]
           /\ cursor' = At(k + 1) /\ answer' = Said("done")
           /\ UNCHANGED <<archive, streams>>

Read(n) ==
  /\ Reading /\ cursor.stream # 0
  /\ LET r == InheritedRead(comp, n)
     IN /\ comp' = r.c
        /\ answer' = IF r.c.err = "none" THEN Gave(r.got) ELSE Said(r.c.err)
        /\ cursor' = [cursor EXCEPT !.at = @ + Len(r.got), !.asked = n]
  /\ UNCHANGED <<archive, streams>>

Next == \/ \E s \in Chunk : Write(s)
        \/ \E algo \in Algorithms : NextEntry(algo)
        \/ Close
        \/ \E k \in 1..Len(streams) : GetData(k) \/ SkipToStream(k)
        \/ GoOn
        \/ \E n \in 1..MaxRead : Read(n)

Spec == Init /\ [][Next]_vars

-----------------------------------------------------------------------------
\* Every stream reads as it was written, without an exception, up to its end
\* and not further, whatever was read ahead and whatever is stored around it
\* (compressor::gzip_read, lzo_read, flush_write, flush_read, change_algo).
StreamsAreKept ==
  /\ answer # Said("Erange")
  /\ answer.is = "bytes" =>
       answer.bytes = BytesAt(streams[cursor.stream].bytes,
                              cursor.at - Len(answer.bytes), cursor.asked)
=============================================================================
