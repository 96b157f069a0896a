----------------------------- MODULE SparseFile -----------------------------
(***************************************************************************)
(* Class sparse_file, a class escape whose only mark announces a hole: the *)
(* number of zeros that are not stored.  The data of one file is written   *)
(* through it while runs of zeros are looked for, in what is written at    *)
(* once and from one call to the next, and read or copied back.            *)
(***************************************************************************)
EXTENDS Escape

CONSTANTS HoleMark,   \* seqt_file, which announces a hole
          MinHole,    \* min_hole_size: no hole is shorter
          CrcWidth,   \* bytes of a CRC
          HidesHoles  \* whether copies write zeros for the holes

\* `escape' of module Escape is the inherited part of the object.
VARIABLES sparse, crc

sparseVars == <<escape, sparse, crc, answer>>

Sparse(e) == [e |-> e, mode |-> "normal", zero_count |-> 0, offset |-> 0]
NoCrc == [hidden |-> FALSE, sums |-> <<>>]

\* An integer of any size is written in front of what follows: one byte here.
Dump(n) == <<100 + n>>
Undump(s) == s[1] - 100

\* look_for_hole: the first run of zeros that is long enough; none has length 0.
LookForHole(s) ==
  LET runs == {r \in [start : 0..Len(s), length : (MinHole + 1)..Len(s)] :
                 /\ r.start + r.length <= Len(s)
                 /\ \A i \in (r.start + 1)..(r.start + r.length) : s[i] = Zero
                 /\ r.start = 0 \/ s[r.start] # Zero
                 /\ r.start + r.length = Len(s) \/ s[r.start + r.length + 1] # Zero}
  IN IF runs = {} THEN [start |-> 0, length |-> 0]
     ELSE CHOOSE r \in runs : \A q \in runs : r.start <= q.start

\* count_initial_zeros
InitialZeros(s) == CHOOSE n \in 0..Len(s) : /\ \A i \in 1..n : s[i] = Zero
                                            /\ n = Len(s) \/ s[n + 1] # Zero

WriteHole(o, n) ==
  [o EXCEPT !.e = InheritedWrite(AddMarkAtCurrentPosition(@, HoleMark), Dump(n))]

\* Faulty: the zeros that were pending do not move the offset.
DumpWithoutOffset(o) ==
  LET dumped == IF o.zero_count <= MinHole
                THEN [o EXCEPT !.e = InheritedWrite(@, Zeros(o.zero_count))]
                ELSE WriteHole(o, o.zero_count)
  IN [dumped EXCEPT !.zero_count = 0, !.mode = "normal"]

DumpPendingZeros(o) ==
  LET there == [o EXCEPT !.offset = @ + o.zero_count]
      dumped == IF o.zero_count <= MinHole
                THEN [there EXCEPT !.e = InheritedWrite(@, Zeros(o.zero_count))]
                ELSE WriteHole(there, o.zero_count)
  IN [dumped EXCEPT !.zero_count = 0, !.mode = "normal"]

\* The loop of inherited_write in mode normal.
RECURSIVE Scanned(_, _, _)
Scanned(o, a, written) ==
  LET To(rest, hole, before, next) ==
        IF hole.length = 0
        THEN [o EXCEPT !.e = InheritedWrite(@, rest), !.offset = @ + Len(a)]
        ELSE IF next < Len(a) THEN Scanned(WriteHole(before, hole.length), a, next)
        ELSE [before EXCEPT !.mode = "hole", !.zero_count = hole.length,
                            !.offset = @ + written + hole.start]
      At(rest, hole) == To(rest, hole, [o EXCEPT !.e = InheritedWrite(@, First(rest, hole.start))],
                           written + hole.start + hole.length)
      Rest(rest) == At(rest, LookForHole(rest))
  IN IF written = Len(a) THEN o ELSE Rest(From(a, written))

WrittenSparse(o, a) ==
  LET Zeroed(z) ==
        IF z = Len(a) THEN [o EXCEPT !.zero_count = @ + z]
        ELSE Scanned([DumpPendingZeros([o EXCEPT !.zero_count = @ + z]) EXCEPT !.offset = @ - z], a, z)
  IN IF o.mode = "normal" THEN Scanned(o, a, 0) ELSE Zeroed(InitialZeros(a))

\* inherited_sync_write
Synced(o) == IF o.mode = "hole" THEN DumpPendingZeros(o) ELSE o

-----------------------------------------------------------------------------
\* The mark of a hole and its length, if this is what is next.
HoleAhead(e) ==
  LET Length(r) == [e |-> r.e, length |-> Undump(r.got)]
      Marked(m) == IF m.type # HoleMark THEN [e |-> m.e, length |-> 0]
                  ELSE Length(InheritedRead(SkippedToNextMark(m.e, HoleMark, FALSE).e, 1))
  IN Marked(NextMark(e))

\* inherited_read
RECURSIVE ReadSparse(_, _)
ReadSparse(o, n) ==
  LET Joint(got, q) == [o |-> q.o, got |-> got \o q.got]
      Then(p, got) == Joint(got, ReadSparse(p, n - Len(got)))
      Data(r, data) ==
        IF Len(r.got) = n THEN [o |-> data, got |-> r.got]
        ELSE Then([data EXCEPT !.mode = "hole", !.zero_count = 0], r.got)
      Normal(r) == Data(r, [o EXCEPT !.e = r.e, !.offset = @ + Len(r.got)])
      Inside(k) == Then([o EXCEPT !.zero_count = @ - k, !.mode = IF k = o.zero_count THEN "normal" ELSE "hole"],
                        Zeros(k))
      Hole(hole) ==
        IF hole.length = 0 THEN [o |-> [o EXCEPT !.e = hole.e], got |-> <<>>]
        ELSE Then([o EXCEPT !.e = hole.e, !.zero_count = hole.length, !.offset = @ + hole.length], <<>>)
  IN IF n = 0 THEN [o |-> o, got |-> <<>>]
     ELSE IF o.mode = "normal" THEN Normal(InheritedRead(o.e, n))
     ELSE IF o.zero_count > 0 THEN Inside(Least(n, o.zero_count))
     ELSE Hole(HoleAhead(o.e))

\* Faulty: each call starts at the first cell.
ComputedFromFirstCell(sums, offset, s) ==
  [k \in DOMAIN sums |->
     LET added[i \in 0..Len(s)] ==
           IF i = 0 THEN sums[k]
           ELSE added[i - 1] + (IF (i - 1) % CrcWidth = k THEN s[i] ELSE 0)
     IN added[Len(s)]]

\* crc::compute adds each byte in the cell of its offset; the sum stands for
\* the exclusive or.
Computed(sums, offset, s) ==
  [k \in DOMAIN sums |->
     LET added[i \in 0..Len(s)] ==
           IF i = 0 THEN sums[k]
           ELSE added[i - 1] + (IF (offset + i - 1) % CrcWidth = k THEN s[i] ELSE 0)
     IN added[Len(s)]]
NoSums == [k \in 0..(CrcWidth - 1) |-> 0]

\* copy_to: holes are skipped over in the target, of which the last byte is
\* then written, or filled with zeros.
RECURSIVE Copied(_, _, _, _, _)
Copied(o, ref, sums, hides, afterSkip) ==
  LET Over(hole, there) ==
        Copied([o EXCEPT !.e = hole.e, !.offset = there], SkipTo(ref, there), sums, hides, TRUE)
      Hole(hole) ==
        IF hole.length = 0
        THEN [ref |-> IF afterSkip THEN AfterWrite(SkipBy(ref, -1), <<Zero>>) ELSE ref, sums |-> sums]
        ELSE IF hides
        THEN Copied([o EXCEPT !.e = hole.e], AfterWrite(ref, Zeros(hole.length)), sums, hides, afterSkip)
        ELSE Over(hole, o.offset + hole.length)
      Data(r) ==
        IF r.got = <<>> THEN Hole(HoleAhead(r.e))
        ELSE Copied([o EXCEPT !.e = r.e, !.offset = @ + Len(r.got)], AfterWrite(ref, r.got),
                    Computed(sums, o.offset, r.got), hides, FALSE)
  IN Data(InheritedRead(o.e, MaxSize))

-----------------------------------------------------------------------------
\* The bytes that the tokens of the stream stand for: a mark and a length are
\* as many zeros.
Expanded(tokens) ==
  LET rest[k \in 1..(Len(tokens) + 1)] ==
        IF k > Len(tokens) THEN <<>>
        ELSE IF tokens[k].is = "byte" THEN <<tokens[k].value>> \o rest[k + 1]
        ELSE Zeros(Undump(<<tokens[k + 1].value>>)) \o rest[k + 2]
  IN rest[1]

Stored == Expanded(Stream)
Visible == Stored \o Zeros(IF escape.mode = "write_only" THEN sparse.zero_count ELSE 0)

\* get_position
SparsePosition == IF escape.mode = "write_only" THEN sparse.offset + sparse.zero_count
                  ELSE sparse.offset - sparse.zero_count

Become(o) == /\ escape' = o.e
             /\ sparse' = [o EXCEPT !.e = <<>>]
Self == [sparse EXCEPT !.e = escape]

SparseInit == /\ escape = New("write_only", Opened(<<>>))
              /\ sparse = Sparse(<<>>)
              /\ crc = NoCrc
              /\ answer = Said("none")

WriteSparse(s) == /\ escape.mode = "write_only"
                  /\ Len(Visible) + Len(s) <= MaxSize
                  /\ Become(WrittenSparse(Self, s))
                  /\ answer' = Said("done")
                  /\ UNCHANGED crc

SyncSparse == /\ escape.mode = "write_only"
              /\ Become(Synced(Self)) /\ answer' = Said("done")
              /\ UNCHANGED crc

\* sync_write and terminate, as save_inode does; get_data on what it wrote.
ReopenSparse ==
  /\ escape.mode = "write_only"
  /\ MayEndAlike \/ Synced(Self).e.write_buffer = <<>>
  /\ Become(Sparse(New("read_only", Opened(FlushWrite(Synced(Self).e).below.data))))
  /\ answer' = Said("done")
  /\ UNCHANGED crc

BytesRead(n) == /\ escape.mode = "read_only"
                /\ LET r == ReadSparse(Self, n)
                   IN Become(r.o) /\ answer' = Gave(r.got)
                /\ UNCHANGED crc

CopyTo(hides) ==
  /\ escape.mode = "read_only"
  /\ Self = Sparse(New("read_only", Opened(escape.below.data)))
  /\ LET c == Copied(Self, Opened(<<>>), NoSums, hides, FALSE)
     IN /\ answer' = Gave(c.ref.data)
        /\ crc' = [hidden |-> hides, sums |-> c.sums]
  /\ escape' = [escape EXCEPT !.mode = "closed"]
  /\ UNCHANGED sparse

SparseNext == \/ \E s \in Chunk : WriteSparse(s)
              \/ SyncSparse
              \/ ReopenSparse
              \/ \E n \in 1..MaxRead : BytesRead(n)
              \/ \E hides \in HidesHoles : CopyTo(hides)

SparseSpec == SparseInit /\ [][SparseNext]_sparseVars

-----------------------------------------------------------------------------
File == INSTANCE GenericFile
          WITH mode <- escape.mode, content <- Visible, position <- SparsePosition,
               stored <- Stored, answer <- answer, MaxSkip <- 0

\* Whatever zeros the data holds, and however it is cut into calls, what is
\* read or copied back is what was written, at the position that is told
\* (sparse_file::inherited_write, inherited_read, copy_to, get_position).
SparseIsAFile == File!Spec

CrcOfData == Computed(NoSums, 0, Visible)

\* The CRC of a copy that restores holes is that of the bytes of the file,
\* which is what was computed when it was saved (sparse_file::copy_to).
RestoredDataMatchesCrc == crc.sums # <<>> /\ ~crc.hidden => crc.sums = CrcOfData
=============================================================================
