----------------------------- MODULE PlainFile -----------------------------
(***************************************************************************)
(* A file of the system behind its descriptor, as class fichier uses it:   *)
(* the bytes it holds and the offset of the next one.  The layers of an    *)
(* archive are stacked over such files.                                    *)
(***************************************************************************)
EXTENDS Integers, Sequences

\* What a hole of a file reads as.
Zero == 0

Opened(bytes) == [data |-> bytes, pos |-> 0]

\* What a call returns: bytes, or a word, of which the names of exceptions.
Said(word) == [is |-> word, bytes |-> <<>>]
Gave(bytes) == [is |-> "bytes", bytes |-> bytes]

Least(i, j) == IF i < j THEN i ELSE j
Greatest(i, j) == IF i < j THEN j ELSE i
Zeros(n) == [i \in 1..n |-> Zero]

\* fichier::inherited_read: all that is asked for, or what is left.
BytesAt(bytes, pos, n) == SubSeq(bytes, pos + 1, Least(pos + n, Len(bytes)))
ReadBytes(f, n) == BytesAt(f.data, f.pos, n)
AfterRead(f, n) == [f EXCEPT !.pos = @ + Len(ReadBytes(f, n))]

\* fichier::inherited_write: bytes are replaced, and a gap left by a skip
\* behind the end is filled.
Overwritten(bytes, pos, s) ==
  LET gap == Zeros(Greatest(0, pos - Len(bytes)))
  IN SubSeq(bytes, 1, Least(pos, Len(bytes))) \o gap \o s
       \o SubSeq(bytes, pos + Len(s) + 1, Len(bytes))
AfterWrite(f, s) ==
  IF s = <<>> THEN f
  ELSE [data |-> Overwritten(f.data, f.pos, s), pos |-> f.pos + Len(s)]

\* fichier::skip and skip_to_eof: lseek goes behind the end as well.
SkipTo(f, pos) == [f EXCEPT !.pos = pos]
SkipToEnd(f) == [f EXCEPT !.pos = Len(f.data)]

\* fichier::skip_relative: backward at most to the start, which is a failure.
CanSkipBy(f, x) == f.pos + x >= 0
SkipBy(f, x) == [f EXCEPT !.pos = Greatest(0, @ + x)]
=============================================================================
