------------------------------- MODULE Tronc -------------------------------
(***************************************************************************)
(* Class tronc: the part of a file that holds the data of one entry, read  *)
(* as a file of its own.  The file below is shared by all the entries of   *)
(* an archive, and others move it between two calls.                       *)
(***************************************************************************)
EXTENDS PlainFile

CONSTANTS MaxRead, MaxSkip,
          Archive, \* the bytes of the file below
          Starts,  \* where parts start
          Sizes    \* their sizes

VARIABLES tronc, answer

vars == <<tronc, answer>>

\* The constructors: with a size, or up to the end of the file below.
Limited(f, offset, size) ==
  [ref |-> f, start |-> offset, sz |-> size, limited |-> TRUE, current |-> size]
Unlimited(f, offset) ==
  [ref |-> f, start |-> offset, sz |-> 0, limited |-> FALSE, current |-> 0]

Moved(t, pos) == [t EXCEPT !.ref = SkipTo(@, t.start + pos), !.current = pos]

Skipped(t, pos) ==
  IF t.current = pos THEN [t |-> t, ok |-> TRUE]
  ELSE IF t.limited /\ pos > t.sz THEN [t |-> Moved(t, t.sz), ok |-> FALSE]
  ELSE [t |-> Moved(t, pos), ok |-> TRUE]

\* skip_to_eof and set_back_current_position
SkippedToEof(t) ==
  IF t.limited THEN Moved(t, t.sz)
  ELSE [t EXCEPT !.ref = SkipToEnd(@), !.current = Len(t.ref.data) - t.start]

\* skip_relative moves the file below from where that file stands.
SkippedBy(t, x) ==
  IF x < 0 /\ t.current < -x THEN [t |-> Moved(t, 0), ok |-> FALSE]
  ELSE IF x > 0 /\ t.limited /\ t.current + x >= t.sz
  THEN [t |-> Moved(t, t.sz), ok |-> FALSE]
  ELSE IF x = 0 THEN [t |-> t, ok |-> TRUE]
  ELSE IF CanSkipBy(t.ref, x)
  THEN [t |-> [t EXCEPT !.ref = SkipBy(@, x), !.current = @ + x], ok |-> TRUE]
  ELSE [t |-> Moved(t, t.current), ok |-> FALSE]

\* Faulty: the position of the file below is trusted.
ReadWhereItStands(t, n) ==
  LET size == IF t.limited THEN Least(n, t.sz - t.current) ELSE n
      got == ReadBytes(t.ref, size)
  IN [got |-> got,
      t |-> [t EXCEPT !.ref = AfterRead(@, size), !.current = @ + Len(got)]]

\* inherited_read puts the file below where it should stand.
InheritedRead(t, n) ==
  LET there == SkipTo(t.ref, t.start + t.current)
      size == IF t.limited THEN Least(n, t.sz - t.current) ELSE n
      got == ReadBytes(there, size)
  IN [got |-> got,
      t |-> [t EXCEPT !.ref = AfterRead(there, size), !.current = @ + Len(got)]]

-----------------------------------------------------------------------------
\* file::get_data puts the new object at its first byte.
Init == /\ \E offset \in Starts :
             \/ \E size \in Sizes :
                  /\ offset + size <= Len(Archive)
                  /\ tronc = Skipped(Limited(Opened(Archive), offset, size), 0).t
             \/ tronc = Skipped(Unlimited(Opened(Archive), offset), 0).t
        /\ answer = Said("none")

Skip(pos) == LET s == Skipped(tronc, pos)
             IN tronc' = s.t /\ answer' = Said(IF s.ok THEN "true" ELSE "false")

SkipToEof == tronc' = SkippedToEof(tronc) /\ answer' = Said("true")

\* Backward only right after another call of this object: nothing in libdar
\* does otherwise.
SkipRelative(x) ==
  /\ x >= 0 \/ tronc.ref.pos = tronc.start + tronc.current
  /\ LET s == SkippedBy(tronc, x)
     IN tronc' = s.t /\ answer' = Said(IF s.ok THEN "true" ELSE "false")

Read(n) == LET r == InheritedRead(tronc, n)
           IN tronc' = r.t /\ answer' = Gave(r.got)

\* Another entry is read meanwhile.
Meanwhile(pos) == /\ tronc' = [tronc EXCEPT !.ref = SkipTo(@, pos)]
                  /\ UNCHANGED answer

Next == \/ \E pos \in 0..MaxSkip : Skip(pos)
        \/ SkipToEof
        \/ \E x \in (-MaxSkip)..MaxSkip : tronc.current + x <= MaxSkip /\ SkipRelative(x)
        \/ \E n \in 1..MaxRead : Read(n)
        \/ \E pos \in 0..Len(Archive) : Meanwhile(pos)

Spec == Init /\ [][Next]_vars

-----------------------------------------------------------------------------
Part == LET from == tronc.start
            to == IF tronc.limited THEN from + tronc.sz ELSE Len(tronc.ref.data)
        IN SubSeq(tronc.ref.data, from + 1, to)

Promise == INSTANCE GenericFile
             WITH mode <- "read_only", content <- Part, position <- tronc.current,
                  stored <- Part, answer <- answer, Chunk <- {}

\* The part of the archive that holds an entry reads as a file of its own,
\* wherever others left the file below (tronc::inherited_read, skip,
\* skip_to_eof, skip_relative).
PartIsAFile == Promise!Spec
=============================================================================
