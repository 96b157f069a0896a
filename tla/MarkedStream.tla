---------------------------- MODULE MarkedStream ----------------------------
(***************************************************************************)
(* What class escape promises: bytes and marks in the order they were      *)
(* written; bytes are read up to the next mark, which is skipped to, asked *)
(* about or come back to, and never mistaken for bytes nor bytes for it.   *)
(***************************************************************************)
EXTENDS PlainFile

CONSTANTS MaxRead,    \* bound on the bytes asked for at once
          Chunk,      \* what may be written in one call
          Mark,       \* the types of marks
          Unjumpable  \* those that stop the search of another one

VARIABLES mode, stream, cursor, answer

vars == <<mode, stream, cursor, answer>>

\* A token of the stream is a byte or a mark.
Byte(b) == [is |-> "byte", value |-> b]
MarkOf(t) == [is |-> "mark", value |-> t]

Init == answer = Said("none")

Write(s) ==
  /\ mode = "write_only"
  /\ stream' = stream \o [i \in 1..Len(s) |-> Byte(s[i])]
  /\ answer' = Said("done")
  /\ UNCHANGED <<mode, cursor>>

AddMark(t) ==
  /\ mode = "write_only"
  /\ stream' = Append(stream, MarkOf(t))
  /\ answer' = Said("done")
  /\ UNCHANGED <<mode, cursor>>

\* The archive is closed, then opened for reading.
Reopen == /\ mode' = "read_only" /\ cursor' = 0
          /\ answer' = Said("done")
          /\ UNCHANGED stream

\* The places of the marks ahead of the cursor.
MarksAhead == {i \in (cursor + 1)..Len(stream) : stream[i].is = "mark"}
First(S, none) == IF S = {} THEN none ELSE CHOOSE i \in S : \A j \in S : i <= j

\* Fewer bytes than asked for means that a mark comes, or the end.
Read(n) ==
  LET ahead == First(MarksAhead, Len(stream) + 1) - 1 - cursor
      got == Least(n, ahead)
  IN /\ answer' = Gave([i \in 1..got |-> stream[cursor + i].value])
     /\ cursor' = cursor + got
     /\ UNCHANGED <<mode, stream>>

\* skip_to_next_mark: to behind the next mark of this type, unless one that may
\* not be jumped over comes before: then somewhere in the data this mark follows.
SkipToNextMark(t, jump) ==
  LET found == First({i \in MarksAhead : stream[i].value = t}, Len(stream) + 1)
      stop == First({i \in MarksAhead : /\ stream[i].value # t
                                        /\ ~jump \/ stream[i].value \in Unjumpable},
                    Len(stream) + 1)
  IN /\ answer' = Said(IF found < stop THEN "true" ELSE "false")
     /\ IF found < stop THEN cursor' = found
        ELSE /\ cursor' \in cursor..(stop - 1)
             /\ \A i \in MarksAhead : i <= cursor' \/ i >= stop
     /\ UNCHANGED <<mode, stream>>

\* next_to_read_is_mark
NextIsMark(t) ==
  /\ answer' = Said(IF cursor < Len(stream) /\ stream[cursor + 1] = MarkOf(t)
                    THEN "true" ELSE "false")
  /\ UNCHANGED <<mode, stream, cursor>>

\* skip, to where the catalogue says that a mark was just written.
SkipBehind(i) ==
  /\ stream[i].is = "mark"
  /\ answer' = Said("true")
  /\ cursor' = i
  /\ UNCHANGED <<mode, stream>>

Next == \/ \E s \in Chunk : Write(s)
        \/ \E t \in Mark : AddMark(t)
        \/ Reopen
        \/ /\ mode = "read_only"
           /\ \/ \E n \in 1..MaxRead : Read(n)
              \/ \E t \in Mark, jump \in BOOLEAN : SkipToNextMark(t, jump)
              \/ \E t \in Mark : NextIsMark(t)
              \/ \E i \in DOMAIN stream : SkipBehind(i)

Spec == Init /\ [][Next]_vars
=============================================================================
