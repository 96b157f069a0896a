---------------------------- MODULE GenericFile ----------------------------
(***************************************************************************)
(* What generic_file promises of every layer: a sequence of bytes, a       *)
(* position in it, and answers to the calls.  A layer that buffers may     *)
(* leave what it was given out of what is stored below it until the data   *)
(* is synchronised.                                                        *)
(***************************************************************************)
EXTENDS PlainFile

CONSTANTS MaxRead, \* bound on the bytes asked for at once
          MaxSkip, \* bound on the positions skipped to
          Chunk    \* what may be written in one call

VARIABLES mode,     \* "read_only", "write_only" or "read_write"
          content,  \* the bytes of the file
          position, \* where the next byte is read or written
          stored,   \* the bytes that reached the layer below
          answer    \* what the last call returned, or the exception it threw

vars == <<mode, content, position, stored, answer>>

Init == /\ content = stored
        /\ position = 0
        /\ answer = Said("none")

\* read: less than what is asked for means the end of file.
Read(n) ==
  /\ IF mode = "write_only"
     THEN answer' = Said("Erange") /\ UNCHANGED position
     ELSE /\ answer' = Gave(BytesAt(content, position, n))
          /\ position' = position + Len(answer'.bytes)
  /\ UNCHANGED <<mode, content>>

\* write: all the bytes, unless an exception tells that only some of them went.
Write(s) ==
  /\ IF mode = "read_only"
     THEN answer' = Said("Erange") /\ UNCHANGED <<content, position>>
     ELSE \E n \in 0..Len(s) :
            /\ \/ answer' = Said("done") /\ n = Len(s)
               \/ answer' = Said("Ememory")
            /\ content' = IF n = 0 THEN content
                          ELSE Overwritten(content, position, SubSeq(s, 1, n))
            /\ position' = position + n
  /\ UNCHANGED mode

\* skip: to the position asked for.  One that no byte is at may be refused, in
\* which case the file is left at its end or behind.
MovedTo(pos) ==
  \/ answer' = Said("true") /\ position' = pos
  \/ /\ pos >= Len(content)
     /\ answer' = Said("false") /\ position' >= Len(content)
Skip(pos) ==
  /\ \/ MovedTo(pos)
     \/ answer' = Said("Ememory") /\ UNCHANGED position
  /\ UNCHANGED <<mode, content>>
SkipToEof ==
  /\ \/ answer' = Said("true") /\ position' = Len(content)
     \/ answer' = Said("Ememory") /\ UNCHANGED position
  /\ UNCHANGED <<mode, content>>
SkipRelative(x) ==
  /\ \/ position + x >= 0 /\ MovedTo(position + x)
     \/ position + x < 0 /\ answer' = Said("false") /\ position' = 0
     \/ answer' = Said("Ememory") /\ UNCHANGED position
  /\ UNCHANGED <<mode, content>>

\* sync_write and terminate: nothing is pending afterwards.
Sync ==
  /\ \/ answer' = Said("Erange") /\ mode = "read_only" /\ UNCHANGED stored
     \/ answer' \in {Said("done"), Said("Ememory")} /\ stored' = content
  /\ UNCHANGED <<mode, content, position>>

\* copy_to, of a file that is then closed.
CopyTo == /\ mode = "read_only" /\ mode' = "closed"
          /\ answer' = Gave(BytesAt(content, position, Len(content)))
          /\ UNCHANGED <<content, position, stored>>

\* What was written is closed, and read from the start.
Reopen == /\ mode = "write_only" /\ mode' = "read_only"
          /\ stored' = content /\ position' = 0
          /\ answer' = Said("done")
          /\ UNCHANGED content

Next == \/ \E n \in 1..MaxRead : Read(n)
        \/ \E s \in Chunk : Write(s)
        \/ \E pos \in 0..MaxSkip : Skip(pos)
        \/ SkipToEof
        \/ \E x \in (-MaxSkip)..MaxSkip : SkipRelative(x)
        \/ Sync
        \/ CopyTo
        \/ Reopen

Spec == Init /\ [][Next]_vars
=============================================================================
