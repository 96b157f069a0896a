----------------------------- MODULE RemoteFile -----------------------------
(***************************************************************************)
(* Classes zapette and slave_zapette: dar reads an archive that dar_slave  *)
(* holds, through a pipe of requests and a pipe of answers.  The two are   *)
(* processes; a call of zapette is one or more requests, each followed by  *)
(* the wait for its answer.                                                *)
(***************************************************************************)
EXTENDS PlainFile, SequencesExt

CONSTANTS MaxRead, MaxSkip, \* the calls
          Bytes, MaxSize, \* what the archive may hold, and how much
          MaxPiece,   \* the most bytes a request may ask for: max_short
          Serials     \* values of the serial number: those of a char

Byte == 0..255

ASSUME BoundsAreNumbers == MaxRead \in Nat /\ MaxSkip \in Nat
ASSUME ArchivesAreBytes == Bytes \subseteq Byte /\ MaxSize \in Nat
ASSUME PiecesAreNotEmpty == MaxPiece \in Nat \ {0}
ASSUME SerialsComeRound == Serials \in Nat \ {0}

VARIABLES master,   \* the zapette object
          slave,    \* the slave_zapette object
          requests, \* bytes in the pipe to dar_slave
          answers,  \* bytes in the pipe back
          answer    \* what the last call of the file returned

vars == <<master, slave, requests, answers, answer>>

\* REQUEST_SIZE_SPECIAL_ORDER, and the orders given by the offset.
Special == 0
EndTransmit == 0
GetFileSize == 1
ChangeContextStatus == 2
IsOldStartEndArchive == 3
GetDataName == 4
Orders == {ChangeContextStatus, IsOldStartEndArchive, GetDataName}

Request(m, size, offset) == [serial |-> m.serial, size |-> size, offset |-> offset]
DataAnswer(serial, bytes) == [serial |-> serial, type |-> "D", bytes |-> bytes, arg |-> 0]
NumberAnswer(serial, n) == [serial |-> serial, type |-> "I", bytes |-> <<>>, arg |-> n]

\* make_transfert, up to the wait for the answer.
Asking(m, size, offset) ==
  /\ requests' = Append(requests, Request(m, size, offset))
  /\ master' = [m EXCEPT !.sent = m.serial, !.serial = (@ + 1) % Serials]

-----------------------------------------------------------------------------
(* The slave answers the requests in their order.                          *)

\* Faulty: the offset asked for is ignored.
DataSentFromHere(src, request) ==
  {[src |-> AfterRead(src, request.size), bytes |-> ReadBytes(src, request.size)]}

\* The data asked for; an archive may refuse to be put at its end, and then
\* the answer is empty.
DataSent(src, request) ==
  LET there == SkipTo(src, request.offset)
  IN {[src |-> AfterRead(there, request.size), bytes |-> ReadBytes(there, request.size)]}
     \cup (IF request.offset < Len(src.data) THEN {}
           ELSE {[src |-> SkipToEnd(src), bytes |-> <<>>]})

\* Faulty: the answers to orders carry no serial number.
OrderAnswerWithoutSerial(src, request) ==
  IF request.offset = GetFileSize THEN NumberAnswer(request.serial, Len(src.data))
  ELSE DataAnswer(0, <<>>)

OrderAnswer(src, request) ==
  CASE request.offset = EndTransmit -> DataAnswer(request.serial, <<>>)
    [] request.offset = GetFileSize -> NumberAnswer(request.serial, Len(src.data))
    [] request.offset = ChangeContextStatus -> NumberAnswer(request.serial, 1)
    [] request.offset = IsOldStartEndArchive ->
         NumberAnswer(request.serial, IF slave.old THEN 1 ELSE 0)
    [] request.offset = GetDataName -> DataAnswer(request.serial, slave.data_name)

\* One turn of the loop of slave_zapette::action.
SlaveTurn ==
  LET request == Head(requests)
  IN /\ slave.state = "serving"
     /\ requests # <<>>
     /\ requests' = Tail(requests)
     /\ \/ /\ request.size # Special
           /\ \E sent \in DataSent(slave.src, request) :
                /\ answers' = Append(answers, DataAnswer(request.serial, sent.bytes))
                /\ slave' = [slave EXCEPT !.src = sent.src]
        \/ /\ request.size = Special
           /\ answers' = Append(answers, OrderAnswer(slave.src, request))
           /\ slave' = [slave EXCEPT
                          !.state = IF request.offset = EndTransmit THEN "ended" ELSE @,
                          !.src = IF request.offset = GetFileSize THEN SkipToEnd(@) ELSE @]
     /\ UNCHANGED <<master, answer>>

\* An exception met while reading the archive ends dar_slave without an answer.
SlaveFails ==
  /\ slave.state = "serving"
  /\ requests # <<>> /\ Head(requests).size # Special
  /\ slave' = [slave EXCEPT !.state = "failed"]
  /\ UNCHANGED <<master, requests, answers, answer>>

-----------------------------------------------------------------------------
Idle == master.call = "none"

Contents == UNION {[1..n -> Bytes] : n \in 0..MaxSize}

\* The constructor asks for the size of the archive.
Init == /\ \E bytes \in Contents, old \in BOOLEAN :
             slave = [state |-> "serving", src |-> Opened(bytes), old |-> old,
                      data_name |-> <<7>>]
        /\ \E by_the_end \in BOOLEAN :
             master = [call |-> "size", by_the_end |-> by_the_end, order |-> 0,
                       position |-> 0, file_size |-> 0, size |-> 0, got |-> <<>>,
                       serial |-> 1, sent |-> 0]
        /\ requests = <<[serial |-> 0, size |-> Special, offset |-> GetFileSize]>>
        /\ answers = <<>>
        /\ answer = Said("none")

\* inherited_read asks for its bytes by pieces.
Read(n) == /\ Idle
           /\ Asking([master EXCEPT !.call = "read", !.size = n],
                     Least(n, MaxPiece), master.position)
           /\ UNCHANGED <<slave, answers, answer>>

\* set_info_status, is_an_old_start_end_archive, get_data_name.
Order(order) == /\ Idle
                /\ Asking([master EXCEPT !.call = "order", !.order = order], Special, order)
                /\ UNCHANGED <<slave, answers, answer>>

\* inherited_terminate
Terminate == /\ Idle
             /\ Asking([master EXCEPT !.call = "end"], Special, EndTransmit)
             /\ UNCHANGED <<slave, answers, answer>>

Moved(pos, ok) == /\ master' = [master EXCEPT !.position = pos]
                  /\ answer' = Said(IF ok THEN "true" ELSE "false")
                  /\ UNCHANGED <<slave, requests, answers>>

\* skip, skip_to_eof and skip_relative know the size and ask nothing.
Skip(pos) == Idle /\ Moved(Least(pos, master.file_size), pos < master.file_size)
SkipToEof == Idle /\ Moved(master.file_size, TRUE)
SkipRelative(x) ==
  /\ Idle
  /\ LET there == master.position + x
     IN Moved(Greatest(0, Least(there, master.file_size)),
              0 <= there /\ there <= master.file_size)

\* The end of inherited_read: nothing more to ask for, or nothing more given.
ReadAnswered(a) ==
  LET m == [master EXCEPT !.got = @ \o a.bytes, !.position = @ + Len(a.bytes)]
      left == m.size - Len(m.got)
  IN /\ master.call = "read"
     /\ \/ /\ left > 0 /\ a.bytes # <<>>
           /\ Asking(m, Least(left, MaxPiece), m.position)
           /\ UNCHANGED answer
        \/ /\ left = 0 \/ a.bytes = <<>>
           /\ master' = [m EXCEPT !.call = "none", !.size = 0, !.got = <<>>]
           /\ answer' = Gave(m.got)
           /\ UNCHANGED requests

SizeAnswered(a) ==
  /\ master.call = "size"
  /\ master' = [master EXCEPT !.call = "none", !.file_size = a.arg,
                              !.position = IF master.by_the_end THEN a.arg ELSE 0]
  /\ UNCHANGED <<requests, answer>>

OrderAnswered(a) ==
  /\ master.call = "order"
  /\ a.type = IF master.order = GetDataName THEN "D" ELSE "I"
  /\ master' = [master EXCEPT !.call = "none", !.order = 0]
  /\ UNCHANGED <<requests, answer>>

EndAnswered == /\ master.call = "end"
               /\ master' = [master EXCEPT !.call = "closed"]
               /\ UNCHANGED <<requests, answer>>

\* make_transfert: an answer to another request would be dropped, after the
\* user was told of it.
Answered == LET a == Head(answers)
            IN /\ ~Idle /\ answers # <<>> /\ a.serial = master.sent
               /\ answers' = Tail(answers)
               /\ UNCHANGED slave
               /\ ReadAnswered(a) \/ SizeAnswered(a) \/ OrderAnswered(a) \/ EndAnswered

\* answer::read does not see that the pipe was closed: its fields are what the
\* memory held.  The type is not one of the two, which is an exception, or it
\* is the one of a number, which fails on the closed pipe, or it is the one of
\* data, and then the size is waited for in an endless loop.
Misled == /\ master.call \notin {"none", "closed", "lost"}
          /\ answers = <<>> /\ slave.state = "failed"
          /\ \E outcome \in {"closed", "lost"} :
               master' = [master EXCEPT !.call = outcome]
          /\ UNCHANGED <<slave, requests, answers, answer>>

Next == \/ SlaveTurn
        \/ SlaveFails
        \/ \E n \in 1..MaxRead : Read(n)
        \/ \E order \in Orders : Order(order)
        \/ Terminate
        \/ \E pos \in 0..MaxSkip : Skip(pos)
        \/ SkipToEof
        \/ \E x \in (-MaxSkip)..MaxSkip : SkipRelative(x)
        \/ Answered
        \/ Misled

\* Both processes run; nothing makes the caller ask anything.
Fairness == WF_vars(SlaveTurn) /\ WF_vars(Answered)

Spec == Init /\ [][Next]_vars /\ Fairness

-----------------------------------------------------------------------------
\* Where the caller stands: a read that is not finished did not move it yet.
Position == master.position - (IF master.call = "read" THEN Len(master.got) ELSE 0)

File == INSTANCE GenericFile
          WITH mode <- "read_only", content <- slave.src.data, position <- Position,
               stored <- slave.src.data, answer <- answer, Chunk <- {}

\* The constructor puts the file at the place the caller asked for.
Placed == /\ master.call = "size" /\ master'.call = "none"
          /\ Position' = IF master.by_the_end THEN Len(slave.src.data) ELSE 0
          /\ UNCHANGED answer

\* However the reads are cut into requests, and however late dar_slave is, the
\* archive reads from here as it does there (zapette::inherited_read, skip,
\* make_transfert, slave_zapette::action).
RemoteIsAFile == [][File!Next \/ Placed \/ slave.state = "failed"]_<<answer, Position>>

\* A call returns as long as dar_slave can read the archive, and the last one
\* ends dar_slave too (zapette::make_transfert, inherited_terminate).
CallsReturn == []<>\/ Idle
                   \/ master.call = "closed" /\ slave.state = "ended"
                   \/ slave.state = "failed"
=============================================================================
