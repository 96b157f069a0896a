-------------------------- MODULE RemoteFileProofs --------------------------
(***************************************************************************)
(* That an archive read through dar_slave reads as it does there, for any  *)
(* archive, any size of the calls and any cut of the reads into requests.  *)
(*                                                                         *)
(* The argument: at most one request is under way, and it is the one the   *)
(* call that waits has made (OneAtATime); what a read has got so far is    *)
(* what the archive holds from where the read began (Gathered).  A read    *)
(* that ends, because all was given or because the last answer was empty,  *)
(* then gives what GenericFile asks for.                                   *)
(***************************************************************************)
EXTENDS RemoteFile, SequenceTheorems, TLAPS

Data == slave.src.data

Calls == {"none", "size", "read", "order", "end", "closed", "lost"}
RequestSet == [serial : Int, size : Nat, offset : Nat]
AnswerSet == [serial : Int, type : {"D", "I"}, bytes : Seq(Byte), arg : Nat]

TypeOK ==
  /\ slave \in [state : {"serving", "ended", "failed"},
                src : [data : Seq(Byte), pos : Nat], old : BOOLEAN, data_name : Seq(Byte)]
  /\ master \in [call : Calls, by_the_end : BOOLEAN, order : Orders \cup {0},
                 position : Nat, file_size : Nat, size : Nat, got : Seq(Byte),
                 serial : Int, sent : Int]
  /\ requests \in Seq(RequestSet) /\ answers \in Seq(AnswerSet)

\* The size is known and the position is in the file, as soon as a call is made.
Sized == master.call \in {"none", "read", "order", "end"} =>
           /\ master.file_size = Len(Data)
           /\ master.position <= Len(Data)

\* What a read has got is what the archive holds where the read began.
Gathered ==
  /\ master.call \notin {"read", "closed", "lost"} => master.got = <<>>
  /\ master.call = "read" =>
       /\ master.size <= MaxRead
       /\ Len(master.got) < master.size
       /\ Len(master.got) <= master.position
       /\ master.got = BytesAt(Data, master.position - Len(master.got), Len(master.got))

\* How much the request under way asks for.
Piece == Least(master.size - Len(master.got), MaxPiece)

Asked(r) ==
  CASE master.call = "size" -> r.size = Special /\ r.offset = GetFileSize
    [] master.call = "read" -> r.size = Piece /\ r.offset = master.position
    [] master.call = "order" -> r.size = Special /\ r.offset \in Orders
    [] master.call = "end" -> r.size = Special /\ r.offset = EndTransmit

Answers(a) ==
  CASE master.call = "size" -> a.arg = Len(Data)
    [] master.call = "read" -> a.bytes = BytesAt(Data, master.position, Piece)
    [] OTHER -> TRUE

\* A request is under way exactly when a call waits, and it is the one made.
OneAtATime ==
  /\ Idle => requests = <<>> /\ answers = <<>>
  /\ master.call \in {"size", "read", "order", "end"} =>
       \/ /\ Len(requests) = 1 /\ answers = <<>>
          /\ Asked(requests[1])
       \/ /\ requests = <<>> /\ Len(answers) = 1
          /\ Answers(answers[1])
  /\ master.call \in {"closed", "lost"} => requests = <<>> \/ slave.state = "failed"

IInv == TypeOK /\ Sized /\ Gathered /\ OneAtATime

-----------------------------------------------------------------------------
(* Reading bytes *)

\* The bytes of a file from a position: how many there are, and which.
LEMMA BytesAtProperties ==
  ASSUME NEW S, NEW d \in Seq(S), NEW pos \in Nat, NEW n \in Nat
  PROVE  /\ BytesAt(d, pos, n) \in Seq(S)
         /\ Len(BytesAt(d, pos, n)) = IF pos <= Len(d) THEN Least(n, Len(d) - pos) ELSE 0
         /\ \A i \in 1..Len(BytesAt(d, pos, n)) : BytesAt(d, pos, n)[i] = d[pos + i]
<1>1. Len(d) \in Nat /\ \A i \in 1..Len(d) : d[i] \in S
  BY LenProperties, ElementOfSeq
<1> DEFINE last == Least(pos + n, Len(d))
<1>2. last \in Int /\ last <= Len(d) /\ \A i \in (pos + 1)..last : d[i] \in S
  BY <1>1 DEF Least
<1>3. /\ SubSeq(d, pos + 1, last) \in Seq(S)
      /\ Len(SubSeq(d, pos + 1, last)) = IF pos + 1 <= last THEN last - (pos + 1) + 1 ELSE 0
      /\ \A i \in 1..(last - (pos + 1) + 1) : SubSeq(d, pos + 1, last)[i] = d[pos + 1 + i - 1]
  <2> HIDE DEF last
  <2> QED BY <1>2, SubSeqProperties
<1> QED BY <1>1, <1>3 DEF BytesAt, Least

\* Two pieces read one after the other are one piece.
LEMMA PiecesJoin ==
  ASSUME NEW S, NEW d \in Seq(S), NEW pos \in Nat, NEW m \in Nat, NEW n \in Nat,
         pos + m <= Len(d)
  PROVE  BytesAt(d, pos, m) \o BytesAt(d, pos + m, n) = BytesAt(d, pos, m + n)
<1> DEFINE a == BytesAt(d, pos, m)
           b == BytesAt(d, pos + m, n)
           c == BytesAt(d, pos, m + n)
<1>1. Len(d) \in Nat
  BY LenProperties
<1>2. a \in Seq(S) /\ Len(a) = m /\ \A i \in 1..Len(a) : a[i] = d[pos + i]
  <2>1. /\ a \in Seq(S) /\ \A i \in 1..Len(a) : a[i] = d[pos + i]
        /\ Len(a) = IF pos <= Len(d) THEN Least(m, Len(d) - pos) ELSE 0
    BY BytesAtProperties
  <2> QED BY <1>1, <2>1 DEF Least
<1>3. /\ b \in Seq(S) /\ Len(b) = Least(n, Len(d) - (pos + m))
      /\ \A i \in 1..Len(b) : b[i] = d[pos + m + i]
  BY <1>1, BytesAtProperties
<1>4. /\ c \in Seq(S) /\ Len(c) = Least(m + n, Len(d) - pos)
      /\ \A i \in 1..Len(c) : c[i] = d[pos + i]
  BY <1>1, BytesAtProperties
<1> HIDE DEF a, b, c
<1>5. /\ a \o b \in Seq(S)
      /\ Len(a \o b) = Len(a) + Len(b)
      /\ \A i \in 1..(Len(a) + Len(b)) :
           (a \o b)[i] = IF i <= Len(a) THEN a[i] ELSE b[i - Len(a)]
  <2>1. a \in Seq(S) /\ b \in Seq(S)
    BY <1>2, <1>3
  <2> QED BY <2>1, ConcatProperties
<1>6. Len(a \o b) = Len(c) /\ Len(c) \in Nat /\ Len(b) \in Nat
  BY <1>1, <1>2, <1>3, <1>4, <1>5 DEF Least
<1>7. \A i \in 1..Len(a \o b) : (a \o b)[i] = c[i]
  <2> SUFFICES ASSUME NEW i \in 1..Len(a \o b) PROVE (a \o b)[i] = c[i]
    OBVIOUS
  <2>1. c[i] = d[pos + i]
    BY <1>4, <1>6
  <2>2. CASE i <= m
    BY <2>1, <2>2, <1>2, <1>5, <1>6
  <2>3. CASE i > m
    <3>1. i - m \in 1..Len(b)
      BY <2>3, <1>2, <1>5, <1>6
    <3>2. b[i - m] = d[pos + m + (i - m)]
      BY <3>1, <1>3
    <3> QED BY <3>1, <3>2, <2>1, <2>3, <1>2, <1>5, <1>6
  <2> QED BY <2>2, <2>3, <1>6
<1>8. a \o b = c
  BY <1>4, <1>5, <1>6, <1>7, SeqEqual
<1> QED BY <1>8 DEF a, b, c

\* Asking for what is given gives the same.
LEMMA BytesAtCut ==
  ASSUME NEW S, NEW d \in Seq(S), NEW pos \in Nat, NEW n \in Nat, NEW t,
         t = BytesAt(d, pos, n)
  PROVE  t = BytesAt(d, pos, Len(t))
<1>1. Len(d) \in Nat
  BY LenProperties
<1>2. /\ t \in Seq(S)
      /\ Len(t) = IF pos <= Len(d) THEN Least(n, Len(d) - pos) ELSE 0
      /\ \A i \in 1..Len(t) : t[i] = d[pos + i]
  BY BytesAtProperties
<1>3. Len(t) \in Nat
  BY <1>2, LenProperties
<1> DEFINE u == BytesAt(d, pos, Len(t))
<1>4. /\ u \in Seq(S)
      /\ Len(u) = IF pos <= Len(d) THEN Least(Len(t), Len(d) - pos) ELSE 0
      /\ \A i \in 1..Len(u) : u[i] = d[pos + i]
  BY <1>3, BytesAtProperties
<1>5. Len(u) = Len(t)
  BY <1>1, <1>2, <1>3, <1>4 DEF Least
<1>6. \A i \in 1..Len(t) : t[i] = u[i]
  BY <1>2, <1>4, <1>5
<1> HIDE DEF u
<1>7. t = u
  BY <1>2, <1>4, <1>5, <1>6, SeqEqual
<1> QED BY <1>7 DEF u

\* What ends with the file is all that could be read.
LEMMA BytesAtTheEnd ==
  ASSUME NEW S, NEW d \in Seq(S), NEW pos \in Nat, NEW n \in Nat, NEW m \in Nat,
         pos + n = Len(d), n <= m
  PROVE  BytesAt(d, pos, n) = BytesAt(d, pos, m)
BY DEF BytesAt, Least

\* Nothing is read at the end of a file or behind it, and nothing else gives
\* nothing.
LEMMA NothingAtTheEnd ==
  ASSUME NEW S, NEW d \in Seq(S), NEW pos \in Nat, NEW n \in Nat
  PROVE  /\ pos >= Len(d) => BytesAt(d, pos, n) = <<>>
         /\ BytesAt(d, pos, n) = <<>> /\ n # 0 => pos >= Len(d)
         /\ BytesAt(d, pos, 0) = <<>>
<1>1. Len(d) \in Nat
  BY LenProperties
<1>2. /\ BytesAt(d, pos, n) \in Seq(S)
      /\ Len(BytesAt(d, pos, n)) = IF pos <= Len(d) THEN Least(n, Len(d) - pos) ELSE 0
  BY BytesAtProperties
<1>3. /\ BytesAt(d, pos, 0) \in Seq(S)
      /\ Len(BytesAt(d, pos, 0)) = IF pos <= Len(d) THEN Least(0, Len(d) - pos) ELSE 0
  BY BytesAtProperties
<1>4. \A t \in Seq(S) : t = <<>> <=> Len(t) = 0
  BY EmptySeq
<1> QED BY <1>1, <1>2, <1>3, <1>4 DEF Least

\* The first of a sequence of one.
LEMMA SequenceOfOne ==
  ASSUME NEW S, NEW q \in Seq(S), Len(q) = 1
  PROVE  q # <<>> /\ Head(q) = q[1] /\ q[1] \in S /\ Tail(q) = <<>>
<1>1. q # <<>>
  BY EmptySeq
<1>2. q[1] \in S
  BY ElementOfSeq
<1>3. Tail(q) \in Seq(S) /\ Len(Tail(q)) = 0
  BY <1>1, HeadTailProperties
<1>4. Tail(q) = <<>>
  BY <1>3, EmptySeq
<1> QED BY <1>1, <1>2, <1>4

\* A sequence that was empty holds what is appended to it.
LEMMA AppendToNothing ==
  ASSUME NEW S, NEW x \in S
  PROVE  /\ Append(<<>>, x) \in Seq(S) /\ Len(Append(<<>>, x)) = 1
         /\ Append(<<>>, x)[1] = x
<1>1. <<>> \in Seq(S) /\ Len(<<>>) = 0
  BY EmptySeq
<1> QED BY <1>1, AppendProperties

-----------------------------------------------------------------------------
(* The steps *)

\* An archive is a sequence of bytes.
LEMMA ArchivesAreSequences == Contents \subseteq Seq(Byte)
<1>1. ASSUME NEW n \in Nat, NEW bytes \in [1..n -> Bytes]
      PROVE  bytes \in Seq(Byte)
  BY ArchivesAreBytes
<1>2. MaxSize \in Nat
  BY ArchivesAreBytes
<1> QED
  BY <1>1, <1>2 DEF Contents

\* The object and the process that the constructor starts with.
LEMMA InitIsTyped == Init => IInv
<1> SUFFICES ASSUME Init PROVE IInv
  OBVIOUS
<1> USE DEF Init, Opened, Byte, Special, GetFileSize, Orders
<1>1. slave \in [state : {"serving", "ended", "failed"},
                 src : [data : Seq(Byte), pos : Nat], old : BOOLEAN, data_name : Seq(Byte)]
  BY ArchivesAreSequences
<1>2. master \in [call : Calls, by_the_end : BOOLEAN, order : Orders \cup {0},
                  position : Nat, file_size : Nat, size : Nat, got : Seq(Byte),
                  serial : Int, sent : Int]
  BY EmptySeq DEF Calls
<1>3. requests \in Seq(RequestSet) /\ answers \in Seq(AnswerSet)
  BY EmptySeq DEF RequestSet
<1>4. Sized /\ Gathered
  BY DEF Sized, Gathered
<1>5. OneAtATime
  BY DEF OneAtATime, Asked, Idle
<1> QED BY <1>1, <1>2, <1>3, <1>4, <1>5 DEF IInv, TypeOK

\* dar_slave answers the request that was made, and what it reads stays as it
\* was.
LEMMA SlaveTurnStep ==
  ASSUME IInv, SlaveTurn
  PROVE  IInv' /\ Position' = Position /\ answer' = answer
<1> DEFINE r == Head(requests)
           src == slave.src
<1> USE DEF Special
<1>0. /\ master.call \in {"size", "read", "order", "end"}
      /\ Len(requests) = 1 /\ answers = <<>> /\ Asked(requests[1])
  BY DEF SlaveTurn, IInv, TypeOK, Calls, OneAtATime, Idle
<1>1. /\ r \in RequestSet /\ requests' \in Seq(RequestSet)
      /\ requests[1] = r /\ requests' = <<>>
  <2>1. requests \in Seq(RequestSet) /\ requests # <<>> /\ requests' = Tail(requests)
    BY DEF SlaveTurn, IInv, TypeOK
  <2>2. Head(requests) \in RequestSet /\ Tail(requests) \in Seq(RequestSet)
    BY <2>1, HeadTailProperties
  <2> QED BY <1>0, <2>1, <2>2, SequenceOfOne
<1>2. /\ src.data \in Seq(Byte) /\ src \in [data : Seq(Byte), pos : Nat]
      /\ master.call = "read" => Piece # 0
  BY PiecesAreNotEmpty, LenProperties DEF Piece, Least, IInv, TypeOK, Gathered
<1>3. \E a \in AnswerSet :
        /\ answers' = Append(answers, a)
        /\ slave' \in [state : {"serving", "ended", "failed"},
                       src : [data : Seq(Byte), pos : Nat], old : BOOLEAN,
                       data_name : Seq(Byte)]
        /\ slave'.src.data = src.data
        /\ r.size # 0 => a.bytes = BytesAt(src.data, r.offset, r.size)
        /\ r.size = 0 /\ r.offset = GetFileSize => a.arg = Len(src.data)
  <2>1. CASE /\ r.size # Special
             /\ \E sent \in DataSent(src, r) :
                  /\ answers' = Append(answers, DataAnswer(r.serial, sent.bytes))
                  /\ slave' = [slave EXCEPT !.src = sent.src]
    <3>1. PICK sent \in DataSent(src, r) :
                 /\ answers' = Append(answers, DataAnswer(r.serial, sent.bytes))
                 /\ slave' = [slave EXCEPT !.src = sent.src]
      BY <2>1
    <3>2. r.size \in Nat /\ r.offset \in Nat /\ r.serial \in Int
      BY <1>1 DEF RequestSet
    <3>3. /\ BytesAt(src.data, r.offset, r.size) \in Seq(Byte)
          /\ Len(BytesAt(src.data, r.offset, r.size)) \in Nat
          /\ Len(src.data) \in Nat
      BY <1>2, <3>2, BytesAtProperties, LenProperties
    <3>4. /\ sent.bytes = BytesAt(src.data, r.offset, r.size)
          /\ sent.src \in [data : Seq(Byte), pos : Nat] /\ sent.src.data = src.data
      <4>1. CASE sent = [src |-> AfterRead(SkipTo(src, r.offset), r.size),
                         bytes |-> ReadBytes(SkipTo(src, r.offset), r.size)]
        <5> DEFINE there == SkipTo(src, r.offset)
        <5>1. /\ there \in [data : Seq(Byte), pos : Nat]
              /\ there.data = src.data /\ there.pos = r.offset
          BY <1>2, <3>2 DEF SkipTo
        <5>2. ReadBytes(there, r.size) = BytesAt(src.data, r.offset, r.size)
          BY <5>1 DEF ReadBytes
        <5>3. /\ AfterRead(there, r.size) \in [data : Seq(Byte), pos : Nat]
              /\ AfterRead(there, r.size).data = there.data
          <6> HIDE DEF there
          <6> QED BY <3>2, <3>3, <5>1, <5>2 DEF AfterRead
        <5> QED BY <4>1, <5>1, <5>2, <5>3
      <4>2. CASE /\ ~(r.offset < Len(src.data))
                 /\ sent = [src |-> SkipToEnd(src), bytes |-> <<>>]
        <5>1. BytesAt(src.data, r.offset, r.size) = <<>>
          BY <4>2, <1>2, <3>2, <3>3, NothingAtTheEnd
        <5> QED BY <4>2, <5>1, <1>2, <3>3 DEF SkipToEnd
      <4> QED BY <3>1, <4>1, <4>2 DEF DataSent
    <3>5. DataAnswer(r.serial, sent.bytes) \in AnswerSet
      BY <3>2, <3>3, <3>4 DEF DataAnswer, AnswerSet
    <3>6. slave' \in [state : {"serving", "ended", "failed"},
                     src : [data : Seq(Byte), pos : Nat], old : BOOLEAN,
                     data_name : Seq(Byte)]
      BY <3>1, <3>4 DEF IInv, TypeOK
    <3>7. slave'.src = sent.src
      BY <3>1 DEF IInv, TypeOK
    <3>8. DataAnswer(r.serial, sent.bytes).bytes = sent.bytes
      BY DEF DataAnswer
    <3> QED BY <2>1, <3>1, <3>4, <3>5, <3>6, <3>7, <3>8
  <2>2. CASE /\ r.size = Special
             /\ answers' = Append(answers, OrderAnswer(src, r))
             /\ slave' = [slave EXCEPT
                   !.state = IF r.offset = EndTransmit THEN "ended" ELSE @,
                   !.src = IF r.offset = GetFileSize THEN SkipToEnd(@) ELSE @]
    <3> DEFINE a == OrderAnswer(src, r)
    <3>1. r.serial \in Int /\ Len(src.data) \in Nat
      BY <1>1, <1>2, LenProperties DEF RequestSet
    <3>2. slave.data_name \in Seq(Byte) /\ <<>> \in Seq(Byte)
      BY EmptySeq DEF IInv, TypeOK
    <3>3. /\ a \in AnswerSet
          /\ r.offset = GetFileSize => a.arg = Len(src.data)
      <4>1. r.offset \in {EndTransmit, GetFileSize} \cup Orders
        BY <1>0, <1>1, <1>2, <2>2 DEF Asked
      <4> QED BY <3>1, <3>2, <4>1
              DEF OrderAnswer, DataAnswer, NumberAnswer, AnswerSet, Orders, EndTransmit,
                  GetFileSize, ChangeContextStatus, IsOldStartEndArchive, GetDataName
    <3>4. /\ SkipToEnd(src) \in [data : Seq(Byte), pos : Nat]
          /\ SkipToEnd(src).data = src.data
      BY <1>2, <3>1 DEF SkipToEnd
    <3>5. /\ slave' \in [state : {"serving", "ended", "failed"},
                         src : [data : Seq(Byte), pos : Nat], old : BOOLEAN,
                         data_name : Seq(Byte)]
          /\ slave'.src = IF r.offset = GetFileSize THEN SkipToEnd(src) ELSE src
      BY <1>2, <2>2, <3>4 DEF IInv, TypeOK
    <3> QED BY <2>2, <3>3, <3>4, <3>5
  <2> QED BY <2>1, <2>2 DEF SlaveTurn
<1>4. PICK a \in AnswerSet :
        /\ answers' = Append(answers, a)
        /\ slave' \in [state : {"serving", "ended", "failed"},
                       src : [data : Seq(Byte), pos : Nat], old : BOOLEAN,
                       data_name : Seq(Byte)]
        /\ slave'.src.data = src.data
        /\ r.size # 0 => a.bytes = BytesAt(src.data, r.offset, r.size)
        /\ r.size = 0 /\ r.offset = GetFileSize => a.arg = Len(src.data)
  BY <1>3
<1>5. master' = master /\ answer' = answer /\ Data' = Data
  BY <1>4 DEF SlaveTurn, Data
<1>6. answers' \in Seq(AnswerSet) /\ Len(answers') = 1 /\ answers'[1] = a
  BY <1>0, <1>4, AppendToNothing
<1>7. Answers(a)
  <2>1. master.call = "size" => a.arg = Len(Data)
    BY <1>0, <1>1, <1>4 DEF Asked, Data
  <2>2. master.call = "read" => a.bytes = BytesAt(Data, master.position, Piece)
    BY <1>0, <1>1, <1>2, <1>4 DEF Asked, Data
  <2> QED BY <2>1, <2>2 DEF Answers
<1>8. TypeOK'
  BY <1>1, <1>4, <1>5, <1>6 DEF IInv, TypeOK
<1>9. (Sized /\ Gathered)'
  BY <1>5 DEF IInv, Sized, Gathered
<1>10. OneAtATime'
  <2>1. Answers(a)'
    BY <1>5, <1>7 DEF Answers, Piece
  <2> QED BY <1>0, <1>1, <1>5, <1>6, <2>1 DEF OneAtATime, Idle
<1> QED BY <1>5, <1>8, <1>9, <1>10 DEF IInv, Position

\* dar_slave ends without an answer.
LEMMA SlaveFailsStep ==
  ASSUME IInv, SlaveFails
  PROVE  IInv' /\ Position' = Position /\ answer' = answer
<1>1. /\ slave' = [slave EXCEPT !.state = "failed"]
      /\ UNCHANGED <<master, requests, answers, answer>>
  BY DEF SlaveFails
<1>2. Data' = Data /\ slave'.state = "failed"
  BY <1>1 DEF Data, IInv, TypeOK
<1>3. TypeOK'
  BY <1>1 DEF IInv, TypeOK
<1>4. (Sized /\ Gathered)'
  BY <1>1, <1>2 DEF IInv, Sized, Gathered
<1>5. OneAtATime'
  <2>1. ASSUME NEW r PROVE Asked(r)' <=> Asked(r)
    BY <1>1 DEF Asked, Piece
  <2>2. ASSUME NEW a PROVE Answers(a)' <=> Answers(a)
    BY <1>1, <1>2 DEF Answers, Piece
  <2> QED BY <1>1, <1>2, <2>1, <2>2 DEF IInv, OneAtATime, Idle
<1> QED BY <1>1, <1>3, <1>4, <1>5 DEF IInv, Position

\* What a call asks for is the one request in the pipe: m is the object that
\* waits for the answer.
LEMMA AskingStep ==
  ASSUME IInv, requests = <<>>, slave' = slave, answers' = <<>>,
         NEW size \in Nat, NEW offset \in Nat,
         NEW m \in [call : {"read", "order", "end"}, by_the_end : BOOLEAN,
                    order : Orders \cup {0}, position : Nat, file_size : Nat, size : Nat,
                    got : Seq(Byte), serial : Int, sent : Int],
         Asking(m, size, offset),
         m.file_size = Len(Data) /\ m.position <= Len(Data),
         m.call # "read" => m.got = <<>>,
         m.call = "read" =>
           /\ m.size <= MaxRead /\ Len(m.got) < m.size /\ Len(m.got) <= m.position
           /\ m.got = BytesAt(Data, m.position - Len(m.got), Len(m.got))
           /\ size = Least(m.size - Len(m.got), MaxPiece) /\ offset = m.position,
         m.call = "order" => size = Special /\ offset \in Orders,
         m.call = "end" => size = Special /\ offset = EndTransmit
  PROVE  /\ IInv'
         /\ Position' = m.position - (IF m.call = "read" THEN Len(m.got) ELSE 0)
<1>1. (m.serial + 1) % Serials \in Int
  BY SerialsComeRound
<1>2. /\ master' \in [call : {"read", "order", "end"}, by_the_end : BOOLEAN,
                     order : Orders \cup {0}, position : Nat, file_size : Nat, size : Nat,
                     got : Seq(Byte), serial : Int, sent : Int]
      /\ master'.call = m.call /\ master'.position = m.position
      /\ master'.file_size = m.file_size /\ master'.size = m.size /\ master'.got = m.got
  BY <1>1 DEF Asking
<1>3. /\ Request(m, size, offset) \in RequestSet
      /\ Request(m, size, offset).size = size /\ Request(m, size, offset).offset = offset
  BY DEF Request, RequestSet
<1>4. /\ requests' \in Seq(RequestSet) /\ Len(requests') = 1
      /\ requests'[1].size = size /\ requests'[1].offset = offset
  BY <1>3, AppendToNothing DEF Asking
<1>5. Data' = Data
  BY DEF Data
<1>6. TypeOK'
  BY <1>2, <1>4 DEF IInv, TypeOK, Calls
<1>7. Sized'
  BY <1>2, <1>5 DEF Sized
<1>8. Gathered'
  BY <1>2, <1>5 DEF Gathered
<1>9. OneAtATime'
  <2>1. Asked(requests[1])'
    BY <1>2, <1>4 DEF Asked, Piece
  <2> QED BY <1>2, <1>4, <2>1 DEF OneAtATime, Idle
<1> QED BY <1>2, <1>6, <1>7, <1>8, <1>9 DEF IInv, Position

\* Only a read that is not over makes the caller's place another one.
LEMMA PlaceOfOthers ==
  ASSUME IInv, master.call \in {"none", "size", "order", "end"}
  PROVE  Position = master.position /\ master.got = <<>>
<1>1. master.position \in Nat
  BY DEF IInv, TypeOK
<1> QED BY <1>1 DEF IInv, Gathered, Position

\* Facts of an object that waits for nothing.
LEMMA WhenIdle ==
  ASSUME IInv, Idle
  PROVE  /\ requests = <<>> /\ answers = <<>>
         /\ master.file_size = Len(Data) /\ master.position <= Len(Data)
         /\ master.got = <<>> /\ Position = master.position
         /\ Data \in Seq(Byte) /\ Len(Data) \in Nat /\ master.position \in Nat
<1>1. Data \in Seq(Byte) /\ Len(Data) \in Nat /\ master.position \in Nat
  BY LenProperties DEF IInv, TypeOK, Data
<1> QED BY <1>1 DEF IInv, Idle, Sized, Gathered, OneAtATime, Position

\* The calls that ask for something: the caller has not moved yet.
LEMMA CallStep ==
  ASSUME IInv,
         \/ \E n \in 1..MaxRead : Read(n)
         \/ \E order \in Orders : Order(order)
         \/ Terminate
  PROVE  IInv' /\ Position' = Position /\ answer' = answer
<1>1. ASSUME NEW n \in 1..MaxRead, Read(n)
      PROVE  IInv' /\ Position' = Position /\ answer' = answer
  <2> DEFINE m == [master EXCEPT !.call = "read", !.size = n]
  <2>1. Idle /\ Asking(m, Least(n, MaxPiece), master.position)
        /\ UNCHANGED <<slave, answers, answer>>
    BY <1>1 DEF Read
  <2>2. n \in Nat /\ n # 0 /\ n <= MaxRead
    BY BoundsAreNumbers
  <2>3. /\ m \in [call : {"read", "order", "end"}, by_the_end : BOOLEAN,
                  order : Orders \cup {0}, position : Nat, file_size : Nat, size : Nat,
                  got : Seq(Byte), serial : Int, sent : Int]
        /\ m.call = "read" /\ m.size = n /\ m.got = <<>>
        /\ m.file_size = master.file_size /\ m.position = master.position
    BY <2>1, <2>2, WhenIdle DEF IInv, TypeOK
  <2>4. /\ Len(<<>>) = 0
        /\ <<>> = BytesAt(Data, master.position - 0, 0)
    BY <2>1, WhenIdle, NothingAtTheEnd, EmptySeq
  <2>5. Least(n, MaxPiece) \in Nat /\ Least(n - 0, MaxPiece) = Least(n, MaxPiece)
    BY <2>2, PiecesAreNotEmpty DEF Least
  <2> HIDE DEF m
  <2>6. IInv' /\ Position' = m.position - (IF m.call = "read" THEN Len(m.got) ELSE 0)
    BY <2>1, <2>2, <2>3, <2>4, <2>5, WhenIdle, AskingStep
  <2> QED BY <2>1, <2>3, <2>4, <2>6, WhenIdle
<1>2. ASSUME NEW order \in Orders, Order(order)
      PROVE  IInv' /\ Position' = Position /\ answer' = answer
  <2> DEFINE m == [master EXCEPT !.call = "order", !.order = order]
  <2>1. Idle /\ Asking(m, Special, order) /\ UNCHANGED <<slave, answers, answer>>
    BY <1>2 DEF Order
  <2>2. /\ m \in [call : {"read", "order", "end"}, by_the_end : BOOLEAN,
                  order : Orders \cup {0}, position : Nat, file_size : Nat, size : Nat,
                  got : Seq(Byte), serial : Int, sent : Int]
        /\ m.call = "order" /\ m.got = <<>>
        /\ m.file_size = master.file_size /\ m.position = master.position
    BY <2>1, WhenIdle DEF IInv, TypeOK
  <2>3. Special \in Nat /\ order \in Nat
    BY DEF Special, Orders, ChangeContextStatus, IsOldStartEndArchive, GetDataName
  <2> HIDE DEF m
  <2>4. IInv' /\ Position' = m.position - (IF m.call = "read" THEN Len(m.got) ELSE 0)
    BY <2>1, <2>2, <2>3, WhenIdle, AskingStep
  <2> QED BY <2>1, <2>2, <2>4, WhenIdle
<1>3. ASSUME Terminate
      PROVE  IInv' /\ Position' = Position /\ answer' = answer
  <2> DEFINE m == [master EXCEPT !.call = "end"]
  <2>1. Idle /\ Asking(m, Special, EndTransmit) /\ UNCHANGED <<slave, answers, answer>>
    BY <1>3 DEF Terminate
  <2>2. /\ m \in [call : {"read", "order", "end"}, by_the_end : BOOLEAN,
                  order : Orders \cup {0}, position : Nat, file_size : Nat, size : Nat,
                  got : Seq(Byte), serial : Int, sent : Int]
        /\ m.call = "end" /\ m.got = <<>>
        /\ m.file_size = master.file_size /\ m.position = master.position
    BY <2>1, WhenIdle DEF IInv, TypeOK
  <2>3. Special \in Nat /\ EndTransmit \in Nat
    BY DEF Special, EndTransmit
  <2> HIDE DEF m
  <2>4. IInv' /\ Position' = m.position - (IF m.call = "read" THEN Len(m.got) ELSE 0)
    BY <2>1, <2>2, <2>3, WhenIdle, AskingStep
  <2> QED BY <2>1, <2>2, <2>4, WhenIdle
<1> QED BY <1>1, <1>2, <1>3

\* A skip asks nothing: it stays in the file.
LEMMA MovedStep ==
  ASSUME IInv, Idle, NEW pos \in 0..Len(Data),
         master' = [master EXCEPT !.position = pos],
         UNCHANGED <<slave, requests, answers>>
  PROVE  IInv' /\ Position' = pos /\ Data' = Data
<1>2. pos \in Nat /\ pos <= Len(Data)
  BY WhenIdle
<1>3. /\ master'.call = "none" /\ master'.position = pos /\ master'.got = master.got
      /\ master'.file_size = master.file_size
  BY DEF IInv, TypeOK, Idle
<1>4. Data' = Data
  BY DEF Data
<1>5. TypeOK'
  BY <1>2 DEF IInv, TypeOK
<1>6. (Sized /\ Gathered /\ OneAtATime)'
  BY <1>2, <1>3, <1>4, WhenIdle DEF Sized, Gathered, OneAtATime, Idle
<1> QED BY <1>3, <1>4, <1>5, <1>6 DEF IInv, Position

\* The skips do what the file promises of them.
LEMMA SkipsStep ==
  ASSUME IInv,
         \/ \E pos \in 0..MaxSkip : Skip(pos)
         \/ SkipToEof
         \/ \E x \in (-MaxSkip)..MaxSkip : SkipRelative(x)
  PROVE  IInv' /\ File!Next
<1> USE DEF File!Skip, File!SkipToEof, File!SkipRelative, File!MovedTo, File!Said, Said
<1>1. ASSUME NEW pos \in 0..MaxSkip, Skip(pos)
      PROVE  IInv' /\ File!Next
  <2> DEFINE there == Least(pos, Len(Data))
  <2>1. Idle /\ Moved(there, pos < Len(Data))
    BY <1>1, WhenIdle DEF Skip
  <2>2. there \in 0..Len(Data) /\ pos \in Nat
    BY <2>1, WhenIdle, BoundsAreNumbers DEF Least
  <2>3. IInv' /\ Position' = there /\ Data' = Data
    BY <2>1, <2>2, MovedStep DEF Moved
  <2>4. answer' = Said(IF pos < Len(Data) THEN "true" ELSE "false")
    BY <2>1 DEF Moved
  <2>5. File!Skip(pos)
    BY <2>1, <2>2, <2>3, <2>4, WhenIdle DEF Data, Least
  <2> QED BY <2>3, <2>5 DEF File!Next
<1>2. ASSUME SkipToEof
      PROVE  IInv' /\ File!Next
  <2>1. Idle /\ Moved(Len(Data), TRUE)
    BY <1>2, WhenIdle DEF SkipToEof
  <2>2. Len(Data) \in 0..Len(Data)
    BY <2>1, WhenIdle
  <2>3. IInv' /\ Position' = Len(Data) /\ Data' = Data
    BY <2>1, <2>2, MovedStep DEF Moved
  <2>4. answer' = Said("true")
    BY <2>1 DEF Moved
  <2>5. File!SkipToEof
    BY <2>3, <2>4 DEF Data
  <2> QED BY <2>3, <2>5 DEF File!Next
<1>3. ASSUME NEW x \in (-MaxSkip)..MaxSkip, SkipRelative(x)
      PROVE  IInv' /\ File!Next
  <2> DEFINE there == master.position + x
             pos == Greatest(0, Least(there, Len(Data)))
             ok == 0 <= there /\ there <= Len(Data)
  <2>1. Idle /\ Moved(pos, ok)
    BY <1>3, WhenIdle DEF SkipRelative
  <2>2. pos \in 0..Len(Data) /\ there \in Int /\ Position = master.position
    BY <2>1, WhenIdle, BoundsAreNumbers DEF Least, Greatest
  <2>3. IInv' /\ Position' = pos /\ Data' = Data
    <3> HIDE DEF pos, ok
    <3> QED BY <2>1, <2>2, MovedStep DEF Moved
  <2>4. answer' = Said(IF ok THEN "true" ELSE "false")
    BY <2>1 DEF Moved
  <2>5. File!SkipRelative(x)
    BY <2>1, <2>2, <2>3, <2>4, WhenIdle DEF Data, Least, Greatest
  <2> QED BY <2>3, <2>5 DEF File!Next
<1> QED BY <1>1, <1>2, <1>3

\* An answer arrives: it is the one of the request that was made.
LEMMA WhenAnswered ==
  ASSUME IInv, Answered
  PROVE  /\ master.call \in {"size", "read", "order", "end"}
         /\ requests = <<>> /\ answers' = <<>> /\ slave' = slave /\ Data' = Data
         /\ Head(answers) \in AnswerSet /\ Answers(Head(answers))
         /\ \/ ReadAnswered(Head(answers)) \/ SizeAnswered(Head(answers))
            \/ OrderAnswered(Head(answers)) \/ EndAnswered
<1>1. /\ ~Idle /\ answers # <<>> /\ answers' = Tail(answers) /\ slave' = slave
      /\ \/ ReadAnswered(Head(answers)) \/ SizeAnswered(Head(answers))
         \/ OrderAnswered(Head(answers)) \/ EndAnswered
  BY DEF Answered
<1>2. master.call \in {"size", "read", "order", "end"}
  BY <1>1 DEF ReadAnswered, SizeAnswered, OrderAnswered, EndAnswered
<1>3. requests = <<>> /\ Len(answers) = 1 /\ Answers(answers[1])
  BY <1>1, <1>2 DEF IInv, OneAtATime
<1>4. Head(answers) = answers[1] /\ answers[1] \in AnswerSet /\ Tail(answers) = <<>>
  BY <1>3, SequenceOfOne DEF IInv, TypeOK
<1> QED BY <1>1, <1>2, <1>3, <1>4 DEF Data

\* A call that is over waits for nothing: m is the object after it.
LEMMA CallOver ==
  ASSUME IInv, requests' = <<>>, answers' = <<>>, slave' = slave,
         NEW m, master' = m,
         m \in [call : {"none", "closed"}, by_the_end : BOOLEAN, order : Orders \cup {0},
                position : Nat, file_size : Nat, size : Nat, got : Seq(Byte),
                serial : Int, sent : Int],
         m.call = "none" => m.file_size = Len(Data) /\ m.position <= Len(Data),
         m.got = <<>>
  PROVE  IInv' /\ Position' = m.position
<1>1. Data' = Data
  BY DEF Data
<1>2. TypeOK'
  BY EmptySeq DEF IInv, TypeOK, Calls
<1>3. (Sized /\ Gathered /\ OneAtATime)'
  BY <1>1 DEF Sized, Gathered, OneAtATime, Idle
<1> QED BY <1>2, <1>3 DEF IInv, Position

\* The answers to the constructor, to orders and to the last request.
LEMMA OtherAnswersStep ==
  ASSUME IInv, Answered, ~ ReadAnswered(Head(answers))
  PROVE  IInv' /\ (Placed \/ UNCHANGED <<answer, Position>>)
<1> DEFINE a == Head(answers)
<1>1. Data \in Seq(Byte) /\ Len(Data) \in Nat
  BY LenProperties DEF IInv, TypeOK, Data
<1>2. CASE SizeAnswered(a)
  <2> DEFINE m == [master EXCEPT !.call = "none", !.file_size = a.arg,
                                 !.position = IF master.by_the_end THEN a.arg ELSE 0]
  <2>1. master.call = "size" /\ master' = m /\ requests' = requests /\ answer' = answer
    BY <1>2 DEF SizeAnswered
  <2>2. a.arg = Len(Data)
    BY <2>1, WhenAnswered DEF Answers
  <2>3. /\ m \in [call : {"none", "closed"}, by_the_end : BOOLEAN, order : Orders \cup {0},
                  position : Nat, file_size : Nat, size : Nat, got : Seq(Byte),
                  serial : Int, sent : Int]
        /\ m.call = "none" /\ m.file_size = Len(Data) /\ m.got = <<>>
        /\ m.position = IF master.by_the_end THEN Len(Data) ELSE 0
    BY <1>1, <2>1, <2>2 DEF IInv, TypeOK, Gathered
  <2> HIDE DEF m
  <2>4. IInv' /\ Position' = m.position
    BY <1>1, <2>1, <2>3, WhenAnswered, CallOver
  <2> QED BY <2>1, <2>3, <2>4 DEF Placed, Data
<1>3. CASE OrderAnswered(a)
  <2> DEFINE m == [master EXCEPT !.call = "none", !.order = 0]
  <2>1. master.call = "order" /\ master' = m /\ requests' = requests /\ answer' = answer
    BY <1>3 DEF OrderAnswered
  <2>2. /\ m \in [call : {"none", "closed"}, by_the_end : BOOLEAN, order : Orders \cup {0},
                  position : Nat, file_size : Nat, size : Nat, got : Seq(Byte),
                  serial : Int, sent : Int]
        /\ m.call = "none" /\ m.file_size = Len(Data) /\ m.got = <<>>
        /\ m.position <= Len(Data) /\ m.position = Position
    BY <2>1, PlaceOfOthers DEF IInv, TypeOK, Sized
  <2> HIDE DEF m
  <2>3. IInv' /\ Position' = m.position
    BY <2>1, <2>2, WhenAnswered, CallOver
  <2> QED BY <2>1, <2>2, <2>3
<1>4. CASE EndAnswered
  <2> DEFINE m == [master EXCEPT !.call = "closed"]
  <2>1. master.call = "end" /\ master' = m /\ requests' = requests /\ answer' = answer
    BY <1>4 DEF EndAnswered
  <2>2. /\ m \in [call : {"none", "closed"}, by_the_end : BOOLEAN, order : Orders \cup {0},
                  position : Nat, file_size : Nat, size : Nat, got : Seq(Byte),
                  serial : Int, sent : Int]
        /\ m.call = "closed" /\ m.got = <<>> /\ m.position = Position
    BY <2>1, PlaceOfOthers DEF IInv, TypeOK
  <2> HIDE DEF m
  <2>3. IInv' /\ Position' = m.position
    BY <2>1, <2>2, WhenAnswered, CallOver
  <2> QED BY <2>1, <2>2, <2>3
<1> QED BY <1>2, <1>3, <1>4, WhenAnswered

\* A piece of a read arrives: the read goes on where it was, or gives what
\* the file holds from where it began.
LEMMA ReadAnsweredStep ==
  ASSUME IInv, Answered, ReadAnswered(Head(answers))
  PROVE  IInv' /\ (File!Next \/ UNCHANGED <<answer, Position>>)
<1> DEFINE a == Head(answers)
           m == [master EXCEPT !.got = @ \o a.bytes, !.position = @ + Len(a.bytes)]
           left == m.size - Len(m.got)
           from == Position
           size == master.size
<1>1. /\ master.call = "read" /\ requests = <<>> /\ answers' = <<>>
      /\ slave' = slave /\ Data' = Data
      /\ a \in AnswerSet /\ a.bytes = BytesAt(Data, master.position, Piece)
  BY WhenAnswered DEF ReadAnswered, Answers
<1>2. /\ Data \in Seq(Byte) /\ Len(Data) \in Nat
      /\ master.got \in Seq(Byte) /\ Len(master.got) \in Nat
      /\ size \in Nat /\ master.position \in Nat
  BY LenProperties DEF IInv, TypeOK, Data
<1>3. /\ size <= MaxRead /\ Len(master.got) < size /\ Len(master.got) <= master.position
      /\ master.position <= Len(Data) /\ master.file_size = Len(Data)
      /\ from = master.position - Len(master.got)
      /\ master.got = BytesAt(Data, from, Len(master.got))
  BY <1>1 DEF IInv, Gathered, Sized, Position
<1>4. from \in Nat /\ from + Len(master.got) = master.position
  BY <1>2, <1>3
<1>5. Piece \in Nat /\ Piece # 0 /\ Piece <= size - Len(master.got)
  BY <1>2, <1>3, PiecesAreNotEmpty DEF Piece, Least
<1>6. /\ a.bytes \in Seq(Byte) /\ Len(a.bytes) \in Nat
      /\ Len(a.bytes) = Least(Piece, Len(Data) - master.position)
  <2>1. /\ BytesAt(Data, master.position, Piece) \in Seq(Byte)
        /\ Len(BytesAt(Data, master.position, Piece))
             = Least(Piece, Len(Data) - master.position)
    BY <1>2, <1>3, <1>5, BytesAtProperties
  <2> QED BY <1>1, <2>1, LenProperties
<1>7. /\ m \in [call : {"read", "order", "end"}, by_the_end : BOOLEAN,
                order : Orders \cup {0}, position : Nat, file_size : Nat, size : Nat,
                got : Seq(Byte), serial : Int, sent : Int]
      /\ m.call = "read" /\ m.size = size /\ m.file_size = Len(Data)
      /\ m.got = master.got \o a.bytes
      /\ m.position = master.position + Len(a.bytes)
  <2>1. master.got \o a.bytes \in Seq(Byte)
    BY <1>2, <1>6, ConcatProperties
  <2>2. master.position + Len(a.bytes) \in Nat
    BY <1>2, <1>6
  <2>3. master.call = "read" /\ master.file_size = Len(Data)
    BY <1>1, <1>3
  <2> HIDE DEF a
  <2> QED BY <2>1, <2>2, <2>3 DEF IInv, TypeOK
<1>11. \/ /\ left > 0
          /\ Asking(m, Least(left, MaxPiece), m.position)
          /\ answer' = answer
       \/ /\ left = 0 \/ a.bytes = <<>>
          /\ master' = [m EXCEPT !.call = "none", !.size = 0, !.got = <<>>]
          /\ answer' = Gave(m.got)
          /\ requests' = requests
  BY DEF ReadAnswered
<1> HIDE DEF a, m, from, size
<1> DEFINE l == Len(Data)   g == Len(master.got)   b == Len(a.bytes)
           p == master.position   piece == Piece
<1>20. l \in Nat /\ p \in Nat /\ g \in Nat /\ b \in Nat /\ size \in Nat /\ from \in Nat
       /\ piece \in Nat /\ piece # 0
  BY <1>2, <1>4, <1>5, <1>6
<1>21. from + g = p /\ p <= l /\ g < size /\ piece <= size - g /\ size <= MaxRead
  BY <1>3, <1>4, <1>5
<1>22. b <= piece /\ b <= l - p /\ (b < piece => b = l - p)
  <2>1. b = Least(piece, l - p)
    BY <1>6
  <2> HIDE DEF l, b, p, piece
  <2> QED BY <1>20, <1>21, <2>1 DEF Least
<1>23. m.position = p + b /\ m.size = size /\ m.call = "read" /\ m.got = master.got \o a.bytes
  BY <1>7
<1>24. /\ Data \in Seq(Byte) /\ master.got \in Seq(Byte) /\ a.bytes \in Seq(Byte)
       /\ master.got = BytesAt(Data, from, g) /\ a.bytes = BytesAt(Data, p, piece)
  BY <1>1, <1>2, <1>3, <1>6
<1>25. Len(m.got) = g + b
  BY <1>23, <1>24, ConcatProperties
<1> HIDE DEF g, b, p, piece
<1>8. m.got = BytesAt(Data, from, g + piece)
  <2>1. from + g <= Len(Data)
    BY <1>20, <1>21
  <2>2. Data \in Seq(Byte) /\ from \in Nat /\ g \in Nat /\ piece \in Nat
    BY <1>20, <1>24
  <2>3. BytesAt(Data, from, g) \o BytesAt(Data, from + g, piece) = BytesAt(Data, from, g + piece)
    <3> HIDE DEF l
    <3> QED BY <2>1, <2>2, PiecesJoin
  <2> QED BY <1>21, <1>23, <1>24, <2>3
<1> HIDE DEF l
<1>9. /\ m.position <= l /\ m.position - Len(m.got) = from
      /\ Len(m.got) \in Nat /\ m.position \in Nat /\ Len(m.got) <= size
      /\ Len(m.got) <= m.position /\ from + Len(m.got) = m.position
  BY <1>20, <1>21, <1>22, <1>23, <1>25
<1>10. m.got = BytesAt(Data, from, Len(m.got))
  <2>1. g + piece \in Nat
    BY <1>20
  <2> QED BY <1>8, <1>20, <1>24, <2>1, BytesAtCut
<1>12. CASE /\ left > 0
            /\ Asking(m, Least(left, MaxPiece), m.position) /\ answer' = answer
  <2>1. left > 0 /\ left = size - Len(m.got) /\ left \in Int
    <3>1. left > 0
      <4> HIDE DEF left
      <4> QED BY <1>12
    <3>2. left = size - Len(m.got)
      BY <1>23
    <3>3. size \in Nat /\ Len(m.got) \in Nat
      BY <1>9, <1>20
    <3> HIDE DEF left
    <3> QED BY <3>1, <3>2, <3>3
  <2>2. Len(m.got) < m.size /\ m.size <= MaxRead
    <3>1. Len(m.got) < size
      BY <1>9, <1>20, <2>1
    <3> QED BY <1>21, <1>23, <3>1
  <2>3. m.got = BytesAt(Data, m.position - Len(m.got), Len(m.got))
    BY <1>9, <1>10
  <2>4. /\ requests = <<>> /\ answers' = <<>> /\ slave' = slave /\ Data' = Data
        /\ m.file_size = Len(Data)
        /\ m.position <= Len(Data)
        /\ Asking(m, Least(m.size - Len(m.got), MaxPiece), m.position)
    BY <1>1, <1>7, <1>9, <1>12 DEF l
  <2>5. m \in [call : {"read", "order", "end"}, by_the_end : BOOLEAN,
               order : Orders \cup {0}, position : Nat, file_size : Nat, size : Nat,
               got : Seq(Byte), serial : Int, sent : Int]
    BY <1>7
  <2>6. Least(m.size - Len(m.got), MaxPiece) \in Nat
    <3> HIDE DEF left
    <3>1. Least(left, MaxPiece) \in Nat
      BY <2>1, PiecesAreNotEmpty DEF Least
    <3> QED BY <1>23, <2>1, <3>1
  <2> HIDE DEF left
  <2>7. IInv' /\ Position' = m.position - Len(m.got)
    <3> DEFINE q == Least(m.size - Len(m.got), MaxPiece)
    <3>1. q = Least(m.size - Len(m.got), MaxPiece) /\ q \in Nat /\ Asking(m, q, m.position)
      BY <2>4, <2>6
    <3> HIDE DEF q
    <3> QED BY <1>9, <1>23, <2>2, <2>3, <2>4, <2>5, <3>1, AskingStep
  <2>8. Position' = Position
    BY <1>9, <2>7 DEF from
  <2> QED BY <1>12, <2>7, <2>8
<1>13. CASE /\ left = 0 \/ a.bytes = <<>>
            /\ master' = [m EXCEPT !.call = "none", !.size = 0, !.got = <<>>]
            /\ answer' = Gave(m.got) /\ requests' = requests
  <2> DEFINE over == [m EXCEPT !.call = "none", !.size = 0, !.got = <<>>]
  <2>1. /\ over \in [call : {"none", "closed"}, by_the_end : BOOLEAN,
                     order : Orders \cup {0}, position : Nat, file_size : Nat, size : Nat,
                     got : Seq(Byte), serial : Int, sent : Int]
        /\ over.call = "none" /\ over.file_size = Len(Data) /\ over.got = <<>>
        /\ over.position = m.position
    BY <1>7, EmptySeq
  <2>2. IInv' /\ Position' = m.position
    <3>1. master' = over /\ requests' = <<>> /\ answers' = <<>> /\ slave' = slave
      BY <1>1, <1>13
    <3> HIDE DEF over
    <3>2. over.position <= Len(Data)
      BY <1>9, <2>1 DEF l
    <3> QED BY <2>1, <3>1, <3>2, CallOver
  <2>3. m.got = BytesAt(Data, from, size)
    <3>1. CASE left = 0
      <4>1. Len(m.got) = size
        BY <1>9, <1>20, <1>23, <3>1
      <4> QED BY <1>10, <4>1
    <3>2. CASE a.bytes = <<>>
      <4>1. b = 0
        BY <3>2, EmptySeq DEF b
      <4>2. from + Len(m.got) = l
        BY <1>20, <1>21, <1>22, <1>25, <4>1
      <4>3. BytesAt(Data, from, Len(m.got)) = BytesAt(Data, from, size)
        <5>1. /\ Data \in Seq(Byte) /\ from \in Nat /\ Len(m.got) \in Nat /\ size \in Nat
              /\ Len(m.got) <= size
          BY <1>9, <1>20, <1>24
        <5>2. from + Len(m.got) = Len(Data)
          BY <4>2 DEF l
        <5> QED BY <5>1, <5>2, BytesAtTheEnd
      <4> QED BY <1>10, <4>3
    <3> QED BY <1>13, <3>1, <3>2
  <2>4. size \in 1..MaxRead
    BY <1>20, <1>21, BoundsAreNumbers
  <2>5. File!Read(size)
    <3>1. answer' = File!Gave(File!BytesAt(Data, from, size))
      BY <1>13, <2>3 DEF File!Gave, Gave, File!BytesAt, BytesAt, File!Least, Least
    <3>2. answer'.bytes = m.got
      BY <1>13 DEF Gave
    <3>3. Position' = from + Len(m.got)
      BY <1>9, <2>2
    <3> QED BY <1>1, <3>1, <3>2, <3>3 DEF File!Read, Data, from
  <2>6. File!Next
    BY <2>4, <2>5 DEF File!Next
  <2> QED BY <2>2, <2>6
<1> QED BY <1>11, <1>12, <1>13

\* dar waits for an answer of a dar_slave that failed.
LEMMA MisledStep ==
  ASSUME IInv, Misled
  PROVE  IInv' /\ slave.state = "failed"
<1>1. PICK outcome \in {"closed", "lost"} : master' = [master EXCEPT !.call = outcome]
  BY DEF Misled
<1>2. slave.state = "failed" /\ UNCHANGED <<slave, requests, answers, answer>>
  BY DEF Misled
<1>3. master'.call \in {"closed", "lost"}
  BY <1>1 DEF IInv, TypeOK
<1>4. TypeOK'
  BY <1>1, <1>2 DEF IInv, TypeOK, Calls
<1>5. (Sized /\ Gathered /\ OneAtATime)'
  BY <1>2, <1>3 DEF Sized, Gathered, OneAtATime, Idle
<1> QED BY <1>2, <1>4, <1>5 DEF IInv

-----------------------------------------------------------------------------
(* The archive reads from here as it does there                            *)

\* zapette over slave_zapette is a file: every step of the two processes is a
\* step that generic_file promises of the archive, the opening, or nothing
\* that the caller sees, until dar_slave fails (RemoteIsAFile).
THEOREM RemoteReads == Spec => RemoteIsAFile
<1>1. Init => IInv
  BY InitIsTyped
<1>2. ASSUME IInv, [Next]_vars
      PROVE  /\ IInv'
             /\ [File!Next \/ Placed \/ slave.state = "failed"]_<<answer, Position>>
  <2>1. CASE SlaveTurn
    BY <2>1, <1>2, SlaveTurnStep
  <2>2. CASE SlaveFails
    BY <2>2, <1>2, SlaveFailsStep
  <2>3. CASE \/ \E n \in 1..MaxRead : Read(n)
             \/ \E order \in Orders : Order(order)
             \/ Terminate
    BY <2>3, <1>2, CallStep
  <2>4. CASE \/ \E pos \in 0..MaxSkip : Skip(pos)
             \/ SkipToEof
             \/ \E x \in (-MaxSkip)..MaxSkip : SkipRelative(x)
    BY <2>4, <1>2, SkipsStep
  <2>5. CASE Answered
    BY <2>5, <1>2, ReadAnsweredStep, OtherAnswersStep
  <2>6. CASE Misled
    BY <2>6, <1>2, MisledStep
  <2>7. CASE UNCHANGED vars
    <3>1. UNCHANGED <<master, slave, requests, answers, answer>>
      BY <2>7 DEF vars
    <3>2. Data' = Data /\ Position' = Position
      BY <3>1 DEF Data, Position
    <3>3. (TypeOK /\ Sized /\ Gathered)'
      BY <1>2, <3>1, <3>2 DEF IInv, TypeOK, Sized, Gathered
    <3>4. ASSUME NEW r PROVE Asked(r)' <=> Asked(r)
      BY <3>1 DEF Asked, Piece
    <3>5. ASSUME NEW a PROVE Answers(a)' <=> Answers(a)
      BY <3>1, <3>2 DEF Answers, Piece
    <3>6. OneAtATime'
      BY <1>2, <3>1, <3>4, <3>5 DEF IInv, OneAtATime, Idle
    <3> QED BY <3>1, <3>2, <3>3, <3>6 DEF IInv
  <2> QED BY <1>2, <2>1, <2>2, <2>3, <2>4, <2>5, <2>6, <2>7 DEF Next
<1> QED BY <1>1, <1>2, PTL DEF Spec, RemoteIsAFile
=============================================================================
