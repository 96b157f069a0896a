------------------------------- MODULE Archive -------------------------------
(***************************************************************************)
(* The life of an archive (libdar/archive.cpp, macro_tools.cpp, pile.cpp): *)
(* op_create_in_sub stacks the layers, writes what an archive is made of   *)
(* through them and takes them off one by one; macro_tools_open_archive    *)
(* finds them again from the end or from the start of a file that may have *)
(* been cut anywhere; the operations of the class archive then use it.     *)
(*                                                                         *)
(* The file is a sequence of parts.  A part is a record: what, via (the    *)
(* layers it was written through), at (for a terminateur, the part it      *)
(* points to), name (a data name) and whole (FALSE once cut).              *)
(***************************************************************************)
EXTENDS Integers, Sequences, FiniteSets

CONSTANTS
  Creations,     \* parameters of op_create_in or of a merging
  Openings,      \* options of a reading, with the answers of the user
                 \* uses bounds the calls made on the archive once read
  MaxEntries     \* bound on the entries written

VARIABLES
  p, pc, file, stack,      \* what is created, how far, the file and the layers
  coord, aborting, hook,   \* terminateur, delayed cancellation, natural destruction
  terminal, made,          \* the mark of the last slice, how the creation ended
  h, calls, ended          \* the archive read, calls made on it, the last one's end

creation == <<p, pc, file, stack, coord, aborting, hook, terminal, made>>
reading == <<h, calls, ended>>
archive_vars == <<creation, reading>>

Level1 == <<"level1">>
Cache == <<"cache">>
Tronc == <<"tronc">>
Escape == <<"escape">>
Compressor == <<"compressor">>
Cipher(crypto, key) == <<crypto, key>>
\* A cache and a tronc change no byte.
Through(s) == SelectSeq(s, LAMBDA l : l \notin {Cache, Tronc})
Below(s) == SubSeq(s, 1, Len(s) - 1)
Top(s) == s[Len(s)]

-----------------------------------------------------------------------------
(* op_create_in, op_create_in_sub. *)

Part(what, at) == [what |-> what, via |-> Through(stack), at |-> at, name |-> p.name, whole |-> TRUE]
Written(what, at) == IF p.empty THEN file ELSE Append(file, Part(what, at))
NewName(q) == IF q.op = "isolate" THEN "reference" ELSE "own"

\* Elibcall, SRC_BUG and Efeature of the arguments.
BadArguments(q) == \/ q.level \notin 1..9 \/ (q.slice = 0 /\ q.first # 0)
                   \/ (q.crypto # "none" /\ q.block < 10)
MergeRefused(q) ==
  q.op = "merge" /\ (\/ q.refs = {} \/ \E r \in q.refs : r.isolated \/ ~ r.exploitable
                     \/ (q.keep /\ Cardinality({r.algo : r \in q.refs} \ {"none"}) > 1))

Refused == /\ pc = "start" /\ (BadArguments(p) \/ MergeRefused(p))
           /\ pc' = "end" /\ made' = "refused"
           /\ UNCHANGED <<p, file, stack, coord, aborting, hook, terminal, reading>>

Going(from, to) == pc = from /\ pc' = to
Still == UNCHANGED <<p, aborting, hook, terminal, made, reading>>

PushLevel1 ==
  /\ Going("start", "header") /\ ~ BadArguments(p) /\ ~ MergeRefused(p)
  /\ stack' = <<Level1>> /\ UNCHANGED <<file, coord>> /\ Still

\* The header is written at both ends, for both ways of reading.
WriteHeader ==
  /\ Going("header", "cipher") /\ p.confirmed
  /\ file' = Written("header", 0) /\ UNCHANGED <<stack, coord>> /\ Still

\* The two passwords typed differ.
Unconfirmed == /\ pc = "header" /\ ~ p.confirmed
               /\ pc' = "end" /\ made' = "Edata"
               /\ UNCHANGED <<p, file, stack, coord, aborting, hook, terminal, reading>>

PushCipher ==
  /\ Going("cipher", "escape")
  /\ stack' = IF p.empty THEN stack
              ELSE Append(stack, IF p.crypto = "none" THEN Cache ELSE Cipher(p.crypto, p.key))
  /\ file' = IF p.empty \/ p.crypto = "none" THEN file
             ELSE Append(file, [Part("elastic", 0) EXCEPT !.via = Through(stack')])
  /\ UNCHANGED coord /\ Still

\* escape_catalogue drops the data name when it is made.
PushEscape ==
  /\ Going("escape", "filter")
  /\ LET marked == p.marks /\ ~ p.empty
         escape == IF marked THEN Append(stack, Escape) ELSE stack
     IN /\ stack' = Append(escape, Compressor)
        /\ file' = IF marked THEN Append(file, [Part("name", 0) EXCEPT !.via = Through(escape)]) ELSE file
  /\ UNCHANGED coord /\ Still

WriteEntry ==
  /\ pc = "filter" /\ p.op # "isolate"
  /\ Cardinality({i \in DOMAIN file : file[i].what = "entry"}) < MaxEntries
  /\ file' = Written("entry", 0)
  /\ UNCHANGED <<p, pc, stack, coord, aborting, hook, terminal, made, reading>>

\* filtre_isolate blocks the cancellations that may be delayed.
CancelDelayed ==
  /\ Going("filter", "mark") /\ p.op # "isolate"
  /\ aborting' = TRUE /\ hook' = FALSE
  /\ UNCHANGED <<p, file, stack, coord, terminal, made, reading>>

Filtered == Going("filter", "mark") /\ UNCHANGED <<file, stack, coord>> /\ Still

WriteMark ==
  /\ Going("mark", "catalogue")
  /\ file' = IF Escape \in {stack[i] : i \in DOMAIN stack}
             THEN Append(file, [Part("mark", 0) EXCEPT !.via = Through(Below(stack))]) ELSE file
  /\ coord' = Len(file') + 1
  /\ UNCHANGED stack /\ Still

WriteCatalogue ==
  /\ Going("catalogue", "pop")
  /\ file' = Written("catalogue", 0) /\ UNCHANGED <<stack, coord>> /\ Still

PopCompressor ==
  /\ Going("pop", "term1")
  /\ stack' = IF Top(Below(stack)) = Escape THEN Below(Below(stack)) ELSE Below(stack)
  /\ UNCHANGED <<file, coord>> /\ Still

\* Faulty: the terminateur is written once the cipher is taken off.
WriteTerminateurInClear ==
  /\ Going("term1", "trailer")
  /\ stack' = IF Top(stack) \in {Level1, Cache} THEN stack ELSE Below(stack)
  /\ file' = IF p.empty THEN file ELSE Append(file, [Part("term", coord) EXCEPT !.via = Through(stack')])
  /\ UNCHANGED coord /\ Still

\* The first terminateur is ciphered, with an elastic buffer behind it.
WriteTerminateur ==
  /\ Going("term1", "trailer")
  /\ file' = IF p.empty THEN file ELSE
             file \o <<Part("term", coord)>> \o (IF p.crypto = "none" THEN <<>> ELSE <<Part("elastic", 0)>>)
  /\ stack' = IF Top(stack) \in {Level1, Cache} THEN stack ELSE Below(stack)
  /\ UNCHANGED coord /\ Still

WriteTrailer ==
  /\ Going("trailer", "close")
  /\ file' = IF p.empty THEN file ELSE file \o <<Part("header", 0), Part("term", Len(file) + 1)>>
  /\ UNCHANGED <<stack, coord>> /\ Still

Close ==
  /\ pc = "close" /\ pc' = "end"
  /\ stack' = <<>> /\ terminal' = TRUE
  /\ made' = IF aborting THEN "cancelled" ELSE "done"
  /\ UNCHANGED <<p, file, coord, aborting, hook, reading>>

Writing == pc \notin {"start", "end"}

\* An exception: the destructors of the layers close the last slice.
Stop ==
  /\ Writing /\ pc' = "end" /\ stack' = <<>> /\ terminal' = TRUE
  /\ \/ made' = "Edata" /\ UNCHANGED hook
     \/ made' = "Euser_abort" /\ hook' = FALSE
     \/ pc = "filter" /\ p.op # "isolate" /\ made' = "Ethread_cancel" /\ hook' = FALSE
  /\ UNCHANGED <<p, file, coord, aborting, reading>>

\* The program is killed, in the middle of a part or between two; the last
\* byte of the last slice may pass for the mark of a last slice.
Crash ==
  /\ Writing /\ pc' = "end" /\ stack' = <<>> /\ made' = "crashed"
  /\ terminal' \in BOOLEAN
  /\ \E n \in 0..Len(file) : \E whole \in BOOLEAN :
       file' = IF n = 0 THEN <<>> ELSE [SubSeq(file, 1, n) EXCEPT ![n].whole = whole]
  /\ UNCHANGED <<p, coord, aborting, hook, reading>>

Create == \/ Refused \/ PushLevel1 \/ WriteHeader \/ Unconfirmed \/ PushCipher \/ PushEscape
          \/ WriteEntry \/ CancelDelayed \/ Filtered \/ WriteMark \/ WriteCatalogue
          \/ PopCompressor \/ WriteTerminateur \/ WriteTrailer \/ Close \/ Stop \/ Crash

-----------------------------------------------------------------------------
(* macro_tools_open_archive and the constructor that reads. *)

Plain(s) == SelectSeq(s, LAMBDA l : l # Escape)
\* Bytes with no escape sequence among them read the same without its layer.
Readable(k, s) == /\ k \in DOMAIN file /\ file[k].whole
                  /\ \/ Through(s) = file[k].via
                     \/ file[k].what # "name" /\ Plain(Through(s)) = Plain(file[k].via)
IsTerm(k, s) == Readable(k, s) /\ file[k].what = "term"
IsHeader(k) == Readable(k, <<Level1>>) /\ file[k].what = "header"

\* The part the trailer starts at, 0 when read by the start.
SecondTerminateur(o) == IF ~ o.seq /\ IsTerm(Len(file), <<Level1>>) THEN file[Len(file)].at ELSE 0
HeaderRead(o) == IF SecondTerminateur(o) = 0 THEN 1 ELSE SecondTerminateur(o)

\* The flags of the header; in lax mode those of one that cannot be read.
Flags(o) == IF IsHeader(HeaderRead(o)) THEN [scrambled |-> p.crypto # "none", marks |-> p.marks]
            ELSE [scrambled |-> TRUE, marks |-> FALSE]

PushesEscape(o) ==
  IF Flags(o).marks THEN ~ o.lax \/ o.seq \/ ~ o.yes ELSE o.lax /\ (o.seq \/ ~ o.yes)
Layers(o) ==
  <<Level1>> \o (IF SecondTerminateur(o) = 0 THEN <<>> ELSE <<Tronc>>)
  \o <<IF o.crypto = "none" THEN Cache ELSE Cipher(o.crypto, o.key)>>
Clear(o) == IF PushesEscape(o) THEN Append(Layers(o), Escape) ELSE Layers(o)
Full(o) == Append(Clear(o), Compressor)

\* open_last_file asks for a last slice until there is one.
OpenError(o) ==
  IF ~ o.seq /\ ~ terminal THEN "Euser_abort"
  ELSE IF ~ IsHeader(HeaderRead(o)) /\ ~ o.lax THEN "Erange"
  ELSE IF ~ o.seq /\ SecondTerminateur(o) = 0 /\ ~ o.yes THEN "Euser_abort"
  ELSE IF ~ o.lax /\ Flags(o).scrambled /\ o.crypto = "none" THEN "Erange"
  ELSE IF ~ o.lax /\ o.seq /\ ~ Flags(o).marks THEN "Erange"
  ELSE "none"

\* What is before the trailer, then before the elastic buffer.
FirstTerminateur(o) ==
  LET end == IF SecondTerminateur(o) = 0 THEN Len(file) ELSE SecondTerminateur(o) - 1
      elastic == Flags(o).scrambled
  IN IF elastic /\ ~ (Readable(end, Layers(o)) /\ file[end].what = "elastic") THEN 0
     ELSE LET k == IF elastic THEN end - 1 ELSE end IN IF IsTerm(k, Layers(o)) THEN k ELSE 0

Catalogues(o) == {k \in DOMAIN file : Readable(k, Full(o)) /\ file[k].what = "catalogue"}
PointedCatalogue(o) == {k \in Catalogues(o) : FirstTerminateur(o) # 0 /\ k = file[FirstTerminateur(o)].at}

\* The search starts below the first position searched when there is no escape
\* layer: what it displays is then a difference below zero.
LaxSearch(o) == IF ~ PushesEscape(o) /\ o.details /\ ~ o.all THEN {} ELSE Catalogues(o)
\* Portions of a catalogue, the user saying yes.
LaxPartial(o) ==
  IF ~ PushesEscape(o) /\ o.details /\ ~ o.all THEN {}
  ELSE {k \in DOMAIN file : file[k].what = "catalogue" /\ file[k].via = Through(Full(o))}

NameMarks(o) == {k \in DOMAIN file : file[k].what = "name" /\ file[k].via = Through(Clear(o))}
Layer1Name == "own"

\* The status of the catalogue: how much of it is in memory, and its name.
Found(o) ==
  IF o.external # "none"
  THEN IF o.external \in {"-", "+"} \/ o.external # Layer1Name THEN [st |-> "Erange"]
       ELSE [st |-> "completed", mem |-> "whole", name |-> o.external]
  ELSE IF o.seq
  THEN IF \E k \in NameMarks(o) : file[k].whole
       THEN [st |-> "init", mem |-> "none", name |-> p.name]
       ELSE IF o.lax THEN [st |-> "init", mem |-> "none", name |-> "zero"] ELSE [st |-> "Erange"]
  ELSE IF PointedCatalogue(o) # {} THEN [st |-> "completed", mem |-> "whole", name |-> p.name]
  ELSE IF ~ o.lax THEN [st |-> "Erange"]
  ELSE IF ~ o.yes THEN [st |-> "Euser_abort"]
  ELSE IF LaxSearch(o) # {} THEN [st |-> "completed", mem |-> "whole", name |-> p.name]
  ELSE IF LaxPartial(o) # {} THEN [st |-> "completed", mem |-> "part", name |-> Layer1Name]
  ELSE [st |-> "Erange"]

NoArchive == [open |-> FALSE]
Opened(o) ==
  IF OpenError(o) # "none" THEN NoArchive
  ELSE LET c == Found(o)
       IN IF c.st \notin {"init", "completed"} THEN NoArchive
          ELSE [open |-> TRUE, o |-> o, exploitable |-> TRUE, status |-> c.st, mem |-> c.mem, name |-> c.name,
                layers |-> TRUE, passed |-> FALSE, aside |-> FALSE, touched |-> FALSE, astray |-> FALSE]
OpenEnd(o) == IF OpenError(o) # "none" THEN OpenError(o)
              ELSE IF Found(o).st \in {"init", "completed"} THEN "done" ELSE Found(o).st

Open ==
  /\ pc = "end" /\ file # <<>> /\ ended = "none"
  /\ \E o \in Openings :
       /\ h' = Opened(o)
       /\ ended' = OpenEnd(o)
  /\ UNCHANGED <<creation, calls>>

-----------------------------------------------------------------------------
(* The operations of an archive that was read. *)

Isolated == h.name # Layer1Name
\* check_against_isolation, the user of the lax mode going on.
Refuses == Isolated /\ ~ h.o.lax
Spent(r) == IF h.o.seq THEN [r EXCEPT !.exploitable = FALSE] ELSE r

\* reset_read drops what was not read yet; reading in sequence then goes on
\* from the memory.
Reset(r) == IF r.status = "marks" THEN [r EXCEPT !.status = "completed"] ELSE r
Walks(needsdata) ==
  LET r == Reset(h)
      moved == IF needsdata /\ h.o.seq THEN [r EXCEPT !.astray = @ \/ r.passed, !.passed = TRUE] ELSE r
  IN IF r.status = "completed" THEN {<<moved, "done">>, <<moved, "interrupted">>}
     ELSE IF ~ r.layers THEN {<<[moved EXCEPT !.touched = TRUE], "freed">>}
     ELSE {<<[moved EXCEPT !.status = "completed", !.mem = "whole", !.passed = TRUE], "done">>,
           <<[moved EXCEPT !.status = "marks", !.mem = "part", !.passed = TRUE], "interrupted">>,
           <<r, "interrupted">>}

Calling == h.open /\ calls < p.uses /\ calls' = calls + 1 /\ UNCHANGED creation
Ends(results) == \E r \in results : h' = r[1] /\ ended' = r[2]

\* op_extract and op_diff
Extract ==
  Calling /\ Ends(IF ~ h.exploitable THEN {<<h, "Elibcall">>}
          ELSE IF Refuses THEN {<<Spent(h), "Erange">>}
          ELSE {<<Spent(x[1]), x[2]>> : x \in Walks(TRUE)})

\* op_test reads the catalogue only of one that was isolated.
Tested == {<<Spent(x[1]), x[2]>> : x \in Walks(~ Refuses)}
Test == Calling /\ Ends(IF ~ h.exploitable THEN {<<h, "Elibcall">>} ELSE Tested)

\* op_listing does not ask whether the archive may be used.
List == Calling /\ Ends({<<Spent(x[1]), x[2]>> : x \in Walks(FALSE)})

Summary == Calling /\ Ends(IF ~ h.exploitable THEN {<<h, "Elibcall">>} ELSE {<<Spent(h), "done">>})

Loaded ==
  IF ~ (h.exploitable /\ h.o.seq) THEN {<<h, "done">>}
  ELSE IF Isolated THEN {<<Reset(x[1]), x[2]>> : x \in Walks(FALSE)} ELSE Tested
\* get_children_of, init_catalogue
Children == Calling /\ Ends(Loaded)
\* get_catalogue, which asks again after init_catalogue
GetCatalogue ==
  Calling /\ Ends({IF x[2] = "done" /\ x[1].exploitable /\ h.o.seq THEN <<x[1], "Elibcall">> ELSE x : x \in Loaded})

Closed(r) == [r EXCEPT !.layers = FALSE, !.exploitable = FALSE]
Drop == Calling /\ Ends(IF h.exploitable /\ h.o.seq THEN {<<h, "Elibcall">>} ELSE {<<Closed(h), "done">>})
\* With a dialog, what was not read is read first.
DropRead ==
  Calling /\ Ends(IF ~ (h.exploitable /\ h.o.seq) THEN {<<Closed(h), "done">>}
          ELSE {IF x[2] = "done" THEN <<Closed(Reset(x[1])), "done">> 
                ELSE <<[x[1] EXCEPT !.aside = TRUE], x[2]>> : x \in Walks(FALSE)})

\* It is isolated, or the reference of a backup, whose walk reads it.
Lend == Calling /\ Ends({<<[x[1] EXCEPT !.aside = TRUE], x[2]>> : x \in Walks(FALSE)})

Use == Extract \/ Test \/ List \/ Summary \/ Children \/ GetCatalogue \/ Drop \/ DropRead \/ Lend

-----------------------------------------------------------------------------
ArchiveInit ==
  /\ p \in {[q EXCEPT !.name = NewName(q)] : q \in Creations}
  /\ pc = "start" /\ file = <<>> /\ stack = <<>> /\ coord = 0
  /\ aborting = FALSE /\ hook = TRUE /\ terminal = FALSE /\ made = "none"
  /\ h = NoArchive /\ calls = 0 /\ ended = "none"

ArchiveNext == Create \/ Open \/ Use
ArchiveSpec == ArchiveInit /\ [][ArchiveNext]_archive_vars

-----------------------------------------------------------------------------
(* Properties *)
Keyed(o) == o.crypto = p.crypto /\ (p.crypto = "none" \/ o.key = p.key)
Complete == made \in {"done", "cancelled"} /\ file # <<>>

\* An archive that was closed opens from its end, and in sequence when it has
\* marks, whichever way it was made and however it was cancelled; without its
\* key it does not.  None opens from its end that was cut before it.
OpensAsItWasClosed ==
  \A o \in Openings : pc = "end" /\ file # <<>> /\ o.external = "none" =>
    /\ Complete /\ Keyed(o) /\ ~ o.lax /\ o.yes =>
         (OpenEnd(o) = "done" <=> (o.seq => p.marks))
    /\ ~ o.lax /\ (~ Keyed(o) \/ (~ o.seq /\ \A k \in DOMAIN file : file[k].what = "term" => ~ file[k].whole)) =>
         OpenEnd(o) # "done"

\* A whole catalogue that is there is never missed by the lax mode, when the
\* escape layer is there or the whole archive is searched.
LaxFindsTheCatalogue ==
  \A o \in Openings :
    pc = "end" /\ file # <<>> /\ o.lax /\ ~ o.seq /\ o.yes /\ Keyed(o) /\ o.external = "none" /\ terminal
    /\ (o.all \/ ~ o.details) /\ (\E k \in DOMAIN file : file[k].what = "catalogue" /\ file[k].whole)
    /\ IsHeader(HeaderRead(o)) => OpenEnd(o) = "done" /\ Opened(o).mem = "whole"

\* Reading in sequence, data are asked for once, but where the archive was read
\* as the reference of another before, or passes for an isolated catalogue.
DataAreReadInOrder == h.open /\ h.astray => h.aside \/ Isolated

\* No layer is read once closed, but where an operation ended before the first
\* entry was read.
ClosedLayersAreNotRead == h.open /\ h.touched => h.mem = "none"
=============================================================================
