---------------------------- MODULE DarManager ----------------------------
(***************************************************************************)
(* dar_manager at work (dar_suite/dar_manager.cpp over the calls of        *)
(* libdar/database.cpp): a command reads the database, acts on it in       *)
(* memory and writes it back, a batch file does so for several commands,   *)
(* and the interactive menu lets the user write when he wants.  What is in *)
(* memory, what is on disk and what the user is told must agree, whatever  *)
(* signal, full disk or kill comes in between.                             *)
(*                                                                         *)
(* Each archive holds the one file, saved at the date of its stamp: the    *)
(* records of the tree are the stamps by archive number, and what the      *)
(* module Database says of them is not repeated.  check_order is asked     *)
(* for (no -ai).                                                           *)
(***************************************************************************)
EXTENDS Integers, Sequences, SequencesExt, FiniteSets

CONSTANTS
  Base, Other,    \* the file given with -B, and the one of "Save as"
  Stamp,          \* the dates archives may be of
  Earlier,        \* what earlier processes may have left: the archives' dates
  ArchiveNumMax,  \* ARCHIVE_NUM_MAX
  MaxEdits,       \* bound: changes made in memory by one process
  MaxRuns,        \* bound: processes started
  Faults          \* among "full" (no space), "crash" (killed), "signal"

ASSUME StampsAreDates == Stamp \subseteq Nat \ {0}
ASSUME EarlierIsLegal == Earlier \subseteq {s \in Seq(Stamp) : Len(s) < ArchiveNumMax}
ASSUME FilesDiffer == Base # Other
ASSUME RoomForArchives == ArchiveNumMax \in Nat \ {0, 1}

File == {Base, Other}
Value == {"given", "changed"}
Setting == {"options", "dar_path"}
ArchiveData == [stamp : Stamp, name : Value, path : Value]
NULL == <<0>> \* no tree: 0 is the date of no archive

VARIABLES
  disk,    \* disk[f]: state "none", "torn" or "whole", and what f holds
  dat,     \* the database in memory: coordinate, settings, files, data_files
  pc,      \* where the process is, "shell" when there is none
  op,      \* the operation given on the command line
  base,    \* the file the database is written back to
  target,  \* the file being written
  saved,   \* the flag of the interactive menu
  pending, \* the exception finalize runs under, "" if there is none
  cancel,  \* the cancellation request of the process: "none", "delayed", "now"
  blocked, \* whether delayed requests are blocked
  slips,   \* what went wrong since the last writing: see SavedUnlessSlipped
  edits, runs, \* counters for the bounds
  exit     \* how the last process ended

session == <<base, target, saved, pending>>
signals == <<cancel, blocked>>
vars == <<disk, dat, pc, op, session, signals, slips, edits, runs, exit>>

NoFile == [state |-> "none", coordinate |-> <<>>, settings |-> {}, tree |-> <<>>]
Torn == [NoFile EXCEPT !.state = "torn"]
Listing(stamps) ==
  [i \in DOMAIN stamps |-> [stamp |-> stamps[i], name |-> "given", path |-> "given"]]
Left(stamps) == [state |-> "whole", coordinate |-> Listing(stamps), settings |-> {},
                 tree |-> stamps]
NewDatabase == [coordinate |-> <<>>, settings |-> {}, files |-> <<>>, data_files |-> NULL]

\* Faulty: a header read alone is written without the records.
DumpedFiles(d) ==
  [state |-> "whole", coordinate |-> d.coordinate, settings |-> d.settings,
   tree |-> IF d.files # NULL THEN d.files ELSE <<>>]

\* database::dump: the tree, or the copy of it that was not looked into.
Dumped(d) ==
  [state |-> "whole", coordinate |-> d.coordinate, settings |-> d.settings,
   tree |-> IF d.files # NULL THEN d.files ELSE d.data_files]

\* database::build, with partial set or not.
Loaded(f, partial) ==
  [coordinate |-> f.coordinate, settings |-> f.settings,
   files |-> IF partial THEN NULL ELSE f.tree,
   data_files |-> IF partial THEN f.tree ELSE NULL]

Count(d) == Len(d.coordinate)
\* check_order: the dates of the file never decrease with the archive number.
InOrder(d) == \A i, j \in DOMAIN d.files : i < j => d.files[i] <= d.files[j]

-----------------------------------------------------------------------------
(* The operations: what they make of the database and what they throw *)

Ok(d) == [dat |-> d, throws |-> ""]
Throw(d, e) == [dat |-> d, throws |-> e]

\* signed_int_to_archive_num and get_real_archive_num; 0 is refused.
RealNum(d, num) ==
  IF num >= ArchiveNumMax \/ -num >= ArchiveNumMax THEN 0
  ELSE IF num >= 0 THEN num
  ELSE IF -num <= Count(d) THEN Count(d) + 1 + num
  ELSE 0

\* Faulty: the limit is compared with the archives there are.
FullTooLate(d) == Count(d) >= ArchiveNumMax
\* add_archive compares it with the number of the new one.
Full(d) == Count(d) + 1 >= ArchiveNumMax

\* op_add and add_archive.
Add(d, stamp) ==
  IF d.files = NULL THEN Throw(d, "SRC_BUG")
  ELSE IF Full(d) THEN Throw(d, "Erange")
  ELSE LET new == [d EXCEPT
             !.coordinate = Append(@, [stamp |-> stamp, name |-> "given", path |-> "given"]),
             !.files = Append(@, stamp)]
       IN IF InOrder(new) THEN Ok(new) ELSE Throw(new, "Edata")

RemoveOne(d, k) ==
  [d EXCEPT !.coordinate = RemoveAt(@, k), !.files = RemoveAt(@, k)]

\* Faulty: the range is removed from its first number on.
RemoveUpwards(d, min, max) ==
  LET left[i \in (min - 1)..max] ==
        IF i = min - 1 THEN d
        ELSE IF i > Count(left[i - 1]) THEN left[i - 1] ELSE RemoveOne(left[i - 1], i)
  IN left[max]

\* remove_archive goes from the greatest number of the range to the smallest,
\* so that each is still the number of its archive: the range goes.
RemoveRange(d, min, max) ==
  LET left(s) == SubSeq(s, 1, min - 1) \o SubSeq(s, max + 1, Len(s))
  IN [d EXCEPT !.coordinate = left(@), !.files = left(@)]

\* op_del: a number counted from the end makes a range of one.
Del(d, min, max) ==
  LET first == RealNum(d, min)
      last == IF min < 0 THEN first ELSE max
  IN IF first = 0 \/ last = 0 \/ first > last \/ last > Count(d) THEN Throw(d, "Erange")
     ELSE IF d.files = NULL THEN Throw(d, "SRC_BUG")
     ELSE Ok(RemoveRange(d, first, last))

\* op_chbase and change_name.
ChBase(d, num) ==
  LET k == RealNum(d, num)
  IN IF k = 0 \/ k > Count(d) THEN Throw(d, "Erange")
     ELSE Ok([d EXCEPT !.coordinate[k].name = "changed"])

\* op_where and set_path.
Where(d, num) ==
  LET k == RealNum(d, num)
  IN IF k = 0 \/ k > Count(d) THEN Throw(d, "Erange")
     ELSE Ok([d EXCEPT !.coordinate[k].path = "changed"])

\* op_options and op_dar.
Set(d, x) == Ok([d EXCEPT !.settings = @ \cup {x}])

\* set_permutation.  The archives that have new neighbours are finalized
\* again, the one after the last too: SRC_BUG, with the archives moved.
Permuted(d, src, dst) ==
  LET move(s) == InsertAt(RemoveAt(s, src), dst, s[src])
      new == [d EXCEPT !.coordinate = move(@), !.files = move(@)]
  IN IF ~({src, dst} \subseteq 1..Count(d)) THEN Throw(d, "Erange")
     ELSE IF d.files = NULL THEN Throw(d, "SRC_BUG")
     ELSE IF dst = Count(d) \/ (src >= dst /\ src = Count(d)) THEN Throw(new, "SRC_BUG")
     ELSE Ok(new)

\* op_move.  check_order returns whether the order is right, and its result is
\* taken here for a problem.
Move(d, src, dst) ==
  LET moved == Permuted(d, src, dst)
  IN IF src <= 0 THEN Throw(d, "Erange")
     ELSE IF moved.throws # "" THEN moved
     ELSE IF InOrder(moved.dat) THEN Throw(moved.dat, "Edata")
     ELSE moved

\* op_restore and database::restore; the call to dar throws nothing further.
Restore(d, early_release) ==
  IF d.files = NULL THEN Throw(d, "SRC_BUG")
  ELSE Ok(IF early_release THEN [d EXCEPT !.files = NULL] ELSE d)

\* op_used, op_files and op_stats only read; the number may not exist.
Used(d, num) ==
  LET k == RealNum(d, num)
  IN IF num # 0 /\ k = 0 THEN Throw(d, "Erange")
     ELSE IF d.files = NULL THEN Throw(d, "SRC_BUG")
     ELSE IF k > Count(d) THEN Throw(d, "Erange") ELSE Ok(d)
Read(d) == IF d.files = NULL THEN Throw(d, "SRC_BUG") ELSE Ok(d)

\* op_check.
Check(d) ==
  IF d.files = NULL THEN Throw(d, "SRC_BUG")
  ELSE IF InOrder(d) THEN Ok(d) ELSE Throw(d, "Edata")

Number == (-2)..(ArchiveNumMax - 1)
Command ==
  {[op |-> o, num |-> 0, num2 |-> 0] : o \in {"listing", "options", "dar", "restore",
                                              "files", "stats", "check"}}
  \cup {[op |-> "add", num |-> s, num2 |-> 0] : s \in Stamp}
  \cup {[op |-> o, num |-> n, num2 |-> 0] : o \in {"chbase", "where", "used"}, n \in Number}
  \cup {[op |-> o, num |-> n, num2 |-> m] : o \in {"del", "moving"},
                                            n \in Number, m \in 1..(ArchiveNumMax - 1)}

\* action
Action(d, c, early_release) ==
  CASE c.op = "add" -> Add(d, c.num)
    [] c.op = "listing" -> Ok(d)
    [] c.op = "del" -> Del(d, c.num, c.num2)
    [] c.op = "chbase" -> ChBase(d, c.num)
    [] c.op = "where" -> Where(d, c.num)
    [] c.op = "options" -> Set(d, "options")
    [] c.op = "dar" -> Set(d, "dar_path")
    [] c.op = "restore" -> Restore(d, early_release)
    [] c.op = "used" -> Used(d, c.num)
    [] c.op \in {"files", "stats"} -> Read(d)
    [] c.op = "moving" -> Move(d, c.num, c.num2)
    [] c.op = "check" -> Check(d)

\* Faulty: the tree of a batch is released with its first restoration.
ReleasedEarly(o) == TRUE
\* A batch keeps the tree for its next lines.
EarlyRelease(o) == o # "batch"

\* little_main: what is read without the tree, and finalize: what is written.
PartialRead(o) == o \in {"chbase", "where", "options", "dar"}
Writes(o) == o \in {"add", "del", "chbase", "where", "options", "dar", "moving", "batch"}

-----------------------------------------------------------------------------
(* A process *)

Cancelled == cancel = "now" \/ (cancel = "delayed" /\ ~blocked)

\* The process ends, its memory goes.
Finish(how) ==
  /\ pc' = "shell" /\ exit' = how
  /\ dat' = NewDatabase /\ op' = "none" /\ base' = Base /\ target' = Base
  /\ saved' = TRUE /\ pending' = ""
  /\ cancel' = "none" /\ blocked' = FALSE /\ slips' = {} /\ edits' = 0

\* A command line of one operation is kept in op with its numbers, as the
\* action of it follows at once.
Start(o) ==
  /\ pc = "shell" /\ runs < MaxRuns
  /\ runs' = runs + 1
  /\ op' = o
  /\ pc' = IF o = "create" THEN "opening" ELSE "reading"
  /\ exit' = "running"
  /\ UNCHANGED <<disk, dat, session, signals, slips, edits>>

\* read_base: what Erange says of the file becomes Edata, and nothing is
\* written then, finalize is not reached.
ReadBase ==
  /\ pc = "reading"
  /\ IF Cancelled THEN Finish("Ethread_cancel")
     ELSE IF disk[Base].state # "whole" THEN Finish("Edata")
     ELSE /\ dat' = Loaded(disk[Base], PartialRead(op))
          /\ pc' = IF op \in {"batch", "interactive"} THEN op ELSE "action"
          /\ UNCHANGED <<op, session, signals, slips, edits, exit>>
  /\ UNCHANGED <<disk, runs>>

\* little_main after action: finalize runs after an Edata exception too.
AfterAction(d, throws) ==
  IF throws \in {"", "Edata"}
  THEN IF Writes(op)
       THEN /\ dat' = d /\ pending' = throws /\ pc' = "opening"
            /\ UNCHANGED <<op, base, target, saved, signals, slips, edits, exit>>
       ELSE Finish(IF throws = "" THEN "ok" ELSE throws)
  ELSE Finish(throws)

\* Each operation starts with a check for a cancellation; those that come
\* later find the memory changed and leave it, too, without writing.
OneAction(c) ==
  /\ pc = "action" /\ c.op = op
  /\ IF Cancelled THEN Finish("Ethread_cancel")
     ELSE LET r == Action(dat, c, EarlyRelease(op))
          IN AfterAction(r.dat, r.throws)
  /\ UNCHANGED <<disk, runs>>

\* op_batch: one line of the file.  Edata ends the batch and has its result
\* written, any other exception ends it with nothing written.
BatchLine(c) ==
  /\ pc = "batch" /\ edits < MaxEdits
  /\ IF Cancelled THEN Finish("Ethread_cancel")
     ELSE LET r == Action(dat, c, EarlyRelease(op))
          IN IF r.throws = ""
             THEN /\ dat' = r.dat /\ edits' = edits + 1
                  /\ UNCHANGED <<pc, op, session, signals, slips, exit>>
             ELSE AfterAction(r.dat, r.throws)
  /\ UNCHANGED <<disk, runs>>

\* A line that is no command, or is -C, -i, -B or -@.
BatchBadLine ==
  /\ pc = "batch"
  /\ Finish("Erange")
  /\ UNCHANGED <<disk, runs>>

BatchEnd ==
  /\ pc = "batch"
  /\ AfterAction(dat, "")
  /\ UNCHANGED <<disk, runs>>

-----------------------------------------------------------------------------
(* Writing *)

\* An exception while the interactive menu is up is shown and forgotten.
Thrown(e) ==
  IF op = "interactive"
  THEN /\ pc' = "interactive"
       /\ slips' = slips \cup {"write"}
       /\ UNCHANGED <<dat, op, session, cancel, blocked, edits, exit>>
  ELSE Finish(e)

Overwrite == op # "create" /\ target = base

\* Faulty: the file is opened without a look at what is there.
NeverRefused(f) == FALSE
\* database_header_create
Refused(f) == disk[f].state # "none" /\ ~Overwrite

\* write_base blocks delayed requests, dump refuses a database without a tree
\* and database_header_create a file that exists; then the file is truncated.
OpenBase ==
  /\ pc = "opening"
  /\ IF (dat.files = NULL /\ dat.data_files = NULL) \/ Refused(target)
     THEN /\ IF op = "interactive"
             THEN /\ pc' = "interactive" /\ blocked' = TRUE
                  /\ slips' = slips \cup {"write"}
                  /\ UNCHANGED <<dat, op, session, cancel, edits, exit>>
             ELSE Finish("Erange")
          /\ UNCHANGED disk
     ELSE /\ disk' = [disk EXCEPT ![target] = Torn]
          /\ blocked' = TRUE
          /\ pc' = "writing"
          /\ UNCHANGED <<dat, op, session, cancel, slips, edits, exit>>
  /\ UNCHANGED runs

\* The compressor writes while the tree is dumped: this may throw.
WriteBase ==
  /\ pc = "writing"
  /\ IF cancel = "now"
     THEN /\ IF op = "interactive"
             THEN /\ pc' = "cancelled" /\ cancel' = "none"
                  /\ slips' = slips \cup {"write"}
                  /\ UNCHANGED <<dat, op, session, blocked, edits, exit>>
             ELSE Finish("Ethread_cancel")
     ELSE \/ pc' = "flushing"
             /\ UNCHANGED <<dat, op, session, signals, slips, edits, exit>>
          \/ "full" \in Faults /\ Thrown("Euser_abort")
  /\ UNCHANGED <<disk, runs>>

\* Faulty: the unblocking is forgotten.
StillBlocked == TRUE
AfterDump == FALSE \* block_delayed_cancellation(false)

\* Faulty: the menu goes on with the file it had.
KeptBase == base
NextBase == target \* base = input after "Save as"

\* write_base after dump.  The end of the data goes to the file when dump
\* deletes the compressor, whose destructor ignores every exception: the file
\* may stay torn and nobody is told.  Requests blocked until now are heard.
EndWrite(complete, request) ==
  /\ disk' = IF complete THEN [disk EXCEPT ![target] = Dumped(dat)] ELSE disk
  /\ IF request # "none"
     THEN IF op = "interactive"
          THEN /\ pc' = "cancelled" /\ cancel' = "none" /\ blocked' = AfterDump
               /\ slips' = IF complete THEN slips ELSE slips \cup {"flush"}
               /\ UNCHANGED <<dat, op, session, edits, exit>>
          ELSE Finish("Ethread_cancel")
     ELSE IF op = "interactive"
          THEN /\ pc' = "interactive" /\ saved' = TRUE /\ base' = NextBase
               /\ cancel' = "none" /\ blocked' = AfterDump
               /\ slips' = IF complete THEN {} ELSE slips \cup {"flush"}
               /\ UNCHANGED <<dat, op, target, pending, edits, exit>>
          ELSE Finish(IF pending = "" THEN "ok" ELSE pending)

\* An immediate request is consumed by the write that it stops.
CloseBase ==
  /\ pc = "flushing"
  /\ IF cancel = "now" THEN EndWrite(FALSE, "none")
     ELSE EndWrite(TRUE, cancel) \/ ("full" \in Faults /\ EndWrite(FALSE, cancel))
  /\ UNCHANGED runs

-----------------------------------------------------------------------------
(* op_interactive *)

Edit(d) == /\ dat' = d /\ edits' = edits + 1

\* 'A' and 'm': the flag is cleared once the new order has been checked, and
\* what is thrown before that leaves it as it was.
MenuAddOrMove(c) ==
  LET r == IF c.op = "add" THEN Add(dat, c.num) ELSE Permuted(dat, c.num, c.num2)
      changed == r.dat # dat
  IN /\ pc = "interactive" /\ edits < MaxEdits /\ ~Cancelled
     /\ c.op \in {"add", "moving"} /\ (c.op = "moving" => c.num >= 0)
     /\ Edit(r.dat)
     /\ IF r.throws \in {"", "Edata"}
        THEN pc' = "edited" /\ UNCHANGED slips
        ELSE pc' = pc /\ slips' = IF changed THEN slips \cup {"edit"} ELSE slips
     /\ UNCHANGED <<disk, op, session, signals, runs, exit>>

MenuEdited ==
  /\ pc = "edited"
  /\ IF Cancelled
     THEN /\ pc' = "cancelled" /\ cancel' = "none" /\ slips' = slips \cup {"edit"}
          /\ UNCHANGED saved
     ELSE /\ pc' = "interactive" /\ saved' = FALSE
          /\ UNCHANGED <<cancel, slips>>
  /\ UNCHANGED <<disk, dat, op, base, target, pending, blocked, edits, runs, exit>>

\* 'D', 'b', 'p', 'o' and 'd'.
MenuChange(c) ==
  LET r == Action(dat, [c EXCEPT !.num2 = IF c.num < 0 THEN 0 ELSE c.num], FALSE)
  IN /\ pc = "interactive" /\ edits < MaxEdits /\ ~Cancelled
     /\ c.op \in {"del", "chbase", "where", "options", "dar"}
     /\ Edit(r.dat)
     /\ saved' = IF r.throws = "" THEN FALSE ELSE saved
     /\ UNCHANGED <<disk, pc, op, base, target, pending, signals, slips, runs, exit>>

\* 'w' and 'a'
TargetOf(choice) == IF choice = "w" THEN base ELSE Other

MenuSave(choice) ==
  /\ pc = "interactive" /\ ~Cancelled
  /\ choice = "a" => base # Other
  /\ target' = TargetOf(choice)
  /\ pc' = "opening"
  /\ UNCHANGED <<disk, dat, op, base, saved, pending, signals, slips, edits, runs, exit>>

\* A request heard at the menu, or thrown by what a choice does.
MenuCancel ==
  /\ pc = "interactive" /\ Cancelled
  /\ pc' = "cancelled" /\ cancel' = "none"
  /\ UNCHANGED <<disk, dat, op, session, blocked, slips, edits, runs, exit>>

\* The user is asked when the flag says so, and may stay.
MenuLeave ==
  /\ \/ pc = "interactive" /\ ~Cancelled /\ Finish("ok")
     \/ pc = "cancelled" /\ Finish("Ethread_cancel")
     \/ /\ pc = "cancelled" /\ ~saved
        /\ pc' = "interactive"
        /\ UNCHANGED <<dat, op, session, signals, slips, edits, exit>>
  /\ UNCHANGED <<disk, runs>>

-----------------------------------------------------------------------------
(* Around the process *)

\* A signal; the same one again kills, its handler is gone.
Signal(kind) ==
  /\ "signal" \in Faults
  /\ pc \notin {"shell", "cancelled"} /\ cancel = "none"
  /\ cancel' = kind
  /\ UNCHANGED <<disk, dat, pc, op, session, blocked, slips, edits, runs, exit>>

Crash ==
  /\ "crash" \in Faults
  /\ pc # "shell"
  /\ Finish("killed")
  /\ UNCHANGED <<disk, runs>>

Init ==
  /\ disk \in [File -> {NoFile} \cup {Left(s) : s \in Earlier}]
  /\ disk[Other] # NoFile => disk[Other] = disk[Base]
  /\ pc = "shell" /\ exit = "ok" /\ runs = 0
  /\ dat = NewDatabase /\ op = "none" /\ base = Base /\ target = Base
  /\ saved = TRUE /\ pending = ""
  /\ cancel = "none" /\ blocked = FALSE /\ slips = {} /\ edits = 0

Operation == {"create", "batch", "interactive"} \cup {c.op : c \in Command}

Next ==
  \/ \E o \in Operation : Start(o)
  \/ ReadBase
  \/ \E c \in Command : OneAction(c) \/ BatchLine(c) \/ MenuAddOrMove(c) \/ MenuChange(c)
  \/ BatchBadLine \/ BatchEnd
  \/ OpenBase \/ WriteBase \/ CloseBase
  \/ MenuEdited \/ MenuCancel \/ MenuLeave
  \/ \E choice \in {"w", "a"} : MenuSave(choice)
  \/ \E kind \in {"delayed", "now"} : Signal(kind)
  \/ Crash

Spec == Init /\ [][Next]_vars

-----------------------------------------------------------------------------
(* Properties *)

Database == [coordinate : Seq(ArchiveData), settings : SUBSET Setting,
             files : Seq(Stamp) \cup {NULL}, data_files : Seq(Stamp) \cup {NULL}]

\* Every variable keeps its type.
TypeOK ==
  /\ disk \in [File -> [state : {"none", "torn", "whole"}, coordinate : Seq(ArchiveData),
                       settings : SUBSET Setting, tree : Seq(Stamp)]]
  /\ dat \in Database /\ Count(dat) < ArchiveNumMax
  /\ pc \in {"shell", "reading", "action", "batch", "opening", "writing", "flushing",
            "interactive", "edited", "cancelled"}
  /\ base \in File /\ target \in File
  /\ saved \in BOOLEAN /\ blocked \in BOOLEAN
  /\ cancel \in {"none", "delayed", "now"}
  /\ slips \subseteq {"edit", "flush", "write"}

\* Header and tree are written together by processes that may have read one of
\* them only: a complete file has one record for each archive it lists, and of
\* that archive.
HeaderMatchesTree ==
  \A f \in File : disk[f].tree = [i \in DOMAIN disk[f].coordinate |->
                                   disk[f].coordinate[i].stamp]

\* Whatever follows whatever in a batch, no operation meets a database without
\* the tree it works on: neither after a restoration that released it, nor
\* because the command needed the header only.
TreeIsThere ==
  /\ pc \in {"batch", "interactive"} => dat.files # NULL
  /\ pc = "action" => \A c \in Command :
       c.op = op /\ dat.files = NULL => Action(dat, c, TRUE).throws # "SRC_BUG"

Same(f) == disk[f] = Dumped(dat)

\* The menu says "Saved", and lets the user quit unasked, only when the file
\* holds what is in memory; unless, since then, an exception came between a
\* change and the flag ("edit"), cut the writing short ("write"), or took away
\* the end of the file unnoticed ("flush").
SavedUnlessSlipped ==
  pc = "interactive" /\ saved /\ slips = {} => Same(base)

\* Delayed requests are heard again after each writing; only one that threw
\* leaves them blocked.
BlockedByFailureOnly ==
  pc \in {"interactive", "edited", "batch", "action"} /\ blocked => "write" \in slips
=============================================================================
