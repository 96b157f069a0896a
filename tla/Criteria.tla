------------------------------ MODULE Criteria ------------------------------
(***************************************************************************)
(* The overwriting policy (libdar/criterium): criteria that compare the    *)
(* entry `in place' with the entry `to be added', the tests and chains     *)
(* that turn them into an action for the data and one for the EA.          *)
(*                                                                         *)
(* An entry is a record: its type, hard (a link to an inode that has       *)
(* several, a mirage), first (the first link met to that inode), the state *)
(* of its data (saved, mtime, size, dirty, sparse) and of its EA (ea,      *)
(* ctime, eanum, easize).  "detruit" and "ignored" are the types of the    *)
(* entries that are no inode, "igndir" an inode that is no directory.      *)
(* A policy is a tree of records.                                          *)
(***************************************************************************)
EXTENDS Integers, Sequences

CONSTANTS Hour,       \* units of a date in an hour
          HourShift   \* hours by which equal dates may differ (option -H)

DataActions == {"preserve", "overwrite", "preserve_mark_saved",
                "overwrite_mark_saved", "remove", "undefined", "ask"}
EAActions == {"preserve", "overwrite", "clear", "preserve_mark_saved", "overwrite_mark_saved",
              "merge_preserve", "merge_overwrite", "undefined", "ask"}

IsInode(e) == e.type \notin {"detruit", "ignored"}
IsFile(e) == e.type = "file"
HasEA(e) == e.ea \notin {"none", "removed"}

Distance(d, f) == IF d > f THEN d - f ELSE f - d
EqualWithHourShift(d, f) ==
  Distance(d, f) % Hour = 0 /\ Distance(d, f) \div Hour <= HourShift
NotOlder(d, f) == d >= f \/ EqualWithHourShift(d, f)

Mtime(e) == IF IsInode(e) THEN e.mtime ELSE 0
Ctime(e) == IF IsInode(e) /\ HasEA(e) THEN e.ctime ELSE 0
FullEA(e, field) == IF IsInode(e) /\ e.ea = "full" THEN e[field] ELSE 0

DataMoreRecent(f, s) == ~ IsInode(f) \/ NotOlder(Mtime(f), Mtime(s))
DataBigger(f, s) == (IsFile(f) /\ IsFile(s)) => f.size >= s.size
EAPresent(f) == ~ f.hard /\ IsInode(f) /\ HasEA(f)
EAMoreRecent(f, s) ==
  IsInode(s) /\ HasEA(s) => NotOlder(Ctime(f), s.ctime)
SameType(f, s) == f.type = s.type /\ f.type \notin {"ignored", "igndir"}

\* A criterion that is a letter of the command line.
Atom(c, f, s) ==
  CASE c = "I" -> IsInode(f)
    [] c = "D" -> f.type = "dir"
    [] c = "F" -> IsFile(f)
    [] c = "H" -> f.hard
    [] c = "A" -> f.hard /\ f.first
    [] c = "R" -> DataMoreRecent(f, s)
    [] c = "B" -> DataBigger(f, s)
    [] c = "S" -> ~ IsInode(f) \/ f.saved = "saved"
    [] c = "Y" -> IsFile(f) /\ f.dirty
    [] c = "X" -> IsFile(f) /\ f.sparse
    [] c = "e" -> EAPresent(f)
    [] c = "r" -> EAMoreRecent(f, s)
    [] c = "m" -> FullEA(f, "eanum") >= FullEA(s, "eanum")
    [] c = "b" -> FullEA(f, "easize") >= FullEA(s, "easize")
    [] c = "s" -> IsInode(f) /\ f.ea = "full"
    [] c = "T" -> SameType(f, s)

\* A criterion with a date as its argument.
AtLeast(c, date, f) ==
  CASE c = "R" -> ~ IsInode(f) \/ NotOlder(Mtime(f), date)
    [] c = "r" -> NotOlder(Ctime(f), date)

(* Builders of criteria and actions. *)
Letter(c) == [op |-> "atom", c |-> c]
Since(c, date) == [op |-> "since", c |-> c, date |-> date]
Not(x) == [op |-> "not", arg |-> x]
Invert(x) == [op |-> "invert", arg |-> x]
And(xs) == [op |-> "and", args |-> xs]
Or(xs) == [op |-> "or", args |-> xs]
Constant(d, e) == [op |-> "constant", data |-> d, ea |-> e]
Test(x, yes, no) == [op |-> "testing", input |-> x, go_true |-> yes, go_false |-> no]
Chain(xs) == [op |-> "chain", sequence |-> xs]

RECURSIVE Evaluate(_, _, _)
Evaluate(x, f, s) ==
  CASE x.op = "atom" -> Atom(x.c, f, s)
    [] x.op = "since" -> AtLeast(x.c, x.date, f)
    [] x.op = "not" -> ~ Evaluate(x.arg, f, s)
    [] x.op = "invert" -> Evaluate(x.arg, s, f)
    [] x.op = "and" -> \A i \in DOMAIN x.args : Evaluate(x.args[i], f, s)
    [] x.op = "or" -> \E i \in DOMAIN x.args : Evaluate(x.args[i], f, s)

\* The later action of a chain, where it defines one.
Refine(act, more) ==
  [data |-> IF more.data = "undefined" THEN act.data ELSE more.data,
   ea   |-> IF more.ea = "undefined" THEN act.ea ELSE more.ea]

\* A chain stops at the first action after which data and EA are both decided:
\* until then an action may replace what an earlier one decided.
RECURSIVE Action(_, _, _), Follow(_, _, _, _)
Follow(xs, act, f, s) ==
  IF xs = <<>> \/ (act.data # "undefined" /\ act.ea # "undefined") THEN act
  ELSE Follow(Tail(xs), Refine(act, Action(Head(xs), f, s)), f, s)
Action(p, f, s) ==
  CASE p.op = "constant" -> [data |-> p.data, ea |-> p.ea]
    [] p.op = "testing" -> IF Evaluate(p.input, f, s) THEN Action(p.go_true, f, s)
                           ELSE Action(p.go_false, f, s)
    [] p.op = "chain" -> Follow(p.sequence, [data |-> "undefined", ea |-> "undefined"], f, s)

\* Faulty: the dates are not compared.
DecrementalOfType ==
  Chain(<<Test(Letter("T"), Constant("preserve_mark_saved", "undefined"), Constant("preserve", "undefined")),
          Constant("undefined", "preserve")>>)
\* The policy of a decremental backup, {T&R&~R&(A|!H)}[S*] P* ;
\* {(e&~e&r&~r)|(!e&!~e)}[*s] *p.
Decremental ==
  LET same == And(<<Letter("T"), Letter("R"), Invert(Letter("R")),
                    Or(<<Letter("A"), Not(Letter("H"))>>)>>)
      both == And(<<Letter("e"), Invert(Letter("e")), Letter("r"), Invert(Letter("r"))>>)
      none == And(<<Not(Letter("e")), Not(Invert(Letter("e")))>>)
  IN Chain(<<Test(same, Constant("preserve_mark_saved", "undefined"), Constant("preserve", "undefined")),
             Test(Or(<<both, none>>), Constant("undefined", "preserve_mark_saved"),
                                      Constant("undefined", "preserve"))>>)

\* Restoring nothing but the records of removed files.
OnlyDeleted == Test(Invert(Letter("I")), Constant("preserve", "preserve"),
                    Constant("overwrite", "overwrite"))

\* The answers of the user asked for an action: one of the letters; "A" and a
\* confirmation end the operation, anything else asks again.
AskData == (DataActions \ {"ask"}) \cup {"abort"}
AskEA == (EAActions \ {"ask"}) \cup {"abort"}
=============================================================================
