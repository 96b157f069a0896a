----------------------------- MODULE Comparison -----------------------------
(***************************************************************************)
(* The operations that read an archive and write nothing to disk           *)
(* (libdar/filtre.cpp): filtre_difference compares it with the file system *)
(* through filesystem_diff, filtre_test reads all it holds, filtre_isolate *)
(* makes a catalogue of its own of it, and                                 *)
(* filtre_sequentially_read_all_catalogue reads the marks that follow the  *)
(* data.  Each is a walk over the same sequence of entries.                *)
(*                                                                         *)
(* An entry is a record: type, path (where the archive says it belongs),   *)
(* etiq (0, or the number of a hard linked inode), again (TRUE for a       *)
(* directory read a second time at the end of a sequential reading), the   *)
(* fields of an inode, saved, body (what its data are), stored (what is    *)
(* read of them) and crc (what the CRC that follows is the CRC of).        *)
(***************************************************************************)
EXTENDS Integers, Sequences, FiniteSets

CONSTANTS Archives, Disks, Options,
          MaxStrays,          \* bound on the inodes that cannot be read
          Hour                \* units of a date in an hour

VARIABLES
  arch, opts,                 \* what is read, and how
  disk,                       \* the file system: path -> inode
  pos, juillet,               \* entries read, and the path of the last (defile)
  current_dir, filename_pile, \* filesystem_diff: where it is, the dates to restore
  wrote,                      \* the inodes of hard links that were treated
  cat, corres,                \* filtre_isolate: entries added, etiquette -> etoile
  said,                       \* <<entry, warning>>, the warnings given
  st, strays, verdict

source == <<arch, opts>>
fs == <<disk, current_dir, filename_pile>>
isolated == <<cat, corres>>
vars == <<source, fs, pos, juillet, wrote, isolated, said, st, strays, verdict>>

Front(s) == SubSeq(s, 1, Len(s) - 1)
Last(s) == s[Len(s)]
NoStats == [treated |-> 0, errored |-> 0, ignored |-> 0]

(* Where the walk is. *)

Next1 == arch[pos + 1]
IsDir(x) == x.type = "dir"
IsInode(x) == x.type \notin {"detruit", "eod"}

\* defile::enfile
Enfile(x) ==
  LET base == IF juillet.init THEN juillet.path ELSE Front(juillet.path)
  IN IF x.type = "eod" THEN [path |-> base, init |-> FALSE]
     ELSE [path |-> Append(base, Last(x.path)), init |-> IsDir(x)]
Here == Enfile(Next1).path

\* skip_read_to_parent_dir leaves the directory just read behind its end.
EndOf(k) == CHOOSE j \in k..Len(arch) :
              /\ arch[j].type = "eod" /\ arch[j].path = arch[k].path
              /\ \A i \in k..(j - 1) : arch[i].type = "eod" => arch[i].path # arch[j].path
Enter == pos' = pos + 1 /\ juillet' = Enfile(Next1)
\* Faulty: the catalogue stays in the directory.
LeaveInside == pos' = pos + 1 /\ juillet' = [Enfile(Next1) EXCEPT !.init = FALSE]
Leave == /\ pos' = IF IsDir(Next1) THEN EndOf(pos + 1) ELSE pos + 1
         /\ juillet' = [Enfile(Next1) EXCEPT !.init = FALSE]

Running(op) == verdict = "none" /\ opts.op = op /\ pos < Len(arch)
Covered == Here \in opts.subtree /\ (IsDir(Next1) \/ Here \notin opts.filtered)
Say(what) == said' = said \cup {<<pos + 1, what>>}
\* What is read a second time is not counted again.
Count(c) == st' = IF IsDir(Next1) /\ Next1.again THEN st ELSE [st EXCEPT ![c] = @ + 1]

-----------------------------------------------------------------------------
(* filtre_difference and filesystem_diff. *)

Push(p) ==
  IF disk[p].type = "dir"
  THEN /\ current_dir' = p
       /\ filename_pile' = Append(filename_pile, disk[p].mtime)
  ELSE UNCHANGED <<current_dir, filename_pile>>

\* skip_read_filename_in_parent_dir, as it leaves the dates of the directory.
Pop == IF filename_pile = <<>> THEN verdict' = "SRC_BUG" /\ UNCHANGED fs
       ELSE /\ disk' = IF opts.alter_atime \/ current_dir = <<>> THEN disk
                       ELSE [disk EXCEPT ![current_dir].mtime = Last(filename_pile)]
            /\ filename_pile' = Front(filename_pile)
            /\ current_dir' = IF current_dir = <<>> THEN <<>> ELSE Front(current_dir)
            /\ UNCHANGED verdict

Distance(d, f) == IF d > f THEN d - f ELSE f - d
EqualWithHourShift(shift, d, f) ==
  Distance(d, f) % Hour = 0 /\ Distance(d, f) \div Hour <= shift

\* Reading in sequence, no CRC is known before the data are compared.
SameData(x, y) ==
  CASE x.type = "file" -> /\ x.size = y.size
                          /\ x.saved => x.stored = y.body /\ (~ opts.seq => x.crc = x.stored)
    [] x.type \in {"symlink", "device"} -> x.body = y.body
    [] OTHER -> TRUE

\* For dates the arguments are not given in the order of the declaration.
SameEA(x, y) ==
  CASE x.ea = "full" -> y.ea = "full" /\ x.eas \subseteq y.eas
    [] x.ea = "partial" -> /\ y.ea = "full"
                           /\ EqualWithHourShift(x.ctime, y.ctime, opts.hourshift) \/ x.ctime >= y.ctime
    [] x.ea = "none" -> TRUE

\* inode::compare
Same(x, y) ==
  /\ x.type = y.type
  /\ opts.fields = "all" => x.uid = y.uid
  /\ opts.fields \in {"all", "ignore_owner"} => x.perm = y.perm
  /\ (y.type # "symlink" \/ opts.symlink_date) /\ opts.fields # "inode_type"
       => EqualWithHourShift(opts.hourshift, x.mtime, y.mtime)
  /\ SameData(x, y) /\ SameEA(x, y)

\* A hard linked file is compared in sequence only when it is its last link.
Skipped(x) == opts.seq /\ x.etiq # 0 /\ x.type = "file" /\ x.links > 1
InFileSystem == Append(current_dir, Last(Next1.path))
Present(p) == p \in DOMAIN disk /\ disk[p].lstat # "eacces"

DiffUncovered ==
  /\ Running("diff") /\ Next1.type # "eod" /\ ~ Covered
  /\ Leave /\ Count("ignored") /\ Say("skipped")
  /\ UNCHANGED <<source, fs, wrote, isolated, strays, verdict>>

DiffNoInode ==
  /\ Running("diff") /\ Next1.type # "eod" /\ Covered
  /\ ~ IsInode(Next1) \/ Skipped(Next1)
  /\ Enter /\ Count("treated")
  /\ IF IsInode(Next1) THEN Say("skipped") ELSE UNCHANGED said
  /\ UNCHANGED <<source, fs, wrote, isolated, strays, verdict>>

Compared == Running("diff") /\ IsInode(Next1) /\ Covered /\ ~ Skipped(Next1)

DiffAbsent ==
  /\ Compared /\ ~ Present(InFileSystem)
  /\ Leave /\ Count("errored") /\ Say("diff")
  /\ UNCHANGED <<source, fs, wrote, isolated, strays, verdict>>

DiffSame ==
  /\ Compared /\ Present(InFileSystem) /\ Same(Next1, disk[InFileSystem])
  /\ disk[InFileSystem].lstat = "ok"
  /\ Enter /\ Push(InFileSystem) /\ Count("treated") /\ Say("ok")
  /\ UNCHANGED <<source, disk, wrote, isolated, strays, verdict>>

\* Only what is a directory on both sides is entered.
DiffDifferent ==
  /\ Compared /\ Present(InFileSystem) /\ ~ Same(Next1, disk[InFileSystem])
  /\ disk[InFileSystem].lstat = "ok"
  /\ Count("errored") /\ Say("diff")
  /\ IF IsDir(Next1) /\ disk[InFileSystem].type # "dir" THEN Leave ELSE Enter
  /\ IF IsDir(Next1) THEN Push(InFileSystem) ELSE UNCHANGED <<current_dir, filename_pile>>
  /\ UNCHANGED <<source, disk, wrote, isolated, strays, verdict>>

\* An exception of read_filename: the catalogue entered the directory it may
\* be about, filesystem_diff did not.
DiffUnreadable ==
  /\ Compared /\ strays < MaxStrays
  /\ Present(InFileSystem) /\ disk[InFileSystem].lstat = "error"
  /\ Enter /\ Count("errored") /\ Say("err")
  /\ strays' = strays + 1
  /\ UNCHANGED <<source, fs, wrote, isolated, verdict>>

DiffEod ==
  /\ Running("diff") /\ Next1.type = "eod"
  /\ Enter /\ Pop
  /\ UNCHANGED <<source, wrote, isolated, said, st, strays>>

\* The last call is for the dates of the root.
DiffEnd ==
  /\ verdict = "none" /\ opts.op = "diff" /\ pos = Len(arch)
  /\ IF filename_pile = <<>> THEN verdict' = "SRC_BUG" /\ UNCHANGED filename_pile
     ELSE verdict' = "done" /\ filename_pile' = Front(filename_pile)
  /\ UNCHANGED <<source, disk, current_dir, pos, juillet, wrote, isolated, said, st, strays>>

-----------------------------------------------------------------------------
(* filtre_test: the inode of hard links is read until it was once. *)

Unreadable(x) == \/ x.type = "file" /\ x.saved /\ x.stored # x.crc
                 \/ x.ea = "full" /\ ~ x.ea_ok
Reads(x) == x.etiq \notin wrote
Corrupted(x) == Reads(x) /\ ~ opts.empty /\ Unreadable(x)

TestUncovered ==
  /\ Running("test") /\ Next1.type # "eod" /\ ~ Covered
  /\ Leave /\ Count("ignored") /\ Say("skipped")
  /\ UNCHANGED <<source, fs, wrote, isolated, strays, verdict>>
TestRead ==
  /\ Running("test") /\ Next1.type # "eod" /\ Covered
  /\ ~ (IsInode(Next1) /\ Corrupted(Next1))
  /\ Enter /\ Count("treated") /\ Say("ok")
  /\ wrote' = IF IsInode(Next1) THEN wrote \cup ({Next1.etiq} \ {0}) ELSE wrote
  /\ UNCHANGED <<source, fs, isolated, strays, verdict>>
TestCorrupted ==
  /\ Running("test") /\ IsInode(Next1) /\ Covered /\ Corrupted(Next1)
  /\ Enter /\ Count("errored") /\ Say("err")
  /\ UNCHANGED <<source, fs, wrote, isolated, strays, verdict>>

-----------------------------------------------------------------------------
(* filtre_isolate, filtre_sequentially_read_all_catalogue *)

\* The entries of one inode share its clone (mizar).
Isolate ==
  /\ Running("isolate")
  /\ Enter
  /\ LET known == IsInode(Next1) /\ Next1.etiq \in DOMAIN corres
         star == IF known THEN corres[Next1.etiq] ELSE pos + 1
     IN /\ cat' = Append(cat, [path |-> Next1.path, type |-> Next1.type, inode |-> star])
        /\ corres' = IF known \/ ~ IsInode(Next1) \/ Next1.etiq = 0 THEN corres
                     ELSE [n \in DOMAIN corres \cup {Next1.etiq} |->
                             IF n = Next1.etiq THEN star ELSE corres[n]]
  /\ UNCHANGED <<source, fs, wrote, said, st, strays, verdict>>

ReadsMarks(x) == IsInode(x) /\ (x.etiq = 0 \/ x.etiq \notin wrote)
ReadMarks ==
  /\ Running("readall")
  /\ Enter
  /\ IF ReadsMarks(Next1) /\ Next1.type = "file" /\ Next1.saved THEN Say("crc") ELSE UNCHANGED said
  /\ wrote' = IF IsInode(Next1) THEN wrote \cup ({Next1.etiq} \ {0}) ELSE wrote
  /\ UNCHANGED <<source, fs, isolated, st, strays, verdict>>

-----------------------------------------------------------------------------
(* A cancellation is seen between two entries; filtre_isolate blocks it. *)
Cancel ==
  /\ verdict = "none" /\ opts.op # "isolate" /\ opts.cancel
  /\ verdict' = "cancelled"
  /\ UNCHANGED <<source, fs, pos, juillet, wrote, isolated, said, st, strays>>

End ==
  /\ verdict = "none" /\ opts.op # "diff" /\ pos = Len(arch)
  /\ verdict' = "done"
  /\ UNCHANGED <<source, fs, pos, juillet, wrote, isolated, said, st, strays>>

\* filesystem_diff starts in the root, whose dates are the first it keeps.
Init ==
  /\ arch \in Archives /\ disk \in Disks /\ opts \in Options
  /\ pos = 0 /\ juillet = [path |-> <<>>, init |-> TRUE]
  /\ current_dir = <<>> /\ filename_pile = <<0>>
  /\ wrote = {} /\ cat = <<>> /\ corres = [n \in {} |-> 0]
  /\ said = {} /\ st = NoStats /\ strays = 0 /\ verdict = "none"

Next ==
  \/ DiffUncovered \/ DiffNoInode \/ DiffAbsent \/ DiffSame \/ DiffDifferent
  \/ DiffUnreadable \/ DiffEod \/ DiffEnd
  \/ TestUncovered \/ TestRead \/ TestCorrupted
  \/ Isolate \/ ReadMarks \/ Cancel \/ End

Spec == Init /\ [][Next]_vars

-----------------------------------------------------------------------------
(* Properties *)
Prefixes(p) == {SubSeq(p, 1, n) : n \in 1..(Len(p) - 1)}
Admitted(x) == /\ x.path \in opts.subtree /\ (IsDir(x) \/ x.path \notin opts.filtered)
               /\ Prefixes(x.path) \subseteq opts.subtree
Items == {k \in DOMAIN arch : arch[k].type # "eod"}

\* What dar -d says of each entry it is asked about is what comparing the two
\* trees path by path gives, for what is below directories of both: the three
\* cursors of the walk never part.  An inode that could not be read excepts.
ReportIsTheComparison ==
  opts.op = "diff" /\ verdict = "done" /\ strays = 0 =>
    \A k \in Items :
      LET x == arch[k]
          reached == /\ Admitted(x)
                     /\ \A p \in Prefixes(x.path) : Present(p) /\ disk[p].type = "dir"
          alike == Present(x.path) /\ Same(x, disk[x.path])
      IN /\ <<k, "ok">> \in said <=> reached /\ IsInode(x) /\ ~ Skipped(x) /\ alike
         /\ <<k, "diff">> \in said <=> reached /\ IsInode(x) /\ ~ Skipped(x) /\ ~ alike

\* Where an inode cannot be read only, filesystem_diff parts from the catalogue.
WalksTogether ==
  opts.op = "diff" /\ verdict = "none" /\ strays = 0 =>
    /\ current_dir = IF juillet.init THEN juillet.path
                     ELSE IF juillet.path = <<>> THEN <<>> ELSE Front(juillet.path)
    /\ Len(filename_pile) = Len(current_dir) + 1

\* The counters of a comparison or of a test add up to what was met.
EntriesAreCounted ==
  verdict = "done" /\ opts.op \in {"diff", "test"} =>
    LET first == {k \in Items : ~ (IsDir(arch[k]) /\ arch[k].again)}
    IN /\ st.treated + st.errored + st.ignored <= Cardinality(first)
       /\ st.errored >= Cardinality({k \in first : <<k, "err">> \in said})

\* A test that ends has reported each inode that does not read back, once for
\* every name asked for, and no other; hard links are read until one was.
CorruptionIsFound ==
  opts.op = "test" /\ verdict = "done" /\ ~ opts.empty =>
    \A k \in Items :
      LET x == arch[k]
      IN <<k, "err">> \in said <=>
           Admitted(x) /\ IsInode(x) /\ Unreadable(x)

\* An isolated catalogue has the entries of the archive in their order, and the
\* names of one inode, and they alone, share it.
IsolationKeepsLinks ==
  opts.op = "isolate" =>
    /\ Len(cat) = pos
    /\ \A i, j \in DOMAIN cat :
         cat[i].inode = cat[j].inode <=>
           i = j \/ (IsInode(arch[i]) /\ IsInode(arch[j]) /\ arch[i].etiq # 0 /\ arch[i].etiq = arch[j].etiq)

\* The CRC behind the data of an inode is read once.
MarksAreReadOnce ==
  opts.op = "readall" /\ verdict = "done" =>
    \A k \in Items : IsInode(arch[k]) /\ arch[k].type = "file" /\ arch[k].saved =>
      Cardinality({j \in Items : <<j, "crc">> \in said /\ (j = k \/ (arch[k].etiq # 0 /\ arch[j].etiq = arch[k].etiq))}) = 1
=============================================================================
