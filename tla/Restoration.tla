---------------------------- MODULE Restoration ----------------------------
(***************************************************************************)
(* Restoring an archive (libdar/filtre.cpp filtre_restore, filesystem.cpp  *)
(* filesystem_restore and filesystem_hard_link_write): every entry read    *)
(* from the catalogue is written at the current directory of the restored  *)
(* tree, against what is in place there.  The catalogue is read from       *)
(* memory ("direct") or from the marks left in the archive ("seq",         *)
(* libdar/escape_catalogue.cpp).                                           *)
(*                                                                         *)
(* An archive is a record: items, the entries between marks; dets, the     *)
(* directories and records of removed files read after them; all, the      *)
(* catalogue in memory; complete, FALSE when the backup was interrupted.   *)
(* An item carries the fields of Criteria and path (where the archive says *)
(* it belongs), etiq (0, or the number of the hard linked inode) and       *)
(* copies (the data as stored each time the file was read).  The end of a  *)
(* directory carries the path of that directory.                           *)
(***************************************************************************)
EXTENDS Integers, Sequences, FiniteSets

CONSTANTS Names,       \* the components of paths
          Archives, Disks, Policies, Options,
          MaxFaults,   \* bound on the failures of the system and the cancellations
          Decide(_, _, _),         \* what a policy does of an entry in place and one to restore
          OfDetruits,              \* the policy of a restoration of nothing but the removals
          DataAnswers, EAAnswers   \* what a user asked for an action answers

VARIABLES
  arch, opts, policy,   \* what is restored, and how
  disk,                 \* the restored tree: path -> inode number
  ino,                  \* the inodes, by number
  rd,                   \* the reader of the catalogue
  e,                    \* the entry read last
  juillet,              \* the path of that entry (defile)
  cur, stack,           \* current_dir and stack_dir of filesystem_restore
  corres,               \* corres_write: etiquette -> path and whether EA are restored
  ign,                  \* ignore_over_restricts
  pc, w,                \* where the iteration is, and the outcome of write()
  stats, faults, verdict, ghost

source == <<arch, opts, policy>>
tree == <<disk, ino>>
fs == <<cur, stack, corres, ign>>
reader == <<rd, e, juillet>>
ends == <<stats, verdict>>
vars == <<source, tree, reader, fs, pc, w, ends, faults, ghost>>

Eod == [type |-> "eod", path |-> <<>>]
Front(s) == SubSeq(s, 1, Len(s) - 1)
Last(s) == s[Len(s)]
Name(it) == Last(it.path)
Spot(it) == Append(cur, Name(it))
IsDir(it) == it.type = "dir"
IsDet(it) == it.type = "detruit"
Below(p, q) == Len(q) > Len(p) /\ SubSeq(q, 1, Len(p)) = p
Without(f, S) == [x \in DOMAIN f \ S |-> f[x]]
With(f, x, v) == [y \in DOMAIN f \cup {x} |-> IF y = x THEN v ELSE f[y]]

\* The directory the entry after x is in, and the one entry n + 1 of a sequence is in.
After(x) == IF IsDir(x) THEN x.path ELSE Front(x.path)
Where(s, n) == IF n = 0 THEN <<>> ELSE After(s[n])

\* A catalogue gives the tree in depth: a directory, what it holds, its end.
InOrder(s) ==
  \A i \in DOMAIN s :
    /\ s[i].path \in Seq(Names) /\ s[i].path # <<>>
    /\ Where(s, i - 1) = IF s[i].type = "eod" THEN s[i].path ELSE Front(s[i].path)
IsSeq(s) == s \in Seq({s[i] : i \in DOMAIN s})
Entries(s) == {s[i] : i \in {j \in DOMAIN s : s[j].type # "eod"}}

\* What is read in sequence is what the catalogue lists, a path has one entry, the
\* links of an inode have its name in the archive; only an interrupted archive
\* ends in the middle of a directory.
ASSUME ArchivesAreTrees ==
  \A a \in Archives :
    /\ \A s \in {a.items, a.dets, a.all} : IsSeq(s) /\ InOrder(s)
    /\ Entries(a.items) \cup Entries(a.dets) \subseteq Entries(a.all)
    /\ \A i \in DOMAIN a.all : IsDir(a.all[i]) =>
         \E j \in i..Len(a.all) : a.all[j].type = "eod" /\ a.all[j].path = a.all[i].path
    /\ a.complete => Where(a.items, Len(a.items)) = <<>>
    /\ \A x, y \in Entries(a.all) : /\ x.path = y.path => x = y
                                    /\ x.hard /\ y.hard /\ x.etiq = y.etiq => x.id = y.id
    /\ \A x \in Entries(a.all) : /\ x.type \in {"dir", "file", "detruit"} /\ x.id # "none"
                                 /\ x.hard => x.type = "file"
                                 /\ x.type = "dir" => Len(x.copies) = 1
                                 /\ x.saved = "saved" => x.copies # <<>>
                                 /\ x.mtime \in Int /\ x.size \in Int
                                 /\ x.copies \in Seq({"good", "bad", "empty"})

\* An inode of the restored tree: its data are a copy of the entry "id" of the
\* archive, or of none; its EA are named after where they come from.
Ids == {"none"} \cup UNION {{x.id : x \in Entries(a.all)} : a \in Archives}
Inodes ==
  [type : {"dir", "file"}, hard : {FALSE}, first : {FALSE}, saved : {"saved"}, mtime : Int,
   size : Int, dirty : {FALSE}, sparse : {FALSE}, ea : {"none", "full"}, ctime : Int,
   eanum : Int, easize : Int, eas : SUBSET {"archive", "own"}, id : Ids, copy : Nat]

ASSUME DisksAreTrees ==
  \A d \in Disks : /\ d.ino \in Seq(Inodes) /\ \A n \in DOMAIN d.ino : d.ino[n].id = "none"
                   /\ <<>> \in DOMAIN d.disk /\ d.ino[d.disk[<<>>]].type = "dir"
                   /\ \A p \in DOMAIN d.disk :
                        /\ d.disk[p] \in DOMAIN d.ino /\ p \in Seq(Names)
                        /\ \A k \in 0..(Len(p) - 1) : /\ SubSeq(p, 1, k) \in DOMAIN d.disk
                                                     /\ d.ino[d.disk[SubSeq(p, 1, k)]].type = "dir"
ASSUME OptionsAreKnown == \A o \in Options : o.mode \in {"direct", "seq"} /\ o.flat \in BOOLEAN

NothingDone == [res |-> "no_data", ea |-> FALSE, hard |-> FALSE, exc |-> "none",
                copy |-> 1, sized |-> FALSE]
NoStats == [treated |-> 0, hard_links |-> 0, skipped |-> 0, tooold |-> 0, deleted |-> 0,
            ignored |-> 0, errored |-> 0, ea_treated |-> 0]
Incr(c) == stats' = [stats EXCEPT ![c] = @ + 1]

-----------------------------------------------------------------------------
(* Reading the catalogue. *)

Begin(o) ==
  [status |-> IF o.mode = "seq" THEN "marks" ELSE "completed",
   pos |-> 0, depth |-> 0, wait |-> 0, marks |-> <<>>, eas |-> {}]

\* What follows the header of a saved file, read in sequence: a CRC after each
\* copy, a mark between two copies, a mark when the last is dirty, then the EA.
MarksOf(it) ==
  IF it.type \in {"eod", "detruit"} \/ (it.hard /\ ~ it.first) THEN <<>>
  ELSE IF it.type = "file" /\ it.saved = "saved"
  THEN [i \in 1..(2 * Len(it.copies) - 1) |-> IF i % 2 = 1 THEN "crc" ELSE "changed"]
       \o (IF it.dirty THEN <<"dirty">> ELSE <<>>)
       \o (IF it.ea = "full" THEN <<"ea">> ELSE <<>>)
  ELSE IF it.ea = "full" THEN <<"ea">> ELSE <<>>

\* A mark is found only when it is the next one.
NextMark(m) == rd.marks # <<>> /\ Head(rd.marks) = m
ReadSecondTimeDir == rd.status = "detruits"

\* Faulty: the end of a directory leaves the next entry in it.
EnfileKeepingInit(it) ==
  LET base == IF juillet.init THEN juillet.path ELSE Front(juillet.path)
  IN IF it.type = "eod" THEN [path |-> base, init |-> TRUE]
     ELSE [path |-> Append(base, Name(it)), init |-> IsDir(it)]
Enfile(it) ==
  LET base == IF juillet.init THEN juillet.path ELSE Front(juillet.path)
  IN IF it.type = "eod" THEN [path |-> base, init |-> FALSE]
     ELSE [path |-> Append(base, Name(it)), init |-> IsDir(it)]

Return(it) == /\ e' = it
              /\ pc' = "filter"
              /\ UNCHANGED <<source, tree, fs, juillet, w, ends, faults, ghost>>
Again == UNCHANGED <<source, tree, fs, e, juillet, pc, w, ends, faults, ghost>>
Stop(v) == /\ verdict' = v
           /\ pc' = "end"

\* catalogue::read: the tree in memory, to its end.
ReadDirect ==
  /\ pc = "reading" /\ rd.status = "completed" /\ rd.pos < Len(arch.all)
  /\ rd' = [rd EXCEPT !.pos = @ + 1]
  /\ Return(arch.all[rd.pos + 1])

ReadEnd ==
  /\ pc = "reading"
  /\ \/ rd.status = "completed" /\ rd.pos = Len(arch.all)
     \/ rd.status = "detruits" /\ rd.pos = Len(arch.dets)
  /\ Stop("done")
  /\ UNCHANGED <<source, tree, reader, fs, w, stats, faults, ghost>>

\* escape_catalogue::read between marks: the entries of a skipped directory are
\* swallowed until the end of that directory.
ReadMark ==
  /\ pc = "reading" /\ rd.status = "marks" /\ rd.pos < Len(arch.items)
  /\ LET it == arch.items[rd.pos + 1]
         depth == CASE IsDir(it) -> rd.depth + 1
                    [] it.type = "eod" -> rd.depth - 1
                    [] OTHER -> rd.depth
         next == [rd EXCEPT !.pos = @ + 1, !.depth = depth, !.marks = MarksOf(it)]
     IN IF rd.wait = 0
        THEN rd' = next /\ Return(it)
        ELSE /\ rd' = [next EXCEPT !.wait = IF depth < @ THEN 0 ELSE @]
             /\ Again

\* No mark is left: an interrupted archive gets the ends of its open directories,
\* the catalogue of a complete one gives the records of removed files.
ReadPastMarks ==
  /\ pc = "reading" /\ rd.status \in {"marks", "eod"} /\ rd.pos = Len(arch.items)
  /\ \/ /\ rd.depth > 0
        /\ rd' = [rd EXCEPT !.status = "eod", !.depth = @ - 1, !.marks = <<>>]
        /\ e' = Eod /\ pc' = "filter"
        /\ ghost' = [ghost EXCEPT !.strayed = @ \/ rd.wait > 0]
        /\ UNCHANGED <<source, tree, fs, juillet, w, ends, faults>>
     \/ /\ rd.depth = 0 /\ arch.complete
        /\ rd' = [rd EXCEPT !.status = "detruits", !.pos = 0, !.marks = <<>>]
        /\ Again
     \/ /\ rd.depth = 0 /\ ~ arch.complete
        /\ Stop("error")
        /\ UNCHANGED <<source, tree, reader, fs, w, stats, faults, ghost>>

ReadDetruits ==
  /\ pc = "reading" /\ rd.status = "detruits" /\ rd.pos < Len(arch.dets)
  /\ rd' = [rd EXCEPT !.pos = @ + 1]
  /\ Return(arch.dets[rd.pos + 1])

\* skip_read_to_parent_dir of the directory just read; there is none to skip
\* once the entries come from the catalogue of removed files.
SkipFails == rd.status \in {"eod", "detruits"}
AfterDir(s, i) == CHOOSE j \in i..Len(s) : s[j].type = "eod" /\ s[j].path = s[i].path
\* Faulty: the tree in memory is not skipped.
SkipInSequence ==
  rd' = IF rd.status = "marks" THEN [rd EXCEPT !.wait = rd.depth] ELSE rd
SkipRead ==
  rd' = IF rd.status = "marks" THEN [rd EXCEPT !.wait = rd.depth]
        ELSE [rd EXCEPT !.pos = AfterDir(arch.all, rd.pos)]

-----------------------------------------------------------------------------
(* filtre_restore: one iteration per entry. *)

\* The entries of the archive.
Listed == Entries(arch.all)

\* recursive_has_changed_update looks at inodes, never at hard links or records of
\* removed files.
RecursiveHasChanged(d) ==
  opts.mode = "direct" =>
    \E it \in Listed : /\ ~ IsDet(it) /\ it.etiq = 0 /\ Below(d, it.path)
                       /\ it.saved # "not_saved" \/ it.ea \in {"full", "removed"}

Covered(it, p) ==
  /\ p \in opts.mask
  /\ (it.type = "file" /\ it.dirty /\ opts.mode = "direct") => opts.dirty # "ignore"
  /\ IsDir(it) => /\ opts.emptydir \/ RecursiveHasChanged(it.path)
                  /\ ~ opts.flat
  /\ opts.restore = "only_deleted" => IsDir(it) \/ IsDet(it)
\* Whether a directory left out is left with all it holds.
LeavesTree(it, p) == p \notin opts.mask \/ ~ (opts.emptydir \/ RecursiveHasChanged(it.path))

\* check_self_cancellation, and the checks made while data are copied.
Cancel ==
  /\ pc = "filter" /\ faults > 0
  /\ faults' = faults - 1
  /\ Stop("cancelled")
  /\ UNCHANGED <<source, tree, reader, fs, w, stats, ghost>>

SkipDetruit ==
  /\ pc = "filter" /\ IsDet(e) /\ opts.restore = "not_deleted"
  /\ pc' = "reading"
  /\ UNCHANGED <<source, tree, reader, fs, w, ends, faults, ghost>>

LeaveDirectory ==
  /\ pc = "filter" /\ e.type = "eod"
  /\ juillet' = Enfile(e)
  /\ pc' = IF opts.flat THEN "reading" ELSE "eod"
  /\ UNCHANGED <<source, tree, rd, e, fs, w, ends, faults, ghost>>

Select ==
  /\ pc = "filter" /\ e.type # "eod"
  /\ ~ (IsDet(e) /\ opts.restore = "not_deleted")
  /\ LET j == Enfile(e) IN
     IF Covered(e, j.path)
     THEN /\ juillet' = j
          /\ \/ pc' = "write" /\ w' = NothingDone
             \/ /\ e.type = "file" /\ e.dirty /\ opts.mode = "direct" /\ opts.dirty = "warn"
                /\ pc' = "wrote" /\ w' = [NothingDone EXCEPT !.exc = "abort"]
          /\ ghost' = [ghost EXCEPT !.seen = @ + 1]
          /\ UNCHANGED <<rd, ends>>
     ELSE /\ IF IsDir(e) /\ ReadSecondTimeDir THEN UNCHANGED stats ELSE Incr("ignored")
          /\ IF IsDir(e) /\ LeavesTree(e, j.path)
             THEN IF SkipFails
                  THEN /\ Stop("bug") /\ juillet' = j /\ UNCHANGED <<rd>>
                  ELSE /\ SkipRead /\ pc' = "reading" /\ UNCHANGED verdict
                       /\ juillet' = [j EXCEPT !.init = FALSE]
             ELSE /\ juillet' = j /\ pc' = "reading" /\ UNCHANGED <<rd, verdict>>
          /\ ghost' = [ghost EXCEPT !.seen = @ + 1]
          /\ UNCHANGED w
  /\ UNCHANGED <<source, tree, e, fs, faults>>

-----------------------------------------------------------------------------
(* filesystem_restore::write.  Each step of it is a set of outcomes: memory and *)
(* tree, and the exception that left the step, if any.                       *)

Now == 9     \* the date of what is modified during the restoration
Mem == [disk |-> disk, ino |-> ino, corres |-> corres, marks |-> rd.marks, eas |-> rd.eas,
        faults |-> faults, stack |-> stack, res |-> "no_data", ea |-> FALSE, exc |-> "none",
        copy |-> w.copy, sized |-> w.sized,
        hard |-> e.hard /\ e.etiq \in DOMAIN corres]

Raise(m, x) == [m EXCEPT !.exc = x]
Then(S, Next(_)) == UNION {IF m.exc = "none" THEN Next(m) ELSE {m} : m \in S}
Fails(m, x) == IF m.faults > 0 THEN {[m EXCEPT !.faults = @ - 1, !.exc = x]} ELSE {}
\* A question asked when overwriting is to be confirmed.
Confirm(m, Agreed(_), refused) == Agreed(m) \cup (IF opts.warn THEN refused ELSE {})

Touch(m, p) ==
  IF Front(p) \in DOMAIN m.disk THEN [m EXCEPT !.ino[m.disk[Front(p)]].mtime = Now] ELSE m
Entry(it, copy) ==
  [type |-> it.type, hard |-> FALSE, first |-> FALSE, saved |-> "saved", mtime |-> it.mtime,
   size |-> it.size, dirty |-> FALSE, sparse |-> FALSE, ea |-> "none", ctime |-> Now,
   eanum |-> 0, easize |-> 0, eas |-> {}, id |-> it.id, copy |-> copy]
SetEA(m, p, eas) ==
  [m EXCEPT !.ino[m.disk[p]].eas = eas,
            !.ino[m.disk[p]].ea = IF eas = {} THEN "none" ELSE "full"]
Supprime(m, p) ==
  IF p \notin DOMAIN m.disk THEN {Raise(m, "range")}
  ELSE LET below == {q \in DOMAIN m.disk : Below(p, q)}
       IN {Touch([m EXCEPT !.disk = Without(@, below \cup {p})], p)}
          \cup Fails([m EXCEPT !.disk = Without(@, below)], "range")

(* make_file *)
Added(m, p, entry) ==
  Touch([m EXCEPT !.ino = Append(@, entry), !.disk = With(@, p, Len(m.ino) + 1)], p)
\* The CRC of a copy read in sequence: its position gives the size of the data
\* stored, which must not be known already.
ReadCRC(m, it) ==
  IF opts.mode = "direct" THEN {m}
  ELSE IF m.marks = <<>> \/ Head(m.marks) # "crc" THEN {Raise(m, "range")}
  ELSE IF m.sized THEN {Raise([m EXCEPT !.marks = Tail(@)], "bug")}
  ELSE {[m EXCEPT !.marks = Tail(@), !.sized = it.copies[m.copy] # "empty"]}
\* Faulty: a cancellation leaves the file as it is.
WriteDataLeft(m, p, it) ==
  LET k == IF opts.mode = "direct" THEN Len(it.copies) ELSE m.copy
      partial == Added(m, p, [Entry(it, 0) EXCEPT !.mtime = Now])
  IN IF it.saved # "saved" THEN {Raise(partial, "range")}
     ELSE Then(ReadCRC(partial, it),
               LAMBDA r : IF it.copies[k] = "bad" THEN {Raise(r, "range")}
                          ELSE {[r EXCEPT !.ino[Len(r.ino)] = Entry(it, k)]})
          \cup Fails(partial, "cancel")
WriteData(m, p, it) ==
  LET k == IF opts.mode = "direct" THEN Len(it.copies) ELSE m.copy
      partial == Added(m, p, [Entry(it, 0) EXCEPT !.mtime = Now])
  IN IF it.saved # "saved" THEN {Raise(partial, "range")}
     ELSE Then(ReadCRC(partial, it),
               LAMBDA r : IF it.copies[k] = "bad" THEN {Raise(r, "range")}
                          ELSE {[r EXCEPT !.ino[Len(r.ino)] = Entry(it, k)]})
          \cup Fails(Touch(m, p), "cancel")
\* Faulty: the first link is not recorded.
CreateUnrecorded(m, p, it) ==
  IF Front(p) \notin DOMAIN m.disk THEN {Raise(m, "range")}
  ELSE (IF it.type = "file" THEN WriteData(m, p, it) ELSE {Added(m, p, Entry(it, 1))})
       \cup Fails(m, "range") \cup Fails(m, "abort")
Create(m, p, it) ==
  LET new == it.hard /\ it.etiq \notin DOMAIN m.corres
  IN IF Front(p) \notin DOMAIN m.disk THEN {Raise(m, "range")}
     ELSE Then(IF it.type = "file" THEN WriteData(m, p, it) ELSE {Added(m, p, Entry(it, 1))},
               LAMBDA r : {IF new THEN [r EXCEPT !.corres = With(@, it.etiq, [path |-> p, ea |-> FALSE])] ELSE r})
          \cup Fails(m, "range") \cup Fails(m, "abort")

\* An inode already restored is linked to; where that cannot be (a directory, another
\* filesystem, the first link is gone) the inode is made again: read in sequence, its
\* data are passed.  Any other failure of link leaves nothing and raises nothing.
\* Faulty: the link that could not be made is still the one to link to.
MakeFileKeepingLink(m, p, it) ==
  LET target == m.corres[it.etiq].path
  IN IF ~ it.hard \/ it.etiq \notin DOMAIN m.corres THEN Create(m, p, it)
     ELSE IF target \notin DOMAIN m.disk \/ Front(p) \notin DOMAIN m.disk
     THEN IF it.saved = "saved" THEN Create(m, p, it) ELSE {m}
     ELSE {Touch([m EXCEPT !.disk = With(@, p, m.disk[target])], p)}
          \cup IF m.faults > 0 THEN Create([m EXCEPT !.faults = @ - 1], p, it) ELSE {}
MakeFile(m, p, it) ==
  LET target == m.corres[it.etiq].path
      forget == [m EXCEPT !.corres = Without(@, {it.etiq})]
  IN IF ~ it.hard \/ it.etiq \notin DOMAIN m.corres THEN Create(m, p, it)
     ELSE IF target \notin DOMAIN m.disk \/ Front(p) \notin DOMAIN m.disk
     THEN IF it.saved = "saved" THEN Create(forget, p, it) ELSE {m}
     ELSE IF m.ino[m.disk[target]].type = "dir" THEN Create(forget, p, it)
     ELSE {Touch([m EXCEPT !.disk = With(@, p, m.disk[target])], p)}
          \cup IF m.faults > 0
               THEN {[m EXCEPT !.faults = @ - 1]} \cup Create([forget EXCEPT !.faults = @ - 1], p, it)
               ELSE {}

(* EA: those of an inode with several links are restored once. *)
GetEA(m, it) ==
  IF opts.mode = "direct" \/ it.ea = "removed" \/ it.id \in m.eas THEN {m}
  ELSE IF m.marks # <<>> /\ Head(m.marks) = "ea"
  THEN {[m EXCEPT !.marks = Tail(@), !.eas = @ \cup {it.id}]}
  ELSE {Raise(m, "range")}
Given(it) == IF it.ea = "full" THEN {"archive"} ELSE {}
EADone(m, it) == it.hard /\ it.etiq \in DOMAIN m.corres /\ m.corres[it.etiq].ea
\* Faulty: what is no hard link is recorded too.
RecordAll(m, p, it, done) ==
  [m EXCEPT !.corres = With(@, it.etiq,
     [path |-> IF it.etiq \in DOMAIN @ THEN @[it.etiq].path ELSE p, ea |-> done])]
Record(m, p, it, done) ==
  IF ~ it.hard THEN m
  ELSE [m EXCEPT !.corres = With(@, it.etiq,
          [path |-> IF it.etiq \in DOMAIN @ THEN @[it.etiq].path ELSE p, ea |-> done])]
RawSetEA(m, p, it, given) ==
  IF EADone(m, it) THEN {m}
  ELSE LET r == Record(m, p, it, TRUE)
       IN IF p \notin DOMAIN m.disk THEN {Raise(r, "range")}
          ELSE {[SetEA(r, p, r.ino[r.disk[p]].eas \cup given) EXCEPT !.ea = TRUE]}
               \cup Fails(r, "range")
RawClearEA(m, p, it) == IF p \in DOMAIN m.disk THEN {SetEA(Record(m, p, it, FALSE), p, {})}
                        ELSE {Raise(Record(m, p, it, FALSE), "range")}

HasData(it) == it.type # "detruit" /\ it.saved = "saved"
HasEASaved(it) == it.type # "detruit" /\ it.ea \in {"full", "removed"}
MarkParent(m) ==
  IF m.stack = <<>> THEN m ELSE [m EXCEPT !.stack[Len(m.stack)].restore = TRUE]
SetDate(m, p, date) == IF p \in DOMAIN m.disk THEN [m EXCEPT !.ino[m.disk[p]].mtime = date] ELSE m

\* Nothing of that name is in place.
WriteNew(m, p, it) ==
  IF IsDet(it) THEN {Raise(m, "range")}
  ELSE IF (HasData(it) \/ m.hard \/ IsDir(it)) /\ ~ opts.only_overwrite
  THEN Then(IF opts.empty THEN {m} ELSE MakeFile(m, p, it),
            LAMBDA r :
              LET done == MarkParent([r EXCEPT !.res = "restored"])
              IN IF ~ HasEASaved(it) THEN {done}
                 ELSE IF opts.empty THEN {[done EXCEPT !.ea = TRUE]}
                 ELSE Then(Then(GetEA(done, it), LAMBDA g : RawSetEA(g, p, it, Given(it))),
                           LAMBDA s : {SetDate(s, p, it.mtime)}))
  ELSE {[m EXCEPT !.hard = FALSE]}

BothDirs(m, p, it) == IsDir(it) /\ ino[disk[p]].type = "dir"
OverwriteData(m, p, it) ==
  LET kept == m.ino[m.disk[p]].eas
      done(r) == {[r EXCEPT !.res = "restored"]}
  IN IF BothDirs(m, p, it)
     THEN done(IF opts.empty THEN m ELSE SetDate(m, p, it.mtime))
     ELSE IF opts.empty THEN {m}
     ELSE Then(Supprime(m, p), LAMBDA r :
          Then(MakeFile(r, p, it), LAMBDA s :
               done(IF kept # {} /\ p \in DOMAIN s.disk
                    THEN SetEA(s, p, s.ino[s.disk[p]].eas \cup kept) ELSE s)))
OverData(m, p, it, action) ==
  CASE action \in {"preserve", "preserve_mark_saved"} ->
         IF IsDir(it) /\ ~ BothDirs(m, p, it) THEN {Raise(m, "range")}
         ELSE {[m EXCEPT !.res = "policy"]}
    [] action \in {"overwrite", "overwrite_mark_saved"} ->
         Confirm(m, LAMBDA r : OverwriteData(r, p, it),
                 {IF BothDirs(m, p, it) THEN [m EXCEPT !.res = "policy"] ELSE Raise(m, "abort")})
    [] action = "remove" ->
         Confirm(m, LAMBDA r : Then(IF opts.empty THEN {r} ELSE Supprime(r, p),
                                    LAMBDA s : {[s EXCEPT !.res = "removed"]}),
                 {Raise(m, "abort")})
    [] action = "undefined" -> {Raise(m, "range")}
    [] action = "abort" -> {Raise(m, "abort")}
    [] OTHER -> {Raise(m, "bug")}

\* Merging where one side has no EA.
EAToDo(it, place, action) ==
  LET merge == {"merge_preserve", "merge_overwrite"}
      first == IF place.ea # "full" /\ action \in merge THEN "overwrite" ELSE action
  IN IF it.ea = "removed" /\ first \in merge THEN "clear" ELSE first
OverEA(m, p, it, place, action) ==
  LET todo == EAToDo(it, place, action)
      unchanged == {[m EXCEPT !.ea = FALSE]}
  IN CASE todo \in {"preserve", "preserve_mark_saved"} -> unchanged
       [] todo \in {"overwrite", "overwrite_mark_saved"} ->
            Confirm(m,
              LAMBDA r : IF ~ opts.empty /\ EADone(r, it) THEN unchanged
                         ELSE Then(IF opts.empty THEN {r} ELSE RawClearEA(r, p, it),
                              LAMBDA s : Then(GetEA(s, it),
                              LAMBDA g : IF opts.empty THEN {[g EXCEPT !.ea = TRUE]}
                                         ELSE RawSetEA(g, p, it, Given(it)))),
              IF BothDirs(m, p, it) THEN unchanged ELSE {Raise(m, "abort")})
       [] todo = "clear" ->
            Confirm(m,
              LAMBDA r : IF opts.empty THEN {[r EXCEPT !.ea = TRUE]}
                         ELSE IF EADone(r, it) THEN unchanged
                         ELSE Then(RawClearEA(r, p, it), LAMBDA s : {[s EXCEPT !.ea = TRUE]}),
              unchanged)
       [] todo \in {"merge_preserve", "merge_overwrite"} ->
            Confirm(m, LAMBDA r : Then(GetEA(r, it), LAMBDA g :
                         IF opts.empty THEN {[g EXCEPT !.ea = TRUE]}
                         ELSE RawSetEA(g, p, it, Given(it) \cup place.eas)), unchanged)
       [] todo = "undefined" -> {Raise(m, "range")}
       [] todo = "abort" -> {Raise(m, "abort")}
       [] OTHER -> {Raise(m, "bug")}

OverRemove(m, p, action) ==
  CASE action \in {"preserve", "preserve_mark_saved"} -> {m}
    [] action \in {"overwrite", "overwrite_mark_saved", "remove"} ->
         Confirm(m, LAMBDA r : IF opts.empty THEN {r} ELSE Supprime(r, p), {Raise(m, "abort")})
    [] action = "undefined" -> {Raise(m, "range")}
    [] action = "abort" -> {Raise(m, "abort")}
    [] OTHER -> {Raise(m, "bug")}

\* An entry of that name is in place: the policy decides.
WriteOver(m, p, it) ==
  LET place == ino[disk[p]]
      act == Decide(IF opts.restore = "only_deleted" THEN OfDetruits ELSE policy, place, it)
      data == IF act.data = "ask" THEN DataAnswers ELSE {act.data}
      ea == IF act.ea = "ask" THEN EAAnswers ELSE {act.ea}
      target == IF it.hard /\ it.etiq \notin DOMAIN m.corres
                THEN [m EXCEPT !.corres = With(@, it.etiq, [path |-> p, ea |-> FALSE])] ELSE m
      dated(r) == {SetDate(r, p, IF r.res = "restored" THEN it.mtime ELSE place.mtime)}
  IN UNION {
       IF IsDet(it)
       THEN Then(OverRemove(m, p, d), LAMBDA r : {MarkParent([r EXCEPT !.res = "removed", !.hard = FALSE])})
       ELSE Then(IF HasData(it) THEN OverData(m, p, it, d) ELSE {target}, LAMBDA r :
            LET s == [r EXCEPT !.hard = @ /\ r.res = "restored"] IN
            Then(IF act.data # "remove" /\ HasEASaved(it)
                 THEN UNION {Then(OverEA(s, p, it, place, x), dated) : x \in ea} ELSE {s},
                 LAMBDA t : {IF act.data = "remove" THEN MarkParent(t) ELSE t}))
       : d \in data}

-----------------------------------------------------------------------------
(* The actions of the restoration. *)

\* A directory is entered when it was made or one is there; the entries read
\* below another one are out of step with the directory they are written in.
Entered(m, p, it) ==
  p \notin DOMAIN disk \/ ino[disk[p]].type = "dir" \/ m.res = "restored"
Save(m) ==
  /\ disk' = m.disk /\ ino' = m.ino /\ corres' = m.corres /\ faults' = m.faults
  /\ rd' = [rd EXCEPT !.marks = m.marks, !.eas = m.eas]
  /\ w' = [res |-> m.res, ea |-> m.ea, hard |-> m.hard, exc |-> m.exc, copy |-> m.copy, sized |-> m.sized]

Write ==
  /\ pc = "write"
  /\ LET p == Spot(e)
         again == Then(Supprime(Mem, p), LAMBDA r : WriteNew(r, p, e))
         outcomes == IF ign THEN again
                     ELSE IF p \notin DOMAIN disk THEN WriteNew(Mem, p, e) ELSE WriteOver(Mem, p, e)
     IN \E m \in outcomes :
          /\ Save(m)
          /\ IF IsDir(e) /\ m.exc = "none" /\ Entered(m, p, e)
             THEN /\ cur' = p
                  /\ stack' = Append(m.stack, [name |-> Name(e), date |-> e.mtime,
                                              restore |-> m.res = "restored"])
             ELSE cur' = cur /\ stack' = m.stack
          /\ ghost' = [ghost EXCEPT !.strayed = @ \/ (IsDir(e) /\ m.exc = "none" /\ ~ Entered(m, p, e))]
  /\ ign' = FALSE
  /\ pc' = "wrote"
  /\ UNCHANGED <<source, e, juillet, ends>>

\* Reading in sequence, the next copy of a file that changed while it was saved
\* replaces the one just restored.
NextCopy ==
  /\ pc = "wrote" /\ w.exc \in {"none", "range"}
  /\ NextMark("changed") /\ w.res = "restored"
  /\ rd' = [rd EXCEPT !.marks = Tail(@)]
  /\ corres' = IF e.hard /\ e.etiq \in DOMAIN corres /\ corres[e.etiq].path = juillet.path
               THEN Without(corres, {e.etiq}) ELSE corres
  /\ ign' = TRUE
  /\ w' = [w EXCEPT !.copy = @ + 1, !.res = "no_data", !.ea = FALSE]
  /\ pc' = "write"
  /\ UNCHANGED <<source, tree, e, juillet, cur, stack, ends, faults, ghost>>

\* What an entry that failed or was refused leads to.
GiveUp(counted) ==
  /\ IF counted THEN Incr(IF w.exc = "abort" THEN "ignored" ELSE "errored") ELSE UNCHANGED stats
  /\ IF IsDir(e) /\ ~ opts.flat
     THEN IF SkipFails
          THEN Stop("bug") /\ UNCHANGED <<rd, juillet>>
          ELSE /\ SkipRead /\ juillet' = [juillet EXCEPT !.init = FALSE]
               /\ pc' = "reading" /\ UNCHANGED verdict
     ELSE pc' = "reading" /\ UNCHANGED <<rd, juillet, verdict>>

MoreCopies == NextMark("changed") /\ w.res = "restored"
\* A mark "changed" found once there is nothing to replace is gone all the same.
\* Faulty: the CRC that was not read is passed.
ReachedPastCRC == IF rd.marks # <<>> /\ Head(rd.marks) \in {"crc", "changed"} THEN Tail(rd.marks) ELSE rd.marks
Reached == IF NextMark("changed") /\ w.res # "restored" THEN Tail(rd.marks) ELSE rd.marks

Failed ==
  /\ pc = "wrote" /\ (w.exc = "abort" \/ (w.exc = "range" /\ ~ MoreCopies))
  /\ GiveUp(IF w.exc = "abort" THEN ~ (IsDir(e) /\ ReadSecondTimeDir)
            ELSE opts.restore # "only_deleted" /\ ~ (IsDir(e) /\ ReadSecondTimeDir))
  /\ UNCHANGED <<source, tree, e, fs, w, faults, ghost>>

Interrupted ==
  /\ pc = "wrote" /\ w.exc \in {"cancel", "bug"}
  /\ Stop(IF w.exc = "cancel" THEN "cancelled" ELSE "bug")
  /\ UNCHANGED <<source, tree, reader, fs, w, stats, faults, ghost>>

\* The restored file turns out to be dirty: it is removed unless told otherwise.
DirtyFile ==
  /\ pc = "wrote" /\ w.exc = "none" /\ ~ MoreCopies
  /\ Reached # <<>> /\ Head(Reached) = "dirty"
  /\ \/ /\ opts.dirty # "ok"
        /\ \E m \in Supprime([Mem EXCEPT !.marks = Tail(Reached)], Spot(e)) :
             /\ Save([m EXCEPT !.res = w.res, !.ea = w.ea, !.hard = w.hard])
             /\ stack' = IF m.exc = "none" THEN MarkParent(m).stack ELSE stack
     \/ /\ opts.dirty # "ignore"     \* wanted, or the answer to the question is no
        /\ Save([Mem EXCEPT !.marks = Tail(Reached), !.res = w.res, !.ea = w.ea, !.hard = w.hard,
                            !.exc = IF opts.dirty = "ok" THEN "none" ELSE "abort"])
        /\ UNCHANGED stack
  /\ pc' = IF w'.exc = "none" THEN "count" ELSE "wrote"
  /\ UNCHANGED <<source, e, juillet, cur, ign, ends, ghost>>

Settled ==
  /\ pc = "wrote" /\ w.exc = "none" /\ ~ MoreCopies
  /\ ~ (Reached # <<>> /\ Head(Reached) = "dirty")
  /\ rd' = [rd EXCEPT !.marks = Reached]
  /\ pc' = "count"
  /\ UNCHANGED <<source, tree, e, juillet, fs, w, ends, faults, ghost>>

\* Faulty: an entry without data is counted with those the policy left, too.
CountTwice ==
  /\ pc = "count"
  /\ LET counters == CASE w.res = "restored" -> {"treated"}
                       [] w.res = "no_data" -> {"skipped", "tooold"}
                       [] w.res = "policy" -> {"tooold"}
                       [] w.res = "removed" -> {"deleted"}
     IN stats' = [c \in DOMAIN stats |-> stats[c] + (IF c \in counters THEN 1 ELSE 0)]
  /\ pc' = "reading"
  /\ UNCHANGED <<source, tree, reader, fs, w, verdict, faults, ghost>>

Count ==
  /\ pc = "count"
  /\ LET counter == CASE w.res = "restored" -> "treated"
                      [] w.res = "no_data" -> "skipped"
                      [] w.res = "policy" -> "tooold"
                      [] w.res = "removed" -> "deleted"
         again == IsDir(e) /\ ReadSecondTimeDir /\ w.res = "restored"
     IN stats' = [c \in DOMAIN stats |->
                    stats[c] + (IF c = counter /\ ~ again THEN 1 ELSE 0)
                             + (IF c = "hard_links" /\ w.hard THEN 1 ELSE 0)
                             + (IF c = "ea_treated" /\ w.ea THEN 1 ELSE 0)]
  /\ pc' = "reading"
  /\ UNCHANGED <<source, tree, reader, fs, w, verdict, faults, ghost>>

\* Faulty: the directory is looked for in itself.
WriteEodTooDeep ==
  /\ pc = "eod"
  /\ IF stack = <<>>
     THEN Stop("bug") /\ UNCHANGED <<ino, cur, stack>>
     ELSE /\ pc' = "reading" /\ UNCHANGED verdict
          /\ cur' = Front(cur)
          /\ stack' = Front(stack)
          /\ LET p == Append(cur, Last(stack).name) IN
             ino' = IF ~ opts.empty /\ Last(stack).restore /\ p \in DOMAIN disk
                    THEN [ino EXCEPT ![disk[p]].mtime = Last(stack).date] ELSE ino
  /\ UNCHANGED <<source, disk, reader, corres, ign, w, stats, faults, ghost>>
\* The end of a directory: its dates are set back when something changed in it.
WriteEod ==
  /\ pc = "eod"
  /\ IF stack = <<>>
     THEN Stop("bug") /\ UNCHANGED <<ino, cur, stack>>
     ELSE /\ pc' = "reading" /\ UNCHANGED verdict
          /\ cur' = Front(cur)
          /\ stack' = Front(stack)
          /\ LET p == Append(Front(cur), Last(stack).name) IN
             ino' = IF ~ opts.empty /\ Last(stack).restore /\ p \in DOMAIN disk
                    THEN [ino EXCEPT ![disk[p]].mtime = Last(stack).date] ELSE ino
  /\ UNCHANGED <<source, disk, reader, corres, ign, w, stats, faults, ghost>>

\* The destructor sets the dates of the directories still open, whatever the
\* policy did to them.
Destroy ==
  /\ pc = "end"
  /\ pc' = "gone"
  /\ stack' = <<>> /\ cur' = <<>>
  /\ ino' = [n \in DOMAIN ino |->
       LET here == {i \in 1..Len(stack) : i <= Len(cur) /\
                      LET p == Append(SubSeq(cur, 1, Len(cur) - (Len(stack) - i) - 1), stack[i].name)
                      IN p \in DOMAIN disk /\ disk[p] = n}
       IN IF opts.empty \/ here = {} THEN ino[n]
          ELSE [ino[n] EXCEPT !.mtime = stack[CHOOSE i \in here : TRUE].date]]
  /\ UNCHANGED <<source, disk, reader, corres, ign, w, ends, faults, ghost>>

Init ==
  /\ arch \in Archives /\ opts \in Options /\ policy \in Policies
  /\ \E d \in Disks : disk = d.disk /\ ino = d.ino
  /\ rd = Begin(opts)
  /\ e = Eod /\ juillet = [path |-> <<>>, init |-> TRUE]
  /\ cur = <<>> /\ stack = <<>> /\ corres = <<>> /\ ign = FALSE
  /\ pc = "reading" /\ w = NothingDone /\ stats = NoStats
  /\ faults = MaxFaults /\ verdict = "none"
  /\ ghost = [seen |-> 0, strayed |-> FALSE]

Next ==
  \/ ReadDirect \/ ReadEnd \/ ReadMark \/ ReadPastMarks \/ ReadDetruits
  \/ Cancel \/ SkipDetruit \/ LeaveDirectory \/ Select
  \/ Write \/ NextCopy \/ DirtyFile \/ Settled \/ Count
  \/ Failed \/ Interrupted \/ WriteEod \/ Destroy

Spec == Init /\ [][Next]_vars

-----------------------------------------------------------------------------
(* Properties.                                                             *)

Restored(p) == ino[disk[p]].id # "none"
JuilletDir == IF juillet.init THEN juillet.path ELSE Front(juillet.path)

\* The state stays in its types; a hard link recorded is one of the archive.
TypeOK ==
  /\ pc \in {"reading", "filter", "write", "wrote", "count", "eod", "end", "gone"}
  /\ verdict \in {"none", "done", "error", "cancelled", "bug"}
  /\ rd.status \in {"completed", "marks", "eod", "detruits"}
  /\ \A p \in DOMAIN disk : disk[p] \in DOMAIN ino
  /\ DOMAIN corres \subseteq {it.etiq : it \in Listed} \ {0}
  /\ faults \in 0..MaxFaults

\* Wherever an entry is read from, left out, refused or failed, the directory it is
\* written in is the one the catalogue is in; but for a directory that could not
\* be entered (filesystem.cpp:1457).
InStep ==
  (pc = "reading" /\ ~ ghost.strayed) =>
     /\ Len(stack) = Len(cur)
     /\ cur = IF opts.flat THEN <<>> ELSE JuilletDir

\* What is restored is found at the path the archive gives it.
AtItsPath ==
  (~ ghost.strayed /\ ~ opts.flat) =>
    \A p \in DOMAIN disk : Restored(p) =>
       \E it \in Listed : it.path = p /\ it.id = ino[disk[p]].id

\* The inodes restored that are not the last copy of an entry.
Stale == {n \in {disk[p] : p \in DOMAIN disk} :
            ino[n].id # "none" /\ \A it \in Listed : it.id = ino[n].id => ino[n].copy # Len(it.copies)}

\* The last copy of a file saved several times is the one that stays
\* (filtre.cpp:276-279); an earlier one, or a part of one, is there only with an
\* entry reported in error or refused by the user, and a cancellation leaves none (filesystem.cpp:1179).
LastCopyOrReported ==
  (pc \in {"reading", "gone"} /\ verdict # "bug") => Cardinality(Stale) <= stats.errored + stats.ignored

\* The names of one inode of the archive are names of one inode again, unless the
\* system refused something.
HardLinksShared ==
  (faults = MaxFaults /\ pc = "reading" /\ ~ ghost.strayed) =>
    \A p, q \in DOMAIN disk :
      (Restored(p) /\ ino[disk[p]].id = ino[disk[q]].id) => disk[p] = disk[q]

\* A directory made by the restoration ends with the date of the archive, whatever
\* was written in it, and when the restoration ends in the middle of it too.
RestoredDirKeepsDate ==
  (pc = "gone" /\ verdict # "bug" /\ ~ ghost.strayed) =>
    \A p \in DOMAIN disk :
      (Restored(p) /\ ino[disk[p]].type = "dir") =>
        \E it \in Listed : it.id = ino[disk[p]].id /\ it.mtime = ino[disk[p]].mtime

\* Every entry of the catalogue is counted once, whatever became of it.
EveryEntryCounted ==
  (verdict = "done" /\ opts.mode = "direct" /\ opts.restore = "all") =>
    ghost.seen = stats.treated + stats.skipped + stats.tooold + stats.deleted
                 + stats.ignored + stats.errored

\* filtre_restore: catalogue, path and current directory stay at one place
\* whatever an entry ends in, and each entry is counted once.
WalkIsInStep == InStep /\ AtItsPath /\ EveryEntryCounted

\* An inode made where nothing is in place, or for the next copy of a file, has the EA
\* of its entry once write() ends without an exception, the duplicate made where a link
\* cannot be made included (filesystem.cpp:1003-1005).
NewInodeHasItsEA ==
  [][(/\ pc = "write" /\ w'.exc = "none" /\ w'.res = "restored" /\ e.ea = "full" /\ ~ opts.empty
      /\ ign \/ Spot(e) \notin DOMAIN disk
      /\ Spot(e) \in DOMAIN disk' /\ disk'[Spot(e)] \notin DOMAIN ino) =>
        "archive" \in ino'[disk'[Spot(e)]].eas]_vars

\* What the policy leaves as it is in place of the entry being written.
Spared ==
  LET act == Decide(IF opts.restore = "only_deleted" THEN OfDetruits ELSE policy, ino[disk[Spot(e)]], e)
  IN /\ act.data \in {"preserve", "preserve_mark_saved"}
     /\ act.ea \in {"preserve", "preserve_mark_saved"}
\* What write() decides on: the entry in place, what it holds, its other names.
Decided(p) == /\ pc = "write" /\ ~ ign /\ Spot(e) \in DOMAIN disk /\ ~ Spared
              /\ p = Spot(e) \/ Below(Spot(e), p) \/ disk[p] = disk[Spot(e)]
LinkedTo(n) == \E x \in DOMAIN corres : corres[x].path \in DOMAIN disk /\ disk[corres[x].path] = n
\* An inode as it was, a directory but for its date.
SameInode(i, j) == j = i \/ (i.type = "dir" /\ j = [i EXCEPT !.mtime = j.mtime])

\* What was in place before the restoration is there as it was, unless the policy decided
\* otherwise of that entry or of a directory above it: neither a later copy nor
\* the removal of a dirty file, nor the dates set back, reach it; but for the dates of directories,
\* and an inode that the links of the archive are linked to.  A dry run changes
\* nothing but dates of directories (filesystem.cpp:1442).
PreservedUntouched ==
  [][/\ \A p \in DOMAIN disk :
          (~ Restored(p) /\ ~ LinkedTo(disk[p]) /\ ~ Decided(p)) =>
            p \in DOMAIN disk' /\ disk'[p] = disk[p] /\ SameInode(ino[disk[p]], ino'[disk[p]])
     /\ opts.empty => /\ disk' = disk
                      /\ \A n \in DOMAIN ino : SameInode(ino[n], ino'[n])]_vars

\* Names of one inode are names of one inode again, and directories made keep their date.
LinksAndDates == HardLinksShared /\ RestoredDirKeepsDate

\* The restoration meets no state the code holds impossible: the size of the data
\* stored is not known before its CRC is read (catalogue.cpp:2255), no end of
\* directory is left once all directories are closed (filesystem.cpp:1296).
NoBug == verdict # "bug"
=============================================================================
