------------------------------ MODULE Entries ------------------------------
(***************************************************************************)
(* How the entries of a catalogue are written and read (catalogue.cpp):    *)
(* whole, one after the other at the end of the archive, a directory being *)
(* followed by what it contains; or small, along with the data of each, a  *)
(* mark before and a CRC after.  A field (a name, a number, a flag, a CRC) *)
(* is one item of the file, and a CRC the exclusive or of what it covers.  *)
(***************************************************************************)
EXTENDS Integers, Sequences, SequencesExt, FiniteSetsExt, Bitwise, TLC

CONSTANTS Inputs,   \* what to write
          Changes   \* by which an item may be changed

VARIABLES input,    \* what is written
          bytes,    \* the items of the file; those of each entry when along with data
          step,     \* "asked", "written", "cut", "changed" or "read"
          got       \* what was read; of each entry when along with data

entryVars == <<input, bytes, step, got>>

Sum(items) == FoldSeq(LAMBDA item, sum : item ^^ sum, 0, items)

-----------------------------------------------------------------------------
(* Signatures: a letter, in upper case when data is not saved. *)

SavedFakeBit == 128
Letter == [file |-> 102, symlink |-> 108, chardev |-> 99, blockdev |-> 98, tube |-> 112, prise |-> 115, door |-> 111,
           dir |-> 100, mirage |-> 109, eod |-> 122, detruit |-> 120, hard_link |-> 104, etiquette |-> 101]
MkSignature(type, saved) ==
  Letter[type] + (CASE saved = "saved" -> 0 [] saved = "fake" -> SavedFakeBit [] saved = "not_saved" -> -32)

\* The letter in lower case and the status, if this is one.
Lower(c) == IF c \in 65..90 THEN c + 32 ELSE c
ExtractBaseAndStatus(signature) ==
  LET c == signature % SavedFakeBit
      fake == signature >= SavedFakeBit
  IN [ok |-> Lower(c) \in 97..122 /\ (fake => Lower(c) = c), base |-> Lower(c),
      saved |-> IF fake THEN "fake" ELSE IF Lower(c) = c THEN "saved" ELSE "not_saved"]

EAFlag == [full |-> 1, partial |-> 2, none |-> 3, fake |-> 4, removed |-> 5]
EAFlagMask == 8
MirageAlone == 88
MirageWithInode == 62
FileDataIsDirty == 2
Compressions == {108, 110, 121, 122} \* l, n, y, z

FileTypes == {"file", "door"}
Inodes == FileTypes \cup {"symlink", "chardev", "blockdev", "tube", "prise", "dir"}

-----------------------------------------------------------------------------
(* Writing.  refs(etiquette) is how many names a hard linked inode has, and *)
(* done those that were written.                                            *)

InodeDump(i, small) ==
  <<MkSignature(i.type, i.saved), i.name, EAFlag[i.ea]>> \o i.common
  \o (IF i.ea # "full" THEN <<>> ELSE IF small THEN <<i.ea_size>> ELSE <<i.ea_size, i.ea_offset, i.ea_crc>>)
FileDump(i, small) ==
  <<i.size>>
  \o (IF i.saved # "saved" THEN <<>>
      ELSE IF small THEN <<i.flags, i.algo>>
      ELSE <<i.offset, i.storage_size, i.flags + (IF i.dirty THEN FileDataIsDirty ELSE 0), i.algo, i.check>>)
LienDump(i) == IF i.saved = "saved" THEN <<i.target>> ELSE <<>>
DeviceDump(i) == IF i.saved = "saved" THEN <<i.major, i.minor>> ELSE <<>>
DetruitDump(x) == <<Letter["detruit"], x.name, x.signe, x.date>>
EodDump == <<Letter["eod"]>>

RECURSIVE InheritedDump(_, _, _, _), DirectoryDump(_, _, _, _)
\* What is written, and the hard linked inodes written with it.
InheritedDump(e, small, refs, done) ==
  LET Written(items) == [items |-> items, done |-> done]
  IN CASE e.type \in FileTypes -> Written(InodeDump(e, small) \o FileDump(e, small))
       [] e.type = "symlink" -> Written(InodeDump(e, small) \o LienDump(e))
       [] e.type \in {"chardev", "blockdev"} -> Written(InodeDump(e, small) \o DeviceDump(e))
       [] e.type \in {"tube", "prise"} -> Written(InodeDump(e, small))
       [] e.type = "detruit" -> Written(DetruitDump(e))
       [] e.type = "eod" -> Written(EodDump)
       [] e.type = "ignored_dir" ->
            Written(InodeDump([e EXCEPT !.type = "dir", !.ea = "none"], small) \o EodDump)
       [] e.type = "dir" ->
            LET children == IF small THEN <<>> ELSE e.children
                inside == DirectoryDump(children, small, refs, done)
            IN [inside EXCEPT !.items = InodeDump(e, small) \o @ \o EodDump]
       [] e.type = "mirage" /\ refs[e.etiquette] > 1 ->
            LET header == <<Letter["mirage"], e.name, e.etiquette>>
            IN IF e.etiquette \in done THEN Written(Append(header, MirageAlone))
               ELSE [items |-> Append(header, MirageWithInode) \o InheritedDump(e.inode, small, refs, done).items,
                     done |-> done \cup {e.etiquette}]
       [] e.type = "mirage" /\ refs[e.etiquette] <= 1 ->
            InheritedDump([e.inode EXCEPT !.name = e.name], small, refs, done)
\* What was ignored is not recorded.
DirectoryDump(children, small, refs, done) ==
  IF children = <<>> THEN [items |-> <<>>, done |-> done]
  ELSE IF Head(children).type = "ignored" THEN DirectoryDump(Tail(children), small, refs, done)
  ELSE LET first == InheritedDump(Head(children), small, refs, done)
           others == DirectoryDump(Tail(children), small, refs, first.done)
       IN [others EXCEPT !.items = first.items \o @]

\* entree::dump, of an entry along with its data.
SmallDump(e, refs, done) ==
  LET dump == InheritedDump(e, TRUE, refs, done) IN [dump EXCEPT !.items = Append(@, Sum(@))]
CatalogueDump(name, contenu, refs) ==
  LET items == <<name>> \o InheritedDump(contenu, FALSE, refs, {}).items IN Append(items, Sum(items))

-----------------------------------------------------------------------------
(* Reading.  x is what the reader is given: the file f, the position its    *)
(* first item has, the edition of the format, whether entries are small,    *)
(* what the user answers; s is how far it is, the hard linked inodes it     *)
(* knows and what it counted.                                               *)

Got(v, s) == [ok |-> TRUE, v |-> v, s |-> s]
NoEntry == [type |-> "none"]
Refused(s) == [ok |-> FALSE, v |-> NoEntry, s |-> s]
Then(r, Next(_, _)) == IF r.ok THEN Next(r.v, r.s) ELSE r
Take(x, s, n) ==
  IF s.at + n <= Len(x.f) THEN Got(SubSeq(x.f, s.at + 1, s.at + n), [s EXCEPT !.at = @ + n])
  ELSE Refused([s EXCEPT !.at = Len(x.f)])
\* A byte that is used whether it could be read or not.
Unchecked(x, s, default) == IF s.at < Len(x.f) THEN x.f[s.at + 1] ELSE default
Past(x, s) == [s EXCEPT !.at = IF @ < Len(x.f) THEN @ + 1 ELSE @]

Counters == Inodes \cup {"detruit", "total", "saved", "hard_links", "hard_linked_inodes"}
NothingRead == [at |-> 0, corres |-> <<>>, stats |-> [k \in Counters |-> 0], counted |-> {}]

\* entree_stats::add: an inode is counted once, by the first of its names.
Add(s, e) ==
  IF e.type \notin Inodes \cup {"mirage", "detruit"} THEN s
  ELSE LET hard == e.type = "mirage"
           first == IF hard THEN e.etiquette \notin s.counted ELSE TRUE
           ino == IF hard THEN s.corres[e.etiquette] ELSE e
           more == (IF hard THEN {"hard_links"} ELSE {}) \cup (IF hard /\ first THEN {"hard_linked_inodes"} ELSE {})
                   \cup (IF first THEN {ino.type} ELSE {})
                   \cup (IF first /\ ino.type # "detruit" THEN {"total"} ELSE {})
                   \cup (IF first /\ ino.type # "detruit" /\ ino.saved = "saved" THEN {"saved"} ELSE {})
       IN [s EXCEPT !.stats = [k \in Counters |-> IF k \in more THEN @[k] + 1 ELSE @[k]],
                    !.counted = IF hard THEN @ \cup {e.etiquette} ELSE @]

EAOf(flag) == {state \in DOMAIN EAFlag : EAFlag[state] = flag % EAFlagMask}
\* Up to edition 7 the last date comes with the EA.
EAItems(x, ea) ==
  IF x.ver >= 8 THEN (IF ea # "full" THEN 0 ELSE IF x.small THEN 1 ELSE 3)
  ELSE IF ea = "full" THEN 3 ELSE IF ea \in {"partial", "fake"} THEN 1 ELSE 0
ReadInode(x, s, type, saved) ==
  Then(Take(x, s, 1), LAMBDA name, s1 :
    LET flag == IF x.ver > 1 THEN Unchecked(x, s1, x.memory) ELSE EAFlag["none"]
        s2 == IF x.ver > 1 THEN Past(x, s1) ELSE s1
        ea == CHOOSE state \in EAOf(flag) : TRUE
    IN IF EAOf(flag) = {} THEN Refused(s2)
       ELSE Then(Take(x, s2, IF x.ver >= 8 THEN 6 ELSE 5), LAMBDA common, s3 :
              Then(Take(x, s3, EAItems(x, ea)), LAMBDA more, s4 :
                LET full == ea = "full"
                    whole == full /\ ~x.small
                IN Got([type |-> type, name |-> name[1], saved |-> saved, ea |-> ea,
                        common |-> IF x.ver >= 8 THEN common
                                   ELSE Append(common, IF more = <<>> THEN 0 ELSE more[Len(more)]),
                        ea_size |-> IF full /\ x.ver >= 8 THEN more[1] ELSE 0,
                        ea_offset |-> IF whole THEN more[IF x.ver >= 8 THEN 2 ELSE 1] ELSE 0,
                        ea_crc |-> IF whole THEN more[IF x.ver >= 8 THEN 3 ELSE 2] ELSE 0], s4))))

\* What follows the inode in a file that is whole, by edition.  An old archive
\* says zero for what is not compressed.
FileItems(x, saved) ==
  IF saved THEN (IF x.ver = 1 THEN 1 ELSE IF x.ver < 8 THEN 3 ELSE 2) ELSE IF x.ver \in 2..7 THEN 1 ELSE 0
ReadWholeFile(x, s, size, saved) ==
  LET Data(offset, storage_size, flags, algo, check) ==
        [size |-> size, offset |-> offset, storage_size |-> storage_size, flags |-> flags - (flags & FileDataIsDirty),
         dirty |-> (flags & FileDataIsDirty) # 0, algo |-> algo, check |-> check]
  IN Then(Take(x, s, FileItems(x, saved)), LAMBDA items, s1 :
       IF ~saved THEN Got(Data(0, 0, 0, x.default_algo, IF items = <<>> THEN 0 ELSE items[1]), s1)
       ELSE IF x.ver = 1 THEN Got(Data(items[1], 2 * size, 0, x.default_algo, 0), s1)
       ELSE IF x.ver < 8 THEN
         Got(Data(items[1], IF items[2] = 0 THEN size ELSE items[2], 0,
                  IF items[2] = 0 THEN 110 ELSE x.default_algo, items[3]), s1)
       ELSE LET flags == Unchecked(x, s1, 0)
                s2 == Past(x, s1)
                algo == Unchecked(x, s2, x.memory)
            IN IF algo \notin Compressions THEN Refused(Past(x, s2))
               ELSE Then(Take(x, Past(x, s2), 1), LAMBDA check, s3 : Got(Data(items[1], items[2], flags, algo, check[1]), s3)))
ReadSmallFile(x, s, size, saved) ==
  LET flags == IF saved THEN Unchecked(x, s, 0) ELSE 0
      s1 == IF saved THEN Past(x, s) ELSE s
      algo == IF saved THEN Unchecked(x, s1, x.memory) ELSE x.default_algo
  IN IF saved /\ algo \notin Compressions THEN Refused(Past(x, s1))
     ELSE Got([size |-> size, offset |-> 0, storage_size |-> 0, flags |-> flags, dirty |-> FALSE, algo |-> algo, check |-> 0],
              IF saved THEN Past(x, s1) ELSE s1)
ReadFile(x, s, type, saved) ==
  Then(ReadInode(x, s, type, saved), LAMBDA ino, s1 :
    Then(Take(x, s1, 1), LAMBDA size, s2 :
      Then(IF x.small THEN ReadSmallFile(x, s2, size[1], saved = "saved") ELSE ReadWholeFile(x, s2, size[1], saved = "saved"),
           LAMBDA data, s3 : Got(ino @@ data, s3))))
ReadLien(x, s, saved) ==
  Then(ReadInode(x, s, "symlink", saved), LAMBDA ino, s1 :
    Then(Take(x, s1, IF saved = "saved" THEN 1 ELSE 0), LAMBDA to, s2 :
      Got(ino @@ [target |-> IF to = <<>> THEN 0 ELSE to[1]], s2)))
ReadDevice(x, s, type, saved) ==
  Then(ReadInode(x, s, type, saved), LAMBDA ino, s1 :
    Then(Take(x, s1, IF saved = "saved" THEN 2 ELSE 0), LAMBDA numbers, s2 :
      Got(ino @@ [major |-> IF numbers = <<>> THEN 0 ELSE numbers[1], minor |-> IF numbers = <<>> THEN 0 ELSE numbers[2]], s2)))
ReadDetruit(x, s) ==
  Then(Take(x, s, IF x.ver > 7 THEN 3 ELSE 2), LAMBDA v, s1 :
    Got([type |-> "detruit", name |-> v[1], signe |-> v[2], date |-> IF x.ver > 7 THEN v[3] ELSE 0], s1))

\* A name of an inode that is known, or that comes first with it.
Mirage(name, etiquette, s) == Got([type |-> "mirage", name |-> name, etiquette |-> etiquette], s)
Alone(name, etiquette, s) == IF etiquette \in DOMAIN s.corres THEN Mirage(name, etiquette, s) ELSE Refused(s)
WithInode(name, etiquette, ino, s) ==
  IF ino.type \notin Inodes \ {"dir"} \/ etiquette \in DOMAIN s.corres THEN Refused(s)
  ELSE Mirage(name, etiquette, [s EXCEPT !.corres = (etiquette :> ino) @@ @])

TypeOf(base) == CHOOSE type \in DOMAIN Letter : Letter[type] = base
ReadPlain(x, s, type, saved) ==
  CASE type \in FileTypes -> ReadFile(x, s, type, saved)
    [] type = "symlink" -> ReadLien(x, s, saved)
    [] type \in {"chardev", "blockdev"} -> ReadDevice(x, s, type, saved)
    [] type \in {"tube", "prise"} -> ReadInode(x, s, type, saved)
    [] type = "dir" -> Then(ReadInode(x, s, type, saved), LAMBDA ino, s1 : Got(ino @@ [children |-> <<>>], s1))
    [] type \in {"eod", "detruit"} ->
         IF saved # "saved" /\ ~x.lax THEN Refused(s)
         ELSE IF type = "eod" THEN Got([type |-> "eod"], s) ELSE ReadDetruit(x, s)

\* By its letter: no entry at the end of the file; a lax reading has none either
\* where there is no entry it knows.
Signed(x, s, ReadAs(_, _, _, _)) ==
  LET signature == ExtractBaseAndStatus(x.f[s.at + 1])
      type == TypeOf(signature.base)
  IN IF s.at >= Len(x.f) THEN Got(NoEntry, s)
     ELSE IF signature.ok /\ \E known \in DOMAIN Letter : Letter[known] = signature.base
     THEN ReadAs(x, Past(x, s), type, signature.saved)
     ELSE IF x.lax THEN Got(NoEntry, Past(x, s)) ELSE Refused(Past(x, s))

\* The inode is not counted when it is read: its name is.  Neither a directory
\* nor a name may be linked.
ReadLinked(x, s) ==
  LET As(y, s1, type, saved) == IF type \in Inodes \ {"dir"} THEN ReadPlain(y, s1, type, saved) ELSE Refused(s1)
  IN Signed(x, s, As)
ReadMirage(x, s, fmt, saved) ==
  IF fmt = "etiquette" THEN
    Then(ReadFile(x, s, "file", saved), LAMBDA ino, s1 :
      Then(Take(x, s1, 1), LAMBDA etiquette, s2 : WithInode(ino.name, etiquette[1], [ino EXCEPT !.name = 0], s2)))
  ELSE
    Then(Take(x, s, 2), LAMBDA v, s1 :
      LET flag == IF fmt = "mirage" THEN Unchecked(x, s1, x.memory) ELSE MirageAlone
          s2 == IF fmt = "mirage" THEN Past(x, s1) ELSE s1
      IN CASE flag = MirageAlone -> Alone(v[1], v[2], s2)
           [] flag = MirageWithInode -> Then(ReadLinked(x, s2), LAMBDA ino, s3 : WithInode(v[1], v[2], ino, s3))
           [] OTHER -> Refused(s2))
\* entree::read; what a directory holds comes next.
Read(x, s) ==
  LET As(y, s1, type, saved) ==
        IF type \in {"mirage", "hard_link", "etiquette"} THEN ReadMirage(y, s1, type, saved) ELSE ReadPlain(y, s1, type, saved)
      Counted(e, s1) == Got(e, IF e.type = "dir" THEN s1 ELSE Add(s1, e))
  IN Then(Signed(x, s, As), Counted)

\* An entry along with its data: its CRC, then where its data is, which a hard
\* link says of its inode if it is the first one.
PostConstructor(x, s, e, first) ==
  LET At(i) == IF i.type \in FileTypes THEN [i EXCEPT !.offset = x.from + s.at] ELSE i
  IN IF e.type = "mirage" THEN Got(e, IF first THEN [s EXCEPT !.corres[e.etiquette] = At(@)] ELSE s)
     ELSE Got(At(e), s)
SmallEnd(x, r) ==
  LET Known(e) == e.type = "mirage" => e.etiquette \in DOMAIN x.corres
      Checked(e, s) ==
        IF e.type = "none" THEN r
        ELSE Then(Take(x, s, 1), LAMBDA check, s1 :
               IF check[1] # Sum(SubSeq(x.f, 1, s.at)) THEN Refused(s1) ELSE PostConstructor(x, s1, e, ~Known(e)))
  IN Then(r, Checked)

RECURSIVE Reduced(_)
\* remove_all_mirages_and_reduce_dirs
Reduced(children) ==
  IF children = <<>> THEN <<>>
  ELSE LET e == IF Head(children).type = "dir" THEN [Head(children) EXCEPT !.children = Reduced(@)] ELSE Head(children)
           gone == IF e.type = "dir" THEN e.children = <<>> ELSE e.type = "mirage"
       IN (IF gone THEN <<>> ELSE <<e>>) \o Reduced(Tail(children))

\* The name of the data the catalogue is about, which a lax reading of an
\* archive that knows it gives to the catalogue, and the root.
CatalogueBegin(x, known_name) ==
  Then(IF x.ver > 7 THEN Take(x, NothingRead, 1) ELSE Got(<<0>>, NothingRead), LAMBDA name, s :
    LET data_name == IF x.lax /\ known_name # 0 THEN known_name ELSE name[1]
        signature == ExtractBaseAndStatus(Unchecked(x, s, x.memory))
        root == ReadPlain(x, Past(x, s), "dir", signature.saved)
    IN IF (x.lax \/ (signature.ok /\ signature.base = Letter["dir"])) /\ root.ok
       THEN Got([data_name |-> data_name, root |-> root.v], root.s) ELSE Refused(Past(x, s)))
\* And its CRC, or the user who goes on without.
CatalogueEnd(x, data_name, r) ==
  Then(r, LAMBDA contenu, s :
    LET check == Take(x, s, 1)
        good == x.ver > 7 => check.ok /\ check.v[1] = Sum(SubSeq(x.f, 1, s.at))
        children == IF x.only_detruit THEN Reduced(contenu.children) ELSE contenu.children
    IN IF good \/ (x.lax /\ x.yes)
       THEN Got([data_name |-> data_name, contenu |-> [contenu EXCEPT !.children = children]], s)
       ELSE Refused(s))

-----------------------------------------------------------------------------
(* A catalogue, or entries along with data, is written; an item may be       *)
(* changed or the file cut; and it is read.                                  *)

Reader == [f |-> <<>>, from |-> 0, ver |-> 8, small |-> FALSE, lax |-> FALSE, yes |-> FALSE, only_detruit |-> FALSE,
           memory |-> MirageAlone, default_algo |-> 122, corres |-> <<>>]
Asked(kind) == step = "asked" /\ input.kind = kind
ToRead(kind) == step \in {"written", "cut", "changed"} /\ input.kind = kind

\* What is being read: how, the directories that are open, the root first, and
\* what was read whole.
Begun(x, from, data_name, dirs, s, read) ==
  [x |-> x, from |-> from, data_name |-> data_name, dirs |-> dirs, s |-> s, read |-> read]
Nowhere == <<>>
Ends(x, r) ==
  /\ got' = [got EXCEPT !.dirs = Nowhere, !.s = r.s,
                         !.read = Append(@, IF x.small THEN SmallEnd(x, r) ELSE CatalogueEnd(x, got.data_name, r))]
  /\ step' = IF x.small /\ Len(got.read) + 1 < Len(bytes) THEN got.from ELSE "read"
GoesOn(dirs, s) == got' = [got EXCEPT !.dirs = dirs, !.s = s] /\ UNCHANGED step

\* One entry more, up to the end of a directory.  A lax reading says that it
\* skips the entry it cannot read and takes it for the last one.
ReadNext ==
  LET x == got.x
      dirs == got.dirs
      r == Read(x, got.s)
      none == ~r.ok \/ r.v.type = "none"
      Kept(e) == ~x.only_detruit \/ e.type \in {"dir", "detruit", "mirage"}
      Holding(open, e) == IF Kept(e) THEN [open EXCEPT ![Len(open)].children = Append(@, e)] ELSE open
      last == dirs[Len(dirs)]
      counted == IF Len(dirs) = 1 /\ ~x.small THEN r.s ELSE Add(r.s, last)
      outer == SubSeq(dirs, 1, Len(dirs) - 1)
  IN /\ step = "reading"
     /\ IF ~none /\ r.v.type = "dir" THEN GoesOn(Append(dirs, r.v), r.s)
        ELSE IF dirs = Nowhere THEN Ends(x, r)
        ELSE IF none /\ ~x.lax THEN Ends(x, Refused(r.s))
        ELSE IF ~none /\ r.v.type # "eod" THEN GoesOn(Holding(dirs, r.v), r.s)
        ELSE IF outer = Nowhere THEN Ends(x, Got(last, counted))
        ELSE GoesOn(Holding(outer, last), counted)
     /\ UNCHANGED <<input, bytes>>

DumpWhole ==
  /\ Asked("catalogue")
  /\ bytes' = CatalogueDump(input.name, input.contenu, input.refs)
  /\ step' = "written" /\ UNCHANGED <<input, got>>
CutWhole(k) ==
  /\ input.kind = "catalogue" /\ step = "written"
  /\ bytes' = SubSeq(bytes, 1, k)
  /\ step' = "cut" /\ UNCHANGED <<input, got>>
ChangeWhole(k, by) ==
  /\ input.kind = "catalogue" /\ step = "written"
  /\ bytes' = [bytes EXCEPT ![k] = @ ^^ by]
  /\ step' = "changed" /\ UNCHANGED <<input, got>>
ReadCatalogue(x) ==
  LET begin == CatalogueBegin(x, 0)
      got0 == Begun(x, step, 0, Nowhere, begin.s, <<>>)
  IN /\ got' = IF begin.ok THEN [got0 EXCEPT !.data_name = begin.v.data_name, !.dirs = <<begin.v.root>>]
                ELSE [got0 EXCEPT !.read = <<begin>>]
     /\ step' = (IF begin.ok THEN "reading" ELSE "read") /\ UNCHANGED <<input, bytes>>
\* What follows the catalogue is not read; a lax reading asks the user.
ReadWhole(tail, lax, yes, only_detruit) ==
  /\ ToRead("catalogue") /\ (step # "written" => tail = <<>> /\ ~only_detruit) /\ (lax => step = "cut") /\ (yes => lax)
  /\ ReadCatalogue([Reader EXCEPT !.f = bytes \o tail, !.lax = lax, !.yes = yes, !.only_detruit = only_detruit])

\* One after the other, the hard linked inodes that were written being known.
DumpEntry ==
  LET n == Len(bytes)
      before == IF n = 0 THEN [items |-> <<>>, done |-> {}, from |-> 0] ELSE bytes[n]
      dump == SmallDump(input.entries[n + 1], input.refs, before.done)
  IN /\ Asked("small")
     /\ bytes' = Append(bytes, dump @@ [from |-> before.from + Len(before.items), before |-> before.done, changed |-> FALSE])
     /\ step' = IF n + 1 = Len(input.entries) THEN "written" ELSE "asked"
     /\ UNCHANGED <<input, got>>
ChangeEntry(i, k, by) ==
  /\ input.kind = "small" /\ step = "written" /\ got = <<>> /\ k \in DOMAIN bytes[i].items
  /\ bytes' = [bytes EXCEPT ![i].items[k] = @ ^^ by, ![i].changed = TRUE]
  /\ step' = "changed" /\ UNCHANGED <<input, got>>
ReadEntry ==
  LET read == IF got = <<>> THEN <<>> ELSE got.read
      n == Len(read)
      s == IF n = 0 THEN NothingRead ELSE [read[n].s EXCEPT !.at = 0]
      x == [Reader EXCEPT !.f = bytes[n + 1].items, !.small = TRUE, !.from = bytes[n + 1].from, !.corres = s.corres]
  IN /\ ToRead("small")
     /\ got' = Begun(x, step, 0, Nowhere, s, read)
     /\ step' = "reading" /\ UNCHANGED <<input, bytes>>

\* Before edition 8 dates were fewer and the last one came after the EA, the
\* data had a CRC when it was not saved, but in the first edition, and hard
\* links had other forms.
OldInode(i, v) ==
  <<i.name>> \o (IF v = 1 THEN <<>> ELSE <<EAFlag[i.ea]>>) \o SubSeq(i.common, 1, 5)
  \o (IF i.ea = "full" THEN <<i.ea_offset, i.ea_crc>> ELSE <<>>)
  \o (IF i.ea \in {"full", "partial", "fake"} THEN <<i.common[6]>> ELSE <<>>)
OldFile(i, v) ==
  OldInode(i, v) \o <<i.size>> \o (IF i.saved = "saved" THEN <<i.offset>> ELSE <<>>)
  \o (IF i.saved = "saved" /\ v > 1 THEN <<IF i.algo = 110 THEN 0 ELSE i.storage_size>> ELSE <<>>)
  \o (IF v > 1 THEN <<i.check>> ELSE <<>>)
OldRoot == [type |-> "dir", name |-> 0, saved |-> "saved", ea |-> "none", common |-> <<10, 11, 12, 13, 14, 15>>]
DumpOld ==
  LET v == input.ver
      file == input.file
  IN /\ Asked("old")
     /\ bytes' = <<Letter["dir"]>> \o OldInode(OldRoot, v) \o <<MkSignature("file", file.saved)>> \o OldFile(file, v)
                 \o <<MkSignature("etiquette", file.saved)>> \o OldFile([file EXCEPT !.name = 2], v) \o <<input.etiquette>>
                 \o <<Letter["hard_link"], 3, input.etiquette, Letter["detruit"], 4, 102>> \o EodDump
     /\ step' = "written" /\ UNCHANGED <<input, got>>
ReadOld == ToRead("old") /\ ReadCatalogue([Reader EXCEPT !.f = bytes, !.ver = input.ver])

EntriesInit == input \in Inputs /\ bytes = <<>> /\ step = "asked" /\ got = <<>>
EntriesNext ==
  \/ DumpWhole
  \/ \E k \in DOMAIN bytes : CutWhole(k - 1) \/ \E by \in Changes : ChangeWhole(k, by)
  \/ \E tail \in {<<>>, <<3, 122>>}, lax, yes, only_detruit \in BOOLEAN : ReadWhole(tail, lax, yes, only_detruit)
  \/ DumpEntry
  \/ \E i \in DOMAIN bytes, k \in {1, 3, 4, 10, 11}, by \in Changes : ChangeEntry(i, k, by)
  \/ ReadEntry \/ ReadNext
  \/ DumpOld \/ ReadOld

-----------------------------------------------------------------------------
(* What is read is what was written.  Names of inodes that are hard linked  *)
(* are read as such if there were several of them when they were written.   *)

RECURSIVE AsRead(_, _), Walk(_), IsCut(_, _), OfDetruits(_)
AsRead(e, refs) ==
  CASE e.type = "mirage" -> IF refs[e.etiquette] > 1 THEN [type |-> "mirage", name |-> e.name, etiquette |-> e.etiquette]
                            ELSE [e.inode EXCEPT !.name = e.name]
    [] e.type = "ignored_dir" -> [e EXCEPT !.type = "dir", !.ea = "none", !.ea_size = 0, !.ea_offset = 0, !.ea_crc = 0,
                                            !.children = <<>>]
    [] e.type = "dir" ->
         LET Recorded(c) == c.type # "ignored"
             kept == SelectSeq(e.children, Recorded)
         IN [e EXCEPT !.children = [i \in DOMAIN kept |-> AsRead(kept[i], refs)]]
    [] OTHER -> e
\* The entries of a directory, with their path.
Walk(e) ==
  IF e.type # "dir" THEN {}
  ELSE UNION {{<<<<i>>, e.children[i]>>} \cup {<<<<i>> \o w[1], w[2]>> : w \in Walk(e.children[i])} : i \in DOMAIN e.children}
IsCut(read, whole) ==
  /\ Len(read) <= Len(whole)
  /\ \A i \in DOMAIN read :
       IF i = Len(read) /\ read[i].type = "dir"
       THEN [read[i] EXCEPT !.children = <<>>] = [whole[i] EXCEPT !.children = <<>>] /\ IsCut(read[i].children, whole[i].children)
       ELSE read[i] = whole[i]
OfDetruits(children) ==
  \A i \in DOMAIN children :
    IF children[i].type = "dir" THEN children[i].children # <<>> /\ OfDetruits(children[i].children)
    ELSE children[i].type = "detruit"

Stars(contenu, refs) ==
  {<<w[2].etiquette, w[2].inode>> : w \in {w \in Walk(contenu) : w[2].type = "mirage" /\ refs[w[2].etiquette] > 1}}
RemovedIn(ws) == {w[2] : w \in {w \in ws : w[2].type = "detruit"}}

\* The catalogue that was written is read, and every inode counted once; one
\* that was cut or changed is refused, unless the user goes on with what
\* comes before the cut; and a reading of what was removed finds all of it.
CatalogueReadsBack ==
  (step = "read" /\ input.kind = "catalogue") =>
    LET read == got.read[1]
        expected == AsRead(input.contenu, input.refs)
        plain == {w \in Walk(expected) : w[2].type \in Inodes}
        stars == Stars(input.contenu, input.refs)
        AsWritten ==
          /\ read.ok /\ read.v = [data_name |-> input.name, contenu |-> expected]
          /\ read.s.at = Len(bytes) - 1
          /\ read.s.corres = [n \in {star[1] : star \in stars} |-> (CHOOSE star \in stars : star[1] = n)[2]]
          /\ read.s.stats["total"] = Cardinality(plain) + Cardinality(stars)
          /\ read.s.stats["hard_linked_inodes"] = Cardinality(stars)
          /\ \A type \in Inodes : read.s.stats[type] =
               Cardinality({w \in plain : w[2].type = type}) + Cardinality({star \in stars : star[2].type = type})
    IN CASE got.from = "written" /\ ~got.x.only_detruit -> AsWritten
         [] got.x.only_detruit -> /\ read.ok /\ OfDetruits(read.v.contenu.children)
                                /\ RemovedIn(Walk(read.v.contenu)) = RemovedIn(Walk(expected))
         [] got.x.yes -> read.ok => IsCut(read.v.contenu.children, expected.children)
         [] OTHER -> ~read.ok

\* Along with data, each entry is read as it was written, with the position its
\* data has; one that was changed is refused, and the others are read as they
\* were, but for the names of an inode that came with it.
SmallReadsBack ==
  (step = "read" /\ input.kind = "small") =>
    LET entries == input.entries
        Data(e, d) == IF e.type \in FileTypes
                      THEN [e EXCEPT !.offset = d.from + Len(d.items), !.storage_size = 0, !.check = 0, !.dirty = FALSE,
                                     !.ea_offset = 0, !.ea_crc = 0]
                      ELSE IF e.type \in Inodes THEN [e EXCEPT !.ea_offset = 0, !.ea_crc = 0] ELSE e
        Expected(e, d) == CASE e.type = "dir" -> [Data(e, d) EXCEPT !.children = <<>>]
                            [] e.type = "ignored_dir" -> AsRead(e, input.refs)
                            [] OTHER -> Data(AsRead(e, input.refs), d)
        Starred(e) == e.type = "mirage" /\ input.refs[e.etiquette] > 1
        Spoilt(i) == \/ bytes[i].changed
                     \/ \E j \in DOMAIN bytes : /\ bytes[j].changed /\ entries[i].type = "mirage" /\ entries[j].type = "mirage"
                                                /\ entries[i].etiquette = entries[j].etiquette
        read == got.read
        last == read[Len(read)].s.corres
    IN \A i \in DOMAIN read :
         /\ bytes[i].changed => ~read[i].ok
         /\ ~Spoilt(i) => read[i].ok /\ read[i].v = Expected(entries[i], bytes[i])
         /\ (~Spoilt(i) /\ Starred(entries[i]) /\ entries[i].etiquette \notin bytes[i].before) =>
              last[entries[i].etiquette] = Data(entries[i].inode, bytes[i])

\* A catalogue of an old edition is read with what it has no place for unset.
OldReadsBack ==
  (step = "read" /\ input.kind = "old") =>
    LET v == input.ver
        Link(name) == [type |-> "mirage", name |-> name, etiquette |-> input.etiquette]
        Known(i) == [i EXCEPT !.ea_size = 0, !.common[6] = IF i.ea \in {"full", "partial", "fake"} THEN @ ELSE 0,
                              !.storage_size = IF i.saved # "saved" THEN 0 ELSE IF v = 1 THEN 2 * i.size ELSE IF i.algo = 110 THEN i.size ELSE @,
                              !.check = IF v = 1 THEN 0 ELSE @]
        read == got.read[1]
    IN /\ read.ok /\ read.s.at = Len(bytes)
       /\ read.v.contenu.children = <<Known(input.file), Link(2), Link(3), [type |-> "detruit", name |-> 4, signe |-> 102, date |-> 0]>>
       /\ read.s.corres = (input.etiquette :> Known([input.file EXCEPT !.name = 0]))
=============================================================================
