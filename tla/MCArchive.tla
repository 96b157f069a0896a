----------------------------- MODULE MCArchive -----------------------------
(***************************************************************************)
(* An archive on both sides of its data: how it is opened, closed and used *)
(* (Archive), how its entries are compared, tested and isolated            *)
(* (Comparison), how they are written and read (Entries), what is written  *)
(* around them (Formats, Numbers), the memory they take (Storage,          *)
(* Clusters) and the masks that select them (Masks).  These do not share   *)
(* anything here: an initial state chooses one of them, and the others     *)
(* stay as they are.                                                       *)
(***************************************************************************)
EXTENDS Masks

CONSTANTS Parts \* the parts to choose from

VARIABLES part,
          arch, opts, disk, pos, juillet, current_dir, filename_pile, wrote, cat, corres, said, st, strays, verdict,
          p, pc, file, stack, coord, aborting, hook, terminal, made, h, calls, ended,
          carte, ordered, live, result,
          cells, it, answer,
          number, limited, call,
          crc, crc_size, computed,
          input, bytes, step, got

walkVars == <<arch, opts, disk, pos, juillet, current_dir, filename_pile, wrote, cat, corres, said, st, strays, verdict>>
archiveVars == <<p, pc, file, stack, coord, aborting, hook, terminal, made, h, calls, ended>>
clusterVars == <<carte, ordered, live, result>>
storageVars == <<cells, it, answer>>
numberVars == <<number, limited, call>>
crcVars == <<crc, crc_size, computed>>
fileVars == <<input, bytes, step, got>>
vars == <<part, walkVars, archiveVars, clusterVars, storageVars, numberVars, crcVars, fileVars, maskVars>>

-----------------------------------------------------------------------------
(* Entries of archives and inodes of file systems. *)

a == <<"a">>
b == <<"b">>
d == <<"d">>
df == <<"d", "f">>
de == <<"d", "e">>
dl == <<"d", "l">>
z == <<"z">>

Entry(type, path) ==
  [type |-> type, path |-> path, etiq |-> 0, links |-> 1, again |-> FALSE, saved |-> TRUE,
   uid |-> 1, perm |-> 1, mtime |-> 4, ctime |-> 5, size |-> 1, body |-> 1, stored |-> 1, crc |-> 1,
   ea |-> "none", eas |-> {}, ea_ok |-> TRUE]
Eod(path) == [type |-> "eod", path |-> path]
Link(path, n, links) == [Entry("file", path) EXCEPT !.etiq = n, !.links = links]
Again(x) == [x EXCEPT !.again = TRUE]
Corrupt(x) == [x EXCEPT !.stored = 2]
WithEA(x, state) == [x EXCEPT !.ea = state, !.eas = IF state = "full" THEN {1} ELSE {}]

\* A directory with a directory, files, links; a removed file; a second
\* reading of a directory.
Whole == <<Entry("dir", d), Link(df, 1, 2), Entry("dir", de), Entry("symlink", <<"d", "e", "s">>), Eod(de),
           WithEA(Link(dl, 2, 1), "full"), Eod(d), Link(b, 1, 2), Corrupt(Entry("file", z)),
           [type |-> "detruit", path |-> a, etiq |-> 0]>>
Twice == <<WithEA(Entry("dir", d), "partial"), Corrupt(Link(df, 1, 1)), Eod(d), Corrupt(Link(b, 1, 1)), Entry("device", z),
           Again(WithEA(Entry("dir", d), "partial")), [type |-> "detruit", path |-> de, etiq |-> 0], Eod(d)>>
MCArchives == {Whole, Twice}

Inode(type) ==
  [type |-> type, uid |-> 1, perm |-> 1, mtime |-> 4, ctime |-> 5, size |-> 1, body |-> 1, ea |-> "none", eas |-> {},
   lstat |-> "ok"]
EAInode(type) == [Inode(type) EXCEPT !.ea = "full", !.eas = {1}]

Variants == {Inode("file"), [EAInode("file") EXCEPT !.eas = {1, 2}], [Inode("file") EXCEPT !.body = 2],
             Inode("dir"), [Inode("file") EXCEPT !.lstat = "error"], [Inode("file") EXCEPT !.mtime = 9]}
Dirs == {Inode("dir"), [EAInode("dir") EXCEPT !.perm = 2], Inode("symlink"), [EAInode("dir") EXCEPT !.lstat = "error"],
         [EAInode("dir") EXCEPT !.lstat = "eacces"], [EAInode("dir") EXCEPT !.ctime = 6]}
MCDisks ==
  {[x \in gone \cup {d, df, b} |->
      IF x = d THEN w ELSE IF x = df THEN y ELSE IF x = b THEN u
      ELSE IF x = de THEN Inode("dir") ELSE IF x = z THEN Inode("device") ELSE EAInode("symlink")] :
    w \in Dirs, y \in Variants, u \in Variants, gone \in {{}, {de, <<"d", "e", "s">>, z, dl}}}

Paths == {a, b, d, df, de, dl, z, <<"d", "e", "s">>}
Option == [op |-> "diff", subtree |-> Paths, filtered |-> {}, seq |-> FALSE, fields |-> "all", hourshift |-> 0,
           symlink_date |-> TRUE, alter_atime |-> FALSE, empty |-> FALSE, cancel |-> FALSE]
MCOptions ==
  {Option, [Option EXCEPT !.seq = TRUE], [Option EXCEPT !.fields = "mtime", !.alter_atime = TRUE],
   [Option EXCEPT !.subtree = Paths \ {d}], [Option EXCEPT !.subtree = Paths \ {de}, !.filtered = {b}],
   [Option EXCEPT !.fields = "inode_type", !.symlink_date = FALSE],
   [Option EXCEPT !.hourshift = 1, !.fields = "ignore_owner", !.cancel = TRUE]}
  \cup {[Option EXCEPT !.op = o, !.filtered = f, !.cancel = TRUE] : o \in {"test", "readall", "isolate"}, f \in {{}, {df}}}

Walking == INSTANCE Comparison
  WITH Archives <- MCArchives, Disks <- MCDisks, Options <- MCOptions, MaxStrays <- 1, Hour <- 5

-----------------------------------------------------------------------------
(* Ways to write an archive and to open it. *)

Creation == [op |-> "create", name |-> "", level |-> 9, slice |-> 0, first |-> 0, block |-> 100, crypto |-> "none",
             key |-> "k", marks |-> TRUE, empty |-> FALSE, confirmed |-> TRUE, refs |-> {}, keep |-> FALSE, uses |-> 0]
Reference == [isolated |-> FALSE, exploitable |-> TRUE, algo |-> "gzip"]
MCCreations ==
  {[Creation EXCEPT !.uses = 2], [Creation EXCEPT !.op = "isolate", !.uses = 1],
   [Creation EXCEPT !.empty = TRUE], [Creation EXCEPT !.confirmed = FALSE], [Creation EXCEPT !.level = 10],
   [Creation EXCEPT !.first = 1], [Creation EXCEPT !.crypto = "aes", !.block = 9]}
  \cup {[Creation EXCEPT !.crypto = c, !.marks = m, !.op = o] :
          c \in {"none", "aes"}, m \in BOOLEAN, o \in {"create", "isolate"}}
  \cup {[Creation EXCEPT !.op = "merge", !.refs = r, !.keep = TRUE] :
          r \in {{}, {Reference}, {Reference, [Reference EXCEPT !.algo = "lzo"]}, {[Reference EXCEPT !.isolated = TRUE]}}}

Opening == [seq |-> FALSE, lax |-> FALSE, crypto |-> "none", key |-> "k", yes |-> TRUE, external |-> "none",
            details |-> FALSE, all |-> FALSE]
MCOpenings ==
  {[Opening EXCEPT !.seq = s, !.lax = l, !.crypto = c] : s, l \in BOOLEAN, c \in {"none", "aes"}}
  \cup {[Opening EXCEPT !.seq = s, !.lax = TRUE, !.yes = FALSE] : s \in BOOLEAN}
  \cup {[Opening EXCEPT !.crypto = "aes", !.key = "q"], [Opening EXCEPT !.external = "own"],
        [Opening EXCEPT !.external = "-"], [Opening EXCEPT !.lax = TRUE, !.details = TRUE]}

Archiving == INSTANCE Archive WITH Creations <- MCCreations, Openings <- MCOpenings, MaxEntries <- 1

-----------------------------------------------------------------------------
(* Memory. *)

Sharing == INSTANCE Clusters WITH BlockSizes <- {1, 2}, Memory <- 6, WordBits <- 2, AverageTableSize <- 1
Storing == INSTANCE Storage
  WITH Byte <- {1, 2}, MaxSize <- 4, Moves <- {0, 1, 3}, MaySplit <- TRUE, MayEmptyACell <- FALSE

-----------------------------------------------------------------------------
(* Numbers, in bytes of two bits, and what is written around data, in bytes *)
(* of three.                                                                 *)

Counting == INSTANCE Numbers
  WITH BitsOfAByte <- 2, TG <- 2, FieldBytes <- 2, PAS <- 2, MaxValue <- 70, Bits <- {0, 1, 2, 3, 5},
       Operands <- {<<0>>, <<1>>, <<0, 3>>, <<1, 0>>, <<0, 0, 2>>, <<3, 3>>, <<1, 0, 1>>}

Tails == {<<>>, <<0, 1, 7>>}
SliceHeader == [magic |-> <<3, 1>>, internal_name |-> <<4, 2>>, data_name |-> <<5, 1>>, flag |-> 3,
                first_size |-> -1, slice_size |-> -1, old_header |-> FALSE]
Version(v, cmd_line, flag, offset) ==
  [edition |-> [version |-> v, fix |-> 1, droot |-> FALSE], algo_zip |-> 3, cmd_line |-> cmd_line, flag |-> flag,
   initial_offset |-> offset]
MCFormats ==
  {[kind |-> "crc", cyclic |-> [i \in 1..n |-> (i * 3) % 8], tail |-> tail, memory |-> memory] :
     n \in {1, 2, 9}, tail \in Tails, memory \in {0, 5}}
  \cup {[kind |-> "terminateur", pos |-> n, before |-> before] :
          n \in {0, 1, 7, 8, 63, 64, 500, 513, 30000}, before \in {<<>>, <<7>>, <<7, 7, 1>>, <<0>>}}
  \cup {[kind |-> "elastic", taille |-> n] : n \in {1, 2, 3, 4, 5, 6, 8, 36, 37}}
  \cup {[kind |-> "slice", type |-> -1, tail |-> tail,
         header |-> [SliceHeader EXCEPT !.first_size = sizes[1], !.slice_size = sizes[2], !.old_header = old, !.data_name = name]] :
          sizes \in {<<-1, 0>>, <<-1, 70>>, <<-1, -1>>, <<0, 5>>, <<5, 5>>, <<70, 5>>, <<5, 70>>}, old \in BOOLEAN,
          name \in {<<0, 0>>, <<5, 1>>}, tail \in Tails}
  \cup {[kind |-> "slice", type |-> type, tail |-> <<>>, header |-> [SliceHeader EXCEPT !.slice_size = 9]] : type \in {0, 4, 63}}
  \cup {[kind |-> "version", header |-> Version(v, cmd_line, flag, offset), tail |-> tail, memory |-> memory] :
          v \in {8, 17}, cmd_line \in {<<>>, <<7, 7, 2>>}, flag \in {1, 2}, offset \in {0, 5, 600},
          tail \in Tails, memory \in {0, 6}}
  \cup {[kind |-> "version", header |-> Version(v, cmd_line, IF v = 1 THEN 0 ELSE 1, 0), tail |-> tail, memory |-> 0] :
          v \in {1, 2, 7}, cmd_line \in {<<>>, <<1, 2>>, <<7, 7, 2>>}, tail \in Tails}

Formatting == INSTANCE Formats
  WITH BitsOfAByte <- 3, TG <- 2, FieldBytes <- 2, PAS <- 2, MaxValue <- 0, Bits <- {}, Operands <- {},
       BlockSize <- 2, Single <- 1, IntWidth <- 4, LabelSize <- 2, MagicSize <- 2, Zero <- 2, Dro <- <<5, 1, 7>>,
       OffsetFlag <- 2, Widths <- {1, 2, 3, 4, 6, 8}, DataSize <- 17, Pieces <- {1, 3, 4, 9}, Inputs <- MCFormats

-----------------------------------------------------------------------------
(* Entries of a catalogue, to write and to read. *)

Recorded(type, name) ==
  [type |-> type, name |-> name, saved |-> "saved", ea |-> "none", common |-> <<10, 11, 12, 13, 14, 15>>, ea_size |-> 0,
   ea_offset |-> 0, ea_crc |-> 0, size |-> 20, offset |-> 300, storage_size |-> 9, flags |-> 1, dirty |-> FALSE,
   algo |-> 122, check |-> 77, target |-> 55, major |-> 8, minor |-> 1, children |-> <<>>]
Fields == {"type", "name", "saved", "ea", "common", "ea_size", "ea_offset", "ea_crc"}
Only(e, fields) == [k \in Fields \cup fields |-> e[k]]
File(name) == Only(Recorded("file", name), {"size", "offset", "storage_size", "flags", "dirty", "algo", "check"})
NotSaved(e, status) == [e EXCEPT !.saved = status, !.offset = 0, !.storage_size = 0, !.flags = 0, !.check = 0]
FullEA(e) == [e EXCEPT !.ea = "full", !.ea_size = 6, !.ea_offset = 500, !.ea_crc = 33]
Pipe == Only(Recorded("tube", 0), {})
Device(name) == Only(Recorded("chardev", name), {"major", "minor"})
Lien(name) == Only(Recorded("symlink", name), {"target"})
Directory(name, children) == [Only(Recorded("dir", name), {"children"}) EXCEPT !.children = children]
Removed(name) == [type |-> "detruit", name |-> name, signe |-> 100, date |-> 16]
Star(name, n, ino) == [type |-> "mirage", name |-> name, etiquette |-> n, inode |-> ino]
IgnoredDir(name) == [FullEA(Directory(name, <<File(7)>>)) EXCEPT !.type = "ignored_dir"]

Contents ==
  {<<>>,
   <<File(1), Star(2, 2, FullEA(File(0))), Directory(3, <<Removed(4), Star(6, 2, FullEA(File(0))), Lien(9), Directory(7, <<>>)>>),
     [Device(8) EXCEPT !.ea = "partial"]>>,
   <<[type |-> "ignored", name |-> 1], Directory(2, <<Directory(3, <<Removed(4)>>), IgnoredDir(5)>>), Star(6, 1, Pipe),
     NotSaved(File(7), "fake"), Removed(9), [File(8) EXCEPT !.dirty = TRUE, !.type = "door"]>>}
\* Along with data: how many names an inode has is not known before the last.
Small == <<Directory(1, <<File(2)>>), Star(2, 2, FullEA(File(0))), [type |-> "eod"], Lien(3), Star(4, 2, FullEA(File(0))),
           Star(5, 1, Pipe), Device(6), NotSaved(File(7), "not_saved"), IgnoredDir(8)>>
MCEntries ==
  {[kind |-> "catalogue", name |-> 600, contenu |-> Directory(0, children), refs |-> refs] :
     children \in Contents, refs \in {<<2, 2>>, <<1, 3>>}}
  \cup {[kind |-> "small", entries |-> Small, refs |-> refs] : refs \in {<<2, 2>>, <<1, 3>>}}
  \cup {[kind |-> "old", ver |-> v, etiquette |-> 5,
         file |-> LET old == [IF ea THEN FullEA(File(1)) ELSE File(1) EXCEPT !.flags = 0]
                  IN CASE status = "saved" -> old [] status = "plain" -> [old EXCEPT !.algo = 110] [] OTHER -> NotSaved(old, status)] :
          v \in 2..7, status \in {"saved", "plain", "not_saved"}, ea \in BOOLEAN}
  \cup {[kind |-> "old", ver |-> 1, etiquette |-> 5, file |-> [File(1) EXCEPT !.flags = 0]]}

Recording == INSTANCE Entries WITH Inputs <- MCEntries, Changes <- {1, 128}

-----------------------------------------------------------------------------
(* Names: nothing, ".", "..", "<ROOT>", "A", "B", "a" and "b".              *)

MCUpper == [n \in Names |-> CASE n = 6 -> 4 [] n = 7 -> 5 [] OTHER -> n]
MCFiles == {{}, {<<0, 6>>}, {<<6>>, <<7, 6>>, <<0, 7, 7>>}, {<<6, 7, 6>>, <<6, 7, 7>>, <<4>>, <<6, 6>>},
            {<<0, 6, 2, 7>>, <<0, 7, 6, 0>>, <<6, 1, 7>>, <<7, 0>>}, {<<6>>, <<0, 6, 0, 7>>}, {<<7, 6>>, <<7, 7>>}}
MCOrigins == {<<0, 0>>, <<0, 7>>, <<3>>, <<6>>}
MCCandidates == {<<0, 0>>, <<0, 6>>, <<0, 7>>, <<0, 7, 4>>, <<0, 7, 6>>, <<0, 7, 7>>, <<0, 6, 7>>, <<0, 6, 7, 6>>, <<0, 7, 6, 7>>,
                  <<0, 7, 6, 7, 7>>, <<3>>, <<3, 6>>, <<3, 6, 7>>, <<3, 7>>}
Ruling(i, c, m) == [included |-> i, case_s |-> c, mask |-> m]
Rules == {Ruling(i, TRUE, m) : i \in BOOLEAN, m \in {<<6>>, <<6, 7>>}}
MCRules == Rules \cup {Ruling(i, FALSE, <<4, 7>>) : i \in BOOLEAN}
           \cup {Ruling(FALSE, FALSE, <<5>>), Ruling(FALSE, TRUE, <<2>>), Ruling(TRUE, TRUE, <<0, 6>>)}
MCListings == UNION {[1..n -> MCRules] : n \in 0..2} \cup [1..3 -> Rules]
MCAdded == {<<6>>, <<6, 7>>, <<2>>, <<2, 2>>, <<6, 2>>, <<1>>, <<1, 2, 7>>, <<0, 6>>, <<7, 0>>}

-----------------------------------------------------------------------------
\* What a part that is not chosen holds: one of its initial states.
WalkIdle == arch = Whole /\ opts = Option /\ disk = CHOOSE x \in MCDisks : TRUE
ArchiveIdle == ~p.confirmed

Init == /\ part \in Parts
        /\ Walking!Init /\ (part = "comparison" \/ WalkIdle)
        /\ Archiving!ArchiveInit /\ (part = "archive" \/ ArchiveIdle)
        /\ Sharing!Init
        /\ Storing!Init
        /\ Counting!NumbersInit
        /\ Formatting!CrcInit /\ (part = "crc" \/ crc_size = 1)
        /\ MaskInit /\ (part = "masks" \/ task = "list")
        /\ CASE part = "formats" -> Formatting!FormatsInit
             [] part = "entries" -> Recording!EntriesInit
             [] OTHER -> input = <<>> /\ bytes = <<>> /\ step = "asked" /\ got = <<>>

Next == \/ /\ part = "comparison" /\ Walking!Next
           /\ UNCHANGED <<part, archiveVars, clusterVars, storageVars, numberVars, crcVars, fileVars, maskVars>>
        \/ /\ part = "archive" /\ Archiving!ArchiveNext
           /\ UNCHANGED <<part, walkVars, clusterVars, storageVars, numberVars, crcVars, fileVars, maskVars>>
        \/ /\ part = "clusters" /\ Sharing!Next
           /\ UNCHANGED <<part, walkVars, archiveVars, storageVars, numberVars, crcVars, fileVars, maskVars>>
        \/ /\ part = "storage" /\ Storing!Next
           /\ UNCHANGED <<part, walkVars, archiveVars, clusterVars, numberVars, crcVars, fileVars, maskVars>>
        \/ /\ part = "numbers" /\ Counting!NumbersNext
           /\ UNCHANGED <<part, walkVars, archiveVars, clusterVars, storageVars, crcVars, fileVars, maskVars>>
        \/ /\ part = "crc" /\ Formatting!CrcNext
           /\ UNCHANGED <<part, walkVars, archiveVars, clusterVars, storageVars, numberVars, fileVars, maskVars>>
        \/ /\ part = "formats" /\ Formatting!FormatsNext
           /\ UNCHANGED <<part, walkVars, archiveVars, clusterVars, storageVars, numberVars, crcVars, maskVars>>
        \/ /\ part = "entries" /\ Recording!EntriesNext
           /\ UNCHANGED <<part, walkVars, archiveVars, clusterVars, storageVars, numberVars, crcVars, maskVars>>
        \/ /\ part = "masks" /\ MaskNext
           /\ UNCHANGED <<part, walkVars, archiveVars, clusterVars, storageVars, numberVars, crcVars, fileVars>>

Spec == Init /\ [][Next]_vars

-----------------------------------------------------------------------------
\* What is said of each part in its module, and shown here together.

\* Functions filtre_difference, filtre_test and filtre_isolate, and class
\* archive: what is reported is what differs or cannot be read, whatever the
\* order of the entries, each data is asked for when it can be read, and no
\* layer is used that was closed.
ReadsWhatIsThere ==
  /\ part = "comparison" => /\ Walking!ReportIsTheComparison /\ Walking!WalksTogether /\ Walking!EntriesAreCounted
                            /\ Walking!CorruptionIsFound /\ Walking!IsolationKeepsLinks /\ Walking!MarksAreReadOnce
  /\ part = "archive" => Archiving!DataAreReadInOrder /\ Archiving!ClosedLayersAreNotRead
\* Classes archive and pile: what was closed is opened as it was, with the same
\* layers, and what was not is found by a lax search.
OpensAsItWasClosed ==
  part = "archive" => Archiving!OpensAsItWasClosed /\ Archiving!LaxFindsTheCatalogue
\* Classes infinint, limitint, deci, crc, terminateur, elastic, header,
\* header_version, entree, catalogue and path: arithmetic is exact or refused, what
\* is written is read back, hard links with one inode, and what was cut is refused.
FormatsReadBack ==
  /\ part = "numbers" => Counting!InfinintIsExact /\ Counting!LimitintIsExact /\ Counting!CutIsRead
  /\ part = "crc" => Formatting!CrcIsOfThePosition
  /\ part = "formats" => /\ Formatting!CrcReadsBack /\ Formatting!TerminateurReadsBack /\ Formatting!ElasticIsPassedOver
                         /\ Formatting!HeaderReadsBack /\ Formatting!HeaderVersionReadsBack
  /\ part = "entries" => Recording!CatalogueReadsBack /\ Recording!SmallReadsBack /\ Recording!OldReadsBack
  /\ part = "masks" => PathReadsBack
\* Classes special_alloc and storage: blocks that are given do not overlap and
\* memory goes back when all of them are released; bytes cut in cells are read,
\* inserted and removed as those of one sequence.
MemoryIsShared == [][/\ Sharing!ClustersAreShared'
                     /\ (part = "storage" => Storing!StorageStep)]_vars
=============================================================================
