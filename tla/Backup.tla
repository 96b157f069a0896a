------------------------------- MODULE Backup -------------------------------
(***************************************************************************)
(* Full and differential backups of a directory tree that its users change *)
(* meanwhile: filtre_sauvegarde and save_inode of libdar/filtre.cpp, the   *)
(* reading of the tree (filesystem_backup), the two catalogues, the one    *)
(* being built and the one of reference, which is walked in parallel, and  *)
(* the chain of archives, each the reference of the next.  Restoration of  *)
(* a chain is in module MCBackup.                                          *)
(*                                                                         *)
(* A path is the sequence of names that leads to it from the root, <<>>.   *)
(* The data of a plain file are told apart by their version.  Users make   *)
(* at most one change a second and each change of data sets the            *)
(* modification date: the date of a file is also its version, unless dar   *)
(* sets it back.  Options: no snapshot, no fixed date, no hour shift,      *)
(* dates are compared; extended attributes are left out.                   *)
(***************************************************************************)
EXTENDS Integers, FiniteSets, SequencesExt

CONSTANTS
  Path,         \* the places where something may be
  Order,        \* the sequence of these paths in which readdir() gives them
  Inode,        \* the inodes of plain files
  InitialDisk,  \* what is where when the first backup starts
  Masks,        \* the subtree masks a backup may be given, as sets of covered paths
  AlterAtime,   \* alter_atime: the dates of files read are not set back
  EmptyDir,     \* make_empty_dir: excluded directories are saved, empty
  Faults,       \* the system calls that may fail: "lstat", "opendir", "open"
  RepeatCount,  \* repeat_count: how many times a changing file is read again
  RepeatByte,   \* repeat_byte: the limit of wasted copies, 0 for none
  MaxArchive,   \* bound: how many backups are made
  MaxTime       \* bound: the date of the last change users make

Dir == Path \cup {<<>>}

ASSUME PathsFormATree ==
  /\ Path \subseteq Seq(UNION {ToSet(p) : p \in Path})
  /\ \A p \in Path : p # <<>> /\ Front(p) \in Dir
ASSUME OrderListsThePaths ==
  /\ Order \in Seq(Path) /\ ToSet(Order) = Path /\ Len(Order) = Cardinality(Path)
ASSUME DirectoriesComeFirst ==
  \A m, n \in DOMAIN Order : Order[m] = Front(Order[n]) => m < n
ASSUME InodesAreApart == IsFiniteSet(Inode) /\ Inode \cap {"none", "dir"} = {}
ASSUME DisksHaveThePaths == InitialDisk \subseteq [Path -> Inode \cup {"none", "dir"}]

VARIABLES
  disk,             \* path -> "none", "dir", or the inode of a plain file
  version,          \* inode -> what its data are: the second they were written
  mtime,            \* inode -> its modification date
  clock,            \* the date
  pc,               \* where filtre_sauvegarde is
  mask,             \* the mask of this backup
  pile,             \* filesystem_backup: names still to be read, of each open directory
  current_dir,      \* filesystem_backup: the directory being read
  corres_read,      \* inode -> the hard linked inode already met
  e,                \* the entry just read: its path, and for a file its inode in etoile
  current_compare,  \* catalogue of reference: the directory reached in it
  out_compare,      \* ... and the names followed beyond, which it does not have
  current_add,      \* catalogue being built: the directory entries are added to
  cat,              \* catalogue being built: path -> entry
  etoile,           \* its inodes, each named after the path it was first met at
  copying,          \* save_inode: the open inode, what was read, the retries, the dirty flag
  wasted_bytes,     \* copies that were made again, in this backup
  archives,         \* the archives made, each the reference of the next
  sure,             \* history: the entry still names the inode that was dated
  undated,          \* history: inodes whose date, set back, does not tell their version
  still,            \* history: nothing changed or failed since the last backup started
  hidden            \* history: paths absent, or made unreadable, during the backup

user == <<disk, version, mtime, clock>>
walk == <<pile, current_dir, corres_read>>
reference == <<current_compare, out_compare>>
catalogue == <<current_add, cat, etoile>>
history == <<sure, undated, still, hidden>>
vars == <<user, pc, mask, walk, e, reference, catalogue, copying, wasted_bytes,
          archives, history>>

Empty == [p \in {} |-> p]
\* A map of which p has the entry x, and one that completes another.
With(c, p, x) == [q \in {p} \cup DOMAIN c |-> IF q = p THEN x ELSE c[q]]
Over(f, g) == [q \in DOMAIN f \cup DOMAIN g |-> IF q \in DOMAIN f THEN f[q] ELSE g[q]]

\* The reference: the last archive, or an empty catalogue for a full backup.
Reference == IF archives = <<>> THEN [cat |-> Empty, etoile |-> Empty, aborted |-> FALSE]
             ELSE Last(archives)

Under(p) == {q \in Path : IsPrefix(p, q)}
Named(i) == {p \in Path : disk[p] = i}

\* What opendir() and readdir() give: the names in a directory.
Listing(d) == {p \in Path : Front(p) = d /\ disk[p] # "none"}
\* The one that comes first.
First(names) ==
  Order[CHOOSE n \in DOMAIN Order :
          /\ Order[n] \in names
          /\ \A m \in DOMAIN Order : Order[m] \in names => n <= m]

Idle == pc = "idle"
-----------------------------------------------------------------------------
(* Writing the catalogue.                                                  *)

\* An archive as it is read back: ignored entries are not dumped, a file that
\* is not saved has neither data nor dirty flag, an inode that only one
\* entry of the archive has is no hard link any more.
Dumped(c, inodes, aborted) ==
  LET kept == {p \in DOMAIN c : c[p].kind # "ignored"}
      links(s) == {p \in kept : c[p].kind = "file" /\ c[p].star = s}
  IN [cat     |-> [p \in kept |-> IF c[p].kind = "ignored_dir"
                                  THEN [kind |-> "dir", star |-> c[p].star] ELSE c[p]],
      etoile  |-> [s \in {s \in DOMAIN inodes : links(s) # {}} |->
                     [mtime  |-> inodes[s].mtime,
                      saved  |-> inodes[s].saved,
                      data   |-> IF inodes[s].saved THEN inodes[s].data ELSE <<>>,
                      dirty  |-> inodes[s].saved /\ inodes[s].dirty,
                      mirage |-> Cardinality(links(s)) > 1,
                      sure   |-> inodes[s].sure \/ ~inodes[s].saved]],
      aborted |-> aborted]

\* The walk of the reference that completes a catalogue goes into the
\* directories the catalogue has too.
Reached(c, p) == \A n \in 1..(Len(p) - 1) :
                    /\ SubSeq(p, 1, n) \in DOMAIN c
                    /\ c[SubSeq(p, 1, n)].kind = "dir"

\* catalogue::update_destroyed_with
UpdateDestroyed(c, ref) ==
  LET gone == {p \in DOMAIN ref.cat : /\ ref.cat[p].kind # "detruit"
                                      /\ p \notin DOMAIN c
                                      /\ Reached(c, p)}
  IN Over(c, [p \in gone |-> [kind |-> "detruit", star |-> p]])

\* Faulty: what was not reached is recorded as removed.
UpdateAbsentAsDestroyed(c, inodes, ref) ==
  [cat |-> UpdateDestroyed(c, ref), etoile |-> inodes]

\* catalogue::update_absent_with meets the entries of the reference, but not
\* those of what is a directory there and none in the catalogue.
Met(c, ref) ==
  {p \in DOMAIN ref.cat :
     /\ ref.cat[p].kind # "detruit"
     /\ \A n \in 1..(Len(p) - 1) :
          LET q == SubSeq(p, 1, n)
          IN IF q \in DOMAIN c THEN c[q].kind = "dir"
             ELSE q \in DOMAIN ref.cat /\ ref.cat[q].kind = "dir"}

\* corres_clone: the inode of the catalogue for that of the reference at p is
\* given by the first of its links that is new there, or is a hard link too.
CorresClone(c, inodes, ref, p) ==
  LET telling == {q \in Met(c, ref) :
                    /\ ref.cat[q].kind = "file" /\ ref.cat[q].star = ref.cat[p].star
                    /\ q \in DOMAIN c => c[q].kind = "file" /\ inodes[c[q].star].mirage}
      q == First(telling)
  IN IF q \in DOMAIN c THEN c[q].star ELSE q

\* An inode of the reference, not saved this time.
NotSaved(inode) == [mtime |-> inode.mtime, saved |-> FALSE, data |-> <<>>, dirty |-> FALSE,
                    mirage |-> inode.mirage, sure |-> TRUE]

\* What the catalogue does not have is added as not saved.
UpdateAbsent(c, inodes, ref) ==
  LET missing == Met(c, ref) \ DOMAIN c
      star == [p \in missing |->
                IF ref.cat[p].kind = "file" /\ ref.etoile[ref.cat[p].star].mirage
                THEN CorresClone(c, inodes, ref, p) ELSE p]
      cloned == {p \in missing : ref.cat[p].kind = "file" /\ star[p] = p}
  IN [cat    |-> Over(c, [p \in missing |-> [kind |-> ref.cat[p].kind, star |-> star[p]]]),
      etoile |-> Over([p \in cloned |-> NotSaved(ref.etoile[ref.cat[p].star])], inodes)]

-----------------------------------------------------------------------------
(* The users of the file system, at any time.                              *)

Change(newDisk, written) ==
  /\ clock < MaxTime
  /\ clock' = clock + 1
  /\ disk' = newDisk
  /\ version' = [i \in Inode |-> IF i \in written THEN clock + 1 ELSE version[i]]
  /\ mtime' = [i \in Inode |-> IF i \in written THEN clock + 1 ELSE mtime[i]]
  /\ sure' = (sure /\ (pc \in {"entry", "open", "copy", "check"} => newDisk[e.path] = disk[e.path]))
  /\ undated' = undated \ written
  /\ still' = FALSE
  /\ hidden' = hidden \cup {p \in Path : newDisk[p] = "none"}
  /\ UNCHANGED <<pc, mask, walk, e, reference, catalogue, copying, wasted_bytes, archives>>

CanHold(p) == Front(p) # <<>> => disk[Front(p)] = "dir"

Modify(i) == /\ Named(i) # {}
             /\ Change(disk, {i})

Create(p, i) == /\ disk[p] = "none" /\ CanHold(p)
                /\ Named(i) = {} /\ copying.fd # i
                /\ Change([disk EXCEPT ![p] = i], {i})

MakeDirectory(p) == /\ disk[p] = "none" /\ CanHold(p)
                    /\ Change([disk EXCEPT ![p] = "dir"], {})

Erase(p) == /\ disk[p] # "none"
             /\ Change([q \in Path |-> IF q \in Under(p) THEN "none" ELSE disk[q]], {})

\* A new name p, or the replacement of a file there, for the inode at q.
Link(p, q) == /\ disk[q] \in Inode /\ disk[p] \in Inode \cup {"none"}
              /\ disk[p] # disk[q] /\ CanHold(p)
              /\ Change([disk EXCEPT ![p] = disk[q]], {})

Users == \/ \E i \in Inode : Modify(i)
         \/ \E p \in Path, i \in Inode : Create(p, i)
         \/ \E p \in Path : MakeDirectory(p) \/ Erase(p)
         \/ \E p, q \in Path : Link(p, q)
-----------------------------------------------------------------------------
(* Reading the tree.                                                       *)

NoCopy == [fd |-> "none", data |-> <<>>, repeat |-> 0, dirty |-> FALSE]
NoEntry == [path |-> <<>>, star |-> <<>>, dir |-> TRUE]

Start(m) ==
  /\ Idle
  /\ Len(archives) < MaxArchive
  /\ pc' = "read"
  /\ mask' = m
  /\ current_dir' = <<>> /\ pile' = <<Listing(<<>>)>> /\ corres_read' = Empty
  /\ current_compare' = <<>> /\ out_compare' = <<>>
  /\ current_add' = <<>> /\ cat' = Empty /\ etoile' = Empty
  /\ wasted_bytes' = 0
  /\ still' = TRUE
  /\ hidden' = {p \in Path : disk[p] = "none"}
  /\ UNCHANGED <<user, e, copying, archives, sure, undated>>

\* The next name that filesystem_backup::read takes from the directory.
NextName == /\ pc = "read"
            /\ Last(pile) # {}
Spot == Append(current_dir, Last(First(Last(pile))))
Popped == [pile EXCEPT ![Len(pile)] = @ \ {First(@)}]

\* lstat() finds nothing: the name was removed after the directory was opened.
Vanished == /\ NextName /\ disk[Spot] = "none"
            /\ pile' = Popped
            /\ UNCHANGED <<user, pc, mask, current_dir, corres_read, e, reference, catalogue,
                           copying, wasted_bytes, archives, history>>

\* lstat() fails otherwise: the name is skipped.
Unreadable == /\ NextName /\ "lstat" \in Faults
              /\ pile' = Popped
              /\ still' = FALSE
              /\ hidden' = hidden \cup Under(Spot)
              /\ UNCHANGED <<user, pc, mask, current_dir, corres_read, e, reference,
                             catalogue, copying, wasted_bytes, archives, sure, undated>>

\* A directory is opened as it is read; if it cannot be, it looks empty.
ReadDirectory(readable) ==
  /\ NextName /\ disk[Spot] = "dir"
  /\ readable \/ "opendir" \in Faults
  /\ e' = [path |-> Spot, star |-> Spot, dir |-> TRUE]
  /\ pc' = "entry"
  /\ current_dir' = Spot
  /\ pile' = Append(Popped, IF readable THEN Listing(Spot) ELSE {})
  /\ sure' = TRUE
  /\ still' = (still /\ readable)
  /\ hidden' = IF readable THEN hidden ELSE hidden \cup (Under(Spot) \ {Spot})
  /\ UNCHANGED <<user, mask, corres_read, reference, catalogue, copying, wasted_bytes, archives, undated>>

\* A plain file: an inode of several links is looked for among those met, and
\* forgotten once all its links are.
ReadFile ==
  LET i == disk[Spot]
      links == Cardinality(Named(i))
      known == links > 1 /\ i \in DOMAIN corres_read
  IN /\ NextName /\ i \in Inode
     /\ e' = [path |-> Spot, dir |-> FALSE,
               star |-> IF known THEN corres_read[i].star ELSE Spot]
     /\ etoile' = IF known THEN etoile
                  ELSE With(etoile, Spot,
                            [mtime |-> mtime[i], saved |-> TRUE, data |-> <<>>, dirty |-> FALSE,
                             mirage |-> links > 1, wrote |-> FALSE, sure |-> TRUE])
     /\ corres_read' =
          LET left == IF known THEN corres_read[i].count - 1 ELSE links - 1
          IN IF links = 1 THEN corres_read
             ELSE IF left = 0 THEN [j \in DOMAIN corres_read \ {i} |-> corres_read[j]]
             ELSE With(corres_read, i, [star |-> e'.star, count |-> left])
     /\ pc' = "entry"
     /\ pile' = Popped
     /\ sure' = TRUE
     /\ UNCHANGED <<user, mask, current_dir, reference, current_add, cat, copying,
                    wasted_bytes, archives, undated, still, hidden>>

\* skip_read_to_parent_dir
SkipDirectory == pile' = Front(pile) /\ current_dir' = Front(current_dir)

\* A directory is over: read() gives an eod, which moves the three cursors up.
EndDirectory ==
  /\ pc = "read" /\ Last(pile) = {} /\ Len(pile) > 1
  /\ SkipDirectory
  /\ IF out_compare # <<>> THEN out_compare' = Front(out_compare) /\ UNCHANGED current_compare
     ELSE current_compare' = Front(current_compare) /\ UNCHANGED out_compare
  /\ current_add' = Front(current_add)
  /\ UNCHANGED <<user, pc, mask, corres_read, e, cat, etoile, copying, wasted_bytes,
                 archives, history>>
-----------------------------------------------------------------------------
(* What is done of an entry, once read.                                    *)

Name == Last(e.path)
\* Faulty: an inode is known as soon as one link was read, saved or not.
KnownHardLinkOnceRead == ~e.dir /\ e.path # e.star

KnownHardLink == ~e.dir /\ etoile[e.star].wrote

\* catalogue::compare: the entry of that name where the reference has been
\* reached, unless a directory it does not have is being read.
Found == Append(current_compare, Name)
InReference(kind) == /\ out_compare = <<>>
                     /\ Found \in DOMAIN Reference.cat
                     /\ Reference.cat[Found].kind = kind

\* Faulty: a directory that the reference does not have is not followed.
CompareKnownDirectory ==
  IF InReference("dir") THEN current_compare' = Found /\ UNCHANGED out_compare
  ELSE UNCHANGED reference

CompareDirectory ==
  IF InReference("dir") THEN current_compare' = Found /\ UNCHANGED out_compare
  ELSE out_compare' = Append(out_compare, Name) /\ UNCHANGED current_compare

\* Faulty: dirty files of the reference are not saved again.
AvoidSavingDirty ==
  /\ InReference("file")
  /\ etoile[e.star].mtime = Reference.etoile[Reference.cat[Found].star].mtime

\* avoid_saving_inode: a file of the reference, of the same date and not dirty.
AvoidSaving == /\ InReference("file")
               /\ LET ref == Reference.etoile[Reference.cat[Found].star]
                  IN etoile[e.star].mtime = ref.mtime /\ ~ref.dirty

\* catalogue::add
Add(kind) == cat' = With(cat, Append(current_add, Name), [kind |-> kind, star |-> e.star])

\* Faulty: what is excluded is not recorded.
IgnoreSilently ==
  /\ pc = "entry" /\ e.path \notin mask
  /\ pc' = "read"
  /\ IF e.dir THEN SkipDirectory ELSE UNCHANGED <<pile, current_dir>>
  /\ UNCHANGED <<user, mask, corres_read, e, reference, catalogue, copying,
                 wasted_bytes, archives, history>>

\* Faulty: the contents of an excluded directory are read.
IgnoreNotSkipping ==
  /\ pc = "entry" /\ e.path \notin mask
  /\ pc' = "read"
  /\ Add("ignored")
  /\ UNCHANGED <<user, mask, walk, e, reference, current_add, etoile, copying,
                 wasted_bytes, archives, history>>

\* What the masks exclude is recorded as ignored, so as not to pass for
\* removed.  (With make_empty_dir the reference is entered and left at once.)
Ignore ==
  /\ pc = "entry" /\ e.path \notin mask
  /\ pc' = "read"
  /\ Add(IF e.dir /\ EmptyDir THEN "ignored_dir" ELSE "ignored")
  /\ IF e.dir THEN SkipDirectory ELSE UNCHANGED <<pile, current_dir>>
  /\ UNCHANGED <<user, mask, corres_read, e, reference, current_add, etoile, copying,
                 wasted_bytes, archives, history>>

AddDirectory ==
  /\ pc = "entry" /\ e.path \in mask /\ e.dir
  /\ pc' = "read"
  /\ CompareDirectory
  /\ Add("dir")
  /\ current_add' = Append(current_add, Name)
  /\ UNCHANGED <<user, mask, walk, e, etoile, copying, wasted_bytes, archives, history>>

\* Another link of an inode that is in the catalogue: no comparison, no data.
AddHardLink ==
  /\ pc = "entry" /\ e.path \in mask /\ KnownHardLink
  /\ pc' = "read"
  /\ Add("file")
  /\ UNCHANGED <<user, mask, walk, e, reference, current_add, etoile, copying,
                 wasted_bytes, archives, history>>

\* An inode that is not in the catalogue yet.
ToConsider == pc = "entry" /\ e.path \in mask /\ ~e.dir /\ ~KnownHardLink

AddUnchanged ==
  /\ ToConsider /\ AvoidSaving
  /\ pc' = "read"
  /\ Add("file")
  /\ etoile' = [etoile EXCEPT ![e.star].saved = FALSE, ![e.star].wrote = TRUE]
  /\ UNCHANGED <<user, mask, walk, e, reference, current_add, copying, wasted_bytes,
                 archives, history>>

Save ==
  /\ ToConsider /\ ~AvoidSaving
  /\ pc' = "open"
  /\ UNCHANGED <<user, mask, walk, e, reference, catalogue, copying, wasted_bytes,
                 archives, history>>

\* save_inode: the file is opened by its name, and read in two times.
Open ==
  /\ pc = "open" /\ disk[e.path] \in Inode
  /\ pc' = "copy"
  /\ copying' = [copying EXCEPT !.fd = disk[e.path], !.data = <<version[disk[e.path]]>>]
  /\ UNCHANGED <<user, mask, walk, e, reference, catalogue, wasted_bytes, archives, history>>

Copy ==
  /\ pc = "copy"
  /\ pc' = "check"
  /\ copying' = [copying EXCEPT !.data = Append(@, version[copying.fd])]
  /\ UNCHANGED <<user, mask, walk, e, reference, catalogue, wasted_bytes, archives, history>>

\* Faulty: the date is not read again.
ChangedUnseen == disk[e.path] = "dir"

\* The date is read again, by name, once the data are copied; a file that
\* disappeared cannot be checked.
Changed == /\ disk[e.path] # "none"
           /\ disk[e.path] \in Inode => mtime[disk[e.path]] # etoile[e.star].mtime

MayRetry == /\ copying.repeat < RepeatCount
            /\ RepeatByte = 0 \/ wasted_bytes + 1 < RepeatByte

\* A copy counts for one byte.  The new date and size are those of the file of
\* that name.
Retry ==
  /\ pc = "check" /\ Changed /\ MayRetry /\ disk[e.path] \in Inode
  /\ pc' = "date"
  /\ copying' = [NoCopy EXCEPT !.repeat = copying.repeat + 1]
  /\ wasted_bytes' = wasted_bytes + 1
  /\ etoile' = [etoile EXCEPT ![e.star].mtime = mtime[disk[e.path]]]
  /\ sure' = TRUE
  /\ UNCHANGED <<user, mask, walk, e, reference, current_add, cat, archives, undated, still, hidden>>

Keep ==
  /\ pc = "check" /\ ~(Changed /\ MayRetry)
  /\ pc' = "date"
  /\ copying' = [copying EXCEPT !.fd = "none", !.dirty = Changed]
  /\ UNCHANGED <<user, mask, walk, e, reference, catalogue, wasted_bytes, archives, history>>

\* tools_noexcept_make_date: with the access time of the file of that name, its
\* modification date is set to the one recorded.
MakeDate(dirty) ==
  LET i == disk[e.path]
      date == etoile[e.star].mtime
      moved == ~AlterAtime /\ i \in Inode /\ mtime[i] # date
      mixed == {i} \cup {j \in Inode : mtime[j] = date}
  IN /\ mtime' = IF moved THEN [mtime EXCEPT ![i] = date] ELSE mtime
     /\ undated' = IF moved /\ ~(dirty /\ Named(i) = {e.path} /\ mixed = {i})
                   THEN undated \cup mixed ELSE undated
     /\ UNCHANGED <<disk, version, clock>>

CopyAgain ==
  /\ pc = "date" /\ copying.data = <<>>
  /\ pc' = "open"
  /\ MakeDate(FALSE)
  /\ UNCHANGED <<mask, walk, e, reference, catalogue, copying, wasted_bytes, archives,
                 sure, still, hidden>>

AddSaved ==
  /\ pc = "date" /\ copying.data # <<>>
  /\ pc' = "read"
  /\ MakeDate(copying.dirty)
  /\ Add("file")
  /\ etoile' = [etoile EXCEPT ![e.star] = [@ EXCEPT !.data = copying.data,
                                                    !.dirty = copying.dirty,
                                                    !.wrote = TRUE,
                                                    !.sure = sure]]
  /\ copying' = NoCopy
  /\ UNCHANGED <<mask, walk, e, reference, current_add, wasted_bytes, archives,
                 sure, still, hidden>>

\* The file cannot be opened or read, or is a directory, of no size, when it is
\* to be copied again: it is recorded as ignored, and its inode is still to be
\* saved, as of the date of that directory, which no file has.
Fail ==
  /\ \/ /\ \/ pc = "open" /\ disk[e.path] \notin Inode
           \/ pc = "open" /\ "open" \in Faults
        /\ UNCHANGED <<user, wasted_bytes, etoile, undated>>
     \/ /\ pc = "copy" /\ "open" \in Faults
        /\ MakeDate(FALSE)
        /\ UNCHANGED <<wasted_bytes, etoile>>
     \/ /\ pc = "check" /\ Changed /\ MayRetry /\ disk[e.path] = "dir"
        /\ wasted_bytes' = wasted_bytes + 1
        /\ etoile' = [etoile EXCEPT ![e.star].mtime = 0]
        /\ UNCHANGED <<user, undated>>
  /\ pc' = "read"
  /\ Add("ignored")
  /\ copying' = NoCopy
  /\ still' = FALSE
  /\ UNCHANGED <<mask, walk, e, reference, current_add, archives, sure, hidden>>
-----------------------------------------------------------------------------
(* The end of a backup.                                                    *)

Close(c, inodes, aborted) ==
  /\ archives' = Append(archives, Dumped(c, inodes, aborted))
  /\ pc' = "idle"
  /\ pile' = <<>> /\ current_dir' = <<>> /\ corres_read' = Empty
  /\ current_compare' = <<>> /\ out_compare' = <<>>
  /\ current_add' = <<>> /\ cat' = Empty /\ etoile' = Empty
  /\ e' = NoEntry /\ copying' = NoCopy /\ wasted_bytes' = 0
  /\ sure' = TRUE
  /\ UNCHANGED <<mask, still, hidden>>

Finish ==
  /\ pc = "read" /\ pile = <<{}>>
  /\ UNCHANGED <<user, undated>>
  /\ Close(UpdateDestroyed(cat, Reference), etoile, FALSE)

\* A delayed cancellation, met when an entry has been read or within a copy:
\* the catalogue is completed with what the reference has and was not reached.
Cancel ==
  /\ \/ pc \in {"entry", "copy"}
     \/ pc = "read" /\ Last(pile) = {} /\ Len(pile) > 1
  /\ IF pc = "copy" THEN MakeDate(FALSE) ELSE UNCHANGED <<user, undated>>
  /\ LET a == UpdateAbsent(cat, etoile, Reference)
     IN Close(a.cat, a.etoile, TRUE)
-----------------------------------------------------------------------------
Init ==
  /\ disk \in InitialDisk
  /\ version = CHOOSE f \in [Inode -> 1..Cardinality(Inode)] : IsInjective(f)
  /\ mtime = version
  /\ clock = Cardinality(Inode)
  /\ pc = "idle" /\ mask = {} /\ e = NoEntry /\ copying = NoCopy /\ wasted_bytes = 0
  /\ pile = <<>> /\ current_dir = <<>> /\ corres_read = Empty
  /\ current_compare = <<>> /\ out_compare = <<>>
  /\ current_add = <<>> /\ cat = Empty /\ etoile = Empty
  /\ archives = <<>>
  /\ sure = TRUE /\ undated = {} /\ still = FALSE /\ hidden = {}

Reading == \/ Vanished
           \/ Unreadable
           \/ \E readable \in BOOLEAN : ReadDirectory(readable)
           \/ ReadFile
           \/ EndDirectory

Saving == Ignore \/ AddDirectory \/ AddHardLink \/ AddUnchanged \/ Save
          \/ Open \/ Copy \/ Retry \/ Keep \/ CopyAgain \/ AddSaved \/ Fail

Next == \/ Users
        \/ \E m \in Masks : Start(m)
        \/ Reading
        \/ Saving
        \/ Finish
        \/ Cancel

Spec == Init /\ [][Next]_vars
-----------------------------------------------------------------------------
Version == 1..MaxTime
Star == [mtime : Version \cup {0}, saved : BOOLEAN, data : Seq(Version), dirty : BOOLEAN,
         mirage : BOOLEAN, wrote : BOOLEAN, sure : BOOLEAN]

\* Paths, dates and places are what they should be; what is on the disk is a
\* tree, and so is the catalogue being built.
TypeOK ==
  /\ disk \in [Path -> Inode \cup {"none", "dir"}]
  /\ \A p \in Path : disk[p] # "none" => CanHold(p)
  /\ {version, mtime} \subseteq [Inode -> Version] /\ clock \in Version
  /\ pc \in {"idle", "read", "entry", "open", "copy", "check", "date"}
  /\ current_dir \in Dir /\ current_add \in Dir /\ current_compare \in Dir
  /\ e.path \in Dir /\ e.star \in Dir
  /\ DOMAIN cat \subseteq Path /\ DOMAIN etoile \subseteq Path
  /\ \A p \in DOMAIN cat : /\ cat[p].kind \in {"dir", "file", "ignored", "ignored_dir"}
                           /\ cat[p].kind = "file" => cat[p].star \in DOMAIN etoile
                           /\ Reached(cat, p)
  /\ \A s \in DOMAIN etoile : etoile[s] \in Star
  /\ wasted_bytes \in Nat /\ mask \subseteq Path
  /\ sure \in BOOLEAN /\ undated \subseteq Inode /\ still \in BOOLEAN /\ hidden \subseteq Path

\* Between two entries, the reading of the tree, the walk of the reference and
\* the catalogue being built are in the same directory, whatever was skipped,
\* ignored or failed; and the walk of the reference is as deep in it as it can
\* be, so that what the reference has is compared with.
InStep ==
  pc = "read" =>
    /\ current_add = current_dir
    /\ Len(pile) = Len(current_dir) + 1
    /\ current_compare \o out_compare = current_dir
    /\ out_compare # <<>> =>
         LET p == Append(current_compare, Head(out_compare))
         IN p \in DOMAIN Reference.cat => Reference.cat[p].kind # "dir"

\* A file saved and not dirty has the data of one single version, the one its
\* date tells if dates are not set back, unless its name was given to another
\* file meanwhile.
CopiesAreConsistent ==
  \A k \in DOMAIN archives : \A s \in DOMAIN archives[k].etoile :
    LET i == archives[k].etoile[s]
    IN i.saved /\ ~i.dirty /\ i.sure => 
         /\ i.data[1] = i.data[2]
         /\ AlterAtime => i.data[1] = i.mtime

\* What was there, and could be read, during the whole of a backup is not
\* recorded as removed by it.
RemovedWasAbsent ==
  [][archives' # archives =>
       \A p \in DOMAIN Last(archives').cat :
         Last(archives').cat[p].kind = "detruit" => p \in hidden]_vars
=============================================================================
