------------------------------ MODULE Database ------------------------------
(***************************************************************************)
(* The dar_manager database (class database of libdar/database.cpp over    *)
(* the data_dir tree of libdar/data_tree.cpp): archives are added, removed *)
(* and reordered, and every call keeps, for each file ever met, in which   *)
(* archives its data and its EA are saved, unchanged, removed or absent.   *)
(*                                                                         *)
(* coordinate[k] is archive number k; what links it to a real archive is a *)
(* path and a basename, so the archive itself stands there.  The recursive *)
(* walk of finalize_except_self is kept as an explicit stack and taken one *)
(* node per step, the children of a directory in any order: its restart    *)
(* with all the siblings of a dropped directory is part of the behaviour.  *)
(* No other call runs before the walk is over.                             *)
(***************************************************************************)
EXTENDS DataTree, SequencesExt

CONSTANTS
  Node,      \* the paths an archive may hold
  Root,      \* the "." directory of the database
  Parent,    \* the directory each path is in
  Archive,   \* the archives a user may add, see ArchiveType
  Date       \* the dates a user may ask files of, 0 for the latest state

Dir == Node \cup {Root}
SavedStatus == {"s_saved", "s_fake", "s_not_saved"}
EaStatus == {"ea_none", "ea_removed", "ea_partial", "ea_fake", "ea_full"}
NoEntry == [kind |-> "none"]
Entry ==
  {NoEntry}
  \cup [kind : {"detruit"}, date : Nat]
  \cup [kind : {"inode"}, dir : BOOLEAN, saved : SavedStatus, ea : EaStatus,
        mtime : Nat, ctime : Nat]

\* A catalogue holds an entry only in a directory it holds too.
ArchiveType ==
  {a \in [root : Nat, entry : [Node -> Entry]] :
     \A n \in Node : a.entry[n] = NoEntry \/ Parent[n] = Root
                     \/ (a.entry[Parent[n]].kind = "inode" /\ a.entry[Parent[n]].dir)}

ASSUME NodeIsFinite == IsFiniteSet(Node)
ASSUME RootIsNotANode == Root \notin Node
ASSUME ParentIsADirectory == Parent \in [Node -> Dir]
ASSUME ArchivesAreWellFormed == Archive \subseteq ArchiveType
ASSUME DatesAreNumbers == Date \subseteq Nat

VARIABLES
  coordinate,  \* coordinate[k]: the archive of number k (entry 0 is a dummy)
  tree,        \* the nodes there are, each in the rejetons of its directory
  dirs,        \* those that are data_dir objects
  last_mod,    \* data status of each node, archive by archive
  last_change, \* EA status of each node, archive by archive
  todo,        \* archives set_permutation or add_archive still has to finalize
  ignoring,    \* whether finalize ignores the archives after the one at hand
  archive,     \* the archive being finalized
  walk,        \* stack of [dir, done, date]: where finalize_except_self stands
  result       \* how the last call ended: "ok" or the exception it threw

maps == <<last_mod, last_change>>
walkVars == <<todo, ignoring, archive, walk>>
vars == <<coordinate, tree, dirs, last_mod, last_change, walkVars, result>>

Idle == walk = <<>> /\ todo = {}
Count == Len(coordinate)

Init ==
  /\ coordinate = <<>>
  /\ tree = {}
  /\ dirs = {}
  /\ last_mod = [n \in Node |-> EmptyMap]
  /\ last_change = [n \in Node |-> EmptyMap]
  /\ todo = {} /\ ignoring = FALSE /\ archive = 0 /\ walk = <<>>
  /\ result = "ok"

-----------------------------------------------------------------------------
(* Adding an archive *)

Known(found) == found.lookup \in {"found_present", "not_restorable"}

LaterOf(x, y) == IF x > y THEN x ELSE y

\* data_dir::add(inode) and data_dir::add(detruit): what an entry of archive
\* number k makes of the data map and of the EA map of its node.
AddData(m, e, k) ==
  CASE e.kind = "inode" ->
         SetStatus(m, k, LaterOf(e.mtime, e.ctime),
                   IF e.saved = "s_not_saved" THEN "et_present" ELSE "et_saved")
    [] e.kind = "detruit" /\ e.date # 0 /\ Known(GetData(m, 0, FALSE)) ->
         SetStatus(m, k, e.date, "et_removed")
    [] OTHER -> m

AddEA(c, e, k) ==
  CASE e.kind = "inode" /\ e.ea = "ea_partial" ->
         SetStatus(c, k, e.ctime, "et_present")
    [] e.kind = "inode" /\ e.ea \in {"ea_fake", "ea_full"} ->
         SetStatus(c, k, e.ctime, "et_saved")
    [] e.kind = "inode" /\ e.ea = "ea_removed" /\ Known(GetEA(c, 0, FALSE)) ->
         SetStatus(c, k, e.ctime, "et_removed")
    [] e.kind = "detruit" /\ e.date # 0 /\ Known(GetEA(c, 0, FALSE)) ->
         SetStatus(c, k, e.date, "et_removed")
    [] OTHER -> c

\* A detruit of an old archive format carries no date and is skipped.
IsAdded(e) == e.kind = "inode" \/ (e.kind = "detruit" /\ e.date # 0)
IsDirectory(e) == e.kind = "inode" /\ e.dir

\* find_or_addition makes the node an entry needs, and turns a plain node
\* into a data_dir when the entry is a directory.
AddArchive(a) ==
  LET number == Count + 1
  IN /\ Idle
     /\ IF number >= ArchiveNumMax
        THEN /\ result' = "Erange"
             /\ UNCHANGED <<coordinate, tree, dirs, maps, walkVars>>
        ELSE /\ coordinate' = Append(coordinate, a)
             /\ tree' = tree \cup {n \in Node : IsAdded(a.entry[n])}
             /\ dirs' = dirs \cup {n \in Node : IsDirectory(a.entry[n])}
             /\ last_mod' = [n \in Node |-> AddData(last_mod[n], a.entry[n], number)]
             /\ last_change' = [n \in Node |-> AddEA(last_change[n], a.entry[n], number)]
             /\ todo' = IF number > 1 THEN {number} ELSE {}
             /\ ignoring' = FALSE
             /\ result' = "ok"
             /\ UNCHANGED <<archive, walk>>

-----------------------------------------------------------------------------
(* Removing an archive *)

\* get_real_archive_num: a reverted number counts from the last archive; 0
\* stands for a number it refuses.
RealArchiveNum(num, revert) ==
  IF ~revert THEN num
  ELSE IF num \in 1..Count THEN Count + 1 - num
  ELSE 0

\* Faulty: only the node itself, its children are forgotten.
UnderSelf(n) == {n}

\* n and everything below it: the least set of nodes that has n and the
\* children of what it has.
Under(n) ==
  {c \in Node : \A S \in SUBSET Node :
     n \in S /\ (\A x \in Node : Parent[x] \in S => x \in S) => c \in S}

\* A node goes when it has no record left and none of its children stays.
Emptied(mod, ea) ==
  {n \in tree : \A c \in Under(n) : mod[c] = EmptyMap /\ ea[c] = EmptyMap}

\* remove_archive with min = max; a range is this action for each of its
\* numbers, from the greatest to the smallest.
RemoveArchive(num, revert) ==
  LET k == RealArchiveNum(num, revert)
      mod == [n \in Node |-> RemoveFrom(last_mod[n], k, Count)]
      ea  == [n \in Node |-> RemoveFrom(last_change[n], k, Count)]
      gone == Emptied(mod, ea)
  IN /\ Idle
     /\ IF k = 0 \/ k > Count
        THEN /\ result' = "Erange"
             /\ UNCHANGED <<coordinate, tree, dirs, maps, walkVars>>
        ELSE /\ coordinate' = RemoveAt(coordinate, k)
             /\ tree' = tree \ gone
             /\ dirs' = dirs \ gone
             /\ last_mod' = [n \in Node |-> SkipOut(mod[n], k)]
             /\ last_change' = [n \in Node |-> SkipOut(ea[n], k)]
             /\ result' = "ok"
             /\ UNCHANGED walkVars

-----------------------------------------------------------------------------
(* Reordering archives *)

\* set_permutation: the archive of number src takes number dst.  The absences
\* of the archives whose neighbour changed are then computed again.
SetPermutation(src, dst) ==
  /\ Idle
  /\ IF {src, dst} \subseteq 1..Count
     THEN /\ coordinate' = InsertAt(RemoveAt(coordinate, src), dst, coordinate[src])
          /\ last_mod' = [n \in Node |-> ApplyPermutation(last_mod[n], src, dst)]
          /\ last_change' = [n \in Node |-> ApplyPermutation(last_change[n], src, dst)]
          /\ todo' = IF src < dst THEN {src, dst, dst + 1} ELSE {src + 1, dst, dst + 1}
          /\ ignoring' = TRUE
          /\ result' = "ok"
          /\ UNCHANGED <<tree, dirs, archive, walk>>
     ELSE /\ result' = "Erange"
          /\ UNCHANGED <<coordinate, tree, dirs, maps, walkVars>>

-----------------------------------------------------------------------------
(* finalize_except_self *)

IgnoreFrom == IF ignoring THEN archive + 1 ELSE 0

\* The next archive to finalize, in increasing order.  get_root_last_mod
\* throws SRC_BUG when the database has no such archive, which abandons the
\* call where it stands.
FinalizeArchive ==
  LET k == Min(todo)
  IN /\ walk = <<>> /\ todo # {}
     /\ IF k > Count
        THEN /\ result' = "SRC_BUG"
             /\ todo' = {}
             /\ UNCHANGED <<archive, walk>>
        ELSE /\ archive' = k
             /\ walk' = <<[dir |-> Root, done |-> {}, date |-> coordinate[k].root]>>
             /\ todo' = todo \ {k}
             /\ UNCHANGED result
     /\ UNCHANGED <<coordinate, tree, dirs, maps, ignoring>>

Top == Last(walk)
Done(nodes) == [walk EXCEPT ![Len(walk)].done = nodes]
Pending == {n \in tree : Parent[n] = Top.dir} \ Top.done
NewData(n) == FinalizeData(last_mod[n], archive, Top.date, IgnoreFrom)
NewEA(n) == FinalizeEA(last_change[n], last_mod[n], archive, Top.date, IgnoreFrom)

FinalizeMaps(n) ==
  /\ last_mod' = [last_mod EXCEPT ![n] = NewData(n)]
  /\ last_change' = [last_change EXCEPT ![n] = NewEA(n)]

FinalizeFile(n) ==
  /\ walk # <<>> /\ n \in Pending
  /\ n \notin dirs
  /\ FinalizeMaps(n)
  /\ walk' = Done(Top.done \cup {n})
  /\ UNCHANGED <<coordinate, tree, dirs, todo, ignoring, archive, result>>

\* The children of a directory are finalized with the date of the archive its
\* own latest state is found in.
FinalizeDirectory(n) ==
  LET found == GetData(NewData(n), 0, FALSE)
  IN /\ walk # <<>> /\ n \in Pending
     /\ n \in dirs
     /\ found.lookup # "not_found"
     /\ FinalizeMaps(n)
     /\ IF found.lookup = "SRC_BUG"
        THEN /\ result' = "SRC_BUG" /\ walk' = <<>> /\ todo' = {}
        ELSE /\ walk' = Append(Done(Top.done \cup {n}),
                               [dir |-> n, done |-> {},
                                date |-> NewData(n)[found.archive].date])
             /\ UNCHANGED <<result, todo>>
     /\ UNCHANGED <<coordinate, tree, dirs, ignoring, archive>>

\* Faulty: an absence is not taken for a removal.
OnlyDetruits(m) == \A k \in Mentioned(m) : m[k].present = "et_removed"

OnlyRemovals(m) == \A k \in Mentioned(m) : ~MentionsExistence(m[k])

\* fix_corruption: no record of the node nor of anything below it says that
\* something exists.
FixCorruption(mod, ea, n) ==
  \A c \in Under(n) \cap tree : OnlyRemovals(mod[c]) /\ OnlyRemovals(ea[c])

\* A directory with no data record left is dropped with all it holds, and the
\* scan of its siblings starts again from the first one.  If something below
\* it is recorded as existing the database is declared corrupted; the children
\* fix_corruption dropped before it met that one are kept here, in a branch
\* that NoCorruptionReport shows no call takes.
DropDirectory(n) ==
  LET mod == [last_mod EXCEPT ![n] = NewData(n)]
      ea  == [last_change EXCEPT ![n] = NewEA(n)]
  IN /\ walk # <<>> /\ n \in Pending
     /\ n \in dirs
     /\ GetData(NewData(n), 0, FALSE).lookup = "not_found"
     /\ IF FixCorruption(mod, ea, n)
        THEN /\ last_mod' = [c \in Node |-> IF c \in Under(n) THEN EmptyMap ELSE mod[c]]
             /\ last_change' = [c \in Node |-> IF c \in Under(n) THEN EmptyMap ELSE ea[c]]
             /\ tree' = tree \ Under(n)
             /\ dirs' = dirs \ Under(n)
             /\ walk' = Done({})
             /\ UNCHANGED <<todo, result>>
        ELSE /\ last_mod' = mod /\ last_change' = ea
             /\ result' = "corrupted" /\ walk' = <<>> /\ todo' = {}
             /\ UNCHANGED <<tree, dirs>>
     /\ UNCHANGED <<coordinate, ignoring, archive>>

FinalizeReturn ==
  /\ walk # <<>> /\ Pending = {}
  /\ walk' = Front(walk)
  /\ UNCHANGED <<coordinate, tree, dirs, maps, todo, ignoring, archive, result>>

Finalize ==
  \/ FinalizeArchive
  \/ \E n \in Node : FinalizeFile(n) \/ FinalizeDirectory(n) \/ DropDirectory(n)
  \/ FinalizeReturn

\* One number above the last archive is enough to be refused.
Number == 0..(Count + 1)

Next ==
  \/ \E a \in Archive : AddArchive(a)
  \/ \E num \in Number, revert \in BOOLEAN : RemoveArchive(num, revert)
  \/ \E src, dst \in Number : SetPermutation(src, dst)
  \/ Finalize

Spec == Init /\ [][Next]_vars

\* The database of a user who only ever adds archives, oldest first.
AddNext == (\E a \in Archive : AddArchive(a)) \/ Finalize
AddSpec == Init /\ [][AddNext]_vars

-----------------------------------------------------------------------------
(* Restoring: database::restore decides which archives to call dar on *)

RestorePlan(n, date, evenWhenRemoved) ==
  LET data == GetData(last_mod[n], date, evenWhenRemoved)
      ea   == GetEA(last_change[n], date, evenWhenRemoved)
      numData == IF data.lookup = "found_present" THEN data.archive ELSE 0
      numEA == IF ea.lookup # "found_present" THEN 0
               ELSE IF evenWhenRemoved THEN LaterOf(numData, ea.archive)
               ELSE ea.archive
  IN [data |-> numData, ea |-> numEA]

\* check_order: what op_add and op_check warn the user about.
InOrder(n) == MapInOrder(last_mod[n]) /\ MapInOrder(last_change[n])

-----------------------------------------------------------------------------
(* Properties *)

\* Every variable keeps its type; in particular no call makes an archive
\* number leave the range the u16 archive_num was given.
TypeOK ==
  /\ coordinate \in Seq(Archive)
  /\ tree \subseteq Node
  /\ dirs \subseteq Node
  /\ last_mod \in [Node -> StatusMap]
  /\ last_change \in [Node -> StatusMap]
  /\ todo \subseteq Nat \ {0}
  /\ ignoring \in BOOLEAN
  /\ archive \in Nat
  /\ walk \in Seq([dir : Dir, done : SUBSET Node, date : Nat])
  /\ result \in {"ok", "Erange", "SRC_BUG", "corrupted"}

HasData(k, n) == k \in 1..Count /\ coordinate[k].entry[n].kind = "inode"
HasEA(k, n) == /\ HasData(k, n)
               /\ coordinate[k].entry[n].ea \in {"ea_partial", "ea_fake", "ea_full"}

\* Whatever was added, removed or moved, and even in the middle of a call, a
\* node says "saved" or "present in archive k" exactly when the archive that
\* now has number k holds that file, and with that archive's own date: the
\* renumbering of coordinate[] and of the two maps never drift apart.
RecordsMatchArchives ==
  \A n \in Node, k \in ArchiveNum :
    /\ MentionsExistence(last_mod[n][k]) <=> HasData(k, n)
    /\ MentionsExistence(last_change[n][k]) <=> HasEA(k, n)
    /\ HasData(k, n) =>
         last_mod[n][k] = AddData(EmptyMap, coordinate[k].entry[n], k)[k]
    /\ HasEA(k, n) =>
         last_change[n][k] = AddEA(EmptyMap, coordinate[k].entry[n], k)[k]

\* No record outlives its archive: none bears a number above the last one.
NoStrayRecord ==
  \A n \in Node, k \in ArchiveNum :
    k > Count => last_mod[n][k] = NotMentioned /\ last_change[n][k] = NotMentioned

Holds(k, n) == HasData(k, n) /\ coordinate[k].entry[n].saved # "s_not_saved"

\* dar_manager never asks dar to restore a file's data from an archive that
\* does not hold them, whatever the date asked for and with or without -k.
RestoreFromHolder ==
  \A n \in Node, date \in Date, even \in BOOLEAN :
    LET found == GetData(last_mod[n], date, even)
    IN found.lookup = "found_present" => Holds(found.archive, n)

\* No lookup, at any date, with or without -k, ends in the exception that the
\* code keeps for contradicting presence flags.
NoLookupBug ==
  \A n \in Node, date \in Date, even \in BOOLEAN :
    /\ GetData(last_mod[n], date, even).lookup # "SRC_BUG"
    /\ GetEA(last_change[n], date, even).lookup # "SRC_BUG"

\* A database that only legal calls have built is never reported as corrupted
\* by the walk, however archives were removed and moved before.
NoCorruptionReport == result # "corrupted"

\* Every node of the tree is in a directory that is a data_dir of the tree:
\* neither an upgrade to data_dir, nor a removal, nor a dropped directory
\* leaves an orphan.  What is out of the tree has no record.
TreeIsSound ==
  /\ \A n \in tree : Parent[n] \in {Root} \cup (dirs \cap tree)
  /\ \A n \in Node \ tree : last_mod[n] = EmptyMap /\ last_change[n] = EmptyMap

\* Adding archives in order, the latest state of a file is what the newest
\* archive says of it: a file it does not hold is never offered for
\* restoration, a file it saves is restored from it.
NewestArchiveWins ==
  \A n \in Node :
    Idle /\ Count > 0 /\ InOrder(n) =>
      LET e == coordinate[Count].entry[n]
          data == GetData(last_mod[n], 0, FALSE)
          ea == GetEA(last_change[n], 0, FALSE)
      IN /\ e.kind # "inode" => ~Known(data) /\ ~Known(ea)
         /\ e.kind = "inode" => Known(data)
         /\ Holds(Count, n) => data = [archive |-> Count, lookup |-> "found_present"]
         /\ e.kind = "inode" /\ e.ea \in {"ea_none", "ea_removed"} => ~Known(ea)

\* When dates are in order, what dar restores last for a file is the data and
\* the EA that were looked up: the archive called for the EA alone brings no
\* older or newer data with it, nor the archive of the data other EA.
RestoreYieldsLookup ==
  \A n \in Node, date \in Date, even \in BOOLEAN :
    Idle /\ InOrder(n) =>
      LET plan == RestorePlan(n, date, even)
      IN /\ plan.data \in 1..(plan.ea - 1) => last_mod[n][plan.ea].present # "et_saved"
         /\ plan.ea \in 1..(plan.data - 1) => last_change[n][plan.data].present # "et_saved"
=============================================================================
