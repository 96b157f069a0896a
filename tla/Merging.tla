------------------------------ MODULE Merging ------------------------------
(***************************************************************************)
(* Merging two archives, filtering one, or building a decremental backup   *)
(* (libdar/filtre.cpp filtre_merge).  The catalogues of the archives are   *)
(* read one after the other, every entry retained is cloned and added to   *)
(* the catalogue under construction, where the policy solves the conflicts *)
(* (step 1); then the data and EA of what was retained are copied (step 2).*)
(*                                                                         *)
(* An archive is the sequence of what reading its catalogue gives: entries *)
(* with the fields of Criteria and path, etiq (0, or the number of the     *)
(* hard linked inode in that archive), eas (its EA, pairs of a name and a  *)
(* value) and id (which data); and the ends of directories, with the path  *)
(* of these.                                                               *)
(* cat is the catalogue under construction, in the order reading it gives. *)
(***************************************************************************)
EXTENDS Integers, Sequences, FiniteSets, FiniteSetsExt, Folds

CONSTANTS Names,         \* the components of paths
          ArchiveSets,   \* the sequences of one or two archives that are merged
          MergePolicies, MergeOptions,
          MergeFaults,   \* bound on the failures of the system and the cancellations
          Decide(_, _, _),          \* what a policy does of an entry in place and one to add
          DecrementalPolicy,        \* the policy of a decremental backup
          DataAnswers, EAAnswers    \* what a user asked for an action answers

VARIABLES
  archs, opts, policy,    \* what is merged, and how
  cat,                    \* the nodes of the catalogue under construction
  ino,                    \* their inodes (or records of removed files), by number
  corres,                 \* corres_copy: etiquette -> number of the inode
  index, pos, ent, offset,  \* the archive read, where, the entry read last, etiquette_offset
  juillet,                \* the path of the entry read last (defile)
  current_add, current_read,  \* the cursors of cat
  st,                     \* the statistics
  dolly, here, act,       \* the clone, the path of the entry in conflict, what the policy wants
  stored, stored_ea,      \* inodes whose data, whose EA are in the new archive
  pc, abort, verdict, faults

source == <<archs, opts, policy>>
result == <<cat, ino, corres>>
reader == <<index, pos, ent, offset, juillet>>
cursors == <<current_add, current_read>>
clone == <<dolly, here, act>>
copies == <<stored, stored_ea>>
ends == <<abort, verdict, faults>>
vars == <<source, result, reader, cursors, st, clone, copies, pc, ends>>

Front(s) == SubSeq(s, 1, Len(s) - 1)
Last(s) == s[Len(s)]
IsInode(x) == x.type \notin {"detruit", "ignored"}
HasEA(x) == x.ea \notin {"none", "removed"}

\* The directory the entry after x is in, and the one entry n + 1 of a sequence is in.
After(x) == IF x.type = "dir" THEN x.path ELSE Front(x.path)
Where(s, n) == IF n = 0 THEN <<>> ELSE After(s[n])

\* A catalogue gives the tree in depth: a directory, what it holds, its end.
InOrder(s) ==
  \A k \in DOMAIN s :
    /\ s[k].path \in Seq(Names) /\ s[k].path # <<>>
    /\ Where(s, k - 1) = IF s[k].type = "eod" THEN s[k].path ELSE Front(s[k].path)
    /\ s[k].type = "dir" =>
         \E j \in k..Len(s) : s[j].type = "eod" /\ s[j].path = s[k].path
    /\ \A j \in DOMAIN s :
         s[j].path = s[k].path /\ (s[j].type = "eod" <=> s[k].type = "eod") => j = k

Types == {"file", "link", "dir", "char", "block", "pipe", "socket", "ignored", "igndir", "detruit"}
SavedStates == {"saved", "fake", "not_saved", "none"}
EAStates == {"none", "partial", "fake", "full", "removed"}

\* What is known of an entry, its inode if it is one; only files have hard links.
IsEntry(x) ==
  /\ x.type \in Types /\ x.saved \in SavedStates /\ x.mtime \in Int /\ x.size \in Int
  /\ x.dirty \in BOOLEAN /\ x.sparse \in BOOLEAN /\ x.ea \in EAStates /\ x.ctime \in Int
  /\ x.etiq \in Nat /\ (x.type = "dir" => x.etiq = 0)

\* The one or two archives to merge, whose paths name one entry each.
ASSUME ArchivesAreTrees ==
  \A a \in ArchiveSets :
    /\ a \in Seq({a[j] : j \in DOMAIN a}) /\ Len(a) \in {1, 2}
    /\ \A j \in DOMAIN a :
         /\ a[j] \in Seq({a[j][k] : k \in DOMAIN a[j]})
         /\ InOrder(a[j])
         /\ \A k \in DOMAIN a[j] : a[j][k].type # "eod" => IsEntry(a[j][k])

NoStats == [treated |-> 0, hard_links |-> 0, ignored |-> 0, errored |-> 0,
            deleted |-> 0, ea_treated |-> 0]
NoDolly == [path |-> <<>>, i |-> 0, etiq |-> 0, n |-> 0]
NoAct == [data |-> "undefined", ea |-> "undefined"]

Below(p, q) == Len(q) > Len(p) /\ SubSeq(q, 1, Len(p)) = p
Under(p) == {k \in DOMAIN cat : Below(p, cat[k].path)}
Without(f, x) == [y \in DOMAIN f \ {x} |-> f[y]]

it == archs[index][ent]    \* e
EntryIsDir == it.type = "dir"
Name == Last(it.path)
IsDecremental == opts.decremental /\ Len(archs) = 2
Rule == IF IsDecremental THEN DecrementalPolicy ELSE policy

Bump(s, c, n) == [s EXCEPT ![c] = @ + n]
If(b, n) == IF b THEN n ELSE 0

-----------------------------------------------------------------------------
(* The catalogue under construction. *)

At(p) == {k \in DOMAIN cat : cat[k].path = p}
NodeAt(p) == cat[CHOOSE k \in DOMAIN cat : cat[k].path = p]
Place == Append(current_read, Name)     \* where read_if_present looks
Conflicts == At(Place) # {}
There == NodeAt(Place)                  \* already_here

IsInodeAt(n) == IsInode(ino[n.i])
IsDirAt(n) == ino[n.i].type = "dir"
Hard(n) == n.etiq # 0

\* References to an inode: the nodes, and the clone while it is not added.
Links(i) == {cat[k].n : k \in {j \in DOMAIN cat : cat[j].i = i}} \cup (IF dolly.i = i THEN {dolly.n} ELSE {})
RefCount(n) == Cardinality(Links(n.i))

\* What the criteria see of a node.
View(n) ==
  LET x == ino[n.i]
  IN [type |-> x.type, hard |-> Hard(n), first |-> n.n = Min(Links(n.i)), saved |-> x.saved,
      mtime |-> x.mtime, size |-> x.size, dirty |-> x.dirty, sparse |-> x.sparse, ea |-> x.ea,
      ctime |-> x.ctime, eanum |-> Cardinality(x.eas), easize |-> Cardinality(x.eas)]

\* directory::remove, of an entry and of all it holds.
Pruned(p) ==
  LET kept[k \in 0..Len(cat)] ==
        IF k = 0 THEN <<>>
        ELSE IF cat[k].path = p \/ Below(p, cat[k].path) THEN kept[k - 1]
        ELSE Append(kept[k - 1], cat[k])
  IN kept[Len(cat)]

\* directory::add_children puts a node behind the last child of current_add.
\* An entry of the same name is replaced.
AddChild(n) ==
  LET c == Pruned(n.path)
      last == Max({0} \cup {k \in DOMAIN c : c[k].path = current_add \/ Below(current_add, c[k].path)})
  IN SubSeq(c, 1, last) \o <<n>> \o SubSeq(c, last + 1, Len(c))

\* clean_hard_link_base_from: the last link to an inode takes it out of the map.
\* Faulty: whatever the number of links.
CleanAlways(n) == IF Hard(n) THEN Without(corres, n.etiq) ELSE corres
Clean(n) == IF Hard(n) /\ RefCount(n) = 1 THEN Without(corres, n.etiq) ELSE corres

\* make_clone: the first link met in the archives makes the inode.
Key(x) == x.etiq + offset
InodeOf(x) == [type |-> x.type, saved |-> x.saved, mtime |-> x.mtime, size |-> x.size,
               dirty |-> x.dirty, sparse |-> x.sparse, ea |-> x.ea, ctime |-> x.ctime,
               eas |-> x.eas, id |-> x.id, from |-> index, loaded |-> FALSE]
IsNewInode == it.etiq = 0 \/ Key(it) \notin DOMAIN corres
\* A clone destroyed by an error may have been the only link of its inode, which
\* the map goes on designating.
Dangling == ~ IsNewInode /\ \A k \in DOMAIN cat : cat[k].i # corres[Key(it)]
Dolly == [path |-> Append(current_add, Name),
          i |-> IF IsNewInode THEN Len(ino) + 1 ELSE corres[Key(it)],
          etiq |-> IF it.etiq = 0 THEN 0 ELSE Key(it),
          n |-> IF index = 1 THEN ent ELSE Len(archs[1]) + ent]
MakeClone ==
  /\ dolly' = Dolly
  /\ ino' = IF IsNewInode THEN Append(ino, InodeOf(it)) ELSE ino
  /\ corres' = IF it.etiq # 0 /\ IsNewInode
               THEN [k \in DOMAIN corres \cup {Key(it)} |-> IF k = Key(it) THEN Len(ino) + 1 ELSE corres[k]]
               ELSE corres

-----------------------------------------------------------------------------
(* Moving EA from one inode to another (do_EA_transfert). *)

Moves == {"overwrite", "overwrite_mark_saved", "merge_preserve", "merge_overwrite"}

\* The EA that must be read from an archive, which may fail.
ReadsEA(action, to, from) ==
  /\ IsInode(ino[to]) /\ IsInode(ino[from])
  /\ action \in Moves \ {"overwrite_mark_saved"} /\ ino[from].ea = "full"
  /\ ~ ino[from].loaded \/ (action # "overwrite" /\ ino[to].ea = "full" /\ ~ ino[to].loaded)

Attach(x, eas) == [x EXCEPT !.ea = "full", !.eas = eas, !.loaded = TRUE]
Drop(x, status) == [x EXCEPT !.ea = status, !.eas = IF status = "none" THEN {} ELSE @, !.loaded = FALSE]

\* merge_ea: the EA of both, the first wins those of the same name.
MergeEA(first, second) == first \cup {v \in second : \A u \in first : u[1] # v[1]}

Transferred(action, x, y) ==
  CASE action = "overwrite" ->
         IF y.ea \in {"none", "removed"} THEN Drop(x, "none")
         ELSE IF y.ea = "full" THEN [Attach(x, y.eas) EXCEPT !.ctime = y.ctime]
         ELSE [Drop(x, "partial") EXCEPT !.ctime = y.ctime]
    [] action = "overwrite_mark_saved" ->
         [Drop(x, IF y.ea \in {"full", "fake"} THEN "partial" ELSE y.ea)
            EXCEPT !.ctime = IF y.ea # "none" THEN y.ctime ELSE @]
    [] action \in {"merge_preserve", "merge_overwrite"} ->
         IF y.ea # "full" THEN x
         ELSE Attach(x, IF x.ea # "full" THEN y.eas
                        ELSE IF action = "merge_preserve" THEN MergeEA(x.eas, y.eas) ELSE MergeEA(y.eas, x.eas))

Transfer(action, to, from) ==
  IF IsInode(ino[to]) /\ IsInode(ino[from])
  THEN [ino EXCEPT ![to] = Transferred(action, @, ino[from])] ELSE ino

-----------------------------------------------------------------------------
(* Step 1: one entry of one archive at a time. *)

Enfile(x) ==
  LET base == IF juillet.init THEN juillet.path ELSE Front(juillet.path)
  IN IF x.type = "eod" THEN [path |-> base, init |-> FALSE]
     ELSE [path |-> Append(base, Last(x.path)), init |-> x.type = "dir"]

Stop(v) == /\ verdict' = v
           /\ pc' = "end"

\* skip_read_to_parent_dir of the archive, and the end of directory for juillet.
AfterDir == CHOOSE k \in DOMAIN archs[index] :
              archs[index][k].type = "eod" /\ archs[index][k].path = it.path
\* Faulty: juillet stays in the directory.
LeaveEntryInside ==
  IF EntryIsDir THEN pos' = AfterDir /\ UNCHANGED juillet ELSE UNCHANGED <<pos, juillet>>
LeaveEntry ==
  IF EntryIsDir THEN /\ pos' = AfterDir
                     /\ juillet' = [path |-> juillet.path, init |-> FALSE]
  ELSE UNCHANGED <<pos, juillet>>
Leave == LeaveEntry /\ UNCHANGED <<index, ent, offset>>

Init ==
  /\ archs \in ArchiveSets /\ opts \in MergeOptions /\ policy \in MergePolicies
  /\ cat = <<>> /\ ino = <<>> /\ corres = [k \in {} |-> 0]
  /\ index = 1 /\ pos = 0 /\ ent = 0 /\ offset = 0 /\ juillet = [path |-> <<>>, init |-> TRUE]
  /\ current_add = <<>> /\ current_read = <<>>
  /\ st = NoStats /\ dolly = NoDolly /\ here = <<>> /\ act = NoAct
  /\ stored = {} /\ stored_ea = {}
  /\ pc = "read" /\ abort = FALSE /\ verdict = "none" /\ faults = 0

ReadNext ==
  /\ pc = "read" /\ pos < Len(archs[index])
  /\ pos' = pos + 1 /\ ent' = pos + 1
  /\ juillet' = Enfile(archs[index][pos + 1])
  /\ pc' = "filter"
  /\ UNCHANGED <<source, result, index, offset, cursors, st, clone, copies, ends>>

\* The etiquettes of the next archive are shifted by the number of those known.
NextArchive ==
  /\ pc = "read" /\ pos = Len(archs[index]) /\ index < Len(archs)
  /\ index' = index + 1 /\ pos' = 0 /\ juillet' = [path |-> <<>>, init |-> TRUE]
  /\ offset' = Cardinality(DOMAIN corres)
  /\ current_add' = <<>> /\ current_read' = <<>>
  /\ UNCHANGED <<source, result, ent, st, clone, copies, pc, ends>>

\* Both catalogues are read: step 2 reads the new one.
Selected ==
  /\ pc = "read" /\ pos = Len(archs[index]) /\ index = Len(archs)
  /\ pc' = "copy" /\ pos' = 0
  /\ UNCHANGED <<source, result, index, ent, offset, juillet, cursors, st, clone, copies, ends>>

\* An immediate cancellation ends all, a delayed one the selection only.
CancelSelection ==
  /\ pc = "filter" /\ faults < MergeFaults
  /\ faults' = faults + 1
  /\ \/ Stop("cancelled") /\ UNCHANGED <<pos, abort>>
     \/ pc' = "copy" /\ pos' = 0 /\ abort' = TRUE /\ UNCHANGED verdict
  /\ UNCHANGED <<source, result, index, ent, offset, juillet, cursors, st, clone, copies>>

LeaveDirectory ==
  /\ pc = "filter" /\ it.type = "eod"
  /\ IF current_add = <<>> \/ current_read = <<>> THEN Stop("bug") /\ UNCHANGED cursors
     ELSE /\ current_add' = Front(current_add) /\ current_read' = Front(current_read)
          /\ pc' = "read" /\ UNCHANGED verdict
  /\ UNCHANGED <<source, result, reader, st, clone, copies, abort, faults>>

Exclude ==
  /\ pc = "filter" /\ it.type # "eod" /\ juillet.path \notin opts.mask
  /\ IF EntryIsDir /\ opts.emptydir
     THEN /\ cat' = AddChild([Dolly EXCEPT !.i = Len(ino) + 1])
          /\ ino' = Append(ino, [InodeOf(it) EXCEPT !.type = "igndir"])
     ELSE UNCHANGED <<cat, ino>>
  /\ st' = Bump(st, "ignored", 1)
  /\ pc' = "read"
  /\ Leave
  /\ UNCHANGED <<source, corres, cursors, clone, copies, ends>>

\* read_if_present enters a directory that is found.
CloneEntry ==
  /\ pc = "filter" /\ it.type # "eod" /\ juillet.path \in opts.mask
  /\ IF Dangling THEN Stop("undefined") /\ UNCHANGED <<dolly, here, ino, corres, current_read>>
     ELSE /\ MakeClone
          /\ here' = Place
          /\ pc' = IF Conflicts THEN "judge" ELSE "new"
          /\ current_read' = IF Conflicts /\ IsDirAt(There) THEN Place ELSE current_read
          /\ UNCHANGED verdict
  /\ UNCHANGED <<source, cat, reader, current_add, st, act, copies, abort, faults>>

-----------------------------------------------------------------------------
(* A conflict with an entry in place. *)

Here == NodeAt(here)
HereIsDir == IsDirAt(Here)
BothDirs == HereIsDir /\ EntryIsDir
Quiet == UNCHANGED <<source, result, reader, cursors, st, dolly, here, copies, abort>>

\* An exception: the clone is destroyed, nothing of the directory is read.
Abandon(s, inodes) ==
  /\ st' = Bump(s, "errored", 1)
  /\ ino' = inodes
  /\ dolly' = NoDolly
  /\ pc' = "read"
  /\ Leave
  /\ UNCHANGED <<source, cat, corres, cursors, here, act, copies, abort>>

Judge ==
  /\ pc = "judge"
  /\ act' = Decide(Rule, View(Here), View(dolly))
  /\ pc' = "data"
  /\ Quiet /\ UNCHANGED <<verdict, faults>>

Refusable == {"overwrite", "overwrite_mark_saved", "remove", "preserve_mark_saved"}
RefusableEA == {"overwrite", "clear", "preserve_mark_saved", "overwrite_mark_saved", "merge_overwrite"}

\* The user is asked for the action, then may refuse it.  Refusing the one on EA
\* preserves the data as well, and leaves the action on EA as it was.
ChooseData ==
  /\ pc = "data"
  /\ \E answer \in (IF act.data = "ask" THEN DataAnswers \ {"abort"} ELSE {act.data}) :
     \E refused \in (IF opts.warn THEN {"nothing", "data", "ea"} ELSE {"nothing"}) :
        /\ refused = "data" => answer \in Refusable
        /\ refused = "ea" => act.ea \in RefusableEA
        /\ act' = [act EXCEPT !.data = IF refused = "nothing" THEN answer ELSE "preserve"]
  /\ pc' = "ea"
  /\ Quiet /\ UNCHANGED <<verdict, faults>>

AskedEA ==
  act.ea = "ask" /\ act.data # "remove" /\ IsInodeAt(Here) /\ IsInodeAt(dolly)
  /\ (ino[Here.i].ea # "none" \/ ino[dolly.i].ea # "none")
Keeps == act.data \in {"preserve", "preserve_mark_saved", "undefined"}
ChooseEA ==
  /\ pc = "ea"
  /\ \E answer \in (IF AskedEA THEN EAAnswers \ {"abort"}
                    ELSE IF act.ea # "ask" THEN {act.ea}
                    ELSE {IF Keeps THEN "preserve" ELSE "overwrite"}) :
        act' = [act EXCEPT !.ea = answer]
  /\ pc' = "apply"
  /\ Quiet /\ UNCHANGED <<verdict, faults>>

\* The user gives up at a question: the entry counts as an error.
Refuse ==
  /\ \/ pc = "data" /\ act.data = "ask"
     \/ pc = "ea" /\ AskedEA
  /\ faults < MergeFaults /\ faults' = faults + 1
  /\ Abandon(st, ino) /\ UNCHANGED verdict

\* After an error that follows a skip the directory is skipped a second time.
LeaveTwice ==
  IF Len(it.path) = 1 THEN Stop("error") /\ UNCHANGED <<pos, juillet>>
  ELSE /\ pos' = CHOOSE k \in DOMAIN archs[index] :
                   archs[index][k].type = "eod" /\ archs[index][k].path = Front(it.path)
       /\ juillet' = [path |-> Front(juillet.path), init |-> FALSE]
       /\ pc' = "read" /\ UNCHANGED verdict

\* The data that policy drops, of the entry in place or of the one added.
DropData(i, mark) ==
  IF act.data = mark /\ IsInode(ino[i]) /\ ino[i].saved = "saved"
  THEN [ino EXCEPT ![i].saved = "not_saved"] ELSE ino

\* Faulty: the one in place wins although the clone replaces it.
SwappedNot == [preserve |-> "overwrite", undefined |-> "overwrite", preserve_mark_saved |-> "overwrite_mark_saved",
               merge_preserve |-> "merge_preserve", merge_overwrite |-> "merge_overwrite", overwrite |-> "overwrite"]
\* The transfer the actions ask for: from the clone to the entry kept, or to the
\* clone from the entry it replaces.
Swapped == [preserve |-> "overwrite", undefined |-> "overwrite", preserve_mark_saved |-> "overwrite_mark_saved",
            merge_preserve |-> "merge_overwrite", merge_overwrite |-> "merge_preserve"]
Reads == IF Keeps THEN act.ea \in Moves /\ ReadsEA(act.ea, Here.i, dolly.i)
         ELSE act.ea \in DOMAIN Swapped /\ ReadsEA(Swapped[act.ea], dolly.i, Here.i)
Unreadable ==
  /\ pc = "apply" /\ act.data # "remove" /\ Reads
  /\ faults < MergeFaults /\ faults' = faults + 1
  /\ Abandon(st, IF Keeps THEN DropData(Here.i, "preserve_mark_saved")
                 ELSE DropData(dolly.i, "overwrite_mark_saved"))
  /\ UNCHANGED verdict

EAOfInode(i, status) == IF IsInode(ino[i]) /\ ino[i].ea = "full" THEN [ino EXCEPT ![i] = Drop(@, status)] ELSE ino

\* The directory that read_if_present found may not be where entries are added:
\* the reader of the archive then goes up twice.
Astray == BothDirs /\ At(Append(current_add, Name)) = {}
LoseDirectory ==
  /\ pc = "apply" /\ act.data # "remove" /\ Astray
  /\ st' = Bump(st, "errored", 1)
  /\ dolly' = NoDolly
  /\ IF Keeps THEN current_read' = Front(current_read) /\ LeaveTwice
     ELSE /\ LeaveEntry /\ pc' = "read" /\ UNCHANGED <<current_read, verdict>>
  /\ UNCHANGED <<source, result, index, ent, offset, current_add, here, act, copies, abort, faults>>

\* The entry in place stays; both directories are entered, or none.
Preserve ==
  /\ pc = "apply" /\ Keeps /\ ~ Astray
  /\ LET h == Here
         x == DropData(h.i, "preserve_mark_saved")[h.i]
         lost == act.ea = "clear" /\ IsInode(x) /\ x.ea = "full"
         new == CASE act.ea \in Moves -> Transfer(act.ea, h.i, dolly.i)[h.i]
                  [] act.ea = "preserve_mark_saved" -> EAOfInode(h.i, "partial")[h.i]
                  [] act.ea = "clear" -> IF IsInode(x) /\ x.ea # "none" THEN Drop(ino[h.i], "none") ELSE ino[h.i]
                  [] OTHER -> ino[h.i]
     IN IF act.ea = "clear" /\ ~ IsInode(x)
        THEN Stop("undefined") /\ UNCHANGED <<cat, ino, corres, reader, cursors, st, dolly>>
        ELSE IF lost /\ st.ea_treated = 0 THEN Abandon(st, [ino EXCEPT ![h.i] = x]) /\ UNCHANGED verdict
        ELSE /\ ino' = [ino EXCEPT ![h.i] = [new EXCEPT !.saved = x.saved]]
             /\ st' = IF lost THEN Bump(st, "ea_treated", -1) ELSE st
             /\ IF BothDirs
                THEN /\ current_add' = Append(current_add, Name)
                     /\ pc' = "read"
                     /\ UNCHANGED <<reader, current_read, verdict>>
                ELSE /\ current_read' = IF HereIsDir THEN Front(current_read) ELSE current_read
                     /\ Leave /\ UNCHANGED current_add
                     /\ pc' = "read" /\ UNCHANGED verdict
             /\ corres' = Clean(dolly) /\ dolly' = NoDolly
             /\ UNCHANGED cat
  /\ UNCHANGED <<source, here, act, copies, abort, faults>>

-----------------------------------------------------------------------------
(* The clone, or nothing, takes the place of the entry. *)

Full(i) == ino[i].ea = "full"

EAsUnder(p) == Cardinality({k \in Under(p) : LET x == ino[cat[k].i] IN IsInode(x) /\ HasEA(x)})
MiragesUnder(p) == Cardinality({k \in Under(p) : Hard(cat[k])})

\* Faulty: the content of a directory removed still counts.
UncountedTop ==
  LET h == Here
  IN <<<<"treated", 1>>, <<"ea_treated", If(IsInodeAt(h) /\ Full(h.i), 1)>>,
       <<"hard_links", If(Hard(h), 1)>>, <<"ea_treated", If(Hard(h) /\ Full(h.i), 1)>>,
       <<"deleted", If(ino[h.i].type = "detruit", 1)>>, <<"ignored", If(ino[h.i].type = "igndir", 1)>>>>
\* An EA of a hard linked inode is subtracted twice, and those not saved too when
\* their directory goes.
Uncounted ==
  LET h == Here
  IN <<<<"treated", 1>>, <<"ea_treated", If(IsInodeAt(h) /\ Full(h.i), 1)>>,
       <<"hard_links", If(Hard(h), 1)>>, <<"ea_treated", If(Hard(h) /\ Full(h.i), 1)>>,
       <<"deleted", If(ino[h.i].type = "detruit", 1)>>, <<"ignored", If(ino[h.i].type = "igndir", 1)>>>>
     \o IF HereIsDir
        THEN <<<<"treated", Cardinality(Under(h.path))>>, <<"ea_treated", EAsUnder(h.path)>>,
               <<"hard_links", MiragesUnder(h.path)>>>>
        ELSE <<>>

\* The inodes linked only from a directory that goes leave the map.
Linked(i) == Links(i) \ (IF act.data = "remove" THEN {dolly.n} ELSE {})
LinkedFrom(p, i) == {cat[k].n : k \in {j \in Under(p) : cat[j].i = i /\ Hard(cat[j])}}
LeaveMap(p, m) ==
  [e \in {x \in DOMAIN m : LinkedFrom(p, m[x]) = {} \/ LinkedFrom(p, m[x]) # Linked(m[x])} |-> m[e]]

\* Decrementing a counter at zero throws, those before in the list are decremented.
Counters == {"treated", "hard_links", "ignored", "deleted", "ea_treated"}
Taken(c, n) == MapThenFoldSet(LAMBDA x, y : x + y, 0, LAMBDA j : Uncounted[j][2],
                              LAMBDA S : CHOOSE j \in S : TRUE,
                              {j \in 1..n : Uncounted[j][1] = c})
Suffices(n) == \A j \in 1..n : Taken(Uncounted[j][1], j) <= st[Uncounted[j][1]]
Left ==
  LET n == Max({j \in 0..Len(Uncounted) : Suffices(j)})
  IN [stats |-> [c \in DOMAIN st |-> IF c \in Counters THEN st[c] - Taken(c, n) ELSE st[c]],
      fails |-> n < Len(Uncounted)]
Removal(m, inodes) ==
  LET h == Here
  IN /\ st' = Bump(Left.stats, "ignored", If(act.data = "remove", 1) + If(HereIsDir, Cardinality(Under(h.path))))
     /\ corres' = LET c == IF Hard(h) /\ Linked(h.i) = {h.n} THEN Without(m, h.etiq) ELSE m
                  IN IF HereIsDir THEN LeaveMap(h.path, c) ELSE c
     /\ IF HereIsDir /\ opts.emptydir
        THEN /\ ino' = Append(inodes, [inodes[h.i] EXCEPT !.type = "igndir"])
             /\ cat' = LET c == Pruned(h.path)
                           n == [h EXCEPT !.i = Len(inodes) + 1]
                           last == Max({0} \cup {k \in DOMAIN c : Below(Front(h.path), c[k].path)})
                       IN SubSeq(c, 1, last) \o <<n>> \o SubSeq(c, last + 1, Len(c))
        ELSE ino' = inodes /\ cat' = Pruned(h.path)
     /\ current_read' = IF HereIsDir THEN Front(current_read) ELSE current_read
     /\ UNCHANGED <<source, current_add, here, act, copies, abort, verdict>>

Remove ==
  /\ pc = "apply" /\ act.data = "remove"
  /\ dolly' = NoDolly
  /\ \/ /\ ~ Left.fails
        /\ Removal(Clean(dolly), ino)
        /\ Leave
        /\ pc' = "read"
     \/ /\ Left.fails
        /\ st' = Bump(Left.stats, "errored", 1)
        /\ corres' = Clean(dolly)
        /\ IF EntryIsDir THEN LeaveTwice ELSE pc' = "read" /\ UNCHANGED <<pos, juillet, verdict>>
        /\ UNCHANGED <<source, cat, ino, cursors, index, ent, offset, here, act, copies, abort>>
  /\ UNCHANGED faults

Overwrite ==
  /\ pc = "apply" /\ ~ Keeps /\ act.data # "remove" /\ ~ Astray
  /\ LET h == Here
         x == DropData(dolly.i, "overwrite_mark_saved")[dolly.i]
         new == CASE act.ea \in DOMAIN Swapped -> Transfer(Swapped[act.ea], dolly.i, h.i)[dolly.i]
                  [] act.ea = "overwrite_mark_saved" -> EAOfInode(dolly.i, "partial")[dolly.i]
                  [] act.ea = "clear" -> IF ino[h.i].ea # "none" THEN Drop(ino[dolly.i], "none") ELSE ino[dolly.i]
                  [] OTHER -> ino[dolly.i]
         inodes == [ino EXCEPT ![dolly.i] = [new EXCEPT !.saved = x.saved]]
     IN IF act.ea = "clear" /\ (~ IsInodeAt(h) \/ (ino[h.i].ea # "none" /\ ~ IsInodeAt(dolly)))
        THEN Stop("undefined") /\ UNCHANGED <<source, result, reader, cursors, st, clone, copies, abort>>
        ELSE IF BothDirs
        THEN /\ ino' = [inodes EXCEPT ![h.i] = inodes[dolly.i]]
             /\ current_add' = Append(current_add, Name)
             /\ dolly' = NoDolly /\ pc' = "read"
             /\ UNCHANGED <<source, cat, corres, reader, current_read, st, here, act, copies, abort, verdict>>
        ELSE IF Left.fails THEN Abandon(Left.stats, inodes) /\ UNCHANGED verdict
        ELSE /\ Removal(corres, inodes)
             /\ pc' = "add"
             /\ UNCHANGED <<reader, dolly>>
  /\ UNCHANGED faults

-----------------------------------------------------------------------------
(* Nothing of that name is there. *)

\* A decremental backup records as removed what the second archive adds.
Erase ==
  /\ pc = "new" /\ IsDecremental /\ index = 2
  /\ corres' = Clean(dolly)
  /\ ino' = Append(ino, [InodeOf(it) EXCEPT !.type = "detruit", !.saved = "none", !.ea = "none",
                                            !.eas = {}, !.id = "detruit"])
  /\ dolly' = [dolly EXCEPT !.i = Len(ino) + 1, !.etiq = 0]
  /\ Leave
  /\ pc' = "add"
  /\ UNCHANGED <<source, cat, cursors, st, here, act, copies, abort, verdict, faults>>

\* The counters are those of the entry read, a record of removal or not.
Add ==
  /\ \/ pc = "add"
     \/ pc = "new" /\ ~ (IsDecremental /\ index = 2)
  /\ LET old == At(dolly.path)
         dir == IsDirAt(dolly)
     IN IF dir /\ old # {} /\ IsDirAt(NodeAt(dolly.path))
        THEN Stop("undefined") /\ UNCHANGED <<cat, cursors>>
        ELSE /\ cat' = AddChild(dolly)
             /\ current_add' = IF dir THEN dolly.path ELSE current_add
             /\ IF dir /\ current_read # current_add
                THEN Stop("bug") /\ UNCHANGED current_read
                ELSE /\ current_read' = IF dir THEN dolly.path ELSE current_read
                     /\ pc' = "read" /\ UNCHANGED verdict
  /\ st' = [st EXCEPT !.treated = @ + 1, !.hard_links = @ + If(it.etiq # 0, 1),
                      !.deleted = @ + If(it.type = "detruit", 1), !.ea_treated = @ + If(it.ea = "full", 1)]
  /\ dolly' = NoDolly
  /\ UNCHANGED <<source, ino, corres, reader, here, act, copies, abort, faults>>

-----------------------------------------------------------------------------
(* Step 2: the data and EA of what was retained are copied, once per inode. *)

ToCopy(k) ==
  LET x == ino[cat[k].i]
  IN IsInode(x) /\ cat[k].i \notin stored /\ (x.saved = "saved" \/ x.ea = "full")
Copying == UNCHANGED <<source, ino, corres, index, ent, offset, juillet, cursors, st, clone, abort>>

CopyNext ==
  /\ pc = "copy" /\ pos < Len(cat)
  /\ pos' = pos + 1
  /\ LET i == cat[pos + 1].i
     IN IF ~ ToCopy(pos + 1) THEN UNCHANGED <<copies, faults>>
        ELSE /\ stored' = stored \cup {i}
             /\ \/ stored_ea' = stored_ea \cup (IF Full(i) THEN {i} ELSE {}) /\ UNCHANGED faults
                \/ /\ Full(i) /\ faults < MergeFaults /\ faults' = faults + 1
                   /\ UNCHANGED stored_ea
  /\ Copying /\ UNCHANGED <<cat, pc, verdict>>

\* Data that cannot be read ends the merging.
CopyFails ==
  /\ pc = "copy" /\ pos < Len(cat) /\ ToCopy(pos + 1)
  /\ faults < MergeFaults /\ faults' = faults + 1
  /\ Stop("error")
  /\ Copying /\ UNCHANGED <<cat, pos, copies>>

\* Faulty: the catalogue keeps the entries that were not read.
TailNothing(k) == cat
\* tail_catalogue_to_current_read: what was not read goes.
TailTo(k) == SubSeq(cat, 1, k)

\* Delayed between two entries, immediate while one is copied.
CancelCopy ==
  /\ pc = "copy" /\ faults < MergeFaults /\ faults' = faults + 1
  /\ \/ cat' = TailTo(pos) /\ Stop("cancelled")
     \/ pos < Len(cat) /\ ToCopy(pos + 1) /\ cat' = TailTo(pos + 1) /\ Stop("interrupted")
  /\ Copying /\ UNCHANGED <<pos, copies>>

Merged ==
  /\ pc = "copy" /\ pos = Len(cat)
  /\ Stop(IF abort THEN "cancelled" ELSE "done")
  /\ Copying /\ UNCHANGED <<cat, pos, copies, faults>>

Next ==
  \/ ReadNext \/ NextArchive \/ Selected \/ CancelSelection
  \/ LeaveDirectory \/ Exclude \/ CloneEntry
  \/ Judge \/ ChooseData \/ ChooseEA \/ Refuse \/ Unreadable
  \/ LoseDirectory \/ Preserve \/ Remove \/ Overwrite \/ Erase \/ Add
  \/ CopyNext \/ CopyFails \/ CancelCopy \/ Merged
MergeSpec == Init /\ [][Next]_vars

-----------------------------------------------------------------------------
(* Properties. *)

\* The reading of an archive, the path and both cursors of the catalogue under
\* construction are at the same place between two entries, however directories
\* met files and whatever was skipped.  After an error in a directory in
\* conflict the reading cursor stays in it: filtre.cpp:2159 does not move it.
CursorsInStep ==
  pc = "read" /\ st.errored = 0 =>
    /\ current_add = current_read
    /\ current_add = IF juillet.init THEN juillet.path ELSE Front(juillet.path)

\* corres_copy designates the inodes that have links in the catalogue and no
\* other: a clone made from it would otherwise refer to a destroyed inode.
MapIsLive ==
  pc \in {"read", "copy"} /\ st.errored = 0 /\ verdict = "none" =>
    /\ \A e \in DOMAIN corres : pc = "read" => \E k \in DOMAIN cat : Hard(cat[k]) /\ cat[k].i = corres[e]
    /\ \A k \in DOMAIN cat : Hard(cat[k]) => cat[k].etiq \in DOMAIN corres /\ corres[cat[k].etiq] = cat[k].i

\* When both archives were read, with no error.
Ended == pc = "copy" /\ pos = 0 /\ ~ abort /\ st.errored = 0

\* The count of entries treated and of hard links follows every removal of an
\* entry, or of a directory with all it holds, from the catalogue.
CountersFollowRemovals ==
  Ended /\ ~ opts.emptydir =>
    /\ st.treated = Len(cat)
    /\ ~ IsDecremental => st.hard_links = Cardinality({k \in DOMAIN cat : Hard(cat[k])})

\* The archive left by a cancellation is complete for what its catalogue still
\* lists: every entry has its directory, every saved inode its data, and EA.
TailIsComplete ==
  verdict = "cancelled" /\ pc = "end" /\ pos > 0 /\ cat # <<>> /\ stored # {} =>
    \A k \in DOMAIN cat :
      /\ Len(cat[k].path) = 1 \/ \E j \in 1..(k - 1) : cat[j].path = Front(cat[k].path) /\ IsDirAt(cat[j])
      /\ LET x == ino[cat[k].i]
         IN IsInode(x) /\ (x.saved = "saved" \/ x.ea = "full") => cat[k].i \in stored

\* Two entries are links to one inode in the merged archive when they were in
\* one of the archives, and only then.
Origin(n) == IF n.n <= Len(archs[1]) THEN <<1, archs[1][n.n].etiq>>
             ELSE <<2, archs[2][n.n - Len(archs[1])].etiq>>
LinksOfOneInode ==
  \A j, k \in DOMAIN cat :
    Hard(cat[j]) /\ Hard(cat[k]) /\ cat[j].i = cat[k].i => Origin(cat[j]) = Origin(cat[k])
=============================================================================
